-------------------------- MODULE LedgerCycleProofs --------------------------
(***************************************************************************)
(* Proofs about WaitLedger and WaitWindow: for every dump, every error of  *)
(* its lines and every length, the ledger is balanced and its waits        *)
(* partition the span; what a complete and exact dump says is what the     *)
(* thread did; and windows laid side by side add up.                       *)
(*                                                                         *)
(* And about Cycle, whatever the number of runs, jobs and cores.  The      *)
(* workers take the runs in the order they were submitted, never more than *)
(* `jobs` at once (CycleInv, Fifo and Room): two runs on one core are at   *)
(* least `Cores` runs apart, and so cannot all be busy between.            *)
(***************************************************************************)
EXTENDS WaitWindow, Cycle, SequenceTheorems, SumTheorems, TLAPS

(***************************************************************************)
(* The inductive invariant.  Mid-fold, the ledger balances up to the point *)
(* visited last; the points still to come are at or after it and within    *)
(* the span, whose end is among them.                                      *)
(***************************************************************************)
Untouched == previous = NoTime /\ runtime = 0 /\ skew = 0 /\ waits = NoWaits /\ slices = <<>>

Reading == phase = "read" => Untouched /\ first_ts = NoTime /\ left = {}

Ahead ==
  phase = "fold" =>
    /\ first_ts \in Nat /\ last_ts \in Nat /\ first_ts <= last_ts
    /\ \A j \in left : /\ first_ts <= series[j].ts /\ series[j].ts <= last_ts
                       /\ previous <= series[j].ts
    /\ previous = NoTime => \E a \in left : /\ Earliest(a, left)
                                            /\ series[a].ts = first_ts /\ series[a].delta = lead
    /\ IF left = {} THEN previous = last_ts ELSE \E j \in left : series[j].ts = last_ts

Opened == IF first_ts = NoTime THEN span = 0 ELSE last_ts # NoTime /\ span = last_ts - first_ts

Account ==
  IF previous = NoTime THEN Untouched
  ELSE /\ first_ts \in Nat /\ first_ts <= previous /\ previous <= last_ts
       /\ runtime + Waited = (previous - first_ts) + lead + skew

FoldEnded == phase = "done" => previous = IF first_ts = NoTime THEN NoTime ELSE last_ts

Tiles ==
  /\ \A k \in DOMAIN slices : /\ first_ts <= slices[k].start
                              /\ slices[k].start < slices[k].end
                              /\ slices[k].end <= previous
  /\ \A k, m \in DOMAIN slices : k < m => slices[k].end <= slices[m].start

LedgerInv == LedgerTypeOK /\ Reading /\ Ahead /\ Opened /\ Account /\ FoldEnded /\ Tiles

-----------------------------------------------------------------------------
(* The lines: what they add to the series are accounting points.           *)

LEMMA PointAdded ==
  ASSUME NEW ser \in Seq(Point), NEW t \in Nat, NEW d \in Nat
  PROVE  AddPoint(ser, t, d) \in Seq(Point)
<1>1. [ts |-> t, delta |-> d, state |-> "none"] \in Point
  BY DEF Point, Waits
<1> QED BY <1>1, AppendProperties DEF AddPoint

LEMMA SwitchAdded ==
  ASSUME NEW ser \in Seq(Point), NEW t \in Nat, NEW s \in Waits
  PROVE  AddSwitch(ser, t, s) \in Seq(Point)
<1>1. [ts |-> t, delta |-> 0, state |-> s] \in Point
  BY DEF Point
<1>2. Append(ser, [ts |-> t, delta |-> 0, state |-> s]) \in Seq(Point)
  BY <1>1, AppendProperties
<1>3. CASE ser # <<>>
  <2>1. Len(ser) \in DOMAIN ser /\ ser[Len(ser)] \in Point
    BY <1>3
  <2>2. [ser[Len(ser)] EXCEPT !.state = s] \in Point
    BY <2>1 DEF Point
  <2>3. [ser EXCEPT ![Len(ser)].state = s] \in Seq(Point)
    BY <2>1, <2>2, ExceptSeq DEF Point
  <2> QED BY <1>2, <2>3 DEF AddSwitch
<1> QED BY <1>2, <1>3 DEF AddSwitch

LEMMA RuntimeAdded ==
  ASSUME NEW ser \in Seq(Point), NEW t \in Nat, NEW kept \in BOOLEAN, NEW e \in Skews,
         thr.from \in Nat
  PROVE  WithRuntime(ser, t, kept, e) \in Seq(Point)
<1>1. e \in Nat
  BY LedgerAssumption
<1>2. t > thr.from => t - thr.from + e \in Nat
  BY <1>1
<1> QED BY <1>2, PointAdded DEF WithRuntime

-----------------------------------------------------------------------------
(* Types.                                                                  *)

LEMMA SettleType ==
  ASSUME ThreadOK, NEW t \in Nat, NEW fine \in BOOLEAN, Settle(t, fine)
  PROVE  /\ faults' \in 0..MaxFaults
         /\ trueCpu' \in Int
         /\ trueWait' \in [Waits -> Int]
<1>1. faults' \in 0..MaxFaults
  BY LedgerAssumption DEF ThreadOK, Settle
<1>2. CASE UNCHANGED <<trueCpu, trueWait>>
  BY <1>1, <1>2 DEF ThreadOK
<1>3. CASE trueCpu' = 0 /\ trueWait' = NoWaits
  BY <1>1, <1>3 DEF NoWaits
<1>4. CASE /\ trueCpu' = trueCpu + (t - thr.from)
           /\ trueWait' = [trueWait EXCEPT ![thr.why] = @ + thr.owed]
  <2>1. thr.from \in Int /\ thr.why \in Waits /\ thr.owed \in Int
    BY DEF ThreadOK
  <2>2. trueCpu' \in Int
    BY <1>4, <2>1 DEF ThreadOK
  <2>3. trueWait' \in [Waits -> Int]
    BY <1>4, <2>1 DEF ThreadOK
  <2> QED BY <1>1, <2>2, <2>3
<1> QED BY <1>2, <1>3, <1>4 DEF Settle

\* While the dump is read, a line leaves the fold alone.
LEMMA ReadKeeps ==
  ASSUME LedgerInv, ThreadOK', DumpOK', UNCHANGED foldVars, phase = "read"
  PROVE  LedgerInv'
<1>1. FoldOK'
  BY DEF LedgerInv, LedgerTypeOK, FoldOK, Reading, foldVars
<1>2. Reading' /\ Ahead' /\ Opened' /\ FoldEnded' /\ Tiles'
  BY DEF LedgerInv, Reading, Ahead, Opened, FoldEnded, Tiles, Untouched, NoWaits, foldVars
<1>3. Account'
  BY DEF LedgerInv, Account, Reading, Untouched, NoWaits, foldVars
<1> QED BY <1>1, <1>2, <1>3 DEF LedgerInv, LedgerTypeOK

LEMMA TickKeeps ==
  ASSUME LedgerInv, phase = "read", NEW t \in Nat, NEW kept \in BOOLEAN, NEW e \in Skews,
         Tick(t, kept, e)
  PROVE  LedgerInv'
<1> USE DEF LedgerInv, LedgerTypeOK
<1>1. ThreadOK'
  <2>1. faults' \in 0..MaxFaults /\ trueCpu' \in Int /\ trueWait' \in [Waits -> Int]
    BY SettleType DEF Tick
  <2> QED BY <2>1 DEF Tick, ThreadOK, Thread
<1>2. DumpOK'
  <2>1. thr.from \in Nat
    BY DEF ThreadOK
  <2> QED BY <2>1, RuntimeAdded DEF Tick, DumpOK
<1> QED BY <1>1, <1>2, ReadKeeps DEF Tick

LEMMA SwitchOutKeeps ==
  ASSUME LedgerInv, phase = "read", NEW t \in Nat, NEW s \in Waits, NEW lag \in Lags,
         NEW kept \in BOOLEAN, NEW said \in BOOLEAN, NEW e \in Skews,
         SwitchOut(t, s, lag, kept, said, e)
  PROVE  LedgerInv'
<1> USE DEF LedgerInv, LedgerTypeOK
<1>1. lag \in Nat /\ t + lag \in Nat
  BY LedgerAssumption
<1>2. ThreadOK'
  <2>1. faults' \in 0..MaxFaults /\ trueCpu' \in Int /\ trueWait' \in [Waits -> Int]
    BY SettleType DEF SwitchOut
  <2> QED BY <1>1, <2>1 DEF SwitchOut, ThreadOK, Thread
<1>3. DumpOK'
  <2> DEFINE ser == WithRuntime(series, t, kept, e)
  <2>1. thr.from \in Nat
    BY DEF ThreadOK
  <2>2. ser \in Seq(Point)
    BY <2>1, RuntimeAdded DEF DumpOK
  <2>3. AddSwitch(ser, t + lag, s) \in Seq(Point)
    BY <1>1, <2>2, SwitchAdded
  <2> QED BY <2>2, <2>3 DEF SwitchOut, DumpOK
<1> QED BY <1>2, <1>3, ReadKeeps DEF SwitchOut

LEMMA OthersKeep ==
  ASSUME LedgerInv, phase = "read", NEW t \in Nat, NEW said \in BOOLEAN,
         SwitchIn(t) \/ Reborn(t) \/ Exit(t, said)
  PROVE  LedgerInv'
<1> USE DEF LedgerInv, LedgerTypeOK
<1>1. CASE SwitchIn(t)
  <2>1. ThreadOK' /\ DumpOK'
    BY <1>1 DEF SwitchIn, ThreadOK, DumpOK, dumpVars, Thread
  <2> QED BY <1>1, <2>1, ReadKeeps DEF SwitchIn
<1>2. CASE Reborn(t)
  <2>1. ThreadOK' /\ DumpOK'
    BY <1>2 DEF Reborn, ThreadOK, DumpOK, dumpVars, Waits, Thread
  <2> QED BY <1>2, <2>1, ReadKeeps DEF Reborn
<1>3. CASE Exit(t, said)
  <2>1. faults' \in 0..MaxFaults /\ trueCpu' \in Int /\ trueWait' \in [Waits -> Int]
    BY <1>3, SettleType DEF Exit
  <2>2. ThreadOK'
    BY <1>3, <2>1 DEF Exit, ThreadOK, Thread
  <2>3. DumpOK'
    BY <1>3, PointAdded DEF Exit, DumpOK
  <2> QED BY <1>3, <2>2, <2>3, ReadKeeps DEF Exit
<1> QED BY <1>1, <1>2, <1>3

-----------------------------------------------------------------------------
(* The fold.                                                               *)

LEMMA LedgerInit == Init => LedgerInv
<1> SUFFICES ASSUME Init PROVE LedgerInv
  OBVIOUS
<1>1. ThreadOK
  <2>1. thr \in [st : {"on", "off", "dying", "dead"}, from : Nat, why : Waits, owed : Int]
    BY DEF Init, Thread, Waits
  <2>2. trueWait \in [Waits -> Int]
    BY DEF Init, NoWaits
  <2>3. faults \in 0..MaxFaults
    BY LedgerAssumption DEF Init
  <2>4. ours \in BOOLEAN /\ burst \in BOOLEAN
    BY DEF Init
  <2>5. now \in Nat /\ life \in {1, 2} /\ trueCpu \in Int
    BY DEF Init
  <2> QED BY <2>1, <2>2, <2>3, <2>4, <2>5 DEF ThreadOK
<1>2. DumpOK
  BY EmptySeq DEF Init, DumpOK
<1>3. FoldOK
  <2>1. waits \in [Waits -> Nat]
    BY DEF Init, NoWaits
  <2>2. slices \in Seq(Slice)
    BY EmptySeq DEF Init
  <2> QED BY <2>1, <2>2 DEF Init, FoldOK, Waits
<1>4. Reading /\ Ahead /\ Opened /\ Account /\ FoldEnded /\ Tiles
  BY DEF Init, Reading, Ahead, Opened, Account, FoldEnded, Tiles, Untouched
<1> QED BY <1>1, <1>2, <1>3, <1>4 DEF LedgerInv, LedgerTypeOK

LEMMA EndOfDumpType ==
  ASSUME LedgerInv, EndOfDump
  PROVE  ThreadOK' /\ DumpOK'
BY DEF LedgerInv, LedgerTypeOK, ThreadOK, DumpOK, EndOfDump, dumpVars, Thread, Waits

LEMMA DropKeeps ==
  ASSUME LedgerInv, Drop
  PROVE  LedgerInv'
<1> USE DEF LedgerInv, LedgerTypeOK
<1>1. ThreadOK' /\ DumpOK'
  BY EndOfDumpType DEF Drop
<1>2. FoldOK'
  BY DEF Drop, FoldOK, EndOfDump, dumpVars
<1>3. Reading' /\ Ahead' /\ Opened' /\ Account' /\ FoldEnded' /\ Tiles'
  BY DEF Drop, Reading, Ahead, Opened, Account, FoldEnded, Tiles, Untouched, NoWaits
<1> QED BY <1>1, <1>2, <1>3

LEMMA StartKeeps ==
  ASSUME LedgerInv, NEW a \in DOMAIN series, NEW b \in DOMAIN series, Start(a, b)
  PROVE  LedgerInv'
<1> USE DEF LedgerInv, LedgerTypeOK
<1>1. ThreadOK' /\ DumpOK'
  BY EndOfDumpType DEF Start
<1>2. Cut \subseteq DOMAIN series /\ a \in Cut /\ b \in Cut
  BY DEF Cut, Start, Earliest
<1>3. \A j \in Cut : /\ series[j].ts \in Nat /\ series[j].delta \in Nat
                     /\ series[a].ts <= series[j].ts /\ series[j].ts <= series[b].ts
  <2>1. \A j \in DOMAIN series : series[j] \in Point
    BY ElementOfSeq DEF DumpOK
  <2>2. \A j \in Cut : series[j].ts \in Nat /\ series[j].delta \in Nat
    BY <1>2, <2>1 DEF Point
  <2>3. \A j \in Cut : series[a].ts <= series[j].ts
    BY <1>2, <2>2 DEF Start, Earliest
  <2> QED BY <2>2, <2>3 DEF Start
<1>4. FoldOK'
  <2>1. span' \in Nat
    BY <1>2, <1>3 DEF Start
  <2> QED BY <1>2, <1>3, <2>1 DEF Start, FoldOK, EndOfDump, dumpVars
<1>5. Untouched' /\ first_ts' = series[a].ts /\ last_ts' = series[b].ts
      /\ span' = series[b].ts - series[a].ts
  BY DEF Start, Reading, Untouched, NoWaits
<1>6. Ahead'
  <2>1. left' = Cut /\ series' = series /\ previous' = -1
    BY <1>5 DEF Start, EndOfDump, dumpVars, Untouched, NoTime
  <2>2. Earliest(a, left)'
    BY <2>1 DEF Start, Earliest
  <2>3. series'[a].ts = first_ts' /\ series'[a].delta = lead'
    BY <2>1 DEF Start
  <2>4. \A j \in left' : /\ first_ts' <= series'[j].ts /\ series'[j].ts <= last_ts'
                         /\ previous' <= series'[j].ts
    BY <1>3, <1>5, <2>1
  <2>5. first_ts' \in Nat /\ last_ts' \in Nat /\ first_ts' <= last_ts'
    BY <1>2, <1>3, <1>5
  <2>6. left' # {} /\ \E j \in left' : series'[j].ts = last_ts'
    BY <1>2, <1>5, <2>1
  <2> QED BY <1>2, <2>1, <2>2, <2>3, <2>4, <2>5, <2>6 DEF Ahead
<1>7. Opened'
  BY <1>2, <1>3, <1>5 DEF Opened, NoTime
<1>8. Reading' /\ Account' /\ FoldEnded'
  BY <1>5 DEF Start, Reading, Account, FoldEnded, Untouched
<1>9. Tiles'
  BY <1>5 DEF Tiles, Untouched
<1> QED BY <1>1, <1>4, <1>6, <1>7, <1>8, <1>9

LEMMA FinishKeeps ==
  ASSUME LedgerInv, Finish
  PROVE  LedgerInv'
<1> USE DEF LedgerInv, LedgerTypeOK
<1>1. ThreadOK' /\ DumpOK' /\ FoldOK'
  BY DEF Finish, ThreadOK, DumpOK, FoldOK, threadVars, dumpVars
<1>2. Reading' /\ Ahead' /\ Opened' /\ Account' /\ Tiles'
  BY DEF Finish, Reading, Ahead, Opened, Account, Tiles, Untouched, Waited, NoWaits
<1>3. FoldEnded'
  BY DEF Finish, Ahead, FoldEnded, NoTime
<1> QED BY <1>1, <1>2, <1>3

\* The gap before a visited point moves its length into the waits, or what its
\* runtime overdraws into the skew: the CPU and the waits grow with the clock.
LEMMA GapAccounts ==
  ASSUME FoldOK, previous \in Nat, NEW off \in Int, Gap(off)
  PROVE  /\ waits' \in [Waits -> Nat] /\ skew' \in Nat
         /\ Waited' - skew' = Waited - skew + off
<1>1. CASE off < 0
  <2>1. waits' = waits /\ skew' = skew - off
    BY <1>1 DEF Gap
  <2>2. waits \in [Waits -> Nat] /\ skew \in Nat
    BY DEF FoldOK
  <2>3. Waited \in Nat /\ Waited' = Waited
    BY <2>1, <2>2 DEF Waited, Waits
  <2> QED BY <1>1, <2>1, <2>2, <2>3
<1>2. CASE off > 0
  <2>1. waits' = [waits EXCEPT ![off_start] = waits[off_start] + off] /\ skew' = skew
    BY <1>2 DEF Gap, Charge
  <2>2. off_start \in {"none", "S", "D", "R", "T"} /\ waits \in [Waits -> Nat] /\ skew \in Nat
    BY DEF FoldOK, Waits
  <2>3. waits' \in [Waits -> Nat]
    <3>1. off_start \in Waits /\ waits[off_start] + off \in Nat
      BY <1>2, <2>2 DEF Waits
    <3> QED BY <2>1, <2>2, <3>1
  <2>4. Waited' = Waited + off
    <3>1. \A w \in Waits : waits[w] \in Nat
      BY <2>2
    <3>2. \A w \in Waits : waits'[w] = IF w = off_start THEN waits[w] + off ELSE waits[w]
      BY <2>1, <2>2
    <3> QED BY <2>2, <3>1, <3>2 DEF Waited, Waits
  <2>5. Waited \in Nat
    BY <2>2 DEF Waited, Waits
  <2> QED BY <2>1, <2>2, <2>3, <2>4, <2>5
<1>3. CASE off = 0
  BY <1>3 DEF FoldOK, Gap, Waited, Waits
<1> QED BY <1>1, <1>2, <1>3

\* The slice it leaves behind starts where the gap does, and ends inside it.
LEMMA GapTiles ==
  ASSUME FoldOK, Tiles, previous \in Nat, NEW off \in Int, Gap(off), previous' \in Nat,
         previous + off <= previous', previous <= previous', first_ts \in Nat,
         first_ts <= previous, first_ts' = first_ts
  PROVE  slices' \in Seq(Slice) /\ Tiles'
<1>1. CASE off <= 0
  <2>1. slices' = slices
    BY <1>1 DEF Gap
  <2>2. \A k \in DOMAIN slices : slices[k].end \in Nat
    <3>1. \A k \in DOMAIN slices : slices[k] \in Slice
      BY ElementOfSeq DEF FoldOK
    <3> QED BY <3>1 DEF Slice
  <2>3. \A k \in DOMAIN slices : slices[k].end <= previous'
    BY <2>2 DEF Tiles
  <2> QED BY <2>1, <2>3 DEF FoldOK, Tiles
<1>2. CASE off > 0
  <2> DEFINE new == [start |-> previous, end |-> previous + off, state |-> off_start]
  <2>1. slices' = Append(slices, new)
    BY <1>2 DEF Gap, Charge
  <2>2. new \in Slice
    BY <1>2 DEF FoldOK, Slice
  <2>3. slices \in Seq(Slice)
    BY DEF FoldOK
  <2>4. /\ slices' \in Seq(Slice)
        /\ Len(slices') = Len(slices) + 1
        /\ \A k \in 1..Len(slices) : slices'[k] = slices[k]
        /\ slices'[Len(slices) + 1] = new
    <3> HIDE DEF new
    <3> QED BY <2>1, <2>2, <2>3, AppendProperties
  <2>5. \A k \in 1..Len(slices) : /\ slices[k].start \in Nat /\ slices[k].end \in Nat
                                  /\ first_ts <= slices[k].start
                                  /\ slices[k].start < slices[k].end
                                  /\ slices[k].end <= previous
    <3>1. \A k \in 1..Len(slices) : slices[k] \in Slice
      BY <2>3, ElementOfSeq
    <3> QED BY <2>3, <3>1 DEF Tiles, Slice
  <2>6. \A k, m \in 1..Len(slices) : k < m => slices[k].end <= slices[m].start
    <3>1. DOMAIN slices = 1..Len(slices)
      BY <2>3
    <3> QED BY <3>1 DEF Tiles
  <2>7. new.start = previous /\ new.end = previous + off
    OBVIOUS
  <2>8. DOMAIN slices' = 1..(Len(slices) + 1) /\ Len(slices) \in Nat
    BY <2>3, <2>4
  <2>9. \A k \in DOMAIN slices' : /\ first_ts <= slices'[k].start
                                  /\ slices'[k].start < slices'[k].end
                                  /\ slices'[k].end <= previous'
    <3> TAKE k \in DOMAIN slices'
    <3>1. CASE k \in 1..Len(slices)
      <4>1. slices'[k] = slices[k] /\ slices[k].end \in Nat /\ slices[k].end <= previous
        BY <2>4, <2>5, <3>1
      <4> QED BY <2>5, <3>1, <4>1
    <3>2. CASE k = Len(slices) + 1
      BY <1>2, <2>4, <2>7, <3>2
    <3> QED BY <2>8, <3>1, <3>2
  <2>10. ASSUME NEW k \in DOMAIN slices', NEW m \in DOMAIN slices', k < m
         PROVE  slices'[k].end <= slices'[m].start
    <3>1. k \in 1..Len(slices)
      BY <2>8, <2>10
    <3>2. CASE m \in 1..Len(slices)
      BY <2>4, <2>6, <2>10, <3>1, <3>2
    <3>3. CASE m = Len(slices) + 1
      BY <2>4, <2>5, <2>7, <3>1, <3>3
    <3> QED BY <2>8, <3>2, <3>3
  <2> QED BY <2>4, <2>9, <2>10 DEF Tiles
<1> QED BY <1>1, <1>2

LEMMA VisitKeeps ==
  ASSUME LedgerInv, NEW i \in DOMAIN series, Visit(i)
  PROVE  LedgerInv'
<1> USE DEF LedgerInv, LedgerTypeOK
<1> DEFINE off == series[i].ts - previous - series[i].delta
<1>1. ThreadOK' /\ DumpOK'
  BY DEF Visit, ThreadOK, DumpOK, threadVars, dumpVars
<1>2. \A j \in DOMAIN series : /\ series[j].ts \in Nat /\ series[j].delta \in Nat
                               /\ series[j].state \in Waits
  <2>1. \A j \in DOMAIN series : series[j] \in Point
    BY ElementOfSeq DEF DumpOK
  <2> QED BY <2>1 DEF Point
<1>3. /\ phase = "fold" /\ phase' = "fold" /\ i \in left /\ left' = left \ {i}
      /\ series' = series /\ first_ts' = first_ts /\ last_ts' = last_ts
      /\ span' = span /\ lead' = lead /\ previous' = series[i].ts
      /\ runtime' = runtime + series[i].delta /\ off_start' = series[i].state
  BY DEF Visit, Earliest, dumpVars
<1>4. \A j \in left : j \in DOMAIN series /\ series[i].ts <= series[j].ts
  <2>1. left \subseteq DOMAIN series
    BY DEF FoldOK
  <2>2. \A j \in left : series[i].ts < series[j].ts \/ series[i].ts = series[j].ts
    BY DEF Visit, Earliest
  <2> QED BY <1>2, <2>1, <2>2
<1>5. /\ first_ts \in Nat /\ last_ts \in Nat
      /\ \A j \in left : /\ first_ts <= series[j].ts /\ series[j].ts <= last_ts
                         /\ previous <= series[j].ts
  BY <1>3 DEF Ahead
<1>6. previous' \in Nat /\ first_ts <= previous' /\ previous' <= last_ts /\ previous <= previous'
  BY <1>2, <1>3, <1>5
<1>7. Ahead'
  <2>1. \A j \in left' : /\ first_ts <= series[j].ts /\ series[j].ts <= last_ts
                         /\ previous' <= series[j].ts
    BY <1>3, <1>4, <1>5
  <2>2. previous' # NoTime
    BY <1>6 DEF NoTime
  <2>3. PICK j \in left : series[j].ts = last_ts
    BY <1>3 DEF Ahead
  <2>4. CASE left' = {}
    <3>1. j = i
      BY <1>3, <2>3, <2>4
    <3> QED BY <1>3, <1>5, <1>6, <2>1, <2>2, <2>3, <2>4, <3>1 DEF Ahead
  <2>5. CASE left' # {}
    <3>1. CASE j \in left'
      BY <1>3, <1>5, <1>6, <2>1, <2>2, <2>3, <2>5, <3>1 DEF Ahead
    <3>2. CASE j = i
      <4>1. PICK m \in left' : TRUE
        BY <2>5
      <4>2. series[m].ts = last_ts
        BY <1>2, <1>3, <1>4, <1>5, <2>3, <3>2, <4>1
      <4> QED BY <1>3, <1>5, <1>6, <2>1, <2>2, <2>5, <4>1, <4>2 DEF Ahead
    <3> QED BY <1>3, <2>3, <3>1, <3>2
  <2> QED BY <2>4, <2>5
<1>8. Reading' /\ Opened' /\ FoldEnded'
  BY <1>3 DEF Reading, Opened, FoldEnded
<1>9. CASE previous = NoTime
  <2>1. waits' = NoWaits /\ skew' = 0 /\ slices' = <<>> /\ runtime = 0
    BY <1>9 DEF Visit, Account, Untouched
  <2>2. PICK a \in left : Earliest(a, left) /\ series[a].ts = first_ts /\ series[a].delta = lead
    BY <1>3, <1>9 DEF Ahead
  <2>3. a = i
    <3>1. i \in Nat /\ a \in Nat
      BY <1>4 DEF DumpOK
    <3>2. /\ series[i].ts < series[a].ts \/ (series[i].ts = series[a].ts /\ i <= a)
          /\ series[a].ts < series[i].ts \/ (series[a].ts = series[i].ts /\ a <= i)
      BY <1>3, <2>2 DEF Visit, Earliest
    <3> QED BY <1>2, <1>4, <2>2, <3>1, <3>2
  <2>4. Waited' = 0
    BY <2>1 DEF Waited, NoWaits, Waits
  <2>5. Account'
    <3>1. previous' = first_ts /\ runtime' = lead /\ lead \in Nat
      BY <1>2, <1>3, <2>1, <2>2, <2>3
    <3> QED BY <1>3, <1>5, <1>6, <2>1, <2>4, <3>1 DEF Account, NoTime
  <2>6. Tiles'
    BY <2>1 DEF Tiles
  <2>7. waits' \in [Waits -> Nat]
    BY <2>1 DEF NoWaits
  <2>8. slices' \in Seq(Slice)
    BY ONLY <2>1, EmptySeq
  <2>9. FoldOK'
    BY <1>2, <1>3, <1>6, <2>1, <2>7, <2>8 DEF FoldOK
  <2> QED BY <1>1, <1>7, <1>8, <2>5, <2>6, <2>9
<1>10. CASE previous # NoTime
  <2>1. previous \in Nat /\ first_ts <= previous
        /\ runtime + Waited = (previous - first_ts) + lead + skew
    BY <1>10 DEF Account, FoldOK
  <2>2. Gap(off) /\ off \in Int /\ previous + off <= previous'
    BY <1>2, <1>3, <1>10, <2>1 DEF Visit
  <2> HIDE DEF off
  <2>3. /\ waits' \in [Waits -> Nat] /\ skew' \in Nat
        /\ Waited' - skew' = Waited - skew + off
    BY <2>1, <2>2, GapAccounts
  <2>4. slices' \in Seq(Slice) /\ Tiles'
    BY <1>3, <1>5, <1>6, <2>1, <2>2, GapTiles
  <2>5. FoldOK'
    <3>1. /\ phase' \in {"read", "fold", "done"} /\ left' \subseteq DOMAIN series'
          /\ off_start' \in Waits
          /\ first_ts' \in Nat \cup {NoTime} /\ last_ts' \in Nat \cup {NoTime}
          /\ span' \in Nat /\ lead' \in Nat /\ runtime' \in Nat
      BY <1>2, <1>3, <1>5 DEF FoldOK
    <3> QED BY <1>6, <2>3, <2>4, <3>1 DEF FoldOK
  <2>6. Waited \in Int /\ Waited' \in Int
    <3>1. \A w \in Waits : waits[w] \in Nat /\ waits'[w] \in Nat
      BY <2>3 DEF FoldOK
    <3> QED BY <3>1 DEF Waited, Waits
  <2>7. runtime' + Waited' = (previous' - first_ts) + lead + skew'
    <3>1. off = previous' - previous - series[i].delta
      BY <1>3 DEF off
    <3>2. runtime \in Nat /\ lead \in Nat /\ skew \in Nat /\ series[i].delta \in Nat
      BY <1>2 DEF FoldOK
    <3>3. runtime' = runtime + series[i].delta /\ first_ts \in Nat
      BY <1>3, <1>5
    <3> QED BY <1>6, <2>1, <2>3, <2>6, <3>1, <3>2, <3>3
  <2>8. Account'
    BY <1>3, <1>5, <1>6, <2>7 DEF Account, NoTime
  <2> QED BY <1>1, <1>7, <1>8, <2>4, <2>5, <2>8
<1> QED BY <1>9, <1>10

-----------------------------------------------------------------------------
LEMMA LedgerStep == LedgerInv /\ [Next]_vars => LedgerInv'
<1> SUFFICES ASSUME LedgerInv, [Next]_vars PROVE LedgerInv'
  OBVIOUS
<1>1. CASE Scheduler
  <2>1. phase = "read"
    BY <1>1 DEF Scheduler
  <2>2. PICK t \in now..MaxTime :
          \/ SwitchIn(t) \/ Reborn(t)
          \/ \E said \in BOOLEAN : Exit(t, said)
          \/ \E kept \in BOOLEAN, e \in Skews : Tick(t, kept, e)
          \/ \E s \in States \cup {"T"}, lag \in Lags, kept, said \in BOOLEAN, e \in Skews :
               SwitchOut(t, s, lag, kept, said, e)
    BY <1>1 DEF Scheduler
  <2>3. t \in Nat
    BY LedgerAssumption DEF LedgerInv, LedgerTypeOK, ThreadOK
  <2>4. States \cup {"T"} \subseteq Waits
    BY LedgerAssumption DEF Waits
  <2>5. CASE SwitchIn(t) \/ Reborn(t) \/ \E said \in BOOLEAN : Exit(t, said)
    BY <2>1, <2>3, <2>5, OthersKeep
  <2>6. CASE \E kept \in BOOLEAN, e \in Skews : Tick(t, kept, e)
    BY <2>1, <2>3, <2>6, TickKeeps
  <2>7. CASE \E s \in States \cup {"T"}, lag \in Lags, kept, said \in BOOLEAN, e \in Skews :
               SwitchOut(t, s, lag, kept, said, e)
    BY <2>1, <2>3, <2>4, <2>7, SwitchOutKeeps
  <2> QED BY <2>2, <2>5, <2>6, <2>7
<1>2. CASE Fold
  BY <1>2, DropKeeps, FinishKeeps, StartKeeps, VisitKeeps DEF Fold
<1>3. CASE UNCHANGED vars
  <2> USE <1>3 DEF vars, LedgerInv, LedgerTypeOK
  <2>1. ThreadOK' /\ DumpOK' /\ FoldOK'
    BY DEF threadVars, dumpVars, foldVars, ThreadOK, DumpOK, FoldOK
  <2>2. Reading' /\ Opened' /\ FoldEnded' /\ Tiles'
    BY DEF foldVars, Reading, Untouched, Opened, FoldEnded, Tiles
  <2>3. Ahead'
    BY DEF dumpVars, foldVars, Ahead, Earliest
  <2>4. Account'
    BY DEF foldVars, Account, Untouched, Waited
  <2> QED BY <2>1, <2>2, <2>3, <2>4
<1> QED BY <1>1, <1>2, <1>3 DEF Next, Over

\* The inductive invariant holds throughout, for any windows, errors and bounds.
THEOREM LedgerInvariant == Spec => []LedgerInv
BY LedgerInit, LedgerStep, PTL DEF Spec

\* Type correctness of the reader, the fold and the scheduler behind the dump.
THEOREM LedgerTypeCorrect == Spec => []LedgerTypeOK
<1>1. LedgerInv => LedgerTypeOK
  BY DEF LedgerInv
<1> QED BY <1>1, LedgerInvariant, PTL

\* Every tick of a thread's span is charged exactly once, as CPU or as a wait.
THEOREM LedgerBalances == Spec => []Balanced
<1>1. LedgerInv => Balanced
  BY DEF LedgerInv, LedgerTypeOK, FoldOK, Balanced, Account, Opened, FoldEnded, NoTime
<1> QED BY <1>1, LedgerInvariant, PTL

\* The slices are intervals of the span, in order and disjoint.
THEOREM WaitsPartitionSpan == Spec => []SlicesPartition
<1>1. LedgerInv => SlicesPartition
  <2> SUFFICES ASSUME LedgerInv PROVE SlicesPartition
    OBVIOUS
  <2>1. CASE previous = NoTime
    BY <2>1 DEF LedgerInv, Account, Untouched, SlicesPartition
  <2>2. CASE previous # NoTime
    <3>1. /\ first_ts \in Nat /\ previous \in Nat /\ previous <= last_ts /\ last_ts \in Int
      BY <2>2 DEF LedgerInv, LedgerTypeOK, FoldOK, Account, NoTime
    <3>2. \A k \in DOMAIN slices : slices[k] \in Slice
      BY ElementOfSeq DEF LedgerInv, LedgerTypeOK, FoldOK
    <3>3. \A k \in DOMAIN slices : slices[k].end \in Nat
      BY <3>2 DEF Slice
    <3> QED BY <3>1, <3>3 DEF LedgerInv, Tiles, SlicesPartition
  <2> QED BY <2>1, <2>2
<1> QED BY <1>1, LedgerInvariant, PTL

-----------------------------------------------------------------------------
(***************************************************************************)
(* The ledger of an exact dump.  The truth is settled while the dump is    *)
(* read, the ledger is charged after it: the invariant has to say at every *)
(* line what the fold of the points so far will come to.  R and W are that *)
(* fold spelled out - the CPU and the waits the first i points account     *)
(* for - and the truth is always their last entry.                         *)
(***************************************************************************)
\* The part of the gap before the i-th point its delta leaves to the wait.
GapAt(ser, i) == ser[i].ts - ser[i - 1].ts - ser[i].delta

\* R and W are the fold of the first c points, which overdraw no gap.
Told(ser, c, R, W) ==
  /\ R \in [0..c -> Int] /\ W \in [0..c -> [Waits -> Int]]
  /\ R[0] = 0 /\ W[0] = NoWaits
  /\ \A i \in 1..c : R[i] = R[i - 1] + ser[i].delta
  /\ 1 \in 1..c => W[1] = NoWaits
  /\ \A i \in 2..c : /\ GapAt(ser, i) >= 0
                     /\ W[i] = [W[i - 1] EXCEPT ![ser[i - 1].state] = @ + GapAt(ser, i)]

\* The charge of one gap.
LEMMA ToldGap ==
  ASSUME NEW ser, NEW c, NEW R, NEW W, Told(ser, c, R, W), NEW i \in 2..c
  PROVE  /\ GapAt(ser, i) >= 0
         /\ W[i] = [W[i - 1] EXCEPT ![ser[i - 1].state] = @ + GapAt(ser, i)]
BY DEF Told

\* The exit cuts the series after its first c points.
Keeps(ser, x, c) ==
  /\ c \in 0..Len(ser)
  /\ \A i \in 1..Len(ser) : i <= c <=> x = NoTime \/ ser[i].ts <= x

InOrder(ser) == \A i, j \in 1..Len(ser) : i < j => ser[i].ts <= ser[j].ts

Last == series[Len(series)]

\* What the thread owes the ledger since its last point.
Owes ==
  /\ thr.st = "on" /\ life = 1 =>
       IF series = <<>> THEN thr.owed = 0
       ELSE /\ thr.from = Last.ts + thr.owed /\ thr.owed \in Nat
            /\ thr.owed > 0 => thr.why = Last.state
  /\ thr.st = "off" /\ life = 1 /\ series # <<>> => thr.from = Last.ts /\ thr.why = Last.state
  /\ thr.st = "dying" => exit_ts = thr.from /\ life = 1 /\ series # <<>> /\ Last.ts = exit_ts

\* The exit record marks the death, and is one of the points.
Exited ==
  /\ exit_ts = NoTime <=> life = 1 /\ thr.st \in {"on", "off"}
  /\ exit_ts # NoTime => exit_ts <= now /\ \E i \in 1..Len(series) : series[i].ts = exit_ts
  /\ life = 2 => exit_ts < thr.from
  /\ thr.from <= now
  /\ switched => series # <<>>

\* While the dump is read: the points up to the exit tell the truth so far.
TrueRead ==
  /\ InOrder(series) /\ \A i \in 1..Len(series) : series[i].ts <= now
  /\ Owes /\ Exited
  /\ \E c \in Nat : \E R, W : /\ Keeps(series, exit_ts, c) /\ Told(series, c, R, W)
                               /\ R[c] = trueCpu /\ W[c] = trueWait

\* Mid-fold, k of those points are charged and the rest are left.
TrueFold ==
  /\ InOrder(series) /\ skew = 0
  /\ \E c, k \in Nat : \E R, W :
       /\ Keeps(series, exit_ts, c) /\ Told(series, c, R, W)
       /\ R[c] = trueCpu /\ W[c] = trueWait
       /\ k <= c /\ left = (k + 1)..c /\ runtime = R[k] /\ waits = W[k]
       /\ k = 0 => previous = NoTime
       /\ k > 0 => previous = series[k].ts /\ off_start = series[k].state

TrueInv == Exact /\ ~burst => /\ phase = "read" => TrueRead
                              /\ phase = "fold" => TrueFold
                              /\ LedgerIsTrue

\* The switch is printed within the pairing window of the runtime before it.
Paired == \A l \in Lags : l <= Pair

-----------------------------------------------------------------------------
(* What a fold spelled out survives.                                        *)

LEMMA PointTypes ==
  ASSUME NEW ser \in Seq(Point)
  PROVE  /\ Len(ser) \in Nat /\ DOMAIN ser = 1..Len(ser)
         /\ \A i \in 1..Len(ser) : /\ ser[i].ts \in Nat /\ ser[i].delta \in Nat
                                   /\ ser[i].state \in Waits
<1>1. \A i \in 1..Len(ser) : ser[i] \in Point
  BY ElementOfSeq
<1> QED BY <1>1 DEF Point

\* The state of the last point is not in it.
LEMMA ToldWithin ==
  ASSUME NEW s1, NEW s2, NEW c \in Nat, NEW R, NEW W, Told(s1, c, R, W),
         \A i \in 1..c : s2[i].ts = s1[i].ts /\ s2[i].delta = s1[i].delta,
         \A i \in 1..c : i < c => s2[i].state = s1[i].state
  PROVE  Told(s2, c, R, W)
<1>1. \A i \in 1..c : R[i] = R[i - 1] + s2[i].delta
  BY DEF Told
<1>2. ASSUME NEW i \in 2..c
      PROVE  /\ GapAt(s2, i) >= 0
             /\ W[i] = [W[i - 1] EXCEPT ![s2[i - 1].state] = @ + GapAt(s2, i)]
  <2>1. i \in 1..c /\ i - 1 \in 1..c /\ i - 1 < c
    BY <1>2
  <2>2. GapAt(s2, i) = GapAt(s1, i) /\ s2[i - 1].state = s1[i - 1].state
    BY <2>1 DEF GapAt
  <2> QED BY <1>2, <2>2 DEF Told
<1> QED BY <1>1, <1>2 DEF Told

\* One more point extends it by that point's charge.
LEMMA ToldNext ==
  ASSUME NEW s1 \in Seq(Point), NEW p \in Point, NEW R, NEW W, Told(s1, Len(s1), R, W),
         Len(s1) > 0 => GapAt(Append(s1, p), Len(s1) + 1) >= 0
  PROVE  \E Q, V : /\ Told(Append(s1, p), Len(s1) + 1, Q, V)
                   /\ Q[Len(s1) + 1] = R[Len(s1)] + p.delta
                   /\ V[Len(s1) + 1] = IF Len(s1) = 0 THEN NoWaits
                        ELSE [W[Len(s1)] EXCEPT ![s1[Len(s1)].state] = @ + GapAt(Append(s1, p), Len(s1) + 1)]
<1> DEFINE n == Len(s1)
           s2 == Append(s1, p)
           g  == GapAt(s2, n + 1)
           v  == IF n = 0 THEN NoWaits ELSE [W[n] EXCEPT ![s1[n].state] = @ + g]
           Q  == [i \in 0..(n + 1) |-> IF i = n + 1 THEN R[n] + p.delta ELSE R[i]]
           V  == [i \in 0..(n + 1) |-> IF i = n + 1 THEN v ELSE W[i]]
<1>1. n \in Nat /\ s2[n + 1] = p /\ \A i \in 1..n : s2[i] = s1[i]
  BY AppendProperties
<1>2. p.delta \in Nat /\ p.ts \in Nat
  BY DEF Point
<1>3. n > 0 => s1[n].ts \in Nat /\ s1[n].state \in Waits
  BY PointTypes
<1>4. R \in [0..n -> Int] /\ W \in [0..n -> [Waits -> Int]] /\ R[0] = 0 /\ W[0] = NoWaits
  BY DEF Told
<1>5. n > 0 => g \in Int
  BY <1>1, <1>2, <1>3 DEF GapAt
<1> HIDE DEF s2, g, n
<1>6. v \in [Waits -> Int]
  <2>1. CASE n = 0
    BY <2>1 DEF NoWaits
  <2>2. CASE n # 0
    <3>1. W[n] \in [Waits -> Int] /\ n > 0
      BY <1>1, <1>4, <2>2
    <3> QED BY <1>3, <1>5, <2>2, <3>1
  <2> QED BY <2>1, <2>2
<1>7. R[n] + p.delta \in Int
  BY <1>1, <1>2, <1>4
<1> HIDE DEF v
<1>8. Q \in [0..(n + 1) -> Int] /\ V \in [0..(n + 1) -> [Waits -> Int]]
  BY <1>1, <1>4, <1>6, <1>7
<1>9. /\ \A i \in 0..n : Q[i] = R[i] /\ V[i] = W[i]
      /\ Q[n + 1] = R[n] + p.delta /\ V[n + 1] = v
  BY <1>1
<1>10. Q[0] = 0 /\ V[0] = NoWaits
  BY <1>1, <1>4, <1>9
<1> HIDE DEF Q, V
<1>11. ASSUME NEW i \in 1..(n + 1) PROVE Q[i] = Q[i - 1] + s2[i].delta
  <2>1. CASE i \in 1..n
    <3>1. R[i] = R[i - 1] + s1[i].delta
      BY <2>1 DEF Told, n
    <3>2. i \in 0..n /\ i - 1 \in 0..n
      BY <1>1, <2>1
    <3> QED BY <1>1, <1>9, <2>1, <3>1, <3>2
  <2>2. CASE i = n + 1
    <3>1. i - 1 = n /\ n \in 0..n
      BY <1>1, <2>2
    <3> QED BY <1>1, <1>9, <2>2, <3>1
  <2> QED BY <1>1, <1>11, <2>1, <2>2
<1>12. V[1] = NoWaits
  <2>1. CASE n = 0
    BY <1>9, <2>1 DEF v
  <2>2. CASE n # 0
    <3>1. 1 \in 1..n /\ 1 \in 0..n
      BY <1>1, <2>2
    <3> QED BY <1>9, <3>1 DEF Told, n
  <2> QED BY <2>1, <2>2
<1>13. ASSUME NEW i \in 2..(n + 1)
       PROVE  /\ GapAt(s2, i) >= 0
              /\ V[i] = [V[i - 1] EXCEPT ![s2[i - 1].state] = @ + GapAt(s2, i)]
  <2>1. CASE i \in 2..n
    <3>1. i \in 1..n /\ i - 1 \in 1..n /\ i \in 0..n /\ i - 1 \in 0..n
      BY <1>1, <2>1
    <3>2. GapAt(s2, i) = GapAt(s1, i) /\ s2[i - 1] = s1[i - 1]
      BY <1>1, <3>1 DEF GapAt
    <3>3. /\ GapAt(s1, i) >= 0
          /\ W[i] = [W[i - 1] EXCEPT ![s1[i - 1].state] = @ + GapAt(s1, i)]
      BY <2>1 DEF Told, n
    <3> QED BY <1>9, <3>1, <3>2, <3>3
  <2>2. CASE i = n + 1
    <3>1. n > 0 /\ i - 1 = n /\ n \in 1..n /\ n \in 0..n
      BY <1>1, <1>13, <2>2
    <3>2. V[i] = [W[n] EXCEPT ![s1[n].state] = @ + g]
      BY <1>9, <2>2, <3>1 DEF v
    <3>3. s2[n] = s1[n] /\ V[n] = W[n] /\ GapAt(s2, i) = g
      BY <1>1, <1>9, <2>2, <3>1 DEF g
    <3>4. g >= 0
      BY <3>1 DEF g, s2, n
    <3> QED BY <3>1, <3>2, <3>3, <3>4
  <2> QED BY <1>1, <1>13, <2>1, <2>2
<1>14. Told(s2, n + 1, Q, V)
  BY <1>8, <1>10, <1>11, <1>12, <1>13 DEF Told
<1> QED BY <1>9, <1>14 DEF v, s2, n, g

-----------------------------------------------------------------------------
(* The dump is read.                                                       *)

\* A point later than every other keeps the series in order.
LEMMA OrderNext ==
  ASSUME NEW s1 \in Seq(Point), NEW p \in Point, InOrder(s1), \A i \in 1..Len(s1) : s1[i].ts <= p.ts
  PROVE  InOrder(Append(s1, p)) /\ \A i \in 1..Len(Append(s1, p)) : Append(s1, p)[i].ts <= p.ts
<1> DEFINE n == Len(s1)
           s2 == Append(s1, p)
<1>1. n \in Nat /\ Len(s2) = n + 1 /\ s2[n + 1] = p /\ \A i \in 1..n : s2[i] = s1[i]
  BY AppendProperties
<1>2. p.ts \in Nat /\ \A i \in 1..n : s1[i].ts \in Nat
  BY PointTypes DEF Point
<1> HIDE DEF s2
<1>3. \A i \in 1..Len(s2) : s2[i].ts <= p.ts
  <2> SUFFICES ASSUME NEW i \in 1..Len(s2) PROVE s2[i].ts <= p.ts
    OBVIOUS
  <2>1. CASE i \in 1..n
    BY <1>1, <2>1
  <2>2. CASE i = n + 1
    BY <1>1, <1>2, <2>2
  <2> QED BY <1>1, <2>1, <2>2
<1>4. ASSUME NEW i \in 1..Len(s2), NEW j \in 1..Len(s2), i < j PROVE s2[i].ts <= s2[j].ts
  <2>1. i \in 1..n
    BY <1>1, <1>4
  <2>2. CASE j \in 1..n
    BY <1>1, <1>4, <2>1, <2>2 DEF InOrder
  <2>3. CASE j = n + 1
    BY <1>1, <1>3, <2>3
  <2> QED BY <1>1, <2>2, <2>3
<1> QED BY <1>3, <1>4 DEF s2, InOrder

\* An accounting point of a thread on the CPU says just what Settle adds to the truth.
LEMMA PointIsTrue ==
  ASSUME LedgerTypeOK, LedgerTypeOK', TrueRead, life = 1, thr.st = "on",
         NEW t \in Nat, now <= t, NEW p \in Point, p.ts = t, p.delta = t - thr.from,
         series' = Append(series, p), exit_ts' \in {NoTime, t},
         trueCpu' = trueCpu + (t - thr.from),
         trueWait' = [trueWait EXCEPT ![thr.why] = @ + thr.owed]
  PROVE  /\ InOrder(series') /\ \A i \in 1..Len(series') : series'[i].ts <= t
         /\ Last' = p
         /\ \E c \in Nat : \E R, W : /\ Keeps(series', exit_ts', c) /\ Told(series', c, R, W)
                                      /\ R[c] = trueCpu' /\ W[c] = trueWait'
<1> DEFINE n == Len(series)
<1>1. series \in Seq(Point) /\ exit_ts = NoTime
  BY DEF LedgerTypeOK, DumpOK, TrueRead, Exited
<1>2. n \in Nat /\ \A i \in 1..n : /\ series[i].ts \in Nat /\ series[i].state \in Waits
  BY <1>1, PointTypes
<1>3. \A i \in 1..n : series[i].ts <= now /\ series[i].ts <= t
  <2>1. now \in Nat /\ \A i \in 1..n : series[i].ts <= now
    BY DEF TrueRead, LedgerTypeOK, ThreadOK
  <2> QED BY <1>2, <2>1
<1>4. InOrder(series') /\ Len(series') = n + 1 /\ \A i \in 1..Len(series') : series'[i].ts <= t
  BY <1>1, <1>3, OrderNext, AppendProperties DEF TrueRead
<1>5. series'[n + 1] = p /\ (\A i \in 1..n : series'[i] = series[i]) /\ Last' = p
  BY <1>1, <1>4, AppendProperties DEF Last
<1>6. PICK c \in Nat : \E R, W : /\ Keeps(series, exit_ts, c) /\ Told(series, c, R, W)
                                 /\ R[c] = trueCpu /\ W[c] = trueWait
  BY DEF TrueRead
<1>7. c = n
  BY <1>1, <1>2, <1>6 DEF Keeps
<1>8. PICK R, W : Told(series, n, R, W) /\ R[n] = trueCpu /\ W[n] = trueWait
  BY <1>6, <1>7
<1>9. n > 0 => GapAt(series', n + 1) = thr.owed /\ thr.owed \in Nat
               /\ (thr.owed > 0 => thr.why = series[n].state)
  <2> SUFFICES ASSUME n > 0
               PROVE  GapAt(series', n + 1) = thr.owed /\ thr.owed \in Nat
                      /\ (thr.owed > 0 => thr.why = series[n].state)
    OBVIOUS
  <2>1. thr.from = series[n].ts + thr.owed /\ thr.owed \in Nat
        /\ (thr.owed > 0 => thr.why = series[n].state)
    BY <1>1 DEF TrueRead, Owes, Last
  <2>2. GapAt(series', n + 1) = t - series[n].ts - (t - thr.from)
    BY <1>2, <1>5 DEF GapAt
  <2> QED BY <1>2, <2>1, <2>2
<1>10. PICK Q, V : /\ Told(series', n + 1, Q, V)
                   /\ Q[n + 1] = R[n] + p.delta
                   /\ V[n + 1] = IF n = 0 THEN NoWaits
                        ELSE [W[n] EXCEPT ![series[n].state] = @ + GapAt(series', n + 1)]
  <2>1. Told(series, Len(series), R, W) /\ (Len(series) > 0 => GapAt(Append(series, p), Len(series) + 1) >= 0)
    BY <1>8, <1>9
  <2> QED BY <1>1, <2>1, ToldNext
<1>11. Q[n + 1] = trueCpu'
  BY <1>8, <1>10
<1>12. trueWait \in [Waits -> Int]
  BY DEF LedgerTypeOK, ThreadOK
<1>13. V[n + 1] = trueWait'
  <2>1. CASE n = 0
    <3>1. trueWait = NoWaits
      BY <1>8, <2>1 DEF Told
    <3>2. thr.owed = 0
      BY <1>1, <2>1 DEF TrueRead, Owes
    <3>3. trueWait' = trueWait
      BY <1>12, <3>2
    <3> QED BY <1>10, <2>1, <3>1, <3>3
  <2>2. CASE n > 0
    <3> DEFINE was == series[n].state
    <3>1. V[n + 1] = [trueWait EXCEPT ![was] = trueWait[was] + thr.owed]
      <4>1. V[n + 1] = [trueWait EXCEPT ![was] = trueWait[was] + GapAt(series', n + 1)]
        BY <1>8, <1>10, <2>2
      <4> HIDE DEF was
      <4> QED BY <1>9, <2>2, <4>1
    <3>2. was \in Waits /\ thr.owed \in Nat
      BY <1>2, <1>9, <2>2
    <3> HIDE DEF was
    <3>3. CASE thr.owed > 0
      BY <1>9, <2>2, <3>1, <3>3 DEF was
    <3>4. CASE thr.owed = 0
      <4>1. thr.why \in Waits
        BY DEF LedgerTypeOK, ThreadOK
      <4>2. trueWait' = trueWait
        BY <1>12, <3>4, <4>1
      <4>3. V[n + 1] = trueWait
        BY <1>12, <3>1, <3>2, <3>4
      <4> QED BY <4>2, <4>3
    <3> QED BY <3>2, <3>3, <3>4
  <2> QED BY <1>2, <2>1, <2>2
<1>14. Keeps(series', exit_ts', n + 1)
  BY <1>2, <1>4 DEF Keeps
<1> QED BY <1>2, <1>4, <1>5, <1>10, <1>11, <1>13, <1>14

\* Nothing past the exit counts.
LEMMA LaterIsCut ==
  ASSUME LedgerTypeOK, TrueRead, NEW t \in Nat, now <= t, exit_ts \in Nat, exit_ts < t,
         NEW p \in Point, p.ts = t, series' = Append(series, p), exit_ts' = exit_ts,
         UNCHANGED <<trueCpu, trueWait>>
  PROVE  /\ InOrder(series') /\ \A i \in 1..Len(series') : series'[i].ts <= t
         /\ Last' = p /\ \E i \in 1..Len(series') : series'[i].ts = exit_ts
         /\ \E c \in Nat : \E R, W : /\ Keeps(series', exit_ts', c) /\ Told(series', c, R, W)
                                      /\ R[c] = trueCpu' /\ W[c] = trueWait'
<1> DEFINE n == Len(series)
<1>1. series \in Seq(Point) /\ exit_ts # NoTime
  BY DEF LedgerTypeOK, DumpOK, NoTime
<1>2. n \in Nat /\ \A i \in 1..n : series[i].ts \in Nat
  BY <1>1, PointTypes
<1>3. \A i \in 1..n : series[i].ts <= now /\ series[i].ts <= t
  <2>1. now \in Nat /\ \A i \in 1..n : series[i].ts <= now
    BY DEF TrueRead, LedgerTypeOK, ThreadOK
  <2> QED BY <1>2, <2>1
<1>4. InOrder(series') /\ Len(series') = n + 1 /\ \A i \in 1..Len(series') : series'[i].ts <= t
  BY <1>1, <1>3, OrderNext, AppendProperties DEF TrueRead
<1>5. series'[n + 1] = p /\ (\A i \in 1..n : series'[i] = series[i]) /\ Last' = p
  BY <1>1, <1>4, AppendProperties DEF Last
<1>6. PICK c \in Nat : \E R, W : /\ Keeps(series, exit_ts, c) /\ Told(series, c, R, W)
                                 /\ R[c] = trueCpu /\ W[c] = trueWait
  BY DEF TrueRead
<1>7. c <= n /\ \A i \in 1..n : i <= c <=> series[i].ts <= exit_ts
  BY <1>1, <1>6 DEF Keeps
<1>8. Keeps(series', exit_ts', c)
  BY <1>1, <1>2, <1>4, <1>5, <1>7 DEF Keeps
<1>9. \A R, W : Told(series, c, R, W) => Told(series', c, R, W)
  <2>1. \A i \in 1..c : i \in 1..n
    BY <1>2, <1>7
  <2> QED BY <1>5, <2>1, ToldWithin
<1>10. \E i \in 1..Len(series') : series'[i].ts = exit_ts
  <2>1. PICK i \in 1..n : series[i].ts = exit_ts
    BY <1>1 DEF TrueRead, Exited
  <2> QED BY <1>2, <1>4, <1>5, <2>1
<1> QED BY <1>4, <1>5, <1>6, <1>8, <1>9, <1>10

\* A series that tells what the thread did until it died.
TellsAll(ser) ==
  /\ InOrder(ser) /\ \A i \in 1..Len(ser) : ser[i].ts <= now
  /\ ser # <<>> /\ \E i \in 1..Len(ser) : ser[i].ts = exit_ts
  /\ \E c \in Nat : \E R, W : /\ Keeps(ser, exit_ts, c) /\ Told(ser, c, R, W)
                               /\ R[c] = trueCpu /\ W[c] = trueWait

\* The switch of a dead thread names its last point, whose state no wait follows.
LEMMA LastStateIsFree ==
  ASSUME LedgerTypeOK, TrueRead, exit_ts \in Nat, series # <<>>, NEW s \in Waits, NEW t \in Nat,
         Last.ts <= t, t - Last.ts <= Pair, NEW ser, ser = AddSwitch(series, t, s)
  PROVE  TellsAll(ser)
<1> DEFINE n == Len(series)
<1>1. series \in Seq(Point) /\ exit_ts # NoTime
  BY DEF LedgerTypeOK, DumpOK, NoTime
<1>2. n \in Nat /\ n # 0 /\ DOMAIN series = 1..n
  BY <1>1, PointTypes
<1>3. /\ Len(ser) = n
      /\ \A i \in 1..n : /\ ser[i].ts = series[i].ts /\ ser[i].delta = series[i].delta
                         /\ i < n => ser[i].state = series[i].state
  <2>1. \A i \in 1..n : series[i] \in Point
    BY <1>1, ElementOfSeq
  <2>2. [series[n] EXCEPT !.state = s] \in Point
    BY <1>2, <2>1 DEF Point
  <2>3. ser = [series EXCEPT ![n] = [series[n] EXCEPT !.state = s]]
    BY DEF AddSwitch, Last
  <2>4. Len(ser) = n
    BY <1>1, <1>2, <2>2, <2>3, ExceptSeq
  <2>5. \A i \in 1..n : i # n => ser[i] = series[i]
    BY <1>2, <2>3
  <2>6. ser[n] = [series[n] EXCEPT !.state = s]
    BY <1>2, <2>3
  <2>7. ser[n].ts = series[n].ts /\ ser[n].delta = series[n].delta
    BY <1>2, <2>1, <2>6 DEF Point
  <2>8. ASSUME NEW i \in 1..n
        PROVE  /\ ser[i].ts = series[i].ts /\ ser[i].delta = series[i].delta
               /\ i < n => ser[i].state = series[i].state
    <3>1. CASE i = n
      BY <1>2, <2>7, <3>1
    <3>2. CASE i # n
      BY <2>5, <3>2
    <3> QED BY <3>1, <3>2
  <2> QED BY <2>4, <2>8
<1>4. InOrder(ser) /\ \A i \in 1..Len(ser) : ser[i].ts <= now
  BY <1>3 DEF TrueRead, InOrder
<1>5. PICK c \in Nat : \E R, W : /\ Keeps(series, exit_ts, c) /\ Told(series, c, R, W)
                                 /\ R[c] = trueCpu /\ W[c] = trueWait
  BY DEF TrueRead
<1>6. c \in 0..n /\ Keeps(ser, exit_ts, c)
  BY <1>3, <1>5 DEF Keeps
<1>7. \A R, W : Told(series, c, R, W) => Told(ser, c, R, W)
  <2> SUFFICES ASSUME NEW R, NEW W, Told(series, c, R, W) PROVE Told(ser, c, R, W)
    OBVIOUS
  <2>1. \A i \in 1..c : i \in 1..n /\ (i < c => i < n)
    BY <1>2, <1>6
  <2>2. \A i \in 1..c : ser[i].ts = series[i].ts /\ ser[i].delta = series[i].delta
    BY <1>3, <2>1
  <2>3. \A i \in 1..c : i < c => ser[i].state = series[i].state
    BY <1>3, <2>1
  <2>4. c \in Nat
    BY <1>5
  <2>5. \A s2 : /\ (\A i \in 1..c : s2[i].ts = series[i].ts /\ s2[i].delta = series[i].delta)
                /\ (\A i \in 1..c : i < c => s2[i].state = series[i].state)
               => Told(s2, c, R, W)
    BY <2>4, ToldWithin
  <2> QED BY <2>2, <2>3, <2>5, Zenon
<1>8. ser # <<>> /\ \E i \in 1..Len(ser) : ser[i].ts = exit_ts
  BY <1>1, <1>2, <1>3 DEF TrueRead, Exited
<1> QED BY <1>4, <1>5, <1>6, <1>7, <1>8 DEF TellsAll

\* A runtime line and the switch paired with it are one point.
LEMMA SwitchPairs ==
  ASSUME NEW ser \in Seq(Point), NEW p \in Point, NEW t \in Nat, NEW s \in Waits,
         p.ts <= t, t - p.ts <= Pair
  PROVE  AddSwitch(Append(ser, p), t, s) = Append(ser, [p EXCEPT !.state = s])
<1> DEFINE n   == Len(ser)
           old == Append(ser, p)
           q   == [p EXCEPT !.state = s]
           new == Append(ser, q)
<1>1. q \in Point
  BY DEF Point
<1>2. /\ n \in Nat /\ old \in Seq(Point) /\ Len(old) = n + 1 /\ old[n + 1] = p
      /\ \A i \in 1..n : old[i] = ser[i]
  BY AppendProperties
<1>3. /\ new \in Seq(Point) /\ Len(new) = n + 1 /\ new[n + 1] = q
      /\ \A i \in 1..n : new[i] = ser[i]
  <2> HIDE DEF q
  <2> QED BY <1>1, AppendProperties
<1> HIDE DEF old, new
<1>4. AddSwitch(old, t, s) = [old EXCEPT ![n + 1] = q]
  BY <1>2 DEF AddSwitch, Point
<1>5. [old EXCEPT ![n + 1] = q] = new
  <2> DEFINE exc == [old EXCEPT ![n + 1] = q]
  <2>1. DOMAIN old = 1..(n + 1) /\ DOMAIN new = 1..(n + 1)
    BY <1>2, <1>3
  <2>2. exc \in [1..(n + 1) -> Point] /\ new \in [1..(n + 1) -> Point]
    BY <1>1, <1>2, <1>3, <2>1, ElementOfSeq
  <2>3. \A i \in 1..(n + 1) : exc[i] = new[i]
    <3> SUFFICES ASSUME NEW i \in 1..(n + 1) PROVE exc[i] = new[i]
      OBVIOUS
    <3> HIDE DEF q
    <3>1. CASE i = n + 1
      BY <1>2, <1>3, <2>1, <3>1
    <3>2. CASE i # n + 1
      <4>1. i \in 1..n /\ i \in DOMAIN old
        BY <1>2, <2>1, <3>2
      <4> QED BY <1>2, <1>3, <3>2, <4>1
    <3> QED BY <3>1, <3>2
  <2> HIDE DEF exc
  <2> QED BY <2>2, <2>3 DEF exc
<1> QED BY <1>4, <1>5 DEF old, new

LEMMA TickTrue ==
  ASSUME LedgerTypeOK, LedgerTypeOK', TrueRead, Exact, NEW t \in Nat, now <= t,
         NEW kept \in BOOLEAN, NEW e \in Skews, Tick(t, kept, e), Exact'
  PROVE  TrueRead'
<1> DEFINE p == [ts |-> t, delta |-> t - thr.from, state |-> "none"]
<1>1. thr.st = "on" /\ thr.from \in Nat /\ t > thr.from /\ thr.why \in Waits
  BY DEF Tick, LedgerTypeOK, ThreadOK
<1>2. kept /\ e = 0
  <2>1. faults \in Nat /\ faults' = IF kept /\ e = 0 THEN faults ELSE faults + 1
    BY LedgerAssumption DEF LedgerTypeOK, ThreadOK, Tick, Settle
  <2> QED BY <2>1 DEF Exact
<1>3. p \in Point /\ p.ts = t /\ p.delta = t - thr.from
  BY <1>1 DEF Point, Waits
<1>4. series' = Append(series, p) /\ Append(series, p) # <<>>
  BY <1>1, <1>2, AppendProperties DEF Tick, WithRuntime, AddPoint, LedgerTypeOK, DumpOK
<1>5. /\ now' = t /\ thr' = Thread("on", t, thr.why, 0)
      /\ life' = life /\ exit_ts' = exit_ts /\ switched' = switched
  BY DEF Tick
<1>6. thr'.st = "on" /\ thr'.from = t /\ thr'.owed = 0
  BY <1>5 DEF Thread
<1>7. CASE life = 1
  <2>1. exit_ts = NoTime
    BY <1>1, <1>7 DEF TrueRead, Exited
  <2>2. trueCpu' = trueCpu + (t - thr.from) /\ trueWait' = [trueWait EXCEPT ![thr.why] = @ + thr.owed]
    BY <1>1, <1>2, <1>7 DEF Tick, Settle
  <2> HIDE DEF p
  <2>3. /\ InOrder(series') /\ \A i \in 1..Len(series') : series'[i].ts <= t
        /\ Last' = p
        /\ \E c \in Nat : \E R, W : /\ Keeps(series', exit_ts', c) /\ Told(series', c, R, W)
                                     /\ R[c] = trueCpu' /\ W[c] = trueWait'
    BY <1>1, <1>3, <1>4, <1>5, <1>7, <2>1, <2>2, PointIsTrue
  <2>4. Owes'
    BY <1>3, <1>4, <1>6, <2>3 DEF Owes
  <2>5. Exited'
    BY <1>4, <1>5, <1>6, <1>7, <2>1 DEF Exited
  <2> QED BY <1>5, <2>3, <2>4, <2>5 DEF TrueRead
<1>8. CASE life = 2
  <2>1. exit_ts \in Nat /\ exit_ts < t /\ exit_ts <= now /\ now \in Nat
    <3>1. now \in Nat /\ exit_ts \in Nat \cup {NoTime} /\ exit_ts # NoTime
      BY <1>8 DEF TrueRead, Exited, LedgerTypeOK, DumpOK, ThreadOK
    <3>2. exit_ts <= now /\ exit_ts < thr.from
      BY <1>8, <3>1 DEF TrueRead, Exited
    <3> QED BY <1>1, <3>1, <3>2
  <2>2. UNCHANGED <<trueCpu, trueWait>>
    BY <1>1, <1>2, <1>8 DEF Tick, Settle
  <2> HIDE DEF p
  <2>3. /\ InOrder(series') /\ \A i \in 1..Len(series') : series'[i].ts <= t
        /\ \E i \in 1..Len(series') : series'[i].ts = exit_ts
        /\ \E c \in Nat : \E R, W : /\ Keeps(series', exit_ts', c) /\ Told(series', c, R, W)
                                     /\ R[c] = trueCpu' /\ W[c] = trueWait'
    BY <1>3, <1>4, <1>5, <2>1, <2>2, LaterIsCut
  <2>4. Owes'
    BY <1>5, <1>6, <1>8 DEF Owes
  <2>5. Exited'
    BY <1>4, <1>5, <1>6, <1>8, <2>1, <2>3 DEF Exited, NoTime
  <2> QED BY <1>5, <2>3, <2>4, <2>5 DEF TrueRead
<1> QED BY <1>7, <1>8 DEF LedgerTypeOK, ThreadOK

LEMMA SwitchOutTrue ==
  ASSUME Paired, LedgerTypeOK, LedgerTypeOK', TrueRead, Exact, NEW t \in Nat, now <= t,
         NEW s \in Waits, NEW lag \in Lags, NEW kept \in BOOLEAN, NEW said \in BOOLEAN,
         NEW e \in Skews, SwitchOut(t, s, lag, kept, said, e), Exact'
  PROVE  TrueRead'
<1> DEFINE p == [ts |-> t, delta |-> t - thr.from, state |-> "none"]
           q == [p EXCEPT !.state = s]
<1>1. /\ (thr.st = "on" /\ t > thr.from) \/ thr.st = "dying"
      /\ thr.from \in Nat /\ thr.why \in Waits
  BY DEF SwitchOut, LedgerTypeOK, ThreadOK
<1>2. kept /\ said /\ e = 0 /\ ours
  <2>1. faults \in Nat /\ faults' = IF kept /\ said /\ e = 0 THEN faults ELSE faults + 1
    BY LedgerAssumption DEF LedgerTypeOK, ThreadOK, SwitchOut, Settle
  <2> QED BY <2>1 DEF Exact
<1>3. lag \in Nat /\ lag <= Pair /\ Pair \in Nat /\ t + lag \in Nat /\ t <= t + lag
  BY LedgerAssumption DEF Paired
<1>4. /\ now' = t + lag
      /\ thr' = Thread(IF thr.st = "dying" THEN "dead" ELSE "off", t, s, 0)
      /\ life' = life /\ exit_ts' = exit_ts /\ switched' = TRUE
      /\ series' = AddSwitch(WithRuntime(series, t, kept, e), t + lag, s)
  BY <1>2 DEF SwitchOut
<1>5. /\ thr'.st = IF thr.st = "dying" THEN "dead" ELSE "off"
      /\ thr'.from = t /\ thr'.why = s
  BY <1>4 DEF Thread
<1>6. series \in Seq(Point)
  BY DEF LedgerTypeOK, DumpOK
<1>7. CASE t > thr.from
  <2>1. p \in Point /\ p.ts = t
    BY <1>1, <1>7 DEF Point, Waits
  <2>2. q \in Point /\ q.ts = t /\ q.delta = t - thr.from /\ q.state = s
    BY <2>1 DEF Point
  <2>3. series' = Append(series, q)
    <3>1. series' = AddSwitch(Append(series, p), t + lag, s)
      BY <1>1, <1>2, <1>4, <1>7 DEF WithRuntime, AddPoint
    <3> HIDE DEF p
    <3> QED BY <1>3, <1>6, <2>1, <3>1, SwitchPairs
  <2> HIDE DEF q
  <2>4. series' # <<>>
    BY <1>6, <2>2, <2>3, AppendProperties
  <2>5. CASE thr.st = "on" /\ life = 1
    <3>1. exit_ts = NoTime
      BY <2>5 DEF TrueRead, Exited
    <3>2. trueCpu' = trueCpu + (t - thr.from) /\ trueWait' = [trueWait EXCEPT ![thr.why] = @ + thr.owed]
      BY <1>2, <2>5 DEF SwitchOut, Settle
    <3>3. /\ InOrder(series') /\ \A i \in 1..Len(series') : series'[i].ts <= t
          /\ Last' = q
          /\ \E c \in Nat : \E R, W : /\ Keeps(series', exit_ts', c) /\ Told(series', c, R, W)
                                       /\ R[c] = trueCpu' /\ W[c] = trueWait'
      BY <1>1, <1>4, <2>2, <2>3, <2>5, <3>1, <3>2, PointIsTrue
    <3>4. Owes'
      BY <1>5, <2>2, <2>5, <3>3 DEF Owes
    <3>5. Exited'
      BY <1>3, <1>4, <1>5, <2>4, <2>5, <3>1 DEF Exited
    <3>6. \A i \in 1..Len(series') : series'[i].ts <= now'
      <4>1. \A i \in 1..Len(series') : series'[i].ts \in Nat
        BY PointTypes DEF LedgerTypeOK, DumpOK
      <4> QED BY <1>3, <1>4, <3>3, <4>1
    <3> QED BY <3>3, <3>4, <3>5, <3>6 DEF TrueRead
  <2>6. CASE thr.st = "dying" \/ life = 2
    <3>1. exit_ts \in Nat /\ exit_ts < t /\ exit_ts <= now /\ now \in Nat
      <4>1. now \in Nat /\ exit_ts \in Nat \cup {NoTime} /\ life \in {1, 2}
        BY DEF LedgerTypeOK, DumpOK, ThreadOK
      <4>2. exit_ts # NoTime /\ exit_ts <= now
        BY <2>6, <4>1 DEF TrueRead, Exited
      <4>3. exit_ts <= thr.from
        <5>1. CASE thr.st = "dying"
          BY <1>1, <5>1 DEF TrueRead, Owes
        <5>2. CASE life = 2
          BY <1>1, <4>1, <4>2, <5>2 DEF TrueRead, Exited
        <5> QED BY <2>6, <5>1, <5>2
      <4> QED BY <1>1, <1>7, <4>1, <4>2, <4>3
    <3>2. UNCHANGED <<trueCpu, trueWait>>
      BY <1>2, <2>6 DEF SwitchOut, Settle
    <3>3. /\ InOrder(series') /\ \A i \in 1..Len(series') : series'[i].ts <= t
          /\ \E i \in 1..Len(series') : series'[i].ts = exit_ts
          /\ \E c \in Nat : \E R, W : /\ Keeps(series', exit_ts', c) /\ Told(series', c, R, W)
                                       /\ R[c] = trueCpu' /\ W[c] = trueWait'
      BY <1>4, <2>2, <2>3, <3>1, <3>2, LaterIsCut
    <3>4. thr.st = "dying" => life = 1
      BY DEF TrueRead, Owes
    <3>5. Owes'
      BY <1>4, <1>5, <2>6, <3>4 DEF Owes
    <3>6. Exited'
      BY <1>3, <1>4, <1>5, <2>4, <2>6, <3>1, <3>3, <3>4 DEF Exited, NoTime
    <3>7. \A i \in 1..Len(series') : series'[i].ts <= now'
      <4>1. \A i \in 1..Len(series') : series'[i].ts \in Nat
        BY PointTypes DEF LedgerTypeOK, DumpOK
      <4> QED BY <1>3, <1>4, <3>3, <4>1
    <3> QED BY <3>3, <3>5, <3>6, <3>7 DEF TrueRead
  <2> QED BY <1>1, <2>5, <2>6 DEF LedgerTypeOK, ThreadOK
<1>8. CASE ~(t > thr.from)
  <2>1. thr.st = "dying" /\ thr.from <= now /\ now \in Nat
    BY <1>1, <1>8 DEF TrueRead, Exited, LedgerTypeOK, ThreadOK
  <2>2. t = thr.from /\ exit_ts = t /\ life = 1 /\ series # <<>> /\ Last.ts = t
    BY <1>1, <1>8, <2>1 DEF TrueRead, Owes
  <2>3. series' = AddSwitch(series, t + lag, s) /\ Last.ts <= t + lag /\ t + lag - Last.ts <= Pair
    BY <1>3, <1>4, <1>8, <2>2 DEF WithRuntime
  <2>4. UNCHANGED <<trueCpu, trueWait>>
    BY <1>2, <2>1 DEF SwitchOut, Settle
  <2>5. /\ InOrder(series') /\ \A i \in 1..Len(series') : series'[i].ts <= now
        /\ series' # <<>> /\ \E i \in 1..Len(series') : series'[i].ts = exit_ts
        /\ \E c \in Nat : \E R, W : /\ Keeps(series', exit_ts', c) /\ Told(series', c, R, W)
                                     /\ R[c] = trueCpu' /\ W[c] = trueWait'
    <3>1. exit_ts \in Nat /\ exit_ts' = exit_ts /\ Last.ts \in Nat
      BY <1>4, <2>2
    <3>2. t + lag \in Nat /\ series # <<>> /\ Last.ts <= t + lag /\ t + lag - Last.ts <= Pair
      BY <1>3, <2>2, <2>3
    <3>3. \A ser : ser = AddSwitch(series, t + lag, s) => TellsAll(ser)
      <4>1. lag \in Nat
        BY <1>3
      <4> QED BY ONLY LedgerTypeOK, TrueRead, s \in Waits, t \in Nat, <4>1, <3>1, <3>2, LastStateIsFree
    <3>4. TellsAll(series')
      BY <2>3, <3>3, Zenon
    <3> QED BY <2>4, <3>1, <3>4 DEF TellsAll
  <2>6. Owes'
    <3>1. thr'.st = "dead"
      BY <1>5, <2>1
    <3>2. thr'.st # "on" /\ thr'.st # "off" /\ thr'.st # "dying"
      BY ONLY <3>1
    <3> QED BY ONLY <3>2, Zenon DEF Owes
  <2>7. Exited'
    BY <1>3, <1>4, <1>5, <2>1, <2>2, <2>5, SMTT(20) DEF Exited, NoTime
  <2>8. \A i \in 1..Len(series') : series'[i].ts <= now'
    <3>1. \A i \in 1..Len(series') : series'[i].ts \in Nat
      BY PointTypes DEF LedgerTypeOK, DumpOK
    <3>2. now' = t + lag /\ now <= t + lag
      BY <1>3, <1>4, <2>1
    <3>3. \A i \in 1..Len(series') : series'[i].ts <= now
      BY <2>5
    <3> QED BY <1>3, <2>1, <3>1, <3>2, <3>3
  <2> QED BY <2>5, <2>6, <2>7, <2>8 DEF TrueRead
<1> QED BY <1>7, <1>8

LEMMA ExitTrue ==
  ASSUME LedgerTypeOK, LedgerTypeOK', TrueRead, Exact, NEW t \in Nat, now <= t,
         NEW said \in BOOLEAN, Exit(t, said), Exact', ~burst'
  PROVE  TrueRead'
<1> DEFINE p == [ts |-> t, delta |-> 0, state |-> "none"]
<1>1. thr.st = "on" /\ thr.from \in Nat /\ t = thr.from /\ life = 1 /\ thr.why \in Waits
  <2>1. thr.from \in Nat /\ life \in {1, 2} /\ thr.why \in Waits
    BY DEF LedgerTypeOK, ThreadOK
  <2>2. ~(t > thr.from) /\ ~(life > 1)
    BY DEF Exit
  <2>3. thr.st = "on" /\ t >= thr.from
    BY DEF Exit
  <2> QED BY <2>1, <2>2, <2>3
<1>2. said /\ ours
  <2>1. faults \in Nat /\ faults' = IF said THEN faults ELSE faults + 1
    BY LedgerAssumption DEF LedgerTypeOK, ThreadOK, Exit, Settle
  <2> QED BY <2>1 DEF Exact
<1>3. p \in Point /\ p.ts = t /\ p.delta = t - thr.from
  BY <1>1 DEF Point, Waits
<1>4. series' = Append(series, p) /\ Append(series, p) # <<>> /\ exit_ts' = t
  BY <1>1, <1>2, AppendProperties DEF Exit, AddPoint, LedgerTypeOK, DumpOK
<1>5. /\ now' = t /\ thr' = Thread("dying", t, thr.why, 0) /\ life' = life /\ switched' = switched
  BY <1>1 DEF Exit
<1>6. thr'.st = "dying" /\ thr'.from = t
  BY <1>5 DEF Thread
<1>7. trueCpu' = trueCpu + (t - thr.from) /\ trueWait' = [trueWait EXCEPT ![thr.why] = @ + thr.owed]
  BY <1>1, <1>2 DEF Exit, Settle
<1> HIDE DEF p
<1>8. /\ InOrder(series') /\ \A i \in 1..Len(series') : series'[i].ts <= t
      /\ Last' = p
      /\ \E c \in Nat : \E R, W : /\ Keeps(series', exit_ts', c) /\ Told(series', c, R, W)
                                   /\ R[c] = trueCpu' /\ W[c] = trueWait'
  BY <1>1, <1>3, <1>4, <1>7, PointIsTrue
<1>9. Owes'
  BY <1>1, <1>3, <1>4, <1>5, <1>6, <1>8 DEF Owes
<1>10. Exited'
  <2>1. \E i \in 1..Len(series') : series'[i].ts = exit_ts'
    <3>1. Len(series') = Len(series) + 1 /\ Len(series) \in Nat
      BY <1>3, <1>4, AppendProperties DEF LedgerTypeOK, DumpOK
    <3> QED BY <1>3, <1>4, <1>8, <3>1 DEF Last
  <2> QED BY <1>1, <1>4, <1>5, <1>6, <2>1 DEF Exited, NoTime
<1> QED BY <1>5, <1>8, <1>9, <1>10 DEF TrueRead

\* Between two lines the scheduler may switch the thread in, or hand out its tid.
LEMMA SilentTrue ==
  ASSUME LedgerTypeOK, TrueRead, Exact, NEW t \in Nat, now <= t, SwitchIn(t) \/ Reborn(t)
  PROVE  TrueRead'
<1>1. now' = t /\ series' = series /\ exit_ts' = exit_ts /\ switched' = switched
      /\ trueCpu' = trueCpu /\ trueWait' = trueWait
  BY DEF SwitchIn, Reborn, dumpVars
<1>2. now \in Nat /\ \A i \in 1..Len(series) : series[i].ts \in Nat
  BY PointTypes DEF LedgerTypeOK, ThreadOK, DumpOK
<1>3. /\ InOrder(series') /\ \A i \in 1..Len(series') : series'[i].ts <= now'
      /\ \E c \in Nat : \E R, W : /\ Keeps(series', exit_ts', c) /\ Told(series', c, R, W)
                                   /\ R[c] = trueCpu' /\ W[c] = trueWait'
  BY <1>1, <1>2 DEF TrueRead
<1>4. thr.from \in Nat /\ thr.from <= now
  BY DEF TrueRead, Exited, LedgerTypeOK, ThreadOK
<1>5. CASE SwitchIn(t)
  <2>1. /\ thr.st = "off" /\ life' = life /\ thr'.st = "on" /\ thr'.from = t /\ thr'.why = thr.why
        /\ thr'.owed = IF series = <<>> THEN 0 ELSE t - thr.from
    BY <1>5 DEF SwitchIn, Thread
  <2>2. Owes'
    <3>1. ASSUME life = 1, series # <<>>
          PROVE  /\ thr'.from = Last.ts + thr'.owed /\ thr'.owed \in Nat
                 /\ thr'.owed > 0 => thr'.why = Last.state
      BY <1>2, <1>4, <2>1, <3>1 DEF TrueRead, Owes
    <3>2. Last' = Last
      BY <1>1 DEF Last
    <3> QED BY <1>1, <2>1, <3>1, <3>2 DEF Owes
  <2>3. Exited'
    <3>1. exit_ts # NoTime => exit_ts \in Nat /\ exit_ts <= now
      BY DEF TrueRead, Exited, LedgerTypeOK, DumpOK
    <3>2. life = 2 => exit_ts # NoTime /\ exit_ts < t
      BY <1>2, <1>4, <3>1 DEF TrueRead, Exited, LedgerTypeOK, ThreadOK
    <3> QED BY <1>1, <1>2, <2>1, <3>1, <3>2 DEF TrueRead, Exited
  <2> QED BY <1>3, <2>2, <2>3 DEF TrueRead
<1>6. CASE Reborn(t)
  <2>1. thr.st = "dead" /\ t > now /\ life = 1 /\ life' = 2 /\ thr'.st = "on" /\ thr'.from = t
    BY <1>6 DEF Reborn, Thread
  <2>2. exit_ts \in Nat /\ exit_ts <= now
    BY <2>1 DEF TrueRead, Exited, LedgerTypeOK, DumpOK, NoTime
  <2>3. Owes'
    BY <2>1 DEF Owes
  <2>4. Exited'
    BY <1>1, <1>2, <2>1, <2>2 DEF TrueRead, Exited, NoTime
  <2> QED BY <1>3, <2>3, <2>4 DEF TrueRead
<1> QED BY <1>5, <1>6

LEMMA TrueInit == Init => TrueInv
<1> SUFFICES ASSUME Init PROVE TrueRead
  BY DEF Init, TrueInv, LedgerIsTrue
<1>1. series = <<>> /\ Len(series) = 0 /\ exit_ts = NoTime
  BY DEF Init
<1>2. InOrder(series) /\ \A i \in 1..Len(series) : series[i].ts <= now
  BY <1>1 DEF InOrder
<1>3. Owes
  BY <1>1 DEF Init, Owes, Thread
<1>4. Exited
  BY <1>1 DEF Init, Exited, Thread
<1> DEFINE R == [i \in 0..0 |-> 0]
           W == [i \in 0..0 |-> NoWaits]
<1>5. Told(series, 0, R, W)
  BY DEF Told, NoWaits
<1>6. Keeps(series, exit_ts, 0)
  BY <1>1 DEF Keeps
<1>7. R[0] = trueCpu /\ W[0] = trueWait
  BY DEF Init
<1> QED BY <1>2, <1>3, <1>4, <1>5, <1>6, <1>7 DEF TrueRead

LEMMA DropTrue ==
  ASSUME LedgerTypeOK, TrueRead, Drop
  PROVE  LedgerIsTrue'
<1>1. ~switched
  <2> SUFFICES ASSUME switched, Cut = {} PROVE FALSE
    BY DEF Drop
  <2>1. series \in Seq(Point) /\ series # <<>>
    BY DEF TrueRead, Exited, LedgerTypeOK, DumpOK
  <2>2. 1 \in DOMAIN series /\ DOMAIN series = 1..Len(series)
    BY <2>1
  <2>3. CASE exit_ts = NoTime
    BY <2>2, <2>3 DEF Cut
  <2>4. CASE exit_ts # NoTime
    <3>1. PICK i \in 1..Len(series) : series[i].ts = exit_ts
      BY <2>4 DEF TrueRead, Exited
    <3>2. series[i].ts \in Nat
      BY <2>1, PointTypes
    <3> QED BY <2>2, <3>1, <3>2 DEF Cut
  <2> QED BY <2>3, <2>4
<1> QED BY <1>1 DEF Drop, EndOfDump, dumpVars, LedgerIsTrue

LEMMA StartTrue ==
  ASSUME LedgerInv, TrueRead, NEW a, NEW b, Start(a, b)
  PROVE  TrueFold'
<1>1. /\ series' = series /\ exit_ts' = exit_ts /\ trueCpu' = trueCpu /\ trueWait' = trueWait
      /\ left' = Cut /\ runtime' = runtime /\ waits' = waits /\ skew' = skew /\ previous' = previous
  BY DEF Start, EndOfDump, dumpVars
<1>2. runtime = 0 /\ waits = NoWaits /\ skew = 0 /\ previous = NoTime
  BY DEF Start, LedgerInv, Reading, Untouched
<1>3. PICK c \in Nat : \E R, W : /\ Keeps(series, exit_ts, c) /\ Told(series, c, R, W)
                                 /\ R[c] = trueCpu /\ W[c] = trueWait
  BY DEF TrueRead
<1>4. PICK R, W : /\ Keeps(series, exit_ts, c) /\ Told(series, c, R, W)
                  /\ R[c] = trueCpu /\ W[c] = trueWait
  BY <1>3
<1>5. Cut = 1..c
  <2>1. Len(series) \in Nat /\ DOMAIN series = 1..Len(series)
    BY PointTypes DEF LedgerInv, LedgerTypeOK, DumpOK
  <2>2. \A i \in 1..Len(series) : i <= c <=> i \in Cut
    BY <1>4, <2>1 DEF Keeps, Cut
  <2> QED BY <1>4, <2>1, <2>2 DEF Keeps, Cut
<1>6. R[0] = 0 /\ W[0] = NoWaits
  BY <1>4 DEF Told
<1>7. left' = (0 + 1)..c
  BY <1>1, <1>5
<1> QED
  <2>1. InOrder(series') /\ skew' = 0
    BY <1>1, <1>2 DEF TrueRead
  <2>2. /\ Keeps(series', exit_ts', c) /\ Told(series', c, R, W)
        /\ R[c] = trueCpu' /\ W[c] = trueWait'
        /\ 0 <= c /\ left' = (0 + 1)..c /\ runtime' = R[0] /\ waits' = W[0]
        /\ previous' = NoTime
    BY <1>1, <1>2, <1>4, <1>6, <1>7
  <2>3. 0 \in Nat /\ c \in Nat /\ ~(0 > 0)
    BY <1>3
  <2> QED BY <2>1, <2>2, <2>3 DEF TrueFold

LEMMA VisitTrue ==
  ASSUME LedgerTypeOK, TrueFold, NEW i \in DOMAIN series, Visit(i)
  PROVE  TrueFold'
<1>1. /\ series' = series /\ exit_ts' = exit_ts /\ trueCpu' = trueCpu /\ trueWait' = trueWait
      /\ left' = left \ {i} /\ runtime' = runtime + series[i].delta
      /\ previous' = series[i].ts /\ off_start' = series[i].state
  BY DEF Visit, threadVars, dumpVars
<1>2. PICK c \in Nat, k \in Nat : \E R, W :
         /\ Keeps(series, exit_ts, c) /\ Told(series, c, R, W)
         /\ R[c] = trueCpu /\ W[c] = trueWait
         /\ k <= c /\ left = (k + 1)..c /\ runtime = R[k] /\ waits = W[k]
         /\ k = 0 => previous = NoTime
         /\ k > 0 => previous = series[k].ts /\ off_start = series[k].state
  BY DEF TrueFold
<1>3. PICK R, W :
         /\ Keeps(series, exit_ts, c) /\ Told(series, c, R, W)
         /\ R[c] = trueCpu /\ W[c] = trueWait
         /\ k <= c /\ left = (k + 1)..c /\ runtime = R[k] /\ waits = W[k]
         /\ k = 0 => previous = NoTime
         /\ k > 0 => previous = series[k].ts /\ off_start = series[k].state
  BY <1>2
<1>4. /\ Len(series) \in Nat
      /\ \A j \in 1..Len(series) : /\ series[j].ts \in Nat /\ series[j].delta \in Nat
                                   /\ series[j].state \in Waits
  BY PointTypes DEF LedgerTypeOK, DumpOK
<1>5. c <= Len(series)
  BY <1>3 DEF Keeps
<1>6. i = k + 1 /\ i \in 1..c
  <2>1. i \in (k + 1)..c
    BY <1>3 DEF Visit, Earliest
  <2>2. k + 1 \in left /\ k + 1 \in 1..Len(series) /\ i \in 1..Len(series)
    BY <1>2, <1>3, <1>4, <1>5, <2>1
  <2>3. series[i].ts < series[k + 1].ts \/ (series[i].ts = series[k + 1].ts /\ i <= k + 1)
    BY <2>2 DEF Visit, Earliest
  <2>4. k + 1 < i => series[k + 1].ts <= series[i].ts
    BY <2>2 DEF TrueFold, InOrder
  <2>5. series[i].ts \in Nat /\ series[k + 1].ts \in Nat
    BY <1>4, <2>2
  <2> QED BY <1>2, <2>1, <2>3, <2>4, <2>5
<1>7. runtime' = R[i]
  <2>1. \A j \in 1..c : R[j] = R[j - 1] + series[j].delta
    BY <1>3 DEF Told
  <2>2. R[i] = R[i - 1] + series[i].delta
    BY <1>6, <2>1
  <2>3. i - 1 = k
    BY <1>2, <1>6
  <2> QED BY <1>1, <1>3, <2>2, <2>3
<1>8. waits' = W[i] /\ skew' = 0
  <2>1. CASE k = 0
    <3>1. waits' = waits /\ skew' = skew
      BY <1>3, <2>1 DEF Visit
    <3>2. W[1] = NoWaits /\ W[0] = NoWaits
      BY <1>2, <1>3, <1>6, <2>1 DEF Told
    <3> QED BY <1>3, <1>6, <2>1, <3>1, <3>2 DEF TrueFold
  <2>2. CASE k > 0
    <3>told. Told(series, c, R, W)
      BY <1>3, Zenon
    <3>1. i \in 2..c /\ i - 1 = k /\ k \in 1..Len(series) /\ i \in 1..Len(series)
      BY <1>2, <1>4, <1>5, <1>6, <2>2
    <3>2. /\ GapAt(series, i) \in Int /\ GapAt(series, i) >= 0
          /\ W[i] = [W[k] EXCEPT ![series[k].state] = @ + GapAt(series, i)]
      <4>1. GapAt(series, i) \in Int
        <5>1. series[i] \in Point /\ series[i - 1] \in Point
          BY <3>1, ElementOfSeq DEF LedgerTypeOK, DumpOK
        <5> QED BY ONLY <5>1 DEF GapAt, Point
      <4>2. /\ GapAt(series, i) >= 0
            /\ W[i] = [W[i - 1] EXCEPT ![series[i - 1].state] = @ + GapAt(series, i)]
        BY ONLY <3>told, <3>1, ToldGap
      <4> QED BY ONLY <3>1, <4>1, <4>2
    <3> DEFINE g == GapAt(series, i)
    <3>gap. g \in Int /\ g >= 0 /\ W[i] = [W[k] EXCEPT ![series[k].state] = @ + g]
      BY ONLY <3>2
    <3>3. previous = series[k].ts /\ previous # NoTime
      BY <1>3, <1>4, <2>2, <3>1 DEF NoTime
    <3>4. Gap(g)
      BY <3>1, <3>3 DEF Visit, GapAt
    <3> HIDE DEF g
    <3>5. waits \in [Waits -> Nat] /\ off_start \in Waits /\ off_start = series[k].state
      BY <1>3, <2>2 DEF LedgerTypeOK, FoldOK
    <3>6. CASE g > 0
      <4>1. waits' = [waits EXCEPT ![off_start] = @ + g] /\ skew' = skew
        BY <3>gap, <3>4, <3>6 DEF Gap, Charge
      <4> QED BY <1>3, <3>gap, <3>5, <4>1 DEF TrueFold
    <3>7. CASE g = 0
      <4>1. waits' = waits /\ skew' = skew
        BY <3>4, <3>7 DEF Gap
      <4>2. W[i] = [waits EXCEPT ![off_start] = waits[off_start] + 0]
        BY <1>3, <3>gap, <3>5, <3>7
      <4>3. W[i] = waits
        BY <3>5, <4>2
      <4> QED BY <4>1, <4>3 DEF TrueFold
    <3> QED BY <3>gap, <3>6, <3>7
  <2> QED BY <1>2, <2>1, <2>2
<1>9. left' = (i + 1)..c
  BY <1>1, <1>2, <1>3, <1>6
<1> QED
  <2>1. InOrder(series') /\ skew' = 0
    BY <1>1, <1>8 DEF TrueFold
  <2>2. /\ Keeps(series', exit_ts', c) /\ Told(series', c, R, W)
        /\ R[c] = trueCpu' /\ W[c] = trueWait'
        /\ i <= c /\ left' = (i + 1)..c /\ runtime' = R[i] /\ waits' = W[i]
        /\ previous' = series'[i].ts /\ off_start' = series'[i].state
    BY <1>1, <1>3, <1>6, <1>7, <1>8, <1>9
  <2>3. i \in Nat /\ i # 0
    BY <1>2, <1>6
  <2> QED BY <1>2, <2>1, <2>2, <2>3 DEF TrueFold

LEMMA FinishTrue ==
  ASSUME LedgerTypeOK, TrueFold, Finish
  PROVE  LedgerIsTrue'
<1>1. PICK c \in Nat, k \in Nat : \E R, W :
         /\ R[c] = trueCpu /\ W[c] = trueWait
         /\ k <= c /\ left = (k + 1)..c /\ runtime = R[k] /\ waits = W[k]
  BY DEF TrueFold
<1>2. c = k
  <2>1. (k + 1)..c = {}
    BY <1>1 DEF Finish
  <2>2. ~(k + 1 <= c)
    BY <1>1, <2>1
  <2> QED BY <1>1, <2>2
<1>3. runtime = trueCpu /\ waits = trueWait /\ skew = 0
  BY <1>1, <1>2 DEF TrueFold
<1> QED BY <1>3 DEF Finish, threadVars, LedgerIsTrue

LEMMA TrueStep == Paired /\ LedgerInv /\ LedgerInv' /\ TrueInv /\ [Next]_vars => TrueInv'
<1> SUFFICES ASSUME Paired, LedgerInv, LedgerInv', TrueInv, [Next]_vars, Exact', ~burst'
             PROVE  /\ phase' = "read" => TrueRead'
                    /\ phase' = "fold" => TrueFold'
                    /\ LedgerIsTrue'
  BY DEF TrueInv
<1>1. LedgerTypeOK /\ LedgerTypeOK'
  BY DEF LedgerInv
<1>2. CASE Scheduler
  <2>1. phase = "read"
    BY <1>2 DEF Scheduler
  <2>2. PICK t \in now..MaxTime :
          \/ SwitchIn(t) \/ Reborn(t)
          \/ \E said \in BOOLEAN : Exit(t, said)
          \/ \E kept \in BOOLEAN, e \in Skews : Tick(t, kept, e)
          \/ \E s \in States \cup {"T"}, lag \in Lags, kept, said \in BOOLEAN, e \in Skews :
               SwitchOut(t, s, lag, kept, said, e)
    BY <1>2 DEF Scheduler
  <2>3. t \in Nat /\ now <= t
    BY <1>1, LedgerAssumption DEF LedgerTypeOK, ThreadOK
  <2>4. States \cup {"T"} \subseteq Waits
    BY LedgerAssumption DEF Waits
  <2>5. phase' = "read"
    BY <2>1, <2>2 DEF SwitchIn, Reborn, Exit, Tick, SwitchOut, foldVars
  <2>6. Exact /\ ~burst
    <3>1. faults' = faults \/ faults' = faults + 1
      BY <2>2 DEF SwitchIn, Reborn, Exit, Tick, SwitchOut, Settle
    <3>2. faults \in Nat
      BY <1>1, LedgerAssumption DEF LedgerTypeOK, ThreadOK
    <3>3. ours' = ours
      BY <2>2 DEF SwitchIn, Reborn, Exit, Tick, SwitchOut
    <3>4. burst' = burst \/ \E said \in BOOLEAN : Exit(t, said)
      BY <2>2 DEF SwitchIn, Reborn, Tick, SwitchOut
    <3>5. ASSUME NEW said \in BOOLEAN, Exit(t, said), burst PROVE FALSE
      BY <3>5 DEF Exit
    <3> QED BY <3>1, <3>2, <3>3, <3>4, <3>5 DEF Exact
  <2>7. TrueRead
    BY <2>1, <2>6 DEF TrueInv
  <2>8. TrueRead'
    <3>1. CASE SwitchIn(t) \/ Reborn(t)
      BY <1>1, <2>3, <2>6, <2>7, <3>1, SilentTrue
    <3>2. CASE \E said \in BOOLEAN : Exit(t, said)
      BY <1>1, <2>3, <2>6, <2>7, <3>2, ExitTrue
    <3>3. CASE \E kept \in BOOLEAN, e \in Skews : Tick(t, kept, e)
      BY <1>1, <2>3, <2>6, <2>7, <3>3, TickTrue
    <3>4. CASE \E s \in States \cup {"T"}, lag \in Lags, kept, said \in BOOLEAN, e \in Skews :
                 SwitchOut(t, s, lag, kept, said, e)
      BY <1>1, <2>3, <2>4, <2>6, <2>7, <3>4, SwitchOutTrue
    <3> QED BY <2>2, <3>1, <3>2, <3>3, <3>4
  <2> QED BY <2>5, <2>8 DEF LedgerIsTrue
<1>3. CASE Fold
  <2>1. ours' = ours /\ faults' = faults /\ burst' = burst
    BY <1>3 DEF Fold, Drop, Start, Visit, Finish, EndOfDump, threadVars
  <2>2. Exact /\ ~burst
    BY <2>1 DEF Exact
  <2>3. CASE Drop
    BY <1>1, <2>2, <2>3, DropTrue DEF TrueInv, Drop
  <2>4. CASE Finish
    BY <1>1, <2>2, <2>4, FinishTrue DEF TrueInv, Finish
  <2>5. CASE \E a, b \in DOMAIN series : Start(a, b)
    BY <2>2, <2>5, StartTrue DEF TrueInv, Start, LedgerIsTrue
  <2>6. CASE \E i \in DOMAIN series : Visit(i)
    BY <1>1, <2>2, <2>6, VisitTrue DEF TrueInv, Visit, LedgerIsTrue
  <2> QED BY <1>3, <2>3, <2>4, <2>5, <2>6 DEF Fold
<1>4. CASE UNCHANGED vars
  <2> USE <1>4 DEF vars, threadVars, dumpVars, foldVars
  <2>1. Exact /\ ~burst
    BY DEF Exact
  <2>2. TrueRead => TrueRead'
    BY DEF TrueRead, Owes, Exited, Last
  <2>3. TrueFold => TrueFold'
    BY DEF TrueFold
  <2>4. LedgerIsTrue => LedgerIsTrue'
    BY DEF LedgerIsTrue, Exact
  <2> QED BY <2>1, <2>2, <2>3, <2>4 DEF TrueInv
<1> QED BY <1>2, <1>3, <1>4 DEF Next, Over

\* A complete and exact dump of a target's thread gives exactly what the thread
\* did - its CPU, each wait under the state it was in, no skew - however long the
\* dump and however its lines interleave with the thread's death and with the
\* next thread of that tid.  Paired is what _SWITCH_PAIR_S is for (wait.py:79-82):
\* a switch line comes tens of microseconds after its runtime line, far inside the
\* window of 500.
THEOREM LedgerTellsTheTruth == Paired => (Spec => []LedgerIsTrue)
<1>1. Paired /\ Spec => []TrueInv
  <2>1. Paired => Paired'
    BY DEF Paired
  <2>2. Paired => []Paired
    BY <2>1, PTL
  <2> QED BY <2>2, TrueInit, TrueStep, LedgerInvariant, PTL DEF Spec
<1>2. TrueInv => LedgerIsTrue
  BY DEF TrueInv, LedgerIsTrue
<1> QED BY <1>1, <1>2, PTL

-----------------------------------------------------------------------------
(***************************************************************************)
(* The windows.  A window reads the slices back, so the invariant says     *)
(* that the slices of each state carry its total; everything else is how   *)
(* the overlaps of a slice with two windows side by side relate.           *)
(***************************************************************************)

Lengths == [k \in DOMAIN slices |-> slices[k].end - slices[k].start]

Charged ==
  /\ \A w \in Waits : SumFunctionOnSet(Lengths, Of(w)) = waits[w]
  /\ SumFunctionOnSet(Lengths, DOMAIN slices) = Waited

\* The facts about slices that the sums over them need.
LEMMA SliceTypes ==
  ASSUME NEW sl \in Seq(Slice)
  PROVE  /\ Len(sl) \in Nat /\ DOMAIN sl = 1..Len(sl) /\ IsFiniteSet(DOMAIN sl)
         /\ \A k \in DOMAIN sl : /\ sl[k].start \in Nat /\ sl[k].end \in Nat
                                 /\ sl[k].state \in Waits
<1>1. Len(sl) \in Nat /\ DOMAIN sl = 1..Len(sl)
  OBVIOUS
<1>2. IsFiniteSet(1..Len(sl))
  BY <1>1, FS_Interval
<1>3. ASSUME NEW k \in DOMAIN sl
      PROVE  sl[k].start \in Nat /\ sl[k].end \in Nat /\ sl[k].state \in Waits
  <2>1. sl[k] \in Slice
    BY <1>1, ElementOfSeq
  <2> QED BY <2>1 DEF Slice
<1> QED BY <1>1, <1>2, <1>3

LEMMA OfFinite ==
  ASSUME FoldOK, NEW w
  PROVE  IsFiniteSet(Of(w)) /\ Of(w) \subseteq DOMAIN slices
<1>1. IsFiniteSet(DOMAIN slices)
  BY SliceTypes DEF FoldOK
<1> QED BY <1>1, FS_Subset DEF Of

\* A wait written down is charged once, to its own state.
LEMMA ChargeCharges ==
  ASSUME FoldOK, FoldOK', Charged, NEW off \in Nat, Charge(off), previous \in Nat
  PROVE  Charged'
<1> DEFINE n == Len(slices)
           new == [start |-> previous, end |-> previous + off, state |-> off_start]
           F == Lengths
           G == Lengths'
<1>1. slices \in Seq(Slice) /\ slices' \in Seq(Slice) /\ off_start \in Waits
  BY DEF FoldOK
<1>2. /\ n \in Nat /\ DOMAIN slices = 1..n /\ IsFiniteSet(DOMAIN slices)
      /\ \A k \in 1..n : slices[k].start \in Nat /\ slices[k].end \in Nat
  BY <1>1, SliceTypes
<1>3. slices' = Append(slices, new) /\ waits' = [waits EXCEPT ![off_start] = waits[off_start] + off]
  BY DEF Charge
<1>4. new \in Slice /\ new.end - new.start = off /\ new.state = off_start
  BY <1>1 DEF Slice
<1>5. /\ DOMAIN slices' = 1..(n + 1) /\ slices'[n + 1] = new
      /\ \A k \in 1..n : slices'[k] = slices[k]
  <2> HIDE DEF new
  <2> QED BY <1>1, <1>3, <1>4, AppendProperties
<1>6. /\ \A k \in 1..n : F[k] \in Int /\ G[k] = F[k] /\ G[k] \in Int
      /\ G[n + 1] = off
  <2>1. \A k \in 1..n : F[k] = slices[k].end - slices[k].start
    BY <1>2 DEF Lengths
  <2>2. \A k \in 1..(n + 1) : G[k] = slices'[k].end - slices'[k].start
    BY <1>5 DEF Lengths
  <2>3. n + 1 \in 1..(n + 1) /\ \A k \in 1..n : k \in 1..(n + 1)
    BY <1>2
  <2> HIDE DEF F, G, new
  <2>4. G[n + 1] = off
    BY <1>4, <1>5, <2>2, <2>3
  <2>5. ASSUME NEW k \in 1..n PROVE F[k] \in Int /\ G[k] = F[k] /\ G[k] \in Int
    <3>1. F[k] = slices[k].end - slices[k].start /\ G[k] = slices[k].end - slices[k].start
      BY <1>5, <2>1, <2>2, <2>3
    <3> QED BY <1>2, <3>1
  <2> QED BY <2>4, <2>5
<1> HIDE DEF F, G, new
<1>7. ASSUME NEW S \in SUBSET (1..n)
      PROVE  /\ IsFiniteSet(S) /\ SumFunctionOnSet(F, S) \in Int
             /\ SumFunctionOnSet(G, S) = SumFunctionOnSet(F, S)
             /\ SumFunctionOnSet(G, S \cup {n + 1}) = off + SumFunctionOnSet(F, S)
  <2>1. IsFiniteSet(S) /\ \A k \in S : F[k] \in Int /\ G[k] = F[k]
    BY <1>2, <1>6, FS_Subset
  <2>2. SumFunctionOnSet(G, S) = SumFunctionOnSet(F, S) /\ SumFunctionOnSet(F, S) \in Int
    BY <2>1, SumEqual, SumType
  <2>3. IsFiniteSet(S \cup {n + 1}) /\ n + 1 \notin S
    BY <1>2, <2>1, FS_AddElement
  <2>4. \A k \in S \cup {n + 1} : G[k] \in Int
    BY <1>6, <2>1
  <2>5. SumFunctionOnSet(G, S \cup {n + 1})
          = G[n + 1] + SumFunctionOnSet(G, (S \cup {n + 1}) \ {n + 1})
    BY <2>3, <2>4, SumElement
  <2>6. (S \cup {n + 1}) \ {n + 1} = S
    BY <2>3
  <2>7. SumFunctionOnSet(G, S \cup {n + 1}) = off + SumFunctionOnSet(F, S)
    BY <1>6, <2>2, <2>5, <2>6
  <2> QED BY <2>1, <2>2, <2>7
<1>8. ASSUME NEW w \in Waits PROVE SumFunctionOnSet(G, Of(w)') = waits'[w]
  <2>1. Of(w) \in SUBSET (1..n)
    BY <1>2 DEF Of
  <2>2. Of(w)' = IF w = off_start THEN Of(w) \cup {n + 1} ELSE Of(w)
    BY <1>2, <1>4, <1>5 DEF Of
  <2>3. SumFunctionOnSet(F, Of(w)) = waits[w]
    BY DEF Charged, F
  <2>4. waits'[w] = IF w = off_start THEN waits[w] + off ELSE waits[w]
    BY <1>1, <1>3 DEF FoldOK
  <2>5. waits[w] \in Nat
    BY DEF FoldOK
  <2>6. /\ SumFunctionOnSet(G, Of(w)) = waits[w]
        /\ SumFunctionOnSet(G, Of(w) \cup {n + 1}) = off + waits[w]
    BY <1>7, <2>1, <2>3
  <2> QED BY <2>2, <2>4, <2>5, <2>6
<1>9. SumFunctionOnSet(G, DOMAIN slices') = Waited'
  <2>1. DOMAIN slices' = 1..n \cup {n + 1}
    BY <1>2, <1>5
  <2>2. SumFunctionOnSet(F, 1..n) = Waited
    BY <1>2 DEF Charged, F
  <2>3. Waited' = Waited + off
    <3>1. \A w \in Waits : waits[w] \in Nat
      BY DEF FoldOK
    <3>2. \A w \in Waits : waits'[w] = IF w = off_start THEN waits[w] + off ELSE waits[w]
      BY <1>1, <1>3 DEF FoldOK
    <3>3. off_start \in {"none", "S", "D", "R", "T"}
      BY <1>1 DEF Waits
    <3> QED BY <3>1, <3>2, <3>3 DEF Waited, Waits
  <2>4. SumFunctionOnSet(G, DOMAIN slices') = off + Waited
    <3>1. 1..n \in SUBSET (1..n)
      OBVIOUS
    <3> QED BY <1>7, <2>1, <2>2, <3>1
  <2>5. Waited \in Nat
    <3>1. \A w \in Waits : waits[w] \in Nat
      BY DEF FoldOK
    <3> QED BY <3>1 DEF Waited, Waits
  <2> QED BY <2>3, <2>4, <2>5
<1> QED BY <1>8, <1>9 DEF Charged, G

LEMMA ChargedInit == Init => Charged
<1> SUFFICES ASSUME Init PROVE Charged
  OBVIOUS
<1>1. DOMAIN slices = {} /\ \A w : Of(w) = {}
  BY DEF Init, Of
<1>2. waits = NoWaits /\ Waited = 0
  BY DEF Init, Waited, NoWaits, Waits
<1>3. \A w \in Waits : waits[w] = 0
  BY <1>2 DEF NoWaits
<1> QED BY <1>1, <1>2, <1>3, SumEmpty DEF Charged

LEMMA ChargedStep == LedgerInv /\ LedgerInv' /\ Charged /\ [Next]_vars => Charged'
<1> SUFFICES ASSUME LedgerInv, LedgerInv', Charged, [Next]_vars PROVE Charged'
  OBVIOUS
<1>1. CASE UNCHANGED <<waits, slices>>
  BY <1>1 DEF Charged, Lengths, Of, Waited
<1>2. ASSUME NEW i \in DOMAIN series, Visit(i), ~UNCHANGED <<waits, slices>> PROVE Charged'
  <2> DEFINE off == series[i].ts - previous - series[i].delta
  <2>1. previous # NoTime /\ Gap(off)
    BY <1>2 DEF Visit
  <2>2. FoldOK /\ FoldOK' /\ previous \in Nat
    BY <2>1 DEF LedgerInv, LedgerTypeOK, FoldOK
  <2>3. off \in Int
    <3>1. series[i].ts \in Nat /\ series[i].delta \in Nat
      <4>1. series[i] \in Point
        BY ElementOfSeq DEF LedgerInv, LedgerTypeOK, DumpOK
      <4> QED BY <4>1 DEF Point
    <3> QED BY <2>2, <3>1
  <2> HIDE DEF off
  <2>4. off > 0 /\ Charge(off)
    BY <1>2, <2>1 DEF Gap
  <2> QED BY <2>2, <2>3, <2>4, ChargeCharges
<1>3. CASE Scheduler
  <2>1. UNCHANGED <<waits, slices>>
    BY <1>3 DEF Scheduler, SwitchIn, Reborn, Exit, Tick, SwitchOut, foldVars
  <2> QED BY <1>1, <2>1
<1>4. CASE Fold
  <2>1. CASE Drop \/ Finish \/ \E a, b \in DOMAIN series : Start(a, b)
    <3>1. UNCHANGED <<waits, slices>>
      BY <2>1 DEF Drop, Finish, Start
    <3> QED BY <1>1, <3>1
  <2>2. CASE \E i \in DOMAIN series : Visit(i)
    BY <1>1, <1>2, <2>2
  <2> QED BY <1>4, <2>1, <2>2 DEF Fold
<1>5. CASE UNCHANGED vars
  <2>1. UNCHANGED <<waits, slices>>
    BY <1>5 DEF vars, foldVars
  <2> QED BY <1>1, <2>1
<1> QED BY <1>3, <1>4, <1>5 DEF Next, Over

\* What a ledger that is done, and has a span, looks like.
Settled ==
  /\ first_ts \in Nat /\ last_ts \in Nat /\ first_ts < last_ts /\ span = last_ts - first_ts
  /\ slices \in Seq(Slice)
  /\ \A k \in DOMAIN slices : /\ first_ts <= slices[k].start
                              /\ slices[k].start < slices[k].end
                              /\ slices[k].end <= last_ts

LEMMA DoneIsSettled ==
  ASSUME LedgerInv, phase = "done", span > 0
  PROVE  Settled /\ runtime + Waited = span + lead + skew
<1>1. first_ts \in Nat /\ last_ts \in Nat /\ span = last_ts - first_ts /\ previous = last_ts
  BY DEF LedgerInv, LedgerTypeOK, FoldOK, Opened, FoldEnded, NoTime
<1>2. previous # NoTime
  BY <1>1 DEF NoTime
<1>3. runtime + Waited = span + lead + skew
  BY <1>1, <1>2 DEF LedgerInv, Account
<1>4. first_ts < last_ts
  BY <1>1
<1>5. slices \in Seq(Slice) /\ \A k \in DOMAIN slices : /\ first_ts <= slices[k].start
                                                        /\ slices[k].start < slices[k].end
                                                        /\ slices[k].end <= last_ts
  BY <1>1 DEF LedgerInv, LedgerTypeOK, FoldOK, Tiles
<1> QED BY <1>1, <1>3, <1>4, <1>5 DEF Settled

\* A slice seen through two windows side by side is the slice seen through both.
LEMMA OverlapSplits ==
  ASSUME Settled, NEW k \in DOMAIN slices, NEW lo \in Int, NEW mid \in Int, NEW hi \in Int,
         lo <= mid, mid <= hi
  PROVE  /\ Overlap(slices[k], lo, mid) \in Int /\ Overlap(slices[k], mid, hi) \in Int
         /\ Overlap(slices[k], lo, hi) = Overlap(slices[k], lo, mid) + Overlap(slices[k], mid, hi)
<1>1. slices[k].start \in Nat /\ slices[k].end \in Nat /\ slices[k].start < slices[k].end
  BY SliceTypes DEF Settled
<1> QED BY <1>1 DEF Overlap, Larger, Smaller

LEMMA WindowSplits ==
  ASSUME Settled, NEW S \in SUBSET DOMAIN slices, NEW lo \in Int, NEW mid \in Int, NEW hi \in Int,
         lo <= mid, mid <= hi
  PROVE  /\ SumFunctionOnSet(Overlaps(lo, mid), S) \in Int
         /\ SumFunctionOnSet(Overlaps(mid, hi), S) \in Int
         /\ SumFunctionOnSet(Overlaps(lo, hi), S)
              = SumFunctionOnSet(Overlaps(lo, mid), S) + SumFunctionOnSet(Overlaps(mid, hi), S)
<1>1. IsFiniteSet(S)
  BY SliceTypes, FS_Subset DEF Settled
<1>2. \A k \in S : /\ Overlaps(lo, mid)[k] \in Int /\ Overlaps(mid, hi)[k] \in Int
                   /\ Overlaps(lo, hi)[k] = Overlaps(lo, mid)[k] + Overlaps(mid, hi)[k]
  BY OverlapSplits DEF Overlaps
<1>3. \A k \in S : Overlaps(lo, hi)[k] \in Int
  BY <1>2
<1> QED BY <1>1, <1>2, <1>3, SumPlus, SumType

\* A window that holds nothing of the span holds nothing of the slices.
LEMMA OutsideIsEmpty ==
  ASSUME Settled, NEW S \in SUBSET DOMAIN slices, NEW lo \in Int, NEW hi \in Int, lo <= hi,
         ~Holds(lo, hi)
  PROVE  SumFunctionOnSet(Overlaps(lo, hi), S) = 0
<1>1. IsFiniteSet(S)
  BY SliceTypes, FS_Subset DEF Settled
<1>2. last_ts <= lo \/ hi <= first_ts
  BY DEF Settled, Holds, NoTime
<1>3. ASSUME NEW k \in S PROVE Overlaps(lo, hi)[k] = 0
  <2>1. /\ slices[k].start \in Nat /\ slices[k].end \in Nat /\ first_ts <= slices[k].start
        /\ slices[k].start < slices[k].end /\ slices[k].end <= last_ts
    BY SliceTypes DEF Settled
  <2>2. Overlap(slices[k], lo, hi) = 0
    BY <1>2, <2>1 DEF Overlap, Larger, Smaller, Settled
  <2> QED BY <2>2 DEF Overlaps
<1> QED BY <1>1, <1>3, SumZero

LEMMA WaitsAdd ==
  ASSUME Settled, NEW w, NEW lo \in Int, NEW mid \in Int, NEW hi \in Int, lo <= mid, mid <= hi
  PROVE  FoldWait(w, lo, hi) = FoldWait(w, lo, mid) + FoldWait(w, mid, hi)
<1>1. Of(w) \in SUBSET DOMAIN slices /\ lo <= hi
  BY DEF Of
<1>2. \A a, b \in Int : a <= b => FoldWait(w, a, b) = SumFunctionOnSet(Overlaps(a, b), Of(w))
  BY <1>1, OutsideIsEmpty DEF FoldWait
<1> QED BY <1>1, <1>2, WindowSplits

\* Multiplication distributes over the parts of a window's CPU.
LEMMA Distributes ==
  ASSUME NEW a \in Int, NEW b \in Int, NEW c \in Int
  PROVE  a * (b + c) = a * b + a * c /\ a * b \in Int
OBVIOUS

\* The CPU of a window in two factors: what the span scales, and the skew's share.
LEMMA OnAdds ==
  ASSUME Settled, lead \in Nat, skew \in Nat, NEW lo \in Int, NEW mid \in Int, NEW hi \in Int,
         lo < mid, mid < hi
  PROVE  FoldOn(lo, hi) = FoldOn(lo, mid) + FoldOn(mid, hi)
<1> DEFINE D == DOMAIN slices
           Plain(a, b) == IF Holds(a, b) THEN Covered(a, b) - FoldWaits(a, b) + FoldLead(a) ELSE 0
           Cover(a, b) == IF Holds(a, b) THEN Covered(a, b) ELSE 0
<1>1. first_ts \in Nat /\ last_ts \in Nat /\ first_ts < last_ts /\ first_ts # NoTime
      /\ span \in Int /\ span > 0
  BY DEF Settled, NoTime
<1>2. /\ FoldWaits(lo, mid) \in Int /\ FoldWaits(mid, hi) \in Int
      /\ FoldWaits(lo, hi) = FoldWaits(lo, mid) + FoldWaits(mid, hi)
  BY WindowSplits DEF FoldWaits
<1>3. \A a, b \in Int : a <= b /\ ~Holds(a, b) => FoldWaits(a, b) = 0
  BY OutsideIsEmpty DEF FoldWaits
<1>4. /\ Cover(lo, hi) = Cover(lo, mid) + Cover(mid, hi)
      /\ Cover(lo, mid) \in Int /\ Cover(mid, hi) \in Int
  BY <1>1 DEF Holds, Covered, Larger, Smaller
<1>5. /\ Plain(lo, hi) = Plain(lo, mid) + Plain(mid, hi)
      /\ Plain(lo, mid) \in Int /\ Plain(mid, hi) \in Int
  <2>1. /\ Covered(lo, mid) \in Int /\ Covered(mid, hi) \in Int
        /\ FoldLead(lo) \in Int /\ FoldLead(mid) \in Int
    BY <1>1 DEF Covered, Larger, Smaller, FoldLead
  <2>2. CASE Holds(lo, mid) /\ Holds(mid, hi)
    <3>1. Holds(lo, hi) /\ FoldLead(mid) = 0 /\ FoldLead(lo) = FoldLead(lo)
      BY <1>1, <2>2 DEF Holds, FoldLead
    <3>2. Covered(lo, hi) = Covered(lo, mid) + Covered(mid, hi)
      BY <1>4, <2>2, <3>1
    <3>3. /\ Plain(lo, hi) = Covered(lo, hi) - FoldWaits(lo, hi) + FoldLead(lo)
          /\ Plain(lo, mid) = Covered(lo, mid) - FoldWaits(lo, mid) + FoldLead(lo)
          /\ Plain(mid, hi) = Covered(mid, hi) - FoldWaits(mid, hi) + FoldLead(mid)
      BY <2>2, <3>1
    <3> HIDE DEF Plain
    <3> QED BY <1>2, <2>1, <3>1, <3>2, <3>3
  <2>3. CASE Holds(lo, mid) /\ ~Holds(mid, hi)
    <3>1. Holds(lo, hi) /\ Covered(lo, hi) = Covered(lo, mid)
      BY <1>1, <2>3 DEF Holds, Covered, Smaller, Larger
    <3>2. FoldWaits(mid, hi) = 0
      BY <1>3, <2>3
    <3>3. /\ Plain(lo, hi) = Covered(lo, hi) - FoldWaits(lo, hi) + FoldLead(lo)
          /\ Plain(lo, mid) = Covered(lo, mid) - FoldWaits(lo, mid) + FoldLead(lo)
          /\ Plain(mid, hi) = 0
      BY <2>3, <3>1
    <3> HIDE DEF Plain
    <3> QED BY <1>2, <2>1, <3>1, <3>2, <3>3
  <2>4. CASE ~Holds(lo, mid) /\ Holds(mid, hi)
    <3>1. Holds(lo, hi) /\ Covered(lo, hi) = Covered(mid, hi) /\ FoldLead(lo) = FoldLead(mid)
      BY <1>1, <2>4 DEF Holds, Covered, Smaller, Larger, FoldLead
    <3>2. FoldWaits(lo, mid) = 0
      BY <1>3, <2>4
    <3>3. /\ Plain(lo, hi) = Covered(lo, hi) - FoldWaits(lo, hi) + FoldLead(lo)
          /\ Plain(lo, mid) = 0
          /\ Plain(mid, hi) = Covered(mid, hi) - FoldWaits(mid, hi) + FoldLead(mid)
      BY <2>4, <3>1
    <3> HIDE DEF Plain
    <3> QED BY <1>2, <2>1, <3>1, <3>2, <3>3
  <2>5. CASE ~Holds(lo, mid) /\ ~Holds(mid, hi)
    <3>1. ~Holds(lo, hi)
      BY <1>1, <2>5 DEF Holds
    <3> QED BY <2>5, <3>1
  <2> QED BY <2>2, <2>3, <2>4, <2>5
<1>6. ASSUME NEW a \in Int, NEW b \in Int, Plain(a, b) \in Int, Cover(a, b) \in Int
      PROVE  FoldOn(a, b) = span * Plain(a, b) + skew * Cover(a, b)
  <2>1. CASE Holds(a, b)
    BY <1>1, <2>1 DEF FoldOn, FoldSkew, Scale
  <2>2. CASE ~Holds(a, b)
    BY <1>1, <2>2 DEF FoldOn
  <2> QED BY <2>1, <2>2
<1> HIDE DEF Plain, Cover
<1>7. FoldOn(lo, hi) = span * (Plain(lo, mid) + Plain(mid, hi)) + skew * (Cover(lo, mid) + Cover(mid, hi))
  BY <1>4, <1>5, <1>6
<1>8. /\ FoldOn(lo, mid) = span * Plain(lo, mid) + skew * Cover(lo, mid)
      /\ FoldOn(mid, hi) = span * Plain(mid, hi) + skew * Cover(mid, hi)
  BY <1>4, <1>5, <1>6
<1>9. /\ span * (Plain(lo, mid) + Plain(mid, hi)) = span * Plain(lo, mid) + span * Plain(mid, hi)
      /\ skew * (Cover(lo, mid) + Cover(mid, hi)) = skew * Cover(lo, mid) + skew * Cover(mid, hi)
      /\ span * Plain(lo, mid) \in Int /\ span * Plain(mid, hi) \in Int
      /\ skew * Cover(lo, mid) \in Int /\ skew * Cover(mid, hi) \in Int
  BY <1>1, <1>4, <1>5, Distributes
<1> QED BY <1>7, <1>8, <1>9

LEMMA WholeWindow ==
  ASSUME LedgerTypeOK, Settled, Charged, runtime + Waited = span + lead + skew
  PROVE  /\ FoldOn(first_ts, last_ts) = Scale * runtime
         /\ \A w \in Waits : FoldWait(w, first_ts, last_ts) = waits[w]
<1>1. /\ first_ts \in Nat /\ last_ts \in Nat /\ first_ts < last_ts /\ first_ts # NoTime
      /\ span = last_ts - first_ts /\ span \in Nat /\ span > 0
      /\ runtime \in Nat /\ lead \in Nat /\ skew \in Nat
  BY DEF Settled, NoTime, LedgerTypeOK, FoldOK
<1>2. Holds(first_ts, last_ts) /\ Covered(first_ts, last_ts) = span
  BY <1>1 DEF Holds, Covered, Larger, Smaller
<1>3. ASSUME NEW k \in DOMAIN slices
      PROVE  Overlaps(first_ts, last_ts)[k] = Lengths[k] /\ Lengths[k] \in Int
  <2>1. /\ slices[k].start \in Nat /\ slices[k].end \in Nat /\ first_ts <= slices[k].start
        /\ slices[k].start < slices[k].end /\ slices[k].end <= last_ts
    BY SliceTypes DEF Settled
  <2>2. Overlap(slices[k], first_ts, last_ts) = slices[k].end - slices[k].start
    BY <1>1, <2>1 DEF Overlap, Larger, Smaller
  <2> QED BY <2>1, <2>2 DEF Overlaps, Lengths
<1>4. ASSUME NEW S \in SUBSET DOMAIN slices
      PROVE  SumFunctionOnSet(Overlaps(first_ts, last_ts), S) = SumFunctionOnSet(Lengths, S)
  <2>1. IsFiniteSet(S)
    BY SliceTypes, FS_Subset DEF Settled
  <2> QED BY <1>3, <2>1, SumEqual
<1>5. \A w \in Waits : FoldWait(w, first_ts, last_ts) = waits[w]
  BY <1>2, <1>4 DEF FoldWait, Charged, Of
<1>6. FoldWaits(first_ts, last_ts) = Waited
  BY <1>4 DEF FoldWaits, Charged
<1>7. FoldOn(first_ts, last_ts) = span * (span - Waited + lead) + skew * span
  BY <1>1, <1>2, <1>6 DEF FoldOn, FoldLead, FoldSkew, Scale
<1>8. Waited \in Int
  <2>1. \A w \in Waits : waits[w] \in Nat
    BY DEF LedgerTypeOK, FoldOK
  <2> QED BY <2>1 DEF Waited, Waits
<1>9. span - Waited + lead = runtime - skew
  BY <1>1, <1>8
<1>10. span * (runtime - skew) + skew * span = span * runtime
  BY <1>1
<1> QED BY <1>1, <1>5, <1>7, <1>9, <1>10 DEF Scale

LEMMA ChargedInvariant == Spec => []Charged
BY ChargedInit, ChargedStep, LedgerInvariant, PTL DEF Spec

\* A window one tick longer sees one tick more, and the window over the whole run
\* shows the server's own totals: what the report's slider adds and takes away is
\* never dropped or counted twice at a seam.
THEOREM WindowsAddUp == Spec => []WindowsAdd
<1>1. ASSUME LedgerInv, Charged PROVE WindowsAdd
  <2> SUFFICES ASSUME phase = "done", span > 0
               PROVE  /\ \A lo, mid \in Moments : lo < mid =>
                           /\ FoldOn(lo, mid + 1) = FoldOn(lo, mid) + FoldOn(mid, mid + 1)
                           /\ \A w \in States : FoldWait(w, lo, mid + 1)
                                                 = FoldWait(w, lo, mid) + FoldWait(w, mid, mid + 1)
                      /\ FoldOn(first_ts, last_ts) = Scale * runtime
                      /\ \A w \in Waits : FoldWait(w, first_ts, last_ts) = waits[w]
    BY DEF WindowsAdd
  <2>1. Settled /\ runtime + Waited = span + lead + skew
    BY <1>1, DoneIsSettled
  <2>2. LedgerTypeOK /\ lead \in Nat /\ skew \in Nat
    BY <1>1 DEF LedgerInv, LedgerTypeOK, FoldOK
  <2>3. ASSUME NEW lo \in Moments, NEW mid \in Moments, lo < mid
        PROVE  /\ FoldOn(lo, mid + 1) = FoldOn(lo, mid) + FoldOn(mid, mid + 1)
               /\ \A w \in States : FoldWait(w, lo, mid + 1)
                                     = FoldWait(w, lo, mid) + FoldWait(w, mid, mid + 1)
    <3>1. lo \in Int /\ mid \in Int /\ mid + 1 \in Int /\ lo <= mid /\ mid < mid + 1 /\ mid <= mid + 1
      BY <2>3 DEF Moments
    <3> QED BY <2>1, <2>2, <2>3, <3>1, OnAdds, WaitsAdd
  <2> QED BY <1>1, <2>1, <2>2, <2>3, WholeWindow
<1> QED BY <1>1, ChargedInvariant, LedgerInvariant, PTL

\* The same for windows cut at any three moments of the clock, also outside the
\* run: the CPU and every wait of two windows side by side are those of both.
THEOREM WindowsCutAnywhereAdd ==
  Spec => [](phase = "done" /\ span > 0 =>
               \A lo, mid, hi \in Int : lo < mid /\ mid < hi =>
                 /\ FoldOn(lo, hi) = FoldOn(lo, mid) + FoldOn(mid, hi)
                 /\ \A w \in Waits : FoldWait(w, lo, hi) = FoldWait(w, lo, mid) + FoldWait(w, mid, hi))
<1>1. ASSUME LedgerInv, phase = "done", span > 0, NEW lo \in Int, NEW mid \in Int, NEW hi \in Int,
             lo < mid, mid < hi
      PROVE  /\ FoldOn(lo, hi) = FoldOn(lo, mid) + FoldOn(mid, hi)
             /\ \A w \in Waits : FoldWait(w, lo, hi) = FoldWait(w, lo, mid) + FoldWait(w, mid, hi)
  <2>1. Settled
    BY <1>1, DoneIsSettled
  <2>2. lead \in Nat /\ skew \in Nat
    BY <1>1 DEF LedgerInv, LedgerTypeOK, FoldOK
  <2>3. FoldOn(lo, hi) = FoldOn(lo, mid) + FoldOn(mid, hi)
    BY <1>1, <2>1, <2>2, OnAdds
  <2>4. lo <= mid /\ mid <= hi
    BY <1>1
  <2>5. \A w : FoldWait(w, lo, hi) = FoldWait(w, lo, mid) + FoldWait(w, mid, hi)
    BY <2>1, <2>4, WaitsAdd
  <2> QED BY <2>3, <2>5
<1>2. LedgerInv => (phase = "done" /\ span > 0 =>
               \A lo, mid, hi \in Int : lo < mid /\ mid < hi =>
                 /\ FoldOn(lo, hi) = FoldOn(lo, mid) + FoldOn(mid, hi)
                 /\ \A w \in Waits : FoldWait(w, lo, hi) = FoldWait(w, lo, mid) + FoldWait(w, mid, hi))
  BY <1>1
<1> QED BY <1>2, LedgerInvariant, PTL

-----------------------------------------------------------------------------
(* The cycle.                                                              *)

\* The pool has not begun with the run.
NotBegun == {"none", "queued"}

Given == \A i \in Idx : run[i] = "none" <=> i > submitted
Fifo  == \A i, j \in Idx : i < j /\ run[i] \in NotBegun => run[j] \in NotBegun
Room  == Cardinality(Busy) <= jobs /\ (pinned => jobs <= Cores)
Taken == \A i \in taken : run[i] \in Ended
Past  == /\ pc \in {"clean", "table"} \/ base = "removed" => taken = Idx
         /\ pc = "over" /\ outcome # "abandoned" => \A i \in Idx : run[i] \notin Working \cup {"queued"}
         /\ outcome = "abandoned" => pc = "over" /\ ints >= 2
         /\ pc = "exit" => ints >= 1
         /\ pc \in {"collect", "clean", "table"} => submitted = Total

CycleInv == CycleTypeOK /\ Given /\ Fifo /\ Room /\ Taken /\ Past

-----------------------------------------------------------------------------
(* Runs on one core are a whole number of rounds apart.                    *)

LEMMA SameCore ==
  ASSUME NEW c \in Nat \ {0}, NEW a \in Nat, NEW b \in Nat, a < b, a % c = b % c
  PROVE  c <= b - a
<1> DEFINE p == a \div c  q == b \div c
<1>1. a = c * p + (a % c) /\ b = c * q + (b % c)
  OBVIOUS
<1>2. p \in Int /\ q \in Int /\ a % c \in Int /\ b % c \in Int
  OBVIOUS
<1> HIDE DEF p, q
<1>3. c * p \in Int /\ c * q \in Int
  BY <1>2
<1>4. CASE q <= p
  <2>1. c * q <= c * p
    BY <1>2, <1>4
  <2> QED BY <1>1, <1>2, <1>3, <2>1
<1>5. CASE p < q
  <2>1. c * p + c <= c * q
    BY <1>2, <1>5
  <2> QED BY <1>1, <1>2, <1>3, <2>1
<1> QED BY <1>2, <1>4, <1>5

LEMMA IdxFinite == IsFiniteSet(Idx) /\ Total \in Nat
<1>1. Total \in Nat
  BY CycleAssumption DEF Total
<1> QED BY <1>1, FS_Interval DEF Idx

LEMMA BusyFinite == IsFiniteSet(Busy) /\ Cardinality(Busy) \in Nat
<1>1. Busy \in SUBSET Idx
  BY DEF Busy
<1> QED BY <1>1, IdxFinite, FS_Subset, FS_CardinalityType

-----------------------------------------------------------------------------
LEMMA CycleStart == CycleInit => CycleInv
<1> SUFFICES ASSUME CycleInit PROVE CycleInv
  OBVIOUS
<1>1. CycleTypeOK
  <2>1. pinned \in BOOLEAN
    BY DEF CycleInit
  <2>2. run \in [Idx -> {"none", "queued"} \cup Working \cup Ended]
    BY DEF CycleInit
  <2>3. submitted \in 0..Total /\ ints \in 0..MaxInterrupts
    BY CycleAssumption, IdxFinite DEF CycleInit
  <2>4. /\ DOMAIN results \subseteq Measured
        /\ \A i \in DOMAIN results : results[i] \in 0..(Cores - 1) \cup {NoCore}
    BY DEF CycleInit
  <2> QED BY <2>1, <2>2, <2>3, <2>4 DEF CycleInit, CycleTypeOK
<1>2. Given /\ Fifo /\ Taken /\ Past
  BY IdxFinite DEF CycleInit, Given, Fifo, Taken, Past, NotBegun, Idx
<1>3. Room
  <2>1. Busy = {}
    BY DEF CycleInit, Busy, Working
  <2>2. jobs \in Nat /\ (pinned => jobs <= Cores)
    BY CycleAssumption DEF CycleInit, MayPin
  <2> QED BY <2>1, <2>2, FS_EmptySet DEF Room
<1> QED BY <1>1, <1>2, <1>3 DEF CycleInv

-----------------------------------------------------------------------------
(* The main thread: it only ever changes what has been submitted.          *)

LEMMA OtherRunsKept ==
  ASSUME CycleInv, UNCHANGED <<jobs, pinned, run, submitted>>
  PROVE  Given' /\ Fifo' /\ Room'
<1>1. Busy' = Busy
  BY DEF Busy
<1> QED BY <1>1 DEF CycleInv, Given, Fifo, Room

LEMMA SubmitKeeps == CycleInv /\ Submit => CycleInv'
<1> SUFFICES ASSUME CycleInv, Submit PROVE CycleInv'
  OBVIOUS
<1> DEFINE n == submitted + 1
<1>1. n \in Idx /\ submitted \in Nat /\ submitted < Total /\ Total \in Nat /\ run[n] = "none"
  BY IdxFinite DEF CycleInv, CycleTypeOK, Submit, Given, Idx
<1>2. /\ run' = [run EXCEPT ![n] = "queued"] /\ submitted' = n /\ pc = "submit" /\ pc' = "submit"
      /\ UNCHANGED <<jobs, pinned, taken, results, base, table, outcome, ints, probed>>
  BY DEF Submit
<1>3. CycleTypeOK'
  <2>1. run' \in [Idx -> {"none", "queued"} \cup Working \cup Ended]
    BY <1>1, <1>2 DEF CycleInv, CycleTypeOK
  <2>2. submitted' \in 0..Total
    BY <1>1, <1>2
  <2>3. /\ DOMAIN results' \subseteq Measured
        /\ \A i \in DOMAIN results' : results'[i] \in 0..(Cores - 1) \cup {NoCore}
    BY <1>2 DEF CycleInv, CycleTypeOK
  <2> QED BY <1>2, <2>1, <2>2, <2>3 DEF CycleInv, CycleTypeOK
<1>4. \A i \in Idx : i \in Nat /\ run'[i] = IF i = n THEN "queued" ELSE run[i]
  BY <1>1, <1>2 DEF CycleInv, CycleTypeOK, Idx
<1> HIDE DEF n
<1>5. Given'
  <2>1. \A i \in Idx : i > n <=> (i > submitted /\ i # n)
    BY <1>1, <1>4 DEF n
  <2> QED BY <1>1, <1>2, <1>4, <2>1 DEF CycleInv, Given
<1>6. Fifo'
  BY <1>1, <1>4 DEF CycleInv, Fifo, NotBegun
<1>7. Room'
  <2>1. Busy' = Busy
    BY <1>1, <1>4 DEF Busy, Working
  <2> QED BY <1>2, <2>1 DEF CycleInv, Room
<1>8. Taken' /\ Past'
  <2>1. n \notin taken
    BY <1>1 DEF CycleInv, Taken, Ended
  <2>2. taken \subseteq Idx /\ taken # Idx
    BY <1>1, <2>1 DEF CycleInv, CycleTypeOK
  <2>3. Taken'
    BY <1>2, <1>4, <2>1, <2>2 DEF CycleInv, Taken
  <2> QED BY <1>2, <2>2, <2>3 DEF CycleInv, Past
<1> QED BY <1>3, <1>5, <1>6, <1>7, <1>8 DEF CycleInv

LEMMA CollectKeeps == ASSUME CycleInv, NEW i \in Idx, Collect(i) PROVE CycleInv'
<1>1. /\ UNCHANGED <<jobs, pinned, run, probed, submitted, table, ints, base>>
      /\ pc = "collect" /\ pc' \in {"collect", "drain"} /\ outcome' \in {outcome, "raised"}
      /\ taken' = taken \cup {i} /\ run[i] \in Ended
  BY DEF Collect, Raise, Keep, poolVars
<1>2. \/ results' = results
      \/ i > Warmup /\ results' = [k \in DOMAIN results \cup {i} |-> IF k = i THEN CoreOf(i) ELSE results[k]]
  BY DEF Collect, Raise, Keep
<1>3. CoreOf(i) \in 0..(Cores - 1) \cup {NoCore}
  <2>1. i - 1 \in Nat
    BY DEF Idx
  <2>2. (i - 1) % Cores \in 0..(Cores - 1)
    BY <2>1, CycleAssumption
  <2> QED BY <2>2 DEF CoreOf, PinnedTo
<1>4. /\ DOMAIN results' \subseteq Measured
      /\ \A k \in DOMAIN results' : results'[k] \in 0..(Cores - 1) \cup {NoCore}
  BY <1>2, <1>3 DEF CycleInv, CycleTypeOK, Measured
<1>5. CycleTypeOK'
  BY <1>1, <1>4 DEF CycleInv, CycleTypeOK
<1>6. Taken' /\ Past'
  <2>1. taken' \subseteq Idx /\ taken \subseteq taken'
    BY <1>1 DEF CycleInv, CycleTypeOK
  <2> QED BY <1>1, <2>1 DEF CycleInv, CycleTypeOK, Taken, Past
<1> QED BY <1>1, <1>5, <1>6, OtherRunsKept DEF CycleInv

LEMMA MainKeeps == CycleInv /\ (Main \/ Interrupt) => CycleInv'
<1> SUFFICES ASSUME CycleInv, Main \/ Interrupt PROVE CycleInv'
  OBVIOUS
<1>1. CASE Submit
  BY <1>1, SubmitKeeps
<1>2. CASE \E i \in Idx : Collect(i)
  BY <1>2, CollectKeeps
<1>3. CASE Submitted \/ Collected \/ Drained \/ Clean \/ Write \/ Interrupt
  <2>1. UNCHANGED <<jobs, pinned, run, probed, submitted, taken, results>>
    BY <1>3 DEF Submitted, Collected, Drained, Clean, Write, Interrupt, poolVars
  <2>2. /\ pc' \in {"collect", "drain", "exit", "clean", "table", "over"}
        /\ base' \in {"there", "removed"}
        /\ outcome' \in {"none", "table", "raised", "interrupted", "abandoned"}
    BY <1>3 DEF Submitted, Collected, Drained, Clean, Write, Interrupt, CycleInv, CycleTypeOK
  <2>3. ints' \in 0..MaxInterrupts
    <3>1. ints \in 0..MaxInterrupts /\ MaxInterrupts \in Nat
      BY CycleAssumption DEF CycleInv, CycleTypeOK
    <3>2. ints' = ints \/ (ints < MaxInterrupts /\ ints' = ints + 1)
      BY <1>3 DEF Submitted, Collected, Drained, Clean, Write, Interrupt
    <3> QED BY <3>1, <3>2
  <2>4. CycleTypeOK'
    BY <2>1, <2>2, <2>3 DEF CycleInv, CycleTypeOK
  <2>5. Taken'
    BY <2>1 DEF CycleInv, Taken
  <2>6. Past'
    <3>1. CASE Submitted \/ Collected \/ Clean
      BY <2>1, <3>1 DEF CycleInv, Past, Submitted, Collected, Clean
    <3>4. CASE Interrupt
      <4>1. ints \in Nat /\ ints' = ints + 1
        BY <3>4, CycleAssumption DEF Interrupt, CycleInv, CycleTypeOK
      <4>2. outcome # "abandoned" /\ (pc = "exit" => ints >= 1)
        BY <3>4 DEF Interrupt, CycleInv, Past
      <4> QED BY <2>1, <3>4, <4>1, <4>2 DEF CycleInv, Past, Interrupt
    <3>2. CASE Drained
      <4>1. \A i \in Idx : i <= submitted \/ run[i] = "none"
        BY IdxFinite DEF CycleInv, CycleTypeOK, Given, Idx
      <4>2. \A i \in Idx : i <= submitted => i \in 1..submitted
        BY IdxFinite DEF CycleInv, CycleTypeOK, Idx
      <4>3. \A i \in Idx : run[i] \notin Working \cup {"queued"}
        BY <3>2, <4>1, <4>2 DEF Drained, Working, Ended
      <4> QED BY <2>1, <3>2, <4>3 DEF CycleInv, Past, Drained
    <3>3. CASE Write
      <4>1. \A i \in Idx : run[i] \in Ended
        BY <3>3 DEF Write, CycleInv, Past, Taken
      <4> QED BY <2>1, <3>3, <4>1 DEF CycleInv, Past, Write, Working, Ended
    <3> QED BY <1>3, <3>1, <3>2, <3>3, <3>4
  <2> QED BY <2>1, <2>4, <2>5, <2>6, OtherRunsKept DEF CycleInv
<1> QED BY <1>1, <1>2, <1>3 DEF Main

-----------------------------------------------------------------------------
(* The workers: one run moves on, in the order of submission.              *)

LEMMA WorkerKeeps ==
  ASSUME CycleInv, NEW i \in Idx, NEW st,
         pc # "over", UNCHANGED <<jobs, pinned, mainVars>>, run' = [run EXCEPT ![i] = st],
         probed' \in BOOLEAN,
         \/ run[i] = "queued" /\ st = "look" /\ Cardinality(Busy) < jobs
            /\ \A k \in 1..(i - 1) : run[k] # "queued"
         \/ run[i] \in Working /\ st \in Working \cup Ended
  PROVE  CycleInv'
<1>1. st \in Working \cup Ended /\ run[i] \in Working \cup {"queued"}
  BY DEF Working
<1>2. \A k \in Idx : k \in Nat /\ run'[k] = IF k = i THEN st ELSE run[k]
  BY DEF CycleInv, CycleTypeOK, Idx
<1>3. UNCHANGED <<pc, submitted, taken, results, base, table, outcome, ints>>
  BY DEF mainVars
<1>4. CycleTypeOK'
  <2>1. run' \in [Idx -> {"none", "queued"} \cup Working \cup Ended]
    BY <1>1 DEF CycleInv, CycleTypeOK
  <2> QED BY <1>3, <2>1 DEF CycleInv, CycleTypeOK
<1>5. Given'
  BY <1>1, <1>2, <1>3 DEF CycleInv, Given, Working, Ended
<1>6. Fifo'
  <2> SUFFICES ASSUME NEW a \in Idx, NEW b \in Idx, a < b, run'[a] \in NotBegun PROVE run'[b] \in NotBegun
    BY DEF Fifo
  <2>1. a # i /\ run[a] \in NotBegun
    BY <1>1, <1>2 DEF NotBegun, Working, Ended
  <2>2. run[b] \in NotBegun
    BY <2>1 DEF CycleInv, Fifo
  <2>3. ASSUME b = i PROVE FALSE
    <3>1. run[i] = "queued" /\ \A k \in 1..(i - 1) : run[k] # "queued"
      BY <2>2, <2>3 DEF NotBegun, Working
    <3>2. a \in 1..(i - 1)
      BY <1>2, <2>3 DEF Idx
    <3>3. run[a] = "none"
      BY <2>1, <3>1, <3>2 DEF NotBegun
    <3>4. a > submitted /\ ~(i > submitted)
      BY <3>1, <3>3 DEF CycleInv, Given
    <3> QED BY <1>2, <2>3, <3>4 DEF CycleInv, CycleTypeOK
  <2> QED BY <1>2, <2>2, <2>3
<1>7. Room'
  <2>1. CASE run[i] = "queued"
    <3>1. Busy' = Busy \cup {i} /\ Cardinality(Busy) < jobs
      BY <1>2, <2>1 DEF Busy, Working
    <3>2. Cardinality(Busy \cup {i}) \in {Cardinality(Busy), Cardinality(Busy) + 1}
      BY BusyFinite, FS_AddElement
    <3>3. jobs \in Nat
      BY CycleAssumption DEF CycleInv, CycleTypeOK
    <3> QED BY <3>1, <3>2, <3>3, BusyFinite DEF CycleInv, Room
  <2>2. CASE run[i] \in Working
    <3>1. Busy' \in SUBSET Busy
      BY <1>2, <2>2 DEF Busy
    <3>2. Cardinality(Busy') <= Cardinality(Busy) /\ Cardinality(Busy') \in Nat
      BY <3>1, BusyFinite, FS_Subset, FS_CardinalityType
    <3>3. jobs \in Nat
      BY CycleAssumption DEF CycleInv, CycleTypeOK
    <3> QED BY <3>2, <3>3, BusyFinite DEF CycleInv, Room
  <2> QED BY <1>1, <2>1, <2>2
<1>8. Taken' /\ Past'
  <2>1. i \notin taken /\ pc # "over"
    BY <1>1 DEF CycleInv, Taken, Past, Working, Ended
  <2>2. Taken'
    BY <1>2, <1>3, <2>1 DEF CycleInv, CycleTypeOK, Taken
  <2> QED BY <1>3, <2>1, <2>2 DEF CycleInv, Past
<1> QED BY <1>4, <1>5, <1>6, <1>7, <1>8 DEF CycleInv

LEMMA CycleStep == CycleInv /\ [CycleNext]_cycleVars => CycleInv'
<1> SUFFICES ASSUME CycleInv, [CycleNext]_cycleVars PROVE CycleInv'
  OBVIOUS
<1>1. CASE Main \/ Interrupt
  BY <1>1, MainKeeps
<1>2. ASSUME NEW i \in Idx, Begin(i) PROVE CycleInv'
  BY <1>2, WorkerKeeps DEF Begin, Becomes, CycleInv, CycleTypeOK
<1>3. ASSUME NEW i \in Idx, Look(i) PROVE CycleInv'
  <2>1. PICK st \in {"target", "probe"} : run' = [run EXCEPT ![i] = st]
    BY <1>3 DEF Look, Becomes
  <2> QED BY <1>3, <2>1, WorkerKeeps DEF Look, Working, CycleInv, CycleTypeOK
<1>4. ASSUME NEW i \in Idx, NEW works \in BOOLEAN, Probe(i, works) PROVE CycleInv'
  <2>1. PICK st \in {"target", "bad"} : run' = [run EXCEPT ![i] = st]
    BY <1>4 DEF Probe, Becomes
  <2>2. probed' \in BOOLEAN
    BY <1>4 DEF Probe, CycleInv, CycleTypeOK
  <2> QED BY <1>4, <2>1, <2>2, WorkerKeeps DEF Probe, Working, Ended
<1>5. ASSUME NEW i \in Idx, NEW counted \in BOOLEAN, TargetEnds(i, counted) PROVE CycleInv'
  <2>1. PICK st \in {"ok", "bad"} : run' = [run EXCEPT ![i] = st]
    BY <1>5 DEF TargetEnds, Becomes
  <2> QED BY <1>5, <2>1, WorkerKeeps DEF TargetEnds, Working, Ended, CycleInv, CycleTypeOK
<1>6. CASE UNCHANGED cycleVars
  <2>1. UNCHANGED <<jobs, pinned, pc, submitted, taken, results, base, table, outcome, ints, run, probed>>
    BY <1>6 DEF cycleVars, mainVars, poolVars
  <2> QED BY <2>1, OtherRunsKept DEF CycleInv, CycleTypeOK, Taken, Past
<1> QED BY <1>1, <1>2, <1>3, <1>4, <1>5, <1>6 DEF CycleNext, Worker, CycleOver

-----------------------------------------------------------------------------
\* The inductive invariant of the cycle: the workers keep the order and the number,
\* and the main thread's place says what has ended.
THEOREM CycleInvariant == CycleSpec => []CycleInv
BY CycleStart, CycleStep, PTL DEF CycleSpec

\* Type correctness of cmd_cycle, the core of each result included.
THEOREM CycleTypeCorrect == CycleSpec => []CycleTypeOK
<1>1. CycleInv => CycleTypeOK
  BY DEF CycleInv
<1> QED BY <1>1, CycleInvariant, PTL

\* Nothing runs on in a removed directory or past the end of the command, wherever a
\* run failed or a SIGINT landed, unless a second one cut the interpreter's wait short.
THEOREM QuietAtTheEnd == CycleSpec => []NothingRunsOn
<1>1. CycleInv => NothingRunsOn
  <2>1. CycleInv /\ outcome = "abandoned" => ints \in Nat /\ ints >= 2 /\ ~(ints < 2)
    BY CycleAssumption DEF CycleInv, CycleTypeOK, Past
  <2> QED BY <2>1 DEF CycleInv, NothingRunsOn, Past, Taken, Working, Ended
<1> QED BY <1>1, CycleInvariant, PTL

\* With no more jobs than cores, two runs share a core only by overtaking.
THEOREM SharedCoreNeedsOvertaking == CycleSpec => []SharedOnlyByOvertaking
<1>1. CycleInv => SharedOnlyByOvertaking
  <2> SUFFICES ASSUME CycleInv, NEW i \in Busy, NEW j \in Busy, pinned, i < j, CoreOf(i) = CoreOf(j),
                      \A k \in (i + 1)..(j - 1) : run[k] \notin Ended
               PROVE  FALSE
    BY DEF SharedOnlyByOvertaking
  <2>1. i \in Idx /\ j \in Idx /\ i \in Nat /\ j \in Nat /\ i - 1 \in Nat /\ j - 1 \in Nat
    BY DEF Busy, Idx
  <2>2. Cores <= j - i
    <3>1. (i - 1) % Cores = (j - 1) % Cores
      BY DEF CoreOf, PinnedTo
    <3>2. Cores \in Nat \ {0} /\ i - 1 < j - 1
      BY <2>1, CycleAssumption
    <3> DEFINE a == i - 1  b == j - 1
    <3>3. a \in Nat /\ b \in Nat /\ a < b /\ a % Cores = b % Cores
      BY <2>1, <3>1, <3>2
    <3> HIDE DEF a, b
    <3>4. Cores <= b - a
      BY <3>2, <3>3, SameCore
    <3> QED BY <2>1, <3>2, <3>4 DEF a, b
  <2>3. i..j \in SUBSET Busy
    <3> SUFFICES ASSUME NEW k \in i..j PROVE k \in Busy
      OBVIOUS
    <3>1. k \in Idx
      BY <2>1, IdxFinite DEF Idx
    <3>2. CASE k = i \/ k = j
      BY <3>2
    <3>3. CASE k # i /\ k # j
      <4>1. k \in (i + 1)..(j - 1) /\ k < j
        BY <2>1, <3>3
      <4>2. run[j] \notin NotBegun
        BY DEF Busy, Working, NotBegun
      <4>3. run[k] \notin NotBegun /\ run[k] \notin Ended
        BY <2>1, <3>1, <4>1, <4>2 DEF CycleInv, Fifo
      <4> QED BY <3>1, <4>3 DEF CycleInv, CycleTypeOK, Busy, NotBegun
    <3> QED BY <3>2, <3>3
  <2>4. Cardinality(i..j) <= Cardinality(Busy) /\ Cardinality(i..j) = j - i + 1
    BY <2>1, <2>3, BusyFinite, FS_Subset, FS_Interval
  <2>5. Cardinality(Busy) <= jobs /\ jobs <= Cores /\ jobs \in Nat
    BY CycleAssumption DEF CycleInv, CycleTypeOK, Room
  <2> QED BY <2>1, <2>2, <2>4, <2>5, BusyFinite, CycleAssumption
<1> QED BY <1>1, CycleInvariant, PTL
-----------------------------------------------------------------------------
(***************************************************************************)
(* The table.  As long as nothing was raised and nobody interrupted, every *)
(* run collected was a good one and every measured one is in the results,  *)
(* with its own core; a table is only written then, and stays.             *)
(***************************************************************************)
Clear == pc \in {"submit", "collect", "clean", "table"}

Collecting ==
  /\ DOMAIN results \subseteq taken
  /\ \A i \in DOMAIN results : results[i] = CoreOf(i)
  /\ \A i \in taken : run[i] = "ok" /\ (i > Warmup => i \in DOMAIN results)

TableInv ==
  /\ Clear => Collecting /\ outcome = "none"
  /\ outcome = "table" => pc = "over"
  /\ TableIsTheRuns

LEMMA TableInit == CycleInit => TableInv
BY DEF CycleInit, TableInv, Collecting, TableIsTheRuns

\* The results are the measured runs, and sorted they are in their order.
LEMMA SortedRuns ==
  ASSUME DOMAIN results = Measured
  PROVE  /\ Cardinality(DOMAIN results) = Runs
         /\ \A r \in 1..Runs : Nth(r) = Warmup + r
<1>1. Runs \in Nat /\ Warmup \in Nat /\ Measured = (Warmup + 1)..(Warmup + Runs)
  BY CycleAssumption DEF Measured, Idx, Total
<1>2. ASSUME NEW i \in Measured
      PROVE  /\ {k \in Measured : k <= i} = (Warmup + 1)..i
             /\ Cardinality((Warmup + 1)..i) = i - Warmup
  <2>1. i \in Int /\ Warmup + 1 <= i /\ i <= Warmup + Runs
    BY <1>1, <1>2
  <2>2. {k \in Measured : k <= i} = (Warmup + 1)..i
    BY <1>1, <2>1
  <2>3. Cardinality((Warmup + 1)..i) = i - (Warmup + 1) + 1
    BY <1>1, <2>1, FS_Interval
  <2> QED BY <1>1, <2>1, <2>2, <2>3
<1>3. Cardinality(DOMAIN results) = Runs
  <2>1. CASE Runs = 0
    <3>1. Measured = {}
      BY <1>1, <2>1
    <3> QED BY <2>1, <3>1, FS_EmptySet
  <2>2. CASE Runs # 0
    <3>1. Cardinality((Warmup + 1)..(Warmup + Runs)) = Warmup + Runs - (Warmup + 1) + 1
      BY <1>1, <2>2, FS_Interval
    <3> QED BY <1>1, <3>1
  <2> QED BY <2>1, <2>2
<1>4. ASSUME NEW r \in 1..Runs PROVE Nth(r) = Warmup + r
  <2>1. Warmup + r \in Measured /\ \A i \in Measured : i - Warmup = r <=> i = Warmup + r
    BY <1>1
  <2>2. \A i \in Measured : Cardinality({k \in Measured : k <= i}) = r <=> i = Warmup + r
    BY <1>2, <2>1
  <2> QED BY <2>1, <2>2 DEF Nth
<1> QED BY <1>3, <1>4

LEMMA WriteTable ==
  ASSUME CycleInv, TableInv, Write PROVE TableInv'
<1>1. pc = "table" /\ Clear /\ Collecting /\ taken = Idx
  BY DEF Write, Clear, TableInv, CycleInv, Past
<1>2. DOMAIN results = Measured /\ \A i \in Idx : run[i] = "ok"
  BY <1>1 DEF Collecting, Measured, CycleInv, CycleTypeOK
<1>3. /\ run' = run /\ jobs' = jobs /\ pinned' = pinned /\ outcome' = "table" /\ pc' = "over"
      /\ table' = [r \in 1..Runs |-> [of |-> Nth(r), cpu |-> results[Nth(r)]]]
  BY <1>2, SortedRuns DEF Write, poolVars
<1>4. ASSUME NEW r \in 1..Runs
      PROVE  Warmup + r \in Idx /\ Nth(r) = Warmup + r /\ results[Nth(r)] = CoreOf(Warmup + r)
  <2>1. Warmup + r \in Measured
    BY CycleAssumption DEF Measured, Idx, Total
  <2> QED BY <1>1, <1>2, <2>1, SortedRuns DEF Collecting, Measured
<1>5. Len(table') = Runs
  <2> DEFINE e(r) == [of |-> Nth(r), cpu |-> results[Nth(r)]]
  <2>1. Runs \in Nat /\ table' = [r \in 1..Runs |-> e(r)]
    BY <1>3, CycleAssumption
  <2> HIDE DEF e
  <2> QED BY <2>1
<1>6. TableIsTheRuns'
  BY <1>2, <1>3, <1>4, <1>5 DEF TableIsTheRuns, CoreOf
<1> QED BY <1>3, <1>6 DEF TableInv, Clear

LEMMA CollectTable ==
  ASSUME CycleInv, TableInv, NEW i \in Idx, Collect(i) PROVE TableInv'
<1>1. /\ UNCHANGED <<jobs, pinned, run, table>> /\ pc = "collect" /\ Collecting /\ outcome = "none"
      /\ taken' = taken \cup {i} /\ run[i] \in Ended
  BY DEF Collect, poolVars, TableInv, Clear
<1>2. CASE run[i] = "bad"
  BY <1>1, <1>2 DEF Collect, Raise, TableInv, Clear, TableIsTheRuns
<1>3. CASE run[i] = "ok"
  <2>1. /\ pc' = "collect" /\ outcome' = "none"
        /\ IF i > Warmup THEN Keep(i) ELSE results' = results
    BY <1>1, <1>3 DEF Collect
  <2>2. \A k : CoreOf(k)' = CoreOf(k)
    BY <1>1 DEF CoreOf
  <2>3. /\ DOMAIN results' = IF i > Warmup THEN DOMAIN results \cup {i} ELSE DOMAIN results
        /\ \A k \in DOMAIN results' : results'[k] = CoreOf(k)
    BY <1>1, <2>1 DEF Keep, Collecting
  <2>4. Collecting'
    BY <1>1, <1>3, <2>2, <2>3 DEF Collecting
  <2> QED BY <2>1, <2>4 DEF TableInv, TableIsTheRuns, Clear
<1> QED BY <1>1, <1>2, <1>3 DEF Ended

\* A worker touches no run that has ended.
LEMMA WorkerTable ==
  ASSUME CycleInv, TableInv, NEW i \in Idx, run[i] \notin Ended, NEW st,
         pc # "over", UNCHANGED <<jobs, pinned, mainVars>>, run' = [run EXCEPT ![i] = st]
  PROVE  TableInv'
<1>1. UNCHANGED <<pc, taken, results, table, outcome>>
  BY DEF mainVars
<1>2. \A k \in Idx : run[k] = "ok" => run'[k] = "ok"
  BY DEF CycleInv, CycleTypeOK, Ended
<1>3. \A k : CoreOf(k)' = CoreOf(k)
  BY DEF CoreOf
<1>4. Collecting => Collecting'
  BY <1>1, <1>2, <1>3 DEF Collecting, CycleInv, CycleTypeOK
<1>5. TableIsTheRuns'
  <2>1. \A r \in 1..Runs : Warmup + r \in Idx
    BY CycleAssumption DEF Idx, Total
  <2> QED BY <1>1, <1>2, <1>3, <2>1 DEF TableInv, TableIsTheRuns
<1> QED BY <1>1, <1>4, <1>5 DEF TableInv, Clear

LEMMA TableStep == CycleInv /\ TableInv /\ [CycleNext]_cycleVars => TableInv'
<1> SUFFICES ASSUME CycleInv, TableInv, [CycleNext]_cycleVars PROVE TableInv'
  OBVIOUS
<1>1. CASE Write
  BY <1>1, WriteTable
<1>2. CASE \E i \in Idx : Collect(i)
  BY <1>2, CollectTable
<1>3. CASE Submit \/ Submitted \/ Collected \/ Drained \/ Clean \/ Interrupt
  <2>1. UNCHANGED <<jobs, pinned, taken, results, table>>
    BY <1>3 DEF Submit, Submitted, Collected, Drained, Clean, Interrupt
  <2>2. \A i \in Idx : run[i] = "ok" => run'[i] = "ok"
    <3>1. CASE Submit
      <4>1. submitted + 1 \in Idx /\ run[submitted + 1] = "none"
        BY <3>1, IdxFinite DEF CycleInv, CycleTypeOK, Submit, Given, Idx
      <4> QED BY <3>1, <4>1 DEF Submit, CycleInv, CycleTypeOK
    <3>2. CASE ~Submit
      BY <1>3, <3>2 DEF Submitted, Collected, Drained, Clean, Interrupt, poolVars
    <3> QED BY <3>1, <3>2
  <2>3. /\ Clear' => Clear /\ outcome' = outcome
        /\ outcome' = "table" => outcome = "table" /\ pc' = pc
    BY <1>3 DEF Submit, Submitted, Collected, Drained, Clean, Interrupt, Clear, TableInv
  <2>4. \A k : CoreOf(k)' = CoreOf(k)
    BY <2>1 DEF CoreOf
  <2>5. Collecting => Collecting'
    BY <2>1, <2>2, <2>4 DEF Collecting, CycleInv, CycleTypeOK
  <2>6. TableIsTheRuns'
    <3>1. \A r \in 1..Runs : Warmup + r \in Idx
      BY CycleAssumption DEF Idx, Total
    <3> QED BY <2>1, <2>2, <2>3, <2>4, <3>1 DEF TableInv, TableIsTheRuns
  <2> QED BY <2>3, <2>5, <2>6 DEF TableInv
<1>4. ASSUME NEW i \in Idx, Worker(i) \/ \E counted \in BOOLEAN : TargetEnds(i, counted)
      PROVE  TableInv'
  <2>1. /\ UNCHANGED <<jobs, pinned, mainVars>> /\ run[i] \notin Ended /\ pc # "over"
        /\ \E st : run' = [run EXCEPT ![i] = st]
    BY <1>4 DEF Worker, Begin, Look, Probe, TargetEnds, Becomes, Ended
  <2> QED BY <2>1, WorkerTable
<1>5. CASE UNCHANGED cycleVars
  BY <1>5 DEF cycleVars, mainVars, poolVars, TableInv, Clear, Collecting, TableIsTheRuns, CoreOf
<1> QED BY <1>1, <1>2, <1>3, <1>4, <1>5 DEF CycleNext, Main, CycleOver

\* Whatever fails, wherever a SIGINT lands and in whatever order the runs end: a
\* table that is written holds every measured run once, in order, beside the core
\* it was pinned to.
THEOREM TableHoldsTheRuns == CycleSpec => []TableIsTheRuns
<1>1. TableInv => TableIsTheRuns
  BY DEF TableInv
<1> QED BY <1>1, TableInit, TableStep, CycleInvariant, PTL DEF CycleSpec
=============================================================================
