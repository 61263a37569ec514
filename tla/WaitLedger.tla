----------------------------- MODULE WaitLedger -----------------------------
(***************************************************************************)
(* The off-CPU ledger of one thread: vperf/wait.py.  A scheduler prints    *)
(* the thread's accounting lines, parse_wait_script collects them line by  *)
(* line into the thread's series, and _fold_thread walks the series in     *)
(* time order and splits every gap into CPU and wait.  Threads share       *)
(* nothing but sums, so one is enough; the series of two threads that had  *)
(* the same tid one after the other is one series here as it is there.     *)
(*                                                                         *)
(* Times are ticks of the dump's clock.  trueCpu and trueWait are what the *)
(* thread really did between its accounting points.                        *)
(***************************************************************************)
EXTENDS Integers, Sequences

CONSTANTS Pair,        \* _SWITCH_PAIR_S
          Lags,        \* how much later than the switch its line may be stamped
          Skews,       \* the error of one reported runtime
          States,      \* the states threads are switched out in
          MaxTime,     \* bound: the length of a recording
          MaxEvents,   \* bound: accounting points in a series
          MaxFaults    \* bound: accounting points whose lines are lost or wrong

ASSUME LedgerAssumption == /\ Pair \in Nat /\ Lags \subseteq Nat /\ Skews \subseteq Nat
                           /\ States \subseteq {"S", "D", "R", "T"}
                           /\ MaxTime \in Nat /\ MaxEvents \in Nat /\ MaxFaults \in Nat

NoTime == -1
Waits  == {"none", "S", "D", "R", "T"}    \* "none": a wait whose state was never seen
Point  == [ts : Nat, delta : Nat, state : Waits]
Slice  == [start : Nat, end : Nat, state : Waits]

VARIABLES
  now,          \* the scheduler's clock
  thr,          \* the thread: on, off, dying or dead; since when; the wait it still owes
  ours,         \* it belongs to the target; else it is a neighbour on one of its cores
  life,         \* how many threads have had this tid
  trueCpu, trueWait,
  faults,       \* history: accounting points with a lost or wrong line
  burst,        \* history: an exit found CPU not yet accounted, or the tid died twice
  series,       \* events[tid]
  switched,     \* tid \in switched_out
  exit_ts,      \* exits.get(tid)
  phase,        \* "read", "fold" or "done"
  left,         \* the points of the sorted series still to be visited
  previous,     \* the time of the point before
  off_start,    \* the state the current wait began in
  first_ts, last_ts, span, lead, skew, runtime,
  waits,        \* sleep_s, blocked_s, runnable_s, stopped_s and unknown_s
  slices

threadVars == <<now, thr, ours, life, trueCpu, trueWait, faults, burst>>
dumpVars   == <<series, switched, exit_ts>>
foldVars   == <<phase, left, previous, off_start, first_ts, last_ts, span, lead, skew,
                runtime, waits, slices>>
vars       == <<threadVars, dumpVars, foldVars>>

\* The dump says exactly what this thread of ours did.
Exact == ours /\ faults = 0

Thread(st, from, why, owed) == [st |-> st, from |-> from, why |-> why, owed |-> owed]

NoWaits == [w \in Waits |-> 0]

Init ==
  /\ now = 0 /\ ours \in BOOLEAN /\ life = 1
  /\ \E st \in {"on", "off"} : thr = Thread(st, 0, "S", 0)
  /\ trueCpu = 0 /\ trueWait = NoWaits /\ faults = 0 /\ burst = FALSE
  /\ series = <<>> /\ switched = FALSE /\ exit_ts = NoTime
  /\ phase = "read" /\ left = {} /\ previous = NoTime /\ off_start = "none"
  /\ first_ts = NoTime /\ last_ts = NoTime
  /\ span = 0 /\ lead = 0 /\ skew = 0 /\ runtime = 0 /\ waits = NoWaits /\ slices = <<>>

-----------------------------------------------------------------------------
(* parse_wait_script, one line each.                                       *)

AddPoint(ser, t, d) == Append(ser, [ts |-> t, delta |-> d, state |-> "none"])

\* Mutant of AddSwitch: only a switch stamped with its runtime event pairs with it.
AddSwitchExact(ser, t, s) ==
  IF ser # <<>> /\ ser[Len(ser)].ts = t
  THEN [ser EXCEPT ![Len(ser)].state = s]
  ELSE Append(ser, [ts |-> t, delta |-> 0, state |-> s])

\* A switch stamped within the pairing window of the tid's last point is that
\* point's state; any other is a point of its own.
AddSwitch(ser, t, s) ==
  IF ser # <<>> /\ ser[Len(ser)].ts <= t /\ t - ser[Len(ser)].ts <= Pair
  THEN [ser EXCEPT ![Len(ser)].state = s]
  ELSE Append(ser, [ts |-> t, delta |-> 0, state |-> s])

-----------------------------------------------------------------------------
(* The scheduler: what the tracepoints print of the thread.                *)

\* The runtime line of an accounting point, unless it was lost or had no CPU to
\* report; e is the error of the reported value.
WithRuntime(ser, t, kept, e) ==
  IF kept /\ t > thr.from THEN AddPoint(ser, t, t - thr.from + e) ELSE ser

\* The accounting point settles the thread's CPU, and the wait before it; the
\* truth is followed as long as every line (fine) tells it.
Settle(t, fine) ==
  /\ fine \/ faults < MaxFaults
  /\ faults' = IF fine THEN faults ELSE faults + 1
  /\ CASE ~(Exact /\ fine) -> trueCpu' = 0 /\ trueWait' = NoWaits
       [] Exact /\ fine /\ life = 1 /\ thr.st = "on" ->
            /\ trueCpu' = trueCpu + (t - thr.from)
            /\ trueWait' = [trueWait EXCEPT ![thr.why] = @ + thr.owed]
       [] OTHER -> UNCHANGED <<trueCpu, trueWait>>

Tick(t, kept, e) ==
  /\ thr.st = "on" /\ t > thr.from
  /\ now' = t /\ thr' = Thread("on", t, thr.why, 0)
  /\ Settle(t, kept /\ e = 0)
  /\ series' = WithRuntime(series, t, kept, e)
  /\ UNCHANGED <<ours, life, burst, switched, exit_ts, foldVars>>

\* The runtime line, then the switch line; a neighbour's switch is not recorded.
SwitchOut(t, s, lag, kept, said, e) ==
  /\ \/ thr.st = "on" /\ t > thr.from /\ s \in States
     \/ thr.st = "dying" /\ s = "T"
  /\ now' = t + lag
  /\ thr' = Thread(IF thr.st = "dying" THEN "dead" ELSE "off", t, s, 0)
  /\ Settle(t, kept /\ said /\ e = 0)
  /\ LET ser == WithRuntime(series, t, kept, e) IN
       IF ours /\ said THEN series' = AddSwitch(ser, t + lag, s) /\ switched' = TRUE
                       ELSE series' = ser /\ UNCHANGED switched
  /\ UNCHANGED <<ours, life, burst, exit_ts, foldVars>>

SwitchIn(t) ==
  /\ thr.st = "off"
  /\ now' = t
  /\ thr' = Thread("on", t, thr.why, IF series = <<>> THEN 0 ELSE t - thr.from)
  /\ UNCHANGED <<ours, life, trueCpu, trueWait, faults, burst, dumpVars, foldVars>>

\* sched_process_exit, printed by the dying thread while it still runs.
Exit(t, said) ==
  /\ thr.st = "on" /\ t >= thr.from
  /\ now' = t /\ thr' = Thread("dying", thr.from, thr.why, 0)
  /\ Settle(t, said)
  /\ burst' = (burst \/ t > thr.from \/ life > 1)
  /\ IF ours /\ said THEN exit_ts' = t /\ series' = AddPoint(series, t, 0)
                     ELSE UNCHANGED <<exit_ts, series>>
  /\ UNCHANGED <<ours, life, switched, foldVars>>

\* The kernel hands the tid out again.
Reborn(t) ==
  /\ thr.st = "dead" /\ t > now /\ life = 1
  /\ now' = t /\ life' = 2
  /\ thr' = Thread("on", t, "S", 0)
  /\ UNCHANGED <<ours, trueCpu, trueWait, faults, burst, dumpVars, foldVars>>

-----------------------------------------------------------------------------
(* _fold_thread, once the dump has been read.                              *)

\* series.sort(key=ts) is stable: equal times keep the order of the dump.
Earliest(i, points) ==
  i \in points /\ \A j \in points : \/ series[i].ts < series[j].ts
                                    \/ series[i].ts = series[j].ts /\ i <= j

\* Mutant of Cut: the points past the exit are kept.
CutNothing == DOMAIN series

\* What is past the exit belongs to a tid the kernel handed out again.
Cut == {i \in DOMAIN series : exit_ts = NoTime \/ series[i].ts <= exit_ts}

\* The dump ends: what the scheduler does next is not followed.
EndOfDump ==
  /\ now' = 0 /\ thr' = Thread("off", 0, "S", 0)
  /\ UNCHANGED <<ours, life, trueCpu, trueWait, faults, burst, dumpVars>>

\* A tid without a switch record is a neighbour's, and is dropped; a series the
\* exit cut empty has an empty ledger.
Drop ==
  /\ phase = "read" /\ (~switched \/ Cut = {})
  /\ phase' = "done" /\ EndOfDump
  /\ UNCHANGED <<left, previous, off_start, first_ts, last_ts, span,
                 lead, skew, runtime, waits, slices>>

Start(a, b) ==
  /\ phase = "read" /\ switched
  /\ Earliest(a, Cut) /\ b \in Cut /\ \A j \in Cut : series[j].ts <= series[b].ts
  /\ phase' = "fold" /\ left' = Cut /\ EndOfDump
  /\ first_ts' = series[a].ts /\ last_ts' = series[b].ts
  /\ span' = series[b].ts - series[a].ts
  /\ lead' = series[a].delta
  /\ UNCHANGED <<previous, off_start, skew, runtime, waits, slices>>

\* _charge: the slice carries the totals.
Charge(off) ==
  /\ waits' = [waits EXCEPT ![off_start] = @ + off]
  /\ slices' = Append(slices, [start |-> previous, end |-> previous + off, state |-> off_start])

\* Mutants of Gap: an overdrawn gap is not written down as skew; a wait runs one
\* tick into the CPU that ended it.
GapNoSkew(off) ==
  IF off > 0 THEN Charge(off) /\ UNCHANGED skew ELSE UNCHANGED <<waits, slices, skew>>
GapWhole(off) ==
  IF off < 0 THEN skew' = skew - off /\ UNCHANGED <<waits, slices>>
  ELSE IF off > 0 THEN /\ UNCHANGED skew
                       /\ waits' = [waits EXCEPT ![off_start] = @ + off]
                       /\ slices' = Append(slices, [start |-> previous, end |-> previous + off + 1,
                                                    state |-> off_start])
  ELSE UNCHANGED <<waits, slices, skew>>

\* The part of the gap the runtime does not explain was a wait, which opens the
\* gap; where the runtime explains more than the gap, the excess is skew.
Gap(off) ==
  IF off < 0 THEN skew' = skew - off /\ UNCHANGED <<waits, slices>>
  ELSE IF off > 0 THEN Charge(off) /\ UNCHANGED skew
  ELSE UNCHANGED <<waits, slices, skew>>

Visit(i) ==
  LET event == series[i] IN
  /\ phase = "fold" /\ Earliest(i, left)
  /\ left' = left \ {i}
  /\ IF previous = NoTime THEN UNCHANGED <<waits, slices, skew>>
                          ELSE Gap(event.ts - previous - event.delta)
  /\ off_start' = event.state
  /\ runtime' = runtime + event.delta
  /\ previous' = event.ts
  /\ UNCHANGED <<threadVars, dumpVars, phase, first_ts, last_ts, span, lead>>

Finish ==
  /\ phase = "fold" /\ left = {}
  /\ phase' = "done"
  /\ UNCHANGED <<threadVars, dumpVars, left, previous, off_start, first_ts, last_ts, span,
                 lead, skew, runtime, waits, slices>>

Over == phase = "done" /\ UNCHANGED vars

-----------------------------------------------------------------------------
Scheduler ==
  /\ phase = "read" /\ Len(series) < MaxEvents
  /\ \E t \in now..MaxTime :
      \/ SwitchIn(t) \/ Reborn(t)
      \/ \E said \in BOOLEAN : Exit(t, said)
      \/ \E kept \in BOOLEAN, e \in Skews : Tick(t, kept, e)
      \/ \E s \in States \cup {"T"}, lag \in Lags, kept, said \in BOOLEAN, e \in Skews :
           SwitchOut(t, s, lag, kept, said, e)

Fold == \/ Drop \/ Finish
        \/ \E a, b \in DOMAIN series : Start(a, b)
        \/ \E i \in DOMAIN series : Visit(i)

Next == Scheduler \/ Fold \/ Over

Spec == Init /\ [][Next]_vars

-----------------------------------------------------------------------------
(* Properties.                                                             *)

ThreadOK == /\ now \in Nat /\ ours \in BOOLEAN /\ life \in {1, 2}
            /\ thr \in [st : {"on", "off", "dying", "dead"}, from : Nat, why : Waits, owed : Int]
            /\ trueCpu \in Int /\ trueWait \in [Waits -> Int]
            /\ faults \in 0..MaxFaults /\ burst \in BOOLEAN
DumpOK   == series \in Seq(Point) /\ switched \in BOOLEAN /\ exit_ts \in Nat \cup {NoTime}
FoldOK   == /\ phase \in {"read", "fold", "done"} /\ left \subseteq DOMAIN series
            /\ previous \in Nat \cup {NoTime} /\ off_start \in Waits
            /\ first_ts \in Nat \cup {NoTime} /\ last_ts \in Nat \cup {NoTime}
            /\ span \in Nat /\ lead \in Nat /\ skew \in Nat /\ runtime \in Nat
            /\ waits \in [Waits -> Nat]
            /\ slices \in Seq(Slice)

LedgerTypeOK == ThreadOK /\ DumpOK /\ FoldOK

Waited == waits["none"] + waits["S"] + waits["D"] + waits["R"] + waits["T"]

\* The identity the module rests on: the CPU and the waits of a thread account
\* for its whole span, for the CPU its first point brought with it, and for what
\* its own accounting overdraws; no tick of it is lost or counted twice, whatever
\* the dump says and in whatever order.
Balanced ==
  phase = "done" /\ previous # NoTime => runtime + Waited = span + lead + skew

\* The waits partition the span: each slice is a real interval of it, after the
\* one before.  fold() gets the CPU of a window by subtraction from just this.
SlicesPartition ==
  /\ \A k \in DOMAIN slices : /\ first_ts <= slices[k].start
                              /\ slices[k].start < slices[k].end
                              /\ slices[k].end <= last_ts
  /\ \A k, m \in DOMAIN slices : k < m => slices[k].end <= slices[m].start

\* For a thread of the target that did not die with CPU unaccounted for, a
\* complete and exact dump gives exactly what the thread did, each wait under
\* the state it was in: the time between a switch and its line is no wait, and
\* a later thread with the same tid adds nothing.
LedgerIsTrue ==
  phase = "done" /\ switched /\ Exact /\ ~burst
    => runtime = trueCpu /\ waits = trueWait /\ skew = 0

\* wait.py says the part of a gap its delta does not explain was off-CPU, and
\* that a thread is only on-CPU between two of its own events: so a complete and
\* exact dump never makes the thread wait longer than it did, dying included.
OnCpuIsNeverWait ==
  phase = "done" /\ switched /\ Exact /\ life = 1
    => \A w \in Waits : waits[w] <= trueWait[w]
=============================================================================
