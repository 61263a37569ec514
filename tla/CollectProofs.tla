----------------------------- MODULE CollectProofs -----------------------------
(***************************************************************************)
(* What holds of every profile taken outside the combined session: in      *)
(* separate passes, whatever was asked for and whatever perf refuses; and  *)
(* on macOS, whatever `sample' prints, however the sampler's thread is     *)
(* delayed and wherever an interrupt lands.                                *)
(***************************************************************************)
EXTENDS Passes, Macos, SumTheorems, SequenceTheorems, TLAPS

-----------------------------------------------------------------------------
(* Separate passes: Passes.                                                *)

Cmds    == [pass : {"stat", "record", "wait", "memory"},
            mem : BOOLEAN, dwarf : BOOLEAN, ival : BOOLEAN, target : BOOLEAN]
Entries == [cmd : Cmds, ok : BOOLEAN]
Pcs     == {"stat", "start", "record", "script", "report", "wait", "memory", "retire", "meta", "over"}
Waits   == {"failed", "disabled", "unavailable", "empty", "enabled"}

PassesType ==
  /\ ask \in Asks /\ pc \in Pcs /\ rung \in Cmds /\ gone \in Seq(Entries)
  /\ on \in SUBSET Samplers /\ curve \in [Samplers -> SUBSET Nat] /\ window \in Nat \X Nat
  /\ files \in [Files -> Nat] /\ reported \in SUBSET Text
  /\ plan \in BOOLEAN /\ fallback \in BOOLEAN /\ cojoined \in BOOLEAN /\ wait \in Waits
  /\ outcome \in {"none", "refused", "report", "raised"}

N == Len(gone)

\* How much a recording asks for: memory events before DWARF call graphs.
Weight(c) == (IF c.mem THEN 2 ELSE 0) + (IF c.dwarf THEN 1 ELSE 0)

\* Which passes may have run by now, and that nothing has been asked twice.
HistoryInv ==
  /\ \A i, j \in 1..N : i < j => gone[i].cmd # gone[j].cmd /\ (Pass(i) = Pass(j) => ~gone[i].ok)
  /\ \A i \in 1..N : /\ Pass(i) = "stat" => ~ask.record
                     /\ Pass(i) = "record" => ask.record
                     /\ Pass(i) = "wait" => pc \in {"memory", "retire", "meta", "over"}
                     /\ Pass(i) = "memory" => pc \in {"retire", "meta", "over"}
  /\ pc = "start" => N = 0
  /\ pc = "stat" => \/ N = 0
                    \/ N = 1 /\ ask.ival /\ gone[1].cmd = Command("stat", FALSE, FALSE, TRUE) /\ ~gone[1].ok
  /\ pc = "record" => \A i \in 1..N : ~gone[i].ok /\ Weight(gone[i].cmd) > Weight(rung)

\* Where collect() is and what it has been asked for.
PlaceInv ==
  /\ pc = "over" <=> outcome # "none"
  /\ pc \in {"start", "record", "script", "report"} => ask.record
  /\ pc = "stat" => ~ask.record
  /\ pc = "report" => plan
  /\ outcome = "refused" => /\ N > 0 /\ ~gone[N].ok /\ ~gone[N].cmd.mem /\ ~gone[N].cmd.ival
                            /\ ~gone[N].cmd.dwarf
  /\ rung.pass = "record" /\ ~rung.ival /\ rung.target \in BOOLEAN

\* Past its recording, memory is in it or owed.
MemoryInv ==
  /\ Requested(ask) <=> plan \/ fallback
  /\ plan => ~fallback
  /\ fallback => ask.record
  /\ pc \in {"start", "record"} => rung.mem = plan
  /\ pc \in {"retire", "meta"} \/ outcome = "report" =>
       (Owed => \E n \in 1..N : gone[n].cmd.mem /\ Pass(n) = "memory")

\* The recording that came off, and what it left.
Recorded == pc \in {"script", "report", "wait", "memory", "retire", "meta"} \/ outcome = "report"

RecordingInv ==
  /\ ask.record /\ Recorded =>
       /\ window[1] = 1 /\ window[2] \in 1..N
       /\ gone[window[2]].ok /\ Pass(window[2]) = "record" /\ gone[window[2]].cmd.mem = plan
       /\ gone[1].ok => window[2] = 1
       /\ pc \in {"script", "report"} => files["perf.data"] = window[2]
       /\ pc # "script" => files["script"] = window[2]
       /\ curve["freq"] = {1} /\ curve["rss"] \subseteq {1}
  /\ ask.record /\ pc = "record" => window[1] = 1
  /\ ask.record /\ pc = "record" /\ N > 0 =>
       on = {} /\ curve["freq"] = {1} /\ curve["rss"] \subseteq {1}
  /\ pc = "record" /\ N = 0 => "freq" \in on
  /\ pc \in {"start"} \/ (pc = "record" /\ N = 0) => curve["freq"] = {} /\ curve["rss"] = {}
  /\ pc # "record" => on = {} \/ outcome = "raised"

\* What the dumps are of.
DumpsInv ==
  /\ "script" \in reported => ask.record
  /\ "script" \in reported => pc \notin {"stat", "start", "record", "script"}
  /\ "mem" \in reported =>
       /\ pc \notin {"stat", "start", "record", "script", "report"}
       /\ files["mem"] \in 1..N /\ gone[files["mem"]].ok /\ gone[files["mem"]].cmd.mem
       /\ Pass(files["mem"]) = IF cojoined THEN "record" ELSE "memory"
       /\ ~cojoined => Owed /\ pc \notin {"wait", "memory"}
  /\ cojoined => "mem" \in reported /\ plan /\ ask.record /\ files["mem"] = window[2]
  /\ "wait" \in reported <=> wait = "enabled"
  /\ (\E n \in 1..N : Pass(n) = "wait" /\ gone[n].ok) <=> wait \in {"enabled", "empty"}

MetaInv ==
  Done => meta = [memory |-> "mem" \in reported, cojoined |-> cojoined, data |-> DataFile,
                  wait   |-> wait = "enabled",
                  reason |-> IF wait \in {"enabled", "failed"} THEN "none" ELSE wait]

PassesInv == /\ PassesType /\ HistoryInv /\ PlaceInv /\ MemoryInv /\ RecordingInv /\ DumpsInv
             /\ MetaInv

-----------------------------------------------------------------------------
(* The history grows by one command.                                       *)

LEMMA CommandType ==
  ASSUME NEW p \in {"stat", "record", "wait", "memory"}, NEW m \in BOOLEAN, NEW d \in BOOLEAN,
         NEW i \in BOOLEAN
  PROVE  /\ Command(p, m, d, i) \in Cmds
         /\ Command(p, m, d, i).pass = p /\ Command(p, m, d, i).mem = m
         /\ Command(p, m, d, i).dwarf = d /\ Command(p, m, d, i).ival = i
  BY DEF Command, Cmds

LEMMA Grown ==
  ASSUME gone \in Seq(Entries), NEW e \in Entries, gone' = Append(gone, e)
  PROVE  /\ gone' \in Seq(Entries) /\ N \in Nat /\ N' = N + 1 /\ This = N + 1
         /\ gone'[N + 1] = e
         /\ \A i \in 1..N : gone'[i] = gone[i] /\ gone[i] \in Entries
<1>1. N = Len(gone) /\ N' = Len(gone') /\ This = N + 1 /\ N \in Nat
  BY DEF N, This
<1> DEFINE g == Append(gone, e)
<1>2. /\ g \in Seq(Entries) /\ Len(g) = Len(gone) + 1 /\ g[Len(gone) + 1] = e
      /\ \A i \in 1..Len(gone) : g[i] = gone[i]
  BY ONLY gone \in Seq(Entries), e \in Entries, AppendProperties
<1>4. gone' = g
  OBVIOUS
<1> HIDE DEF g
<1>3. \A i \in 1..Len(gone) : gone[i] \in Entries
  OBVIOUS
<1> QED BY <1>1, <1>2, <1>3, <1>4

LEMMA InitPasses == Init => PassesInv
<1> SUFFICES ASSUME Init PROVE PassesInv
  OBVIOUS
<1>0. N = 0 /\ gone = <<>>
  BY DEF Init, N
<1>1. PassesType
  <2>1. ask \in Asks /\ Requested(ask) \in BOOLEAN /\ ask.dwarf \in BOOLEAN
    BY DEF Init, Asks, Requested
  <2>2. rung \in Cmds
    <3>1. rung = Command("record", Requested(ask), ask.dwarf, FALSE)
      BY DEF Init
    <3>2. "record" \in {"stat", "record", "wait", "memory"} /\ FALSE \in BOOLEAN
      OBVIOUS
    <3> QED BY ONLY <2>1, <3>1, <3>2, CommandType
  <2>3. gone \in Seq(Entries)
    BY ONLY <1>0, EmptySeq
  <2>4. curve \in [Samplers -> SUBSET Nat] /\ files \in [Files -> Nat] /\ window \in Nat \X Nat
    BY DEF Init
  <2> QED
    BY <2>1, <2>2, <2>3, <2>4 DEF Init, PassesType, Pcs, Waits
<1>2. HistoryInv
  BY <1>0 DEF Init, HistoryInv
<1>3. PlaceInv
  BY DEF Init, PlaceInv, Command
<1>4. MemoryInv
  BY DEF Init, MemoryInv, Command, Requested, Asks
<1>5. RecordingInv
  BY DEF Init, RecordingInv, Recorded, Samplers
<1>6. DumpsInv /\ MetaInv
  BY <1>0 DEF Init, DumpsInv, MetaInv, Done
<1> QED
  BY <1>1, <1>2, <1>3, <1>4, <1>5, <1>6 DEF PassesInv

-----------------------------------------------------------------------------
(* The commands over the target.                                           *)

LEMMA StatStep == ASSUME PassesInv, Stat PROVE PassesInv'
<1> USE DEF PassesInv
<1>0. /\ pc = "stat" /\ ~ask.record /\ outcome = "none" /\ ask.ival \in BOOLEAN
      /\ UNCHANGED <<ask, rung, on, window, reported, plan, fallback, wait, cojoined, meta>>
  BY DEF Stat, PlaceInv, PassesType, Asks
<1> PICK ok \in BOOLEAN :
      LET ival == ask.ival /\ gone = <<>> IN
      /\ Perf(Command("stat", FALSE, FALSE, ival), ok, "stat")
      /\ IF ok \/ ~ival
         THEN /\ pc' = IF ok THEN "wait" ELSE "over"
              /\ outcome' = IF ok THEN outcome ELSE "refused"
         ELSE UNCHANGED <<pc, outcome>>
  BY DEF Stat
<1> DEFINE ival == ask.ival /\ gone = <<>>
           c == Command("stat", FALSE, FALSE, ival)
           e == [cmd |-> c, ok |-> ok]
<1>1. ival \in BOOLEAN /\ Perf(c, ok, "stat")
  BY <1>0
<1>2. \/ pc' = "stat" /\ ~ok /\ ival /\ outcome' = "none"
      \/ pc' = "wait" /\ ok /\ outcome' = "none"
      \/ pc' = "over" /\ ~ok /\ ~ival /\ outcome' = "refused"
  BY <1>0
<1>3. ival => ask.ival /\ N = 0
  BY DEF N
<1> HIDE DEF ival
<1>4. c \in Cmds /\ c.pass = "stat" /\ c.mem = FALSE /\ c.dwarf = FALSE /\ c.ival = ival
  <2>1. CASE ival
    BY <2>1, <1>1 DEF Command, Cmds
  <2>2. CASE ~ival
    BY <2>2, <1>1 DEF Command, Cmds
  <2> QED
    BY <2>1, <2>2
<1>5. ival => c = Command("stat", FALSE, FALSE, TRUE)
  BY <1>1
<1> HIDE DEF c
<1>6. e \in Entries /\ e.cmd = c /\ e.ok = ok
  BY <1>4 DEF Entries
<1>7. gone' = Append(gone, e) /\ gone \in Seq(Entries)
  BY <1>1 DEF Perf, PassesType
<1> HIDE DEF e
<1>8. /\ gone' \in Seq(Entries) /\ N \in Nat /\ N' = N + 1 /\ This = N + 1
      /\ gone'[N + 1] = e /\ \A i \in 1..N : gone'[i] = gone[i] /\ gone[i] \in Entries
  BY <1>6, <1>7, Grown
<1>9. Command("stat", FALSE, FALSE, TRUE).ival = TRUE /\ Command("stat", FALSE, FALSE, TRUE).pass = "stat"
  BY CommandType
<1>10. \/ N = 0
       \/ N = 1 /\ ~ival /\ gone[1].cmd.ival = TRUE /\ gone[1].cmd.pass = "stat" /\ ~gone[1].ok
  <2>1. CASE N # 0
    <3>1. N = 1 /\ gone[1].cmd = Command("stat", FALSE, FALSE, TRUE) /\ ~gone[1].ok
      BY <1>0, <2>1 DEF HistoryInv
    <3>2. gone[1].cmd.ival = TRUE /\ gone[1].cmd.pass = "stat"
      BY <3>1, <1>9
    <3>3. ~ival
      BY <1>3, <2>1
    <3> QED
      BY <3>1, <3>2, <3>3
  <2> QED
    BY <2>1
<1>11. \/ N = 0 /\ N' = 1 /\ gone'[1] = e
       \/ /\ N = 1 /\ N' = 2 /\ gone'[2] = e /\ ~ival
          /\ gone'[1].cmd.ival = TRUE /\ gone'[1].cmd.pass = "stat" /\ ~gone'[1].ok
  BY <1>8, <1>10
<1>12. \A i \in 1..N' : gone'[i].cmd.pass = "stat"
  BY <1>4, <1>6, <1>11
<1>13. \A i \in 1..N : gone[i].cmd.pass = "stat"
  BY <1>10
<1>14. PassesType'
  <2>1. curve' \in [Samplers -> SUBSET Nat] /\ files' \in [Files -> Nat]
    BY <1>1, <1>8 DEF Perf, PassesType, Files, Text
  <2> QED
    BY <1>0, <1>2, <1>8, <2>1 DEF PassesType, Pcs
<1>15. HistoryInv'
  <2>1. \A i, j \in 1..N' : i < j => gone'[i].cmd # gone'[j].cmd /\ ~gone'[i].ok
    BY <1>4, <1>6, <1>11
  <2>2. pc' = "stat" => /\ N' = 1 /\ ask.ival
                        /\ gone'[1].cmd = Command("stat", FALSE, FALSE, TRUE) /\ ~gone'[1].ok
    BY <1>2, <1>3, <1>5, <1>6, <1>11
  <2> QED
    BY <1>0, <1>2, <1>12, <2>1, <2>2 DEF HistoryInv, Pass
<1>16. PlaceInv'
  BY <1>0, <1>2, <1>4, <1>6, <1>8 DEF PlaceInv
<1>17. MemoryInv'
  BY <1>0, <1>2 DEF MemoryInv, Requested, Owed
<1>18. RecordingInv'
  BY <1>0, <1>2 DEF RecordingInv, Recorded, PlaceInv
<1>19. DumpsInv'
  BY <1>0, <1>12, <1>13 DEF DumpsInv, Pass
<1>20. MetaInv'
  BY <1>0, <1>2 DEF MetaInv, Done
<1> QED
  BY <1>14, <1>15, <1>16, <1>17, <1>18, <1>19, <1>20

LEMMA StartStep == ASSUME PassesInv, StartSamplers PROVE PassesInv'
<1> USE DEF PassesInv
<1>0. /\ pc = "start" /\ pc' = "record" /\ ask.record /\ N = 0 /\ N' = 0 /\ This = 1 /\ "freq" \in on'
      /\ on' \in SUBSET Samplers /\ window' = <<1, 0>>
      /\ UNCHANGED <<ask, rung, gone, curve, files, reported, plan, fallback, wait, cojoined, meta, outcome>>
  BY DEF StartSamplers, HistoryInv, PlaceInv, N, This, Samplers
<1>1. PassesType'
  BY <1>0 DEF PassesType, Pcs
<1>2. HistoryInv'
  BY <1>0 DEF HistoryInv
<1>3. PlaceInv'
  BY <1>0 DEF PlaceInv
<1>4. MemoryInv'
  BY <1>0 DEF MemoryInv, Requested, PlaceInv
<1>5. RecordingInv'
  BY <1>0 DEF RecordingInv, Recorded, PlaceInv
<1>6. DumpsInv'
  BY <1>0 DEF DumpsInv, Pass
<1>7. MetaInv'
  BY <1>0 DEF MetaInv, Done, PlaceInv
<1> QED
  BY <1>1, <1>2, <1>3, <1>4, <1>5, <1>6, <1>7

-----------------------------------------------------------------------------
(* The steps that run no command.                                          *)

\* The history is as it was: what is said of it is only weaker past the recordings.
LEMMA Unrun1 ==
  ASSUME HistoryInv, UNCHANGED <<gone, ask>>, pc \in {"script", "report", "wait", "memory", "retire", "meta"},
         \/ pc' = "over"
         \/ pc = "script" /\ pc' \in {"report", "wait"}
         \/ pc = "report" /\ pc' = "wait"
         \/ pc = "wait" /\ pc' = "memory"
         \/ pc = "memory" /\ pc' = "retire"
         \/ pc = "retire" /\ pc' = "meta"
  PROVE  HistoryInv'
<1>1. N' = N /\ \A i \in 1..N : gone'[i] = gone[i]
  BY DEF N
<1> QED
  BY <1>1 DEF HistoryInv, Pass

LEMMA ScriptStep == ASSUME PassesInv, Script PROVE PassesInv'
<1> USE DEF PassesInv
<1>0. /\ pc = "script" /\ ask.record /\ pc' = IF plan THEN "report" ELSE "wait"
      /\ files' = [files EXCEPT !["script"] = files["perf.data"]]
      /\ reported' \in {reported, reported \cup {"script"}}
      /\ UNCHANGED <<ask, rung, gone, on, curve, window, plan, fallback, wait, cojoined, meta, outcome>>
      /\ outcome = "none" /\ N' = N
  BY DEF Script, Dump, PlaceInv, N
<1>1. PassesType'
  BY <1>0 DEF PassesType, Pcs, Files, Text, Raw
<1>2. HistoryInv'
  BY <1>0, Unrun1
<1>3. PlaceInv'
  BY <1>0 DEF PlaceInv
<1>4. MemoryInv'
  BY <1>0 DEF MemoryInv, Requested
<1>5. RecordingInv'
  <2>1. files'["script"] = files["perf.data"] /\ files'["perf.data"] = files["perf.data"]
    BY <1>0 DEF PassesType, Files, Raw, Text
  <2> QED
    BY <1>0, <2>1 DEF RecordingInv, Recorded, Pass
<1>6. DumpsInv'
  <2>1. files'["mem"] = files["mem"]
    BY <1>0 DEF PassesType, Files, Raw, Text
  <2> QED
    BY <1>0, <2>1 DEF DumpsInv, Pass
<1>7. MetaInv'
  BY <1>0 DEF MetaInv, Done
<1> QED
  BY <1>1, <1>2, <1>3, <1>4, <1>5, <1>6, <1>7

LEMMA ReportStep == ASSUME PassesInv, Report PROVE PassesInv'
<1> USE DEF PassesInv
<1>0. /\ pc = "report" /\ ask.record /\ pc' = "wait"
      /\ files' = [files EXCEPT !["mem"] = files["perf.data"]]
      /\ reported' \in {reported, reported \cup {"mem"}}
      /\ cojoined' = ("mem" \in reported')
      /\ UNCHANGED <<ask, rung, gone, on, curve, window, plan, fallback, wait, meta, outcome>>
      /\ outcome = "none" /\ N' = N
  BY DEF Report, Dump, PlaceInv, N
<1>1. PassesType'
  BY <1>0 DEF PassesType, Pcs, Files, Text, Raw
<1>2. HistoryInv'
  BY <1>0, Unrun1
<1>3. PlaceInv'
  BY <1>0 DEF PlaceInv
<1>4. MemoryInv'
  BY <1>0 DEF MemoryInv, Requested, Owed
<1>5. /\ files'["mem"] = files["perf.data"] /\ files'["perf.data"] = files["perf.data"]
      /\ files'["script"] = files["script"]
  BY <1>0 DEF PassesType, Files, Raw, Text
<1>6. RecordingInv'
  BY <1>0, <1>5 DEF RecordingInv, Recorded, Pass
<1>7. DumpsInv'
  <2>1. plan /\ window[2] \in 1..N /\ gone[window[2]].ok /\ gone[window[2]].cmd.mem = plan
        /\ Pass(window[2]) = "record" /\ files["perf.data"] = window[2] /\ "mem" \notin reported
    BY <1>0 DEF PlaceInv, RecordingInv, Recorded, DumpsInv
  <2>2. CASE "mem" \in reported'
    <3>1. files'["mem"] = window[2] /\ cojoined'
      BY <1>0, <1>5, <2>1, <2>2
    <3> QED
      BY <1>0, <2>1, <2>2, <3>1 DEF DumpsInv, Pass
  <2>3. CASE "mem" \notin reported'
    BY <1>0, <2>3 DEF DumpsInv, Pass
  <2> QED
    BY <2>2, <2>3
<1>8. MetaInv'
  BY <1>0 DEF MetaInv, Done
<1> QED
  BY <1>1, <1>2, <1>3, <1>4, <1>6, <1>7, <1>8

LEMMA RetireStep == ASSUME PassesInv, Retire PROVE PassesInv'
<1> USE DEF PassesInv
<1>0. /\ pc = "retire" /\ pc' = "meta" /\ outcome = "none" /\ N' = N
      /\ files' = [f \in Files |-> IF ~ask.keep /\ f \in Made THEN 0 ELSE files[f]]
      /\ UNCHANGED <<ask, rung, gone, on, curve, window, reported, plan, fallback, wait, cojoined, meta, outcome>>
  BY DEF Retire, PlaceInv, N
<1>1. PassesType'
  BY <1>0 DEF PassesType, Pcs
<1>2. HistoryInv'
  BY <1>0, Unrun1
<1>3. PlaceInv'
  BY <1>0 DEF PlaceInv
<1>4. MemoryInv'
  BY <1>0 DEF MemoryInv, Requested, Owed, Pass
<1>5. files'["mem"] = files["mem"] /\ files'["script"] = files["script"]
  BY <1>0 DEF PassesType, Files, Raw, Text, Made
<1>6. RecordingInv'
  BY <1>0, <1>5 DEF RecordingInv, Recorded, Pass
<1>7. DumpsInv'
  BY <1>0, <1>5 DEF DumpsInv, Pass, Owed, Requested
<1>8. MetaInv'
  BY <1>0 DEF MetaInv, Done
<1> QED
  BY <1>1, <1>2, <1>3, <1>4, <1>6, <1>7, <1>8

LEMMA MetaStep == ASSUME PassesInv, Meta PROVE PassesInv'
<1> USE DEF PassesInv
<1>0. /\ pc = "meta" /\ pc' = "over" /\ outcome = "none" /\ outcome' = "report" /\ N' = N
      /\ UNCHANGED <<ask, rung, gone, on, curve, window, files, reported, plan, fallback, wait, cojoined>>
  BY DEF Meta, PlaceInv, N
<1>1. PassesType'
  BY <1>0 DEF PassesType, Pcs
<1>2. HistoryInv'
  BY <1>0, Unrun1
<1>3. PlaceInv'
  BY <1>0 DEF PlaceInv
<1>4. MemoryInv'
  BY <1>0 DEF MemoryInv, Requested, Owed, Pass
<1>5. RecordingInv'
  BY <1>0 DEF RecordingInv, Recorded, Pass
<1>6. DumpsInv'
  BY <1>0 DEF DumpsInv, Pass, Owed, Requested
<1>7. MetaInv'
  BY <1>0 DEF MetaInv, Meta, DataFile, Owed, Requested
<1> QED
  BY <1>1, <1>2, <1>3, <1>4, <1>5, <1>6, <1>7

\* An error or a SIGINT ends collect() wherever it is; and once it is over it stays so.
LEMMA AbortStep == ASSUME PassesInv, Abort PROVE PassesInv'
<1> USE DEF PassesInv
<1>0. /\ pc # "over" /\ pc' = "over" /\ outcome' = "raised" /\ N' = N /\ \A i \in 1..N : gone'[i] = gone[i]
      /\ UNCHANGED <<ask, rung, gone, on, curve, window, files, reported, plan, fallback, wait, cojoined, meta>>
  BY DEF Abort, N
<1>1. PassesType'
  BY <1>0 DEF PassesType, Pcs
<1>2. HistoryInv'
  BY <1>0 DEF HistoryInv, Pass
<1>3. PlaceInv'
  BY <1>0 DEF PlaceInv
<1>4. MemoryInv'
  BY <1>0 DEF MemoryInv, Requested
<1>5. RecordingInv'
  BY <1>0 DEF RecordingInv, Recorded
<1>6. DumpsInv'
  BY <1>0 DEF DumpsInv, Pass, Owed, Requested
<1>7. MetaInv'
  BY <1>0 DEF MetaInv, Done
<1> QED
  BY <1>1, <1>2, <1>3, <1>4, <1>5, <1>6, <1>7

LEMMA StillStep == ASSUME PassesInv, UNCHANGED vars PROVE PassesInv'
<1> USE DEF PassesInv
<1>0. /\ N' = N /\ \A i \in 1..N : gone'[i] = gone[i]
      /\ UNCHANGED <<ask, pc, rung, gone, on, curve, window, files, reported, plan, fallback, wait, cojoined, meta, outcome>>
  BY DEF vars, N
<1>1. PassesType'
  BY <1>0 DEF PassesType
<1>2. HistoryInv'
  BY <1>0 DEF HistoryInv, Pass
<1>3. PlaceInv'
  BY <1>0 DEF PlaceInv
<1>4. MemoryInv'
  BY <1>0 DEF MemoryInv, Requested, Owed, Pass
<1>5. RecordingInv'
  BY <1>0 DEF RecordingInv, Recorded, Pass
<1>6. DumpsInv'
  BY <1>0 DEF DumpsInv, Pass, Owed, Requested
<1>7. MetaInv'
  BY <1>0 DEF MetaInv, Done, DataFile, Owed, Requested
<1> QED
  BY <1>1, <1>2, <1>3, <1>4, <1>5, <1>6, <1>7

-----------------------------------------------------------------------------
(* The recording.                                                          *)

LEMMA Weaken ==
  ASSUME PassesInv, NEW r \in Weaker(rung)
  PROVE  /\ r \in Cmds /\ r.pass = "record" /\ r.ival = FALSE /\ Weight(rung) > Weight(r)
         /\ Weight(rung) \in Nat /\ Weight(r) \in Nat
         /\ r.mem => rung.mem
<1>1. rung \in Cmds /\ rung.pass = "record" /\ ~rung.ival /\ ask.dwarf \in BOOLEAN /\ ask.attach \in BOOLEAN
  BY DEF PassesInv, PassesType, PlaceInv, Asks
<1>2. CASE rung.dwarf
  <2>1. r = [rung EXCEPT !.dwarf = FALSE]
    BY <1>2 DEF Weaker
  <2>2. r \in Cmds /\ r.pass = "record" /\ r.ival = FALSE /\ ~r.dwarf /\ r.mem = rung.mem
    BY <1>1, <2>1 DEF Cmds
  <2> QED
    BY <1>2, <2>2 DEF Weight
<1>3. CASE rung.mem /\ ~rung.dwarf
  <2>1. r = [rung EXCEPT !.mem = FALSE, !.dwarf = ask.dwarf, !.target = ~ask.attach]
    BY <1>3 DEF Weaker
  <2>2. r \in Cmds /\ r.pass = "record" /\ r.ival = FALSE /\ ~r.mem
    BY <1>1, <2>1 DEF Cmds
  <2> QED
    BY <1>3, <2>2 DEF Weight
<1>4. CASE ~rung.mem /\ ~rung.dwarf
  BY <1>1, <1>4 DEF Weaker
<1> QED
  BY <1>1, <1>2, <1>3, <1>4

LEMMA Plainest == ASSUME rung \in Cmds PROVE Weaker(rung) = {} => ~rung.mem /\ ~rung.dwarf
<1>1. CASE rung.dwarf
  BY <1>1 DEF Weaker
<1>2. CASE rung.mem /\ ~rung.dwarf
  BY <1>2 DEF Weaker
<1> QED
  BY <1>1, <1>2

LEMMA RecordStep == ASSUME PassesInv, Record PROVE PassesInv'
<1> USE DEF PassesInv
<1>0. /\ pc = "record" /\ ask.record /\ outcome = "none" /\ on' = {}
      /\ window[1] = 1 /\ rung \in Cmds /\ rung.pass = "record" /\ ~rung.ival /\ rung.mem = plan
      /\ UNCHANGED <<ask, reported, wait, cojoined, meta>>
  BY DEF Record, PlaceInv, RecordingInv, PassesType, MemoryInv
<1> PICK ok \in BOOLEAN :
       /\ Perf(rung, ok, "perf.data")
       /\ window' = IF ok THEN <<window[1], This>> ELSE window
       /\ pc' = IF ok THEN "script" ELSE IF Weaker(rung) = {} THEN "over" ELSE "record"
       /\ outcome' = IF ~ok /\ Weaker(rung) = {} THEN "refused" ELSE outcome
       /\ IF ok \/ Weaker(rung) = {} THEN UNCHANGED <<rung, plan, fallback>>
          ELSE /\ rung' \in Weaker(rung)
               /\ plan' = rung'.mem
               /\ fallback' = (fallback \/ (plan /\ ~rung'.mem))
  BY DEF Record
<1> DEFINE e == [cmd |-> rung, ok |-> ok]
<1>1. e \in Entries /\ e.cmd = rung /\ e.ok = ok
  BY <1>0 DEF Entries
<1>2. gone' = Append(gone, e) /\ gone \in Seq(Entries)
  BY DEF Perf, PassesType
<1> HIDE DEF e
<1>3. /\ gone' \in Seq(Entries) /\ N \in Nat /\ N' = N + 1 /\ This = N + 1
      /\ gone'[N + 1] = e /\ \A i \in 1..N : gone'[i] = gone[i] /\ gone[i] \in Entries
  BY <1>1, <1>2, Grown
<1>4. \A i \in 1..N : ~gone[i].ok /\ Weight(gone[i].cmd) > Weight(rung)
  BY <1>0 DEF HistoryInv
<1>5. curve'["freq"] = {1} /\ curve'["rss"] \subseteq {1} /\ curve' \in [Samplers -> SUBSET Nat]
  <2>1. curve' = [s \in Samplers |-> IF s \in on THEN curve[s] \cup {N + 1} ELSE curve[s]]
    BY <1>3 DEF Perf
  <2>2. CASE N = 0
    BY <1>0, <2>1, <2>2 DEF RecordingInv, Samplers, PassesType
  <2>3. CASE N > 0
    BY <1>0, <1>3, <2>1, <2>3 DEF RecordingInv, Samplers, PassesType
  <2> QED
    BY <1>3, <2>2, <2>3
<1>6. /\ files' \in [Files -> Nat]
      /\ files' = [files EXCEPT !["perf.data"] = N + 1] \/ (~ok /\ files' = files)
  <2>1. files \in [Files -> Nat] /\ N + 1 \in Nat
    BY <1>3 DEF PassesType
  <2>2. files' = [files EXCEPT !["perf.data"] = This] \/ (~ok /\ files' = files)
    BY Zenon DEF Perf
  <2>3. files' = [files EXCEPT !["perf.data"] = N + 1] \/ (~ok /\ files' = files)
    BY <1>3, <2>2, Zenon
  <2> QED
    BY ONLY <2>1, <2>3
<1>7. /\ \A i, j \in 1..N' : i < j => gone'[i].cmd # gone'[j].cmd /\ ~gone'[i].ok
      /\ gone'[N'].cmd = rung /\ gone'[N'].ok = ok
  <2>1. \A i \in 1..N : gone[i].cmd # rung
    BY <1>0, <1>4 DEF Weight, Cmds
  <2>2. \A i, j \in 1..N : i < j => gone'[i].cmd # gone'[j].cmd /\ ~gone'[i].ok
    BY <1>3, <1>4 DEF HistoryInv
  <2>3. \A i \in 1..N : gone'[i].cmd # gone'[N + 1].cmd /\ ~gone'[i].ok
    BY <1>1, <1>3, <1>4, <2>1
  <2>4. ASSUME NEW i \in 1..N', NEW j \in 1..N', i < j
        PROVE  gone'[i].cmd # gone'[j].cmd /\ ~gone'[i].ok
    <3>1. i \in 1..N /\ (j \in 1..N \/ j = N + 1)
      BY <1>3, <2>4
    <3> QED
      BY <2>2, <2>3, <2>4, <3>1
  <2>5. gone'[N'].cmd = rung /\ gone'[N'].ok = ok
    BY <1>1, <1>3
  <2> QED
    BY <2>4, <2>5
<1>8. \A i \in 1..N' : (i \in 1..N /\ gone'[i] = gone[i]) \/ (i = N' /\ gone'[i].cmd = rung)
  BY <1>3, <1>7
<1>9. DumpsInv'
  <2>1. "script" \notin reported /\ "mem" \notin reported /\ ~cojoined
    BY <1>0 DEF DumpsInv
  <2>2. (\E i \in 1..N' : gone'[i].cmd.pass = "wait" /\ gone'[i].ok)
          <=> (\E i \in 1..N : gone[i].cmd.pass = "wait" /\ gone[i].ok)
    BY <1>0, <1>3, <1>8
  <2> QED
    BY <1>0, <2>1, <2>2 DEF DumpsInv, Pass
<1>10. /\ \A i \in 1..N' : /\ gone'[i].cmd.pass = "stat" => ~ask.record
                           /\ gone'[i].cmd.pass = "record" => ask.record
                           /\ gone'[i].cmd.pass # "wait" /\ gone'[i].cmd.pass # "memory"
  BY <1>0, <1>8 DEF HistoryInv, Pass
<1>11. MetaInv'
  BY <1>0 DEF MetaInv, Done
<1>12. CASE ok
  <2>0. pc' = "script" /\ outcome' = "none" /\ window' = <<1, N + 1>> /\ UNCHANGED <<rung, plan, fallback>>
        /\ files'["perf.data"] = N + 1
    BY <1>0, <1>3, <1>6, <1>12 DEF PassesType, Files, Raw
  <2>1. PassesType'
    BY <1>0, <1>3, <1>5, <1>6, <2>0 DEF PassesType, Pcs
  <2>2. HistoryInv'
    BY <1>0, <1>7, <1>10, <2>0 DEF HistoryInv, Pass
  <2>3. PlaceInv'
    BY <1>0, <2>0 DEF PlaceInv
  <2>4. MemoryInv'
    BY <1>0, <2>0 DEF MemoryInv, Requested
  <2>5. gone'[1].ok => N + 1 = 1
    <3>1. CASE N # 0
      <4>1. 1 \in 1..N
        BY <1>3, <3>1
      <4>2. gone'[1] = gone[1] /\ ~gone[1].ok
        BY <1>3, <1>4, <4>1
      <4> QED
        BY <4>2
    <3>2. CASE N = 0
      BY <3>2
    <3> QED
      BY <3>1, <3>2
  <2>6. RecordingInv'
    <3>1. window'[1] = 1 /\ window'[2] = N' /\ window'[2] \in 1..N' /\ files'["perf.data"] = window'[2]
      BY <1>3, <2>0
    <3>2. gone'[window'[2]].ok /\ gone'[window'[2]].cmd = rung /\ rung.mem = plan' /\ rung.pass = "record"
      BY <1>0, <1>7, <1>12, <2>0, <3>1
    <3>3. gone'[1].ok => window'[2] = 1
      BY <1>3, <2>5, <3>1
    <3> QED
      BY <1>0, <1>5, <2>0, <3>1, <3>2, <3>3 DEF RecordingInv, Recorded, Pass
  <2> QED
    BY <1>9, <1>11, <2>1, <2>2, <2>3, <2>4, <2>6
<1>13. CASE ~ok /\ Weaker(rung) = {}
  <2>0. pc' = "over" /\ outcome' = "refused" /\ window' = window /\ UNCHANGED <<rung, plan, fallback>>
    BY <1>13
  <2>1. PassesType'
    BY <1>0, <1>3, <1>5, <1>6, <2>0 DEF PassesType, Pcs
  <2>2. HistoryInv'
    BY <1>0, <1>7, <1>10, <2>0 DEF HistoryInv, Pass
  <2>3. ~rung.mem /\ ~rung.dwarf
    BY <1>0, <1>13, Plainest
  <2>4. PlaceInv'
    BY <1>0, <1>3, <1>7, <1>13, <2>0, <2>3 DEF PlaceInv
  <2>5. MemoryInv'
    BY <1>0, <2>0 DEF MemoryInv, Requested
  <2>6. RecordingInv'
    BY <1>0, <2>0 DEF RecordingInv, Recorded
  <2> QED
    BY <1>9, <1>11, <2>1, <2>2, <2>4, <2>5, <2>6
<1>14. CASE ~ok /\ Weaker(rung) # {}
  <2>0. /\ pc' = "record" /\ outcome' = "none" /\ window' = window /\ rung' \in Weaker(rung)
        /\ plan' = rung'.mem /\ fallback' = (fallback \/ (plan /\ ~rung'.mem))
    BY <1>0, <1>14
  <2>1. /\ rung' \in Cmds /\ rung'.pass = "record" /\ rung'.ival = FALSE /\ Weight(rung) > Weight(rung')
        /\ Weight(rung) \in Nat /\ Weight(rung') \in Nat /\ (rung'.mem => rung.mem)
        /\ rung'.mem \in BOOLEAN /\ rung'.target \in BOOLEAN
    BY <2>0, Weaken DEF Cmds
  <2>2. PassesType'
    BY <1>0, <1>3, <1>5, <1>6, <2>0, <2>1 DEF PassesType, Pcs
  <2>3. \A i \in 1..N : Weight(gone[i].cmd) \in Nat
    BY <1>3 DEF Weight
  <2>4. \A i \in 1..N' : ~gone'[i].ok /\ Weight(gone'[i].cmd) > Weight(rung')
    <3>1. \A i \in 1..N : ~gone'[i].ok /\ Weight(gone'[i].cmd) > Weight(rung')
      <4> SUFFICES ASSUME NEW i \in 1..N
                   PROVE  ~gone'[i].ok /\ Weight(gone'[i].cmd) > Weight(rung')
        OBVIOUS
      <4>1. gone'[i] = gone[i] /\ ~gone[i].ok /\ Weight(gone[i].cmd) > Weight(rung) /\ Weight(gone[i].cmd) \in Nat
        BY <1>3, <1>4, <2>3
      <4>2. Weight(gone[i].cmd) > Weight(rung')
        BY <4>1, <2>1
      <4> QED
        BY <4>1, <4>2
    <3>2. ~gone'[N + 1].ok /\ Weight(gone'[N + 1].cmd) > Weight(rung')
      BY <1>1, <1>3, <1>14, <2>1
    <3> QED
      BY <1>3, <3>1, <3>2
  <2>5. HistoryInv'
    BY <1>0, <1>7, <1>10, <2>0, <2>4 DEF HistoryInv, Pass
  <2>6. PlaceInv'
    BY <1>0, <2>0, <2>1 DEF PlaceInv
  <2>7. MemoryInv'
    BY <1>0, <2>0, <2>1 DEF MemoryInv, Requested
  <2>8. RecordingInv'
    BY <1>0, <1>3, <1>5, <2>0 DEF RecordingInv, Recorded
  <2> QED
    BY <1>9, <1>11, <2>2, <2>5, <2>6, <2>7, <2>8
<1> QED
  BY <1>12, <1>13, <1>14

-----------------------------------------------------------------------------
(* The passes of their own.                                                *)

\* One more command, of a pass that has not run; what came before stands.
LEMMA OneMore ==
  ASSUME PassesInv, outcome = "none", pc # "record", NEW c \in Cmds,
         \A i \in 1..N : gone[i].cmd.pass # c.pass,
         NEW raw \in {"perf_wait.data", "perf_mem.data"}, NEW f \in {"wait", "mem"}, OwnPass(c, raw, f)
  PROVE  /\ gone' \in Seq(Entries) /\ N \in Nat /\ N' = N + 1 /\ This = N + 1
         /\ gone'[N + 1].cmd = c /\ gone'[N + 1].ok \in BOOLEAN
         /\ \A i \in 1..N : gone'[i] = gone[i]
         /\ curve' = curve /\ files' \in [Files -> Nat]
         /\ \A g \in Files : g # raw /\ g # f => files'[g] = files[g]
         /\ reported' = reported \/ (reported' = reported \cup {f} /\ gone'[N + 1].ok /\ files'[f] = N + 1)
         /\ ~gone'[N + 1].ok => files'[f] = files[f]
         /\ \A i, j \in 1..N' : i < j => /\ gone'[i].cmd # gone'[j].cmd
                                         /\ gone'[i].cmd.pass = gone'[j].cmd.pass => ~gone'[i].ok
<1> USE DEF PassesInv
<1>0. on = {} /\ gone \in Seq(Entries) /\ curve \in [Samplers -> SUBSET Nat] /\ files \in [Files -> Nat]
      /\ raw \in Files /\ f \in Files /\ raw # f
  BY DEF RecordingInv, PassesType, Files, Raw, Text
<1>1. PICK k \in BOOLEAN :
        /\ gone' = Append(gone, [cmd |-> c, ok |-> k])
        /\ curve' = [s \in Samplers |-> IF s \in on THEN curve[s] \cup {This} ELSE curve[s]]
        /\ \/ k /\ files' = [files EXCEPT ![raw] = This, ![f] = This] /\ reported' \in {reported, reported \cup {f}}
           \/ ~k /\ reported' = reported /\ (files' = [files EXCEPT ![raw] = This] \/ files' = files)
  BY DEF OwnPass, Perf
<1> DEFINE e == [cmd |-> c, ok |-> k]
<1>2. e \in Entries /\ e.cmd = c /\ e.ok = k /\ gone' = Append(gone, e)
  BY <1>1 DEF Entries
<1> HIDE DEF e
<1>3. /\ gone' \in Seq(Entries) /\ N \in Nat /\ N' = N + 1 /\ This = N + 1
      /\ gone'[N + 1] = e /\ \A i \in 1..N : gone'[i] = gone[i] /\ gone[i] \in Entries
  BY <1>0, <1>2, Grown
<1>4. curve' = curve
  BY <1>0, <1>1
<1>5. /\ files' \in [Files -> Nat]
      /\ \A g \in Files : g # raw /\ g # f => files'[g] = files[g]
      /\ reported' = reported \/ (reported' = reported \cup {f} /\ k /\ files'[f] = N + 1)
      /\ ~k => files'[f] = files[f]
  <2>1. CASE k
    <3>1. files' = [files EXCEPT ![raw] = N + 1, ![f] = N + 1] /\ reported' \in {reported, reported \cup {f}}
      BY <1>1, <1>3, <2>1
    <3> QED
      BY <1>0, <1>3, <2>1, <3>1
  <2>2. CASE ~k
    <3>1. (files' = [files EXCEPT ![raw] = N + 1] \/ files' = files) /\ reported' = reported
      BY <1>1, <1>3, <2>2
    <3>2. CASE files' = files
      BY <1>0, <2>2, <3>1, <3>2
    <3>3. CASE files' = [files EXCEPT ![raw] = N + 1]
      <4>1. files' \in [Files -> Nat]
        BY <1>0, <1>3, <3>3
      <4>2. \A g \in Files : g # raw => files'[g] = files[g]
        BY <1>0, <3>3
      <4> QED
        BY <1>0, <2>2, <3>1, <4>1, <4>2
    <3> QED
      BY <3>1, <3>2, <3>3
  <2> QED
    BY <2>1, <2>2
<1>6. ASSUME NEW i \in 1..N', NEW j \in 1..N', i < j
      PROVE  gone'[i].cmd # gone'[j].cmd /\ (gone'[i].cmd.pass = gone'[j].cmd.pass => ~gone'[i].ok)
  <2>1. CASE j \in 1..N
    BY <1>3, <1>6, <2>1 DEF HistoryInv, Pass
  <2>2. CASE j = N + 1
    <3>1. i \in 1..N
      BY <1>3, <1>6, <2>2
    <3> QED
      BY <1>2, <1>3, <2>2, <3>1
  <2> QED
    BY <1>3, <2>1, <2>2
<1> QED
  BY <1>2, <1>3, <1>4, <1>5, <1>6

\* A step past the recording that grows the history by at most one command of a
\* pass of its own, and leaves the recording's files alone.
LEMMA RecordingStands ==
  ASSUME PassesInv, pc \in {"wait", "memory"}, pc' \in {"memory", "retire"}, outcome = "none",
         N \in Nat, N' >= N, N' \in Nat, \A i \in 1..N : gone'[i] = gone[i],
         UNCHANGED <<ask, on, window, plan, outcome, curve>>, files'["script"] = files["script"]
  PROVE  RecordingInv'
<1>1. ASSUME ask.record
      PROVE  /\ window[2] \in 1..N' /\ gone'[window[2]] = gone[window[2]] /\ gone'[1] = gone[1]
             /\ gone[window[2]].ok /\ Pass(window[2]) = "record" /\ gone[window[2]].cmd.mem = plan
  <2>1. window[2] \in 1..N /\ gone[window[2]].ok /\ Pass(window[2]) = "record" /\ gone[window[2]].cmd.mem = plan
    BY <1>1 DEF PassesInv, RecordingInv, Recorded
  <2>2. 1 \in 1..N /\ window[2] \in 1..N'
    BY <2>1
  <2> QED
    BY <2>1, <2>2
<1> QED
  BY <1>1 DEF PassesInv, RecordingInv, Recorded, Pass

LEMMA WaitStep == ASSUME PassesInv, Wait PROVE PassesInv'
<1> USE DEF PassesInv
<1>0. /\ pc = "wait" /\ pc' = "memory" /\ outcome = "none" /\ outcome' = "none"
      /\ UNCHANGED <<ask, rung, on, window, plan, fallback, cojoined, meta, outcome>>
      /\ gone \in Seq(Entries) /\ N \in Nat
  BY DEF Wait, PlaceInv, PassesType, N
<1>1. \A i \in 1..N : Pass(i) # "wait" /\ Pass(i) # "memory"
  BY <1>0 DEF HistoryInv
<1>2. wait \notin {"enabled", "empty"} /\ "wait" \notin reported
  BY <1>0, <1>1 DEF DumpsInv
<1>4. PlaceInv'
  BY <1>0 DEF PlaceInv
<1>5. MemoryInv'
  BY <1>0 DEF MemoryInv, Requested, Owed
<1>6. MetaInv'
  BY <1>0 DEF MetaInv, Done
<1>7. CASE Unrun /\ (wait' = wait \/ wait' = "unavailable")
  <2>1. UNCHANGED <<gone, curve, files, reported>> /\ N' = N /\ wait' \in Waits \ {"enabled", "empty"}
    BY <1>2, <1>7 DEF Unrun, N, PassesType, Waits
  <2>2. PassesType'
    BY <1>0, <2>1 DEF PassesType, Pcs
  <2>3. HistoryInv'
    BY <1>0, <2>1, Unrun1
  <2>4. RecordingInv'
    BY <1>0, <2>1, RecordingStands
  <2>5. DumpsInv'
    BY <1>0, <1>1, <1>2, <2>1 DEF DumpsInv, Pass, Owed, Requested
  <2> QED
    BY <1>4, <1>5, <1>6, <2>2, <2>3, <2>4, <2>5
<1>8. CASE /\ OwnPass(Command("wait", FALSE, FALSE, FALSE), "perf_wait.data", "wait")
           /\ wait' = IF "wait" \in reported' THEN "enabled" ELSE IF gone'[This].ok THEN "empty" ELSE wait
  <2> DEFINE c == Command("wait", FALSE, FALSE, FALSE)
  <2>1. c \in Cmds /\ c.pass = "wait"
    BY CommandType
  <2>2. \A i \in 1..N : gone[i].cmd.pass # c.pass
    BY <1>1, <2>1 DEF Pass
  <2>3. OwnPass(c, "perf_wait.data", "wait")
    BY <1>8
  <2> HIDE DEF c
  <2>4. /\ gone' \in Seq(Entries) /\ N' = N + 1 /\ This = N + 1
        /\ gone'[N + 1].cmd = c /\ gone'[N + 1].ok \in BOOLEAN
        /\ \A i \in 1..N : gone'[i] = gone[i]
        /\ curve' = curve /\ files' \in [Files -> Nat]
        /\ \A g \in Files : g # "perf_wait.data" /\ g # "wait" => files'[g] = files[g]
        /\ reported' = reported \/ (reported' = reported \cup {"wait"} /\ gone'[N + 1].ok)
        /\ \A i, j \in 1..N' : i < j => /\ gone'[i].cmd # gone'[j].cmd
                                        /\ gone'[i].cmd.pass = gone'[j].cmd.pass => ~gone'[i].ok
    BY <1>0, <2>1, <2>2, <2>3, OneMore
  <2>5. files'["script"] = files["script"] /\ files'["mem"] = files["mem"]
    BY <2>4 DEF Files, Raw, Text
  <2>6. wait' \in Waits
    BY <1>8 DEF Waits, PassesType
  <2>7. PassesType'
    <3>1. reported' \in SUBSET Text
      <4>1. reported \in SUBSET Text /\ (reported' = reported \/ reported' = reported \cup {"wait"})
        BY <2>4 DEF PassesType
      <4> HIDE DEF PassesInv
      <4> QED
        BY <4>1 DEF Text
    <3> QED
      BY <1>0, <2>4, <2>6, <3>1 DEF PassesType, Pcs
  <2>8. HistoryInv'
    <3>1. \A i \in 1..N' : /\ gone'[i].cmd.pass = "stat" => ~ask.record
                           /\ gone'[i].cmd.pass = "record" => ask.record
                           /\ gone'[i].cmd.pass # "memory"
      <4> SUFFICES ASSUME NEW i \in 1..N'
                   PROVE  /\ gone'[i].cmd.pass = "stat" => ~ask.record
                          /\ gone'[i].cmd.pass = "record" => ask.record
                          /\ gone'[i].cmd.pass # "memory"
        OBVIOUS
      <4>1. i \in 1..N \/ i = N + 1
        BY <1>0, <2>4
      <4>2. CASE i \in 1..N
        BY <1>1, <2>4, <4>2 DEF HistoryInv, Pass
      <4>3. CASE i = N + 1
        BY <2>1, <2>4, <4>3
      <4> QED
        BY <4>1, <4>2, <4>3
    <3> QED
      BY <1>0, <2>4, <3>1 DEF HistoryInv, Pass
  <2>9. RecordingInv'
    <3>1. N' >= N /\ N' \in Nat
      BY <1>0, <2>4
    <3> QED
      BY <1>0, <2>4, <2>5, <3>1, RecordingStands
  <2>10. DumpsInv'
    <3>1. (\E i \in 1..N' : gone'[i].cmd.pass = "wait" /\ gone'[i].ok) <=> gone'[N + 1].ok
      <4>1. \A i \in 1..N : gone'[i].cmd.pass # "wait"
        BY <1>1, <2>4 DEF Pass
      <4>2. \A i \in 1..N' : i \in 1..N \/ i = N + 1
        BY <1>0, <2>4
      <4>3. N + 1 \in 1..N'
        BY <1>0, <2>4
      <4> QED
        BY <2>1, <2>4, <4>1, <4>2, <4>3
    <3>2. gone'[N + 1].ok <=> wait' \in {"enabled", "empty"}
      BY <1>2, <1>8, <2>4
    <3>3. "wait" \in reported' <=> wait' = "enabled"
      BY <1>2, <1>8, <2>4
    <3>4. ("mem" \in reported' <=> "mem" \in reported) /\ ("script" \in reported' <=> "script" \in reported)
      BY <2>4
    <3>5. "mem" \in reported => files["mem"] \in 1..N' /\ gone'[files["mem"]] = gone[files["mem"]]
      BY <1>0, <2>4 DEF DumpsInv
    <3> QED
      BY <1>0, <2>5, <3>1, <3>2, <3>3, <3>4, <3>5 DEF DumpsInv, Pass, Owed, Requested
  <2> QED
    BY <1>4, <1>5, <1>6, <2>7, <2>8, <2>9, <2>10
<1> QED
  BY <1>7, <1>8 DEF Wait

LEMMA MemoryStep == ASSUME PassesInv, Memory PROVE PassesInv'
<1> USE DEF PassesInv
<1>0. /\ pc = "memory" /\ pc' = "retire" /\ outcome = "none" /\ outcome' = "none"
      /\ UNCHANGED <<ask, rung, on, window, plan, fallback, wait, cojoined, meta, outcome>>
      /\ gone \in Seq(Entries) /\ N \in Nat
  BY DEF Memory, PlaceInv, PassesType, N
<1>1. \A i \in 1..N : Pass(i) # "memory"
  BY <1>0 DEF HistoryInv
<1>2. Owed' = Owed
  BY <1>0 DEF Owed, Requested
<1>3. PlaceInv'
  BY <1>0 DEF PlaceInv
<1>4. MetaInv'
  BY <1>0 DEF MetaInv, Done
<1>5. CASE ~Owed /\ Unrun
  <2>1. UNCHANGED <<gone, curve, files, reported>> /\ N' = N
    BY <1>5 DEF Unrun, N
  <2>2. PassesType'
    BY <1>0, <2>1 DEF PassesType, Pcs
  <2>3. HistoryInv'
    BY <1>0, <2>1, Unrun1
  <2>4. RecordingInv'
    BY <1>0, <2>1, RecordingStands
  <2>5. DumpsInv'
    BY <1>0, <1>2, <1>5, <2>1 DEF DumpsInv, Pass
  <2>6. MemoryInv'
    BY <1>0, <1>2, <1>5 DEF MemoryInv, Requested
  <2> QED
    BY <1>3, <1>4, <2>2, <2>3, <2>4, <2>5, <2>6
<1>6. CASE Owed /\ OwnPass(Command("memory", TRUE, ask.dwarf, FALSE), "perf_mem.data", "mem")
  <2> DEFINE c == Command("memory", TRUE, ask.dwarf, FALSE)
  <2>1. c \in Cmds /\ c.pass = "memory" /\ c.mem = TRUE
    <3>0. ask \in Asks
      BY DEF PassesType
    <3>1. ask.dwarf \in BOOLEAN
      BY ONLY <3>0 DEF Asks
    <3>2. "memory" \in {"stat", "record", "wait", "memory"} /\ TRUE \in BOOLEAN /\ FALSE \in BOOLEAN
      OBVIOUS
    <3>3. /\ Command("memory", TRUE, ask.dwarf, FALSE) \in Cmds
          /\ Command("memory", TRUE, ask.dwarf, FALSE).pass = "memory"
          /\ Command("memory", TRUE, ask.dwarf, FALSE).mem = TRUE
      BY ONLY <3>1, <3>2, CommandType
    <3> QED
      BY <3>3
  <2>2. \A i \in 1..N : gone[i].cmd.pass # c.pass
    BY <1>1, <2>1 DEF Pass
  <2>3. OwnPass(c, "perf_mem.data", "mem")
    BY <1>6
  <2> HIDE DEF c
  <2>4. /\ gone' \in Seq(Entries) /\ N' = N + 1 /\ This = N + 1
        /\ gone'[N + 1].cmd = c /\ gone'[N + 1].ok \in BOOLEAN
        /\ \A i \in 1..N : gone'[i] = gone[i]
        /\ curve' = curve /\ files' \in [Files -> Nat]
        /\ \A g \in Files : g # "perf_mem.data" /\ g # "mem" => files'[g] = files[g]
        /\ reported' = reported \/ (reported' = reported \cup {"mem"} /\ gone'[N + 1].ok /\ files'["mem"] = N + 1)
        /\ \A i, j \in 1..N' : i < j => /\ gone'[i].cmd # gone'[j].cmd
                                        /\ gone'[i].cmd.pass = gone'[j].cmd.pass => ~gone'[i].ok
    BY <1>0, <2>1, <2>2, <2>3, OneMore
  <2>5. files'["script"] = files["script"]
    BY <2>4 DEF Files, Raw, Text
  <2>6. "mem" \notin reported /\ ~cojoined
    BY <1>0, <1>6 DEF DumpsInv, MemoryInv, Owed
  <2>7. PassesType'
    <3>1. reported' \in SUBSET Text
      <4>1. reported \in SUBSET Text /\ (reported' = reported \/ reported' = reported \cup {"mem"})
        BY <2>4 DEF PassesType
      <4> HIDE DEF PassesInv
      <4> QED
        BY <4>1 DEF Text
    <3> QED
      BY <1>0, <2>4, <3>1 DEF PassesType, Pcs
  <2>8. \A i \in 1..N' : (i \in 1..N /\ gone'[i] = gone[i]) \/ (i = N + 1 /\ gone'[i].cmd = c)
    BY <1>0, <2>4
  <2>9. HistoryInv'
    <3>1. \A i \in 1..N' : /\ gone'[i].cmd.pass = "stat" => ~ask.record
                           /\ gone'[i].cmd.pass = "record" => ask.record
      BY <2>1, <2>8 DEF HistoryInv, Pass
    <3> QED
      BY <1>0, <2>4, <3>1 DEF HistoryInv, Pass
  <2>10. RecordingInv'
    <3>1. N' >= N /\ N' \in Nat
      BY <1>0, <2>4
    <3> QED
      BY <1>0, <2>4, <2>5, <3>1, RecordingStands
  <2>11. N + 1 \in 1..N'
    BY <1>0, <2>4
  <2>12. DumpsInv'
    <3>1. (\E i \in 1..N' : gone'[i].cmd.pass = "wait" /\ gone'[i].ok)
            <=> (\E i \in 1..N : gone[i].cmd.pass = "wait" /\ gone[i].ok)
      <4>1. \A i \in 1..N' : gone'[i].cmd.pass = "wait" => i \in 1..N /\ gone'[i] = gone[i]
        BY <2>1, <2>8
      <4>2. \A i \in 1..N : i \in 1..N' /\ gone'[i] = gone[i]
        BY <1>0, <2>4
      <4> QED
        BY <4>1, <4>2
    <3>2. ("wait" \in reported' <=> "wait" \in reported) /\ ("script" \in reported' <=> "script" \in reported)
      BY <2>4
    <3>3. "mem" \in reported' => files'["mem"] = N + 1 /\ gone'[N + 1].ok
      BY <2>4, <2>6
    <3> QED
      BY <1>0, <1>2, <1>6, <2>1, <2>4, <2>6, <2>11, <3>1, <3>2, <3>3 DEF DumpsInv, Pass
  <2>13. MemoryInv'
    BY <1>0, <1>2, <2>1, <2>4, <2>11 DEF MemoryInv, Requested, Pass
  <2> QED
    BY <1>3, <1>4, <2>7, <2>9, <2>10, <2>12, <2>13
<1> QED
  BY <1>5, <1>6 DEF Memory

-----------------------------------------------------------------------------
(* The theorems.                                                           *)

LEMMA PassesInductive == Spec => []PassesInv
<1>1. Init => PassesInv
  BY InitPasses
<1>2. PassesInv /\ [Next]_vars => PassesInv'
  BY StatStep, StartStep, RecordStep, ScriptStep, ReportStep, WaitStep, MemoryStep, RetireStep, MetaStep,
     AbortStep, StillStep DEF Next
<1> QED
  BY <1>1, <1>2, PTL DEF Spec

\* Every variable stays in its range: collect() through its passes.
THEOREM PassesTypeCorrect == Spec => []PassesType
  BY PassesInductive, PTL DEF PassesInv

\* perf is asked for less each time it refuses, never the same twice, and the memory
\* events it would not take with the samples are asked for in a pass of their own.
THEOREM LadderAlwaysDescends == Spec => []LadderDescends
<1>1. PassesInv => LadderDescends
  <2> SUFFICES ASSUME PassesInv PROVE LadderDescends
    OBVIOUS
  <2>1. \A i, j \in 1..N : i < j => gone[i].cmd # gone[j].cmd /\ (Pass(i) = Pass(j) => ~gone[i].ok)
    BY DEF PassesInv, HistoryInv
  <2>2. outcome = "refused" => ~gone[N].ok /\ ~gone[N].cmd.mem /\ ~gone[N].cmd.ival /\ ~gone[N].cmd.dwarf
    BY DEF PassesInv, PlaceInv
  <2>3. ASSUME Done, Requested(ask)
        PROVE  \E n \in 1..N : gone[n].cmd.mem /\ (gone[n].ok \/ Pass(n) = "memory")
    <3>1. CASE Owed
      BY <2>3, <3>1 DEF PassesInv, MemoryInv, Done
    <3>2. CASE ~Owed
      <4>1. plan /\ ask.record
        BY <2>3, <3>2 DEF PassesInv, MemoryInv, Owed
      <4> QED
        BY <2>3, <4>1 DEF PassesInv, RecordingInv, Recorded, Done
    <3> QED
      BY <3>1, <3>2
  <2> QED
    BY <2>1, <2>2, <2>3 DEF LadderDescends, N
<1> QED
  BY <1>1, PassesInductive, PTL

\* meta.json names the recording its memory report is of, and says of the wait dump
\* what came of it.
THEOREM MetaIsTrue == Spec => []MetaIsTheDirectory
<1>1. PassesInv => MetaIsTheDirectory
  <2> SUFFICES ASSUME PassesInv, Done PROVE MetaIsTheDirectory
    BY DEF MetaIsTheDirectory
  <2>1. /\ meta.memory = ("mem" \in reported)
        /\ meta.cojoined = cojoined
        /\ meta.data = DataFile
        /\ meta.wait = (wait = "enabled")
        /\ meta.reason = IF wait \in {"enabled", "failed"} THEN "none" ELSE wait
    BY DEF PassesInv, MetaInv
  <2>2. "wait" \in reported <=> wait = "enabled"
    BY DEF PassesInv, DumpsInv
  <2>3. (\E n \in 1..N : Pass(n) = "wait" /\ gone[n].ok) <=> meta.wait \/ meta.reason = "empty"
    BY <2>1 DEF PassesInv, DumpsInv
  <2>4. ASSUME "mem" \in reported
        PROVE  /\ Pass(files["mem"]) = (IF meta.cojoined THEN "record" ELSE "memory")
               /\ meta.data = (IF meta.cojoined THEN "perf.data" ELSE "perf_mem.data")
               /\ gone[files["mem"]].ok /\ gone[files["mem"]].cmd.mem
    <3>1. CASE cojoined
      BY <2>1, <2>4, <3>1 DEF PassesInv, DumpsInv, DataFile, Owed, MemoryInv
    <3>2. CASE ~cojoined
      BY <2>1, <2>4, <3>2 DEF PassesInv, DumpsInv, DataFile
    <3> QED
      BY <3>1, <3>2
  <2> QED
    BY <2>1, <2>2, <2>3, <2>4 DEF MetaIsTheDirectory, N
<1> QED
  BY <1>1, PassesInductive, PTL

\* The samples, a co-joined memory report and the window are of one recording, and so
\* are the curves where perf took what it was first asked.
THEOREM ProfileIsOfOneRecording == Spec => []OneRecording
<1>1. PassesInv => OneRecording
  <2> SUFFICES ASSUME PassesInv, Done, "script" \in reported PROVE OneRecording
    BY DEF OneRecording
  <2>1. ask.record /\ pc = "over" /\ outcome = "report" /\ meta.cojoined = cojoined
    BY DEF PassesInv, DumpsInv, MetaInv, PlaceInv, Done
  <2>2. /\ window[1] = 1 /\ window[2] = files["script"] /\ gone[window[2]].ok
        /\ gone[1].ok => window[2] = 1
        /\ curve["freq"] = {1} /\ curve["rss"] \subseteq {1}
    BY <2>1 DEF PassesInv, RecordingInv, Recorded
  <2>3. cojoined => files["mem"] = window[2]
    BY DEF PassesInv, DumpsInv
  <2> QED
    BY <2>1, <2>2, <2>3 DEF OneRecording, First
<1> QED
  BY <1>1, PassesInductive, PTL

-----------------------------------------------------------------------------
(* The macOS backend: Macos.                                               *)

Readings == [at : Nat, cpu : Nat]

MacosType ==
  /\ mode \in {"run", "attach"} /\ clock \in Nat /\ termed \in BOOLEAN /\ stopped \in BOOLEAN
  /\ step \in {"settle", "start", "loop", "sample", "finally", "stop", "join", "total", "intervals",
               "save", "done", "raised"}
  /\ target \in [st : {"running", "exited", "reaped"}, cpu : Nat]
  /\ thread \in [pc : {"off", "begin", "wait", "ps", "ended"}, t0 : Nat \cup {Nothing},
                 now : Nat \cup {Nothing}]
  /\ cpu \in Seq(Readings)
  /\ stat = [total |-> stat.total, seen |-> stat.seen, intervals |-> stat.intervals,
             drawn |-> stat.drawn, elapsed |-> stat.elapsed]

\* Past the finally of the try, unless an interrupt met collect_macos where nothing
\* would end the target.
EndedInv ==
  mode = "run" =>
    \/ target.st # "running" \/ termed
    \/ step = "raised" /\ cut \in {"settle", "start", "finally"}
    \/ step \in {"settle", "start", "loop", "sample", "finally"}

\* The thread's clock: it runs from its origin on.
ClockInv ==
  /\ thread.pc \in {"wait", "ps"} => /\ thread.t0 \in Nat /\ thread.t0 <= clock
                                     /\ thread.now \in Nat => thread.now <= clock - thread.t0
  /\ thread.pc = "ps" => thread.now \in Nat
  /\ thread.pc \in {"off", "begin"} => thread.now = Nothing

\* The readings rise: none is of a moment or of a CPU time not yet come.
RisingInv ==
  /\ \A i, j \in 1..Len(cpu) : i < j => cpu[i].at < cpu[j].at /\ cpu[i].cpu <= cpu[j].cpu
  /\ \A i \in 1..Len(cpu) :
       /\ cpu[i].cpu <= target.cpu
       /\ thread.pc = "ps" => cpu[i].at < thread.now
       /\ thread.pc = "wait" => thread.now \in Nat /\ cpu[i].at <= thread.now
  /\ thread.pc \in {"off", "begin"} => cpu = <<>>
  /\ step \in {"settle", "start"} => thread.pc = "off"

\* What the total is of, and what the intervals are of.
IsTotal(n) == n \in 1..Len(cpu) /\ stat.total = cpu[n].cpu - cpu[1].cpu
AreIntervals(n) ==
  /\ n \in 1..Len(cpu) /\ DOMAIN stat.intervals = 1..(n - 1)
  /\ \A i \in 1..(n - 1) : stat.intervals[i].ms = cpu[i + 1].cpu - cpu[i].cpu

\* stop() gives up on the thread: it adds one reading at most.
StatInv ==
  /\ step \in {"join", "total", "intervals", "save", "done"} => stopped
  /\ step \notin {"intervals", "save", "done", "raised"} => stat.total = Nothing
  /\ step = "intervals" =>
       /\ IsTotal(stat.seen) /\ Len(cpu) <= stat.seen + 1
       /\ Len(cpu) = stat.seen + 1 => thread.pc # "ps"
  /\ step \in {"save", "done"} /\ stat.total # Nothing =>
       /\ IsTotal(stat.seen) /\ stat.seen <= stat.drawn /\ stat.drawn <= stat.seen + 1
       /\ AreIntervals(stat.drawn)

MacosInv == MacosType /\ EndedInv /\ ClockInv /\ RisingInv /\ StatInv

LEMMA MacosStart == MacInit => MacosInv
<1> SUFFICES ASSUME MacInit PROVE MacosInv
  OBVIOUS
<1>1. MacosType
  <2>1. <<>> \in Seq(Readings)
    OBVIOUS
  <2> QED BY <2>1, MacosConstants DEF MacInit, MacosType
<1>2. EndedInv
  BY DEF MacInit, EndedInv
<1>3. ClockInv /\ RisingInv
  BY DEF MacInit, ClockInv, RisingInv
<1>4. StatInv
  BY DEF MacInit, StatInv
<1> QED BY <1>1, <1>2, <1>3, <1>4 DEF MacosInv

LEMMA ReadingsAre ==
  ASSUME MacosInv
  PROVE  /\ Len(cpu) \in Nat /\ DOMAIN cpu = 1..Len(cpu) /\ cpu \in Seq(Readings)
         /\ \A i \in 1..Len(cpu) : cpu[i] \in Readings /\ cpu[i].at \in Nat /\ cpu[i].cpu \in Nat
<1>1. cpu \in Seq(Readings)
  BY DEF MacosInv, MacosType
<1>2. \A i \in 1..Len(cpu) : cpu[i] \in Readings
  BY <1>1
<1> QED BY <1>1, <1>2 DEF Readings

\* collect_macos: the readings are the thread's, and no step but the last three makes
\* anything of them.
Untouched == cpu' = cpu /\ stat' = stat /\ clock' = clock /\ mode' = mode

LEMMA CollectKeeps ==
  ASSUME MacosInv, Untouched, thread' = thread, stopped' = stopped, termed' \in BOOLEAN,
         target' \in {target, Reaped}, step \in {"settle", "loop", "sample", "finally", "join"},
         step' \in {"start", "loop", "sample", "finally", "stop", "total", "raised"},
         step' = "start" => step = "settle", step' = "total" => step = "join",
         EndedInv'
  PROVE  MacosInv'
<1>1. target' \in [st : {"running", "exited", "reaped"}, cpu : Nat] /\ target'.cpu = target.cpu
  BY DEF MacosInv, MacosType, Reaped
<1>2. MacosType'
  BY <1>1 DEF MacosInv, MacosType, Untouched
<1>3. ClockInv'
  BY DEF MacosInv, ClockInv, Untouched
<1>4. RisingInv'
  BY <1>1 DEF MacosInv, RisingInv, Untouched
<1>5. StatInv'
  BY DEF MacosInv, StatInv, Untouched
<1> QED BY <1>2, <1>3, <1>4, <1>5 DEF MacosInv

LEMMA CollectStep == ASSUME MacosInv, Collect PROVE MacosInv'
<1> USE DEF collecting, sampling
<1>1. CASE Settle
  <2>1. EndedInv'
    BY <1>1 DEF Settle, EndedInv
  <2> QED BY <1>1, <2>1, CollectKeeps DEF MacosInv, MacosType, Settle, Untouched
<1>2. CASE Start
  <2>1. EndedInv'
    BY <1>2 DEF Start, EndedInv
  <2>2. cpu = <<>> /\ thread.pc = "off"
    BY <1>2 DEF MacosInv, RisingInv, Start
  <2>3. MacosType' /\ ClockInv' /\ RisingInv'
    BY <1>2, <2>2 DEF Start, MacosInv, MacosType, ClockInv, RisingInv
  <2>4. StatInv'
    BY <1>2, <2>2 DEF Start, MacosInv, StatInv
  <2> QED BY <2>1, <2>3, <2>4 DEF MacosInv
<1>3. CASE Loop
  <2>1. EndedInv'
    BY <1>3 DEF Loop, EndedInv
  <2> QED BY <1>3, <2>1, CollectKeeps DEF MacosInv, MacosType, Loop, Untouched
<1>4. ASSUME NEW dump \in Dumps, Sample(dump) PROVE MacosInv'
  <2>1. EndedInv'
    BY <1>4 DEF Sample, EndedInv
  <2> QED BY <1>4, <2>1, CollectKeeps DEF MacosInv, MacosType, Sample, Untouched
<1>5. CASE SampleFails
  <2>1. EndedInv'
    BY <1>5 DEF SampleFails, EndedInv
  <2> QED BY <1>5, <2>1, CollectKeeps DEF MacosInv, MacosType, SampleFails, Untouched
<1>6. CASE Finally
  <2>1. EndedInv'
    BY <1>6 DEF Finally, EndedInv, Reaped
  <2> QED BY <1>6, <2>1, CollectKeeps DEF MacosInv, MacosType, Finally, Untouched
<1>7. CASE Stop
  <2>1. EndedInv'
    BY <1>7 DEF Stop, MacosInv, EndedInv
  <2>2. MacosType' /\ ClockInv' /\ RisingInv'
    BY <1>7 DEF Stop, MacosInv, MacosType, ClockInv, RisingInv
  <2>3. StatInv'
    BY <1>7 DEF Stop, MacosInv, StatInv
  <2> QED BY <2>1, <2>2, <2>3 DEF MacosInv
<1>8. CASE Join
  <2>1. EndedInv'
    BY <1>8 DEF Join, MacosInv, EndedInv
  <2>2. Untouched /\ thread' = thread /\ stopped' = stopped /\ target' = target
    BY <1>8 DEF Join, Untouched
  <2>3. termed' \in BOOLEAN /\ step = "join" /\ step' = "total"
    BY <1>8 DEF Join, MacosInv, MacosType
  <2> QED BY <2>1, <2>2, <2>3, CollectKeeps
<1>9. CASE Interrupt
  <2>1. EndedInv'
    BY <1>9 DEF Interrupt, MacosInv, EndedInv, MacosType
  <2>2. MacosType' /\ ClockInv' /\ RisingInv'
    BY <1>9 DEF Interrupt, MacosInv, MacosType, ClockInv, RisingInv
  <2>3. StatInv'
    BY <1>9 DEF Interrupt, MacosInv, StatInv
  <2> QED BY <2>1, <2>2, <2>3 DEF MacosInv
<1>10. CASE Total
  <2> DEFINE top == Len(cpu)
  <2>1. top \in Nat /\ \A i \in 1..top : cpu[i] \in Readings
    BY DEF MacosInv, MacosType
  <2>2. EndedInv' /\ MacosType' /\ ClockInv' /\ RisingInv'
    <3>1. EndedInv'
      BY <1>10 DEF Total, MacosInv, EndedInv
    <3>2. MacosType'
      BY <1>10 DEF Total, MacosInv, MacosType
    <3>3. ClockInv' /\ RisingInv'
      BY <1>10 DEF Total, MacosInv, ClockInv, RisingInv
    <3> QED BY <3>1, <3>2, <3>3
  <2>3. CASE cpu = <<>>
    BY <1>10, <2>2, <2>3 DEF Total, MacosInv, StatInv
  <2>4. CASE cpu # <<>>
    <3>1. top \in 1..top /\ 1 \in 1..top
      BY <2>1, <2>4 DEF MacosInv, MacosType
    <3>2. Max({cpu[i].cpu : i \in DOMAIN cpu}) = cpu[top].cpu
      <4> DEFINE V == {cpu[i].cpu : i \in DOMAIN cpu}
      <4>1. \A i \in 1..top : cpu[i].cpu \in Nat /\ cpu[i].cpu <= cpu[top].cpu
        BY <2>1, <3>1 DEF MacosInv, RisingInv, Readings
      <4>2. DOMAIN cpu = 1..top
        BY DEF MacosInv, MacosType
      <4>3. cpu[top].cpu \in V /\ \A y \in V : y \in Nat /\ y <= cpu[top].cpu
        BY <3>1, <4>1, <4>2
      <4> HIDE DEF V
      <4>4. \A x \in V : (\A y \in V : x >= y) => x = cpu[top].cpu
        BY <4>3
      <4> QED BY <4>3, <4>4 DEF Max, V
    <3>3. stat'.total = cpu[top].cpu - cpu[1].cpu /\ stat'.seen = top
      BY <1>10, <2>4, <3>2 DEF Total, MacosInv, MacosType
    <3>4. step' = "intervals" /\ cpu' = cpu /\ stopped' = stopped /\ thread' = thread /\ step = "total"
      BY <1>10, <2>4 DEF Total
    <3>5. StatInv'
      BY <3>1, <3>3, <3>4, <2>1 DEF MacosInv, StatInv, IsTotal
    <3> QED BY <2>2, <3>5 DEF MacosInv
  <2> QED BY <2>3, <2>4
<1>11. CASE Intervals
  <2>1. EndedInv'
    BY <1>11 DEF Intervals, MacosInv, EndedInv
  <2>2. MacosType' /\ ClockInv' /\ RisingInv'
    <3>1. MacosType'
      BY <1>11 DEF Intervals, MacosInv, MacosType
    <3>2. ClockInv'
      BY <1>11 DEF Intervals, MacosInv, ClockInv
    <3>3. RisingInv'
      BY <1>11 DEF Intervals, MacosInv, RisingInv
    <3> QED BY <3>1, <3>2, <3>3
  <2>3. /\ stat'.intervals = CpuIntervals /\ stat'.drawn = Len(cpu)
        /\ stat'.total = stat.total /\ stat'.seen = stat.seen
        /\ step = "intervals" /\ step' = "save" /\ cpu' = cpu /\ stopped' = stopped
    BY <1>11 DEF Intervals, MacosInv, MacosType
  <2>4. Len(cpu) \in Nat /\ \A i \in 1..Len(cpu) : cpu[i] \in Readings
    BY DEF MacosInv, MacosType
  <2>5. \A i \in 1..(Len(cpu) - 1) : Between(i).wide > 0 /\ Between(i).ms >= 0
    <3> SUFFICES ASSUME NEW i \in 1..(Len(cpu) - 1)
                 PROVE  cpu[i + 1].at - cpu[i].at > 0 /\ cpu[i + 1].cpu - cpu[i].cpu >= 0
      BY DEF Between
    <3>1. i \in 1..Len(cpu) /\ i + 1 \in 1..Len(cpu) /\ i < i + 1
      BY <2>4
    <3>2. cpu[i].at < cpu[i + 1].at /\ cpu[i].cpu <= cpu[i + 1].cpu
      BY <3>1 DEF MacosInv, RisingInv
    <3>3. cpu[i] \in Readings /\ cpu[i + 1] \in Readings
      BY <2>4, <3>1
    <3> QED BY <3>2, <3>3 DEF Readings
  <2>6. /\ DOMAIN CpuIntervals = 1..(Len(cpu) - 1)
        /\ \A i \in 1..(Len(cpu) - 1) : CpuIntervals[i].ms = cpu[i + 1].cpu - cpu[i].cpu
    BY <2>5 DEF CpuIntervals, Between
  <2>7. IsTotal(stat.seen) /\ Len(cpu) <= stat.seen + 1 /\ stopped
    BY <2>3 DEF MacosInv, StatInv
  <2>8. StatInv'
    BY <2>3, <2>4, <2>6, <2>7 DEF StatInv, IsTotal, AreIntervals
  <2> QED BY <2>1, <2>2, <2>8 DEF MacosInv
<1>12. CASE Save
  <2>1. EndedInv'
    BY <1>12 DEF Save, MacosInv, EndedInv
  <2>2. MacosType' /\ ClockInv' /\ RisingInv'
    BY <1>12 DEF Save, MacosInv, MacosType, ClockInv, RisingInv
  <2>3. /\ stat'.intervals = stat.intervals /\ stat'.drawn = stat.drawn
        /\ stat'.total = stat.total /\ stat'.seen = stat.seen
        /\ step = "save" /\ step' = "done" /\ cpu' = cpu /\ stopped' = stopped
    BY <1>12 DEF Save, MacosInv, MacosType
  <2>4. StatInv'
    BY <2>3 DEF MacosInv, StatInv, IsTotal, AreIntervals
  <2> QED BY <2>1, <2>2, <2>4 DEF MacosInv
<1> QED
  BY <1>1, <1>2, <1>3, <1>4, <1>5, <1>6, <1>7, <1>8, <1>9, <1>10, <1>11, <1>12 DEF Collect

-----------------------------------------------------------------------------
LEMMA SamplerStep == ASSUME MacosInv, Sampler PROVE MacosInv'
<1> USE DEF main, collecting
<1>0. EndedInv'
  BY DEF MacosInv, EndedInv, Sampler, Begin, Turn, Read
<1>1. CASE Begin
  <2>1. cpu = <<>> /\ cpu' = <<>> /\ stat' = stat /\ step' = step /\ stopped' = stopped
    BY <1>1 DEF Begin, MacosInv, RisingInv
  <2>2. MacosType' /\ ClockInv'
    <3>1. /\ thread' = [thread EXCEPT !.t0 = clock, !.pc = "wait"] /\ thread.now = Nothing
          /\ clock' = clock /\ clock \in Nat
      BY <1>1 DEF Begin, MacosInv, MacosType, ClockInv
    <3>2. thread' = [pc |-> "wait", t0 |-> clock, now |-> Nothing]
      BY <3>1 DEF MacosInv, MacosType
    <3>3. MacosType'
      BY <1>1, <3>1, <3>2 DEF Begin, MacosInv, MacosType
    <3>4. ClockInv'
      BY <3>1, <3>2, MacosConstants DEF ClockInv
    <3> QED BY <3>3, <3>4
  <2>3. RisingInv'
    BY <1>1, <2>1 DEF Begin, MacosInv, MacosType, RisingInv
  <2>4. StatInv'
    BY <1>1, <2>1 DEF Begin, MacosInv, MacosType, StatInv, IsTotal, AreIntervals
  <2> QED BY <1>0, <2>2, <2>3, <2>4 DEF MacosInv
<1>2. CASE Turn
  <2>1. cpu' = cpu /\ stat' = stat /\ step' = step /\ stopped' = stopped /\ target' = target
        /\ clock' = clock /\ thread.pc = "wait"
    BY <1>2 DEF Turn
  <2>2. MacosType' /\ ClockInv' /\ RisingInv'
    <3>1. CASE stopped
      BY <1>2, <3>1 DEF Turn, MacosInv, MacosType, ClockInv, RisingInv
    <3>2. CASE ~stopped
      <4>1. /\ thread' = [thread EXCEPT !.pc = "ps", !.now = clock - thread.t0]
            /\ thread.now # clock - thread.t0
        BY <1>2, <3>2 DEF Turn
      <4>2. clock - thread.t0 \in Nat /\ (thread.now \in Nat => thread.now < clock - thread.t0)
        BY <2>1, <4>1 DEF MacosInv, MacosType, ClockInv
      <4>3. MacosType'
        BY <1>2, <4>1, <4>2 DEF Turn, MacosInv, MacosType
      <4>4. ClockInv'
        BY <2>1, <4>1, <4>2 DEF MacosInv, MacosType, ClockInv
      <4>5. \A i \in 1..Len(cpu) : cpu[i].at < clock - thread.t0
        <5> SUFFICES ASSUME NEW i \in 1..Len(cpu) PROVE cpu[i].at < clock - thread.t0
          OBVIOUS
        <5>1. thread.now \in Nat /\ cpu[i].at <= thread.now
          BY <2>1 DEF MacosInv, RisingInv
        <5>2. cpu[i].at \in Nat
          BY ReadingsAre
        <5> QED BY <4>2, <5>1, <5>2
      <4>6. RisingInv'
        BY <2>1, <4>1, <4>5 DEF MacosInv, MacosType, RisingInv
      <4> QED BY <4>3, <4>4, <4>6
    <3> QED BY <3>1, <3>2
  <2>3. StatInv'
    BY <1>2, <2>1 DEF Turn, MacosInv, MacosType, StatInv, IsTotal, AreIntervals
  <2> QED BY <1>0, <2>2, <2>3 DEF MacosInv
<1>3. CASE Read
  <2>1. PICK c \in PsCpuSeconds :
          cpu' = IF c = Nothing THEN cpu ELSE Append(cpu, [at |-> thread.now, cpu |-> c])
    BY <1>3 DEF Read
  <2>2. /\ stat' = stat /\ step' = step /\ stopped' = stopped /\ target' = target
        /\ clock' = clock /\ thread.pc = "ps" /\ thread' = [thread EXCEPT !.pc = "wait"]
    BY <1>3 DEF Read
  <2>3. ClockInv'
    BY <2>2 DEF MacosInv, MacosType, ClockInv
  <2>4. CASE c = Nothing
    <3>3. \A i \in 1..Len(cpu) : cpu[i].at <= thread.now
      BY <2>2, ReadingsAre DEF MacosInv, ClockInv, RisingInv
    <3>1. MacosType' /\ RisingInv'
      BY <1>3, <2>1, <2>2, <2>4, <3>3 DEF Read, MacosInv, MacosType, ClockInv, RisingInv
    <3>2. StatInv'
      BY <2>1, <2>2, <2>4 DEF MacosInv, MacosType, StatInv, IsTotal, AreIntervals
    <3> QED BY <1>0, <2>3, <3>1, <3>2 DEF MacosInv
  <2>5. CASE c # Nothing
    <3> DEFINE r == [at |-> thread.now, cpu |-> target.cpu]
               n == Len(cpu)
    <3>1. r \in Readings /\ thread.now \in Nat /\ target.cpu \in Nat /\ cpu \in Seq(Readings)
      BY <2>2 DEF MacosInv, MacosType, ClockInv, Readings
    <3>2. cpu' = Append(cpu, r)
      BY <2>1, <2>5 DEF PsCpuSeconds
    <3>3. /\ n \in Nat /\ Len(cpu') = n + 1 /\ cpu'[n + 1] = r /\ cpu' \in Seq(Readings)
          /\ \A i \in 1..n : cpu'[i] = cpu[i] /\ cpu[i] \in Readings
      BY <3>1, <3>2
    <3>4. MacosType'
      BY <1>3, <2>2, <3>3 DEF Read, MacosInv, MacosType
    <3>5. \A i \in 1..n : cpu[i].at < r.at /\ cpu[i].cpu <= r.cpu
      BY <2>2 DEF MacosInv, RisingInv
    <3>6. \A i \in 1..(n + 1) : i \in 1..n \/ i = n + 1
      BY <3>3
    <3>7. RisingInv'
      <4>1. \A i, j \in 1..(n + 1) : i < j => cpu'[i].at < cpu'[j].at /\ cpu'[i].cpu <= cpu'[j].cpu
        <5> SUFFICES ASSUME NEW i \in 1..(n + 1), NEW j \in 1..(n + 1), i < j
                     PROVE  cpu'[i].at < cpu'[j].at /\ cpu'[i].cpu <= cpu'[j].cpu
          OBVIOUS
        <5>1. i \in 1..n
          BY <3>3
        <5>2. CASE j \in 1..n
          BY <3>3, <5>1, <5>2 DEF MacosInv, RisingInv
        <5>3. CASE j = n + 1
          BY <3>3, <3>5, <5>1, <5>3
        <5> QED BY <3>6, <5>2, <5>3
      <4>2. \A i \in 1..(n + 1) : cpu'[i].cpu <= target.cpu /\ cpu'[i].at <= thread.now
        <5> SUFFICES ASSUME NEW i \in 1..(n + 1)
                     PROVE  cpu'[i].cpu <= target.cpu /\ cpu'[i].at <= thread.now
          OBVIOUS
        <5>1. CASE i = n + 1
          BY <3>1, <3>3, <5>1
        <5>2. CASE i \in 1..n
          <6>1. cpu'[i] = cpu[i] /\ cpu[i].at \in Nat /\ cpu[i].at < thread.now /\ cpu[i].cpu <= target.cpu
            BY <3>3, <3>5, <5>2, ReadingsAre
          <6> QED BY <3>1, <6>1
        <5> QED BY <3>6, <5>1, <5>2
      <4>3. thread'.pc = "wait" /\ thread'.now = thread.now
        BY <2>2 DEF MacosInv, MacosType
      <4>4. step \notin {"settle", "start"}
        BY <2>2 DEF MacosInv, RisingInv
      <4> QED BY <2>2, <3>1, <3>3, <4>1, <4>2, <4>3, <4>4 DEF RisingInv
    <3>8. StatInv'
      <4>1. \A m : IsTotal(m) => IsTotal(m)'
        BY <2>2, <3>3 DEF IsTotal
      <4>2. \A m : AreIntervals(m) => AreIntervals(m)'
        <5> SUFFICES ASSUME NEW m, AreIntervals(m) PROVE AreIntervals(m)'
          OBVIOUS
        <5>1. m \in 1..n /\ \A i \in 1..(m - 1) : i \in 1..n /\ i + 1 \in 1..n
          BY <3>3 DEF AreIntervals
        <5>2. m \in 1..(n + 1) /\ \A i \in 1..(m - 1) : cpu'[i] = cpu[i] /\ cpu'[i + 1] = cpu[i + 1]
          BY <3>3, <5>1
        <5> QED BY <2>2, <3>3, <5>2 DEF AreIntervals
      <4>3. step = "intervals" => stat.seen \in 1..n /\ n <= stat.seen + 1 /\ n + 1 <= stat.seen + 1
        BY <2>2, <3>3 DEF MacosInv, StatInv, IsTotal
      <4>4. thread'.pc # "ps"
        BY <2>2 DEF MacosInv, MacosType
      <4> QED BY <2>2, <3>3, <4>1, <4>2, <4>3, <4>4 DEF MacosInv, StatInv
    <3> QED BY <1>0, <2>3, <3>4, <3>7, <3>8 DEF MacosInv
  <2> QED BY <2>4, <2>5
<1> QED BY <1>1, <1>2, <1>3 DEF Sampler

LEMMA MacosStep == MacosInv /\ [MacNext]_macVars => MacosInv'
<1> SUFFICES ASSUME MacosInv, [MacNext]_macVars PROVE MacosInv'
  OBVIOUS
<1>1. CASE Exit
  <2>1. cpu' = cpu /\ stat' = stat /\ step' = step /\ stopped' = stopped /\ clock' = clock
        /\ thread' = thread /\ target' = [target EXCEPT !.st = "exited"] /\ mode' = mode
        /\ termed' = termed /\ cut' = cut
    BY <1>1 DEF Exit, collecting, sampling
  <2>2. MacosType' /\ EndedInv' /\ ClockInv' /\ RisingInv'
    BY <2>1 DEF MacosInv, MacosType, EndedInv, ClockInv, RisingInv
  <2>3. StatInv'
    BY <2>1 DEF MacosInv, StatInv, IsTotal, AreIntervals
  <2> QED BY <2>2, <2>3 DEF MacosInv
<1>2. CASE Tick
  <2>1. cpu' = cpu /\ stat' = stat /\ step' = step /\ stopped' = stopped /\ clock' = clock + 1
        /\ thread' = thread /\ mode' = mode /\ termed' = termed /\ cut' = cut
    BY <1>2 DEF Tick, collecting, sampling
  <2>2. target'.st = target.st /\ target'.cpu >= target.cpu
        /\ target' \in [st : {"running", "exited", "reaped"}, cpu : Nat]
    BY <1>2 DEF Tick, MacosInv, MacosType
  <2>3. MacosType' /\ EndedInv'
    BY <2>1, <2>2 DEF MacosInv, MacosType, EndedInv
  <2>4. ClockInv'
    BY <2>1, <2>2 DEF MacosInv, MacosType, ClockInv
  <2>5. \A i \in 1..Len(cpu) : cpu[i].cpu <= target'.cpu
    <3> SUFFICES ASSUME NEW i \in 1..Len(cpu) PROVE cpu[i].cpu <= target'.cpu
      OBVIOUS
    <3>1. cpu[i].cpu \in Nat /\ cpu[i].cpu <= target.cpu
      BY ReadingsAre DEF MacosInv, RisingInv
    <3>2. target.cpu \in Nat /\ target'.cpu \in Nat
      BY <2>2 DEF MacosInv, MacosType
    <3> QED BY <2>2, <3>1, <3>2
  <2>6. RisingInv'
    BY <2>1, <2>5 DEF MacosInv, RisingInv
  <2>7. StatInv'
    BY <2>1 DEF MacosInv, StatInv, IsTotal, AreIntervals
  <2> QED BY <2>3, <2>4, <2>6, <2>7 DEF MacosInv
<1>3. CASE UNCHANGED macVars
  BY <1>3 DEF macVars, MacosInv, MacosType, EndedInv, ClockInv, RisingInv, StatInv, IsTotal, AreIntervals
<1> QED BY <1>1, <1>2, <1>3, CollectStep, SamplerStep DEF MacNext

LEMMA MacosInvariant == MacSpec => []MacosInv
  BY MacosStart, MacosStep, PTL DEF MacSpec

\* The backend's variables keep their types; its clock and its list of readings too.
THEOREM MacosTypeCorrect == MacSpec => []MacosType
<1>1. MacosInv => MacosType
  BY DEF MacosInv
<1> QED BY <1>1, MacosInvariant, PTL

\* However the windows of `sample`, an interrupt and the target's own end fall.
THEOREM TargetAlwaysEnded == MacSpec => []TargetIsEnded
<1>1. MacosInv => TargetIsEnded
  BY DEF MacosInv, EndedInv, TargetIsEnded
<1> QED BY <1>1, MacosInvariant, PTL

\* The readings rise, so no interval is left out and they add up to the rise between
\* the first and the last; stop() gives up on the thread, and one reading may be in
\* the intervals that is not in the total.
THEOREM CpuTimeAddsUp == MacSpec => []CpuAddsUp
<1>1. ASSUME MacosInv PROVE CpuAddsUp
  <2> SUFFICES ASSUME step = "done", stat.total # Nothing
               PROVE  /\ stat.seen <= stat.drawn /\ stat.drawn <= stat.seen + 1
                      /\ stat.total = cpu[stat.seen].cpu - cpu[1].cpu
                      /\ SumFunction([i \in DOMAIN stat.intervals |-> stat.intervals[i].ms])
                           = cpu[stat.drawn].cpu - cpu[1].cpu
    BY DEF CpuAddsUp
  <2>1. /\ IsTotal(stat.seen) /\ stat.seen <= stat.drawn /\ stat.drawn <= stat.seen + 1
        /\ AreIntervals(stat.drawn)
    BY <1>1 DEF MacosInv, StatInv
  <2> DEFINE n == stat.drawn - 1
             F == [i \in DOMAIN stat.intervals |-> stat.intervals[i].ms]
             c == [i \in 1..Len(cpu) |-> cpu[i].cpu]
  <2>2. cpu \in Seq(Readings) /\ Len(cpu) \in Nat /\ n \in Nat /\ n + 1 = stat.drawn
        /\ stat.drawn \in 1..Len(cpu)
    BY <1>1, <2>1 DEF MacosInv, MacosType, AreIntervals
  <2>3. DOMAIN F = 1..n /\ \A i \in 1..n : F[i] = cpu[i + 1].cpu - cpu[i].cpu
    BY <2>1 DEF AreIntervals
  <2>4. \A i \in 1..Len(cpu) : c[i] = cpu[i].cpu /\ c[i] \in Int
    BY <1>1, ReadingsAre
  <2>5. \A i \in 1..(n + 1) : i \in 1..Len(cpu)
    BY <2>2
  <2>6. \A i \in 1..n : i \in 1..Len(cpu) /\ i + 1 \in 1..Len(cpu)
    BY <2>2
  <2> HIDE DEF n, c, F
  <2>7. n \in Nat
    BY <2>2
  <2>8. \A i \in 1..(n + 1) : c[i] \in Int
    BY <2>4, <2>5
  <2>9. \A i \in 1..n : F[i] = c[i + 1] - c[i]
    BY <2>3, <2>4, <2>6
  <2>10. SumFunctionOnSet(F, 1..n) = c[n + 1] - c[1]
    BY <2>7, <2>8, <2>9, SumRises
  <2>11. SumFunction(F) = SumFunctionOnSet(F, 1..n)
    BY <2>3 DEF SumFunction, FoldFunction, SumFunctionOnSet
  <2>12. c[n + 1] = cpu[stat.drawn].cpu /\ c[1] = cpu[1].cpu
    <3>1. 1 \in 1..Len(cpu) /\ n + 1 \in 1..Len(cpu)
      BY <2>2
    <3> QED BY <2>2, <2>4, <3>1
  <2> QED BY <2>1, <2>10, <2>11, <2>12 DEF IsTotal, F
<1> QED BY <1>1, MacosInvariant, PTL

-----------------------------------------------------------------------------
(* The script of the macOS backend.  First lists of rising numbers; then   *)
(* the call graph: the parser keeps a stack and the lines that call, where *)
(* IsOf looks at the indentation of the lines around.                      *)

\* s lists the numbers of S, as they rise.
Lists(s, S) ==
  /\ s \in Seq(Nat) /\ \A a \in 1..Len(s) : s[a] \in S
  /\ \A a, b \in 1..Len(s) : a < b => s[a] < s[b]
  /\ \A x \in S : \E a \in 1..Len(s) : s[a] = x

LEMMA ListNone == Lists(<<>>, {})
  BY DEF Lists

LEMMA ListMore ==
  ASSUME NEW S \in SUBSET Nat, NEW s, Lists(s, S), NEW x \in Nat, \A y \in S : y < x
  PROVE  Lists(Append(s, x), S \cup {x})
<1> DEFINE t == Append(s, x)
           n == Len(s)
<1>1. s \in Seq(Nat) /\ n \in Nat /\ \A a \in 1..n : s[a] \in S
  BY DEF Lists
<1>2. t \in Seq(Nat) /\ Len(t) = n + 1 /\ t[n + 1] = x /\ \A a \in 1..n : t[a] = s[a]
  BY <1>1
<1> HIDE DEF t, n
<1>3. \A a \in 1..Len(t) : a \in 1..n \/ a = n + 1
  BY <1>1, <1>2
<1>4. \A a \in 1..Len(t) : t[a] \in S \cup {x}
  BY <1>1, <1>2, <1>3
<1>5. ASSUME NEW a \in 1..Len(t), NEW b \in 1..Len(t), a < b PROVE t[a] < t[b]
  <2>1. a \in 1..n
    BY <1>1, <1>2, <1>5
  <2>2. CASE b = n + 1
    BY <1>1, <1>2, <2>1, <2>2
  <2>3. CASE b \in 1..n
    BY <1>2, <1>5, <2>1, <2>3 DEF Lists, n
  <2> QED BY <1>3, <2>2, <2>3
<1>6. ASSUME NEW y \in S \cup {x} PROVE \E a \in 1..Len(t) : t[a] = y
  <2>1. n + 1 \in 1..Len(t) /\ \A a \in 1..n : a \in 1..Len(t)
    BY <1>1, <1>2
  <2>2. CASE y = x
    BY <1>2, <2>1, <2>2
  <2>3. CASE y \in S
    BY <1>2, <2>1, <2>3 DEF Lists, n
  <2> QED BY <2>2, <2>3
<1> QED BY <1>2, <1>4, <1>5, <1>6 DEF Lists, t

\* T is of the places from lo to hi.
OfPlaces(s, T, lo, hi) == \A a \in 1..Len(s) : s[a] \in T <=> (lo <= a /\ a <= hi)

LEMMA ListPart ==
  ASSUME NEW S \in SUBSET Nat, NEW s, Lists(s, S), NEW hi \in 0..Len(s), NEW lo \in 1..(hi + 1),
         NEW T \in SUBSET S, OfPlaces(s, T, lo, hi)
  PROVE  IsFiniteSet(T) /\ Cardinality(T) = hi - lo + 1
<1> DEFINE n == Len(s)
           f == [a \in lo..hi |-> s[a]]
<1>1. n \in Nat /\ \A a \in 1..n : s[a] \in S /\ s[a] \in Nat
  BY DEF Lists
<1>2. lo \in 1..(hi + 1) /\ hi \in 0..n /\ \A a \in 1..n : s[a] \in T <=> (lo <= a /\ a <= hi)
  BY DEF OfPlaces
<1>3. (\A a, b \in 1..n : a < b => s[a] < s[b]) /\ \A x \in S : \E a \in 1..n : s[a] = x
  BY DEF Lists
<1> HIDE DEF n
<1>4. \A a \in lo..hi : a \in 1..n /\ f[a] = s[a] /\ s[a] \in T
  BY <1>1, <1>2
<1>5. f \in [lo..hi -> T] /\ \A a \in lo..hi : f[a] = s[a]
  BY <1>4
<1> HIDE DEF f
<1>6. ASSUME NEW a \in lo..hi, NEW b \in lo..hi, f[a] = f[b] PROVE a = b
  <2>1. a \in 1..n /\ b \in 1..n /\ s[a] = s[b] /\ s[a] \in Nat /\ s[b] \in Nat
    BY <1>1, <1>4, <1>5, <1>6
  <2>2. ~(a < b) /\ ~(b < a)
    BY <1>3, <2>1
  <2> QED BY <1>1, <2>1, <2>2
<1>7. ASSUME NEW x \in T PROVE \E a \in lo..hi : f[a] = x
  <2>1. PICK a \in 1..n : s[a] = x
    BY <1>3
  <2>2. a \in lo..hi
    BY <1>1, <1>2, <2>1
  <2> QED BY <1>5, <2>1, <2>2
<1>8. ExistsBijection(lo..hi, T)
  <2>1. f \in Bijection(lo..hi, T)
    BY <1>5, <1>6, <1>7 DEF Bijection, Injection, Surjection, IsInjective
  <2> QED BY <2>1 DEF ExistsBijection
<1>9. lo \in Int /\ hi \in Int
  BY <1>1, <1>2
<1>10. IsFiniteSet(lo..hi) /\ Cardinality(lo..hi) = IF lo > hi THEN 0 ELSE hi - lo + 1
  BY <1>9, FS_Interval
<1>11. IsFiniteSet(T) /\ Cardinality(T) = Cardinality(lo..hi)
  BY <1>8, <1>10, FS_Bijection
<1> QED BY <1>1, <1>2, <1>9, <1>10, <1>11

LEMMA ListWhole ==
  ASSUME NEW S \in SUBSET Nat, NEW s, Lists(s, S)
  PROVE  IsFiniteSet(S) /\ Cardinality(S) = Len(s)
<1> DEFINE n == Len(s)
<1>1. n \in Nat /\ \A a \in 1..n : s[a] \in S
  BY DEF Lists
<1> HIDE DEF n
<1>2. 1 \in 1..(n + 1) /\ n \in 0..n /\ S \in SUBSET S
  BY <1>1
<1>3. OfPlaces(s, S, 1, n)
  BY <1>1 DEF OfPlaces, n
<1>4. IsFiniteSet(S) /\ Cardinality(S) = n - 1 + 1
  BY <1>2, <1>3, ListPart DEF n
<1> QED BY <1>1, <1>4 DEF n

LEMMA ListOrder ==
  ASSUME NEW S \in SUBSET Nat, NEW s, Lists(s, S), NEW a \in 1..Len(s), NEW b \in 1..Len(s)
  PROVE  s[a] <= s[b] <=> a <= b
<1>1. Len(s) \in Nat /\ s[a] \in Nat /\ s[b] \in Nat
  BY DEF Lists
<1>2. (b < a => s[b] < s[a]) /\ (a < b => s[a] < s[b])
  BY DEF Lists
<1>3. a \in Int /\ b \in Int /\ (a = b => s[a] = s[b])
  BY <1>1
<1> QED BY ONLY <1>1, <1>2, <1>3

\* The place of a number in a list is how many are no greater, and from the end how
\* many are no smaller.
LEMMA ListPlace ==
  ASSUME NEW S \in SUBSET Nat, NEW s, Lists(s, S), NEW a \in 1..Len(s), NEW T \in SUBSET S,
         \A l \in S : l \in T <=> l <= s[a]
  PROVE  Cardinality(T) = a
<1> DEFINE n == Len(s)
<1>1. n \in Nat /\ \A b \in 1..n : s[b] \in S
  BY DEF Lists
<1>2. \A b \in 1..n : s[b] <= s[a] <=> b <= a
  BY ListOrder
<1> HIDE DEF n
<1>3. 1 \in 1..(a + 1) /\ a \in 0..n /\ a \in 1..n
  BY <1>1 DEF n
<1>4. OfPlaces(s, T, 1, a)
  <2>1. ASSUME NEW b \in 1..n PROVE s[b] \in T <=> (1 <= b /\ b <= a)
    <3>1. s[b] \in T <=> s[b] <= s[a]
      BY <1>1
    <3>2. s[b] <= s[a] <=> b <= a
      BY <1>2
    <3>3. 1 <= b
      BY <1>1
    <3> QED BY ONLY <3>1, <3>2, <3>3
  <2> QED BY <2>1 DEF OfPlaces, n
<1>5. Cardinality(T) = a - 1 + 1
  BY <1>3, <1>4, ListPart DEF n
<1> QED BY <1>1, <1>3, <1>5

LEMMA ListPlaceBack ==
  ASSUME NEW S \in SUBSET Nat, NEW s, Lists(s, S), NEW a \in 1..Len(s), NEW T \in SUBSET S,
         \A l \in S : l \in T <=> l >= s[a]
  PROVE  Cardinality(T) = Len(s) - a + 1
<1> DEFINE n == Len(s)
<1>1. n \in Nat /\ \A b \in 1..n : s[b] \in S /\ s[b] \in Nat
  BY DEF Lists
<1>2. \A b \in 1..n : s[a] <= s[b] <=> a <= b
  BY ListOrder
<1> HIDE DEF n
<1>3. a \in 1..(n + 1) /\ n \in 0..n /\ a \in 1..n
  BY <1>1 DEF n
<1>4. OfPlaces(s, T, a, n)
  <2>1. ASSUME NEW b \in 1..n PROVE s[b] \in T <=> (a <= b /\ b <= n)
    <3>1. s[b] >= s[a] <=> a <= b
      BY <1>1, <1>2, <1>3
    <3> QED BY <1>1, <3>1
  <2> QED BY <2>1 DEF OfPlaces, n
<1>5. Cardinality(T) = n - a + 1
  BY <1>3, <1>4, ListPart DEF n
<1> QED BY <1>5 DEF n

\* The first of them are a list.
LEMMA ListFirst ==
  ASSUME NEW S \in SUBSET Nat, NEW s, Lists(s, S), NEW m \in 0..Len(s), NEW T \in SUBSET S,
         \A a \in 1..Len(s) : s[a] \in T <=> a <= m
  PROVE  Lists(SubSeq(s, 1, m), T)
<1> DEFINE t == SubSeq(s, 1, m)
           n == Len(s)
<1>1. s \in Seq(Nat) /\ n \in Nat /\ m \in Nat /\ m <= n
  BY DEF Lists
<1>2. t \in Seq(Nat) /\ Len(t) = m /\ \A a \in 1..m : t[a] = s[a] /\ a \in 1..n
  BY <1>1
<1> HIDE DEF t, n
<1>3. \A a \in 1..m : t[a] \in T
  BY <1>1, <1>2 DEF n
<1>4. \A a, b \in 1..m : a < b => t[a] < t[b]
  BY <1>2 DEF Lists, n
<1>5. ASSUME NEW x \in T PROVE \E a \in 1..m : t[a] = x
  <2>1. PICK a \in 1..n : s[a] = x
    BY DEF Lists, n
  <2>2. a \in 1..m
    BY <1>1, <2>1 DEF n
  <2> QED BY <1>2, <2>1, <2>2
<1> QED BY <1>2, <1>3, <1>4, <1>5 DEF Lists, t

\* A list is a sequence of all of them.
LEMMA ListRange == ASSUME NEW S, NEW s, Lists(s, S) PROVE Range(s) = S
<1>1. s \in Seq(Nat) /\ DOMAIN s = 1..Len(s)
  BY DEF Lists
<1>2. Range(s) = {s[a] : a \in 1..Len(s)}
  BY <1>1 DEF Range
<1> QED BY <1>2 DEF Lists

-----------------------------------------------------------------------------
\* What MacosConstants says of the dumps.
IsDump(d) == d \in Seq(Range(d)) /\ \A i \in 1..Len(d) : d[i].indent \in Nat

LEMMA DumpsAreDumps == \A d \in Dumps : IsDump(d)
<1>1. \A d \in Dumps : d \in Seq(Range(d)) /\ DOMAIN d = 1..Len(d)
  BY MacosConstants
<1> QED BY <1>1, MacosConstants DEF IsDump

\* The thread a line is of is the last before it.
LEMMA ThreadOfIs ==
  ASSUME NEW d, NEW j \in Nat
  PROVE  /\ ThreadOf(d, j) \in Nat /\ ThreadOf(d, j) <= j
         /\ ThreadOf(d, j) # 0 => IsThread(d[ThreadOf(d, j)])
         /\ \A t \in 1..j : IsThread(d[t]) => t <= ThreadOf(d, j)
<1> DEFINE T == {t \in 1..j : IsThread(d[t])} \cup {0}
<1>1. T \in SUBSET Nat /\ 0 \in T /\ \A t \in T : t <= j
  OBVIOUS
<1>2. \A t : t \in T <=> (t \in 1..j /\ IsThread(d[t])) \/ t = 0
  OBVIOUS
<1> HIDE DEF T
<1>3. Max(T) \in T /\ \A t \in T : t <= Max(T)
  BY <1>1, GreatestNumber
<1>4. ThreadOf(d, j) = Max(T)
  BY DEF ThreadOf, T
<1> QED BY <1>1, <1>2, <1>3, <1>4

LEMMA ThreadOfStep ==
  ASSUME NEW d, NEW j \in Nat
  PROVE  /\ ThreadOf(d, 0) = 0
         /\ IsThread(d[j + 1]) => ThreadOf(d, j + 1) = j + 1
         /\ ~IsThread(d[j + 1]) => ThreadOf(d, j + 1) = ThreadOf(d, j)
<1>1. ThreadOf(d, 0) = 0
  BY ThreadOfIs
<1>2. ASSUME IsThread(d[j + 1]) PROVE ThreadOf(d, j + 1) = j + 1
  <2>1. j + 1 \in Nat /\ j + 1 \in 1..(j + 1)
    OBVIOUS
  <2>2. j + 1 <= ThreadOf(d, j + 1) /\ ThreadOf(d, j + 1) <= j + 1 /\ ThreadOf(d, j + 1) \in Nat
    BY <1>2, <2>1, ThreadOfIs
  <2> QED BY <2>1, <2>2
<1>3. ASSUME ~IsThread(d[j + 1]) PROVE ThreadOf(d, j + 1) = ThreadOf(d, j)
  <2>1. \A t \in 1..(j + 1) : t \in 1..j \/ t = j + 1
    OBVIOUS
  <2>2. 1..j \subseteq 1..(j + 1)
    OBVIOUS
  <2>3. {t \in 1..(j + 1) : IsThread(d[t])} = {t \in 1..j : IsThread(d[t])}
    BY <1>3, <2>1, <2>2
  <2> QED BY <2>3 DEF ThreadOf
<1> QED BY <1>1, <1>2, <1>3

\* The lines up to m that would call a line after them more indented than they are.
Open(d, m) ==
  {k \in 1..m : 0 < d[k].indent /\ \A l \in (k + 1)..m : d[k].indent < d[l].indent}

\* Those that call line i.
Above(d, i) == {k \in Open(d, i - 1) : d[k].indent < d[i].indent}

\* The open lines are what a stack should hold: a frame closes those that do not call it.
LEMMA OpenStep ==
  ASSUME NEW d, IsDump(d), NEW i \in 1..Len(d)
  PROVE  /\ IsThread(d[i]) => Open(d, i) = {}
         /\ ~IsThread(d[i]) => Open(d, i) = Above(d, i) \cup {i}
         /\ \A k \in 1..Len(d) : Calls(d, k, i) <=> k \in Above(d, i)
         /\ Above(d, i) \in SUBSET (1..(i - 1))
<1>1. i \in Nat /\ i >= 1 /\ i <= Len(d) /\ Len(d) \in Nat /\ d[i].indent \in Nat
  BY DEF IsDump
<1>2. \A k \in 1..i : k \in 1..(i - 1) \/ k = i
  BY <1>1
<1>3. \A k \in 1..(i - 1) : /\ k \in 1..i /\ k # i /\ k \in 1..Len(d)
                            /\ \A l : l \in (k + 1)..i <=> l \in (k + 1)..(i - 1) \/ l = i
  BY <1>1
<1>4. ~(\E l : l \in (i + 1)..i)
  BY <1>1
<1>5. ASSUME IsThread(d[i]) PROVE Open(d, i) = {}
  <2> SUFFICES ASSUME NEW k \in Open(d, i) PROVE FALSE
    OBVIOUS
  <2>1. k \in 1..i /\ 0 < d[k].indent /\ \A l \in (k + 1)..i : d[k].indent < d[l].indent
    BY DEF Open
  <2>2. d[i].indent = 0
    BY <1>5 DEF IsThread
  <2>3. k \in 1..(i - 1)
    BY <1>2, <2>1, <2>2
  <2>4. d[k].indent < d[i].indent /\ d[k].indent \in Nat
    BY <1>3, <2>1, <2>3 DEF IsDump
  <2> QED BY <2>2, <2>4
<1>6. \A k : k \in Above(d, i) <=> /\ k \in 1..(i - 1) /\ 0 < d[k].indent
                                   /\ \A l \in (k + 1)..i : d[k].indent < d[l].indent
  BY <1>3 DEF Above, Open
<1>7. ASSUME ~IsThread(d[i]) PROVE Open(d, i) = Above(d, i) \cup {i}
  <2>1. 0 < d[i].indent /\ i \in 1..i
    BY <1>1, <1>7 DEF IsThread
  <2>2. \A k : k \in Open(d, i) <=> k \in 1..i /\ 0 < d[k].indent /\ \A l \in (k + 1)..i : d[k].indent < d[l].indent
    BY DEF Open
  <2>3. \A k : k \in Open(d, i) <=> k \in Above(d, i) \/ k = i
    BY <1>2, <1>3, <1>4, <1>6, <2>1, <2>2
  <2> QED BY <2>3
<1>8. ASSUME NEW k \in 1..Len(d) PROVE Calls(d, k, i) <=> k \in Above(d, i)
  <2>1. k < i <=> k \in 1..(i - 1)
    BY <1>1
  <2> QED BY <1>6, <2>1 DEF Calls
<1>9. Above(d, i) \in SUBSET (1..(i - 1))
  BY <1>6
<1> QED BY <1>5, <1>7, <1>8, <1>9

\* What a frame leaves of the stack.
Up(d, stack, i) ==
  SubSeq(stack, 1, Max({k \in DOMAIN stack : d[stack[k]].indent < d[i].indent} \cup {0}))

LEMMA UpIs ==
  ASSUME NEW d, IsDump(d), NEW i \in 1..Len(d), NEW stack, Lists(stack, Open(d, i - 1))
  PROVE  Lists(Up(d, stack, i), Above(d, i))
<1> DEFINE n == Len(stack)
           S == Open(d, i - 1)
           over == {k \in DOMAIN stack : d[stack[k]].indent < d[i].indent} \cup {0}
           m == Max(over)
<1>1. /\ stack \in Seq(Nat) /\ DOMAIN stack = 1..n /\ n \in Nat /\ i \in Nat /\ d[i].indent \in Nat
      /\ Len(d) \in Nat /\ i <= Len(d)
  BY DEF Lists, IsDump
<1>2. \A a \in 1..n : stack[a] \in S
  BY DEF Lists
<1>3. \A k \in S : /\ k \in 1..(i - 1) /\ k \in 1..Len(d) /\ d[k].indent \in Nat
                   /\ \A l \in (k + 1)..(i - 1) : d[k].indent < d[l].indent
  BY <1>1 DEF Open, IsDump
<1>3a. \A k \in S : d[k].indent \in Nat
  BY <1>3
<1>4. ASSUME NEW a \in 1..n, NEW b \in 1..n, a < b PROVE d[stack[a]].indent < d[stack[b]].indent
  <2>1. stack[a] < stack[b] /\ stack[a] \in S /\ stack[b] \in S
    BY <1>2, <1>4 DEF Lists
  <2>2. stack[b] \in (stack[a] + 1)..(i - 1)
    BY <1>1, <1>3, <2>1
  <2> QED BY <1>3, <2>1, <2>2
<1>5. over \in SUBSET Nat /\ 0 \in over /\ \A k \in over : k <= n
  BY <1>1
<1>6. \A a \in 1..n : a \in over <=> d[stack[a]].indent < d[i].indent
  BY <1>1
<1>7. \A a \in over : a \in 1..n \/ a = 0
  BY <1>1
<1> HIDE DEF over, n
<1>8. m \in over /\ \A k \in over : k <= m
  BY <1>1, <1>5, GreatestNumber
<1> HIDE DEF m
<1>9. m \in 0..n
  BY <1>1, <1>5, <1>7, <1>8
<1>10. ASSUME NEW a \in 1..n PROVE stack[a] \in Above(d, i) <=> a <= m
  <2>1. stack[a] \in Above(d, i) <=> a \in over
    BY <1>2, <1>6 DEF Above
  <2>2. ASSUME a < m PROVE a \in over
    <3>1. m \in 1..n
      BY <1>1, <1>9, <2>2
    <3>2. d[stack[a]].indent < d[stack[m]].indent /\ d[stack[m]].indent < d[i].indent
      BY <1>4, <1>6, <1>8, <2>2, <3>1
    <3>3. d[stack[a]].indent \in Nat /\ d[stack[m]].indent \in Nat
      <4>1. stack[a] \in S /\ stack[m] \in S
        BY <1>2, <3>1
      <4> HIDE DEF S
      <4> QED BY <1>3a, <4>1
    <3>4. d[stack[a]].indent < d[i].indent
      <4>1. \A x, y, z \in Nat : x < y /\ y < z => x < z
        OBVIOUS
      <4> QED BY <1>1, <3>2, <3>3, <4>1
    <3> QED BY <1>6, <3>4
  <2>3. a \in over <=> a <= m
    BY <1>1, <1>8, <1>9, <2>2
  <2> QED BY <2>1, <2>3
<1>11. S \in SUBSET Nat /\ Above(d, i) \in SUBSET S /\ Lists(stack, S)
  BY <1>3 DEF Above
<1>12. Lists(SubSeq(stack, 1, m), Above(d, i))
  <2> HIDE DEF S
  <2> QED BY <1>9, <1>10, <1>11, ListFirst DEF n
<1>13. Up(d, stack, i) = SubSeq(stack, 1, m)
  BY DEF Up, m, over
<1> QED BY <1>12, <1>13

Graph == INSTANCE FoldTheorems WITH Op <- LAMBDA dump, g, i : GraphLine(dump, g, i)

NodeSet == [root : Nat, path : Seq(Nat)]

\* The lines of a thread, of the first m, and those of the first m that call one.
Framed(d, m)    == {j \in 1..m : ~IsThread(d[j]) /\ ThreadOf(d, j) # 0}
CallersOf(d, m) == {x \in 1..m : \E j \in Framed(d, m) : Calls(d, x, j)}

\* Node n is of line j: its thread, and what leads there.
IsNode(d, n, j) ==
  /\ n \in NodeSet /\ n.root = ThreadOf(d, j) /\ Lists(n.path, Open(d, j))
  /\ Len(n.path) > 0 /\ Last(n.path) = j

\* ... and q those of the lines J, in order.
AreNodes(d, q, J) ==
  /\ q \in Seq(NodeSet)
  /\ \E s : Lists(s, J) /\ Len(s) = Len(q) /\ \A k \in 1..Len(q) : IsNode(d, q[k], s[k])

\* After m lines: the stack is what is open, the calls are those among them.
IsGraph(d, m, g) ==
  /\ g = [root |-> g.root, stack |-> g.stack, calls |-> g.calls, nodes |-> g.nodes]
  /\ g.root = ThreadOf(d, m) /\ (g.root # 0 => Lists(g.stack, Open(d, m)))
  /\ g.calls = CallersOf(d, m) /\ AreNodes(d, g.nodes, Framed(d, m))

LEMMA NodesMore ==
  ASSUME NEW d, NEW J \in SUBSET Nat, NEW q, AreNodes(d, q, J), NEW i \in Nat, \A j \in J : j < i,
         NEW n, IsNode(d, n, i)
  PROVE  AreNodes(d, Append(q, n), J \cup {i})
<1> DEFINE r == Append(q, n)
<1>1. PICK s : Lists(s, J) /\ Len(s) = Len(q) /\ \A k \in 1..Len(q) : IsNode(d, q[k], s[k])
  BY DEF AreNodes
<1> DEFINE t == Append(s, i)
<1>2. q \in Seq(NodeSet) /\ n \in NodeSet /\ s \in Seq(Nat)
  BY <1>1 DEF AreNodes, IsNode, Lists
<1>3. /\ r \in Seq(NodeSet) /\ Len(r) = Len(q) + 1 /\ r[Len(q) + 1] = n /\ Len(q) \in Nat
      /\ \A k \in 1..Len(q) : r[k] = q[k]
  BY <1>2
<1>4. Len(t) = Len(q) + 1 /\ t[Len(q) + 1] = i /\ \A k \in 1..Len(q) : t[k] = s[k]
  BY <1>1, <1>2
<1>5. Lists(t, J \cup {i})
  BY <1>1, ListMore
<1> HIDE DEF r, t
<1>6. ASSUME NEW k \in 1..Len(r) PROVE IsNode(d, r[k], t[k])
  <2>1. k \in 1..Len(q) \/ k = Len(q) + 1
    BY <1>3
  <2> QED BY <1>1, <1>3, <1>4, <2>1
<1>7. Len(t) = Len(r)
  BY <1>3, <1>4
<1>8. AreNodes(d, r, J \cup {i})
  BY <1>3, <1>5, <1>6, <1>7 DEF AreNodes
<1> QED BY <1>8 DEF r

LEMMA FramedStep ==
  ASSUME NEW d, IsDump(d), NEW i \in 1..Len(d)
  PROVE  /\ IsThread(d[i]) \/ ThreadOf(d, i) = 0
              => Framed(d, i) = Framed(d, i - 1) /\ CallersOf(d, i) = CallersOf(d, i - 1)
         /\ ~IsThread(d[i]) /\ ThreadOf(d, i) # 0
              => /\ Framed(d, i) = Framed(d, i - 1) \cup {i}
                 /\ CallersOf(d, i) = CallersOf(d, i - 1) \cup Above(d, i)
         /\ Framed(d, i - 1) \in SUBSET Nat /\ \A j \in Framed(d, i - 1) : j < i
<1>1. i \in Nat /\ i >= 1 /\ Len(d) \in Nat /\ i <= Len(d)
  BY DEF IsDump
<1>2. (\A k \in 1..i : k \in 1..(i - 1) \/ k = i) /\ (\A k \in 1..(i - 1) : k \in 1..i /\ k < i) /\ i \in 1..i
  BY <1>1
<1>3. \A j : j \in Framed(d, i) <=> j \in Framed(d, i - 1) \/ (j = i /\ ~IsThread(d[i]) /\ ThreadOf(d, i) # 0)
  BY <1>2 DEF Framed
<1>4. \A x, j : Calls(d, x, j) => x < j
  BY DEF Calls
<1>5. \A x \in 1..i : ~Calls(d, i, x)
  <2> SUFFICES ASSUME NEW x \in 1..i, Calls(d, i, x) PROVE FALSE
    OBVIOUS
  <2>1. i < x /\ x \in Nat /\ x <= i
    BY <1>1, <1>4
  <2> QED BY <1>1, <2>1
<1>6. \A x \in 1..(i - 1) : Calls(d, x, i) <=> x \in Above(d, i)
  <2>1. \A x \in 1..(i - 1) : x \in 1..Len(d)
    BY <1>1
  <2> QED BY <2>1, OpenStep
<1>7. Above(d, i) \in SUBSET (1..(i - 1))
  BY OpenStep
<1>8. \A j \in Framed(d, i - 1) : j \in 1..(i - 1)
  BY DEF Framed
<1>9. \A j \in Framed(d, i) : j \in 1..i
  BY DEF Framed
<1>10. \A x : x \in CallersOf(d, i) <=> x \in 1..(i - 1) /\ \E j \in Framed(d, i) : Calls(d, x, j)
  BY <1>2, <1>5, <1>9 DEF CallersOf
<1>11. \A x : x \in CallersOf(d, i - 1) <=> x \in 1..(i - 1) /\ \E j \in Framed(d, i - 1) : Calls(d, x, j)
  BY DEF CallersOf
<1>12. ASSUME IsThread(d[i]) \/ ThreadOf(d, i) = 0
       PROVE  Framed(d, i) = Framed(d, i - 1) /\ CallersOf(d, i) = CallersOf(d, i - 1)
  <2>1. Framed(d, i) = Framed(d, i - 1)
    BY <1>3, <1>12
  <2> QED BY <1>10, <1>11, <2>1
<1>13. ASSUME ~IsThread(d[i]), ThreadOf(d, i) # 0
       PROVE  /\ Framed(d, i) = Framed(d, i - 1) \cup {i}
              /\ CallersOf(d, i) = CallersOf(d, i - 1) \cup Above(d, i)
  <2>1. \A j : j \in Framed(d, i) <=> j \in Framed(d, i - 1) \/ j = i
    BY <1>3, <1>13
  <2>2. \A x : x \in CallersOf(d, i) <=> x \in CallersOf(d, i - 1) \/ x \in Above(d, i)
    BY <1>6, <1>7, <1>10, <1>11, <2>1
  <2> QED BY <2>1, <2>2
<1>14. Framed(d, i - 1) \in SUBSET Nat /\ \A j \in Framed(d, i - 1) : j < i
  BY <1>2, <1>8
<1> QED BY <1>12, <1>13, <1>14

\* One line more.
LEMMA GraphStep ==
  ASSUME NEW d, IsDump(d), NEW i \in 1..Len(d), NEW g, IsGraph(d, i - 1, g)
  PROVE  IsGraph(d, i, GraphLine(d, g, i))
<1> DEFINE h == GraphLine(d, g, i)
<1>1. i \in Nat /\ i >= 1 /\ i - 1 \in Nat /\ (i - 1) + 1 = i
  BY DEF IsDump
<1>2. /\ g = [root |-> g.root, stack |-> g.stack, calls |-> g.calls, nodes |-> g.nodes]
      /\ g.root = ThreadOf(d, i - 1) /\ (g.root # 0 => Lists(g.stack, Open(d, i - 1)))
      /\ g.calls = CallersOf(d, i - 1) /\ AreNodes(d, g.nodes, Framed(d, i - 1))
  BY DEF IsGraph
<1>3. /\ IsThread(d[i]) => ThreadOf(d, i) = i
      /\ ~IsThread(d[i]) => ThreadOf(d, i) = ThreadOf(d, i - 1)
  BY <1>1, ThreadOfStep
<1>4. CASE IsThread(d[i])
  <2>1. h = [root |-> i, stack |-> <<>>, calls |-> g.calls, nodes |-> g.nodes]
    BY <1>2, <1>4 DEF GraphLine
  <2>2. Framed(d, i) = Framed(d, i - 1) /\ CallersOf(d, i) = CallersOf(d, i - 1)
    BY <1>4, FramedStep
  <2>3. Open(d, i) = {}
    BY <1>4, OpenStep
  <2>4. Lists(<<>>, Open(d, i))
    BY <2>3, ListNone
  <2> HIDE DEF h
  <2> QED BY <1>2, <1>3, <1>4, <2>1, <2>2, <2>4 DEF IsGraph, h
<1>5. CASE ~IsThread(d[i]) /\ g.root = 0
  <2>1. h = g
    BY <1>5 DEF GraphLine
  <2>2. ThreadOf(d, i) = 0
    BY <1>2, <1>3, <1>5
  <2>3. Framed(d, i) = Framed(d, i - 1) /\ CallersOf(d, i) = CallersOf(d, i - 1)
    BY <2>2, FramedStep
  <2> HIDE DEF h
  <2> QED BY <1>2, <1>5, <2>1, <2>2, <2>3 DEF IsGraph, h
<1>6. CASE ~IsThread(d[i]) /\ g.root # 0
  <2> DEFINE up == Up(d, g.stack, i)
             p  == Append(up, i)
             n  == [root |-> g.root, path |-> p]
  <2>1. Lists(up, Above(d, i))
    BY <1>2, <1>6, UpIs
  <2>2. Range(up) = Above(d, i)
    BY <2>1, ListRange
  <2>3. h = [root |-> g.root, stack |-> p, calls |-> g.calls \cup Range(up), nodes |-> Append(g.nodes, n)]
    BY <1>6 DEF GraphLine, Up
  <2>4. ThreadOf(d, i) = g.root /\ ThreadOf(d, i) # 0 /\ ThreadOf(d, i) \in Nat
    BY <1>1, <1>2, <1>3, <1>6, ThreadOfIs
  <2>5. /\ Framed(d, i) = Framed(d, i - 1) \cup {i} /\ CallersOf(d, i) = CallersOf(d, i - 1) \cup Above(d, i)
        /\ Framed(d, i - 1) \in SUBSET Nat /\ \A j \in Framed(d, i - 1) : j < i
    BY <1>6, <2>4, FramedStep
  <2>6. Open(d, i) = Above(d, i) \cup {i} /\ Above(d, i) \in SUBSET (1..(i - 1))
    BY <1>6, OpenStep
  <2>7. up \in Seq(Nat)
    BY <2>1 DEF Lists
  <2> HIDE DEF up
  <2>8. Lists(p, Open(d, i))
    <3>1. Above(d, i) \in SUBSET Nat /\ \A y \in Above(d, i) : y < i
      BY <1>1, <2>6
    <3> QED BY <1>1, <2>1, <2>6, <3>1, ListMore
  <2>9. p \in Seq(Nat) /\ Len(p) = Len(up) + 1 /\ Len(up) \in Nat /\ p[Len(p)] = i
    BY <1>1, <2>7
  <2> HIDE DEF p
  <2>10. IsNode(d, n, i)
    <3>1. n \in NodeSet /\ n.root = ThreadOf(d, i) /\ n.path = p
      BY <2>4, <2>9 DEF NodeSet
    <3>2. Len(p) > 0 /\ Last(p) = i
      BY <2>9 DEF Last
    <3> HIDE DEF n
    <3> QED BY <2>8, <3>1, <3>2 DEF IsNode
  <2> HIDE DEF n
  <2>11. AreNodes(d, Append(g.nodes, n), Framed(d, i))
    <3>1. AreNodes(d, Append(g.nodes, n), Framed(d, i - 1) \cup {i})
      BY <1>1, <1>2, <2>5, <2>10, NodesMore
    <3> QED BY <2>5, <3>1
  <2> HIDE DEF h
  <2> QED BY <1>2, <2>2, <2>3, <2>4, <2>5, <2>8, <2>11 DEF IsGraph, h
<1> QED BY <1>4, <1>5, <1>6

LEMMA CallGraphIs == ASSUME NEW d, IsDump(d) PROVE IsGraph(d, Len(d), CallGraph(d))
<1> DEFINE n == Len(d)
           q == [i \in DOMAIN d |-> i]
<1>1. n \in Nat /\ DOMAIN d = 1..n /\ DOMAIN q = 1..n /\ \A i \in 1..n : q[i] = i
  BY DEF IsDump
<1>2. CallGraph(d) = Graph!Left(d, NoGraph, q)
  BY DEF CallGraph, Graph!Left, FoldLeft, Graph!FoldLeft, MapThenFoldSet, Graph!MapThenFoldSet, Max, Graph!Max
<1> HIDE DEF q
<1>3. PICK r : Graph!Runs(d, NoGraph, q, n, r) /\ CallGraph(d) = r[n]
  BY <1>1, <1>2, Graph!LeftRuns
<1>4. r[0] = NoGraph /\ \A i \in 1..n : r[i] = GraphLine(d, r[i - 1], i)
  BY <1>1, <1>3 DEF Graph!Runs
<1> DEFINE Good == {m \in Nat : m <= n => IsGraph(d, m, r[m])}
<1>5. 0 \in Good
  <2>1. Framed(d, 0) = {} /\ CallersOf(d, 0) = {} /\ ThreadOf(d, 0) = 0
    BY ThreadOfStep DEF Framed, CallersOf
  <2>2. AreNodes(d, <<>>, {})
    <3>1. <<>> \in Seq(NodeSet) /\ Len(<<>>) = 0
      OBVIOUS
    <3> QED BY <3>1, ListNone DEF AreNodes
  <2>3. IsGraph(d, 0, NoGraph)
    BY <2>1, <2>2 DEF IsGraph, NoGraph
  <2> QED BY <1>4, <2>3
<1>6. ASSUME NEW m \in Nat, m \in Good PROVE m + 1 \in Good
  <2> SUFFICES ASSUME m + 1 <= n PROVE IsGraph(d, m + 1, r[m + 1])
    OBVIOUS
  <2>1. m + 1 \in 1..n /\ (m + 1) - 1 = m /\ m <= n
    BY <1>1
  <2>2. IsGraph(d, m, r[m])
    BY <1>6, <2>1
  <2>3. IsGraph(d, m + 1, GraphLine(d, r[m], m + 1))
    BY <2>1, <2>2, GraphStep
  <2> QED BY <1>4, <2>1, <2>3
<1>7. n \in Good
  <2> HIDE DEF Good
  <2> QED BY <1>1, <1>5, <1>6, NumberInduction
<1> QED BY <1>1, <1>3, <1>7

Leafs == INSTANCE FoldTheorems WITH Op <- LAMBDA calls, kept, n : KeepLeaf(calls, kept, n)

\* The lines IsOf wants a sample of: the framed ones nothing is called by.
LeafLines(d) == {j \in DOMAIN d : /\ ~IsThread(d[j]) /\ ThreadOf(d, j) # 0
                                  /\ \A k \in DOMAIN d : ~Calls(d, j, k)}

LEMMA LeafLinesAre ==
  ASSUME NEW d, IsDump(d)
  PROVE  \A j : j \in LeafLines(d) <=> j \in Framed(d, Len(d)) /\ j \notin CallersOf(d, Len(d))
<1> DEFINE n == Len(d)
<1>1. DOMAIN d = 1..n /\ n \in Nat
  BY DEF IsDump
<1> HIDE DEF n
<1>2. ASSUME NEW j \in Framed(d, n), NEW k \in 1..n, Calls(d, j, k) PROVE k \in Framed(d, n)
  <2>1. j \in Nat /\ k \in Nat /\ j \in 1..n /\ ThreadOf(d, j) # 0 /\ j < k /\ k \in (j + 1)..k
    BY <1>2 DEF Framed, Calls
  <2>2. 0 < d[j].indent /\ d[j].indent < d[k].indent /\ d[j].indent \in Nat /\ d[k].indent \in Nat
    BY <1>1, <1>2, <2>1 DEF Calls, IsDump, n
  <2>3. ~IsThread(d[k])
    BY <2>2 DEF IsThread
  <2>4. /\ ThreadOf(d, j) \in Nat /\ ThreadOf(d, j) <= j /\ IsThread(d[ThreadOf(d, j)])
    BY <2>1, ThreadOfIs
  <2>5. ThreadOf(d, j) \in 1..k
    BY <2>1, <2>4
  <2>6. ThreadOf(d, j) <= ThreadOf(d, k) /\ ThreadOf(d, k) \in Nat
    BY <2>1, <2>4, <2>5, ThreadOfIs
  <2>7. ThreadOf(d, k) # 0
    BY ONLY <2>1, <2>4, <2>6
  <2> QED BY <2>3, <2>7 DEF Framed
<1>3. \A j : j \in Framed(d, n) => j \in 1..n
  BY DEF Framed
<1>4. \A j \in Framed(d, n) : j \in CallersOf(d, n) <=> \E k \in 1..n : Calls(d, j, k)
  BY <1>2, <1>3 DEF CallersOf
<1> QED BY <1>1, <1>3, <1>4 DEF LeafLines, Framed, n

\* _collect_leaves keeps the nodes of the lines that do not call.
LEMMA LeavesAre ==
  ASSUME NEW d, NEW J \in SUBSET Nat, NEW nodes, AreNodes(d, nodes, J), NEW calls, NEW T,
         \A j : j \in T <=> j \in J /\ j \notin calls
  PROVE  AreNodes(d, Leafs!Left(calls, <<>>, nodes), T)
<1> DEFINE n == Len(nodes)
<1>1. PICK s : Lists(s, J) /\ Len(s) = n /\ \A k \in 1..n : IsNode(d, nodes[k], s[k])
  BY DEF AreNodes
<1>2. n \in Nat /\ DOMAIN nodes = 1..n
  BY DEF AreNodes
<1>3. /\ \A k \in 1..n : s[k] \in J /\ s[k] \in Nat
      /\ \A a, b \in 1..n : a < b => s[a] < s[b]
      /\ \A x \in J : \E a \in 1..n : s[a] = x
  BY <1>1 DEF Lists
<1> HIDE DEF n
<1>4. PICK r : Leafs!Runs(calls, <<>>, nodes, n, r) /\ Leafs!Left(calls, <<>>, nodes) = r[n]
  BY <1>2, Leafs!LeftRuns
<1>5. r[0] = <<>> /\ \A i \in 1..n : r[i] = KeepLeaf(calls, r[i - 1], nodes[i])
  BY <1>4 DEF Leafs!Runs
<1> DEFINE K(i) == {j \in T : \E k \in 1..i : s[k] = j}
           Good == {i \in Nat : i <= n => AreNodes(d, r[i], K(i))}
<1>6. 0 \in Good
  <2>1. K(0) = {}
    OBVIOUS
  <2>2. AreNodes(d, <<>>, {})
    <3>1. <<>> \in Seq(NodeSet) /\ Len(<<>>) = 0
      OBVIOUS
    <3> QED BY <3>1, ListNone DEF AreNodes
  <2> HIDE DEF K
  <2> QED BY <1>5, <2>1, <2>2
<1>7. ASSUME NEW i \in Nat, i \in Good PROVE i + 1 \in Good
  <2> SUFFICES ASSUME i + 1 <= n PROVE AreNodes(d, r[i + 1], K(i + 1))
    OBVIOUS
  <2> DEFINE j == s[i + 1]
  <2>1. i + 1 \in 1..n /\ (i + 1) - 1 = i /\ i <= n
    BY <1>2
  <2>2. AreNodes(d, r[i], K(i))
    BY <1>7, <2>1
  <2>3. r[i + 1] = KeepLeaf(calls, r[i], nodes[i + 1])
    BY <1>5, <2>1
  <2>4. IsNode(d, nodes[i + 1], j) /\ Last(nodes[i + 1].path) = j /\ j \in J /\ j \in Nat
    BY <1>1, <1>3, <2>1 DEF IsNode
  <2>5. \A k : k \in 1..(i + 1) <=> k \in 1..i \/ k = i + 1
    OBVIOUS
  <2>6. \A x : x \in K(i + 1) <=> x \in K(i) \/ (x = j /\ j \in T)
    BY <2>5
  <2>7. CASE j \in calls
    <3>1. K(i + 1) = K(i)
      BY <2>6, <2>7
    <3>2. r[i + 1] = r[i]
      BY <2>3, <2>4, <2>7 DEF KeepLeaf
    <3> HIDE DEF K
    <3> QED BY <2>2, <3>1, <3>2
  <2>8. CASE j \notin calls
    <3>1. K(i + 1) = K(i) \cup {j}
      BY <2>4, <2>6, <2>8
    <3>2. r[i + 1] = Append(r[i], nodes[i + 1])
      BY <2>3, <2>4, <2>8 DEF KeepLeaf
    <3>3. K(i) \in SUBSET Nat
      OBVIOUS
    <3>4. \A x \in K(i) : x < j
      <4> SUFFICES ASSUME NEW x \in K(i) PROVE x < s[i + 1]
        OBVIOUS
      <4>1. PICK k \in 1..i : s[k] = x
        OBVIOUS
      <4>2. k \in 1..n /\ i + 1 \in 1..n /\ k < i + 1
        BY <1>2, <2>1
      <4>3. s[k] < s[i + 1]
        BY ONLY <1>3, <4>2
      <4> QED BY <4>1, <4>3
    <3> HIDE DEF K, j
    <3> QED BY <2>2, <2>4, <3>1, <3>2, <3>3, <3>4, NodesMore
  <2> QED BY <2>7, <2>8
<1>8. n \in Good
  <2> HIDE DEF Good
  <2> QED BY <1>2, <1>6, <1>7, NumberInduction
<1>9. K(n) = T
  BY <1>3
<1> HIDE DEF K
<1> QED BY <1>2, <1>4, <1>8, <1>9

SampleOf(d, n, k) ==
  [tid |-> d[n.root].sym, time |-> k - 1, period |-> d[Last(n.path)].count,
   frames |-> [i \in DOMAIN n.path |-> d[Reverse(n.path)[i]].sym]]

LEMMA ParsedIs ==
  ASSUME NEW d, IsDump(d)
  PROVE  \E q : /\ AreNodes(d, q, LeafLines(d))
                /\ ParseSample(d) = [k \in 1..Len(q) |-> SampleOf(d, q[k], k)]
<1> DEFINE g == CallGraph(d)
           q == Leafs!Left(g.calls, <<>>, g.nodes)
           L == LeafLines(d)
           J == Framed(d, Len(d))
<1>1. AreNodes(d, g.nodes, J) /\ g.calls = CallersOf(d, Len(d))
  BY CallGraphIs DEF IsGraph
<1>2. J \in SUBSET Nat
  BY DEF Framed
<1>3. \A j : j \in L <=> j \in J /\ j \notin g.calls
  BY <1>1, LeafLinesAre
<1> HIDE DEF g, L, J
<1>4. AreNodes(d, q, L)
  BY <1>1, <1>2, <1>3, LeavesAre
<1>5. DOMAIN q = 1..Len(q)
  <2>1. q \in Seq(NodeSet)
    BY <1>4 DEF AreNodes
  <2> QED BY <2>1
<1>6. ParseSample(d) = [k \in DOMAIN q |-> SampleOf(d, q[k], k)]
  BY DEF ParseSample, SampleOf, g, Leafs!Left, FoldLeft, Leafs!FoldLeft, MapThenFoldSet,
         Leafs!MapThenFoldSet, Max, Leafs!Max
<1> HIDE DEF q
<1> QED BY <1>4, <1>5, <1>6 DEF L

\* What leads to a frame is what is open at it.
LEMMA LeadingIs ==
  ASSUME NEW d, IsDump(d), NEW j \in 1..Len(d), ~IsThread(d[j])
  PROVE  Leading(d, j) = Open(d, j)
<1>1. DOMAIN d = 1..Len(d) /\ Len(d) \in Nat
  BY DEF IsDump
<1>2. Open(d, j) = Above(d, j) \cup {j} /\ \A k \in 1..Len(d) : Calls(d, k, j) <=> k \in Above(d, j)
  BY OpenStep
<1>3. Above(d, j) \in SUBSET (1..(j - 1))
  BY OpenStep
<1>4. 1..(j - 1) \subseteq 1..Len(d)
  BY <1>1
<1>5. \A k : k \in Leading(d, j) <=> k \in 1..Len(d) /\ (k = j \/ Calls(d, k, j))
  BY <1>1 DEF Leading
<1> QED BY <1>2, <1>3, <1>4, <1>5

\* Samples that say what parse_sample says of everything but their time.
SaysAs(p, s) == s.tid = p.tid /\ s.period = p.period /\ s.frames = p.frames

\* ... are of the dump: the place of a leaf is its rank, and so is that of a frame.
LEMMA ParsedTells ==
  ASSUME NEW d, IsDump(d), NEW s, Len(s) = Len(ParseSample(d)),
         \A k \in 1..Len(ParseSample(d)) : SaysAs(ParseSample(d)[k], s[k])
  PROVE  IsOf(d, s)
<1> DEFINE L == LeafLines(d)
           P == ParseSample(d)
<1>1. PICK q : AreNodes(d, q, L) /\ P = [k \in 1..Len(q) |-> SampleOf(d, q[k], k)]
  BY ParsedIs
<1> DEFINE n == Len(q)
<1>2. PICK l : Lists(l, L) /\ Len(l) = n /\ \A k \in 1..n : IsNode(d, q[k], l[k])
  BY <1>1 DEF AreNodes
<1>3. n \in Nat /\ DOMAIN d = 1..Len(d)
  BY <1>1 DEF AreNodes, IsDump
<1>4. Len(P) = n /\ \A k \in 1..n : P[k] = SampleOf(d, q[k], k)
  <2> HIDE DEF P, n
  <2> QED BY <1>1, <1>3 DEF n
<1>5. \A k \in 1..n : SaysAs(P[k], s[k])
  BY <1>4
<1>6. L \in SUBSET Nat /\ \A j \in L : j \in 1..Len(d) /\ ~IsThread(d[j])
  BY <1>3 DEF LeafLines
<1> HIDE DEF L, P, n
<1>7. Cardinality(L) = n /\ \A a \in 1..n : Cardinality({x \in L : x <= l[a]}) = a
  <2>1. L \in SUBSET Nat /\ Lists(l, L)
    BY <1>2, <1>6
  <2>2. Cardinality(L) = Len(l)
    BY <2>1, ListWhole
  <2>3. ASSUME NEW a \in 1..Len(l) PROVE Cardinality({x \in L : x <= l[a]}) = a
    <3> DEFINE T == {x \in L : x <= l[a]}
    <3>1. T \in SUBSET L /\ \A x \in L : x \in T <=> x <= l[a]
      OBVIOUS
    <3> HIDE DEF T
    <3>2. Cardinality(T) = a
      BY <2>1, <3>1, ListPlace
    <3> QED BY <3>2 DEF T
  <2> QED BY <1>2, <2>2, <2>3
<1>8. ASSUME NEW j \in L
      PROVE  LET t == s[Cardinality({x \in L : x <= j})]
                 stack == Leading(d, j) IN
             /\ t.tid = d[ThreadOf(d, j)].sym /\ t.period = d[j].count
             /\ Len(t.frames) = Cardinality(stack)
             /\ \A i \in stack : t.frames[Cardinality({k \in stack : k >= i})] = d[i].sym
  <2>1. PICK a \in 1..n : l[a] = j
    BY <1>2 DEF Lists
  <2> DEFINE t == s[a]
             p == q[a].path
             S == Leading(d, j)
             F == [i \in DOMAIN p |-> d[Reverse(p)[i]].sym]
  <2>2. Cardinality({x \in L : x <= j}) = a
    BY <1>7, <2>1
  <2>3. IsNode(d, q[a], j) /\ SaysAs(P[a], t) /\ P[a] = SampleOf(d, q[a], a)
    BY <1>2, <1>4, <1>5, <2>1
  <2>4. t.tid = d[ThreadOf(d, j)].sym /\ t.period = d[j].count /\ t.frames = F
    <3>1. t.tid = P[a].tid /\ t.period = P[a].period /\ t.frames = P[a].frames
      BY <2>3 DEF SaysAs
    <3>2. P[a].tid = d[q[a].root].sym /\ P[a].period = d[Last(p)].count /\ P[a].frames = F
      BY <2>3 DEF SampleOf
    <3>3. q[a].root = ThreadOf(d, j) /\ Last(p) = j
      BY <2>3 DEF IsNode
    <3> HIDE DEF F, p, t
    <3> QED BY <3>1, <3>2, <3>3
  <2>5. Lists(p, S)
    <3>1. S = Open(d, j)
      BY <1>6, LeadingIs
    <3> QED BY <2>3, <3>1 DEF IsNode
  <2>6. S \in SUBSET Nat
    BY <1>3 DEF Leading, IsDump
  <2>7. p \in Seq(Nat) /\ Len(p) \in Nat /\ DOMAIN p = 1..Len(p)
    BY <2>5 DEF Lists
  <2> HIDE DEF p, S, t
  <2>8. /\ Cardinality(S) = Len(p)
        /\ \A b \in 1..Len(p) : Cardinality({k \in S : k >= p[b]}) = Len(p) - b + 1
    <3>1. Cardinality(S) = Len(p)
      BY <2>5, <2>6, ListWhole
    <3>2. ASSUME NEW b \in 1..Len(p) PROVE Cardinality({k \in S : k >= p[b]}) = Len(p) - b + 1
      <4> DEFINE T == {k \in S : k >= p[b]}
      <4>1. T \in SUBSET S /\ \A k \in S : k \in T <=> k >= p[b]
        OBVIOUS
      <4> HIDE DEF T
      <4>2. Cardinality(T) = Len(p) - b + 1
        BY <2>5, <2>6, <4>1, ListPlaceBack
      <4> QED BY <4>2 DEF T
    <3> QED BY <3>1, <3>2
  <2>9. /\ Len(F) = Len(p)
        /\ \A b \in 1..Len(p) : F[Len(p) - b + 1] = d[p[b]].sym
    <3>1. Reverse(p) = [i \in 1..Len(p) |-> p[(Len(p) - i) + 1]]
      BY DEF Reverse
    <3>2. Len(F) = Len(p)
      BY <2>7
    <3>3. ASSUME NEW b \in 1..Len(p) PROVE F[Len(p) - b + 1] = d[p[b]].sym
      <4> DEFINE c == Len(p) - b + 1
      <4>1. c \in 1..Len(p) /\ (Len(p) - c) + 1 = b
        BY <2>7
      <4> HIDE DEF c
      <4>2. F[c] = d[Reverse(p)[c]].sym
        BY <2>7, <4>1
      <4>3. Reverse(p)[c] = p[b]
        BY <3>1, <4>1
      <4> QED BY <4>2, <4>3 DEF c
    <3> QED BY <3>2, <3>3
  <2> HIDE DEF F
  <2>10. ASSUME NEW i \in S PROVE F[Cardinality({k \in S : k >= i})] = d[i].sym
    <3>1. PICK b \in 1..Len(p) : p[b] = i
      BY <2>5 DEF Lists
    <3>2. Cardinality({k \in S : k >= i}) = Len(p) - b + 1
      BY <2>8, <3>1
    <3> QED BY <2>9, <3>1, <3>2
  <2>11. Len(t.frames) = Cardinality(S)
    BY <2>4, <2>8, <2>9
  <2>12. \A i \in S : t.frames[Cardinality({k \in S : k >= i})] = d[i].sym
    BY <2>4, <2>10
  <2> QED BY <2>2, <2>4, <2>11, <2>12 DEF t, S
<1>9. Len(s) = Cardinality(L)
  BY <1>4, <1>7 DEF P
<1> QED BY <1>8, <1>9 DEF IsOf, LeafLines, L

\* A sample of a dump that may be printed.
Syms    == UNION {{d[i].sym : i \in DOMAIN d} : d \in Dumps}
Counts  == UNION {{d[i].count : i \in DOMAIN d} : d \in Dumps}
Samples == [tid : Syms, time : Nat, period : Counts, frames : Seq(Syms)]

LEMMA ParsedType ==
  ASSUME NEW d \in Dumps
  PROVE  /\ ParseSample(d) \in Seq(Samples)
         /\ \A k \in 1..Len(ParseSample(d)) : ParseSample(d)[k].time = k - 1
<1>0. IsDump(d) /\ DOMAIN d = 1..Len(d)
  BY DumpsAreDumps DEF IsDump
<1> DEFINE P == ParseSample(d)
<1>1. PICK q : AreNodes(d, q, LeafLines(d)) /\ P = [k \in 1..Len(q) |-> SampleOf(d, q[k], k)]
  BY <1>0, ParsedIs
<1> DEFINE n == Len(q)
<1>2. PICK l : Lists(l, LeafLines(d)) /\ Len(l) = n /\ \A k \in 1..n : IsNode(d, q[k], l[k])
  BY <1>1 DEF AreNodes
<1>3. n \in Nat
  BY <1>1 DEF AreNodes
<1>4. \A i \in 1..Len(d) : d[i].sym \in Syms /\ d[i].count \in Counts
  BY <1>0 DEF Syms, Counts
<1> HIDE DEF P
<1>5. ASSUME NEW k \in 1..n PROVE P[k] \in Samples /\ P[k].time = k - 1
  <2> DEFINE p == q[k].path
             j == l[k]
             F == [i \in DOMAIN p |-> d[Reverse(p)[i]].sym]
  <2>1. IsNode(d, q[k], j) /\ j \in LeafLines(d)
    BY <1>2 DEF Lists
  <2>2. j \in 1..Len(d) /\ ThreadOf(d, j) # 0
    BY <1>0, <2>1 DEF LeafLines
  <2>3. ThreadOf(d, j) \in 1..Len(d)
    <3>1. j \in Nat /\ j <= Len(d) /\ Len(d) \in Nat
      BY <1>0, <2>2 DEF IsDump
    <3>2. ThreadOf(d, j) \in Nat /\ ThreadOf(d, j) <= j
      BY <3>1, ThreadOfIs
    <3> QED BY <2>2, <3>1, <3>2
  <2>4. q[k].root = ThreadOf(d, j) /\ Last(p) = j /\ Lists(p, Open(d, j))
    BY <2>1 DEF IsNode
  <2>5. p \in Seq(Nat) /\ Len(p) \in Nat /\ DOMAIN p = 1..Len(p) /\ \A b \in 1..Len(p) : p[b] \in 1..Len(d)
    <3>1. \A x \in Open(d, j) : x \in 1..Len(d)
      <4>1. \A x \in Open(d, j) : x \in 1..j
        BY DEF Open
      <4>2. 1..j \subseteq 1..Len(d)
        BY <1>0, <2>2 DEF IsDump
      <4> QED BY <4>1, <4>2
    <3> HIDE DEF p, j
    <3> QED BY <2>4, <3>1 DEF Lists
  <2> HIDE DEF p, j
  <2>6. F \in Seq(Syms)
    <3>1. Reverse(p) = [i \in 1..Len(p) |-> p[(Len(p) - i) + 1]]
      BY DEF Reverse
    <3>2. ASSUME NEW i \in 1..Len(p) PROVE d[Reverse(p)[i]].sym \in Syms
      <4> DEFINE c == (Len(p) - i) + 1
      <4>1. c \in 1..Len(p)
        BY <2>5
      <4>2. Reverse(p)[i] = p[c]
        BY <3>1
      <4> HIDE DEF c
      <4>3. p[c] \in 1..Len(d)
        BY <2>5, <4>1
      <4> QED BY <1>4, <4>2, <4>3
    <3>3. F = [i \in 1..Len(p) |-> d[Reverse(p)[i]].sym]
      BY <2>5
    <3> QED BY <2>5, <3>2, <3>3
  <2> HIDE DEF F
  <2>7. P[k] = [tid |-> d[q[k].root].sym, time |-> k - 1, period |-> d[Last(p)].count, frames |-> F]
    BY <1>1 DEF SampleOf, p, F
  <2>8. d[q[k].root].sym \in Syms /\ d[Last(p)].count \in Counts /\ k - 1 \in Nat
    BY <1>3, <1>4, <2>2, <2>3, <2>4
  <2> QED BY <2>6, <2>7, <2>8 DEF Samples
<1>6. P \in Seq(Samples) /\ Len(P) = n
  <2>1. P = [k \in 1..n |-> P[k]]
    BY <1>1
  <2>2. P \in [1..n -> Samples]
    BY <1>5, <2>1
  <2> QED BY <1>3, <2>1, <2>2
<1> QED BY <1>5, <1>6 DEF P

WindowSet == [at : Nat, dump : Dumps]

\* How many samples the nth window gave, and the first n.
LeavesIn(w, n) == Len(ParseSample(w[n].dump))
UpTo(w, n)     == SumFunctionOnSet([v \in DOMAIN w |-> LeavesIn(w, v)], 1..n)

LEMMA LeavesType == ASSUME NEW w \in Seq(WindowSet), NEW n \in 1..Len(w) PROVE LeavesIn(w, n) \in Nat
<1>1. w[n].dump \in Dumps
  <2>1. w[n] \in WindowSet
    OBVIOUS
  <2> QED BY <2>1 DEF WindowSet
<1>2. ParseSample(w[n].dump) \in Seq(Samples)
  BY <1>1, ParsedType
<1> QED BY <1>2 DEF LeavesIn

LEMMA UpToIs ==
  ASSUME NEW w \in Seq(WindowSet)
  PROVE  /\ UpTo(w, 0) = 0
         /\ \A n \in 0..Len(w) : UpTo(w, n) \in Nat
         /\ \A n \in 1..Len(w) : UpTo(w, n) = UpTo(w, n - 1) + LeavesIn(w, n)
         /\ \A n, m \in 0..Len(w) : n <= m => UpTo(w, n) <= UpTo(w, m)
<1> DEFINE F == [v \in DOMAIN w |-> LeavesIn(w, v)]
           S(n) == SumFunctionOnSet(F, 1..n)
<1>1. DOMAIN w = 1..Len(w) /\ Len(w) \in Nat
  OBVIOUS
<1>2. \A v \in 1..Len(w) : F[v] = LeavesIn(w, v) /\ F[v] \in Nat
  BY <1>1, LeavesType
<1>3. \A n : UpTo(w, n) = SumFunctionOnSet(F, 1..n)
  BY DEF UpTo
<1> HIDE DEF F
<1>4. UpTo(w, 0) = 0
  <2>1. 1..0 = {}
    OBVIOUS
  <2> QED BY <1>3, <2>1, SumEmpty
<1>f. \A n \in 0..Len(w) : n \in Int /\ IsFiniteSet(1..n) /\ \A v \in 1..n : v \in 1..Len(w)
  <2>1. \A n \in 0..Len(w) : n \in Int /\ \A v \in 1..n : v \in 1..Len(w)
    BY <1>1
  <2> QED BY <2>1, FS_Interval
<1>5. ASSUME NEW n \in 0..Len(w) PROVE UpTo(w, n) \in Nat
  <2>1. IsFiniteSet(1..n) /\ \A v \in 1..n : F[v] \in Nat
    BY <1>2, <1>f
  <2>2. SumFunctionOnSet(F, 1..n) \in Nat
    BY <2>1, SumNat
  <2> QED BY <1>3, <2>2
<1>6. ASSUME NEW n \in 1..Len(w) PROVE UpTo(w, n) = UpTo(w, n - 1) + LeavesIn(w, n)
  <2>0. n \in 0..Len(w) /\ n \in 1..n
    BY <1>1
  <2>1. IsFiniteSet(1..n) /\ (\A v \in 1..n : F[v] \in Int) /\ n \in 1..n
    BY <1>2, <1>f, <2>0
  <2>2. SumFunctionOnSet(F, 1..n) = F[n] + SumFunctionOnSet(F, (1..n) \ {n})
    BY <2>1, SumElement
  <2>3. (1..n) \ {n} = 1..(n - 1)
    OBVIOUS
  <2>4. UpTo(w, n) = F[n] + UpTo(w, n - 1)
    BY <1>3, <2>2, <2>3
  <2>5. n - 1 \in 0..Len(w) /\ F[n] = LeavesIn(w, n) /\ F[n] \in Nat
    BY <1>1, <1>2
  <2>6. UpTo(w, n - 1) \in Nat
    BY <1>5, <2>5
  <2> QED BY ONLY <2>4, <2>5, <2>6
<1>7. ASSUME NEW n \in 0..Len(w), NEW m \in 0..Len(w), n <= m PROVE UpTo(w, n) <= UpTo(w, m)
  <2>1. IsFiniteSet(1..m) /\ (\A v \in 1..m : F[v] \in Nat) /\ 1..n \in SUBSET (1..m)
    <3>1. 1..n \in SUBSET (1..m)
      BY <1>1, <1>7
    <3> QED BY <1>2, <1>f, <3>1
  <2>2. SumFunctionOnSet(F, 1..n) <= SumFunctionOnSet(F, 1..m)
    BY <2>1, SumMore
  <2> QED BY <1>3, <2>2
<1> QED BY <1>4, <1>5, <1>6, <1>7

\* A window more changes nothing of those before.
LEMMA UpToMore ==
  ASSUME NEW w \in Seq(WindowSet), NEW x \in WindowSet, NEW n \in 0..Len(w)
  PROVE  UpTo(Append(w, x), n) = UpTo(w, n)
<1> DEFINE u == Append(w, x)
           F == [v \in DOMAIN w |-> LeavesIn(w, v)]
           G == [v \in DOMAIN u |-> LeavesIn(u, v)]
<1>1. Len(w) \in Nat /\ DOMAIN w = 1..Len(w)
  OBVIOUS
<1>2. \A v \in 1..n : v \in DOMAIN w /\ v \in 1..Len(w) /\ v \in DOMAIN u /\ u[v] = w[v]
  OBVIOUS
<1>3. \A v \in 1..n : LeavesIn(w, v) \in Nat /\ LeavesIn(u, v) = LeavesIn(w, v)
  BY <1>2, LeavesType DEF LeavesIn
<1> HIDE DEF u
<1>4. \A v \in 1..n : F[v] \in Int /\ G[v] = F[v]
  BY <1>2, <1>3
<1>5. IsFiniteSet(1..n)
  BY FS_Interval
<1>6. UpTo(w, n) = SumFunctionOnSet(F, 1..n) /\ UpTo(u, n) = SumFunctionOnSet(G, 1..n)
  BY DEF UpTo
<1> HIDE DEF F, G
<1>7. SumFunctionOnSet(G, 1..n) = SumFunctionOnSet(F, 1..n)
  BY <1>4, <1>5, SumEqual
<1> QED BY <1>6, <1>7 DEF u

\* Every sample is of a window.
LEMMA SampleIsOfAWindow ==
  ASSUME NEW w \in Seq(WindowSet), NEW i \in 1..UpTo(w, Len(w))
  PROVE  \E n \in 1..Len(w) : \E k \in 1..LeavesIn(w, n) : i = UpTo(w, n - 1) + k
<1> DEFINE T == {n \in 0..Len(w) : i <= UpTo(w, n)}
<1>0. Len(w) \in Nat /\ Len(w) \in 0..Len(w)
  OBVIOUS
<1>1. UpTo(w, Len(w)) \in Nat /\ UpTo(w, 0) = 0
  BY <1>0, UpToIs
<1>2. i \in Nat /\ i >= 1 /\ i <= UpTo(w, Len(w))
  BY <1>1
<1>3. T \in SUBSET Nat /\ T # {}
  BY <1>0, <1>2
<1>4. PICK n \in T : \A m \in T : n <= m
  <2> HIDE DEF T
  <2> QED BY <1>3, LeastNumber
<1>5. n \in 1..Len(w) /\ n - 1 \in 0..Len(w)
  BY <1>1, <1>2, <1>4
<1>6. ~(i <= UpTo(w, n - 1)) /\ i <= UpTo(w, n)
  <2>1. n - 1 \notin T
    BY <1>4, <1>5
  <2> QED BY <1>4, <1>5, <2>1
<1>7. UpTo(w, n) = UpTo(w, n - 1) + LeavesIn(w, n) /\ LeavesIn(w, n) \in Nat /\ UpTo(w, n - 1) \in Nat
  BY <1>5, UpToIs, LeavesType
<1> DEFINE k == i - UpTo(w, n - 1)
<1>8. k \in 1..LeavesIn(w, n) /\ i = UpTo(w, n - 1) + k
  BY <1>2, <1>6, <1>7
<1> QED BY <1>5, <1>8

-----------------------------------------------------------------------------
\* The moment of the kth sample of a window.
TimeOf(md, asked, x, k) ==
  LET n == Len(ParseSample(x.dump)) IN
  IF md = "run" THEN k - 1 + x.at ELSE IF n < 2 THEN 0 ELSE ((k - 1) * asked) \div (n - 1)

\* s is what a window adds to the script.
AreOf(md, asked, x, s) ==
  /\ s \in Seq(Samples) /\ Len(s) = Len(ParseSample(x.dump))
  /\ \A k \in 1..Len(ParseSample(x.dump)) :
       SaysAs(ParseSample(x.dump)[k], s[k]) /\ s[k].time = TimeOf(md, asked, x, k)

\* A step of a long enough time is one at least.
LEMMA Share ==
  ASSUME NEW a \in Nat, NEW asked \in Nat, NEW n \in Nat, n > 0
  PROVE  /\ (a * asked) \div n \in Nat
         /\ n <= asked => (a * asked) \div n < ((a + 1) * asked) \div n
         /\ n * ((a * asked) \div n) <= a * asked /\ a * asked < n * ((a * asked) \div n) + n
<1> DEFINE q == (a * asked) \div n
           r == ((a + 1) * asked) \div n
<1>1. a * asked \in Nat /\ (a + 1) * asked \in Nat /\ (a + 1) * asked = a * asked + asked
  OBVIOUS
<1>2. q \in Int /\ n * q <= a * asked /\ a * asked < n * q + n
  BY <1>1
<1>3. r \in Int /\ n * r <= (a + 1) * asked /\ (a + 1) * asked < n * r + n
  BY <1>1
<1> HIDE DEF q, r
<1>4. 0 <= q
  <2> SUFFICES ASSUME q <= -1 PROVE FALSE
    BY <1>2
  <2>1. n * q <= -n
    BY <1>2
  <2> QED BY <1>1, <1>2, <2>1
<1>5. ASSUME n <= asked PROVE q < r
  <2> SUFFICES ASSUME r <= q PROVE FALSE
    BY <1>2, <1>3
  <2>1. n * r <= n * q
    BY <1>2, <1>3
  <2>2. n * r \in Int /\ n * q \in Int
    BY <1>2, <1>3
  <2> QED BY ONLY <1>1, <1>2, <1>3, <1>5, <2>1, <2>2, n \in Nat, asked \in Nat
<1> QED BY <1>2, <1>4, <1>5 DEF q, r

LEMMA TimeType ==
  ASSUME NEW md, NEW asked \in Nat, NEW x \in WindowSet, NEW k \in 1..Len(ParseSample(x.dump))
  PROVE  TimeOf(md, asked, x, k) \in Nat
<1> DEFINE n == Len(ParseSample(x.dump))
<1>1. n \in Nat /\ x.at \in Nat /\ k - 1 \in Nat
  <2>1. x.dump \in Dumps /\ x.at \in Nat
    BY DEF WindowSet
  <2>2. ParseSample(x.dump) \in Seq(Samples)
    BY <2>1, ParsedType
  <2> QED BY <2>1, <2>2
<1>2. CASE md = "run"
  BY <1>1, <1>2 DEF TimeOf
<1>3. CASE md # "run" /\ n < 2
  BY <1>3 DEF TimeOf
<1>4. CASE md # "run" /\ ~(n < 2)
  <2>1. TimeOf(md, asked, x, k) = ((k - 1) * asked) \div (n - 1)
    BY <1>4 DEF TimeOf
  <2>2. n - 1 \in Nat /\ n - 1 > 0
    BY <1>1, <1>4
  <2> QED BY <1>1, <2>1, <2>2, Share
<1> QED BY <1>2, <1>3, <1>4

\* What Sample adds.
LEMMA AddedIs ==
  ASSUME NEW x \in WindowSet, x.at = base, Asked \in Nat
  PROVE  AreOf(mode, Asked, x, IF mode = "run" THEN Anchored(ParseSample(x.dump), base)
                               ELSE Stretched(ParseSample(x.dump)))
<1> DEFINE P == ParseSample(x.dump)
           n == Len(P)
           s == IF mode = "run" THEN Anchored(P, base) ELSE Stretched(P)
           t(k) == TimeOf(mode, Asked, x, k)
<1>1. x.dump \in Dumps
  BY DEF WindowSet
<1>2. P \in Seq(Samples) /\ \A k \in 1..n : P[k].time = k - 1
  BY <1>1, ParsedType
<1>3. n \in Nat /\ DOMAIN P = 1..n /\ \A k \in 1..n : P[k] \in Samples
  BY <1>2
<1>4. ASSUME NEW k \in 1..n PROVE t(k) \in Nat
  BY TimeType
<1>5. s = [k \in 1..n |-> [P[k] EXCEPT !.time = t(k)]]
  <2>1. CASE mode = "run"
    <3>1. s = [k \in 1..n |-> [P[k] EXCEPT !.time = P[k].time + base]]
      BY <1>3, <2>1 DEF Anchored
    <3>2. \A k \in 1..n : P[k].time + base = t(k)
      BY <1>2, <2>1 DEF TimeOf
    <3> HIDE DEF s, t, P, n
    <3> QED BY <3>1, <3>2
  <2>2. CASE mode # "run"
    <3>1. s = [k \in 1..n |-> [P[k] EXCEPT !.time = IF n < 2 THEN 0 ELSE (P[k].time * Asked) \div (n - 1)]]
      BY <1>3, <2>2 DEF Stretched
    <3>2. \A k \in 1..n : (IF n < 2 THEN 0 ELSE (P[k].time * Asked) \div (n - 1)) = t(k)
      BY <1>2, <2>2 DEF TimeOf
    <3> HIDE DEF s, t, P, n
    <3> QED BY <3>1, <3>2
  <2> QED BY <2>1, <2>2
<1> HIDE DEF s, t, P, n
<1>6. ASSUME NEW k \in 1..n PROVE /\ s[k] \in Samples /\ SaysAs(P[k], s[k]) /\ s[k].time = t(k)
  <2>1. s[k] = [P[k] EXCEPT !.time = t(k)]
    BY <1>5
  <2>2. P[k] \in Samples /\ t(k) \in Nat
    BY <1>3, <1>4
  <2> QED BY <2>1, <2>2 DEF Samples, SaysAs
<1>7. s \in Seq(Samples) /\ Len(s) = n
  <2>1. s \in [1..n -> Samples]
    BY <1>5, <1>6
  <2> QED BY <1>3, <2>1
<1>8. AreOf(mode, Asked, x, s)
  BY <1>6, <1>7 DEF AreOf, P, n, t
<1> QED BY <1>8 DEF s, P

\* The script q is of the windows w, in order.
IsSample(md, asked, x, k, s) == SaysAs(ParseSample(x.dump)[k], s) /\ s.time = TimeOf(md, asked, x, k)

ScriptIs(md, asked, w, q) ==
  /\ Len(q) = UpTo(w, Len(w))
  /\ \A n \in 1..Len(w) : \A k \in 1..LeavesIn(w, n) :
       IsSample(md, asked, w[n], k, q[UpTo(w, n - 1) + k])

LEMMA ScriptNone == ASSUME NEW md, NEW asked PROVE ScriptIs(md, asked, <<>>, <<>>)
<1>1. <<>> \in Seq(WindowSet) /\ Len(<<>>) = 0
  OBVIOUS
<1>2. UpTo(<<>>, 0) = 0
  BY <1>1, UpToIs
<1> QED BY <1>1, <1>2 DEF ScriptIs

\* A window more.
LEMMA ScriptMore ==
  ASSUME NEW md, NEW asked, NEW w \in Seq(WindowSet), NEW q \in Seq(Samples), ScriptIs(md, asked, w, q),
         NEW x \in WindowSet, NEW s, AreOf(md, asked, x, s)
  PROVE  q \o s \in Seq(Samples) /\ ScriptIs(md, asked, Append(w, x), q \o s)
<1> DEFINE u == Append(w, x)
           n == Len(w)
           r == q \o s
           l == Len(ParseSample(x.dump))
<1>1. n \in Nat /\ u \in Seq(WindowSet) /\ Len(u) = n + 1 /\ u[n + 1] = x /\ \A a \in 1..n : u[a] = w[a]
  OBVIOUS
<1>2. s \in Seq(Samples) /\ Len(s) = l /\ \A k \in 1..l : IsSample(md, asked, x, k, s[k])
  BY DEF AreOf, IsSample
<1>3. Len(q) = UpTo(w, n) /\ \A a \in 1..n : \A k \in 1..LeavesIn(w, a) :
        IsSample(md, asked, w[a], k, q[UpTo(w, a - 1) + k])
  BY DEF ScriptIs
<1>4. Len(q) \in Nat /\ l \in Nat
  BY <1>2
<1>5. /\ r \in Seq(Samples) /\ Len(r) = Len(q) + l
      /\ \A i \in 1..Len(q) : r[i] = q[i]
      /\ \A k \in 1..l : r[Len(q) + k] = s[k]
  <2>1. /\ r \in Seq(Samples) /\ Len(r) = Len(q) + Len(s)
        /\ \A i \in 1..(Len(q) + Len(s)) : r[i] = IF i <= Len(q) THEN q[i] ELSE s[i - Len(q)]
    BY <1>2, ConcatProperties
  <2>2. \A i \in 1..Len(q) : i \in 1..(Len(q) + Len(s)) /\ i <= Len(q)
    BY <1>2, <1>4
  <2>3. ASSUME NEW k \in 1..l PROVE r[Len(q) + k] = s[k]
    <3> DEFINE i == Len(q) + k
    <3>1. i \in 1..(Len(q) + Len(s)) /\ ~(i <= Len(q)) /\ i - Len(q) = k
      BY <1>2, <1>4
    <3> HIDE DEF i, r
    <3> QED BY <2>1, <3>1 DEF i
  <2> QED BY <1>2, <2>1, <2>2, <2>3
<1> HIDE DEF u, n, r, l
<1>6. \A a \in 0..n : UpTo(u, a) = UpTo(w, a)
  BY UpToMore DEF u, n
<1>7. LeavesIn(u, n + 1) = l /\ \A a \in 1..n : LeavesIn(u, a) = LeavesIn(w, a)
  BY <1>1 DEF LeavesIn, l
<1>8. Len(r) = UpTo(u, n + 1)
  <2>1. n + 1 \in 1..Len(u) /\ (n + 1) - 1 = n /\ n \in 0..n
    BY <1>1
  <2>2. UpTo(u, n + 1) = UpTo(u, (n + 1) - 1) + LeavesIn(u, n + 1)
    BY <1>1, <2>1, UpToIs
  <2> QED BY <1>3, <1>5, <1>6, <1>7, <2>1, <2>2
<1>9. ASSUME NEW a \in 1..(n + 1), NEW k \in 1..LeavesIn(u, a)
      PROVE  IsSample(md, asked, u[a], k, r[UpTo(u, a - 1) + k])
  <2>1. CASE a = n + 1
    <3>1. UpTo(u, a - 1) = Len(q)
      BY <1>1, <1>3, <1>6, <2>1
    <3>2. r[UpTo(u, a - 1) + k] = s[k] /\ k \in 1..l /\ u[a] = x
      BY <1>1, <1>5, <1>7, <2>1, <3>1
    <3> QED BY <1>2, <3>2
  <2>2. CASE a \in 1..n
    <3> DEFINE i == UpTo(w, a - 1) + k
    <3>1. k \in 1..LeavesIn(w, a) /\ u[a] = w[a] /\ UpTo(u, a - 1) = UpTo(w, a - 1)
      <4>1. a - 1 \in 0..n
        BY <1>1, <2>2
      <4> QED BY <1>1, <1>6, <1>7, <2>2, <4>1
    <3>2. i \in 1..Len(q)
      <4>1. /\ UpTo(w, a) = UpTo(w, a - 1) + LeavesIn(w, a) /\ UpTo(w, a - 1) \in Nat
            /\ UpTo(w, a) <= UpTo(w, n) /\ UpTo(w, a) \in Nat /\ UpTo(w, n) \in Nat
        <5>1. a \in 1..n /\ a \in 0..n /\ a - 1 \in 0..n /\ n \in 0..n /\ a <= n
          BY <1>1, <2>2
        <5> QED BY <5>1, UpToIs DEF n
      <4>2. LeavesIn(w, a) \in Nat
        BY <2>2, LeavesType DEF n
      <4> QED BY <1>3, <3>1, <4>1, <4>2
    <3>3. IsSample(md, asked, w[a], k, q[i])
      BY <1>3, <2>2, <3>1
    <3> HIDE DEF i
    <3>4. r[i] = q[i]
      BY <1>5, <3>2
    <3> QED BY <3>1, <3>3, <3>4 DEF i
  <2> QED BY <1>1, <2>1, <2>2
<1>10. ScriptIs(md, asked, u, r)
  BY <1>1, <1>8, <1>9 DEF ScriptIs
<1> QED BY <1>5, <1>10 DEF u, r

ScriptType ==
  /\ mode \in {"run", "attach"} /\ duration \in Durations
  /\ clock \in Nat /\ run_t0 \in Nat /\ base \in Nat /\ run_t0 <= clock
  /\ windows \in Seq(WindowSet) /\ script \in Seq(Samples)

\* The windows of a run do not overlap, and the next one begins after them.
RunInv(md, w) ==
  md = "run" =>
    /\ \A a, b \in 1..Len(w) : a < b => w[a].at + Window <= w[b].at
    /\ step = "sample" => base <= clock - run_t0 /\ \A a \in 1..Len(w) : w[a].at + Window <= base
    /\ step = "loop" => \/ target.st # "running"
                        \/ \A a \in 1..Len(w) : w[a].at + Window <= clock - run_t0
    /\ step \in {"settle", "start"} => w = <<>>

\* An attach has one, from 0 on.
AttachInv(md, w) ==
  md = "attach" =>
    /\ Len(w) <= 1 /\ \A a \in 1..Len(w) : w[a].at = 0
    /\ step # "loop" /\ (step \in {"settle", "start", "sample"} => w = <<>> /\ base = 0)

ScriptInv ==
  /\ ScriptType /\ ScriptIs(mode, Asked, windows, script)
  /\ RunInv(mode, windows) /\ AttachInv(mode, windows)

LEMMA AskedType == ASSUME duration \in Durations PROVE Asked \in Nat
  BY MacosConstants DEF Asked

LEMMA ScriptStart == MacInit => ScriptInv
<1> SUFFICES ASSUME MacInit PROVE ScriptInv
  OBVIOUS
<1>1. /\ mode \in {"run", "attach"} /\ duration \in Durations /\ clock = 0 /\ run_t0 = 0 /\ base = 0
      /\ windows = <<>> /\ script = <<>> /\ step \in {"settle", "start"}
  BY DEF MacInit
<1>2. <<>> \in Seq(WindowSet) /\ <<>> \in Seq(Samples) /\ Len(<<>>) = 0
  OBVIOUS
<1>3. ScriptType
  BY <1>1, <1>2 DEF ScriptType
<1>4. ScriptIs(mode, Asked, windows, script)
  BY <1>1, ScriptNone
<1>5. RunInv(mode, windows) /\ AttachInv(mode, windows)
  BY <1>1, <1>2 DEF RunInv, AttachInv
<1> QED BY <1>3, <1>4, <1>5 DEF ScriptInv

\* A step that leaves the script alone, and collect_macos where it is or past the loop.
LEMMA ScriptKept ==
  ASSUME ScriptInv, mode' = mode, duration' = duration, windows' = windows, script' = script,
         base' = base, run_t0' = run_t0, clock' \in Nat, clock <= clock',
         \/ step' \notin {"settle", "start", "loop", "sample"}
         \/ step' = step /\ (target.st # "running" => target'.st # "running")
         \/ step' = "start" /\ step = "settle"
  PROVE  ScriptInv'
<1>1. Asked' = Asked
  BY DEF Asked
<1>2. ScriptType'
  BY DEF ScriptInv, ScriptType
<1>3. ScriptIs(mode', Asked', windows', script')
  BY <1>1 DEF ScriptInv
<1>4. RunInv(mode, windows)'
  <2> SUFFICES ASSUME mode = "run"
               PROVE  /\ \A a, b \in 1..Len(windows) : a < b => windows[a].at + Window <= windows[b].at
                      /\ step' = "sample" => base <= clock' - run_t0 /\ \A a \in 1..Len(windows) : windows[a].at + Window <= base
                      /\ step' = "loop" => \/ target'.st # "running"
                                           \/ \A a \in 1..Len(windows) : windows[a].at + Window <= clock' - run_t0
                      /\ step' \in {"settle", "start"} => windows = <<>>
    BY DEF RunInv
  <2>1. /\ \A a, b \in 1..Len(windows) : a < b => windows[a].at + Window <= windows[b].at
        /\ step = "sample" => base <= clock - run_t0 /\ \A a \in 1..Len(windows) : windows[a].at + Window <= base
        /\ step = "loop" => \/ target.st # "running"
                            \/ \A a \in 1..Len(windows) : windows[a].at + Window <= clock - run_t0
        /\ step \in {"settle", "start"} => windows = <<>>
    BY DEF ScriptInv, RunInv
  <2>2. clock \in Nat /\ run_t0 \in Nat /\ base \in Nat /\ Window \in Nat /\ \A a \in 1..Len(windows) : windows[a].at \in Nat
    <3>1. \A a \in 1..Len(windows) : windows[a] \in WindowSet
      BY DEF ScriptInv, ScriptType
    <3> QED BY <3>1, MacosConstants DEF ScriptInv, ScriptType, WindowSet
  <2>3. ASSUME NEW x \in Nat, x <= clock - run_t0 PROVE x <= clock' - run_t0
    <3>1. \A c, d, r \in Nat : x <= c - r /\ c <= d => x <= d - r
      OBVIOUS
    <3> QED BY <2>2, <2>3, <3>1
  <2>4. step' = "sample" => step = "sample"
    OBVIOUS
  <2>5. step' = "loop" => step = "loop" /\ (target.st # "running" => target'.st # "running")
    OBVIOUS
  <2>6. step' \in {"settle", "start"} => step \in {"settle", "start"}
    OBVIOUS
  <2>7. ASSUME step' = "sample"
        PROVE  base <= clock' - run_t0 /\ \A a \in 1..Len(windows) : windows[a].at + Window <= base
    BY <2>1, <2>2, <2>3, <2>4, <2>7
  <2>8. ASSUME step' = "loop"
        PROVE  target'.st # "running" \/ \A a \in 1..Len(windows) : windows[a].at + Window <= clock' - run_t0
    <3>1. ASSUME target.st = "running", NEW a \in 1..Len(windows)
          PROVE  windows[a].at + Window <= clock' - run_t0
      <4>1. windows[a].at + Window <= clock - run_t0 /\ windows[a].at + Window \in Nat
        BY <2>1, <2>2, <2>5, <2>8, <3>1
      <4> QED BY <2>3, <4>1
    <3> QED BY <2>5, <2>8, <3>1
  <2> QED BY <2>1, <2>6, <2>7, <2>8
<1>5. AttachInv(mode, windows)'
  BY DEF ScriptInv, AttachInv
<1> QED BY <1>2, <1>3, <1>4, <1>5 DEF ScriptInv

LEMMA WindowsAre ==
  ASSUME ScriptInv
  PROVE  /\ Len(windows) \in Nat /\ Window \in Nat /\ Window > 0
         /\ \A a \in 1..Len(windows) : windows[a] \in WindowSet /\ windows[a].at \in Nat
<1>1. windows \in Seq(WindowSet)
  BY DEF ScriptInv, ScriptType
<1>2. \A a \in 1..Len(windows) : windows[a] \in WindowSet
  BY <1>1
<1> QED BY <1>1, <1>2, MacosConstants DEF WindowSet

Targets == [st : {"running", "exited", "reaped"}, cpu : Nat]

LEMMA ScriptLoop == ASSUME ScriptInv, target \in Targets, Loop PROVE ScriptInv'
<1>1. /\ step = "loop" /\ mode' = mode /\ duration' = duration /\ clock' = clock /\ run_t0' = run_t0
      /\ windows' = windows /\ script' = script /\ target' = Reaped
      /\ \/ step' = "finally" /\ base' = base
         \/ target'.st # "reaped" /\ step' = "sample" /\ base' = clock - run_t0
  BY DEF Loop
<1>2. mode = "run" /\ clock \in Nat /\ run_t0 \in Nat /\ run_t0 <= clock
  BY <1>1 DEF ScriptInv, ScriptType, AttachInv
<1>3. CASE step' = "finally" /\ base' = base
  <2>1. step' \notin {"settle", "start", "loop", "sample"} /\ clock' \in Nat /\ clock <= clock'
    BY <1>1, <1>2, <1>3
  <2> QED BY <1>1, <1>3, <2>1, ScriptKept
<1>4. CASE target'.st # "reaped" /\ step' = "sample" /\ base' = clock - run_t0
  <2>1. Asked' = Asked
    BY <1>1 DEF Asked
  <2>2. clock - run_t0 \in Nat
    BY <1>2
  <2>3. ScriptType'
    BY <1>1, <1>4, <2>2 DEF ScriptInv, ScriptType
  <2>4. ScriptIs(mode', Asked', windows', script')
    BY <1>1, <2>1 DEF ScriptInv
  <2>5. target.st = "running"
    <3>1. target.st = "exited" => target'.st = "reaped"
      BY <1>1, <1>2 DEF Reaped, Targets
    <3>2. target.st # "exited" => target' = target
      BY <1>1 DEF Reaped
    <3> QED BY <1>4, <3>1, <3>2 DEF Targets
  <2>6. RunInv(mode, windows)'
    BY <1>1, <1>2, <1>4, <2>2, <2>5 DEF ScriptInv, RunInv
  <2>7. AttachInv(mode, windows)'
    BY <1>1, <1>2 DEF AttachInv
  <2> QED BY <2>3, <2>4, <2>6, <2>7 DEF ScriptInv
<1> QED BY <1>1, <1>3, <1>4

LEMMA ScriptSample == ASSUME ScriptInv, NEW dump \in Dumps, Sample(dump) PROVE ScriptInv'
<1> DEFINE x == [at |-> base, dump |-> dump]
           s == IF mode = "run" THEN Anchored(ParseSample(dump), base) ELSE Stretched(ParseSample(dump))
           n == Len(windows)
<1>1. /\ step = "sample" /\ (clock - run_t0 - base >= Seconds \/ target.st # "running")
      /\ windows' = Append(windows, x) /\ script' = script \o s
      /\ step' = (IF mode = "run" THEN "loop" ELSE "finally")
      /\ mode' = mode /\ duration' = duration /\ clock' = clock /\ target' = target
      /\ run_t0' = run_t0 /\ base' = base
  BY DEF Sample
<1>2. /\ mode \in {"run", "attach"} /\ duration \in Durations
      /\ clock \in Nat /\ run_t0 \in Nat /\ base \in Nat /\ run_t0 <= clock
      /\ windows \in Seq(WindowSet) /\ script \in Seq(Samples)
  BY DEF ScriptInv, ScriptType
<1>3. Asked' = Asked /\ Asked \in Nat
  BY <1>1, <1>2, AskedType DEF Asked
<1>4. x \in WindowSet /\ x.at = base /\ x.dump = dump
  BY <1>2 DEF WindowSet
<1>5. AreOf(mode, Asked, x, s)
  <2> HIDE DEF x, s
  <2>1. AreOf(mode, Asked, x, IF mode = "run" THEN Anchored(ParseSample(x.dump), base)
                              ELSE Stretched(ParseSample(x.dump)))
    BY <1>3, <1>4, AddedIs
  <2> QED BY <1>4, <2>1 DEF s
<1> HIDE DEF x, s
<1>6. ScriptIs(mode, Asked, windows, script)
  BY DEF ScriptInv
<1>7. script \o s \in Seq(Samples) /\ ScriptIs(mode, Asked, Append(windows, x), script \o s)
  BY <1>2, <1>4, <1>5, <1>6, ScriptMore
<1>8. /\ windows' \in Seq(WindowSet) /\ Len(windows') = n + 1 /\ windows'[n + 1] = x
      /\ \A a \in 1..n : windows'[a] = windows[a]
  BY <1>1, <1>2, <1>4
<1>9. n \in Nat /\ Window \in Nat /\ Window > 0 /\ \A a \in 1..n : windows[a].at \in Nat
  BY WindowsAre
<1> HIDE DEF n
<1>10. ScriptType'
  BY <1>1, <1>2, <1>7, <1>8 DEF ScriptType
<1>11. ScriptIs(mode', Asked', windows', script')
  BY <1>1, <1>3, <1>7
<1>12. RunInv(mode, windows)'
  <2> SUFFICES ASSUME mode = "run"
               PROVE  /\ \A a, b \in 1..(n + 1) : a < b => windows'[a].at + Window <= windows'[b].at
                      /\ \/ target.st # "running"
                         \/ \A a \in 1..(n + 1) : windows'[a].at + Window <= clock - run_t0
    BY <1>1, <1>8 DEF RunInv
  <2>1. /\ \A a, b \in 1..n : a < b => windows[a].at + Window <= windows[b].at
        /\ base <= clock - run_t0 /\ \A a \in 1..n : windows[a].at + Window <= base
    BY <1>1 DEF ScriptInv, RunInv, n
  <2>2. Seconds = Window
    BY DEF Seconds
  <2>3. \A a \in 1..(n + 1) : a \in 1..n \/ a = n + 1
    BY <1>9
  <2>4. ASSUME NEW a \in 1..(n + 1), NEW b \in 1..(n + 1), a < b
        PROVE  windows'[a].at + Window <= windows'[b].at
    <3>1. a \in 1..n
      BY <1>9, <2>3, <2>4
    <3>2. CASE b = n + 1
      BY <1>4, <1>8, <2>1, <3>1, <3>2
    <3>3. CASE b \in 1..n
      BY <1>8, <2>1, <2>4, <3>1, <3>3
    <3> QED BY <2>3, <3>2, <3>3
  <2>5. ASSUME target.st = "running", NEW a \in 1..(n + 1) PROVE windows'[a].at + Window <= clock - run_t0
    <3>1. base + Window <= clock - run_t0
      BY <1>1, <1>2, <1>9, <2>2, <2>5
    <3>2. CASE a = n + 1
      BY <1>4, <1>8, <3>1, <3>2
    <3>3. CASE a \in 1..n
      <4>1. windows[a].at + Window <= base /\ windows[a].at \in Nat /\ windows'[a] = windows[a]
        BY <1>8, <1>9, <2>1, <3>3
      <4>2. windows[a].at + Window <= clock - run_t0
        BY ONLY <1>2, <1>9, <3>1, <4>1
      <4> QED BY <4>1, <4>2
    <3> QED BY <2>3, <3>2, <3>3
  <2> QED BY <2>4, <2>5
<1>13. AttachInv(mode, windows)'
  <2> SUFFICES ASSUME mode = "attach"
               PROVE  Len(windows') <= 1 /\ \A a \in 1..Len(windows') : windows'[a].at = 0
    BY <1>1 DEF AttachInv
  <2>1. windows = <<>> /\ base = 0
    BY <1>1 DEF ScriptInv, AttachInv
  <2>2. n = 0
    BY <2>1 DEF n
  <2>3. \A a \in 1..Len(windows') : a = n + 1
    BY <1>8, <2>2
  <2> QED BY <1>4, <1>8, <2>1, <2>2, <2>3
<1> QED BY <1>10, <1>11, <1>12, <1>13 DEF ScriptInv

LEMMA ScriptJoin == ASSUME ScriptInv, Join PROVE ScriptInv'
<1>1. /\ step' = "total" /\ mode' = mode /\ duration' = duration /\ clock' = clock /\ run_t0' = 0
      /\ base' = 0 /\ windows' = <<>> /\ script' = <<>>
  BY DEF Join
<1>2. <<>> \in Seq(WindowSet) /\ <<>> \in Seq(Samples) /\ Len(<<>>) = 0
  OBVIOUS
<1>3. ScriptType'
  BY <1>1, <1>2 DEF ScriptInv, ScriptType
<1>4. ScriptIs(mode', Asked', windows', script')
  BY <1>1, ScriptNone
<1>5. RunInv(mode, windows)' /\ AttachInv(mode, windows)'
  BY <1>1, <1>2 DEF RunInv, AttachInv
<1> QED BY <1>3, <1>4, <1>5 DEF ScriptInv

\* The loop over, and the step of a run or of an attach.
LEMMA ScriptFails == ASSUME ScriptInv, SampleFails PROVE ScriptInv'
<1>1. /\ step = "sample" /\ step' = (IF mode = "run" THEN "loop" ELSE "finally")
      /\ mode' = mode /\ duration' = duration /\ clock' = clock /\ target' = target
      /\ run_t0' = run_t0 /\ base' = base /\ windows' = windows /\ script' = script
  BY DEF SampleFails, collecting
<1>2. Asked' = Asked
  BY <1>1 DEF Asked
<1>3. ScriptType'
  BY <1>1 DEF ScriptInv, ScriptType
<1>4. ScriptIs(mode', Asked', windows', script')
  BY <1>1, <1>2 DEF ScriptInv
<1>5. RunInv(mode, windows)'
  <2> SUFFICES ASSUME mode = "run"
               PROVE  /\ \A a, b \in 1..Len(windows) : a < b => windows[a].at + Window <= windows[b].at
                      /\ \A a \in 1..Len(windows) : windows[a].at + Window <= clock - run_t0
    BY <1>1 DEF RunInv
  <2>1. /\ \A a, b \in 1..Len(windows) : a < b => windows[a].at + Window <= windows[b].at
        /\ base <= clock - run_t0 /\ \A a \in 1..Len(windows) : windows[a].at + Window <= base
    BY <1>1 DEF ScriptInv, RunInv
  <2>2. clock \in Nat /\ run_t0 \in Nat /\ base \in Nat
    BY DEF ScriptInv, ScriptType
  <2>3. \A a \in 1..Len(windows) : windows[a].at \in Nat /\ Window \in Nat
    BY WindowsAre
  <2> QED BY <2>1, <2>2, <2>3
<1>6. AttachInv(mode, windows)'
  BY <1>1 DEF ScriptInv, AttachInv
<1> QED BY <1>3, <1>4, <1>5, <1>6 DEF ScriptInv

LEMMA ScriptBegins == ASSUME ScriptInv, Start PROVE ScriptInv'
<1>1. /\ step = "start" /\ step' = (IF mode = "run" THEN "loop" ELSE "sample")
      /\ mode' = mode /\ duration' = duration /\ clock' = clock /\ target' = target
      /\ run_t0' = clock /\ base' = base /\ windows' = windows /\ script' = script
  BY DEF Start
<1>2. Asked' = Asked
  BY <1>1 DEF Asked
<1>3. ScriptType'
  BY <1>1 DEF ScriptInv, ScriptType
<1>4. ScriptIs(mode', Asked', windows', script')
  BY <1>1, <1>2 DEF ScriptInv
<1>5. windows = <<>> /\ (mode = "attach" => base = 0)
  BY <1>1 DEF ScriptInv, ScriptType, RunInv, AttachInv
<1>6. Len(<<>>) = 0
  OBVIOUS
<1>7. RunInv(mode, windows)' /\ AttachInv(mode, windows)'
  BY <1>1, <1>5, <1>6 DEF RunInv, AttachInv
<1> QED BY <1>3, <1>4, <1>7 DEF ScriptInv

LEMMA ScriptInvStep == ASSUME ScriptInv, target \in Targets, [MacNext]_macVars PROVE ScriptInv'
<1> DEFINE Same == /\ mode' = mode /\ duration' = duration /\ windows' = windows /\ script' = script
                   /\ base' = base /\ run_t0' = run_t0
           Goes == \/ step' \notin {"settle", "start", "loop", "sample"}
                   \/ step' = step /\ (target.st # "running" => target'.st # "running")
                   \/ step' = "start" /\ step = "settle"
<1>1. clock \in Nat
  BY DEF ScriptInv, ScriptType
<1>2. ASSUME Same, Goes, clock' = clock \/ clock' = clock + 1 PROVE ScriptInv'
  <2>1. clock' \in Nat /\ clock <= clock'
    BY <1>1, <1>2
  <2> QED BY <1>2, <2>1, ScriptKept
<1> USE DEF collecting, sampling, main
<1>3. CASE Settle
  BY <1>2, <1>3 DEF Settle
<1>4. CASE Start
  BY <1>4, ScriptBegins
<1>5. CASE Loop
  BY <1>5, ScriptLoop
<1>6. ASSUME NEW dump \in Dumps, Sample(dump) PROVE ScriptInv'
  BY <1>6, ScriptSample
<1>7. CASE SampleFails
  BY <1>7, ScriptFails
<1>8. CASE Finally
  BY <1>2, <1>8 DEF Finally
<1>9. CASE Stop
  BY <1>2, <1>9 DEF Stop
<1>10. CASE Join
  BY <1>10, ScriptJoin
<1>11. CASE Total
  BY <1>2, <1>11 DEF Total
<1>12. CASE Intervals
  BY <1>2, <1>12 DEF Intervals
<1>13. CASE Save
  BY <1>2, <1>13 DEF Save
<1>14. CASE Interrupt
  BY <1>2, <1>14 DEF Interrupt
<1>15. CASE Sampler
  <2>1. Same /\ clock' = clock /\ step' = step /\ target' = target
    BY <1>15 DEF Sampler, Begin, Turn, Read
  <2> QED BY <1>2, <2>1
<1>16. CASE Exit
  <2>1. target'.st # "running"
    BY <1>16 DEF Exit, Targets
  <2> QED BY <1>2, <1>16, <2>1 DEF Exit
<1>17. CASE Tick
  <2>1. target.st # "running" => target' = target
    BY <1>17 DEF Tick
  <2> QED BY <1>2, <1>17, <2>1 DEF Tick
<1>18. CASE UNCHANGED macVars
  <2>1. Same /\ clock' = clock /\ step' = step /\ target' = target
    BY <1>18 DEF macVars
  <2> QED BY <1>2, <2>1
<1> QED BY <1>3, <1>4, <1>5, <1>6, <1>7, <1>8, <1>9, <1>10, <1>11, <1>12, <1>13, <1>14, <1>15, <1>16,
           <1>17, <1>18 DEF MacNext, Collect

\* The times of a window's samples rise, if it has the steps for them, and those of a
\* later one come after them.
LEMMA TimesRise ==
  ASSUME NEW md, NEW asked \in Nat, NEW x \in WindowSet, NEW k, NEW l,
         k \in 1..Len(ParseSample(x.dump)), l \in 1..Len(ParseSample(x.dump)), k < l,
         md # "run" => Len(ParseSample(x.dump)) <= asked + 1
  PROVE  TimeOf(md, asked, x, k) < TimeOf(md, asked, x, l)
<1> DEFINE n == Len(ParseSample(x.dump))
<1>1. n \in Nat /\ x.at \in Nat
  <2>1. x.dump \in Dumps /\ x.at \in Nat
    BY DEF WindowSet
  <2>2. ParseSample(x.dump) \in Seq(Samples)
    BY <2>1, ParsedType
  <2> QED BY <2>1, <2>2
<1>2. k \in 1..n /\ l \in 1..n /\ k \in Nat /\ l \in Nat
  BY <1>1
<1>3. CASE md = "run"
  <2>1. TimeOf(md, asked, x, k) = k - 1 + x.at /\ TimeOf(md, asked, x, l) = l - 1 + x.at
    BY <1>3 DEF TimeOf
  <2> QED BY <1>1, <1>2, <2>1
<1>4. CASE md # "run"
  <2> DEFINE q(a) == (a * asked) \div (n - 1)
             Later == {b \in Nat : q(k - 1) < q(k + b)}
  <2>1. ~(n < 2) /\ n <= asked + 1 /\ n - 1 \in Nat /\ n - 1 > 0 /\ n - 1 <= asked
    BY <1>1, <1>2, <1>4
  <2>2. TimeOf(md, asked, x, k) = q(k - 1) /\ TimeOf(md, asked, x, l) = q(l - 1)
    BY <1>4, <2>1 DEF TimeOf
  <2> HIDE DEF n
  <2>3. ASSUME NEW a \in Nat PROVE q(a) < q(a + 1) /\ q(a) \in Nat /\ q(a + 1) \in Nat
    <3>1. q(a) \in Nat /\ q(a) < q(a + 1)
      BY <2>1, Share
    <3>2. q(a + 1) \in Nat
      <4>1. a + 1 \in Nat
        OBVIOUS
      <4> QED BY <2>1, <4>1, Share
    <3> QED BY <3>1, <3>2
  <2>4. k - 1 \in Nat /\ (k - 1) + 1 = k + 0 /\ l - 1 - k \in Nat /\ k + (l - 1 - k) = l - 1
    BY <1>2
  <2> HIDE DEF q
  <2>5. 0 \in Later
    BY <2>3, <2>4
  <2>6. ASSUME NEW b \in Nat, b \in Later PROVE b + 1 \in Later
    <3>1. k + b \in Nat /\ (k + b) + 1 = k + (b + 1) /\ b + 1 \in Nat
      BY <1>2
    <3>2. q(k + b) < q(k + (b + 1)) /\ q(k + b) \in Nat /\ q(k + (b + 1)) \in Nat
      BY <2>3, <3>1
    <3>3. q(k - 1) < q(k + b) /\ q(k - 1) \in Nat
      BY <2>3, <2>4, <2>6
    <3> QED BY <3>1, <3>2, <3>3
  <2>7. Nat \subseteq Later
    <3> HIDE DEF Later
    <3> QED BY <2>5, <2>6, NumberInduction
  <2>8. q(k - 1) < q(l - 1)
    BY <2>4, <2>7
  <2> QED BY <2>2, <2>8
<1> QED BY <1>3, <1>4

LEMMA ScriptIsRight == ASSUME ScriptInv PROVE ScriptIsTheDumps
<1> DEFINE last == Len(windows)
           Of(n) == SubSeq(script, UpTo(windows, n - 1) + 1, UpTo(windows, n))
           t(i) == script[i].time
<1>1. /\ mode \in {"run", "attach"} /\ duration \in Durations
      /\ windows \in Seq(WindowSet) /\ script \in Seq(Samples)
  BY DEF ScriptInv, ScriptType
<1>2. /\ last \in Nat /\ DOMAIN windows = 1..last /\ Len(script) \in Nat /\ DOMAIN script = 1..Len(script)
      /\ \A n \in 1..last : windows[n] \in WindowSet
      /\ \A i \in 1..Len(script) : script[i] \in Samples
  BY <1>1
<1>3. /\ Len(script) = UpTo(windows, last)
      /\ \A n \in 1..last : \A k \in 1..LeavesIn(windows, n) :
           IsSample(mode, Asked, windows[n], k, script[UpTo(windows, n - 1) + k])
  BY DEF ScriptInv, ScriptIs
<1>4. Asked \in Nat
  BY <1>1, AskedType
<1> HIDE DEF last
<1>5. ASSUME NEW n \in 1..last
      PROVE  /\ UpTo(windows, n - 1) \in Nat /\ UpTo(windows, n) \in Nat /\ LeavesIn(windows, n) \in Nat
             /\ UpTo(windows, n) = UpTo(windows, n - 1) + LeavesIn(windows, n)
             /\ UpTo(windows, n) <= Len(script)
  <2>1. n \in 0..last /\ n - 1 \in 0..last /\ last \in 0..last /\ n <= last
    BY <1>2
  <2>2. UpTo(windows, n - 1) \in Nat /\ UpTo(windows, n) \in Nat /\ UpTo(windows, n) <= UpTo(windows, last)
    BY <1>1, <2>1, UpToIs DEF last
  <2>3. UpTo(windows, n) = UpTo(windows, n - 1) + LeavesIn(windows, n)
    BY <1>1, UpToIs DEF last
  <2>4. LeavesIn(windows, n) \in Nat
    BY <1>1, LeavesType DEF last
  <2> QED BY <1>3, <2>2, <2>3, <2>4
<1>6. ASSUME NEW n \in 1..last
      PROVE  /\ Len(Of(n)) = LeavesIn(windows, n)
             /\ \A k \in 1..LeavesIn(windows, n) : /\ Of(n)[k] = script[UpTo(windows, n - 1) + k]
                                                   /\ UpTo(windows, n - 1) + k \in 1..Len(script)
  <2> DEFINE a == UpTo(windows, n - 1)
             b == UpTo(windows, n)
             l == LeavesIn(windows, n)
  <2>1. a \in Nat /\ b \in Nat /\ l \in Nat /\ b = a + l /\ b <= Len(script)
    BY <1>5
  <2> HIDE DEF a, b, l
  <2>2. Len(SubSeq(script, a + 1, b)) = l
    <3>1. a + 1 \in Nat
      BY <2>1
    <3> QED BY <1>1, <1>2, <2>1, <3>1
  <2>3. ASSUME NEW k \in 1..l PROVE SubSeq(script, a + 1, b)[k] = script[a + k] /\ a + k \in 1..Len(script)
    <3>1. k \in 1..(b - (a + 1) + 1) /\ (a + 1) + k - 1 = a + k /\ a + k \in 1..Len(script)
      BY <1>2, <2>1
    <3>2. a + 1 \in 1..(Len(script) + 1) /\ b \in a..Len(script)
      BY <1>2, <2>1
    <3> QED BY <1>1, <1>2, <2>1, <3>1, <3>2
  <2> QED BY <2>2, <2>3 DEF a, b, l
<1>7. ASSUME NEW n \in 1..last PROVE IsOf(windows[n].dump, Of(n))
  <2> DEFINE d == windows[n].dump
             o == Of(n)
  <2>1. IsDump(d) /\ Len(ParseSample(d)) = LeavesIn(windows, n)
    BY <1>2, DumpsAreDumps DEF WindowSet, LeavesIn
  <2>2. Len(o) = Len(ParseSample(d))
    BY <1>6, <2>1
  <2>3. \A k \in 1..Len(ParseSample(d)) : SaysAs(ParseSample(d)[k], o[k])
    BY <1>3, <1>6, <2>1 DEF IsSample
  <2> HIDE DEF d, o
  <2>4. IsOf(d, o)
    BY <2>1, <2>2, <2>3, ParsedTells
  <2> QED BY <2>4 DEF d, o
<1>8. ASSUME NEW n \in 1..last, NEW k \in 1..LeavesIn(windows, n)
      PROVE  script[UpTo(windows, n - 1) + k].time = TimeOf(mode, Asked, windows[n], k)
  BY <1>3 DEF IsSample
<1>9. ASSUME NEW n \in 1..last, NEW k \in DOMAIN Of(n) PROVE Of(n)[k].time >= windows[n].at
  <2> DEFINE x == windows[n]
  <2>1. k \in 1..LeavesIn(windows, n) /\ k \in Nat
    <3>1. Of(n) \in Seq(Samples)
      <4>1. UpTo(windows, n - 1) + 1 \in Nat /\ UpTo(windows, n - 1) + 1 >= 1 /\ UpTo(windows, n) \in Nat
            /\ UpTo(windows, n) <= Len(script)
        BY <1>5
      <4> QED BY <1>1, <1>2, <4>1
    <3>2. DOMAIN Of(n) = 1..Len(Of(n))
      BY <3>1
    <3> QED BY <1>5, <1>6, <3>2
  <2>2. Of(n)[k].time = TimeOf(mode, Asked, x, k)
    BY <1>6, <1>8, <2>1
  <2>3. x \in WindowSet /\ x.at \in Nat /\ k \in 1..Len(ParseSample(x.dump))
    BY <1>2, <2>1 DEF WindowSet, LeavesIn
  <2>4. TimeOf(mode, Asked, x, k) >= x.at
    <3>1. CASE mode = "run"
      <4>1. TimeOf(mode, Asked, x, k) = k - 1 + x.at
        BY <3>1 DEF TimeOf
      <4> QED BY <2>1, <2>3, <4>1
    <3>2. CASE mode = "attach"
      <4>1. x.at = 0
        BY <3>2 DEF ScriptInv, AttachInv, last
      <4>2. TimeOf(mode, Asked, x, k) \in Nat
        BY <1>4, <2>3, TimeType
      <4> QED BY <4>1, <4>2
    <3> QED BY <1>1, <3>1, <3>2
  <2> QED BY <2>2, <2>4
<1>10. ASSUME \A n \in 1..last : LeavesIn(windows, n) <= Room,
              NEW i \in 1..Len(script), NEW j \in 1..Len(script), i < j
       PROVE  t(i) < t(j)
  <2>1n. PICK n \in 1..last : \E k \in 1..LeavesIn(windows, n) : i = UpTo(windows, n - 1) + k
    <3>1. i \in 1..UpTo(windows, Len(windows))
      BY <1>3 DEF last
    <3> QED BY <1>1, <3>1, SampleIsOfAWindow DEF last
  <2>1. PICK k \in 1..LeavesIn(windows, n) : i = UpTo(windows, n - 1) + k
    BY <2>1n
  <2>2m. PICK m \in 1..last : \E l \in 1..LeavesIn(windows, m) : j = UpTo(windows, m - 1) + l
    <3>1. j \in 1..UpTo(windows, Len(windows))
      BY <1>3 DEF last
    <3> QED BY <1>1, <3>1, SampleIsOfAWindow DEF last
  <2>2. PICK l \in 1..LeavesIn(windows, m) : j = UpTo(windows, m - 1) + l
    BY <2>2m
  <2> DEFINE x == windows[n]
             y == windows[m]
  <2>3. t(i) = TimeOf(mode, Asked, x, k) /\ t(j) = TimeOf(mode, Asked, y, l)
    BY <1>8, <2>1, <2>2
  <2>4. x \in WindowSet /\ y \in WindowSet /\ x.at \in Nat /\ y.at \in Nat /\ k \in Nat /\ l \in Nat
        /\ k >= 1 /\ l >= 1 /\ k <= LeavesIn(windows, n) /\ l <= LeavesIn(windows, m)
        /\ n \in Nat /\ m \in Nat
    <3>1. x \in WindowSet /\ y \in WindowSet /\ n \in Nat /\ m \in Nat
      BY <1>2
    <3>2. LeavesIn(windows, n) \in Nat /\ LeavesIn(windows, m) \in Nat
      BY <1>5
    <3>3. x.at \in Nat /\ y.at \in Nat
      <4> HIDE DEF x, y
      <4> QED BY <3>1 DEF WindowSet
    <3> HIDE DEF x, y
    <3> QED BY <3>1, <3>2, <3>3
  <2>5. n <= m
    <3> SUFFICES ASSUME m < n PROVE FALSE
      BY <2>4
    <3>1. m \in 0..last /\ n - 1 \in 0..last /\ m <= n - 1
      BY <1>2, <2>4
    <3>2. UpTo(windows, m) <= UpTo(windows, n - 1)
      BY <1>1, <3>1, UpToIs DEF last
    <3>3. /\ UpTo(windows, m) = UpTo(windows, m - 1) + LeavesIn(windows, m)
          /\ UpTo(windows, m) \in Nat /\ UpTo(windows, m - 1) \in Nat /\ UpTo(windows, n - 1) \in Nat
          /\ LeavesIn(windows, m) \in Nat
      BY <1>5
    <3>4. j <= i
      <4>1. j <= UpTo(windows, m)
        BY <2>2, <2>4, <3>3
      <4>2. UpTo(windows, n - 1) <= i
        BY <2>1, <2>4, <3>3
      <4>3. \A p, q, u, v \in Nat : p <= q /\ q <= u /\ u <= v => p <= v
        OBVIOUS
      <4>4. i \in Nat /\ j \in Nat
        BY <1>2
      <4> QED BY <3>2, <3>3, <4>1, <4>2, <4>3, <4>4
    <3> QED BY <1>10, <3>4, <1>2
  <2>6. CASE n = m
    <3>1. k < l
      <4>1. UpTo(windows, n - 1) \in Nat
        BY <1>5
      <4> QED BY <1>10, <2>1, <2>2, <2>4, <2>6, <4>1
    <3>2. k \in 1..Len(ParseSample(x.dump)) /\ l \in 1..Len(ParseSample(x.dump))
      BY <2>1, <2>2, <2>6 DEF LeavesIn
    <3>3. mode # "run" => Len(ParseSample(x.dump)) <= Asked + 1
      BY <1>10 DEF Room, LeavesIn
    <3> HIDE DEF x
    <3>4. TimeOf(mode, Asked, x, k) < TimeOf(mode, Asked, x, l)
      BY <1>4, <2>4, <3>1, <3>2, <3>3, TimesRise
    <3> QED BY <2>3, <2>6, <3>4 DEF x
  <2>7. CASE n # m
    <3>1. n < m
      BY <2>4, <2>5, <2>7
    <3>2. mode = "run"
      <4>1. mode = "attach" => last <= 1
        BY DEF ScriptInv, AttachInv, last
      <4> QED BY <1>1, <1>2, <3>1, <4>1
    <3>3. x.at + Window <= y.at
      BY <3>1, <3>2 DEF ScriptInv, RunInv, last
    <3>4. LeavesIn(windows, n) <= Window
      BY <1>10, <3>2 DEF Room
    <3>5. t(i) = k - 1 + x.at /\ t(j) = l - 1 + y.at
      BY <2>3, <3>2 DEF TimeOf
    <3>6. Window \in Nat /\ LeavesIn(windows, n) \in Nat
      BY <1>5, MacosConstants
    <3> HIDE DEF t, x, y
    <3>7. \A a, b, p, q, u, v \in Nat :
            p <= u /\ u <= v /\ a + v <= b /\ q >= 1 => p - 1 + a < q - 1 + b
      OBVIOUS
    <3>8. k - 1 + x.at < l - 1 + y.at
      BY <2>4, <3>3, <3>4, <3>6, <3>7
    <3> QED BY <3>5, <3>8
  <2> QED BY <2>6, <2>7
<1> QED BY <1>2, <1>7, <1>9, <1>10 DEF ScriptIsTheDumps, UpTo, LeavesIn, last

LEMMA ScriptInvariant == MacSpec => []ScriptInv
<1>1. MacosInv => target \in Targets
  BY DEF MacosInv, MacosType, Targets
<1>2. ScriptInv /\ target \in Targets /\ [MacNext]_macVars => ScriptInv'
  BY ScriptInvStep
<1> QED BY <1>1, <1>2, ScriptStart, MacosInvariant, PTL DEF MacSpec

\* script.txt is the dumps: a sample for every line of a thread that calls none, in
\* order, with the lines the indentation leads there by; and its times rise.
THEOREM ScriptHoldsTheDumps == MacSpec => []ScriptIsTheDumps
<1>1. ScriptInv => ScriptIsTheDumps
  BY ScriptIsRight
<1> QED BY <1>1, ScriptInvariant, PTL
=============================================================================
