----------------------------- MODULE DumpsProofs -----------------------------
(***************************************************************************)
(* Proofs about the dumps, for every length of the memory report's ladder, *)
(* and about the Memory tab, for every report.  The dumps' invariant       *)
(* follows each child from its start to the join that settles it, and each *)
(* file from its opening to the report.  The tab's says that the rows kept *)
(* by slice are the rows folded: the page's numbers are then sums over the *)
(* same rows, by other keys.                                               *)
(***************************************************************************)
EXTENDS Dumps, Memory, PerfProcessProofs, SumTheorems

Ended      == {"over", "replayed"}
PastMem    == {"retry", "settle", "compact", "retire", "freq", "rss", "meta"}
PastScript == PastMem \cup {"carve", "found", "joinMem"}
BeforeMem  == {"stat", "startScript", "startMem", "joinScript", "carve", "found", "joinMem"}
Unsaid     == {"stat", "startScript", "startMem", "joinScript"}
Settling   == {"compact", "retire", "freq", "rss", "meta"}

\* Never started, or joined.
Settled(p) == child[p] = "absent" \/ op[p] = "done"

\* The children, by the place the thread has reached.
ChildrenInv ==
  /\ ~session.recordOk => child["script"] = "absent"
  /\ ~WantMem => child["mem"] = "absent"
  /\ pc \in {"joinScript", "carve", "found"} => session.recordOk
  /\ pc \in {"joinMem", "retry", "settle", "compact"} => WantMem
  /\ pc \in PastScript \/ outcome = "report" => Settled("script")
  /\ pc \in PastMem \/ outcome = "report" => Settled("mem")

OutcomeInv == pc \in Ended <=> outcome # "none"

\* What is reported is in the state the report reads it in.
PartsInv ==
  /\ reported \subseteq Files \ {"data", "meta"}
  /\ pc \in Unsaid => reported \subseteq {"stat"}
  /\ "script" \in reported /\ pc # "carve" => files["script"] = "cut"
  /\ "wait" \in reported => files["wait"] = "whole" /\ pc \notin {"carve", "found"}
  /\ pc = "found" => files["wait"] \in {"whole", "blank"}
  /\ \A f \in Timelines : f \in reported => files[f] = "whole"
  /\ "mem" \in reported => files["mem"] \in Samples

\* The ladder: nothing before it, nothing lost on it, nothing forgotten after it.
LadderInv ==
  /\ pc = "joinMem" => attempt = 0
  /\ pc \in BeforeMem => attempt = 0 /\ ~best /\ offered = {} /\ "mem" \notin reported
  /\ pc = "retry" => attempt < Rungs
  /\ pc \in {"retry", "settle"} => /\ "mem" \notin reported /\ "full" \notin offered
                                   /\ best <=> "bare" \in offered
  /\ pc \in Settling \/ outcome = "report" =>
       /\ "mem" \in reported <=> offered # {}
       /\ "full" \in offered => files["mem"] = "full"

\* In a new directory, what is not reported is not there.
FreshInv ==
  /\ pc # "stat" /\ outcome # "raised" => ("stat" \in reported <=> Parses)
  /\ ~session.reused /\ outcome # "raised" =>
       /\ \A f \in Timelines : f \notin reported => files[f] = "absent"
       /\ "wait" \notin reported /\ pc # "found" => files["wait"] = "absent"
       /\ ~session.recordOk => files["script"] = "absent"
       /\ ~WantMem => files["mem"] = "absent"
  /\ pc = "replayed" => loaded = {f \in Files \ {"data", "meta", "stat"} : files[f] # "absent"}
                                 \cup (IF Parses THEN {"stat"} ELSE {})

DumpInv == DumpTypeOK /\ ProcInv /\ ChildrenInv /\ OutcomeInv /\ PartsInv /\ LadderInv /\ FreshInv

-----------------------------------------------------------------------------
(* What the children's own steps may change.                               *)

LEMMA ProcsVal == \A p : p \in Procs <=> p = "script" \/ p = "mem"
  BY DumpsAssumption

LEMMA RungsVal == Rungs \in Nat /\ Rungs > 0 /\ 0 \in 0..Rungs
  BY DumpsAssumption

\* A step of a join leaves every child, and every other handle, alone.
LEMMA JoinFrame ==
  ASSUME NEW p \in Procs, JoinStep(p), ProcTypeOK
  PROVE  child' = child /\ \A q \in Procs \ {p} : op'[q] = op[q]
  BY DEF JoinStep, JoinWait, ReapSend, ReapWait, ReapLast, ProcTypeOK

\* A child's end leaves the handles alone, and a file only changes under a child
\* no handle is done with.
LEMMA EndFrame ==
  ASSUME NEW p \in Procs, DumpEnds(p), ProcInv
  PROVE  /\ op' = op /\ child[p] = "running" /\ child' = [child EXCEPT ![p] = "exited"]
         /\ \/ files' = files
            \/ op[p] # "done" /\ \E c \in Output(p) : files' = [files EXCEPT ![p] = c]
         /\ UNCHANGED <<session, pc, attempt, best, reported, outcome, loaded, offered>>
<1>1. op[p] = "done" /\ child[p] = "running" => sig[p] = "KILL"
  BY ExpectedVal DEF ProcInv, LiveSig
<1>2. QED  BY <1>1 DEF DumpEnds, Exit, ExitOnInt, ExitOnTerm

\* Every step keeps the handles' own invariant.
LEMMA HandlesInv == ASSUME ProcInv, [Next]_vars PROVE ProcInv'
<1>1. CASE UNCHANGED procVars
  BY <1>1 DEF procVars, ProcInv, ProcTypeOK, LiveSig, EarlySig, FlagSig, CodeSig, NoCleanEscalation
<1>2. ASSUME NEW p \in Procs, JoinStep(p) PROVE ProcInv'  BY <1>2, JoinStepInv
<1>3. ASSUME NEW p \in Procs, Spawn(p) PROVE ProcInv'  BY <1>3, SpawnInv
<1>4. ASSUME NEW p \in Procs, DumpEnds(p) PROVE ProcInv'
  BY <1>4, ExitInv DEF DumpEnds, ExitOnInt, ExitOnTerm
<1>5. QED
  BY <1>1, <1>2, <1>3, <1>4, ProcsVal
     DEF Next, Thread, ReadStat, StartScript, StartMem, Start, JoinScript, Carve, Found, JoinMem,
         Retry, Settle, Compact, Retire, WriteFreq, WriteRss, Write, WriteMeta, Abort, Replay,
         Over, vars

\* Where the thread is decides what it does; every action but these is a local step.
LocalStep == \/ ReadStat \/ Carve \/ Found \/ Settle \/ Compact \/ Retire \/ WriteFreq
             \/ WriteRss \/ WriteMeta \/ Retry \/ Abort \/ Replay

LEMMA NextCases ==
  ASSUME Next
  PROVE  \/ LocalStep \/ StartScript \/ StartMem \/ JoinScript \/ JoinMem
         \/ UNCHANGED vars \/ \E p \in Procs : DumpEnds(p)
  BY DEF Next, Thread, LocalStep, Over

LEMMA LocalFrame == ASSUME LocalStep PROVE UNCHANGED <<procVars, session>>
  BY DEF LocalStep, ReadStat, Carve, Found, Settle, Compact, Retire, WriteFreq, WriteRss, Write,
         WriteMeta, Retry, Abort, Replay

-----------------------------------------------------------------------------
LEMMA TypeStep == ASSUME DumpInv, [Next]_vars PROVE DumpTypeOK'
<1> USE DEF DumpTypeOK
<1>0. ProcTypeOK'  BY HandlesInv DEF DumpInv, ProcInv
<1>1. CASE UNCHANGED vars  BY <1>0, <1>1 DEF vars, dumpVars, DumpInv
<1>2. CASE ReadStat \/ Found \/ Compact \/ Retire \/ WriteMeta \/ Replay
  BY <1>0, <1>2 DEF ReadStat, Found, Compact, Retire, WriteMeta, Replay,
                    DumpInv, Pc, Files, Content, AfterScript
<1>2a. CASE Carve
  BY <1>0, <1>2a DEF Carve, DumpInv, Pc, Content, AfterScript
<1>2b. CASE Settle
  <2>1. CASE best
    BY <1>0, <1>2b, <2>1, RungsVal DEF Settle, DumpInv, Pc, Files, Content, Reports
  <2>2. CASE ~best
    BY <1>0, <1>2b, <2>2, RungsVal DEF Settle, DumpInv, Pc
  <2>3. QED  BY <2>1, <2>2
<1>3. CASE WriteFreq
  BY <1>0, <1>3 DEF WriteFreq, Write, DumpInv, Pc, Files, Timelines, Content
<1>3a. CASE WriteRss
  BY <1>0, <1>3a DEF WriteRss, Write, DumpInv, Pc, Files, Timelines, Content
<1>4. CASE Abort
  <2>1. files' \in [Files -> Content]
    <3>1. files' = files \/ files' = [files EXCEPT ![Writing] = "part"]
      BY <1>4 DEF Abort
    <3>2. QED  BY <3>1 DEF DumpInv, Content
  <2>2. QED  BY <1>0, <1>4, <2>1, RungsVal DEF Abort, DumpInv, Pc
<1>5. ASSUME NEW r \in Reports \cup {"failed"}, Judge(r), attempt < Rungs
      PROVE  attempt' \in 0..Rungs /\ best' \in BOOLEAN /\ offered' \in SUBSET Samples
             /\ reported' \in SUBSET Files /\ pc' \in Pc
  <2>1. attempt' \in 0..Rungs  BY <1>5, RungsVal DEF Judge, DumpInv
  <2>2. best' \in BOOLEAN  BY <1>5 DEF Judge, DumpInv
  <2>3. offered' \in SUBSET Samples  BY <1>5 DEF Judge, DumpInv
  <2>4. reported' \in SUBSET Files /\ pc' \in Pc  BY <1>5 DEF Judge, DumpInv, Pc, Files
  <2>5. QED  BY <2>1, <2>2, <2>3, <2>4
<1>6. CASE Retry
  BY <1>0, <1>5, <1>6, RungsVal DEF Retry, DumpInv, LadderInv, Files, Content
<1>7. CASE JoinMem
  BY <1>0, <1>5, <1>7, RungsVal DEF JoinMem, DumpInv, LadderInv
<1>8. CASE StartScript \/ StartMem \/ JoinScript
  BY <1>0, <1>8 DEF StartScript, StartMem, JoinScript, Start, DumpInv, Pc, Files, Content, AfterScript
<1>9. ASSUME NEW p \in Procs, DumpEnds(p) PROVE DumpTypeOK'
  <2>1. \A c \in Output(p) : c \in Content  BY DEF Output, Content, Reports
  <2>2. files' \in [Files -> Content]  BY <1>9, <2>1, EndFrame DEF DumpInv
  <2>3. QED  BY <1>0, <1>9, <2>2, EndFrame DEF DumpInv
<1>10. QED
  BY <1>1, <1>2, <1>2a, <1>2b, <1>3, <1>3a, <1>4, <1>6, <1>7, <1>8, <1>9, NextCases DEF LocalStep

LEMMA ChildrenStep == ASSUME DumpInv, [Next]_vars PROVE ChildrenInv' /\ OutcomeInv'
<1> USE DEF ChildrenInv, OutcomeInv, Settled, PastScript, PastMem, Ended, WantMem
<1>1. CASE UNCHANGED vars  BY <1>1 DEF vars, procVars, dumpVars, DumpInv
<1>2. CASE LocalStep
  <2>1. UNCHANGED <<child, op, session>>  BY <1>2, LocalFrame DEF procVars
  <2>2. QED
    BY <1>2, <2>1 DEF LocalStep, ReadStat, Carve, Found, Settle, Compact, Retire, WriteFreq,
        WriteRss, Write, WriteMeta, Retry, Judge, Abort, Replay, AfterScript, DumpInv, DumpTypeOK
<1>3. CASE StartScript
  BY <1>3, ProcsVal DEF StartScript, Start, Spawn, DumpInv, DumpTypeOK, ProcTypeOK, procVars
<1>3a. CASE StartMem
  BY <1>3a, ProcsVal DEF StartMem, Start, Spawn, DumpInv, DumpTypeOK, ProcTypeOK, procVars
<1>4. CASE JoinScript
  <2>1. CASE JoinStep("script") /\ UNCHANGED <<pc, reported>>
    BY <1>4, <2>1, ProcsVal, JoinFrame DEF JoinScript, DumpInv, DumpTypeOK
  <2>2. CASE op["script"] = "done" /\ UNCHANGED procVars
    BY <1>4, <2>2 DEF JoinScript, AfterScript, DumpInv, DumpTypeOK, procVars
  <2>3. QED  BY <1>4, <2>1, <2>2 DEF JoinScript
<1>5. CASE JoinMem
  <2>1. CASE JoinStep("mem") /\ UNCHANGED <<pc, attempt, best, reported, offered>>
    BY <1>5, <2>1, ProcsVal, JoinFrame DEF JoinMem, DumpInv, DumpTypeOK
  <2>2. CASE op["mem"] = "done" /\ (\E r \in Reports \cup {"failed"} : Judge(r)) /\ UNCHANGED procVars
    <3>1. pc' \in {"compact", "retry", "settle"} /\ pc = "joinMem"
      BY <1>5, <2>2 DEF JoinMem, Judge
    <3> QED BY <1>5, <2>2, <3>1 DEF JoinMem, DumpInv, DumpTypeOK, procVars
  <2> QED BY <1>5, <2>1, <2>2 DEF JoinMem
<1>6. ASSUME NEW p \in Procs, DumpEnds(p) PROVE ChildrenInv' /\ OutcomeInv'
  BY <1>6, EndFrame, ProcsVal DEF DumpInv, DumpTypeOK, ProcTypeOK
<1>7. QED  BY <1>1, <1>2, <1>3, <1>3a, <1>4, <1>5, <1>6, NextCases

\* A child that can still change its file is one the thread has not joined, and
\* nothing has been reported of it.
LEMMA UnjoinedUnsaid ==
  ASSUME DumpInv, NEW p \in Procs, child[p] = "running", op[p] # "done", pc \notin Ended
  PROVE  /\ p \notin reported /\ outcome # "report"
         /\ p = "script" => pc \in Unsaid /\ session.recordOk
         /\ p = "mem" => pc \in BeforeMem /\ WantMem
<1>1. ~Settled(p)  BY DEF Settled
<1>2. outcome # "report"  BY DEF DumpInv, OutcomeInv
<1>3. CASE p = "script"
  <2>1. pc \in Unsaid /\ session.recordOk
    BY <1>1, <1>3 DEF DumpInv, ChildrenInv, DumpTypeOK, Pc, PastScript, PastMem, Unsaid, Ended, Settled
  <2>2. QED  BY <1>2, <1>3, <2>1 DEF DumpInv, PartsInv
<1>4. CASE p = "mem"
  <2>1. pc \in BeforeMem /\ WantMem
    BY <1>1, <1>4 DEF DumpInv, ChildrenInv, DumpTypeOK, Pc, PastMem, BeforeMem, Ended, Settled
  <2>2. QED  BY <1>2, <1>4, <2>1 DEF DumpInv, LadderInv
<1>5. QED  BY <1>3, <1>4, ProcsVal

\* A child's end, seen from the files.
LEMMA EndFiles ==
  ASSUME DumpInv, NEW p \in Procs, DumpEnds(p)
  PROVE  /\ UNCHANGED <<session, pc, attempt, best, reported, outcome, loaded, offered>>
         /\ \A f \in Files : f # p => files'[f] = files[f]
         /\ files' # files => /\ p \notin reported /\ outcome # "report" /\ pc \notin Ended
                              /\ p = "script" => pc \in Unsaid /\ session.recordOk
                              /\ p = "mem" => pc \in BeforeMem /\ WantMem
<1>1. pc \notin Ended  BY DEF DumpEnds, Ended
<1>2. QED  BY <1>1, EndFrame, UnjoinedUnsaid DEF DumpInv, DumpTypeOK

LEMMA PartsStep == ASSUME DumpInv, [Next]_vars PROVE PartsInv'
<1> USE DEF PartsInv, Unsaid, Timelines
<1>1. CASE UNCHANGED vars  BY <1>1 DEF vars, dumpVars, DumpInv
<1>2. CASE ReadStat  BY <1>2 DEF ReadStat, DumpInv, DumpTypeOK, Files
<1>2a. CASE Carve  BY <1>2a DEF Carve, AfterScript, DumpInv, DumpTypeOK, Files
<1>2b. CASE Found
  <2>1. CASE files["wait"] = "blank"
    BY <1>2b, <2>1 DEF Found, AfterScript, DumpInv, DumpTypeOK, Files
  <2>2. CASE files["wait"] # "blank"
    <3>1. /\ reported' = reported \cup {"wait"} /\ files' = files /\ files["wait"] = "whole"
          /\ pc = "found" /\ pc' \in {"joinMem", "retire"}
      BY <1>2b, <2>2 DEF Found, AfterScript, DumpInv
    <3>2. QED  BY <3>1 DEF DumpInv, Files
  <2>3. QED  BY <2>1, <2>2
<1>2c. CASE Compact  BY <1>2c DEF Compact, DumpInv
<1>2d. CASE WriteMeta
  <2>1. \A f \in Files \ {"meta"} : files'[f] = files[f]
    BY <1>2d DEF WriteMeta, DumpInv, DumpTypeOK
  <2>2. QED  BY <1>2d, <2>1 DEF WriteMeta, DumpInv, Files
<1>2e. CASE Replay  BY <1>2e DEF Replay, DumpInv
<1>3. CASE Retire  BY <1>3 DEF Retire, DumpInv, DumpTypeOK, Files
<1>4. CASE WriteFreq  BY <1>4 DEF WriteFreq, Write, DumpInv, DumpTypeOK, Files
<1>5. CASE WriteRss  BY <1>5 DEF WriteRss, Write, DumpInv, DumpTypeOK, Files
<1>6. CASE Abort  BY <1>6 DEF Abort
<1>7. CASE Settle
  <2>1. CASE best
    <3>1. /\ pc = "settle" /\ pc' = "compact" /\ reported' = reported \cup {"mem"}
          /\ files'["mem"] = "bare" /\ \A f \in Files \ {"mem"} : files'[f] = files[f]
      BY <1>7, <2>1 DEF Settle, DumpInv, DumpTypeOK, Files
    <3>2. QED  BY <3>1 DEF DumpInv, Files, Samples
  <2>2. CASE ~best  BY <1>7, <2>2 DEF Settle, DumpInv, DumpTypeOK
  <2>3. QED  BY <2>1, <2>2
<1>8. CASE Retry  BY <1>8 DEF Retry, Judge, LadderInv, DumpInv, DumpTypeOK, Files, Samples
<1>9. CASE StartScript \/ StartMem
  BY <1>9 DEF StartScript, StartMem, Start, DumpInv, DumpTypeOK, Files
<1>10. CASE JoinScript  BY <1>10 DEF JoinScript, AfterScript, DumpInv, DumpTypeOK, Files
<1>11. CASE JoinMem
  <2>1. CASE UNCHANGED <<pc, reported, files>>
    BY <2>1 DEF DumpInv
  <2>2. ASSUME NEW r \in Reports \cup {"failed"}, r # "failed" => r = files["mem"], Judge(r)
        PROVE  PartsInv'
    BY <1>11, <2>2 DEF JoinMem, Judge, DumpInv, DumpTypeOK, Files, Samples
  <2>3. QED  BY <1>11, <2>1, <2>2 DEF JoinMem
<1>12. ASSUME NEW p \in Procs, DumpEnds(p) PROVE PartsInv'
  BY <1>12, EndFiles, ProcsVal DEF DumpInv, Files
<1>13. QED
  BY <1>1, <1>2, <1>2a, <1>2b, <1>2c, <1>2d, <1>2e, <1>3, <1>4, <1>5, <1>6, <1>7, <1>8, <1>9, <1>10, <1>11,
     <1>12, NextCases
     DEF LocalStep

LEMMA LadderStep == ASSUME DumpInv, [Next]_vars PROVE LadderInv'
<1> USE DEF LadderInv, BeforeMem, Settling
<1>1. CASE UNCHANGED vars  BY <1>1 DEF vars, dumpVars, DumpInv
<1>2. CASE ReadStat \/ Carve \/ Found \/ Compact \/ WriteMeta \/ Replay
  BY <1>2 DEF ReadStat, Carve, Found, Compact, WriteMeta, Replay, AfterScript, DumpInv,
              DumpTypeOK, OutcomeInv, Ended, Files
<1>3. CASE Retire \/ WriteFreq \/ WriteRss
  BY <1>3 DEF Retire, WriteFreq, WriteRss, Write, DumpInv, DumpTypeOK, OutcomeInv, Ended, Files
<1>4. CASE Abort  BY <1>4 DEF Abort
<1>5. CASE Settle
  <2>1. CASE best  BY <1>5, <2>1 DEF Settle, DumpInv, DumpTypeOK, OutcomeInv, Ended, Samples
  <2>2. CASE ~best  BY <1>5, <2>2 DEF Settle, DumpInv, DumpTypeOK, OutcomeInv, Ended, Samples
  <2>3. QED  BY <2>1, <2>2
<1>6. ASSUME NEW r \in Reports \cup {"failed"}, Judge(r), pc \in {"joinMem", "retry"},
             r = "full" => files'["mem"] = "full", UNCHANGED <<session, outcome>>
      PROVE  LadderInv'
  <2>1. outcome' = "none"  BY <1>6 DEF DumpInv, OutcomeInv, Ended
  <2>2. "mem" \notin reported /\ "full" \notin offered /\ (best <=> "bare" \in offered)
    BY <1>6 DEF DumpInv
  <2>3. CASE r = "full"  BY <1>6, <2>1, <2>2, <2>3 DEF Judge, Samples
  <2>4. CASE r = "bare"  BY <1>6, <2>1, <2>2, <2>4 DEF Judge, Samples
  <2>5. CASE r \notin Samples  BY <1>6, <2>1, <2>2, <2>5 DEF Judge, Samples
  <2>6. QED  BY <2>3, <2>4, <2>5 DEF Samples
<1>7. CASE Retry  BY <1>6, <1>7 DEF Retry, DumpInv, DumpTypeOK, Files
<1>8. CASE StartScript \/ StartMem
  BY <1>8 DEF StartScript, StartMem, DumpInv, OutcomeInv, Ended, ChildrenInv
<1>9. CASE JoinScript
  BY <1>9 DEF JoinScript, AfterScript, DumpInv, OutcomeInv, Ended
<1>10. CASE JoinMem
  <2>1. CASE UNCHANGED <<pc, attempt, best, reported, offered, files, outcome>>
    BY <2>1 DEF DumpInv
  <2>2. CASE \E r \in Reports \cup {"failed"} :
               /\ r # "failed" => result["mem"] = "ok" /\ r = files["mem"]
               /\ Judge(r)
    BY <1>6, <1>10, <2>2 DEF JoinMem
  <2>3. QED  BY <1>10, <2>1, <2>2 DEF JoinMem
<1>11. ASSUME NEW p \in Procs, DumpEnds(p) PROVE LadderInv'
  BY <1>11, EndFiles, ProcsVal DEF DumpInv, Files
<1>12. QED
  BY <1>1, <1>2, <1>3, <1>4, <1>5, <1>7, <1>8, <1>9, <1>10, <1>11, NextCases DEF LocalStep

LEMMA FreshStep == ASSUME DumpInv, [Next]_vars PROVE FreshInv'
<1> USE DEF FreshInv, Parses, Timelines
<1>1. CASE UNCHANGED vars  BY <1>1 DEF vars, dumpVars, DumpInv, WantMem
<1>2. CASE ReadStat  BY <1>2 DEF ReadStat, DumpInv, PartsInv, OutcomeInv, Ended, Unsaid, WantMem
<1>3. CASE Carve
  BY <1>3 DEF Carve, AfterScript, DumpInv, DumpTypeOK, Files, PartsInv, ChildrenInv,
              PastScript, Settled, WantMem
<1>4. CASE Found
  BY <1>4 DEF Found, AfterScript, DumpInv, DumpTypeOK, Files, PartsInv, WantMem
<1>5. CASE Compact \/ WriteMeta
  <2>1. \A f \in Files : f # "meta" => files'[f] = files[f]
    BY <1>5 DEF Compact, WriteMeta, DumpInv, DumpTypeOK
  <2>2. /\ pc \in {"compact", "meta"} /\ pc' \in {"retire", "over"} /\ outcome = "none"
        /\ UNCHANGED <<session, reported, loaded>>
    BY <1>5 DEF Compact, WriteMeta, DumpInv, OutcomeInv, Ended
  <2>3. QED  BY <2>1, <2>2 DEF DumpInv, Files, WantMem
<1>5a. CASE Retire
  <2>1. \A f \in Files : f # "data" => files'[f] = files[f]
    BY <1>5a DEF Retire, DumpInv, DumpTypeOK
  <2>2. QED  BY <1>5a, <2>1 DEF Retire, DumpInv, Files, WantMem
<1>6. CASE WriteFreq \/ WriteRss
  BY <1>6 DEF WriteFreq, WriteRss, Write, DumpInv, DumpTypeOK, Files, WantMem
<1>7. CASE Abort  BY <1>7 DEF Abort
<1>8. CASE Replay  BY <1>8 DEF Replay, DumpInv, DumpTypeOK, Files, WantMem
<1>9. CASE Settle \/ Retry \/ (JoinMem /\ pc' # pc)
  <2>1. WantMem /\ pc \in {"joinMem", "retry", "settle"} /\ pc' \notin {"found", "replayed"}
        /\ UNCHANGED <<session, outcome>>
    BY <1>9 DEF Settle, Retry, JoinMem, Judge, DumpInv, ChildrenInv
  <2>2. reported' = reported \/ reported' = reported \cup {"mem"}
    BY <1>9 DEF Settle, Retry, JoinMem, Judge
  <2>3. \A f \in Files : f # "mem" => files'[f] = files[f]
    BY <1>9 DEF Settle, Retry, JoinMem, DumpInv, DumpTypeOK
  <2>4. QED  BY <2>1, <2>2, <2>3 DEF DumpInv, Files, WantMem
<1>10. CASE StartScript
  BY <1>10 DEF StartScript, Start, DumpInv, DumpTypeOK, Files, PartsInv, Unsaid, WantMem
<1>11. CASE StartMem
  BY <1>11 DEF StartMem, Start, DumpInv, DumpTypeOK, Files, PartsInv, Unsaid, WantMem
<1>12. CASE JoinScript
  BY <1>12 DEF JoinScript, AfterScript, DumpInv, DumpTypeOK, Files, WantMem
<1>13. CASE JoinMem /\ pc' = pc
  <2>1. UNCHANGED <<pc, reported, files, session, outcome>>
    BY <1>13 DEF JoinMem, Judge
  <2>2. QED  BY <1>13, <2>1 DEF JoinMem, DumpInv, WantMem
<1>14. ASSUME NEW p \in Procs, DumpEnds(p) PROVE FreshInv'
  BY <1>14, EndFiles, ProcsVal DEF DumpInv, Files, Ended, WantMem
<1>15. QED
  BY <1>1, <1>2, <1>3, <1>4, <1>5, <1>5a, <1>6, <1>7, <1>8, <1>9, <1>10, <1>11, <1>12, <1>13,
     <1>14, NextCases DEF LocalStep

LEMMA DumpInitInv == Init => DumpInv
<1>1. SUFFICES ASSUME Init PROVE DumpInv
  OBVIOUS
<1>2. ProcInv  BY <1>1, ProcInitInv DEF Init
<1>3. DumpTypeOK
  <2>1. Before \in Content  BY DEF Before, Content
  <2>2. files \in [Files -> Content]  BY <1>1, <2>1 DEF Init, Content
  <2>3. QED  BY <1>1, <1>2, <2>2, RungsVal DEF Init, DumpTypeOK, ProcInv, Pc
<1>4. ChildrenInv /\ OutcomeInv
  BY <1>1, ProcsVal DEF Init, ProcInit, ChildrenInv, OutcomeInv, PastScript, PastMem, Ended
<1>5. PartsInv /\ LadderInv
  BY <1>1, RungsVal DEF Init, PartsInv, LadderInv, Settling, Ended
<1>6. FreshInv
  BY <1>1 DEF Init, FreshInv, Before, Timelines, Files
<1>7. QED  BY <1>2, <1>3, <1>4, <1>5, <1>6 DEF DumpInv

-----------------------------------------------------------------------------
\* Every reachable state satisfies the invariant.
THEOREM DumpInvariant == Spec => []DumpInv
<1>1. Init => DumpInv  BY DumpInitInv
<1>2. DumpInv /\ [Next]_vars => DumpInv'
  BY TypeStep, HandlesInv, ChildrenStep, PartsStep, LadderStep, FreshStep DEF DumpInv
<1>3. QED  BY <1>1, <1>2, PTL DEF Spec

\* The variables keep their types; the ladder never climbs past its last rung.
THEOREM DumpTypeCorrect == Spec => []DumpTypeOK
<1>1. DumpInv => DumpTypeOK  BY DEF DumpInv
<1>2. QED  BY <1>1, DumpInvariant, PTL

\* A joined child has ended, or has SIGKILL coming.
LEMMA SettledQuiet == ASSUME DumpInv, NEW p \in Procs, Settled(p) PROVE Quiet(p)
  BY ExpectedVal DEF DumpInv, ProcInv, LiveSig, Settled, Quiet

\* vperf touches a dump only when its child is out of the way, and hands out none
\* that a child could still be writing (_collect_combined, PerfProcess.join).
THEOREM OneWriterAtATime == Spec => []OneWriter
<1>1. DumpInv => OneWriter
  BY SettledQuiet, ProcsVal DEF OneWriter, DumpInv, ChildrenInv, PastScript, PastMem
<1>2. QED  BY <1>1, DumpInvariant, PTL

\* perf.data goes only when the last read of it is over (_retire_raw).
THEOREM RecordingOutlivesReaders == Spec => []RetiredUnread
<1>1. DumpInv => RetiredUnread
  BY SettledQuiet, ProcsVal DEF RetiredUnread, DumpInv, ChildrenInv, PastScript, PastMem
<1>2. QED  BY <1>1, DumpInvariant, PTL

\* Every dump of a finished report is complete and in its final form, whatever
\* the children and the ladder went through.
THEOREM ReportsAreWhole == Spec => []ReportIsWhole
<1>1. DumpInv => ReportIsWhole
  BY DEF ReportIsWhole, WholeOf, DumpInv, OutcomeInv, Ended, PartsInv, Files, Timelines, Samples
<1>2. QED  BY <1>1, DumpInvariant, PTL

\* However long the ladder, no memory report with samples is lost on it.
THEOREM LadderLosesNothing == Spec => []LadderKeepsBest
<1>1. DumpInv => LadderKeepsBest  BY DEF LadderKeepsBest, DumpInv, LadderInv
<1>2. QED  BY <1>1, DumpInvariant, PTL

\* Read back, a new profile whose dumps all came off is the report (load_profile).
THEOREM CleanReplays == Spec => []ReplayOfAClean
<1>1. DumpInv => ReplayOfAClean
  <2>1. SUFFICES ASSUME DumpInv, Fresh, session.recordOk => "script" \in reported,
                        WantMem => "mem" \in reported, NEW f \in Files
                 PROVE  f \in loaded <=> f \in reported
    BY DEF ReplayOfAClean, Parses, DumpInv, DumpTypeOK
  <2>2. f \in {"data", "meta"} => f \notin reported /\ f \notin loaded
    BY <2>1 DEF Fresh, DumpInv, FreshInv, PartsInv
  <2>3. "stat" \in reported <=> "stat" \in loaded
    BY <2>1 DEF Fresh, DumpInv, FreshInv
  <2>4. f \notin {"data", "meta", "stat"} => (f \in loaded <=> files[f] # "absent")
    BY <2>1 DEF Fresh, DumpInv, FreshInv
  <2>5. f \notin {"data", "meta", "stat"} => (f \in reported <=> files[f] # "absent")
    BY <2>1 DEF Fresh, DumpInv, FreshInv, PartsInv, Files, Timelines, Samples, WantMem
  <2>6. QED  BY <2>2, <2>3, <2>4, <2>5
<1>2. QED  BY <1>1, DumpInvariant, PTL

-----------------------------------------------------------------------------
(* Memory: the Memory tab.                                                 *)

Gather == INSTANCE FoldTheorems WITH Op <- LAMBDA g, sum, k : Add(g[k], sum)

\* Counters add up.
LEMMA AddAt ==
  ASSUME NEW f, NEW g, NEW x, At(f, x) \in Int, At(g, x) \in Int
  PROVE  At(Add(f, g), x) = At(f, x) + At(g, x)
BY DEF At, Add

LEMMA GatheredIs ==
  ASSUME NEW S, IsFiniteSet(S), NEW g, DOMAIN g = S, NEW x, \A k \in S : At(g[k], x) \in Int
  PROVE  At(Gathered(g), x) = SumFunctionOnSet([k \in S |-> At(g[k], x)], S)
<1> DEFINE F == [k \in S |-> At(g[k], x)]
           Sum(T) == SumFunctionOnSet(F, T)
           Good == {T \in SUBSET S : At(Gather!OfSet(g, Empty, T), x) = Sum(T)}
<1>1. Gathered(g) = Gather!OfSet(g, Empty, S)
  BY DEF Gathered, FoldSet, MapThenFoldSet, Gather!OfSet, Gather!FoldSet, Gather!MapThenFoldSet
<1>2. \A k \in S : F[k] = At(g[k], x) /\ F[k] \in Int
  OBVIOUS
<1> HIDE DEF F
<1>3. ASSUME NEW T \in SUBSET S, \A k \in T : T \ {k} \in Good PROVE T \in Good
  <2>1. IsFiniteSet(T) /\ Gather!IsFiniteSet(T)
    <3>1. IsFiniteSet(T)
      BY FS_Subset
    <3> QED BY <3>1 DEF IsFiniteSet, Gather!IsFiniteSet
  <2>2. /\ Gather!OfSet(g, Empty, {}) = Empty
        /\ T # {} => Gather!OfSet(g, Empty, T) = Add(g[Pick(T)], Gather!OfSet(g, Empty, T \ {Pick(T)}))
    <3>1. \A U : Gather!Pick(U) = Pick(U)
      BY DEF Pick, Gather!Pick
    <3> QED BY <2>1, <3>1, Gather!OfSetStep
  <2>3. CASE T = {}
    <3>1. At(Empty, x) = 0
      BY DEF At, Empty
    <3>2. Sum({}) = 0
      BY SumEmpty
    <3> QED BY <2>2, <2>3, <3>1, <3>2
  <2>4. CASE T # {}
    <3> DEFINE y == Pick(T)
               o == Gather!OfSet(g, Empty, T \ {y})
    <3>1. y \in T
      BY <2>4, PickIn
    <3>2. At(o, x) = Sum(T \ {y})
      BY <1>3, <3>1
    <3>3. Gather!OfSet(g, Empty, T) = Add(g[y], o)
      BY <2>2, <2>4
    <3>4. Sum(T) = F[y] + Sum(T \ {y})
      <4>1. \A k \in T : F[k] \in Int
        BY <1>2
      <4> QED BY <2>1, <3>1, <4>1, SumElement
    <3>5. Sum(T \ {y}) \in Int
      <4>1. IsFiniteSet(T \ {y}) /\ \A k \in T \ {y} : F[k] \in Int
        BY <1>2, FS_Subset
      <4> QED BY <4>1, SumType
    <3>6. At(g[y], x) \in Int /\ F[y] = At(g[y], x)
      BY <1>2, <3>1
    <3> HIDE DEF y, o, Sum
    <3>7. At(Add(g[y], o), x) = At(g[y], x) + At(o, x)
      BY <3>2, <3>5, <3>6, AddAt
    <3>8. At(Gather!OfSet(g, Empty, T), x) = Sum(T)
      BY <3>2, <3>3, <3>4, <3>6, <3>7
    <3> QED BY <3>8
  <2> QED BY <2>3, <2>4
<1>4. SUBSET S \subseteq Good
  <2> HIDE DEF Good
  <2>1. \A T \in SUBSET S : (\A k \in T : T \ {k} \in Good) => T \in Good
    BY <1>3
  <2> QED BY ONLY IsFiniteSet(S), <2>1, SubsetInduction
<1>5. At(Gather!OfSet(g, Empty, S), x) = Sum(S)
  BY <1>4
<1> QED BY <1>1, <1>5 DEF F

-----------------------------------------------------------------------------
(* What a row counts.                                                      *)

\* What of x a row counts is its accesses, its cycles or nothing, whatever they are.
LEMMA CountsAt ==
  ASSUME NEW l, NEW b, NEW s
  PROVE  \E A, C : \A n, w, x : At(Counts(l, b, s, n, w), x) = IF x \in C THEN w ELSE IF x \in A THEN n ELSE 0
<1> DEFINE A == {<<"total">>, <<"samples", s>>} \cup (IF l = "DRAM" THEN {<<"dram", s>>} ELSE {})
           D == IF l = Unclassified THEN {} ELSE {<<"classified">>, <<"level", l>>, <<"band", b>>}
           C == IF l = Unclassified THEN {} ELSE {<<"weight">>, <<"stall", l>>, <<"weight", s>>}
<1>1. \A n, w : Counts(l, b, s, n, w) = [k \in (A \cup D) \cup C |-> IF k \in C THEN w ELSE n]
  BY DEF Counts
<1> HIDE DEF A, D, C
<1> DEFINE E == A \cup D
<1>2. \A n, w, x : At(Counts(l, b, s, n, w), x) = IF x \in C THEN w ELSE IF x \in E THEN n ELSE 0
  BY <1>1 DEF At
<1> HIDE DEF E
<1> QED BY <1>2

LEMMA CountsAdd ==
  ASSUME NEW l, NEW b, NEW s, NEW x, NEW n \in Int, NEW w \in Int, NEW m \in Int, NEW v \in Int
  PROVE  /\ At(Counts(l, b, s, n, w), x) \in Int
         /\ At(Counts(l, b, s, 0, 0), x) = 0
         /\ At(Counts(l, b, s, n + m, w + v), x) = At(Counts(l, b, s, n, w), x) + At(Counts(l, b, s, m, v), x)
<1>1. PICK A, C : \A i, j, y : At(Counts(l, b, s, i, j), y) = IF y \in C THEN j ELSE IF y \in A THEN i ELSE 0
  BY CountsAt
<1> QED BY <1>1

LEMMA CountsTimes ==
  ASSUME NEW l, NEW b, NEW s, NEW x, NEW n \in Int, NEW w \in Int, NEW f \in Int
  PROVE  At(Counts(l, b, s, n * f, w * f), x) = f * At(Counts(l, b, s, n, w), x)
<1>1. PICK A, C : \A i, j, y : At(Counts(l, b, s, i, j), y) = IF y \in C THEN j ELSE IF y \in A THEN i ELSE 0
  BY CountsAt
<1>2. n * f = f * n /\ w * f = f * w /\ f * 0 = 0
  OBVIOUS
<1> QED BY <1>1, <1>2

LEMMA CountsLevel ==
  ASSUME NEW l, NEW b, NEW s, NEW n, NEW w, NEW level, level # Unclassified
  PROVE  /\ l = level => /\ At(Counts(l, b, s, n, w), <<"level", level>>) = n
                         /\ At(Counts(l, b, s, n, w), <<"stall", level>>) = w
         /\ l # level => /\ At(Counts(l, b, s, n, w), <<"level", level>>) = 0
                         /\ At(Counts(l, b, s, n, w), <<"stall", level>>) = 0
<1> DEFINE A == {<<"total">>, <<"samples", s>>} \cup (IF l = "DRAM" THEN {<<"dram", s>>} ELSE {})
           D == IF l = Unclassified THEN {} ELSE {<<"classified">>, <<"level", l>>, <<"band", b>>}
           C == IF l = Unclassified THEN {} ELSE {<<"weight">>, <<"stall", l>>, <<"weight", s>>}
           x == <<"level", level>>
           y == <<"stall", level>>
<1>1. Counts(l, b, s, n, w) = [k \in (A \cup D) \cup C |-> IF k \in C THEN w ELSE n]
  BY DEF Counts
<1>2. x \notin C /\ (x \in A \cup D <=> l = level)
  OBVIOUS
<1>3. (y \in C <=> l = level) /\ y \notin A \cup D
  OBVIOUS
<1> HIDE DEF A, D, C, x, y
<1>4. At(Counts(l, b, s, n, w), x) = IF l = level THEN n ELSE 0
  BY <1>1, <1>2 DEF At
<1>5. At(Counts(l, b, s, n, w), y) = IF l = level THEN w ELSE 0
  BY <1>1, <1>3 DEF At
<1> QED BY <1>4, <1>5 DEF x, y

\* What the rows in S count of x.
Row5(d, k)     == Counts(k[3], k[4], k[5], d[k][1], d[k][2])
RowsOf(d, own) == {k \in DOMAIN d : k[2] \in own}
Told(d, S, x)  == SumFunctionOnSet([k \in DOMAIN d |-> At(Row5(d, k), x)], S)

MemType ==
  /\ timed \in BOOLEAN
  /\ IsFiniteSet(DOMAIN detail) /\ IsFiniteSet(DOMAIN by_tid) /\ DOMAIN by_tid \subseteq Tids
  /\ \A k \in DOMAIN detail :
       /\ k[1] \in Int /\ k[2] \in DOMAIN by_tid \cup {Nothing}
       /\ detail[k][1] \in Nat /\ detail[k][2] \in Nat
  /\ ~timed => DOMAIN detail = {}

\* The rows kept by slice are the rows folded: all of them, and each thread's.
ToldInv ==
  timed => \A x : /\ At(prof, x) = Told(detail, DOMAIN detail, x)
                  /\ \A t \in DOMAIN by_tid : At(by_tid[t], x) = Told(detail, RowsOf(detail, {t}), x)

MemInv == MemType /\ ToldInv

LEMMA RowInt ==
  ASSUME MemType, NEW k \in DOMAIN detail, NEW x
  PROVE  At(Row5(detail, k), x) \in Int
<1>1. detail[k][1] \in Int /\ detail[k][2] \in Int
  BY DEF MemType
<1> QED BY <1>1, CountsAdd DEF Row5

LEMMA ToldIs ==
  ASSUME MemType, NEW S \in SUBSET DOMAIN detail, NEW x
  PROVE  IsFiniteSet(S) /\ Told(detail, S, x) \in Int
<1> DEFINE F == [k \in DOMAIN detail |-> At(Row5(detail, k), x)]
<1>1. IsFiniteSet(S)
  BY FS_Subset DEF MemType
<1>2. \A k \in S : F[k] \in Int
  BY RowInt
<1> HIDE DEF F
<1>3. SumFunctionOnSet(F, S) \in Int
  BY <1>1, <1>2, SumType
<1> QED BY <1>1, <1>3 DEF Told, F

LEMMA StallIs ==
  ASSUME MemoryConstants, NEW r \in Rows, NEW average \in BOOLEAN
  PROVE  Stall(r, average) \in Nat /\ r.samples \in Nat
<1>1. r.weight \in Nat /\ r.samples \in Nat
  BY DEF MemoryConstants
<1>2. r.weight * r.samples \in Nat
  BY <1>1
<1> QED BY <1>1, <1>2 DEF Stall

\* What the report's row r counts of x.
RowCounts(r, average, x) ==
  At(Counts(Level(r.access), Band(r, average), r.sym, r.samples, Stall(r, average)), x)

\* A row of the report is added to one row kept.
LEMMA DetailIs ==
  ASSUME MemoryConstants, MemType, NEW r \in Rows, NEW average \in BOOLEAN, detail' = Detail(detail, r, average)
  PROVE  LET z == Key(r, average)
             old == IF z \in DOMAIN detail THEN detail[z] ELSE <<0, 0>> IN
         /\ DOMAIN detail' = DOMAIN detail \cup {z}
         /\ z[1] = r.slice /\ z[2] = r.tid
         /\ \A k \in DOMAIN detail : k # z => detail'[k] = detail[k]
         /\ old[1] \in Nat /\ old[2] \in Nat
         /\ detail'[z][1] = old[1] + r.samples /\ detail'[z][2] = old[2] + Stall(r, average)
<1> DEFINE z == Key(r, average)
           old == IF z \in DOMAIN detail THEN detail[z] ELSE <<0, 0>>
           new == <<old[1] + r.samples, old[2] + Stall(r, average)>>
<1>1. old[1] \in Nat /\ old[2] \in Nat
  BY DEF MemType
<1>2. z[1] = r.slice /\ z[2] = r.tid
  BY DEF Key
<1>3. detail' = Put(detail, z, new)
  BY DEF Detail
<1> HIDE DEF z
<1>4. /\ DOMAIN detail' = DOMAIN detail \cup {z}
      /\ \A k \in DOMAIN detail' : detail'[k] = IF k = z THEN new ELSE detail[k]
  BY <1>3 DEF Put
<1>5. detail'[z][1] = old[1] + r.samples /\ detail'[z][2] = old[2] + Stall(r, average)
  BY <1>4
<1> HIDE DEF new
<1> QED BY <1>1, <1>2, <1>4, <1>5 DEF z

\* What that row counts is more by what the other counts.
LEMMA DetailCounts ==
  ASSUME MemoryConstants, MemType, NEW r \in Rows, NEW average \in BOOLEAN, detail' = Detail(detail, r, average),
         NEW z, z = Key(r, average), NEW x
  PROVE  /\ RowCounts(r, average, x) \in Int
         /\ At(Row5(detail', z), x)
              = (IF z \in DOMAIN detail THEN At(Row5(detail, z), x) ELSE 0) + RowCounts(r, average, x)
<1> DEFINE l == Level(r.access)
           b == Band(r, average)
           s == r.sym
           n == r.samples
           w == Stall(r, average)
           old == IF z \in DOMAIN detail THEN detail[z] ELSE <<0, 0>>
           o == old[1]
           u == old[2]
<1>1. n \in Nat /\ w \in Nat
  BY StallIs
<1>2. o \in Nat /\ u \in Nat /\ detail'[z][1] = o + n /\ detail'[z][2] = u + w
  BY DetailIs
<1>3. z[3] = l /\ z[4] = b /\ z[5] = s
  BY DEF Key
<1>4. RowCounts(r, average, x) = At(Counts(l, b, s, n, w), x)
  BY DEF RowCounts
<1>5. At(Counts(l, b, s, o, u), x) = IF z \in DOMAIN detail THEN At(Row5(detail, z), x) ELSE 0
  <2>1. CASE z \in DOMAIN detail
    <3>1. old = detail[z]
      BY <2>1
    <3> HIDE DEF old, l, b, s
    <3> QED BY <1>3, <2>1, <3>1 DEF Row5
  <2>2. CASE z \notin DOMAIN detail
    <3>1. o = 0 /\ u = 0
      BY <2>2
    <3> HIDE DEF o, u, l, b, s
    <3>2. At(Counts(l, b, s, 0, 0), x) = 0
      BY CountsAdd
    <3> QED BY <2>2, <3>1, <3>2
  <2> QED BY <2>1, <2>2
<1> HIDE DEF old, o, u, l, b, s, n, w
<1>6. /\ At(Counts(l, b, s, n, w), x) \in Int
      /\ At(Counts(l, b, s, o + n, u + w), x) = At(Counts(l, b, s, o, u), x) + At(Counts(l, b, s, n, w), x)
  <2>1. n \in Int /\ w \in Int /\ o \in Int /\ u \in Int
    BY <1>1, <1>2
  <2> QED BY ONLY <2>1, CountsAdd
<1>7. Row5(detail', z) = Counts(l, b, s, o + n, u + w)
  BY <1>2, <1>3 DEF Row5
<1> QED BY <1>4, <1>5, <1>6, <1>7

\* What a set of rows counts once a row of the report is kept.
LEMMA ToldMore ==
  ASSUME MemoryConstants, MemType, NEW r \in Rows, NEW average \in BOOLEAN, detail' = Detail(detail, r, average),
         NEW own, NEW x
  PROVE  /\ RowCounts(r, average, x) \in Int
         /\ Told(detail', DOMAIN detail', x) = Told(detail, DOMAIN detail, x) + RowCounts(r, average, x)
         /\ r.tid \in own => Told(detail', RowsOf(detail', own), x)
                              = Told(detail, RowsOf(detail, own), x) + RowCounts(r, average, x)
         /\ r.tid \notin own => Told(detail', RowsOf(detail', own), x) = Told(detail, RowsOf(detail, own), x)
<1> DEFINE z == Key(r, average)
           c == RowCounts(r, average, x)
           F == [k \in DOMAIN detail |-> At(Row5(detail, k), x)]
           G == [k \in DOMAIN detail' |-> At(Row5(detail', k), x)]
           D == DOMAIN detail
           E == DOMAIN detail'
<1>1. /\ E = D \cup {z} /\ z[2] = r.tid /\ c \in Int
      /\ \A k \in E : At(Row5(detail', k), x) = (IF k \in D THEN At(Row5(detail, k), x) ELSE 0) + IF k = z THEN c ELSE 0
  <2>1. E = D \cup {z} /\ z[2] = r.tid /\ \A k \in D : k # z => detail'[k] = detail[k]
    BY DetailIs
  <2>2. c \in Int /\ At(Row5(detail', z), x) = (IF z \in D THEN At(Row5(detail, z), x) ELSE 0) + c
    BY DetailCounts
  <2>3. \A k \in D : At(Row5(detail, k), x) \in Int
    BY RowInt
  <2> HIDE DEF z, c, D, E
  <2>4. ASSUME NEW k \in E
        PROVE  At(Row5(detail', k), x) = (IF k \in D THEN At(Row5(detail, k), x) ELSE 0) + IF k = z THEN c ELSE 0
    <3>1. CASE k = z
      BY <2>2, <3>1
    <3>2. CASE k # z
      <4>1. k \in D /\ detail'[k] = detail[k]
        BY <2>1, <2>4, <3>2
      <4>2. Row5(detail', k) = Row5(detail, k)
        BY <4>1 DEF Row5
      <4> QED BY <2>3, <3>2, <4>1, <4>2
    <3> QED BY <3>1, <3>2
  <2> QED BY <2>1, <2>2, <2>4
<1>2. IsFiniteSet(E)
  <2>1. IsFiniteSet(D)
    BY DEF MemType
  <2> HIDE DEF E, D, z
  <2> QED BY <1>1, <2>1, FS_AddElement
<1>3. /\ \A k \in D : F[k] = At(Row5(detail, k), x) /\ F[k] \in Int
      /\ \A k \in E : G[k] = At(Row5(detail', k), x)
  BY RowInt
<1>5. RowsOf(detail, own) = {k \in D : k[2] \in own} /\ RowsOf(detail', own) = {k \in E : k[2] \in own}
  BY DEF RowsOf
<1> HIDE DEF z, c, F, G, D, E
<1>6. ASSUME NEW S \in SUBSET E
      PROVE  SumFunctionOnSet(G, S) = SumFunctionOnSet(F, S \cap D) + IF z \in S THEN c ELSE 0
  <2> DEFINE T == S \cap D
  <2>1. IsFiniteSet(S) /\ T \in SUBSET S /\ S \ T \subseteq {z} /\ \A k \in T : F[k] \in Int
    BY <1>1, <1>2, <1>3, FS_Subset
  <2>2. \A k \in S : G[k] = (IF k \in T THEN F[k] ELSE 0) + IF k = z THEN c ELSE 0
    BY <1>1, <1>3
  <2> HIDE DEF T
  <2>3. SumFunctionOnSet(G, S) = SumFunctionOnSet(F, T) + IF z \in S THEN c ELSE 0
    BY <1>1, <2>1, <2>2, SumBump
  <2> QED BY <2>3 DEF T
<1>7. SumFunctionOnSet(G, E) = SumFunctionOnSet(F, D) + c
  <2>1. E \cap D = D /\ z \in E
    BY <1>1
  <2> QED BY <1>6, <2>1
<1>8. SumFunctionOnSet(G, RowsOf(detail', own)) = SumFunctionOnSet(F, RowsOf(detail, own)) + IF r.tid \in own THEN c ELSE 0
  <2>1. RowsOf(detail', own) \in SUBSET E /\ RowsOf(detail', own) \cap D = RowsOf(detail, own) /\ (z \in RowsOf(detail', own) <=> r.tid \in own)
    BY <1>1, <1>5
  <2> QED BY <1>6, <2>1
<1>9. Told(detail', DOMAIN detail', x) = Told(detail, DOMAIN detail, x) + c
  <2>1. Told(detail', DOMAIN detail', x) = SumFunctionOnSet(G, E)
    BY DEF Told, G, E
  <2>2. Told(detail, DOMAIN detail, x) = SumFunctionOnSet(F, D)
    BY DEF Told, F, D
  <2> QED BY <1>7, <2>1, <2>2
<1>10. Told(detail', RowsOf(detail', own), x) = Told(detail, RowsOf(detail, own), x) + IF r.tid \in own THEN c ELSE 0
  <2>1. Told(detail', RowsOf(detail', own), x) = SumFunctionOnSet(G, RowsOf(detail', own))
    BY DEF Told, G, E
  <2>2. Told(detail, RowsOf(detail, own), x) = SumFunctionOnSet(F, RowsOf(detail, own))
    BY DEF Told, F, D
  <2> QED BY <1>8, <2>1, <2>2
<1>11. /\ r.tid \in own => Told(detail', RowsOf(detail', own), x) = Told(detail, RowsOf(detail, own), x) + c
       /\ r.tid \notin own => Told(detail', RowsOf(detail', own), x) = Told(detail, RowsOf(detail, own), x)
  <2>1. Told(detail, RowsOf(detail, own), x) \in Int
    BY ToldIs DEF RowsOf
  <2> QED BY <1>1, <1>10, <2>1
<1> QED BY <1>1, <1>9, <1>11 DEF c

LEMMA MemInitInv == MemInit => MemInv
<1> SUFFICES ASSUME MemInit PROVE MemInv
  OBVIOUS
<1>1. DOMAIN detail = {} /\ DOMAIN by_tid = {} /\ prof = Empty /\ timed \in BOOLEAN
  BY DEF MemInit
<1>2. MemType
  BY <1>1, FS_EmptySet DEF MemType
<1>3. ASSUME NEW x PROVE At(prof, x) = Told(detail, DOMAIN detail, x)
  <2>1. At(prof, x) = 0
    BY <1>1 DEF At, Empty
  <2>2. Told(detail, DOMAIN detail, x) = 0
    BY <1>1, SumEmpty DEF Told
  <2> QED BY <2>1, <2>2
<1> QED BY <1>1, <1>2, <1>3 DEF MemInv, ToldInv

\* A row that counts.
LEMMA RowKeeps ==
  ASSUME MemoryConstants, MemInv, NEW r \in Rows, Row(r), section.allowed /\ r.samples > 0,
         NEW average \in BOOLEAN, average = (section.average /\ ~section.period)
  PROVE  MemInv'
<1> DEFINE c(x) == RowCounts(r, average, x)
           slot(t) == IF t \in DOMAIN by_tid THEN by_tid[t] ELSE Empty
<1>1. /\ prof' = AddRow(prof, r, average) /\ timed' = timed
      /\ by_tid' = IF r.tid = Nothing THEN by_tid ELSE Put(by_tid, r.tid, AddRow(slot(r.tid), r, average))
      /\ detail' = IF timed THEN Detail(detail, r, average) ELSE detail
  BY DEF Row
<1>2. r.tid \in Tids \cup {Nothing} /\ r.slice \in Int
  BY DEF MemoryConstants
<1>3. /\ MemType /\ timed \in BOOLEAN
  BY DEF MemInv, MemType
<1>4. /\ DOMAIN by_tid' = IF r.tid = Nothing THEN DOMAIN by_tid ELSE DOMAIN by_tid \cup {r.tid}
      /\ \A t \in DOMAIN by_tid' : by_tid'[t] = IF t = r.tid THEN AddRow(slot(t), r, average) ELSE by_tid[t]
  <2>1. CASE r.tid = Nothing
    <3>1. Nothing \notin DOMAIN by_tid
      BY <1>3 DEF MemType, MemoryConstants
    <3> QED BY <1>1, <2>1, <3>1
  <2>2. CASE r.tid # Nothing
    <3>1. by_tid' = Put(by_tid, r.tid, AddRow(slot(r.tid), r, average))
      BY <1>1, <2>2
    <3> HIDE DEF slot
    <3> QED BY <2>2, <3>1 DEF Put
  <2> QED BY <2>1, <2>2
<1>5. IsFiniteSet(DOMAIN by_tid') /\ DOMAIN by_tid' \subseteq Tids
  <2>1. IsFiniteSet(DOMAIN by_tid) /\ DOMAIN by_tid \subseteq Tids
    BY <1>3 DEF MemType
  <2>2. IsFiniteSet(DOMAIN by_tid \cup {r.tid})
    BY <2>1, FS_AddElement
  <2> QED BY <1>2, <1>4, <2>1, <2>2
<1>6. MemType'
  <2>1. CASE timed
    <3> DEFINE z == Key(r, average)
               old == IF z \in DOMAIN detail THEN detail[z] ELSE <<0, 0>>
    <3>0. /\ DOMAIN detail' = DOMAIN detail \cup {z} /\ z[1] = r.slice /\ z[2] = r.tid
          /\ \A k \in DOMAIN detail : k # z => detail'[k] = detail[k]
          /\ old[1] \in Nat /\ old[2] \in Nat
          /\ detail'[z][1] = old[1] + r.samples /\ detail'[z][2] = old[2] + Stall(r, average)
      BY <1>1, <1>3, <2>1, DetailIs
    <3> HIDE DEF z, old
    <3>1. /\ DOMAIN detail' = DOMAIN detail \cup {z} /\ z[1] = r.slice /\ z[2] = r.tid
          /\ \A k \in DOMAIN detail : k # z => detail'[k] = detail[k]
          /\ detail'[z][1] \in Nat /\ detail'[z][2] \in Nat
      <4>1. r.samples \in Nat /\ Stall(r, average) \in Nat
        BY StallIs
      <4> QED BY ONLY <3>0, <4>1
    <3>2. IsFiniteSet(DOMAIN detail')
      BY <1>3, <3>1, FS_AddElement DEF MemType
    <3>3. ASSUME NEW k \in DOMAIN detail'
          PROVE  /\ k[1] \in Int /\ k[2] \in DOMAIN by_tid' \cup {Nothing}
                 /\ detail'[k][1] \in Nat /\ detail'[k][2] \in Nat
      <4>1. CASE k = z
        BY <1>2, <1>4, <3>1, <4>1
      <4>2. CASE k # z
        <5>1. k \in DOMAIN detail /\ detail'[k] = detail[k]
          BY <3>1, <3>3, <4>2
        <5>2. k[1] \in Int /\ k[2] \in DOMAIN by_tid \cup {Nothing} /\ detail[k][1] \in Nat /\ detail[k][2] \in Nat
          BY <1>3, <5>1 DEF MemType
        <5> QED BY <1>4, <5>1, <5>2
      <4> QED BY <4>1, <4>2
    <3> QED BY <1>1, <1>3, <1>5, <2>1, <3>2, <3>3 DEF MemType
  <2>2. CASE ~timed
    <3>1. DOMAIN detail' = {}
      BY <1>1, <1>3, <2>2 DEF MemType
    <3> QED BY <1>1, <1>3, <1>5, <2>2, <3>1, FS_EmptySet DEF MemType
  <2> QED BY <1>3, <2>1, <2>2
<1>7. ASSUME timed, NEW x PROVE At(prof', x) = Told(detail', DOMAIN detail', x)
  <2>1. At(prof, x) = Told(detail, DOMAIN detail, x) /\ Told(detail, DOMAIN detail, x) \in Int
    <3>1. At(prof, x) = Told(detail, DOMAIN detail, x)
      BY <1>7 DEF MemInv, ToldInv
    <3>2. DOMAIN detail \in SUBSET DOMAIN detail
      OBVIOUS
    <3>3. Told(detail, DOMAIN detail, x) \in Int
      BY ONLY <1>3, <3>2, ToldIs
    <3> QED BY <3>1, <3>3
  <2>2. c(x) \in Int /\ Told(detail', DOMAIN detail', x) = Told(detail, DOMAIN detail, x) + c(x)
    <3>1. detail' = Detail(detail, r, average)
      BY <1>1, <1>7
    <3>2. RowCounts(r, average, x) \in Int
      BY ONLY MemoryConstants, <1>3, <3>1, r \in Rows, average \in BOOLEAN, ToldMore
    <3>3. Told(detail', DOMAIN detail', x) = Told(detail, DOMAIN detail, x) + RowCounts(r, average, x)
      BY ONLY MemoryConstants, <1>3, <3>1, r \in Rows, average \in BOOLEAN, ToldMore
    <3> QED BY <3>2, <3>3
  <2>3. At(prof', x) = At(prof, x) + c(x)
    BY <1>1, <2>1, <2>2, AddAt DEF AddRow, RowCounts
  <2> QED BY <2>1, <2>2, <2>3
<1>8. ASSUME timed, NEW x, NEW t \in DOMAIN by_tid' PROVE At(by_tid'[t], x) = Told(detail', RowsOf(detail', {t}), x)
  <2>1. /\ c(x) \in Int
        /\ r.tid = t => Told(detail', RowsOf(detail', {t}), x) = Told(detail, RowsOf(detail, {t}), x) + c(x)
        /\ r.tid # t => Told(detail', RowsOf(detail', {t}), x) = Told(detail, RowsOf(detail, {t}), x)
    <3>1. detail' = Detail(detail, r, average)
      BY <1>1, <1>8
    <3> DEFINE own == {t}
    <3>2. (r.tid \in own <=> r.tid = t) /\ (r.tid \notin own <=> r.tid # t)
      OBVIOUS
    <3> HIDE DEF own
    <3>3. RowCounts(r, average, x) \in Int
      BY ONLY MemoryConstants, <1>3, <3>1, r \in Rows, average \in BOOLEAN, ToldMore
    <3>4. r.tid \in own => Told(detail', RowsOf(detail', own), x) = Told(detail, RowsOf(detail, own), x) + RowCounts(r, average, x)
      BY ONLY MemoryConstants, <1>3, <3>1, r \in Rows, average \in BOOLEAN, ToldMore
    <3>5. r.tid \notin own => Told(detail', RowsOf(detail', own), x) = Told(detail, RowsOf(detail, own), x)
      BY ONLY MemoryConstants, <1>3, <3>1, r \in Rows, average \in BOOLEAN, ToldMore
    <3> QED BY <3>2, <3>3, <3>4, <3>5 DEF own
  <2>2. Told(detail, RowsOf(detail, {t}), x) \in Int
    BY <1>3, ToldIs DEF RowsOf
  <2>3. At(slot(t), x) = Told(detail, RowsOf(detail, {t}), x)
    <3>1. CASE t \in DOMAIN by_tid
      BY <1>8, <3>1 DEF MemInv, ToldInv
    <3>2. CASE t \notin DOMAIN by_tid
      <4>1. RowsOf(detail, {t}) = {}
        <5>1. t # Nothing
          BY <1>5, <1>8 DEF MemoryConstants
        <5> QED BY <1>3, <3>2, <5>1 DEF RowsOf, MemType
      <4>2. Told(detail, {}, x) = 0
        BY SumEmpty DEF Told
      <4>3. At(slot(t), x) = 0
        BY <3>2 DEF At, Empty
      <4> QED BY <4>1, <4>2, <4>3
    <3> QED BY <3>1, <3>2
  <2> HIDE DEF slot
  <2>4. CASE t = r.tid
    <3>1. by_tid'[t] = AddRow(slot(t), r, average)
      BY <1>4, <1>8, <2>4
    <3>2. At(AddRow(slot(t), r, average), x) = At(slot(t), x) + c(x)
      BY <2>1, <2>2, <2>3, AddAt DEF AddRow, RowCounts
    <3> QED BY <2>1, <2>3, <2>4, <3>1, <3>2
  <2>5. CASE t # r.tid
    <3>1. by_tid'[t] = by_tid[t] /\ t \in DOMAIN by_tid
      BY <1>4, <1>8, <2>5
    <3>2. slot(t) = by_tid[t]
      BY <3>1 DEF slot
    <3> QED BY <2>1, <2>2, <2>3, <2>5, <3>1, <3>2
  <2> QED BY <2>4, <2>5
<1>9. ToldInv'
  BY <1>1, <1>7, <1>8 DEF ToldInv
<1> QED BY <1>6, <1>9 DEF MemInv

LEMMA MemStepInv == ASSUME MemoryConstants, MemInv, [MemNext]_memVars PROVE MemInv'
<1>1. CASE UNCHANGED <<timed, prof, by_tid, detail>>
  <2>1. MemType'
    BY <1>1 DEF MemInv, MemType
  <2>2. ToldInv'
    BY <1>1 DEF MemInv, ToldInv
  <2> QED BY <2>1, <2>2 DEF MemInv
<1>2. CASE MemNext /\ ~UNCHANGED <<timed, prof, by_tid, detail>>
  <2>1. ~Header /\ ~End
    BY <1>2 DEF Header, End
  <2>2. PICK r \in Rows : Row(r)
    BY <1>2, <2>1 DEF MemNext
  <2>3. section.allowed /\ r.samples > 0
    BY <1>2, <2>2 DEF Row
  <2> DEFINE average == section.average /\ ~section.period
  <2>4. average \in BOOLEAN
    OBVIOUS
  <2> QED BY <2>2, <2>3, <2>4, RowKeeps
<1>3. UNCHANGED memVars => UNCHANGED <<timed, prof, by_tid, detail>>
  BY DEF memVars
<1> QED BY <1>1, <1>2, <1>3

-----------------------------------------------------------------------------
(* The page.                                                               *)

\* The larger and the smaller of two.
LEMMA OfTwo ==
  ASSUME NEW a \in Int, NEW b \in Int
  PROVE  Max({a, b}) = (IF a >= b THEN a ELSE b) /\ Min({a, b}) = (IF a <= b THEN a ELSE b)
<1>1. CASE a >= b
  <2>1. \A x \in {a, b} : (\A y \in {a, b} : x >= y) <=> x = a
    BY <1>1
  <2>2. \A x \in {a, b} : (\A y \in {a, b} : x <= y) <=> x = b
    BY <1>1
  <2>3. Max({a, b}) = a
    BY <2>1 DEF Max
  <2>4. Min({a, b}) = b
    BY <2>2 DEF Min
  <2> QED BY <1>1, <2>3, <2>4
<1>2. CASE a < b
  <2>1. \A x \in {a, b} : (\A y \in {a, b} : x >= y) <=> x = b
    BY <1>2
  <2>2. \A x \in {a, b} : (\A y \in {a, b} : x <= y) <=> x = a
    BY <1>2
  <2>3. Max({a, b}) = b
    BY <2>1 DEF Max
  <2>4. Min({a, b}) = a
    BY <2>2 DEF Min
  <2> QED BY <1>2, <2>3, <2>4
<1> QED BY <1>1, <1>2

\* One is the heaviest of some.
LEMMA HeaviestOf ==
  ASSUME NEW S, IsFiniteSet(S), S # {}, NEW w, \A x \in S : w[x] \in Nat
  PROVE  \E y \in S : \A x \in S : w[x] <= w[y]
<1> DEFINE Good == {T \in SUBSET S : T # {} => \E y \in T : \A x \in T : w[x] <= w[y]}
<1>1. ASSUME NEW T \in SUBSET S, \A x \in T : T \ {x} \in Good PROVE T \in Good
  <2> SUFFICES ASSUME NEW z \in T PROVE \E y \in T : \A x \in T : w[x] <= w[y]
    OBVIOUS
  <2>1. CASE T \ {z} = {}
    <3>1. \A x \in T : x = z /\ w[z] \in Nat
      BY <2>1
    <3> QED BY <3>1
  <2>2. CASE T \ {z} # {}
    <3>1. PICK y \in T \ {z} : \A x \in T \ {z} : w[x] <= w[y]
      BY <1>1, <2>2
    <3>2. \A x \in T : w[x] \in Nat
      OBVIOUS
    <3>3. CASE w[z] <= w[y]
      <4>1. \A x \in T : w[x] <= w[y]
        BY <3>1, <3>3
      <4> QED BY <4>1
    <3>4. CASE w[y] < w[z]
      <4>1. \A x \in T : w[x] <= w[z]
        BY <3>1, <3>2, <3>4
      <4> QED BY <4>1
    <3> QED BY <3>2, <3>3, <3>4
  <2> QED BY <2>1, <2>2
<1>2. SUBSET S \subseteq Good
  <2> HIDE DEF Good
  <2>1. \A T \in SUBSET S : (\A x \in T : T \ {x} \in Good) => T \in Good
    BY <1>1
  <2> QED BY ONLY IsFiniteSet(S), <2>1, SubsetInduction
<1>3. S \in Good
  BY <1>2
<1> QED BY <1>3

\* There always are so many rows of which none lighter is taken for a heavier.
LEMMA HeaviestExist ==
  ASSUME MemType, NEW n \in Nat, n <= Cardinality(DOMAIN detail)
  PROVE  \E K \in kSubset(n, DOMAIN detail) : \A k \in K : {j \in DOMAIN detail : detail[j][2] > detail[k][2]} \subseteq K
<1> DEFINE D == DOMAIN detail
           w == [k \in DOMAIN detail |-> detail[k][2]]
           Top(K) == \A k \in K, j \in D : w[j] > w[k] => j \in K
           Good == {m \in Nat : m <= Cardinality(D) => \E K \in SUBSET D : Cardinality(K) = m /\ Top(K)}
<1>1. IsFiniteSet(D) /\ \A k \in D : w[k] = detail[k][2] /\ w[k] \in Nat
  BY DEF MemType
<1> HIDE DEF D, w
<1>2. 0 \in Good
  <2>1. {} \in SUBSET D /\ Cardinality({}) = 0 /\ Top({})
    BY FS_EmptySet
  <2> QED BY <2>1
<1>3. ASSUME NEW m \in Nat, m \in Good PROVE m + 1 \in Good
  <2> SUFFICES ASSUME m + 1 <= Cardinality(D)
               PROVE  \E K \in SUBSET D : Cardinality(K) = m + 1 /\ Top(K)
    OBVIOUS
  <2>1. Cardinality(D) \in Nat
    BY <1>1, FS_CardinalityType
  <2>2. PICK K \in SUBSET D : Cardinality(K) = m /\ Top(K)
    BY <1>3, <2>1
  <2>3. IsFiniteSet(K) /\ K # D
    BY <1>1, <2>1, <2>2, FS_Subset
  <2>4. PICK y \in D \ K : \A k \in D \ K : w[k] <= w[y]
    <3> DEFINE R == D \ K
    <3>1. IsFiniteSet(R) /\ R # {}
      BY <1>1, <2>3, FS_Subset
    <3>2. \A k \in R : w[k] \in Nat
      BY <1>1
    <3> HIDE DEF R
    <3>3. \E y \in R : \A k \in R : w[k] <= w[y]
      BY <3>1, <3>2, HeaviestOf
    <3> QED BY <3>3 DEF R
  <2> DEFINE L == K \cup {y}
  <2>5. L \in SUBSET D /\ Cardinality(L) = m + 1
    BY <2>2, <2>3, <2>4, FS_AddElement
  <2>6. Top(L)
    <3> SUFFICES ASSUME NEW k \in L, NEW j \in D, w[j] > w[k], j \notin L PROVE FALSE
      OBVIOUS
    <3>1. CASE k \in K
      BY <2>2, <3>1
    <3>2. CASE k = y
      <4>1. w[j] <= w[y] /\ w[j] \in Nat /\ w[y] \in Nat
        BY <1>1, <2>4
      <4> QED BY <3>2, <4>1
    <3> QED BY <3>1, <3>2
  <2> HIDE DEF L, Top
  <2> QED BY <2>5, <2>6
<1>4. n \in Good
  <2> HIDE DEF Good
  <2> QED BY <1>2, <1>3, NumberInduction
<1>5. PICK K \in SUBSET D : Cardinality(K) = n /\ Top(K)
  BY <1>4 DEF D
<1> QED BY <1>1, <1>5 DEF kSubset, D

LEMMA KeptIs ==
  ASSUME MemoryConstants, MemType
  PROVE  Kept \subseteq DOMAIN detail /\ (Kept = {} => DOMAIN detail = {})
<1> DEFINE D == DOMAIN detail
<1>1. IsFiniteSet(D)
  BY DEF MemType
<1>2. CASE Cardinality(D) <= RowCap
  <2>1. Kept = D
    BY <1>2 DEF Kept
  <2> QED BY <2>1
<1>3. CASE ~(Cardinality(D) <= RowCap)
  <2>1. RowCap \in Nat /\ RowCap # 0 /\ RowCap <= Cardinality(D)
    BY <1>1, <1>3, FS_CardinalityType DEF MemoryConstants
  <2>2. \E K \in kSubset(RowCap, D) : \A k \in K : {j \in D : detail[j][2] > detail[k][2]} \subseteq K
    BY <2>1, HeaviestExist
  <2>3. Kept \in kSubset(RowCap, D)
    BY <1>3, <2>2 DEF Kept
  <2>4. Kept \in SUBSET D /\ Cardinality(Kept) = RowCap
    BY <2>3 DEF kSubset
  <2> QED BY <2>1, <2>4, FS_EmptySet
<1> QED BY <1>2, <1>3

LEMMA SlicesAre ==
  ASSUME MemType
  PROVE  Slices \in SUBSET Int /\ IsFiniteSet(Slices) /\ SliceWidth \in Nat
<1>1. Slices \in SUBSET Int
  BY DEF Slices, MemType
<1>2. IsFiniteSet(Slices)
  <2> DEFINE f == [k \in DOMAIN detail |-> k[1]]
  <2>1. f \in Surjection(DOMAIN detail, Slices)
    BY DEF Surjection, Slices
  <2> QED BY <2>1, FS_Surjection DEF MemType
<1>3. SliceWidth \in Nat
  <2> DEFINE gaps == {p[2] - p[1] : p \in {q \in Slices \X Slices : q[1] < q[2]}}
  <2>1. gaps \in SUBSET Nat
    <3> SUFFICES ASSUME NEW p \in Slices \X Slices, p[1] < p[2] PROVE p[2] - p[1] \in Nat
      OBVIOUS
    <3>1. p[1] \in Int /\ p[2] \in Int
      BY <1>1
    <3> QED BY <3>1
  <2>2. SliceWidth = IF gaps = {} THEN 0 ELSE Min(gaps)
    BY DEF SliceWidth
  <2> HIDE DEF gaps
  <2>3. ASSUME gaps # {} PROVE Min(gaps) \in Nat
    <3>1. \E x \in gaps : \A y \in gaps : x <= y
      BY <2>1, <2>3, LeastNumber
    <3>2. Min(gaps) \in gaps
      BY <3>1 DEF Min
    <3> QED BY <2>1, <3>2
  <2> QED BY <2>2, <2>3
<1> QED BY <1>1, <1>2, <1>3

\* The part of a slice that lies in a window.
LEMMA OverlapIs ==
  ASSUME MemoryConstants, NEW a \in Int, NEW b \in Int, NEW lo \in T0..T1, NEW hi \in T0..T1, T0 <= a, b <= T1
  PROVE  Overlap(<<a, b>>, lo, hi)
           = IF b <= a \/ b <= lo \/ a >= hi THEN 0
             ELSE (Whole \div (b - a)) * ((IF b <= hi THEN b ELSE hi) - (IF a >= lo THEN a ELSE lo))
<1>1. lo \in Int /\ hi \in Int
  BY DEF MemoryConstants
<1>2. /\ Min({b, hi}) = (IF b <= hi THEN b ELSE hi)
      /\ Max({a, lo}) = (IF a >= lo THEN a ELSE lo)
  BY <1>1, OfTwo
<1> QED BY <1>2 DEF Overlap

LEMMA SliceRangeIs ==
  ASSUME MemoryConstants, MemType, NEW s \in Int
  PROVE  \E a, b \in Int : /\ SliceRange(s) = <<a, b>> /\ T0 <= a /\ b <= T1
                           /\ SliceWidth > 0 /\ s < T1 /\ s + SliceWidth > T0 => a < b
<1> DEFINE p == (T1 - T0) \div Share
           q == IF SliceWidth > 0 THEN SliceWidth ELSE Max({p, 1})
           a == Max({s, T0})
           b == Min({s + q, T1})
<1>1. T0 \in Int /\ T1 \in Int /\ T0 < T1 /\ SliceWidth \in Int
  BY SlicesAre DEF MemoryConstants
<1>2. p \in Int
  <2>1. T1 - T0 \in Int /\ Share \in Int /\ Share > 0
    BY DEF MemoryConstants
  <2> QED BY <2>1
<1>3. Max({p, 1}) \in Int
  <2> HIDE DEF p
  <2> QED BY <1>2, OfTwo
<1>4. q \in Int /\ (SliceWidth > 0 => q = SliceWidth)
  BY <1>1, <1>3
<1>5. SliceRange(s) = <<a, b>>
  BY DEF SliceRange
<1> HIDE DEF q
<1>6. a = (IF s >= T0 THEN s ELSE T0) /\ b = (IF s + q <= T1 THEN s + q ELSE T1)
  <2>1. s + q \in Int
    BY <1>4
  <2> QED BY <1>1, <2>1, OfTwo
<1> HIDE DEF a, b
<1>7. a \in Int /\ b \in Int /\ T0 <= a /\ b <= T1
  BY <1>1, <1>4, <1>6
<1>8. SliceWidth > 0 /\ s < T1 /\ s + SliceWidth > T0 => a < b
  BY <1>1, <1>4, <1>6
<1> QED BY <1>5, <1>7, <1>8

\* A slice counts in parts of Whole: of two windows that meet it counts what it counts of
\* both as one, and all of it of a window it lies in.
LEMMA SliceCounts ==
  ASSUME MemoryConstants, MemType, NEW s \in Int, NEW lo \in T0..T1, NEW hi \in T0..T1
  PROVE  /\ Overlap(SliceRange(s), lo, hi) \in Int
         /\ \A mid \in T0..T1 : lo < mid /\ mid < hi =>
              Overlap(SliceRange(s), lo, mid) + Overlap(SliceRange(s), mid, hi) = Overlap(SliceRange(s), lo, hi)
         /\ SliceWidth > 0 /\ s < T1 /\ s + SliceWidth > T0 => Overlap(SliceRange(s), T0, T1) = Whole
<1>1. PICK a \in Int, b \in Int : /\ SliceRange(s) = <<a, b>> /\ T0 <= a /\ b <= T1
                                  /\ SliceWidth > 0 /\ s < T1 /\ s + SliceWidth > T0 => a < b
  BY SliceRangeIs
<1> DEFINE u == Whole \div (b - a)
           len(l, h) == IF b <= a \/ b <= l \/ a >= h THEN 0
                        ELSE (IF b <= h THEN b ELSE h) - (IF a >= l THEN a ELSE l)
<1>2. T0 \in Int /\ T1 \in Int /\ T0 < T1 /\ lo \in Int /\ hi \in Int /\ \A mid \in T0..T1 : mid \in Int
  BY DEF MemoryConstants
<1>3. ASSUME a < b PROVE u \in Int /\ u * (b - a) = Whole
  <2>1. b - a \in 1..(T1 - T0)
    BY <1>1, <1>2, <1>3
  <2>2. u * (b - a) = Whole
    BY <2>1 DEF MemoryConstants
  <2>3. Whole \in Int /\ b - a \in Int /\ b - a > 0
    BY <1>3 DEF MemoryConstants
  <2>4. u \in Int
    BY ONLY <2>3
  <2> QED BY <2>2, <2>4
<1>4. ASSUME NEW l \in T0..T1, NEW h \in T0..T1
      PROVE  Overlap(SliceRange(s), l, h) = IF b <= a \/ b <= l \/ a >= h THEN 0 ELSE u * len(l, h)
  BY <1>1, <1>4, OverlapIs
<1>5. ASSUME NEW l \in T0..T1, NEW h \in T0..T1 PROVE len(l, h) \in Int
  BY <1>2, <1>5
<1>6. Overlap(SliceRange(s), lo, hi) \in Int
  <2>1. CASE a < b
    <3> HIDE DEF u, len
    <3>1. u * len(lo, hi) \in Int
      BY <1>3, <1>5, <2>1
    <3> QED BY <1>4, <3>1
  <2>2. CASE b <= a
    BY <1>4, <2>2
  <2> QED BY <2>1, <2>2
<1>7. ASSUME NEW mid \in T0..T1, lo < mid, mid < hi
      PROVE  Overlap(SliceRange(s), lo, mid) + Overlap(SliceRange(s), mid, hi) = Overlap(SliceRange(s), lo, hi)
  <2>1. CASE a < b
    <3>1. len(lo, mid) + len(mid, hi) = len(lo, hi)
      BY <1>2, <1>7, <2>1
    <3>2. \A l, h \in T0..T1 : b <= a \/ b <= l \/ a >= h => len(l, h) = 0
      OBVIOUS
    <3>3. u \in Int /\ len(lo, mid) \in Int /\ len(mid, hi) \in Int /\ u * 0 = 0
      BY <1>3, <1>5, <2>1
    <3> HIDE DEF u, len
    <3>4. \A l, h \in T0..T1 : Overlap(SliceRange(s), l, h) = u * len(l, h)
      BY <1>4, <3>2, <3>3
    <3>5. u * len(lo, mid) + u * len(mid, hi) = u * (len(lo, mid) + len(mid, hi))
      BY ONLY <3>3
    <3> QED BY <3>1, <3>4, <3>5
  <2>2. CASE b <= a
    BY <1>4, <2>2
  <2> QED BY <2>1, <2>2
<1>8. ASSUME SliceWidth > 0, s < T1, s + SliceWidth > T0 PROVE Overlap(SliceRange(s), T0, T1) = Whole
  <2>1. a < b
    BY <1>1, <1>8
  <2>2. T0 \in T0..T1 /\ T1 \in T0..T1
    BY <1>2
  <2>3. len(T0, T1) = b - a /\ ~(b <= a \/ b <= T0 \/ a >= T1)
    BY <1>1, <1>2, <2>1
  <2> HIDE DEF len, u
  <2>4. Overlap(SliceRange(s), T0, T1) = u * len(T0, T1)
    BY <1>4, <2>2, <2>3
  <2> QED BY <1>3, <2>1, <2>3, <2>4
<1> QED BY <1>6, <1>7, <1>8

\* What the server rendered for some threads is what their rows kept by slice count.
LEMMA HtmlIs ==
  ASSUME MemoryConstants, MemInv, timed, NEW scope \in Scopes, NEW x
  PROVE  At(MemoryHtml(scope), x) = Told(detail, RowsOf(detail, scope), x)
<1> DEFINE D == DOMAIN detail
           F == [k \in D |-> At(Row5(detail, k), x)]
<1>1. MemType /\ IsFiniteSet(D) /\ \A k \in D : F[k] \in Int
  BY RowInt DEF MemInv, MemType
<1>2. CASE scope = Everyone
  <2>1. RowsOf(detail, scope) = D
    BY <1>1, <1>2 DEF RowsOf, Everyone, MemType
  <2>2. At(prof, x) = Told(detail, D, x)
    BY DEF MemInv, ToldInv
  <2> QED BY <1>2, <2>1, <2>2 DEF MemoryHtml
<1>3. CASE scope # Everyone
  <2> DEFINE V == scope \cap DOMAIN by_tid
             g == [t \in V |-> by_tid[t]]
             G == [t \in V |-> At(g[t], x)]
             h == [k \in D |-> k[2]]
  <2>1. scope \subseteq Tids
    BY <1>3 DEF Scopes
  <2>2. IsFiniteSet(V)
    BY <1>1, FS_Subset DEF MemType
  <2>3. ASSUME NEW t \in V
        PROVE  At(g[t], x) \in Int /\ G[t] = SumFunctionOnSet(F, {k \in D : h[k] = t})
    <3>1. At(by_tid[t], x) = Told(detail, RowsOf(detail, {t}), x)
      BY DEF MemInv, ToldInv
    <3>2. RowsOf(detail, {t}) = {k \in D : h[k] = t}
      BY DEF RowsOf
    <3>3. Told(detail, RowsOf(detail, {t}), x) \in Int
      BY <1>1, ToldIs DEF RowsOf
    <3> QED BY <3>1, <3>2, <3>3 DEF Told
  <2>4. RowsOf(detail, scope) = {k \in D : h[k] \in V}
    <3>1. \A k \in D : k[2] \in DOMAIN by_tid \cup {Nothing}
      BY <1>1 DEF MemType
    <3>2. Nothing \notin scope
      BY <2>1 DEF MemoryConstants
    <3> QED BY <3>1, <3>2 DEF RowsOf
  <2>5. DOMAIN g = V /\ G = [t \in V |-> At(g[t], x)]
    OBVIOUS
  <2>6. MemoryHtml(scope) = Gathered(g)
    BY <1>3 DEF MemoryHtml, Merged
  <2> HIDE DEF V, g, h, F
  <2>7. At(Gathered(g), x) = SumFunctionOnSet(G, V)
    <3>1. \A t \in V : At(g[t], x) \in Int
      BY <2>3
    <3>2. At(Gathered(g), x) = SumFunctionOnSet([t \in V |-> At(g[t], x)], V)
      BY ONLY <2>2, <2>5, <3>1, GatheredIs
    <3> QED BY <2>5, <3>2
  <2> HIDE DEF G
  <2> DEFINE P == [t \in V |-> {k \in D : h[k] = t}]
             T == {k \in D : h[k] \in V}
  <2>8. /\ \A t \in V : P[t] \in SUBSET D /\ \A k \in D : k \in P[t] <=> h[k] = t
        /\ T \in SUBSET D /\ \A k \in D : k \in T <=> h[k] \in V
    OBVIOUS
  <2>9. \A t \in V : G[t] = SumFunctionOnSet(F, P[t])
    BY <2>3
  <2>10. IsFiniteSet(D) /\ \A k \in D : F[k] \in Int
    BY <1>1
  <2> HIDE DEF D, P, T
  <2>11. SumFunctionOnSet(G, V) = SumFunctionOnSet(F, T)
    BY ONLY <2>2, <2>8, <2>9, <2>10, SumFibres
  <2> QED BY <2>4, <2>6, <2>7, <2>11 DEF Told, F, D, T
<1> QED BY <1>2, <1>3

\* What the page counts of a window is what its rows count, by the part of their slice
\* that lies in it.
Shown(scope)             == {j \in Kept : j[2] \in scope}
InWindow(lo, hi, x)      == [k \in DOMAIN detail |-> Overlap(SliceRange(k[1]), lo, hi) * At(Row5(detail, k), x)]

LEMMA AggregateIs ==
  ASSUME MemoryConstants, MemType, NEW scope, NEW lo \in T0..T1, NEW hi \in T0..T1, NEW x
  PROVE  /\ IsFiniteSet(Shown(scope)) /\ Shown(scope) \in SUBSET DOMAIN detail
         /\ \A k \in Shown(scope) : InWindow(lo, hi, x)[k] \in Int
         /\ At(MemAggregate(scope, lo, hi), x) = SumFunctionOnSet(InWindow(lo, hi, x), Shown(scope))
<1> DEFINE S == Shown(scope)
           g == [k \in S |-> Part(k, lo, hi)]
           F == [k \in S |-> At(g[k], x)]
           I == InWindow(lo, hi, x)
<1>1. S \in SUBSET DOMAIN detail
  BY KeptIs DEF Shown
<1>2. IsFiniteSet(S)
  BY <1>1, FS_Subset DEF MemType
<1>3. MemAggregate(scope, lo, hi) = Gathered(g)
  BY DEF MemAggregate, Shown
<1>4. ASSUME NEW k \in S
      PROVE  I[k] \in Int /\ At(Part(k, lo, hi), x) = I[k]
  <2> DEFINE f == Overlap(SliceRange(k[1]), lo, hi)
             c == At(Row5(detail, k), x)
             n == detail[k][1]
             w == detail[k][2]
  <2>1. k \in DOMAIN detail
    BY <1>1
  <2>2. k[1] \in Int /\ n \in Int /\ w \in Int
    BY <2>1 DEF MemType
  <2>3. f \in Int
    BY <2>2, SliceCounts
  <2>4. c \in Int
    BY <2>1, RowInt
  <2>5. I[k] = f * c
    BY <2>1 DEF InWindow
  <2>6. Part(k, lo, hi) = Counts(k[3], k[4], k[5], n * f, w * f) /\ c = At(Counts(k[3], k[4], k[5], n, w), x)
    BY DEF Part, Row5
  <2> HIDE DEF f, c, n, w
  <2>7. At(Part(k, lo, hi), x) = f * c
    BY <2>2, <2>3, <2>6, CountsTimes
  <2>8. f * c \in Int
    BY ONLY <2>3, <2>4
  <2> QED BY <2>5, <2>7, <2>8
<1>5. DOMAIN g = S /\ \A k \in S : At(g[k], x) \in Int /\ F[k] = I[k]
  BY <1>4
<1>6. At(Gathered(g), x) = SumFunctionOnSet(F, S)
  <2> HIDE DEF g, S
  <2> QED BY <1>2, <1>5, GatheredIs
<1> HIDE DEF F, g, S, I
<1>7. SumFunctionOnSet(F, S) = SumFunctionOnSet(I, S)
  BY <1>2, <1>4, <1>5, SumEqual
<1> QED BY <1>1, <1>2, <1>3, <1>4, <1>6, <1>7 DEF S, I

LEMMA InPartsAt == ASSUME MemoryConstants, NEW f, NEW x PROVE At(InParts(f), x) = Whole * At(f, x)
<1>1. Whole * 0 = 0
  BY DEF MemoryConstants
<1> QED BY <1>1 DEF At, InParts

\* Adding up the rows of the whole window.
LEMMA PlacedIsTheReport ==
  ASSUME MemoryConstants, MemInv, NEW scope \in Scopes, Slices # {}, Placed, NEW x
  PROVE  At(RenderMemory(scope, T0, T1), x) = At(InParts(MemoryHtml(scope)), x)
<1> DEFINE S == Shown(scope)
           F == [k \in DOMAIN detail |-> At(Row5(detail, k), x)]
           I == InWindow(T0, T1, x)
<1>1. MemType /\ timed
  BY DEF MemInv, MemType, Slices
<1>2. Kept = DOMAIN detail /\ Kept # {} /\ S = RowsOf(detail, scope)
  BY DEF Placed, Slices, Shown, RowsOf
<1>3. T0 \in T0..T1 /\ T1 \in T0..T1 /\ Whole \in Int
  BY DEF MemoryConstants
<1>4. RenderMemory(scope, T0, T1) = MemAggregate(scope, T0, T1)
  BY <1>2 DEF RenderMemory
<1>5. IsFiniteSet(S) /\ S \in SUBSET DOMAIN detail /\ At(MemAggregate(scope, T0, T1), x) = SumFunctionOnSet(I, S)
  BY <1>1, <1>3, AggregateIs
<1>6. ASSUME NEW k \in S PROVE F[k] \in Int /\ I[k] = Whole * F[k]
  <2>1. k \in DOMAIN detail /\ k[1] \in Int /\ k[1] \in Slices
    BY <1>1, <1>5 DEF MemType, Slices
  <2>2. SliceWidth > 0 /\ k[1] < T1 /\ k[1] + SliceWidth > T0
    BY <2>1 DEF Placed
  <2>3. Overlap(SliceRange(k[1]), T0, T1) = Whole
    BY <1>1, <1>3, <2>1, <2>2, SliceCounts
  <2> QED BY <1>1, <2>1, <2>3, RowInt DEF InWindow
<1> HIDE DEF F, I, S
<1>7. SumFunctionOnSet(I, S) = Whole * SumFunctionOnSet(F, S)
  BY <1>3, <1>5, <1>6, SumTimes
<1>8. At(MemoryHtml(scope), x) = SumFunctionOnSet(F, S)
  BY <1>1, <1>2, HtmlIs DEF Told, F
<1> QED BY <1>4, <1>5, <1>7, <1>8, InPartsAt

\* Adding up the rows of two windows.
LEMMA WindowsMeet ==
  ASSUME MemoryConstants, MemInv, NEW scope \in Scopes, Slices # {},
         NEW lo \in T0..T1, NEW mid \in T0..T1, NEW hi \in T0..T1, lo < mid, mid < hi, NEW x
  PROVE  At(Add(RenderMemory(scope, lo, mid), RenderMemory(scope, mid, hi)), x) = At(RenderMemory(scope, lo, hi), x)
<1> DEFINE S == Shown(scope)
           F == InWindow(lo, mid, x)
           G == InWindow(mid, hi, x)
           H == InWindow(lo, hi, x)
<1>1. MemType
  BY DEF MemInv
<1>2. Kept # {}
  BY <1>1, KeptIs DEF Slices
<1>3. /\ RenderMemory(scope, lo, mid) = MemAggregate(scope, lo, mid)
      /\ RenderMemory(scope, mid, hi) = MemAggregate(scope, mid, hi)
      /\ RenderMemory(scope, lo, hi) = MemAggregate(scope, lo, hi)
  BY <1>2 DEF RenderMemory
<1>4. IsFiniteSet(S) /\ S \in SUBSET DOMAIN detail
  BY <1>1, AggregateIs
<1>5. /\ \A k \in S : F[k] \in Int
      /\ At(MemAggregate(scope, lo, mid), x) = SumFunctionOnSet(F, S)
  BY <1>1, AggregateIs
<1>6. /\ \A k \in S : G[k] \in Int
      /\ At(MemAggregate(scope, mid, hi), x) = SumFunctionOnSet(G, S)
  BY <1>1, AggregateIs
<1>7. At(MemAggregate(scope, lo, hi), x) = SumFunctionOnSet(H, S)
  BY <1>1, AggregateIs
<1>8. ASSUME NEW k \in S PROVE H[k] = F[k] + G[k]
  <2> DEFINE c == At(Row5(detail, k), x)
             u == Overlap(SliceRange(k[1]), lo, mid)
             v == Overlap(SliceRange(k[1]), mid, hi)
             w == Overlap(SliceRange(k[1]), lo, hi)
  <2>1. k \in DOMAIN detail /\ k[1] \in Int
    BY <1>1, <1>4 DEF MemType
  <2>2. c \in Int
    BY <1>1, <2>1, RowInt
  <2>3. u \in Int /\ v \in Int /\ w = u + v
    <3> DEFINE s == k[1]
    <3>1. s \in Int
      BY <2>1
    <3> HIDE DEF s
    <3>2. Overlap(SliceRange(s), lo, mid) \in Int
      BY <1>1, <3>1, SliceCounts
    <3>3. Overlap(SliceRange(s), mid, hi) \in Int
      BY <1>1, <3>1, SliceCounts
    <3>4. Overlap(SliceRange(s), lo, mid) + Overlap(SliceRange(s), mid, hi) = Overlap(SliceRange(s), lo, hi)
      BY ONLY MemoryConstants, MemType, lo \in T0..T1, mid \in T0..T1, hi \in T0..T1, lo < mid, mid < hi,
              <1>1, <3>1, SliceCounts
    <3> QED BY <3>2, <3>3, <3>4 DEF s
  <2>4. F[k] = u * c /\ G[k] = v * c /\ H[k] = w * c
    BY <2>1 DEF InWindow
  <2> HIDE DEF c, u, v, w
  <2>5. u * c + v * c = (u + v) * c
    BY ONLY <2>2, <2>3
  <2> QED BY <2>3, <2>4, <2>5
<1> HIDE DEF S, F, G, H
<1>9. SumFunctionOnSet(H, S) = SumFunctionOnSet(F, S) + SumFunctionOnSet(G, S)
  BY <1>4, <1>5, <1>6, <1>8, SumPlus
<1>10. SumFunctionOnSet(F, S) \in Int /\ SumFunctionOnSet(G, S) \in Int
  BY <1>4, <1>5, <1>6, SumType
<1>11. At(Add(MemAggregate(scope, lo, mid), MemAggregate(scope, mid, hi)), x) = SumFunctionOnSet(F, S) + SumFunctionOnSet(G, S)
  BY <1>5, <1>6, <1>10, AddAt
<1> QED BY <1>3, <1>7, <1>9, <1>11

\* Stacking the slices.
LEMMA ChartIsTheReport ==
  ASSUME MemoryConstants, MemInv, NEW scope \in Scopes, Slices # {}, Kept = DOMAIN detail,
         NEW level \in {"DRAM", "L1"}, NEW mode \in {"count", "latency"}
  PROVE  SumFunctionOnSet([s \in Slices |-> MemChart(scope, mode)[<<s, level>>]], Slices)
           = At(MemoryHtml(scope), <<IF mode = "count" THEN "level" ELSE "stall", level>>)
<1> DEFINE i == IF mode = "latency" THEN 2 ELSE 1
           x == <<IF mode = "count" THEN "level" ELSE "stall", level>>
           D == DOMAIN detail
           R == RowsOf(detail, scope)
           S == {k \in D : k[3] = level /\ k[2] \in scope}
           W == [k \in D |-> detail[k][i]]
           F == [k \in D |-> At(Row5(detail, k), x)]
           h == [k \in D |-> k[1]]
           G == [s \in Slices |-> MemChart(scope, mode)[<<s, level>>]]
<1>1. MemType /\ timed /\ IsFiniteSet(D)
  BY DEF MemInv, MemType, Slices
<1>2. IsFiniteSet(R) /\ IsFiniteSet(S) /\ S \in SUBSET R /\ R \in SUBSET D /\ S = {k \in R : k[3] = level}
  BY <1>1, FS_Subset DEF RowsOf
<1>3. \A k \in D : W[k] = detail[k][i] /\ W[k] \in Int
  BY <1>1 DEF MemType
<1>4. ASSUME NEW k \in R PROVE F[k] = IF k \in S THEN W[k] ELSE 0
  <2> DEFINE n == detail[k][1]
             w == detail[k][2]
  <2>1. level # Unclassified /\ k \in D
    BY <1>2 DEF Unclassified
  <2>2. F[k] = At(Counts(k[3], k[4], k[5], n, w), x)
    BY <2>1 DEF Row5
  <2>3. At(Counts(k[3], k[4], k[5], n, w), x) = IF k[3] = level THEN (IF mode = "count" THEN n ELSE w) ELSE 0
    <3> DEFINE C == Counts(k[3], k[4], k[5], n, w)
    <3>1. k[3] = level => At(C, <<"level", level>>) = n /\ At(C, <<"stall", level>>) = w
      BY <2>1, CountsLevel
    <3>2. k[3] # level => At(C, <<"level", level>>) = 0 /\ At(C, <<"stall", level>>) = 0
      BY <2>1, CountsLevel
    <3>3. x = IF mode = "count" THEN <<"level", level>> ELSE <<"stall", level>>
      OBVIOUS
    <3> HIDE DEF C, n, w, x
    <3>4. At(C, x) = IF k[3] = level THEN (IF mode = "count" THEN n ELSE w) ELSE 0
      BY <3>1, <3>2, <3>3
    <3> QED BY <3>4 DEF C
  <2>4. W[k] = IF mode = "count" THEN n ELSE w
    BY <2>1
  <2>5. k \in S <=> k[3] = level
    BY <1>2
  <2> HIDE DEF W, F, S, n, w
  <2> QED BY <2>2, <2>3, <2>4, <2>5
<1>5. ASSUME NEW s \in Slices PROVE G[s] = SumFunctionOnSet(W, {k \in S : h[k] = s})
  <2>1. level \in {"DRAM", "L3", "L2", "L1", "other"}
    OBVIOUS
  <2>2. {k \in Kept : k[1] = s /\ k[3] = level /\ k[2] \in scope} = {k \in S : h[k] = s}
    OBVIOUS
  <2>3. MemChart(scope, mode)[<<s, level>>] = SumFunctionOnSet(W, {k \in Kept : k[1] = s /\ k[3] = level /\ k[2] \in scope})
    BY <2>1 DEF MemChart
  <2> HIDE DEF W, S, h
  <2> QED BY <2>2, <2>3
<1>6. {k \in S : h[k] \in Slices} = S
  BY DEF Slices
<1>7. IsFiniteSet(Slices)
  BY <1>1, SlicesAre
<1>8. At(MemoryHtml(scope), x) = SumFunctionOnSet(F, R)
  BY <1>1, HtmlIs DEF Told
<1> HIDE DEF G, W, S, F, R, h, D
<1>9. SumFunctionOnSet(G, Slices) = SumFunctionOnSet(W, S)
  <2>1. \A k \in S : W[k] \in Int
    BY <1>2, <1>3
  <2>2. \A s \in Slices : G[s] = SumFunctionOnSet(W, {k \in S : h[k] = s})
    BY <1>5
  <2> DEFINE V == Slices
  <2>3. IsFiniteSet(V) /\ IsFiniteSet(S)
    BY <1>2, <1>7
  <2>4. \A v \in V : G[v] = SumFunctionOnSet(W, {k \in S : h[k] = v})
    BY <2>2
  <2> HIDE DEF V, x, i
  <2> DEFINE P == [v \in V |-> {k \in S : h[k] = v}]
  <2>5. \A v \in V : P[v] \in SUBSET S /\ \A k \in S : k \in P[v] <=> h[k] = v
    OBVIOUS
  <2>6. \A v \in V : G[v] = SumFunctionOnSet(W, P[v])
    BY <2>4
  <2>7. S \in SUBSET S /\ \A k \in S : k \in S <=> h[k] \in V
    BY <1>6 DEF V
  <2> HIDE DEF P
  <2> QED BY ONLY <2>1, <2>3, <2>5, <2>6, <2>7, SumFibres DEF V
<1>10. SumFunctionOnSet(F, R) = SumFunctionOnSet(W, S)
  BY <1>2, <1>3, <1>4, SumOver
<1> QED BY <1>8, <1>9, <1>10 DEF G

LEMMA MemInvTab == ASSUME MemoryConstants, MemInv PROVE TabIsTheReport
<1> SUFFICES ASSUME NEW scope \in Scopes
             PROVE  /\ Slices = {} \/ Placed => Same(RenderMemory(scope, T0, T1), InParts(MemoryHtml(scope)))
                    /\ Kept = DOMAIN detail /\ Slices # {} => ChartAddsUp(scope)
                    /\ Slices # {} => \A lo, mid, hi \in T0..T1 : lo < mid /\ mid < hi =>
                         Same(Add(RenderMemory(scope, lo, mid), RenderMemory(scope, mid, hi)), RenderMemory(scope, lo, hi))
  BY DEF TabIsTheReport
<1>1. ASSUME Slices = {} PROVE Same(RenderMemory(scope, T0, T1), InParts(MemoryHtml(scope)))
  <2>1. Kept = {}
    BY <1>1, KeptIs DEF MemInv, Slices
  <2> QED BY <2>1 DEF RenderMemory, Same
<1>2. ASSUME Slices # {}, Placed PROVE Same(RenderMemory(scope, T0, T1), InParts(MemoryHtml(scope)))
  BY <1>2, PlacedIsTheReport DEF Same
<1>3. ASSUME Slices # {}, Kept = DOMAIN detail PROVE ChartAddsUp(scope)
  BY <1>3, ChartIsTheReport DEF ChartAddsUp
<1>4. ASSUME Slices # {}, NEW lo \in T0..T1, NEW mid \in T0..T1, NEW hi \in T0..T1, lo < mid, mid < hi
      PROVE  Same(Add(RenderMemory(scope, lo, mid), RenderMemory(scope, mid, hi)), RenderMemory(scope, lo, hi))
  BY <1>4, WindowsMeet DEF Same
<1> QED BY <1>1, <1>2, <1>3, <1>4

\* What the Memory tab counts over the whole window, for any threads, is what the server
\* counted reading the report; its chart stacks the same accesses and cycles; and windows
\* that meet count what they count as one - whatever the rows, their slices and threads,
\* and however many of them the cap leaves out of the windows.
THEOREM TabIsServer == MemSpec => []TabIsTheReport
<1>1. MemInit => MemInv
  BY MemInitInv
<1>2. MemInv /\ [MemNext]_memVars => MemInv'
  BY MemoryConstants, MemStepInv
<1>3. MemInv => TabIsTheReport
  BY MemoryConstants, MemInvTab
<1> QED BY <1>1, <1>2, <1>3, PTL DEF MemSpec
=============================================================================
