--------------------------- MODULE SessionProofs ---------------------------
(***************************************************************************)
(* Proofs about the combined session, for every number of SIGINTs and      *)
(* every choice of options; the last part is its refinement of             *)
(* SessionPromise.                                                         *)
(***************************************************************************)
EXTENDS Session, PerfProcessProofs

\* The session only ever stop()s a collector, so a handle that is done has seen
\* its child end.
StopsOnly == \A p \in Procs : /\ op[p] \in {"idle", "done"} \cup StopOp
                              /\ op[p] = "done" => child[p] # "running"

\* A freeze of ours is a stopped target, remembered in `paused`, and lasts at most
\* from the SIGSTOP to the SIGCONT.
FrozenPc == {"enterTry", "handler", "cont"} \cup BindPc
            \cup {"launchStat", "launchRecord", "settleStat", "settleRecord"}

FreezeInv ==
  /\ paused => signalable /\ ready /\ pc \notin {"spawnTarget", "settleTarget", "look", "freeze"}
  /\ stopper = "us" => /\ tgt = "stopped" /\ paused
                       /\ pc \in FrozenPc \/ (pc = "over" /\ ~(hit \subseteq {"try", "bind"}))

\* Where each collector has not been started yet.
Unstarted(p) ==
  \/ pc \in PrePc
  \/ attempt = "first" /\ pc = "launchStat"
  \/ p = "record" /\ attempt = "first" /\ pc \in {"bindStat", "launchRecord"}

Closing == {"cleanup", "cleanTerm", "cleanKill"}

\* Which part of the function may be running, and what has happened by then.
PlaceInv ==
  /\ unwinding => pc \in {"finRecord", "finStat", "over"} \cup Closing
  /\ pc \in PrePc => hit = {} /\ attempt = "first"

\* The ladder starts a collector only where the last one of its kind has ended.
RelaunchInv ==
  /\ \A p \in Procs : startup[p] # "live" => child[p] # "running"
  /\ \A p \in Procs : Unstarted(p) => child[p] = "absent"
  /\ NoLiveRelaunch

\* A collector that could still run is one the session holds a handle of, and
\* once it has finished with it, it does not run.
HeldInv ==
  hit \subseteq {"try"} =>
    /\ child["stat"] = "running" => bound["stat"] \/ pc = "bindStat"
    /\ child["record"] = "running" => bound["record"] \/ pc = "bindRecord"
    /\ pc \in {"finStat", "post", "over"} => child["record"] # "running"
    /\ pc \in {"post", "over"} => child["stat"] # "running"
    /\ unwinding /\ pc \in Closing =>
         child["stat"] # "running" /\ child["record"] # "running"

\* The owned target is started by the first step and is gone once
\* _cleanup_run_target has returned.
TargetInv ==
  /\ pc = "spawnTarget" => tgt = "absent"
  /\ pc \in {"finRecord", "finStat", "post"} /\ ~unwinding /\ mode = "run" => tgt = "gone"
  /\ pc = "over" /\ mode = "run" /\ hit \subseteq {"try", "bind"} => tgt \in {"absent", "gone"}

SessionInv == /\ SessionTypeOK /\ ProcInv /\ StopsOnly /\ FreezeInv
              /\ PlaceInv /\ RelaunchInv /\ HeldInv /\ TargetInv

-----------------------------------------------------------------------------
(* The handles: the session starts, stops and interrupts the children only *)
(* by the steps PerfProcessProofs has dealt with.                          *)

LEMMA ProcNames == "stat" \in Procs /\ "record" \in Procs
  BY SessionAssumption

\* What a session step does to the handles.
LEMMA HandleSteps ==
  ASSUME Next
  PROVE  \/ UNCHANGED procVars
         \/ TerminalInt /\ terminal'
         \/ \E p \in Procs : \/ Spawn(p) /\ (LaunchStat \/ LaunchRecord)
                             \/ StopStep(p)
                             \/ ChildStep(p)
<1>1. CASE Thread
  <2>1. CASE LaunchStat \/ LaunchRecord
    BY <2>1, ProcNames DEF LaunchStat, LaunchRecord, Launch
  <2>2. CASE FinRecord \/ FinStat
    BY <2>2, ProcNames DEF FinRecord, FinStat, Finish
  <2>3. CASE SpawnTarget \/ SettleTarget \/ Look \/ Freeze \/ EnterTry
    BY <2>3 DEF SpawnTarget, SettleTarget, Look, Freeze, EnterTry
  <2>4. CASE BindStat \/ BindRecord \/ SettleStat \/ SettleRecord
    BY <2>4 DEF BindStat, BindRecord, Bind, SettleStat, SettleRecord
  <2>5. CASE Cont \/ Mark \/ MonitorSee \/ MonitorEnd \/ Handler \/ After \/ Post
    BY <2>5 DEF Cont, Mark, MonitorSee, MonitorEnd, Handler, After, Post
  <2>6. CASE CleanGrace \/ CleanTerm \/ CleanKill
    BY <2>6 DEF CleanGrace, CleanTerm, CleanKill, CleanWait
  <2>7. QED  BY <1>1, <2>1, <2>2, <2>3, <2>4, <2>5, <2>6 DEF Thread
<1>2. CASE Interrupt  BY <1>2 DEF Interrupt
<1>3. CASE Over \/ TargetExit \/ ParentReaps
  BY <1>3 DEF Over, TargetExit, ParentReaps, vars
<1>4. CASE \E p \in Procs : CollectorExit(p) \/ CollectorKilled(p)
  BY <1>4 DEF CollectorExit, CollectorKilled, ChildStep, ExitSelf
<1>5. QED  BY <1>1, <1>2, <1>3, <1>4 DEF Next

LEMMA SessionProcInv == ASSUME ProcInv, Next PROVE ProcInv'
<1>1. CASE UNCHANGED procVars  BY <1>1, ProcNextInv
<1>2. QED
  BY <1>1, HandleSteps, TerminalIntInv, SpawnInv, StopStepInv, ChildStepInv

\* stop() is the only user of the handles.
LEMMA StopsOnlyStep == ASSUME ProcInv, StopsOnly, Next PROVE StopsOnly'
<1>1. CASE UNCHANGED procVars  BY <1>1 DEF StopsOnly, procVars
<1>2. CASE TerminalInt  BY <1>2 DEF StopsOnly, TerminalInt
<1>3. ASSUME NEW p \in Procs, Spawn(p) PROVE StopsOnly'
  BY <1>3 DEF StopsOnly, Spawn, ProcInv, ProcTypeOK
<1>4. ASSUME NEW p \in Procs, ChildStep(p) PROVE StopsOnly'
  BY <1>4 DEF StopsOnly, ChildStep, ExitSelf, ExitOnInt, ExitOnTerm, ExitOnKill, Exit,
              ProcInv, ProcTypeOK
<1>5. ASSUME NEW p \in Procs, StopStep(p) PROVE StopsOnly'
  BY <1>5 DEF StopsOnly, StopStep, StopPoll, StopInt, StopWait, StopKill, StopBlock,
              StopReturn, StopOp, ProcInv, ProcTypeOK
<1>6. QED  BY <1>1, <1>2, <1>3, <1>4, <1>5, HandleSteps

-----------------------------------------------------------------------------
(* Type correctness.                                                       *)


LEMMA PcType == ASSUME pc \in Pc, Next PROVE pc' \in Pc
<1> USE DEF Pc, PrePc, BindPc, TryPc, LatePc
<1>1. CASE SpawnTarget \/ SettleTarget \/ Look \/ Freeze \/ EnterTry
  BY <1>1 DEF SpawnTarget, SettleTarget, Look, Freeze, EnterTry
<1>2. CASE LaunchStat \/ LaunchRecord \/ BindStat \/ BindRecord
  BY <1>2 DEF LaunchStat, LaunchRecord, BindStat, BindRecord, Launch, Bind, AfterStat, AfterRecord
<1>3. CASE SettleStat \/ SettleRecord
  BY <1>3 DEF SettleStat, SettleRecord, RecordLadder
<1>4. CASE Cont \/ Mark \/ MonitorSee \/ MonitorEnd \/ Handler \/ After
  BY <1>4 DEF Cont, Mark, MonitorSee, MonitorEnd, Handler, After
<1>5. CASE FinRecord \/ FinStat \/ Post
  BY <1>5 DEF FinRecord, FinStat, Finish, Post
<1>6. CASE CleanGrace \/ CleanTerm \/ CleanKill
  BY <1>6 DEF CleanGrace, CleanTerm, CleanKill, CleanWait, Cleaned
<1>7. CASE Interrupt  BY <1>7 DEF Interrupt
<1>8. CASE Over \/ TargetExit \/ ParentReaps \/ \E p \in Procs : CollectorExit(p) \/ CollectorKilled(p)
  BY <1>8 DEF Over, TargetExit, ParentReaps, CollectorExit, CollectorKilled, vars, sessionVars
<1>9. QED  BY <1>1, <1>2, <1>3, <1>4, <1>5, <1>6, <1>7, <1>8 DEF Next, Thread

\* The mode of the session and what it may signal are settled once.
LEMMA ConfigFrame == ASSUME Next PROVE UNCHANGED configVars
<1>1. CASE Thread
  BY <1>1 DEF Thread, SpawnTarget, SettleTarget, Look, Freeze, EnterTry, LaunchStat, LaunchRecord,
     BindStat, BindRecord, Launch, Bind, SettleStat, SettleRecord, Cont, Mark, MonitorSee,
     MonitorEnd, Handler, After, FinRecord, FinStat, Finish, Post, CleanGrace, CleanTerm,
     CleanKill, CleanWait, configVars
<1>2. CASE Interrupt \/ Over \/ TargetExit \/ ParentReaps
  BY <1>2 DEF Interrupt, Over, TargetExit, ParentReaps, vars, sessionVars, configVars
<1>3. CASE \E p \in Procs : CollectorExit(p) \/ CollectorKilled(p)
  BY <1>3 DEF CollectorExit, CollectorKilled, sessionVars, configVars
<1>4. QED  BY <1>1, <1>2, <1>3 DEF Next

LEMMA TargetType == ASSUME TargetOK, Next PROVE TargetOK'
<1> USE DEF TargetOK, targetVars
<1>1. CASE SpawnTarget \/ SettleTarget \/ Look \/ EnterTry
  BY <1>1 DEF SpawnTarget, SettleTarget, Look, EnterTry, Polled
<1>2. CASE Freeze  BY <1>2 DEF Freeze, SigStop
<1>3. CASE LaunchStat \/ LaunchRecord \/ BindStat \/ BindRecord \/ SettleStat \/ SettleRecord
  BY <1>3 DEF LaunchStat, LaunchRecord, BindStat, BindRecord, Launch, Bind, SettleStat, SettleRecord
<1>4. CASE Cont \/ Mark \/ MonitorSee \/ MonitorEnd
  BY <1>4 DEF Cont, Mark, MonitorSee, MonitorEnd, SigCont, Polled
<1>5. CASE Handler \/ After  BY <1>5 DEF Handler, After, SigCont
<1>6. CASE FinRecord \/ FinStat \/ Post  BY <1>6 DEF FinRecord, FinStat, Finish, Post
<1>7. CASE CleanGrace \/ CleanTerm \/ CleanKill
  BY <1>7 DEF CleanGrace, CleanTerm, CleanKill, CleanWait, Polled
<1>8. CASE Interrupt \/ Over \/ TargetExit \/ ParentReaps
  BY <1>8 DEF Interrupt, Over, TargetExit, ParentReaps, vars, sessionVars
<1>9. CASE \E p \in Procs : CollectorExit(p) \/ CollectorKilled(p)
  BY <1>9 DEF CollectorExit, CollectorKilled, sessionVars
<1>10. QED
  BY <1>1, <1>2, <1>3, <1>4, <1>5, <1>6, <1>7, <1>8, <1>9 DEF Next, Thread

LEMMA FreezeType == ASSUME FreezeOK, ConfigOK, Next PROVE FreezeOK'
<1> USE DEF FreezeOK, ConfigOK, freezeVars
<1>1. CASE SpawnTarget \/ SettleTarget \/ Look \/ EnterTry
  BY <1>1 DEF SpawnTarget, SettleTarget, Look, EnterTry
<1>2. CASE Freeze  BY <1>2 DEF Freeze, CanSignal
<1>3. CASE LaunchStat \/ LaunchRecord \/ BindStat \/ BindRecord \/ SettleStat \/ SettleRecord
  BY <1>3 DEF LaunchStat, LaunchRecord, BindStat, BindRecord, Launch, Bind, SettleStat, SettleRecord
<1>4. CASE Cont \/ Mark \/ MonitorSee \/ MonitorEnd
  BY <1>4 DEF Cont, Mark, MonitorSee, MonitorEnd
<1>5. CASE Handler \/ After  BY <1>5 DEF Handler, After
<1>6. CASE FinRecord \/ FinStat \/ Post  BY <1>6 DEF FinRecord, FinStat, Finish, Post
<1>7. CASE CleanGrace \/ CleanTerm \/ CleanKill
  BY <1>7 DEF CleanGrace, CleanTerm, CleanKill, CleanWait
<1>8. CASE Interrupt \/ Over \/ TargetExit \/ ParentReaps
  BY <1>8 DEF Interrupt, Over, TargetExit, ParentReaps, vars, sessionVars
<1>9. CASE \E p \in Procs : CollectorExit(p) \/ CollectorKilled(p)
  BY <1>9 DEF CollectorExit, CollectorKilled, sessionVars
<1>10. QED
  BY <1>1, <1>2, <1>3, <1>4, <1>5, <1>6, <1>7, <1>8, <1>9 DEF Next, Thread

\* A rung of the record's ladder.
LEMMA RungType ==
  ASSUME NEW left \in SUBSET Options, NEW st \in [Procs -> {"live", "ok", "failed"}],
         RecordLadder(left, st)
  PROVE  /\ startup' \in [Procs -> {"live", "ok", "failed"}]
         /\ attempt' \in {"first", "bare", "cpu", "fp"}
         /\ active' \in SUBSET Options
  BY DEF RecordLadder

LEMMA RefuseType ==
  ASSUME LadderOK, NEW st, Refuse(st) PROVE refused' \subseteq SUBSET Options
  BY ProcNames DEF LadderOK, Refuse

LEMMA LadderType == ASSUME LadderOK, Next PROVE LadderOK'
<1> USE DEF LadderOK, ladderVars
<1>1. CASE SpawnTarget \/ SettleTarget \/ Look \/ Freeze \/ EnterTry
  BY <1>1 DEF SpawnTarget, SettleTarget, Look, Freeze, EnterTry
<1>2. CASE LaunchStat \/ LaunchRecord
  <2>1. \A p \in Procs : Args(p) \in SUBSET Options  BY DEF Args
  <2>2. PICK p \in Procs, here \in Pc, bind \in Pc, failed \in Pc : Launch(p, here, bind, failed)
    BY <1>2, ProcNames DEF LaunchStat, LaunchRecord, AfterStat, AfterRecord, Pc, TryPc, BindPc
  <2>3. startup' \in [Procs -> {"live", "ok", "failed"}] /\ bound' \in [Procs -> BOOLEAN]
    BY <2>2 DEF Launch
  <2>4. using' \in [Procs -> SUBSET Options]  BY <2>1, <2>2 DEF Launch
  <2>5. QED  BY <2>2, <2>3, <2>4 DEF Launch
<1>3. CASE BindStat \/ BindRecord  BY <1>3 DEF BindStat, BindRecord, Bind
<1>4. CASE SettleStat \/ SettleRecord
  <2>1. \A p \in Procs : [startup EXCEPT ![p] = Settled(p)] \in [Procs -> {"live", "ok", "failed"}]
    BY DEF Settled
  <2>2. /\ startup' \in [Procs -> {"live", "ok", "failed"}]
        /\ attempt' \in {"first", "bare", "cpu", "fp"}
        /\ active' \in SUBSET Options
    <3>1. active \in SUBSET Options /\ active \ {"interval"} \in SUBSET Options  OBVIOUS
    <3>2. CASE SettleStat
      BY <2>1, <3>1, <3>2, ProcNames, RungType DEF SettleStat
    <3>3. CASE SettleRecord
      BY <2>1, <3>1, <3>3, ProcNames, RungType DEF SettleRecord
    <3>4. QED  BY <1>4, <3>2, <3>3
  <2>3. refused' \subseteq SUBSET Options
    BY <1>4, RefuseType DEF SettleStat, SettleRecord, RecordLadder
  <2>4. QED  BY <1>4, <2>2, <2>3 DEF SettleStat, SettleRecord
<1>5. CASE Cont \/ Mark \/ MonitorSee \/ MonitorEnd \/ Handler
  BY <1>5 DEF Cont, Mark, MonitorSee, MonitorEnd, Handler
<1>6. CASE After  BY <1>6, ProcNames DEF After, ForgetStartup
<1>7. CASE FinRecord \/ FinStat \/ Post  BY <1>7 DEF FinRecord, FinStat, Finish, Post
<1>8. CASE CleanGrace \/ CleanTerm \/ CleanKill
  BY <1>8 DEF CleanGrace, CleanTerm, CleanKill, CleanWait
<1>9. CASE Interrupt  BY <1>9 DEF Interrupt, ForgetStartup, ForgetPlan
<1>10. CASE Over \/ TargetExit \/ ParentReaps
  BY <1>10 DEF Over, TargetExit, ParentReaps, vars, sessionVars
<1>11. CASE \E p \in Procs : CollectorExit(p) \/ CollectorKilled(p)
  BY <1>11 DEF CollectorExit, CollectorKilled, sessionVars
<1>12. QED
  BY <1>1, <1>2, <1>3, <1>4, <1>5, <1>6, <1>7, <1>8, <1>9, <1>10, <1>11 DEF Next, Thread

LEMMA EndType == ASSUME EndOK, Next PROVE EndOK'
<1> USE DEF EndOK
<1>1. CASE SpawnTarget \/ SettleTarget \/ Look \/ Freeze \/ EnterTry
  BY <1>1 DEF SpawnTarget, SettleTarget, Look, Freeze, EnterTry
<1>2. CASE LaunchStat \/ LaunchRecord \/ BindStat \/ BindRecord \/ SettleStat \/ SettleRecord
  BY <1>2 DEF LaunchStat, LaunchRecord, BindStat, BindRecord, Launch, Bind, SettleStat, SettleRecord
<1>3. CASE Cont \/ Mark \/ MonitorSee \/ MonitorEnd
  BY <1>3 DEF Cont, Mark, MonitorSee, MonitorEnd
<1>4. CASE Handler \/ After  BY <1>4 DEF Handler, After
<1>5. CASE FinRecord \/ FinStat \/ Post  BY <1>5 DEF FinRecord, FinStat, Finish, Post
<1>6. CASE CleanGrace \/ CleanTerm \/ CleanKill
  BY <1>6 DEF CleanGrace, CleanTerm, CleanKill, CleanWait, Cleaned
<1>7. CASE Interrupt \/ Over \/ TargetExit \/ ParentReaps
  BY <1>7 DEF Interrupt, Over, TargetExit, ParentReaps, vars, sessionVars
<1>8. CASE \E p \in Procs : CollectorExit(p) \/ CollectorKilled(p)
  BY <1>8 DEF CollectorExit, CollectorKilled, sessionVars
<1>9. QED
  BY <1>1, <1>2, <1>3, <1>4, <1>5, <1>6, <1>7, <1>8 DEF Next, Thread

\* Only an interrupt touches its own bookkeeping.
LEMMA IntFrame == ASSUME Next PROVE Interrupt \/ UNCHANGED intVars
<1>1. CASE Thread
  BY <1>1 DEF Thread, SpawnTarget, SettleTarget, Look, Freeze, EnterTry, LaunchStat, LaunchRecord,
     BindStat, BindRecord, Launch, Bind, SettleStat, SettleRecord, Cont, Mark, MonitorSee,
     MonitorEnd, Handler, After, FinRecord, FinStat, Finish, Post, CleanGrace, CleanTerm,
     CleanKill, CleanWait, intVars
<1>2. CASE Over \/ TargetExit \/ ParentReaps
  BY <1>2 DEF Over, TargetExit, ParentReaps, vars, sessionVars, intVars
<1>3. CASE \E p \in Procs : CollectorExit(p) \/ CollectorKilled(p)
  BY <1>3 DEF CollectorExit, CollectorKilled, sessionVars, intVars
<1>4. QED  BY <1>1, <1>2, <1>3 DEF Next

LEMMA IntType == ASSUME IntOK, Next PROVE IntOK'
<1>1. CASE UNCHANGED intVars  BY <1>1 DEF IntOK, intVars
<1>2. CASE Interrupt
  <2>1. Region(pc) \in {"pre", "bind", "try", "late"}  BY DEF Region
  <2>2. hit' \in SUBSET {"pre", "bind", "try", "late"}  BY <1>2, <2>1 DEF IntOK, Interrupt
  <2>3. ints' \in 0..MaxInterrupts  BY <1>2, SessionAssumption DEF IntOK, Interrupt
  <2>4. terminal' \in BOOLEAN
    BY <1>2 DEF IntOK, Interrupt
  <2>5. QED  BY <2>2, <2>3, <2>4 DEF IntOK
<1>3. QED  BY <1>1, <1>2, IntFrame

LEMMA TypeStep == ASSUME SessionTypeOK, ProcInv, Next PROVE SessionTypeOK'
<1>1. ConfigOK'  BY ConfigFrame DEF SessionTypeOK, ConfigOK, configVars
<1>2. ProcTypeOK'  BY SessionProcInv DEF ProcInv
<1>3. QED
  BY <1>1, <1>2, PcType, TargetType, FreezeType, LadderType, EndType, IntType DEF SessionTypeOK

-----------------------------------------------------------------------------
(* The freeze.                                                             *)

LEMMA FreezeStep == ASSUME FreezeInv, Next PROVE FreezeInv'
<1> USE DEF FreezeInv, FrozenPc, BindPc, targetVars, freezeVars, configVars
<1>1. CASE SpawnTarget \/ SettleTarget \/ Look \/ EnterTry
  BY <1>1 DEF SpawnTarget, SettleTarget, Look, EnterTry, Polled, intVars
<1>2. CASE Freeze
  <2>1. CASE CanSignal
    <3>1. signalable' /\ ready' /\ pc' = "enterTry"  BY <1>2, <2>1 DEF Freeze, CanSignal
    <3>2. stopper' = "us" => tgt' = "stopped" /\ paused' /\ pc' = "enterTry"
      BY <1>2, <2>1 DEF Freeze, SigStop
    <3>3. QED  BY <3>1, <3>2
  <2>2. CASE ~CanSignal
    <3>1. ~paused' /\ stopper' # "us"  BY <1>2, <2>2 DEF Freeze
    <3>2. QED  BY <3>1
  <2>3. QED  BY <2>1, <2>2
<1>3. CASE LaunchStat \/ LaunchRecord \/ BindStat \/ BindRecord
  BY <1>3 DEF LaunchStat, LaunchRecord, BindStat, BindRecord, Launch, Bind, AfterStat, AfterRecord
<1>4. CASE SettleStat \/ SettleRecord
  BY <1>4 DEF SettleStat, SettleRecord, RecordLadder
<1>5. CASE Cont  BY <1>5 DEF Cont, SigCont, CanSignal
<1>6. CASE Mark \/ MonitorSee \/ MonitorEnd  BY <1>6 DEF Mark, MonitorSee, MonitorEnd, Polled
<1>7. CASE Handler  BY <1>7 DEF Handler, SigCont, CanSignal
<1>8. CASE After  BY <1>8 DEF After, SigCont
<1>9. CASE FinRecord \/ FinStat \/ Post  BY <1>9 DEF FinRecord, FinStat, Finish, Post
<1>10. CASE CleanGrace \/ CleanTerm \/ CleanKill
  BY <1>10 DEF CleanGrace, CleanTerm, CleanKill, CleanWait, Cleaned, Polled
<1>11. CASE Interrupt
  <2>1. pc \in {"enterTry", "handler"} => Region(pc) \notin {"try", "bind"}
    BY DEF Region, PrePc, TryPc
  <2>2. QED  BY <1>11, <2>1 DEF Interrupt, TryPc
<1>12. CASE Over \/ TargetExit \/ ParentReaps
  BY <1>12 DEF Over, TargetExit, ParentReaps, vars, sessionVars, intVars
<1>13. CASE \E p \in Procs : CollectorExit(p) \/ CollectorKilled(p)
  BY <1>13 DEF CollectorExit, CollectorKilled, sessionVars, intVars
<1>14. QED
  BY <1>1, <1>2, <1>3, <1>4, <1>5, <1>6, <1>7, <1>8, <1>9, <1>10, <1>11, <1>12, <1>13
     DEF Next, Thread

-----------------------------------------------------------------------------
(* The collectors.                                                         *)

LEMMA PlaceStep == ASSUME PlaceInv, Next PROVE PlaceInv'
<1> USE DEF PlaceInv, PrePc, Closing, ladderVars, intVars
<1>1. CASE SpawnTarget \/ SettleTarget \/ Look \/ Freeze \/ EnterTry
  BY <1>1 DEF SpawnTarget, SettleTarget, Look, Freeze, EnterTry
<1>2. CASE LaunchStat \/ LaunchRecord \/ BindStat \/ BindRecord
  BY <1>2 DEF LaunchStat, LaunchRecord, BindStat, BindRecord, Launch, Bind, AfterStat, AfterRecord
<1>3. CASE SettleStat \/ SettleRecord  BY <1>3 DEF SettleStat, SettleRecord, RecordLadder
<1>4. CASE Cont \/ Mark \/ MonitorSee \/ MonitorEnd \/ Handler \/ After
  BY <1>4 DEF Cont, Mark, MonitorSee, MonitorEnd, Handler, After
<1>5. CASE FinRecord \/ FinStat \/ Post  BY <1>5 DEF FinRecord, FinStat, Finish, Post
<1>6. CASE CleanGrace \/ CleanTerm \/ CleanKill
  BY <1>6 DEF CleanGrace, CleanTerm, CleanKill, CleanWait, Cleaned
<1>7. CASE Interrupt  BY <1>7 DEF Interrupt, TryPc, BindPc
<1>8. CASE Over \/ TargetExit \/ ParentReaps
  BY <1>8 DEF Over, TargetExit, ParentReaps, vars, sessionVars
<1>9. CASE \E p \in Procs : CollectorExit(p) \/ CollectorKilled(p)
  BY <1>9 DEF CollectorExit, CollectorKilled, sessionVars
<1>10. QED
  BY <1>1, <1>2, <1>3, <1>4, <1>5, <1>6, <1>7, <1>8, <1>9 DEF Next, Thread

\* Outside the launches, a child only ever goes from running to ended.
LEMMA ChildFrame ==
  ASSUME ProcTypeOK, Next, ~(LaunchStat \/ LaunchRecord)
  PROVE  \A p \in Procs : child'[p] = child[p] \/ (child[p] = "running" /\ child'[p] = "exited")
<1>1. CASE UNCHANGED procVars  BY <1>1 DEF procVars
<1>2. CASE TerminalInt  BY <1>2 DEF TerminalInt
<1>3. CASE \E p \in Procs : StopStep(p)
  BY <1>3 DEF StopStep, StopPoll, StopInt, StopWait, StopKill, StopBlock, StopReturn
<1>4. CASE \E p \in Procs : ChildStep(p)
  BY <1>4 DEF ChildStep, ExitSelf, ExitOnInt, ExitOnTerm, ExitOnKill, Exit, ProcTypeOK
<1>5. QED  BY <1>1, <1>2, <1>3, <1>4, HandleSteps

LEMMA RelaunchStep ==
  ASSUME SessionTypeOK, PlaceInv, RelaunchInv, Next PROVE RelaunchInv'
<1> USE DEF RelaunchInv, Unstarted, NoLiveRelaunch, PrePc, ladderVars
<1> USE ProcNames, SessionAssumption
<1>0. ProcTypeOK /\ startup \in [Procs -> {"live", "ok", "failed"}]
  BY DEF SessionTypeOK, LadderOK
<1>1. CASE LaunchStat
  <2>1. child'["record"] = child["record"] /\ startup' = [startup EXCEPT !["stat"] = "live"]
    BY <1>0, <1>1 DEF LaunchStat, Launch, Spawn, procVars, ProcTypeOK
  <2>2. attempt' = attempt /\ pc' \in {"bindStat", "launchRecord", "settleStat"}
    BY <1>1 DEF LaunchStat, Launch, AfterStat
  <2>3. attempt # "first" => pc' # "launchRecord"
    BY <1>1 DEF LaunchStat, Launch, AfterStat
  <2>4. attempt = "first" => child["record"] = "absent"
    BY <1>1 DEF LaunchStat, Launch
  <2>5. \A p \in Procs : startup'[p] # "live" => child'[p] # "running"
    BY <1>0, <2>1
  <2>6. QED  BY <2>1, <2>2, <2>3, <2>4, <2>5
<1>2. CASE LaunchRecord
  <2>1. child'["stat"] = child["stat"] /\ startup' = [startup EXCEPT !["record"] = "live"]
    BY <1>0, <1>2 DEF LaunchRecord, Launch, Spawn, procVars, ProcTypeOK
  <2>2. pc' \in {"bindRecord", "settleStat", "settleRecord"}
    BY <1>2 DEF LaunchRecord, Launch, AfterRecord
  <2>3. \A p \in Procs : startup'[p] # "live" => child'[p] # "running"
    BY <1>0, <2>1
  <2>4. QED  BY <2>2, <2>3
<1>3. CASE ~(LaunchStat \/ LaunchRecord)
  <2>1. \A p \in Procs : child'[p] = child[p] \/ (child[p] = "running" /\ child'[p] = "exited")
    BY <1>0, <1>3, ChildFrame
  <2>2. CASE SpawnTarget \/ SettleTarget \/ Look \/ Freeze \/ EnterTry
    BY <2>1, <2>2 DEF PlaceInv, SpawnTarget, SettleTarget, Look, Freeze, EnterTry
  <2>3. CASE BindStat \/ BindRecord
    BY <2>1, <2>3 DEF BindStat, BindRecord, Bind, AfterStat, AfterRecord
  <2>4. CASE SettleStat
    <3> DEFINE st == [startup EXCEPT !["stat"] = Settled("stat")]
    <3>1. child' = child  BY <2>4 DEF SettleStat, procVars
    <3>2. \A p \in Procs : st[p] # "live" => child[p] # "running"
      BY <1>0 DEF Settled
    <3>3. pc' \in {"settleRecord", "launchRecord", "cont"}
      BY <2>4 DEF SettleStat, RecordLadder
    <3>4. pc' = "launchRecord" => st["record"] = "failed" /\ attempt' # "first"
      BY <2>4 DEF SettleStat, RecordLadder
    <3>5. startup' = st \/ startup' = [p \in Procs |-> "live"]
      BY <2>4 DEF SettleStat, RecordLadder
    <3>6. QED  BY <3>1, <3>2, <3>3, <3>4, <3>5
  <2>5. CASE SettleRecord
    <3> DEFINE st == [startup EXCEPT !["record"] = Settled("record")]
    <3>1. child' = child  BY <2>5 DEF SettleRecord, procVars
    <3>2. \A p \in Procs : st[p] # "live" => child[p] # "running"
      BY <1>0 DEF Settled
    <3>3. pc' \in {"launchStat", "launchRecord", "cont"}
      BY <2>5 DEF SettleRecord, RecordLadder
    <3>4. /\ pc' = "launchRecord" => st["record"] = "failed" /\ attempt' # "first"
          /\ pc' = "launchStat" => st["stat"] = "failed" /\ attempt' # "first"
      BY <2>5 DEF SettleRecord, RecordLadder
    <3>5. startup' = st \/ startup' = [p \in Procs |-> "live"]
      BY <2>5 DEF SettleRecord, RecordLadder
    <3>6. QED  BY <3>1, <3>2, <3>3, <3>4, <3>5
  <2>6. CASE Cont \/ Mark \/ MonitorSee \/ MonitorEnd \/ Handler
    BY <2>1, <2>6 DEF Cont, Mark, MonitorSee, MonitorEnd, Handler
  <2>7. CASE After  BY <2>1, <2>7 DEF After, ForgetStartup
  <2>8. CASE FinRecord \/ FinStat \/ Post
    BY <2>1, <2>8 DEF FinRecord, FinStat, Finish, Post
  <2>9. CASE CleanGrace \/ CleanTerm \/ CleanKill
    BY <2>1, <2>9 DEF CleanGrace, CleanTerm, CleanKill, CleanWait, Cleaned
  <2>10. CASE Interrupt  BY <2>1, <2>10 DEF Interrupt, ForgetStartup
  <2>11. CASE Over \/ TargetExit \/ ParentReaps
    BY <2>1, <2>11 DEF Over, TargetExit, ParentReaps, vars, sessionVars
  <2>12. CASE \E p \in Procs : CollectorExit(p) \/ CollectorKilled(p)
    BY <2>1, <2>12 DEF CollectorExit, CollectorKilled, sessionVars
  <2>13. QED
    BY <1>3, <2>2, <2>3, <2>4, <2>5, <2>6, <2>7, <2>8, <2>9, <2>10, <2>11, <2>12
       DEF Next, Thread
<1>4. QED  BY <1>1, <1>2, <1>3

LEMMA HeldStep ==
  ASSUME SessionInv, Next PROVE HeldInv'
<1> USE DEF HeldInv, Closing, intVars
<1> USE ProcNames
<1>0. /\ ProcTypeOK /\ bound \in [Procs -> BOOLEAN] /\ PlaceInv /\ RelaunchInv /\ StopsOnly
      /\ HeldInv
  BY DEF SessionInv, SessionTypeOK, LadderOK
<1>1. CASE LaunchStat
  <2>1. child'["record"] = child["record"] /\ bound'["record"] = bound["record"]
    BY <1>0, <1>1 DEF LaunchStat, Launch, Spawn, procVars, ProcTypeOK
  <2>2. child["stat"] # "running"
    BY <1>0, <1>1 DEF RelaunchInv, NoLiveRelaunch, LaunchStat, Launch
  <2>3. child'["stat"] = "running" => pc' = "bindStat"
    BY <1>1, <2>2 DEF LaunchStat, Launch, procVars
  <2>4. pc' \in {"bindStat", "launchRecord", "settleStat"} /\ pc = "launchStat" /\ hit' = hit
    BY <1>1 DEF LaunchStat, Launch, AfterStat
  <2>5. QED  BY <1>0, <2>1, <2>3, <2>4
<1>2. CASE LaunchRecord
  <2>1. child'["stat"] = child["stat"] /\ bound'["stat"] = bound["stat"]
    BY <1>0, <1>2 DEF LaunchRecord, Launch, Spawn, procVars, ProcTypeOK
  <2>2. child["record"] # "running"
    BY <1>0, <1>2 DEF RelaunchInv, NoLiveRelaunch, LaunchRecord, Launch
  <2>3. child'["record"] = "running" => pc' = "bindRecord"
    BY <1>2, <2>2 DEF LaunchRecord, Launch, procVars
  <2>4. pc' \in {"bindRecord", "settleStat", "settleRecord"} /\ pc = "launchRecord" /\ hit' = hit
    BY <1>2 DEF LaunchRecord, Launch, AfterRecord
  <2>5. QED  BY <1>0, <2>1, <2>3, <2>4
<1>3. CASE ~(LaunchStat \/ LaunchRecord)
  <2>1. \A p \in Procs : child'[p] = "running" => child[p] = "running"
    BY <1>0, <1>3, ChildFrame
  <2>2. CASE SpawnTarget \/ SettleTarget \/ Look \/ Freeze \/ EnterTry
    <3>1. \A p \in Procs : child[p] # "running"
      BY <1>0, <2>2 DEF SpawnTarget, SettleTarget, Look, Freeze, EnterTry, RelaunchInv,
                        Unstarted, PrePc
    <3>2. QED  BY <2>1, <3>1
  <2>3. CASE BindStat \/ BindRecord
    <3>1. pc' \in {"launchRecord", "settleStat", "settleRecord"} /\ hit' = hit
      BY <2>3 DEF BindStat, BindRecord, Bind, AfterStat, AfterRecord
    <3>2. \/ pc = "bindStat" /\ bound' = [bound EXCEPT !["stat"] = TRUE]
          \/ pc = "bindRecord" /\ bound' = [bound EXCEPT !["record"] = TRUE]
      BY <2>3 DEF BindStat, BindRecord, Bind
    <3>3. QED  BY <1>0, <2>1, <3>1, <3>2
  <2>4. CASE SettleStat \/ SettleRecord
    BY <1>0, <2>1, <2>4 DEF SettleStat, SettleRecord, RecordLadder
  <2>5. CASE Cont \/ Mark \/ MonitorSee \/ MonitorEnd \/ After
    BY <1>0, <2>1, <2>5 DEF Cont, Mark, MonitorSee, MonitorEnd, After, PlaceInv
  <2>6. CASE Handler
    BY <1>0, <2>1, <2>6 DEF Handler, PlaceInv
  <2>7. CASE FinRecord
    <3>1. pc = "finRecord" /\ bound' = bound /\ hit' = hit /\ unwinding' = unwinding
      BY <2>7 DEF FinRecord, Finish
    <3>2. CASE pc' = pc  BY <1>0, <2>1, <3>1, <3>2
    <3>3. CASE pc' = "finStat" /\ (~bound["record"] \/ op["record"] = "done")
      <4>1. hit \subseteq {"try"} => child["record"] # "running"
        BY <1>0, <3>1, <3>3 DEF StopsOnly
      <4>2. QED  BY <1>0, <2>1, <3>1, <3>3, <4>1
    <3>4. QED  BY <2>7, <3>2, <3>3 DEF FinRecord, Finish
  <2>8. CASE FinStat
    <3>1. pc = "finStat" /\ bound' = bound /\ hit' = hit /\ unwinding' = unwinding
      BY <2>8 DEF FinStat, Finish
    <3>2. CASE pc' = pc  BY <1>0, <2>1, <3>1, <3>2
    <3>3. CASE pc' \in {"cleanup", "post"} /\ (~bound["stat"] \/ op["stat"] = "done")
      <4>1. hit \subseteq {"try"} => child["stat"] # "running" /\ child["record"] # "running"
        BY <1>0, <3>1, <3>3 DEF StopsOnly
      <4>2. QED  BY <1>0, <2>1, <3>1, <3>3, <4>1
    <3>4. QED  BY <2>8, <3>2, <3>3 DEF FinStat, Finish
  <2>9. CASE Post  BY <1>0, <2>1, <2>9 DEF Post
  <2>10. CASE CleanGrace \/ CleanTerm \/ CleanKill
    BY <1>0, <2>1, <2>10 DEF CleanGrace, CleanTerm, CleanKill, CleanWait, Cleaned, PlaceInv
  <2>11. CASE Interrupt
    <3>1. pc \in TryPc \/ ~(hit' \subseteq {"try"})
      BY <2>11 DEF Interrupt, Region, PrePc, BindPc, TryPc
    <3>2. CASE pc \in TryPc /\ hit' \subseteq {"try"}
      <4>1. pc' = "handler" /\ bound' = bound /\ unwinding' = unwinding /\ hit \subseteq {"try"}
        BY <2>11, <3>2 DEF Interrupt
      <4>2. QED  BY <1>0, <2>1, <3>2, <4>1 DEF TryPc
    <3>3. QED  BY <3>1, <3>2
  <2>12. CASE Over \/ TargetExit \/ ParentReaps
    BY <1>0, <2>1, <2>12 DEF Over, TargetExit, ParentReaps, vars, sessionVars
  <2>13. CASE \E p \in Procs : CollectorExit(p) \/ CollectorKilled(p)
    BY <1>0, <2>1, <2>13 DEF CollectorExit, CollectorKilled, sessionVars
  <2>14. QED
    BY <1>3, <2>2, <2>3, <2>4, <2>5, <2>6, <2>7, <2>8, <2>9, <2>10, <2>11, <2>12, <2>13
       DEF Next, Thread
<1>4. QED  BY <1>1, <1>2, <1>3

LEMMA TargetStep == ASSUME TargetInv, PlaceInv, Next PROVE TargetInv'
<1> USE DEF TargetInv, targetVars, configVars, intVars
<1>1. CASE SpawnTarget \/ SettleTarget \/ Look \/ Freeze \/ EnterTry
  BY <1>1 DEF SpawnTarget, SettleTarget, Look, Freeze, EnterTry
<1>2. CASE LaunchStat \/ LaunchRecord \/ BindStat \/ BindRecord
  BY <1>2 DEF LaunchStat, LaunchRecord, BindStat, BindRecord, Launch, Bind, AfterStat, AfterRecord
<1>3. CASE SettleStat \/ SettleRecord  BY <1>3 DEF SettleStat, SettleRecord, RecordLadder
<1>4. CASE Cont \/ Mark \/ MonitorSee \/ MonitorEnd
  BY <1>4 DEF Cont, Mark, MonitorSee, MonitorEnd
<1>5. CASE Handler \/ After  BY <1>5 DEF Handler, After, PlaceInv, Closing
<1>6. CASE FinRecord \/ FinStat  BY <1>6 DEF FinRecord, FinStat, Finish
<1>7. CASE Post  BY <1>7 DEF Post, PlaceInv, Closing
<1>8. CASE CleanGrace \/ CleanTerm \/ CleanKill
  BY <1>8 DEF CleanGrace, CleanTerm, CleanKill, CleanWait, Cleaned, Polled, Dead
<1>9. CASE Interrupt
  <2>1. CASE pc \in TryPc \cup BindPc  BY <1>9, <2>1 DEF Interrupt, TryPc, BindPc
  <2>2. CASE pc \notin TryPc \cup BindPc
    <3>1. Region(pc) \notin {"try", "bind"}  BY <2>2 DEF Region
    <3>2. QED  BY <1>9, <2>2, <3>1 DEF Interrupt
  <2>3. QED  BY <2>1, <2>2
<1>10. CASE Over \/ TargetExit \/ ParentReaps
  BY <1>10 DEF Over, TargetExit, ParentReaps, vars, sessionVars
<1>11. CASE \E p \in Procs : CollectorExit(p) \/ CollectorKilled(p)
  BY <1>11 DEF CollectorExit, CollectorKilled, sessionVars
<1>12. QED
  BY <1>1, <1>2, <1>3, <1>4, <1>5, <1>6, <1>7, <1>8, <1>9, <1>10, <1>11 DEF Next, Thread

-----------------------------------------------------------------------------
(* The theorems.                                                           *)

LEMMA SessionInitInv == Init => SessionInv
<1> SUFFICES ASSUME Init PROVE SessionInv  OBVIOUS
<1> USE SessionAssumption, ProcNames
<1>1. ProcInv  BY ProcInitInv DEF Init
<1>2. /\ pc \in Pc /\ ConfigOK /\ TargetOK /\ FreezeOK /\ LadderOK /\ EndOK /\ IntOK
  <2>1. pc \in Pc  BY DEF Init, Pc, PrePc
  <2>2. ConfigOK  BY DEF Init, ConfigOK
  <2>3. TargetOK  BY DEF Init, TargetOK
  <2>4. FreezeOK /\ EndOK  BY DEF Init, FreezeOK, EndOK
  <2>5. LadderOK
    <3>1. active \in SUBSET Options  BY DEF Init
    <3>2. [p \in Procs |-> {}] \in [Procs -> SUBSET Options]  OBVIOUS
    <3>3. using \in [Procs -> SUBSET Options]  BY <3>2 DEF Init
    <3>4. bound \in [Procs -> BOOLEAN] /\ startup \in [Procs -> {"live", "ok", "failed"}]
      BY DEF Init
    <3>5. attempt \in {"first", "bare", "cpu", "fp"}  BY DEF Init
    <3>6. refused \subseteq SUBSET Options  BY DEF Init
    <3>7. QED  BY <3>1, <3>3, <3>4, <3>5, <3>6 DEF LadderOK
  <2>6. IntOK
    <3>1. ints \in 0..MaxInterrupts
      <4>1. ints = 0  BY DEF Init
      <4>2. QED  BY <4>1
    <3>2. hit \in SUBSET {"pre", "bind", "try", "late"}  BY DEF Init
    <3>3. terminal \in BOOLEAN  BY DEF Init
    <3>4. QED  BY <3>1, <3>2, <3>3 DEF IntOK
  <2>7. QED  BY <2>1, <2>2, <2>3, <2>4, <2>5, <2>6
<1>3. SessionTypeOK  BY <1>1, <1>2 DEF SessionTypeOK, ProcInv
<1>4. \A p \in Procs : child[p] = "absent" /\ op[p] = "idle" /\ startup[p] = "live"
  BY DEF Init, ProcInit
<1>5. StopsOnly /\ RelaunchInv /\ HeldInv
  BY <1>4 DEF StopsOnly, RelaunchInv, NoLiveRelaunch, HeldInv
<1>6. FreezeInv /\ PlaceInv /\ TargetInv
  BY DEF Init, FreezeInv, PlaceInv, TargetInv
<1>7. QED  BY <1>1, <1>3, <1>5, <1>6 DEF SessionInv

LEMMA SessionNextInv == SessionInv /\ [Next]_vars => SessionInv'
<1>1. ASSUME SessionInv, Next PROVE SessionInv'
  BY <1>1, TypeStep, SessionProcInv, StopsOnlyStep, FreezeStep, PlaceStep, RelaunchStep, HeldStep,
     TargetStep DEF SessionInv
<1>2. ASSUME SessionInv, UNCHANGED vars PROVE SessionInv'
  <2>2. UNCHANGED <<procVars, sessionVars>>  BY <1>2 DEF vars
  <2>3. ProcInv'  BY <1>2, <2>2, ProcNextInv DEF SessionInv
  <2>4. SessionTypeOK'
    BY <1>2, <2>2, <2>3 DEF SessionInv, SessionTypeOK, ProcInv, sessionVars, configVars, targetVars,
       freezeVars, ladderVars, intVars, ConfigOK, TargetOK, FreezeOK, LadderOK, EndOK, IntOK
  <2>5. StopsOnly' /\ RelaunchInv'
    BY <1>2, <2>2 DEF SessionInv, procVars, sessionVars, ladderVars, StopsOnly, RelaunchInv,
       NoLiveRelaunch, Unstarted
  <2>6. FreezeInv' /\ PlaceInv' /\ HeldInv' /\ TargetInv'
    BY <1>2, <2>2 DEF SessionInv, procVars, sessionVars, configVars, targetVars, freezeVars,
       ladderVars, intVars, FreezeInv, PlaceInv, HeldInv, TargetInv
  <2>7. QED  BY <2>3, <2>4, <2>5, <2>6 DEF SessionInv
<1>3. QED  BY <1>1, <1>2

\* Every reachable state of a session satisfies the invariant.
THEOREM SessionInvariant == Spec => []SessionInv
<1>1. Init => SessionInv  BY SessionInitInv
<1>2. SessionInv /\ [Next]_vars => SessionInv'  BY SessionNextInv
<1>3. QED  BY <1>1, <1>2, PTL DEF Spec

\* The session's variables keep their types.
THEOREM SessionTypeCorrect == Spec => []SessionTypeOK
<1>1. SessionInv => SessionTypeOK  BY DEF SessionInv
<1>2. QED  BY <1>1, SessionInvariant, PTL

\* _collect_combined never leaves a target it froze stopped, unless an interrupt
\* comes outside the try that would thaw it.
THEOREM FreezeAlwaysLifted == Spec => []TargetRestored
<1>1. SessionInv => TargetRestored
  BY DEF SessionInv, FreezeInv, FrozenPc, BindPc, TargetRestored, Promised
<1>2. QED  BY <1>1, SessionInvariant, PTL

\* No perf collector outlives the session that started it: the launch ladder, the
\* except branch and the code after the try account for every one of them.
THEOREM CollectorsAccounted == Spec => []NoOrphanCollector
<1>1. SessionInv => NoOrphanCollector
  BY SessionAssumption DEF SessionInv, HeldInv, NoOrphanCollector, Promised
<1>2. QED  BY <1>1, SessionInvariant, PTL

\* A target vperf started has been waited for when the session is over, unless an
\* interrupt comes before the try or after it.
THEOREM OwnedTargetAccounted == Spec => []OwnedTargetReaped
<1>1. SessionInv => OwnedTargetReaped
  BY DEF SessionInv, TargetInv, OwnedTargetReaped, Promised
<1>2. QED  BY <1>1, SessionInvariant, PTL

\* The ladder never opens a second collector of a kind over a live one.
THEOREM OneCollectorOfAKind == Spec => []NoLiveRelaunch
<1>1. SessionInv => NoLiveRelaunch  BY DEF SessionInv, RelaunchInv
<1>2. QED  BY <1>1, SessionInvariant, PTL

\* Within a session too, an escalated stop is never handed out as a clean one.
THEOREM SessionResultsClean == Spec => []NoCleanEscalation
<1>1. SessionInv => NoCleanEscalation  BY DEF SessionInv, ProcInv
<1>2. QED  BY <1>1, SessionInvariant, PTL

-----------------------------------------------------------------------------
(* What is recorded.  OthersInv and KeptInv are inductive by themselves or *)
(* beside ProcInv; PlanInv leans on the places, KillInv on HeldInv.        *)

\* A recording that has ended badly before stop() was called: it can only be found
\* failed.
Doomed ==
  /\ child["record"] # "running" /\ code["record"] # "ok"
  /\ op["record"] \in {"idle", "done"} /\ ~interrupted["record"] /\ result["record"] # "ok"

FinPc == {"finRecord", "finStat", "post", "over"} \cup Closing

\* stop() is called of a record handle that is held, near the end of the session.
StopInv ==
  /\ pc \notin FinPc => op["record"] = "idle" /\ ~interrupted["record"] /\ result["record"] = "none"
  /\ result["record"] = "ok" => bound["record"] \/ outcome = "raised"
  /\ outcome # "none" => pc = "over"
  /\ outcome = "report" => ~unwinding

\* A record handle stands for a child started with what is active, or one that has
\* failed and that the next rung was to replace.
UsingInv ==
  /\ Unstarted("record") => ~bound["record"]
  /\ bound["record"] =>
       \/ using["record"] = active \ {"interval"}
       \/ Doomed /\ pc \in LatePc \cup {"launchRecord", "over"}
  /\ pc = "bindRecord" => using["record"] = active \ {"interval"}
  /\ startup["record"] = "failed" => bound["record"] /\ Doomed

\* What was refused had all that is still active in it; and if it had no more than
\* that, nothing was opened after it.
RefusedInv ==
  /\ \A r \in refused : /\ active \ {"interval"} \subseteq r
                        /\ r = active \ {"interval"} => Doomed /\ pc # "launchRecord"
  /\ attempt = "first" /\ pc \in PrePc \cup BindPc \cup {"launchStat", "launchRecord", "settleStat", "settleRecord"}
       => refused = {}

\* What is not active any more was refused, where the session may still report.
Reporting == outcome # "raised" /\ ~unwinding /\ ~(mode = "run" /\ pc = "handler")

DroppedInv ==
  /\ active \subseteq asked
  /\ Reporting => \A o \in (asked \ {"interval"}) \ active : \E r \in refused : o \in r

PlanInv == StopInv /\ UsingInv /\ RefusedInv /\ DroppedInv

\* Somebody else's freeze is of a target the session has not frozen and will not.
OthersInv ==
  stopper = "other" => /\ tgt = "stopped" /\ ~paused
                       /\ pc \notin {"spawnTarget", "settleTarget", "freeze"}

\* Before the first signal of stop() only a terminal can have sent one, and while
\* stop() waits for SIGINT to work its flag is up.
KeptInv ==
  \A p \in Procs : /\ ~terminal /\ op[p] \in {"idle", "stop_int"} => sig[p] = "none"
                   /\ op[p] = "stop_wait" => interrupted[p]

\* Where the owned target may be signalled nothing runs that measures it - or the
\* target is dead and will not be.
KillInv ==
  /\ pc # "over" => hit \subseteq {"try", "bind"}
  /\ ~ready => /\ \A p \in Procs : child[p] = "absent"
               /\ pc \notin BindPc \cup {"launchStat", "launchRecord", "settleStat", "settleRecord"}
  /\ pc \in Closing \/ (pc = "after" /\ mode = "run") =>
       "bind" \in hit \/ Dead \/ \A p \in Procs : child[p] # "running"
  /\ KilledUnmeasured
  /\ tsig # "none" => /\ pc \in {"cleanTerm", "cleanKill", "finRecord", "finStat", "post", "over"}
                      /\ pc \in {"finRecord", "finStat"} => ~unwinding
  /\ goneSeen => Dead /\ pc = "monitor"

\* Nothing happens to a session that is over.
LEMMA OverStays == ASSUME Next, pc = "over" PROVE UNCHANGED vars
  BY DEF Next, Thread, SpawnTarget, SettleTarget, Look, Freeze, EnterTry, LaunchStat, LaunchRecord,
     Launch, BindStat, BindRecord, Bind, SettleStat, SettleRecord, Cont, Mark, MonitorSee,
     MonitorEnd, Handler, After, FinRecord, FinStat, Finish, Post, CleanGrace, CleanTerm, CleanKill,
     CleanWait, Interrupt, Over, TargetExit, ParentReaps, CollectorExit, CollectorKilled

LEMMA BoundFrame ==
  ASSUME Next, ~(LaunchStat \/ LaunchRecord \/ BindStat \/ BindRecord), ~Interrupt
  PROVE  bound' = bound
<1>1. CASE Thread
  BY <1>1 DEF Thread, SpawnTarget, SettleTarget, Look, Freeze, EnterTry, SettleStat, SettleRecord,
     Cont, Mark, MonitorSee, MonitorEnd, Handler, After, FinRecord, FinStat, Finish, Post,
     CleanGrace, CleanTerm, CleanKill, CleanWait
<1>2. CASE ~Thread
  BY <1>2 DEF Next, Over, TargetExit, ParentReaps, CollectorExit, CollectorKilled, vars, sessionVars
<1>3. QED  BY <1>1, <1>2

\* A step leaves the record's handle alone, starts it anew, stops it where the session
\* closes, or is the child's own end.
LEMMA RecordSteps ==
  ASSUME ProcTypeOK, Next
  PROVE  \/ UNCHANGED <<child["record"], code["record"], op["record"], interrupted["record"],
                        result["record"]>>
         \/ LaunchRecord /\ Spawn("record")
         \/ FinRecord /\ bound["record"] /\ StopStep("record")
         \/ Exit("record", code'["record"])
<1> DEFINE Same0 == UNCHANGED <<child["record"], code["record"], op["record"],
                               interrupted["record"], result["record"]>>
<1> USE ProcNames
<1>1. CASE UNCHANGED procVars  BY <1>1 DEF procVars
<1>2. CASE TerminalInt  BY <1>2 DEF TerminalInt
<1>3. CASE LaunchStat \/ LaunchRecord
  <2>1. CASE LaunchStat
    <3>1. Same0  BY <2>1 DEF LaunchStat, Launch, Spawn, procVars, ProcTypeOK
    <3>2. QED  BY <3>1
  <2>2. CASE LaunchRecord
    <3>1. Spawn("record") \/ UNCHANGED procVars  BY <2>2 DEF LaunchRecord, Launch
    <3>2. QED  BY <1>1, <2>2, <3>1
  <2>3. QED  BY <1>3, <2>1, <2>2
<1>4. CASE FinRecord
  <2>1. (bound["record"] /\ StopStep("record")) \/ UNCHANGED procVars
    BY <1>4 DEF FinRecord, Finish
  <2>2. QED  BY <1>1, <1>4, <2>1
<1>5. CASE FinStat
  <2>1. StopStep("stat") \/ UNCHANGED procVars  BY <1>5 DEF FinStat, Finish
  <2>2. CASE StopStep("stat")
    <3>1. Same0
      BY <2>2 DEF StopStep, StopPoll, StopInt, StopWait, StopKill, StopBlock, StopReturn, ProcTypeOK
    <3>2. QED  BY <3>1
  <2>3. QED  BY <1>1, <2>1, <2>2
<1>6. ASSUME NEW p \in Procs, CollectorExit(p) \/ CollectorKilled(p)
      PROVE  Same0 \/ Exit("record", code'["record"])
  <2>1. PICK c \in {"ok", "int", "killed", "error"} : Exit(p, c)
    BY <1>6 DEF CollectorExit, CollectorKilled, ExitOnInt, ExitOnTerm, ExitOnKill
  <2>2. CASE p = "record"  BY <2>1, <2>2 DEF Exit, ProcTypeOK
  <2>3. CASE p # "record"  BY <2>1, <2>3 DEF Exit, ProcTypeOK
  <2>4. QED  BY <2>2, <2>3
<1>7. CASE Thread /\ ~(LaunchStat \/ LaunchRecord \/ FinRecord \/ FinStat)
  <2>1. UNCHANGED procVars
    BY <1>7 DEF Thread, SpawnTarget, SettleTarget, Look, Freeze, EnterTry, BindStat, BindRecord,
       Bind, SettleStat, SettleRecord, Cont, Mark, MonitorSee, MonitorEnd, Handler, After, Post,
       CleanGrace, CleanTerm, CleanKill, CleanWait
  <2>2. QED  BY <1>1, <2>1
<1>8. CASE Interrupt  BY <1>1, <1>2, <1>8 DEF Interrupt
<1>9. CASE Over \/ TargetExit \/ ParentReaps
  BY <1>1, <1>9 DEF Over, TargetExit, ParentReaps, vars
<1>10. QED  BY <1>3, <1>4, <1>5, <1>6, <1>7, <1>8, <1>9 DEF Next

\* A recording past saving stays so until another is started.
LEMMA DoomedStays ==
  ASSUME ProcTypeOK, Doomed, Next, ~LaunchRecord PROVE Doomed'
<1> USE DEF Doomed
<1>1. CASE FinRecord /\ bound["record"] /\ StopStep("record")
  <2>1. op["record"] = "idle" /\ StopReturn("record")
    BY <1>1 DEF StopStep, StopPoll, StopInt, StopWait, StopKill, StopBlock
  <2>2. QED  BY <2>1, ProcNames DEF StopReturn, StopOk, ProcTypeOK
<1>2. CASE Exit("record", code'["record"])  BY <1>2 DEF Exit
<1>3. QED  BY <1>1, <1>2, RecordSteps

LEMMA StopInvStep ==
  ASSUME SessionInv, StopInv, Next PROVE StopInv'
<1> USE ProcNames
<1>0. ProcTypeOK /\ PlaceInv /\ bound \in [Procs -> BOOLEAN]
  BY DEF SessionInv, SessionTypeOK, LadderOK
\* The places where stop() works are entered from one another, and from after the try.
<1>1. pc \in FinPc => pc' \in FinPc
  <2> USE DEF FinPc, Closing
  <2>1. CASE FinRecord \/ FinStat \/ Post  BY <2>1 DEF FinRecord, FinStat, Finish, Post
  <2>2. CASE CleanGrace \/ CleanTerm \/ CleanKill
    BY <2>2 DEF CleanGrace, CleanTerm, CleanKill, CleanWait, Cleaned
  <2>3. CASE Interrupt  BY <2>3 DEF Interrupt, TryPc, BindPc
  <2>4. CASE Over \/ TargetExit \/ ParentReaps
    BY <2>4 DEF Over, TargetExit, ParentReaps, vars, sessionVars
  <2>5. CASE \E p \in Procs : CollectorExit(p) \/ CollectorKilled(p)
    BY <2>5 DEF CollectorExit, CollectorKilled, sessionVars
  <2>6. CASE Thread /\ ~(FinRecord \/ FinStat \/ Post \/ CleanGrace \/ CleanTerm \/ CleanKill)
    BY <2>6 DEF Thread, SpawnTarget, SettleTarget, Look, Freeze, EnterTry, LaunchStat,
       LaunchRecord, Launch, BindStat, BindRecord, Bind, SettleStat, SettleRecord, Cont, Mark,
       MonitorSee, MonitorEnd, Handler, After
  <2>7. QED  BY <2>1, <2>2, <2>3, <2>4, <2>5, <2>6 DEF Next
<1>2. pc' \notin FinPc =>
        op'["record"] = "idle" /\ ~interrupted'["record"] /\ result'["record"] = "none"
  <2>1. SUFFICES ASSUME pc' \notin FinPc
                 PROVE  op'["record"] = "idle" /\ ~interrupted'["record"] /\ result'["record"] = "none"
    OBVIOUS
  <2>2. op["record"] = "idle" /\ ~interrupted["record"] /\ result["record"] = "none"
    BY <1>1, <2>1 DEF StopInv
  <2>3. ~FinRecord  BY <1>1, <2>1 DEF FinRecord, Finish, FinPc
  <2>4. CASE Spawn("record")  BY <1>0, <2>4 DEF Spawn, ProcTypeOK
  <2>5. CASE Exit("record", code'["record"])  BY <2>2, <2>5 DEF Exit
  <2>6. QED  BY <1>0, <2>2, <2>3, <2>4, <2>5, RecordSteps
\* The handle is let go of only outside those places, or by an interrupt.
<1>3. CASE pc = "over"
  <2>1. UNCHANGED <<procVars, sessionVars>>  BY <1>3, OverStays DEF vars
  <2>2. QED  BY <2>1 DEF StopInv, procVars, sessionVars
<1>4. CASE pc # "over"
  <2>0. outcome = "none"  BY <1>4 DEF StopInv, SessionInv, SessionTypeOK, EndOK
  <2>1. /\ outcome' # "none" => pc' = "over"
        /\ outcome' = "report" => ~unwinding'
    <3>1. CASE Post  BY <1>0, <3>1 DEF Post, PlaceInv, Closing
    <3>2. CASE CleanGrace \/ CleanTerm \/ CleanKill
      BY <2>0, <3>2 DEF CleanGrace, CleanTerm, CleanKill, CleanWait, Cleaned
    <3>3. CASE Interrupt \/ SpawnTarget  BY <2>0, <3>3 DEF Interrupt, SpawnTarget
    <3>4. CASE Thread /\ ~(SpawnTarget \/ Post \/ CleanGrace \/ CleanTerm \/ CleanKill)
      <4>1. UNCHANGED outcome
        BY <3>4 DEF Thread, SettleTarget, Look, Freeze, EnterTry, LaunchStat, LaunchRecord,
           Launch, BindStat, BindRecord, Bind, SettleStat, SettleRecord, Cont, Mark, MonitorSee,
           MonitorEnd, Handler, After, FinRecord, FinStat, Finish
      <4>2. QED  BY <2>0, <4>1
    <3>5. CASE TargetExit \/ ParentReaps \/ \E p \in Procs : CollectorExit(p) \/ CollectorKilled(p)
      BY <2>0, <3>5 DEF TargetExit, ParentReaps, CollectorExit, CollectorKilled, sessionVars
    <3>6. QED  BY <1>4, <3>1, <3>2, <3>3, <3>4, <3>5 DEF Next, Over
  <2>2. ASSUME result'["record"] = "ok" PROVE bound'["record"] \/ outcome' = "raised"
    <3>1. pc' \in FinPc  BY <1>2, <2>2
    <3>2. CASE Interrupt  BY <3>1, <3>2 DEF Interrupt, FinPc, Closing
    <3>3. CASE ~Interrupt
      <4>1. ~(LaunchStat \/ LaunchRecord \/ BindStat \/ BindRecord)
        BY <3>1 DEF LaunchStat, LaunchRecord, Launch, BindStat, BindRecord, Bind, AfterStat,
                    AfterRecord, FinPc, Closing
      <4>2. bound' = bound
        BY <3>3, <4>1, BoundFrame
      <4>3. result["record"] = "ok" \/ bound["record"]
        BY <1>0, <2>2, <4>1, RecordSteps DEF Exit
      <4>4. QED  BY <2>0, <4>2, <4>3 DEF StopInv
    <3>4. QED  BY <3>2, <3>3
  <2>3. QED  BY <1>2, <2>1, <2>2 DEF StopInv
<1>5. QED  BY <1>3, <1>4

\* What a rung does to what is active, and to what was refused: it gives up one thing
\* that was asked for and refused, and starts again; or it gives nothing up.
LEMMA RungStep ==
  ASSUME NEW left, NEW st, RecordLadder(left, st)
  PROVE  \/ /\ active' = left /\ pc' = "cont" /\ startup' = [p \in Procs |-> "live"]
         \/ /\ \E o \in {"memory", "dwarf"} : o \in left /\ active' = left \ {o}
            /\ st["record"] = "failed" /\ pc' = "launchRecord" /\ startup' = st
            /\ attempt' # "first"
  BY DEF RecordLadder

LEMMA SettleStep ==
  ASSUME LadderOK, ProcTypeOK, StopInv, UsingInv, RefusedInv, DroppedInv, PlaceInv,
         SettleStat \/ SettleRecord
  PROVE  UsingInv' /\ RefusedInv' /\ DroppedInv'
<1> DEFINE st == IF pc = "settleStat" THEN [startup EXCEPT !["stat"] = Settled("stat")]
                                      ELSE [startup EXCEPT !["record"] = Settled("record")]
           left == IF pc = "settleStat" /\ st["stat"] = "ok" THEN active \ {"interval"} ELSE active
<1> USE ProcNames
<1>0. /\ UNCHANGED <<procVars, mode, asked, bound, using, outcome, unwinding>>
      /\ pc \in {"settleStat", "settleRecord"} /\ pc \notin FinPc
      /\ st \in [Procs -> {"live", "ok", "failed"}]
  BY DEF SettleStat, SettleRecord, configVars, LadderOK, Settled, FinPc, Closing
<1>1. op["record"] = "idle" /\ ~interrupted["record"] /\ result["record"] = "none"
  BY <1>0 DEF StopInv
<1>2. st["record"] = "failed" => bound["record"] /\ Doomed
  <2>1. CASE pc = "settleStat"  BY <2>1 DEF UsingInv, LadderOK
  <2>2. CASE pc = "settleRecord"
    BY <1>0, <1>1, <2>2 DEF Settled, Doomed, LadderOK
  <2>3. QED  BY <1>0, <2>1, <2>2
<1>3. Doomed' = Doomed  BY <1>0 DEF Doomed, procVars
<1>4. st["record"] = "failed" => using["record"] = active \ {"interval"}
  BY <1>0, <1>2 DEF UsingInv, LatePc
<1>5. \/ pc' \in {"settleRecord", "launchStat"} /\ UNCHANGED <<active, refused>> /\ startup' = st
         /\ (pc' = "launchStat" => attempt' # "first") /\ (pc' = "settleRecord" => attempt' = attempt)
      \/ RecordLadder(left, st)
  BY DEF SettleStat, SettleRecord
<1> HIDE DEF st
\* The recording that failed had all that is active, less the intervals, which no
\* recording is started with.
<1>6. CASE RecordLadder(left, st)
  <2>1. left \ {"interval"} = active \ {"interval"} /\ left \subseteq active
    OBVIOUS
  <2> HIDE DEF left
  <2>2. refused' = IF st["record"] = "failed" THEN refused \cup {active \ {"interval"}} ELSE refused
    BY <1>4, <1>6 DEF RecordLadder, Refuse
  <2>3. \A r \in refused' : /\ active \ {"interval"} \subseteq r
                            /\ r = active \ {"interval"} => Doomed
    BY <1>2, <2>2 DEF RefusedInv
  <2>4. CASE active' = left /\ pc' = "cont" /\ startup' = [p \in Procs |-> "live"]
    <3>1. active' \ {"interval"} = active \ {"interval"} /\ active' \subseteq active
      BY <2>1, <2>4
    <3>2. UsingInv'
      BY <1>0, <2>4, <3>1 DEF UsingInv, Unstarted, PrePc, LatePc
    <3>3. RefusedInv'
      BY <1>3, <2>3, <2>4, <3>1 DEF RefusedInv, PrePc, BindPc
    <3>4. DroppedInv'
      <4>1. refused \subseteq refused'  BY <2>2
      <4>2. Reporting' => Reporting  BY <1>0 DEF Reporting
      <4>3. \A o : o \in (asked \ {"interval"}) \ active' => o \in (asked \ {"interval"}) \ active
        BY <3>1
      <4>4. asked' = asked  BY <1>0
      <4>5. QED  BY <3>1, <4>1, <4>2, <4>3, <4>4 DEF DroppedInv
    <3>5. QED  BY <3>2, <3>3, <3>4
  <2>5. CASE /\ \E o \in {"memory", "dwarf"} : o \in left /\ active' = left \ {o}
             /\ st["record"] = "failed" /\ pc' = "launchRecord" /\ startup' = st
             /\ attempt' # "first"
    <3>1. PICK o \in {"memory", "dwarf"} : o \in left /\ active' = left \ {o}  BY <2>5
    <3>2. /\ active' \ {"interval"} = (active \ {"interval"}) \ {o}
          /\ o \in active \ {"interval"} /\ active' \subseteq active
      BY <2>1, <3>1
    <3>3. bound["record"] /\ Doomed  BY <1>2, <2>5
    <3>4. UsingInv'
      BY <1>0, <1>3, <2>5, <3>3 DEF UsingInv, Unstarted, PrePc
    <3>5. RefusedInv'
      <4>1. \A r \in refused' : active' \ {"interval"} \subseteq r /\ r # active' \ {"interval"}
        BY <2>3, <3>2
      <4>2. QED  BY <2>5, <4>1 DEF RefusedInv
    <3>6. DroppedInv'
      <4>1. refused' = refused \cup {active \ {"interval"}}  BY <2>2, <2>5
      <4>2. Reporting' => Reporting  BY <1>0 DEF Reporting
      <4>3. asked' = asked  BY <1>0
      <4>4. ASSUME Reporting', NEW q \in (asked \ {"interval"}) \ active'
            PROVE  \E r \in refused' : q \in r
        <5>1. CASE q \in active  BY <3>2, <4>1, <4>4, <5>1
        <5>2. CASE q \notin active  BY <4>1, <4>2, <4>4, <5>2 DEF DroppedInv
        <5>3. QED  BY <5>1, <5>2
      <4>5. QED  BY <3>2, <4>3, <4>4 DEF DroppedInv
    <3>7. QED  BY <3>4, <3>5, <3>6
  <2>6. QED  BY <1>6, <2>4, <2>5, RungStep
<1>7. CASE pc' \in {"settleRecord", "launchStat"} /\ UNCHANGED <<active, refused>> /\ startup' = st
           /\ (pc' = "launchStat" => attempt' # "first")
           /\ (pc' = "settleRecord" => attempt' = attempt)
  <2>1. UsingInv'
    BY <1>0, <1>2, <1>3, <1>7 DEF UsingInv, Unstarted, PrePc, LatePc
  <2>2. RefusedInv'
    BY <1>0, <1>3, <1>7 DEF RefusedInv, PrePc, BindPc
  <2>3. DroppedInv'  BY <1>0, <1>7 DEF DroppedInv, Reporting
  <2>4. QED  BY <2>1, <2>2, <2>3
<1>8. QED  BY <1>5, <1>6, <1>7

LEMMA PlanStep ==
  ASSUME SessionInv, PlanInv, Next PROVE PlanInv'
<1> USE ProcNames
<1>0. /\ ProcTypeOK /\ LadderOK /\ PlaceInv /\ mode \in {"run", "attach"} /\ unwinding \in BOOLEAN
      /\ StopInv /\ UsingInv /\ RefusedInv /\ DroppedInv
  BY DEF SessionInv, SessionTypeOK, PlanInv, ConfigOK, EndOK
<1>1. StopInv'  BY <1>0, StopInvStep
<1>2. ~LaunchRecord => (Doomed => Doomed')  BY <1>0, DoomedStays
<1>3. CASE SpawnTarget \/ SettleTarget \/ Look \/ Freeze \/ EnterTry
  <2>1. UNCHANGED <<mode, asked, bound, ladderVars, unwinding>> /\ pc \in PrePc
        /\ pc' \in PrePc \cup {"launchStat", "cont", "over"} /\ outcome # "raised"
    BY <1>0, <1>3 DEF SpawnTarget, SettleTarget, Look, Freeze, EnterTry, configVars, PrePc, StopInv
  <2>2. attempt = "first" /\ refused = {}  BY <1>0, <2>1 DEF PlaceInv, RefusedInv
  <2>3. ~bound["record"] /\ startup["record"] # "failed"  BY <1>0, <2>1 DEF UsingInv, Unstarted
  <2>4. Reporting
    BY <1>0, <2>1 DEF Reporting, PlaceInv, PrePc, Closing
  <2>5. UsingInv' /\ RefusedInv' /\ DroppedInv'
    BY <1>0, <2>1, <2>2, <2>3, <2>4 DEF UsingInv, RefusedInv, DroppedInv, ladderVars, PrePc
  <2>6. QED  BY <1>1, <2>5 DEF PlanInv
<1>4. CASE LaunchStat
  <2>1. /\ UNCHANGED <<mode, asked, active, refused, attempt, unwinding, outcome>>
        /\ pc = "launchStat" /\ pc' \in {"bindStat", AfterStat}
        /\ UNCHANGED <<bound["record"], startup["record"], using["record"]>>
    BY <1>0, <1>4 DEF LaunchStat, Launch, configVars, LadderOK
  <2>2. pc' = "launchRecord" => attempt = "first"  BY <2>1 DEF AfterStat
  <2>3. UsingInv'
    BY <1>0, <1>2, <1>4, <2>1, <2>2 DEF UsingInv, Unstarted, AfterStat, PrePc, LatePc, LaunchRecord, Launch
  <2>4. RefusedInv'
    BY <1>0, <1>2, <1>4, <2>1, <2>2 DEF RefusedInv, AfterStat, PrePc, BindPc, LaunchRecord, Launch
  <2>5. DroppedInv'  BY <1>0, <2>1 DEF DroppedInv, Reporting
  <2>6. QED  BY <1>1, <2>3, <2>4, <2>5 DEF PlanInv
<1>5. CASE LaunchRecord
  <2>1. /\ UNCHANGED <<mode, asked, active, refused, attempt, unwinding, outcome>>
        /\ pc = "launchRecord" /\ pc' \in {"bindRecord", "settleStat", "settleRecord"}
        /\ ~bound'["record"] /\ startup'["record"] = "live"
        /\ pc' = "bindRecord" => using'["record"] = active \ {"interval"}
    BY <1>0, <1>5 DEF LaunchRecord, Launch, AfterRecord, Args, configVars, LadderOK
  <2>2. UsingInv'  BY <2>1 DEF UsingInv
  <2>3. RefusedInv'  BY <1>0, <2>1 DEF RefusedInv, PrePc, BindPc
  <2>4. DroppedInv'  BY <1>0, <2>1 DEF DroppedInv, Reporting
  <2>5. QED  BY <1>1, <2>2, <2>3, <2>4 DEF PlanInv
<1>6. CASE BindStat \/ BindRecord
  <2>1. UNCHANGED <<mode, asked, ladderVars, unwinding, outcome>> /\ pc \in BindPc
    BY <1>6 DEF BindStat, BindRecord, Bind, configVars, BindPc
  <2>2. \/ /\ pc = "bindStat" /\ pc' = AfterStat /\ bound'["record"] = bound["record"]
        \/ /\ pc = "bindRecord" /\ pc' = AfterRecord /\ bound'["record"]
    BY <1>0, <1>6 DEF BindStat, BindRecord, Bind, LadderOK
  <2>3. UsingInv'
    BY <1>0, <1>2, <1>6, <2>1, <2>2 DEF UsingInv, Unstarted, AfterStat, AfterRecord, PrePc,
       LatePc, ladderVars, BindStat, BindRecord, Bind, LaunchRecord, Launch
  <2>4. RefusedInv'
    BY <1>0, <1>2, <1>6, <2>1, <2>2 DEF RefusedInv, AfterStat, AfterRecord, PrePc, BindPc,
       ladderVars, BindStat, BindRecord, Bind, LaunchRecord, Launch
  <2>5. DroppedInv'  BY <1>0, <2>1, <2>2 DEF DroppedInv, Reporting, ladderVars, AfterStat, AfterRecord, BindPc
  <2>6. QED  BY <1>1, <2>3, <2>4, <2>5 DEF PlanInv
<1>7. CASE SettleStat \/ SettleRecord
  BY <1>0, <1>1, <1>7, SettleStep DEF PlanInv
<1>8. CASE Cont \/ Mark \/ MonitorSee \/ MonitorEnd \/ Handler
  <2>1. /\ UNCHANGED <<mode, asked, bound, ladderVars, outcome>> /\ ~LaunchRecord
        /\ pc \in {"cont", "mark", "monitor", "handler"}
        /\ pc' \in {"mark", "monitor", "after", "finRecord"}
        /\ pc = "handler" => pc' \in {"after", "finRecord"}
        /\ unwinding' = (unwinding \/ (pc = "handler" /\ mode = "run"))
    BY <1>0, <1>8 DEF Cont, Mark, MonitorSee, MonitorEnd, Handler, configVars, LaunchRecord, Launch
  <2>2. UsingInv'
    BY <1>0, <1>2, <2>1 DEF UsingInv, Unstarted, PrePc, LatePc, ladderVars
  <2>3. RefusedInv'
    BY <1>0, <1>2, <2>1 DEF RefusedInv, PrePc, BindPc, ladderVars
  <2>4. DroppedInv'  BY <1>0, <2>1 DEF DroppedInv, Reporting, ladderVars
  <2>5. QED  BY <1>1, <2>2, <2>3, <2>4 DEF PlanInv
<1>9. CASE After
  <2>1. /\ UNCHANGED <<mode, asked, bound, refused, outcome, unwinding>> /\ ~LaunchRecord
        /\ pc = "after" /\ pc' \in {"cleanup", "finRecord"}
        /\ active' = active \ {"interval"} /\ using'["record"] = using["record"]
        /\ startup'["record"] = "live"
    BY <1>0, <1>9 DEF After, configVars, LaunchRecord, Launch, LadderOK, ForgetStartup
  <2>2. active' \ {"interval"} = active \ {"interval"}  BY <2>1
  <2>3. UsingInv'
    BY <1>0, <1>2, <2>1, <2>2 DEF UsingInv, Unstarted, PrePc, LatePc
  <2>4. RefusedInv'
    BY <1>0, <1>2, <2>1, <2>2 DEF RefusedInv, PrePc, BindPc
  <2>5. DroppedInv'
    <3>1. (asked \ {"interval"}) \ active' = (asked \ {"interval"}) \ active  BY <2>1
    <3>2. QED  BY <1>0, <2>1, <3>1 DEF DroppedInv, Reporting
  <2>6. QED  BY <1>1, <2>3, <2>4, <2>5 DEF PlanInv
<1>10. CASE FinRecord \/ FinStat \/ Post \/ CleanGrace \/ CleanTerm \/ CleanKill
  <2>1. /\ UNCHANGED <<mode, asked, bound, ladderVars, unwinding>> /\ ~LaunchRecord
        /\ pc \in FinPc \ {"over"} /\ pc' \in FinPc
    BY <1>0, <1>10 DEF FinRecord, FinStat, Finish, Post, CleanGrace, CleanTerm, CleanKill,
       CleanWait, Cleaned, configVars, LaunchRecord, Launch, FinPc, Closing
  <2>2. outcome # "raised"  BY <1>0, <2>1 DEF StopInv
  <2>3. UsingInv'
    BY <1>0, <1>2, <2>1 DEF UsingInv, Unstarted, PrePc, LatePc, ladderVars, FinPc, Closing
  <2>4. RefusedInv'
    BY <1>0, <1>2, <2>1 DEF RefusedInv, PrePc, BindPc, ladderVars, FinPc, Closing
  <2>5. DroppedInv'
    BY <1>0, <2>1, <2>2 DEF DroppedInv, Reporting, ladderVars, FinPc, Closing
  <2>6. QED  BY <1>1, <2>3, <2>4, <2>5 DEF PlanInv
<1>11. CASE Interrupt
  <2>1. /\ UNCHANGED <<mode, asked, unwinding>> /\ ~LaunchRecord /\ pc # "over"
        /\ pc' \in {"handler", "over"} /\ startup'["record"] = "live"
    BY <1>11, ProcNames DEF Interrupt, configVars, LaunchRecord, Launch, AfterRecord, ForgetStartup
  <2>2. pc' = "handler" => outcome' = outcome /\ bound' = bound /\ pc \in TryPc \cup BindPc
    BY <1>11 DEF Interrupt
  <2>3. pc' = "over" => outcome' = "raised" /\ ~bound'["record"]
    BY <1>11 DEF Interrupt
  <2>4. CASE pc' = "handler" /\ mode = "attach"
    <3>1. UNCHANGED <<active, using, refused>>  BY <1>11, <2>4 DEF Interrupt
    <3>2. UsingInv'
      BY <1>0, <1>2, <2>1, <2>2, <2>4, <3>1 DEF UsingInv, Unstarted, PrePc, LatePc
    <3>3. RefusedInv'
      BY <1>0, <1>2, <2>1, <2>4, <3>1 DEF RefusedInv, PrePc, BindPc
    <3>4. DroppedInv'
      BY <1>0, <2>1, <2>2, <2>4, <3>1 DEF DroppedInv, Reporting
    <3>5. QED  BY <1>1, <3>2, <3>3, <3>4 DEF PlanInv
  <2>5. CASE ~(pc' = "handler" /\ mode = "attach")
    <3>1. active' = {} /\ using'["record"] = {} /\ refused' = {}
      BY <1>11, <2>5 DEF Interrupt, ForgetPlan
    <3>2. ~Reporting'  BY <1>0, <2>1, <2>3, <2>5 DEF Reporting
    <3>3. UsingInv'
      BY <2>1, <3>1 DEF UsingInv, Unstarted, PrePc
    <3>4. RefusedInv' /\ DroppedInv'
      BY <3>1, <3>2 DEF RefusedInv, DroppedInv
    <3>5. QED  BY <1>1, <3>3, <3>4 DEF PlanInv
  <2>6. QED  BY <2>4, <2>5
<1>12. CASE Over \/ TargetExit \/ ParentReaps \/ \E p \in Procs : CollectorExit(p) \/ CollectorKilled(p)
  <2>1. UNCHANGED <<mode, asked, bound, ladderVars, unwinding, outcome, pc>>
    BY <1>12 DEF Over, TargetExit, ParentReaps, CollectorExit, CollectorKilled, vars, sessionVars, configVars
  <2>2. Doomed => Doomed'
    <3>1. CASE pc = "over"
      <4>1. UNCHANGED procVars  BY <3>1, OverStays DEF vars
      <4>2. QED  BY <4>1 DEF Doomed, procVars
    <3>2. CASE pc # "over"
      <4>1. ~LaunchRecord \/ pc' # pc
        BY DEF LaunchRecord, Launch, AfterRecord
      <4>2. QED  BY <1>2, <2>1, <4>1
    <3>3. QED  BY <3>1, <3>2
  <2>3. UsingInv' /\ RefusedInv' /\ DroppedInv'
    BY <1>0, <2>1, <2>2 DEF UsingInv, RefusedInv, DroppedInv, Reporting, Unstarted, ladderVars
  <2>4. QED  BY <1>1, <2>3 DEF PlanInv
<1>13. QED
  BY <1>3, <1>4, <1>5, <1>6, <1>7, <1>8, <1>9, <1>10, <1>11, <1>12 DEF Next, Thread

LEMMA OthersStep == ASSUME OthersInv, Next PROVE OthersInv'
<1> USE DEF OthersInv
<1>1. CASE SpawnTarget \/ SettleTarget \/ Look
  BY <1>1 DEF SpawnTarget, SettleTarget, Look, Polled, targetVars
<1>2. CASE Freeze \/ EnterTry
  BY <1>2 DEF Freeze, EnterTry, SigStop, CanSignal, targetVars, freezeVars
<1>3. CASE LaunchStat \/ LaunchRecord
  BY <1>3 DEF LaunchStat, LaunchRecord, Launch, AfterStat, AfterRecord, targetVars, freezeVars
<1>4. CASE BindStat \/ BindRecord
  BY <1>4 DEF BindStat, BindRecord, Bind, AfterStat, AfterRecord, targetVars, freezeVars
<1>5. CASE SettleStat \/ SettleRecord
  BY <1>5 DEF SettleStat, SettleRecord, RecordLadder, targetVars, freezeVars
<1>6. CASE Cont \/ Handler \/ After
  BY <1>6 DEF Cont, Handler, After, SigCont, freezeVars
<1>7. CASE Mark \/ MonitorSee \/ MonitorEnd
  BY <1>7 DEF Mark, MonitorSee, MonitorEnd, Polled, targetVars, freezeVars
<1>8. CASE FinRecord \/ FinStat \/ Post
  BY <1>8 DEF FinRecord, FinStat, Finish, Post, targetVars, freezeVars
<1>9. CASE CleanGrace \/ CleanTerm \/ CleanKill
  BY <1>9 DEF CleanGrace, CleanTerm, CleanKill, CleanWait, Cleaned, Polled, freezeVars
<1>10. CASE Interrupt
  BY <1>10 DEF Interrupt, targetVars, freezeVars
<1>11. CASE Over \/ TargetExit \/ ParentReaps
  BY <1>11 DEF Over, TargetExit, ParentReaps, vars, sessionVars, targetVars, freezeVars
<1>12. CASE \E p \in Procs : CollectorExit(p) \/ CollectorKilled(p)
  BY <1>12 DEF CollectorExit, CollectorKilled, sessionVars, targetVars, freezeVars
<1>13. QED
  BY <1>1, <1>2, <1>3, <1>4, <1>5, <1>6, <1>7, <1>8, <1>9, <1>10, <1>11, <1>12 DEF Next, Thread

\* The only steps that end somebody else's freeze are the target's own end.
LEMMA OthersLast ==
  ASSUME OthersInv, Next, stopper = "other" PROVE stopper' = "other" \/ tgt' = "zombie"
<1> USE DEF OthersInv
<1>1. CASE Thread
  BY <1>1 DEF Thread, SpawnTarget, SettleTarget, Look, Freeze, EnterTry, LaunchStat, LaunchRecord,
     BindStat, BindRecord, Launch, Bind, SettleStat, SettleRecord, Cont, Mark, MonitorSee,
     MonitorEnd, Handler, After, FinRecord, FinStat, Finish, Post, CleanGrace, CleanTerm,
     CleanKill, CleanWait, Polled, targetVars
<1>2. CASE Interrupt \/ Over \/ TargetExit \/ ParentReaps
  BY <1>2 DEF Interrupt, Over, TargetExit, ParentReaps, vars, sessionVars, targetVars
<1>3. CASE \E p \in Procs : CollectorExit(p) \/ CollectorKilled(p)
  BY <1>3 DEF CollectorExit, CollectorKilled, sessionVars, targetVars
<1>4. QED  BY <1>1, <1>2, <1>3 DEF Next

LEMMA TerminalStays == ASSUME Next, terminal PROVE terminal'
<1>1. CASE Interrupt  BY <1>1 DEF Interrupt
<1>2. CASE UNCHANGED intVars  BY <1>2 DEF intVars
<1>3. QED  BY <1>1, <1>2, IntFrame

LEMMA KeptStep == ASSUME ProcInv, StopsOnly, IntOK, KeptInv, Next PROVE KeptInv'
<1> USE DEF KeptInv
<1>0. terminal => terminal'  BY TerminalStays
<1>1. CASE UNCHANGED procVars  BY <1>0, <1>1 DEF procVars, IntOK
<1>2. CASE TerminalInt /\ terminal'  BY <1>2 DEF TerminalInt
<1>3. ASSUME NEW p \in Procs, Spawn(p) PROVE KeptInv'
  BY <1>0, <1>3 DEF Spawn, ProcInv, ProcTypeOK
<1>4. ASSUME NEW p \in Procs, ChildStep(p) PROVE KeptInv'
  BY <1>0, <1>4 DEF ChildStep, ExitSelf, ExitOnInt, ExitOnTerm, ExitOnKill, Exit
<1>5. ASSUME NEW p \in Procs, StopStep(p) PROVE KeptInv'
  BY <1>0, <1>5 DEF StopStep, StopPoll, StopInt, StopWait, StopKill, StopBlock, StopReturn,
                    ProcInv, ProcTypeOK
<1>6. QED  BY <1>1, <1>2, <1>3, <1>4, <1>5, HandleSteps

\* stop() hands out "ok" for a recording that SIGINT, or nothing, has ended in time.
LEMMA KeptResult ==
  ASSUME ProcInv, StopsOnly, KeptInv, Next, FlushedInTime, ~terminal
  PROVE  result'["record"] = "ok"
<1> USE ProcNames DEF KeptInv, FlushedInTime
<1>1. CASE UNCHANGED procVars  BY <1>1 DEF procVars
<1>2. CASE TerminalInt  BY <1>2 DEF TerminalInt
<1>3. ASSUME NEW p \in Procs, Spawn(p) PROVE FALSE
  BY <1>3 DEF Spawn, ProcInv, ProcTypeOK
<1>4. ASSUME NEW p \in Procs, ChildStep(p) PROVE FALSE
  BY <1>4 DEF ChildStep, ExitSelf, ExitOnInt, ExitOnTerm, ExitOnKill, Exit
<1>5. ASSUME NEW p \in Procs, StopStep(p) PROVE result'["record"] = "ok"
  <2>1. p = "record" /\ StopReturn(p)
    BY <1>5 DEF StopStep, StopPoll, StopInt, StopWait, StopKill, StopBlock, StopReturn,
                ProcInv, ProcTypeOK
  <2>2. StopOk(p)
    BY <2>1 DEF StopOk, ProcInv, CodeSig
  <2>3. QED  BY <2>1, <2>2 DEF StopReturn, ProcInv, ProcTypeOK
<1>6. QED  BY <1>1, <1>2, <1>3, <1>4, <1>5, HandleSteps

LEMMA KillStep == ASSUME SessionInv, KillInv, Next PROVE KillInv'
<1> USE DEF KillInv, KilledUnmeasured, Closing
<1>0. ProcTypeOK /\ HeldInv /\ PlaceInv /\ RelaunchInv
  BY DEF SessionInv, ProcInv
<1>1. CASE SpawnTarget \/ SettleTarget \/ Look \/ Freeze \/ EnterTry
  <2>1. UNCHANGED <<child, hit, tsig, goneSeen>>
    BY <1>1 DEF SpawnTarget, SettleTarget, Look, Freeze, EnterTry, procVars, intVars, targetVars, Polled
  <2>2. \A p \in Procs : child[p] = "absent"
    BY <1>0, <1>1 DEF RelaunchInv, Unstarted, PrePc, SpawnTarget, SettleTarget, Look, Freeze, EnterTry
  <2>3. /\ pc' \notin Closing \cup {"after"}
        /\ ~ready' => pc' \notin BindPc \cup {"launchStat", "launchRecord", "settleStat", "settleRecord"}
        /\ tsig = "none" /\ ~goneSeen
    BY <1>1 DEF SpawnTarget, SettleTarget, Look, Freeze, EnterTry, BindPc, freezeVars
  <2>4. pc' # "over" => hit \subseteq {"try", "bind"}
    BY <1>1 DEF SpawnTarget, SettleTarget, Look, Freeze, EnterTry
  <2>5. QED  BY <2>1, <2>2, <2>3, <2>4
<1>2. CASE LaunchStat \/ LaunchRecord
  <2>1. UNCHANGED <<hit, tsig, ready, goneSeen>> /\ pc \in {"launchStat", "launchRecord"}
    BY <1>2 DEF LaunchStat, LaunchRecord, Launch, intVars, targetVars, freezeVars
  <2>2. ready' /\ tsig' = "none" /\ ~goneSeen' /\ hit' \subseteq {"try", "bind"}
    BY <2>1
  <2>3. pc' \notin Closing \cup {"after", "over"}
    BY <1>2 DEF LaunchStat, LaunchRecord, Launch, AfterStat, AfterRecord
  <2>4. QED  BY <2>2, <2>3
<1>3. CASE BindStat \/ BindRecord \/ SettleStat \/ SettleRecord
  <2>1. UNCHANGED <<child, hit, tsig, ready, goneSeen>>
    BY <1>3 DEF BindStat, BindRecord, Bind, SettleStat, SettleRecord, procVars, intVars, targetVars, freezeVars
  <2>2. ready /\ tsig = "none" /\ ~goneSeen
    BY <1>3 DEF BindStat, BindRecord, Bind, SettleStat, SettleRecord, BindPc
  <2>3. pc' \notin Closing \cup {"after", "over"} /\ pc # "over"
    BY <1>3 DEF BindStat, BindRecord, Bind, SettleStat, SettleRecord, RecordLadder, AfterStat, AfterRecord
  <2>4. QED  BY <2>1, <2>2, <2>3
<1>4. CASE Cont
  <2>1. UNCHANGED <<child, hit, tsig, ready, goneSeen>> /\ pc = "cont"
    BY <1>4 DEF Cont, procVars, intVars
  <2>2. pc' = (IF ready THEN "mark" ELSE "after")
    BY <1>4 DEF Cont
  <2>3. tsig = "none"
    BY <2>1
  <2>4. QED  BY <2>1, <2>2, <2>3 DEF BindPc
<1>5. CASE Mark \/ MonitorSee
  <2>1. UNCHANGED <<child, hit, tsig, ready>> /\ pc \in {"mark", "monitor"} /\ pc' = "monitor"
    BY <1>5 DEF Mark, MonitorSee, Polled, procVars, intVars, targetVars, freezeVars
  <2>2. goneSeen' => Dead'
    BY <1>5 DEF Mark, MonitorSee, Polled, Dead, targetVars
  <2>3. QED  BY <2>1, <2>2 DEF BindPc
<1>6. CASE MonitorEnd
  <2>1. UNCHANGED <<child, hit, tsig, ready, tgt, mode>> /\ pc = "monitor" /\ pc' = "after" /\ ~goneSeen'
    BY <1>6 DEF MonitorEnd, procVars, intVars, targetVars, freezeVars, configVars
  <2>2. mode = "run" => "bind" \in hit \/ Dead \/ \A p \in Procs : child[p] # "running"
    BY <1>0, <1>6, <2>1, SessionAssumption DEF MonitorEnd, Running, HeldInv
  <2>3. QED  BY <2>1, <2>2 DEF BindPc, Dead
<1>7. CASE Handler
  <2>1. UNCHANGED <<child, hit, tsig, ready, mode, goneSeen>> /\ pc = "handler"
    BY <1>7 DEF Handler, procVars, intVars, freezeVars, configVars
  <2>2. pc' = (IF mode = "attach" THEN "after" ELSE "finRecord")
    BY <1>7 DEF Handler
  <2>3. QED  BY <2>1, <2>2 DEF BindPc
<1>8. CASE After
  <2>1. UNCHANGED <<child, hit, tsig, ready, mode, goneSeen>> /\ pc = "after"
    BY <1>8 DEF After, procVars, intVars, configVars
  <2>2. pc' = (IF mode = "run" THEN "cleanup" ELSE "finRecord")
    BY <1>8 DEF After
  <2>3. Dead => Dead'
    BY <1>8 DEF After, SigCont, Dead
  <2>4. QED  BY <2>1, <2>2, <2>3 DEF BindPc
<1>9. CASE FinRecord \/ FinStat
  <2>1. UNCHANGED <<hit, tsig, ready, mode, tgt, unwinding, goneSeen>> /\ pc \in {"finRecord", "finStat"}
    BY <1>9 DEF FinRecord, FinStat, Finish, intVars, freezeVars, configVars, targetVars
  <2>2. pc' \in {"finRecord", "finStat", "post"} \/ (pc' = "cleanup" /\ unwinding)
    BY <1>9 DEF FinRecord, FinStat, Finish
  <2>3. \A p \in Procs : child'[p] = child[p] \/ (child[p] = "running" /\ child'[p] = "exited")
    BY <1>0, <1>9, ChildFrame DEF FinRecord, FinStat, Finish, LaunchStat, LaunchRecord, Launch
  <2>4. HeldInv'
    BY SessionNextInv DEF SessionInv
  <2>5. pc' = "cleanup" => "bind" \in hit \/ \A p \in Procs : child'[p] # "running"
    BY <2>1, <2>2, <2>4, SessionAssumption DEF HeldInv
  <2>6. QED  BY <2>1, <2>2, <2>3, <2>5 DEF BindPc
<1>10. CASE CleanGrace \/ CleanTerm \/ CleanKill
  <2>1. UNCHANGED <<child, hit, ready, mode, goneSeen, unwinding>> /\ pc \in Closing
    BY <1>10 DEF CleanGrace, CleanTerm, CleanKill, CleanWait, procVars, intVars, freezeVars, configVars
  <2>2. Dead => Dead' /\ tsig' = tsig
    BY <1>10 DEF CleanGrace, CleanTerm, CleanKill, CleanWait, Polled, Dead
  <2>3. pc' \in {"cleanTerm", "cleanKill", "finRecord", "over"}
    BY <1>10 DEF CleanGrace, CleanTerm, CleanKill, CleanWait, Cleaned
  <2>5. pc' = "finRecord" => ~unwinding
    BY <1>10 DEF CleanGrace, CleanTerm, CleanKill, CleanWait, Cleaned
  <2>6. QED  BY <2>1, <2>2, <2>3, <2>5 DEF BindPc
<1>11. CASE Post
  BY <1>11 DEF Post, procVars, intVars, targetVars, freezeVars, BindPc
<1>12. CASE Interrupt
  <2>1. UNCHANGED <<child, tsig, ready, tgt>> /\ pc' \in {"handler", "over"} /\ ~goneSeen'
    BY <1>12 DEF Interrupt, TerminalInt, procVars, targetVars, freezeVars
  <2>2. pc # "over" /\ hit \subseteq hit'
    BY <1>12 DEF Interrupt
  <2>3. pc' = "handler" => pc \in TryPc \cup BindPc /\ hit' \subseteq {"try", "bind"}
    BY <1>12, <2>2 DEF Interrupt, Region, TryPc, BindPc, PrePc
  <2>4. tsig # "none" => pc' = "over"
    BY <2>1, <2>3 DEF TryPc, BindPc
  <2>5. QED  BY <2>1, <2>2, <2>3, <2>4 DEF BindPc
<1>13. CASE Over
  BY <1>13 DEF Over, vars, procVars, sessionVars, intVars, targetVars, freezeVars, configVars, Dead
<1>14. CASE TargetExit \/ ParentReaps
  BY <1>14 DEF TargetExit, ParentReaps, procVars, intVars, freezeVars, configVars, Dead
<1>15. CASE \E p \in Procs : CollectorExit(p) \/ CollectorKilled(p)
  <2>1. UNCHANGED <<hit, tsig, ready, mode, tgt, pc, goneSeen, unwinding>> /\ pc # "over"
    BY <1>15 DEF CollectorExit, CollectorKilled, sessionVars, intVars, freezeVars, configVars, targetVars
  <2>2. \A p \in Procs : child'[p] = child[p] \/ (child[p] = "running" /\ child'[p] = "exited")
    BY <1>0, <1>15 DEF CollectorExit, CollectorKilled, ExitOnInt, ExitOnTerm, ExitOnKill, Exit, ProcTypeOK
  <2>3. QED  BY <2>1, <2>2 DEF Dead
<1>16. QED
  BY <1>1, <1>2, <1>3, <1>4, <1>5, <1>6, <1>7, <1>8, <1>9, <1>10, <1>11, <1>12, <1>13, <1>14,
     <1>15 DEF Next, Thread

\* [Next]_vars keeps all four.
LEMMA MoreInv ==
  ASSUME SessionInv, PlanInv, OthersInv, KeptInv, KillInv, [Next]_vars
  PROVE  PlanInv' /\ OthersInv' /\ KeptInv' /\ KillInv'
<1>1. CASE Next
  BY <1>1, PlanStep, OthersStep, KeptStep, KillStep DEF SessionInv, SessionTypeOK
<1>2. CASE UNCHANGED vars
  BY <1>2 DEF StopInv, UsingInv, RefusedInv, DroppedInv, Reporting, Doomed, Unstarted, vars, procVars, sessionVars, configVars, targetVars, freezeVars, ladderVars, intVars,
              PlanInv, OthersInv, KeptInv, KillInv, KilledUnmeasured, Dead
<1>3. QED  BY <1>1, <1>2

LEMMA MoreInit == Init => PlanInv /\ OthersInv /\ KeptInv /\ KillInv
<1> SUFFICES ASSUME Init PROVE PlanInv /\ OthersInv /\ KeptInv /\ KillInv  OBVIOUS
<1>1. PlanInv
  BY ProcNames DEF Init, ProcInit, PlanInv, StopInv, UsingInv, RefusedInv, DroppedInv
<1>2. OthersInv  BY DEF Init, OthersInv
<1>3. KeptInv  BY DEF Init, ProcInit, KeptInv
<1>4. KillInv  BY DEF Init, KillInv, KilledUnmeasured, Closing
<1>5. QED  BY <1>1, <1>2, <1>3, <1>4

LEMMA MoreInvariants == Spec => [](SessionInv /\ PlanInv /\ OthersInv /\ KeptInv /\ KillInv)
<1> DEFINE Inv == PlanInv /\ OthersInv /\ KeptInv /\ KillInv
<1>1. Init => Inv  BY MoreInit
<1>2. SessionInv /\ Inv /\ [Next]_vars => Inv'  BY MoreInv
<1>3. Spec => [](SessionInv /\ Inv)
  <2> HIDE DEF Inv
  <2> QED  BY <1>1, <1>2, SessionInvariant, PTL DEF Spec
<1>4. QED  BY <1>3

\* A recording that is reported is read as what it is: its memory events are read out
\* and kept from the CPU samples if and only if it was started with them, and all it is
\* without that was asked for, the ladder had seen perf refuse.
THEOREM RecordingIsAsPlanned == Spec => []RecordMatchesPlan
<1>1. PlanInv => RecordMatchesPlan
  <2>1. SUFFICES ASSUME PlanInv, outcome = "report", result["record"] = "ok"
                 PROVE  /\ MemoryRead <=> "memory" \in using["record"]
                        /\ \A o \in (asked \ {"interval"}) \ using["record"] : \E r \in refused : o \in r
                        /\ using["record"] \subseteq asked /\ using["record"] \notin refused
    BY DEF RecordMatchesPlan
  <2>2. Reporting /\ bound["record"] /\ ~Doomed
    BY <2>1 DEF PlanInv, StopInv, Reporting, Doomed
  <2>3. using["record"] = active \ {"interval"}  BY <2>1, <2>2 DEF PlanInv, UsingInv
  <2>4. MemoryRead <=> "memory" \in using["record"]  BY <2>1, <2>3 DEF MemoryRead
  <2>5. (asked \ {"interval"}) \ using["record"] = (asked \ {"interval"}) \ active  BY <2>3
  <2>6. QED  BY <2>1, <2>2, <2>3, <2>4, <2>5 DEF PlanInv, RefusedInv, DroppedInv
<1>2. QED  BY <1>1, MoreInvariants, PTL

\* _cleanup_run_target signals the owned target only when no collector measures it
\* any more, so its end by a signal is in no recording.
THEOREM TargetOutlivesMeasuring == Spec => []KilledUnmeasured
<1>1. KillInv => KilledUnmeasured  BY DEF KillInv
<1>2. QED  BY <1>1, MoreInvariants, PTL

\* A target that was stopped when vperf attached is never continued by it.
THEOREM OthersFreezeUntouched == Spec => OthersFreezeKept
<1>1. OthersInv /\ [Next]_vars => [stopper = "other" => stopper' = "other" \/ tgt' = "zombie"]_vars
  BY OthersLast
<1>2. QED  BY <1>1, MoreInvariants, PTL DEF Spec, OthersFreezeKept

\* Unless a terminal's Ctrl-C reached perf on its own, a recording that ends well or by
\* stop()'s SIGINT, within the grace, is kept.
THEOREM FlushedIsKept == Spec => RecordingKept
<1>1. SessionInv /\ KeptInv /\ [Next]_vars
        => [FlushedInTime /\ ~terminal => result'["record"] = "ok"]_vars
  BY KeptResult DEF SessionInv
<1>2. QED  BY <1>1, MoreInvariants, PTL DEF Spec, RecordingKept

-----------------------------------------------------------------------------
(* The combined session implements SessionPromise: every step takes hold   *)
(* of one thing while the session opens, gives one back, closes it, ends   *)
(* it with nothing left, or is invisible there.                            *)

\* The refinement mapping, spelled out.
Things == {"freeze", "target", "stat", "record"}
Lost   == ~(hit \subseteq {"try"})

LEMMA ThingsAre == {"freeze", "target"} \cup Procs = Things
  BY SessionAssumption DEF Things

LEMMA HeldVal ==
  /\ Held \subseteq Things
  /\ "freeze" \in Held <=> stopper = "us"
  /\ "target" \in Held <=> mode = "run" /\ tgt \notin {"absent", "gone"}
  /\ "stat" \in Held <=> child["stat"] = "running"
  /\ "record" \in Held <=> child["record"] = "running"
  BY SessionAssumption DEF Held, Things

LEMMA HeldVal1 ==
  /\ Held' \subseteq Things
  /\ "freeze" \in Held' <=> stopper' = "us"
  /\ "target" \in Held' <=> mode' = "run" /\ tgt' \notin {"absent", "gone"}
  /\ "stat" \in Held' <=> child'["stat"] = "running"
  /\ "record" \in Held' <=> child'["record"] = "running"
  BY SessionAssumption DEF Held, Things

-----------------------------------------------------------------------------
(* The shapes a step may have.                                             *)

\* One thing changes hands and nothing else does.
Same(r) == (r \in Held') <=> (r \in Held)

Quiet == Phase' = Phase /\ Lost' = Lost /\ \A r \in Things : Same(r)
Gives == /\ Phase' = Phase /\ Lost' = Lost
         /\ \E r \in Things : r \in Held /\ r \notin Held' /\ \A q \in Things \ {r} : Same(q)
Takes == /\ Phase = "opening" /\ Phase' = Phase /\ Lost' = Lost
         /\ \E r \in Things : r \notin Held /\ r \in Held' /\ \A q \in Things \ {r} : Same(q)
Closes == /\ Phase = "opening" /\ Phase' = "closing" /\ Lost' \in {Lost, TRUE}
          /\ \A r \in Things : Same(r)
Ends  == /\ Phase # "over" /\ Phase' = "over" /\ Lost' \in {Lost, TRUE}
         /\ \A r \in Things : r \in Held' => r \in Held
         /\ Lost' \/ \A r \in Things : r \notin Held'

Shape == Quiet \/ Gives \/ Takes \/ Closes \/ Ends

LEMMA ShapeIsPromise ==
  ASSUME Shape PROVE [Promise!Next]_(Promise!promiseVars)
<1>0. Held \subseteq Things /\ Held' \subseteq Things  BY HeldVal, HeldVal1
<1>1. CASE Quiet
  <2>1. Held' = Held  BY <1>0, <1>1 DEF Quiet, Same
  <2>2. QED  BY <1>1, <2>1 DEF Quiet, Lost, Promise!promiseVars
<1>2. CASE Gives
  <2>1. PICK r \in Things : r \in Held /\ r \notin Held' /\ \A q \in Things \ {r} : Same(q)
    BY <1>2 DEF Gives
  <2>2. Held' = Held \ {r}  BY <1>0, <2>1 DEF Same
  <2>3. Promise!Give(r)  BY <1>2, <2>1, <2>2 DEF Gives, Lost, Promise!Give
  <2>4. QED  BY <2>1, <2>3, ThingsAre DEF Promise!Next
<1>3. CASE Takes
  <2>1. PICK r \in Things : r \notin Held /\ r \in Held' /\ \A q \in Things \ {r} : Same(q)
    BY <1>3 DEF Takes
  <2>2. Held' = Held \cup {r}  BY <1>0, <2>1 DEF Same
  <2>3. Promise!Take(r)  BY <1>3, <2>1, <2>2 DEF Takes, Lost, Promise!Take
  <2>4. QED  BY <2>1, <2>3, ThingsAre DEF Promise!Next
<1>4. CASE Closes
  <2>1. Held' = Held  BY <1>0, <1>4 DEF Closes, Same
  <2>2. Promise!Close  BY <1>4, <2>1 DEF Closes, Lost, Promise!Close
  <2>3. QED  BY <2>2 DEF Promise!Next
<1>5. CASE Ends
  <2>1. Held' \subseteq Held  BY <1>0, <1>5 DEF Ends
  <2>2. Lost' \/ Held' = {}  BY <1>0, <1>5 DEF Ends
  <2>3. Promise!End  BY <1>5, <2>1, <2>2 DEF Ends, Lost, Promise!End
  <2>4. QED  BY <2>3 DEF Promise!Next
<1>6. QED  BY <1>1, <1>2, <1>3, <1>4, <1>5 DEF Shape

-----------------------------------------------------------------------------
(* Every step has one of them.                                             *)

LEMMA SameVal ==
  /\ UNCHANGED <<mode, tgt, stopper>> => Same("freeze") /\ Same("target")
  /\ \A p \in Procs : child'[p] = child[p] => Same(p)
  BY HeldVal, HeldVal1, SessionAssumption DEF Same

LEMMA PhaseVal ==
  /\ Phase = "over" <=> pc = "over"
  /\ Phase = "closing" <=> pc \in LatePc
  /\ Phase = "opening" <=> pc \notin LatePc \cup {"over"}
  BY DEF Phase, LatePc

LEMMA PhaseVal1 ==
  /\ Phase' = "over" <=> pc' = "over"
  /\ Phase' = "closing" <=> pc' \in LatePc
  /\ Phase' = "opening" <=> pc' \notin LatePc \cup {"over"}
  BY DEF Phase, LatePc

LEMMA PhaseIs == Phase \in {"opening", "closing", "over"} /\ Phase' \in {"opening", "closing", "over"}
  BY DEF Phase

\* A step that neither starts, ends nor signals anything.
LEMMA Idles ==
  ASSUME UNCHANGED <<child, mode, tgt, stopper, hit>>
  PROVE  /\ \A r \in Things : Same(r)
         /\ Lost' = Lost
  BY SameVal, ProcNames DEF Things, Lost

\* A step of the target: it goes, or the freeze does.
LEMMA TargetMoves ==
  ASSUME UNCHANGED <<child, mode, hit>>, Phase' = Phase,
         stopper' = stopper \/ stopper' = "none",
         "target" \in Held' => "target" \in Held,
         Same("freeze") \/ Same("target")
  PROVE  Shape
<1>1. Same("stat") /\ Same("record") /\ Lost' = Lost  BY SameVal, ProcNames DEF Lost
<1>2. "freeze" \in Held' => "freeze" \in Held  BY HeldVal, HeldVal1
<1>3. CASE Same("freeze") /\ Same("target")
  BY <1>1, <1>3 DEF Shape, Quiet, Things
<1>4. CASE Same("freeze") /\ ~Same("target")
  BY <1>1, <1>4 DEF Shape, Gives, Things, Same
<1>5. CASE ~Same("freeze") /\ Same("target")
  BY <1>1, <1>2, <1>5 DEF Shape, Gives, Things, Same
<1>6. QED  BY <1>3, <1>4, <1>5

LEMMA StepShape == ASSUME SessionInv, SessionInv', Next PROVE Shape
<1> USE PhaseVal, PhaseVal1, PhaseIs
<1> USE DEF procVars, configVars, targetVars, intVars
<1>0. /\ ProcTypeOK /\ FreezeInv /\ PlaceInv /\ RelaunchInv /\ HeldInv /\ TargetInv
      /\ ProcTypeOK' /\ FreezeInv' /\ HeldInv' /\ TargetInv'
      /\ mode \in {"run", "attach"} /\ TargetOK /\ TargetOK' /\ pc \in Pc /\ pc' \in Pc
  BY DEF SessionInv, SessionTypeOK, ConfigOK
\* The session's end: what is left, nothing is, or an interrupt came outside the try.
<1>1. pc' = "over" => Lost' \/ \A r \in Things : r \notin Held'
  <2>1. SUFFICES ASSUME pc' = "over", hit' \subseteq {"try"} PROVE \A r \in Things : r \notin Held'
    BY DEF Lost
  <2>2. child'["stat"] # "running" /\ child'["record"] # "running"  BY <1>0, <2>1 DEF HeldInv
  <2>3. stopper' # "us"  BY <1>0, <2>1 DEF FreezeInv, FrozenPc, BindPc
  <2>4. mode' = "run" => tgt' \in {"absent", "gone"}  BY <1>0, <2>1 DEF TargetInv
  <2>5. QED  BY <2>2, <2>3, <2>4, HeldVal1 DEF Things
<1>2. CASE SpawnTarget
  <2>1. CASE pc' = "settleTarget"
    <3>1. UNCHANGED <<child, mode, stopper, hit>> /\ tgt = "absent"
      BY <1>0, <1>2, <2>1 DEF SpawnTarget, TargetInv
    <3>2. Same("freeze") /\ Same("stat") /\ Same("record")
      BY <3>1, SameVal, ProcNames, HeldVal, HeldVal1 DEF Same
    <3>3. Phase = "opening" /\ Phase' = Phase /\ "target" \notin Held /\ Lost' = Lost
      BY <1>2, <2>1, <3>1, HeldVal DEF SpawnTarget, LatePc, Lost
    <3>4. QED  BY <3>2, <3>3 DEF Shape, Takes, Quiet, Things, Same
  <2>2. CASE pc' = "over"
    <3>1. UNCHANGED <<child, mode, tgt, stopper, hit>> /\ pc = "spawnTarget"
      BY <1>2, <2>2 DEF SpawnTarget
    <3>2. QED  BY <1>1, <2>2, <3>1, Idles DEF Shape, Ends, Same
  <2>3. QED  BY <1>2, <2>1, <2>2 DEF SpawnTarget
<1>3. CASE Look \/ EnterTry \/ BindStat \/ BindRecord \/ SettleStat \/ SettleRecord \/ Mark
  <2>1. UNCHANGED <<child, mode, tgt, stopper, hit>>
    BY <1>3 DEF Look, EnterTry, BindStat, BindRecord, Bind, SettleStat, SettleRecord, Mark
  <2>2. pc \notin LatePc \cup {"over"} /\ pc' \notin LatePc \cup {"over"}
    <3>1. CASE Look \/ EnterTry \/ Mark  BY <3>1 DEF Look, EnterTry, Mark, LatePc
    <3>2. CASE BindStat \/ BindRecord
      BY <3>2 DEF BindStat, BindRecord, Bind, AfterStat, AfterRecord, LatePc
    <3>3. CASE SettleStat \/ SettleRecord
      BY <3>3 DEF SettleStat, SettleRecord, RecordLadder, LatePc
    <3>4. QED  BY <1>3, <3>1, <3>2, <3>3
  <2>3. QED  BY <2>1, <2>2, Idles DEF Shape, Quiet
<1>4. CASE SettleTarget \/ MonitorSee
  <2>1. /\ UNCHANGED <<child, mode, hit, stopper>>
        /\ tgt' = tgt \/ (tgt = "zombie" /\ tgt' = "gone")
    BY <1>4 DEF SettleTarget, MonitorSee, Polled
  <2>2. Phase' = Phase
    BY <1>4 DEF SettleTarget, MonitorSee, LatePc
  <2>3. Same("freeze") /\ ("target" \in Held' => "target" \in Held)
    BY <2>1, HeldVal, HeldVal1 DEF Same
  <2>4. QED  BY <2>1, <2>2, <2>3, TargetMoves
<1>5. CASE Freeze
  <2>1. UNCHANGED <<child, mode, hit>> /\ pc = "freeze" /\ pc' = "enterTry"
    BY <1>5 DEF Freeze
  <2>2. /\ stopper # "us" /\ (tgt' = tgt \/ (tgt = "run" /\ tgt' = "stopped"))
        /\ stopper' \in {stopper, "us"}
    BY <1>0, <1>5, <2>1 DEF Freeze, SigStop, FreezeInv, FrozenPc, BindPc
  <2>3. Same("target") /\ Same("stat") /\ Same("record") /\ "freeze" \notin Held
    BY <2>1, <2>2, SameVal, ProcNames, HeldVal, HeldVal1 DEF Same
  <2>4. Phase = "opening" /\ Phase' = Phase /\ Lost' = Lost
    BY <2>1 DEF LatePc, Lost
  <2>5. QED  BY <2>3, <2>4 DEF Shape, Takes, Quiet, Things, Same
<1>6. CASE LaunchStat
  <2>1. UNCHANGED <<mode, tgt, stopper, hit>> /\ child'["record"] = child["record"]
    BY <1>0, <1>6, ProcNames DEF LaunchStat, Launch, Spawn, ProcTypeOK
  <2>2. child["stat"] # "running"
    BY <1>0, <1>6 DEF LaunchStat, Launch, RelaunchInv, NoLiveRelaunch
  <2>3. Same("freeze") /\ Same("target") /\ Same("record") /\ "stat" \notin Held
    BY <2>1, <2>2, SameVal, ProcNames, HeldVal
  <2>4. Phase = "opening" /\ Phase' = Phase /\ Lost' = Lost
    BY <1>6, <2>1 DEF LaunchStat, Launch, AfterStat, LatePc, Lost
  <2>5. QED  BY <2>3, <2>4 DEF Shape, Takes, Quiet, Things, Same
<1>7. CASE LaunchRecord
  <2>1. UNCHANGED <<mode, tgt, stopper, hit>> /\ child'["stat"] = child["stat"]
    BY <1>0, <1>7, ProcNames DEF LaunchRecord, Launch, Spawn, ProcTypeOK
  <2>2. child["record"] # "running"
    BY <1>0, <1>7 DEF LaunchRecord, Launch, RelaunchInv, NoLiveRelaunch
  <2>3. Same("freeze") /\ Same("target") /\ Same("stat") /\ "record" \notin Held
    BY <2>1, <2>2, SameVal, ProcNames, HeldVal
  <2>4. Phase = "opening" /\ Phase' = Phase /\ Lost' = Lost
    BY <1>7, <2>1 DEF LaunchRecord, Launch, AfterRecord, LatePc, Lost
  <2>5. QED  BY <2>3, <2>4 DEF Shape, Takes, Quiet, Things, Same
<1>8. CASE Cont
  <2>1. UNCHANGED <<child, mode, hit>> /\ pc = "cont"  BY <1>8 DEF Cont
  <2>2. Same("target") /\ (stopper' = stopper \/ stopper' = "none")
    BY <1>8, <2>1, HeldVal, HeldVal1 DEF Cont, SigCont, Same
  <2>3. CASE ready
    <3>1. Phase' = Phase  BY <1>8, <2>3 DEF Cont, LatePc
    <3>2. QED  BY <2>1, <2>2, <3>1, TargetMoves DEF Same
  <2>4. CASE ~ready
    <3>1. UNCHANGED <<tgt, stopper>> /\ pc' = "after"
      BY <1>0, <1>8, <2>4 DEF Cont, FreezeInv
    <3>2. Phase = "opening" /\ Phase' = "closing"  BY <2>1, <3>1 DEF LatePc
    <3>3. QED  BY <2>1, <3>1, <3>2, Idles DEF Shape, Closes
  <2>5. QED  BY <2>3, <2>4
<1>9. CASE MonitorEnd
  <2>1. UNCHANGED <<child, mode, tgt, stopper, hit>>  BY <1>9 DEF MonitorEnd
  <2>2. Phase = "opening" /\ Phase' = "closing"  BY <1>9 DEF MonitorEnd, LatePc
  <2>3. QED  BY <2>1, <2>2, Idles DEF Shape, Closes
<1>10. CASE Handler \/ After
  <2>1. UNCHANGED <<child, mode, hit>>  BY <1>10 DEF Handler, After
  <2>2. Same("target") /\ (stopper' = stopper \/ stopper' = "none")
    BY <1>10, <2>1, HeldVal, HeldVal1 DEF Handler, After, SigCont, Same
  <2>3. Phase' = Phase  BY <1>10 DEF Handler, After, LatePc
  <2>4. QED  BY <2>1, <2>2, <2>3, TargetMoves DEF Same
<1>11. CASE FinRecord \/ FinStat
  <2>1. UNCHANGED <<mode, tgt, stopper, hit, child>>
    BY <1>11 DEF FinRecord, FinStat, Finish, StopStep, StopPoll, StopInt, StopWait, StopKill,
                 StopBlock, StopReturn
  <2>2. Phase' = Phase  BY <1>11 DEF FinRecord, FinStat, Finish, LatePc
  <2>3. QED  BY <2>1, <2>2, Idles DEF Shape, Quiet
<1>12. CASE Post
  <2>1. UNCHANGED <<child, mode, tgt, stopper, hit>> /\ pc = "post" /\ pc' = "over"
    BY <1>12 DEF Post
  <2>2. QED  BY <1>1, <2>1, Idles DEF Shape, Ends, Same
<1>13. CASE CleanGrace \/ CleanTerm \/ CleanKill
  <2>1. /\ UNCHANGED <<child, mode, stopper, hit>> /\ pc \in LatePc
        /\ pc' \in LatePc \cup {"over"}
        /\ tgt' = tgt \/ (tgt = "zombie" /\ tgt' = "gone")
    BY <1>13 DEF CleanGrace, CleanTerm, CleanKill, CleanWait, Cleaned, Polled, LatePc
  <2>2. Same("freeze") /\ ("target" \in Held' => "target" \in Held)
    BY <2>1, HeldVal, HeldVal1 DEF Same
  <2>3. CASE pc' \in LatePc
    <3>1. Phase' = Phase  BY <2>1, <2>3
    <3>2. QED  BY <2>1, <2>2, <3>1, TargetMoves
  <2>4. CASE pc' = "over"
    <3>1. Same("stat") /\ Same("record") /\ Lost' = Lost
      BY <2>1, SameVal, ProcNames DEF Lost
    <3>2. Phase # "over" /\ Phase' = "over"  BY <2>1, <2>4 DEF LatePc
    <3>3. QED  BY <1>1, <2>2, <2>4, <3>1, <3>2 DEF Shape, Ends, Same, Things
  <2>5. QED  BY <2>1, <2>3, <2>4
<1>14. CASE Interrupt
  <2>1. UNCHANGED <<child, mode, tgt, stopper>> /\ pc # "over" /\ hit' = hit \cup {Region(pc)}
    BY <1>14 DEF Interrupt, TerminalInt
  <2>2. \A r \in Things : Same(r)  BY <2>1, SameVal, ProcNames DEF Things
  <2>3. Lost' \in {Lost, TRUE} /\ (pc \in TryPc => Lost' = Lost)
    BY <2>1 DEF Lost, Region, PrePc, BindPc, TryPc
  <2>4. CASE pc \in TryPc \cup BindPc
    <3>1. pc' = "handler"  BY <1>14, <2>4 DEF Interrupt
    <3>2. Phase = "opening" /\ Phase' = "closing"
      BY <2>4, <3>1 DEF LatePc, TryPc, BindPc
    <3>3. QED  BY <2>2, <2>3, <3>2 DEF Shape, Closes
  <2>5. CASE pc \notin TryPc \cup BindPc
    <3>1. pc' = "over"  BY <1>14, <2>5 DEF Interrupt
    <3>2. QED  BY <1>1, <2>1, <2>2, <2>3, <3>1 DEF Shape, Ends, Same
  <2>6. QED  BY <2>4, <2>5
<1>15. CASE TargetExit
  <2>1. UNCHANGED <<child, mode, hit, pc>> /\ stopper' = "none" /\ tgt' = "zombie"
        /\ tgt \in {"run", "stopped"}
    BY <1>15 DEF TargetExit
  <2>2. Same("target")  BY <2>1, HeldVal, HeldVal1 DEF Same
  <2>3. QED  BY <2>1, <2>2, TargetMoves DEF Same
<1>16. CASE ParentReaps
  <2>1. UNCHANGED <<child, mode, hit, pc, stopper>> /\ mode = "attach"
    BY <1>16 DEF ParentReaps
  <2>2. Same("target") /\ Same("freeze")  BY <2>1, HeldVal, HeldVal1 DEF Same
  <2>3. QED  BY <2>1, <2>2, TargetMoves DEF Same
<1>17. CASE Over
  BY <1>17, Idles DEF Over, vars, sessionVars, Shape, Quiet
<1>18. ASSUME NEW p \in Procs, CollectorExit(p) \/ CollectorKilled(p) PROVE Shape
  <2>1. UNCHANGED <<mode, tgt, stopper, hit, pc>>
    BY <1>18 DEF CollectorExit, CollectorKilled, sessionVars
  <2>2. child[p] = "running" /\ child' = [child EXCEPT ![p] = "exited"]
    BY <1>18 DEF CollectorExit, CollectorKilled, ExitOnInt, ExitOnTerm, ExitOnKill, Exit
  <2>3. p \in Held /\ p \notin Held' /\ p \in Things
    BY <1>0, <2>2, HeldVal, HeldVal1, SessionAssumption DEF ProcTypeOK, Things
  <2>4. \A q \in Things \ {p} : Same(q)
    BY <1>0, <2>1, <2>2, SameVal, SessionAssumption DEF ProcTypeOK, Things
  <2>5. QED  BY <2>1, <2>3, <2>4 DEF Shape, Gives, Lost
<1>19. QED
  BY <1>2, <1>3, <1>4, <1>5, <1>6, <1>7, <1>8, <1>9, <1>10, <1>11, <1>12, <1>13, <1>14,
     <1>15, <1>16, <1>17, <1>18 DEF Next, Thread

-----------------------------------------------------------------------------
LEMMA PromiseInit == Init => Promise!Init
<1> SUFFICES ASSUME Init PROVE Promise!Init  OBVIOUS
<1>1. Phase = "opening"  BY PhaseVal DEF Init, LatePc
<1>2. ~Lost  BY DEF Init, Lost
<1>3. Held = {}
  <2>1. stopper # "us" /\ (mode = "run" => tgt = "absent")  BY DEF Init
  <2>2. child["stat"] # "running" /\ child["record"] # "running"
    BY ProcNames DEF Init, ProcInit
  <2>3. QED  BY <2>1, <2>2, HeldVal DEF Things
<1>4. QED  BY <1>1, <1>2, <1>3 DEF Promise!Init, Lost

\* The session implements its promise: whatever _collect_combined takes hold of
\* (the freeze, the target, a collector) it takes while it is opening, and it has
\* given all of it back when it is over, unless it was interrupted outside its try.
THEOREM SessionKeepsPromise == Spec => PromiseKept
<1>1. Init => Promise!Init  BY PromiseInit
<1>2. SessionInv /\ SessionInv' /\ [Next]_vars => [Promise!Next]_(Promise!promiseVars)
  <2>1. ASSUME SessionInv, SessionInv', Next PROVE [Promise!Next]_(Promise!promiseVars)
    BY <2>1, StepShape, ShapeIsPromise
  <2>2. ASSUME UNCHANGED vars PROVE [Promise!Next]_(Promise!promiseVars)
    <3>1. UNCHANGED <<child, mode, tgt, stopper, hit, pc>>
      BY <2>2 DEF vars, procVars, sessionVars, configVars, targetVars, intVars
    <3>2. Phase' = Phase  BY <3>1 DEF Phase
    <3>3. QED  BY <3>1, <3>2, Idles, ShapeIsPromise DEF Shape, Quiet
  <2>3. QED  BY <2>1, <2>2
<1>3. QED  BY <1>1, <1>2, SessionInvariant, PTL DEF Spec, PromiseKept, Promise!Spec
=============================================================================
