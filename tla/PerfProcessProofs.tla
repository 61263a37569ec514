------------------------- MODULE PerfProcessProofs -------------------------
(***************************************************************************)
(* Proofs about the perf children's handles, for every set of children.    *)
(* The invariant ties the signal a live child has received to the place    *)
(* its handle has reached: the properties alone are not inductive, since   *)
(* none of them says that a stop about to wait has sent nothing but SIGINT.*)
(***************************************************************************)
EXTENDS PerfProcess, TLAPS

\* What a live child has received when its handle is at o.
Expected == [o \in Op |->
  CASE o \in {"idle", "stop_int", "reap_INT"}        -> {"none", "INT"}
    [] o \in {"stop_wait", "wait_INT", "reap_TERM"}  -> {"INT"}
    [] o \in {"stop_kill", "wait_TERM", "reap_KILL"} -> {"TERM"}
    [] o \in {"stop_block", "wait_KILL", "wait_last", "done"} -> {"KILL"}]

\* A live child has received exactly what its handle has got round to sending.
LiveSig == \A p \in Procs : child[p] = "running" => sig[p] \in Expected[op[p]]

\* Before stop() has sent anything, nothing beyond a SIGINT has been received.
EarlySig == \A p \in Procs : op[p] \in {"idle", "stop_int"} => sig[p] \in {"none", "INT"}

\* The flag stands only while nothing stronger than SIGINT has been sent.
FlagSig == \A p \in Procs :
  interrupted[p] => op[p] \in {"stop_wait", "done"} /\ sig[p] \in {"none", "INT"}

\* A child that ended on SIGINT had received it; a live one has no status.
CodeSig == \A p \in Procs : /\ code[p] = "int" => sig[p] # "none"
                            /\ child[p] = "running" => code[p] = "none"

ProcInv == ProcTypeOK /\ LiveSig /\ EarlySig /\ FlagSig /\ CodeSig /\ NoCleanEscalation

-----------------------------------------------------------------------------
\* Expected, place by place, for the leaves that need one entry of it.
LEMMA ExpectedVal ==
  /\ \A o \in {"idle", "stop_int", "reap_INT"} : Expected[o] = {"none", "INT"}
  /\ \A o \in {"stop_wait", "wait_INT", "reap_TERM"} : Expected[o] = {"INT"}
  /\ \A o \in {"stop_kill", "wait_TERM", "reap_KILL"} : Expected[o] = {"TERM"}
  /\ \A o \in {"stop_block", "wait_KILL", "wait_last", "done"} : Expected[o] = {"KILL"}
  BY DEF Expected, Op, StopOp

LEMMA RankVal == Rank["none"] = 0 /\ Rank["INT"] = 1 /\ Rank["TERM"] = 2 /\ Rank["KILL"] = 3
  BY DEF Rank, Signals

LEMMA ProcInitInv == ProcInit => ProcInv
  BY DEF ProcInit, ProcInv, ProcTypeOK, Child, Code, Signals, Op, StopOp, Result, LiveSig,
         EarlySig, FlagSig, CodeSig, NoCleanEscalation

USE DEF ProcInv, ProcTypeOK

\* A fresh child has a fresh handle.
LEMMA SpawnInv == ASSUME NEW p \in Procs, ProcInv, Spawn(p) PROVE ProcInv'
<1>1. ProcTypeOK'
  BY DEF Spawn, Child, Code, Signals, Op, StopOp, Result
<1>2. LiveSig'
  BY ExpectedVal DEF Spawn, LiveSig
<1>3. EarlySig' /\ FlagSig' /\ CodeSig' /\ NoCleanEscalation'
  BY DEF Spawn, EarlySig, FlagSig, CodeSig, NoCleanEscalation
<1>4. QED  BY <1>1, <1>2, <1>3

\* A child's end, however it comes about, disturbs nothing.
LEMMA ExitInv ==
  ASSUME NEW p \in Procs, ProcInv, NEW c \in {"ok", "int", "killed", "error"}, Exit(p, c),
         c = "int" => sig[p] # "none"
  PROVE  ProcInv'
<1>1. ProcTypeOK'  BY DEF Exit, Child, Code
<1>2. LiveSig' /\ EarlySig' /\ FlagSig'  BY DEF Exit, LiveSig, EarlySig, FlagSig
<1>3. CodeSig'  BY DEF Exit, CodeSig
<1>4. NoCleanEscalation'  BY DEF Exit, NoCleanEscalation, CodeSig
<1>5. QED  BY <1>1, <1>2, <1>3, <1>4

LEMMA ChildStepInv == ASSUME NEW p \in Procs, ProcInv, ChildStep(p) PROVE ProcInv'
  BY ExitInv DEF ChildStep, ExitSelf, ExitOnInt, ExitOnTerm, ExitOnKill

-----------------------------------------------------------------------------
\* Sending s to a child leaves it with a signal, and a dead child with what it had.
LEMMA DeliveredFact ==
  ASSUME NEW p \in Procs, ProcTypeOK, NEW s \in {"INT", "TERM", "KILL"}
  PROVE  /\ Delivered(p, s) \in Signals
         /\ child[p] # "running" => Delivered(p, s) = sig[p]
         /\ sig[p] # "none" => Delivered(p, s) # "none"
         /\ s = "INT" /\ sig[p] \in {"none", "INT"} => Delivered(p, s) \in {"none", "INT"}
         /\ child[p] = "running" =>
              /\ s = "INT" /\ sig[p] \in {"none", "INT"} => Delivered(p, s) = "INT"
              /\ s = "TERM" /\ sig[p] = "INT" => Delivered(p, s) = "TERM"
              /\ s = "KILL" /\ sig[p] = "TERM" => Delivered(p, s) = "KILL"
  BY RankVal DEF Delivered, Signals

\* stop() hands out a result only of a child that has ended.
LEMMA StopReturnInv ==
  ASSUME NEW p \in Procs, ProcInv, StopReturn(p) PROVE ProcInv'
<1>1. ProcTypeOK'  BY DEF StopReturn, Op, StopOp, Result
<1>2. LiveSig' /\ EarlySig' /\ CodeSig'
  BY DEF StopReturn, LiveSig, EarlySig, CodeSig
<1>3. FlagSig'  BY DEF StopReturn, FlagSig
<1>4. NoCleanEscalation'
  BY DEF StopReturn, StopOk, FlagSig, CodeSig, NoCleanEscalation, Signals
<1>5. QED  BY <1>1, <1>2, <1>3, <1>4

LEMMA StopStepInv == ASSUME NEW p \in Procs, ProcInv, StopStep(p) PROVE ProcInv'
<1>1. CASE StopReturn(p)  BY <1>1, StopReturnInv
<1>2. CASE /\ op[p] = "idle" /\ op' = [op EXCEPT ![p] = "stop_int"]
           /\ UNCHANGED <<child, code, sig, interrupted, result>>
  <2>1. ProcTypeOK'  BY <1>2 DEF Op, StopOp
  <2>2. LiveSig'  BY <1>2, ExpectedVal DEF LiveSig
  <2>3. EarlySig' /\ FlagSig' /\ CodeSig' /\ NoCleanEscalation'
    BY <1>2 DEF EarlySig, FlagSig, CodeSig, NoCleanEscalation
  <2>4. QED  BY <2>1, <2>2, <2>3
<1>3. CASE StopInt(p)
  <2>1. ProcTypeOK'  BY <1>3, DeliveredFact DEF StopInt, Op, StopOp
  <2>2. LiveSig'  BY <1>3, DeliveredFact, ExpectedVal DEF StopInt, LiveSig, EarlySig
  <2>3. EarlySig' /\ FlagSig'  BY <1>3, DeliveredFact DEF StopInt, EarlySig, FlagSig
  <2>4. CodeSig' /\ NoCleanEscalation'
    BY <1>3, DeliveredFact DEF StopInt, CodeSig, NoCleanEscalation
  <2>5. QED  BY <2>1, <2>2, <2>3, <2>4
<1>4. CASE /\ op[p] = "stop_wait" /\ child[p] = "running"
           /\ interrupted' = [interrupted EXCEPT ![p] = FALSE]
           /\ sig' = [sig EXCEPT ![p] = Delivered(p, "TERM")]
           /\ op' = [op EXCEPT ![p] = "stop_kill"]
           /\ UNCHANGED <<child, code, result>>
  <2>1. ProcTypeOK'  BY <1>4, DeliveredFact DEF Op, StopOp
  <2>2. LiveSig'  BY <1>4, DeliveredFact, ExpectedVal DEF LiveSig
  <2>3. EarlySig' /\ FlagSig'  BY <1>4 DEF EarlySig, FlagSig
  <2>4. CodeSig' /\ NoCleanEscalation'
    BY <1>4, DeliveredFact DEF CodeSig, NoCleanEscalation
  <2>5. QED  BY <2>1, <2>2, <2>3, <2>4
<1>5. CASE /\ op[p] = "stop_kill" /\ child[p] = "running"
           /\ sig' = [sig EXCEPT ![p] = Delivered(p, "KILL")]
           /\ op' = [op EXCEPT ![p] = "stop_block"]
           /\ UNCHANGED <<child, code, interrupted, result>>
  <2>1. ProcTypeOK'  BY <1>5, DeliveredFact DEF Op, StopOp
  <2>2. LiveSig'  BY <1>5, DeliveredFact, ExpectedVal DEF LiveSig
  <2>3. EarlySig' /\ FlagSig'  BY <1>5 DEF EarlySig, FlagSig
  <2>4. CodeSig' /\ NoCleanEscalation'
    BY <1>5, DeliveredFact DEF CodeSig, NoCleanEscalation
  <2>5. QED  BY <2>1, <2>2, <2>3, <2>4
<1>6. QED
  BY <1>1, <1>2, <1>3, <1>4, <1>5 DEF StopStep, StopPoll, StopWait, StopKill, StopBlock

-----------------------------------------------------------------------------
LEMMA ReapOpVal ==
  /\ ReapOp["INT"]  = [now |-> "reap_INT",  wait |-> "wait_INT",  next |-> "reap_TERM"]
  /\ ReapOp["TERM"] = [now |-> "reap_TERM", wait |-> "wait_TERM", next |-> "reap_KILL"]
  /\ ReapOp["KILL"] = [now |-> "reap_KILL", wait |-> "wait_KILL", next |-> "wait_last"]
  BY DEF ReapOp

LEMMA JoinWaitInv == ASSUME NEW p \in Procs, ProcInv, JoinWait(p) PROVE ProcInv'
<1>1. ProcTypeOK'  BY DEF JoinWait, Op, StopOp, Result
<1>2. LiveSig'  BY ExpectedVal DEF JoinWait, LiveSig
<1>3. EarlySig' /\ FlagSig' /\ CodeSig'  BY DEF JoinWait, EarlySig, FlagSig, CodeSig
<1>4. NoCleanEscalation'  BY DEF JoinWait, NoCleanEscalation
<1>5. QED  BY <1>1, <1>2, <1>3, <1>4

LEMMA ReapSendInv ==
  ASSUME NEW p \in Procs, NEW s \in {"INT", "TERM", "KILL"}, ProcInv, ReapSend(p, s)
  PROVE  ProcInv'
<1>1. ProcTypeOK'  BY DeliveredFact, ReapOpVal DEF ReapSend, Op, StopOp
<1>2. LiveSig'  BY DeliveredFact, ExpectedVal, ReapOpVal DEF ReapSend, LiveSig
<1>3. EarlySig' /\ FlagSig'  BY ReapOpVal DEF ReapSend, EarlySig, FlagSig
<1>4. CodeSig' /\ NoCleanEscalation'
  BY DeliveredFact DEF ReapSend, CodeSig, NoCleanEscalation
<1>5. QED  BY <1>1, <1>2, <1>3, <1>4

LEMMA ReapWaitInv ==
  ASSUME NEW p \in Procs, NEW s \in {"INT", "TERM", "KILL"}, ProcInv, ReapWait(p, s)
  PROVE  ProcInv'
<1>1. ProcTypeOK'  BY ReapOpVal DEF ReapWait, Op, StopOp
<1>2. LiveSig'  BY ExpectedVal, ReapOpVal DEF ReapWait, LiveSig
<1>3. EarlySig' /\ FlagSig' /\ CodeSig' /\ NoCleanEscalation'
  BY ReapOpVal DEF ReapWait, EarlySig, FlagSig, CodeSig, NoCleanEscalation
<1>4. QED  BY <1>1, <1>2, <1>3

LEMMA JoinStepInv == ASSUME NEW p \in Procs, ProcInv, JoinStep(p) PROVE ProcInv'
<1>1. CASE JoinWait(p)  BY <1>1, JoinWaitInv
<1>2. CASE \E s \in {"INT", "TERM", "KILL"} : ReapSend(p, s) \/ ReapWait(p, s)
  BY <1>2, ReapSendInv, ReapWaitInv
<1>3. CASE ReapLast(p)
  <2>1. ProcTypeOK'  BY <1>3 DEF ReapLast, Op, StopOp
  <2>2. LiveSig'  BY <1>3, ExpectedVal DEF ReapLast, LiveSig
  <2>3. EarlySig' /\ FlagSig' /\ CodeSig' /\ NoCleanEscalation'
    BY <1>3 DEF ReapLast, EarlySig, FlagSig, CodeSig, NoCleanEscalation
  <2>4. QED  BY <2>1, <2>2, <2>3
<1>4. QED  BY <1>1, <1>2, <1>3 DEF JoinStep

\* The terminal's SIGINT comes at any moment and disturbs no handle.
LEMMA TerminalIntInv == ASSUME ProcInv, TerminalInt PROVE ProcInv'
<1>0. \A p \in Procs : sig'[p] = IF child[p] = "running" /\ sig[p] = "none" THEN "INT" ELSE sig[p]
  BY RankVal DEF TerminalInt, Delivered, Signals
<1>1. ProcTypeOK'
  <2>1. sig' \in [Procs -> Signals]  BY DeliveredFact DEF TerminalInt
  <2>2. QED  BY <2>1 DEF TerminalInt
<1>2. LiveSig'
  <2>1. SUFFICES ASSUME NEW p \in Procs, child[p] = "running" PROVE sig'[p] \in Expected[op[p]]
    BY DEF LiveSig, TerminalInt
  <2>2. sig[p] \in Expected[op[p]]  BY <2>1 DEF LiveSig
  <2>3. "none" \in Expected[op[p]] => "INT" \in Expected[op[p]]
    BY ExpectedVal DEF Op, StopOp
  <2>4. QED  BY <1>0, <2>2, <2>3
<1>3. EarlySig' /\ FlagSig' /\ CodeSig'
  BY <1>0 DEF TerminalInt, EarlySig, FlagSig, CodeSig
<1>4. NoCleanEscalation'
  BY <1>0 DEF TerminalInt, NoCleanEscalation, CodeSig
<1>5. QED  BY <1>1, <1>2, <1>3, <1>4

LEMMA ProcNextInv == ProcInv /\ [ProcNext]_procVars => ProcInv'
<1>1. CASE UNCHANGED procVars
  BY <1>1 DEF procVars, LiveSig, EarlySig, FlagSig, CodeSig, NoCleanEscalation
<1>2. CASE TerminalInt  BY <1>2, TerminalIntInv
<1>3. ASSUME ProcInv, NEW p \in Procs, Spawn(p) \/ StopStep(p) \/ JoinStep(p) \/ ChildStep(p)
      PROVE  ProcInv'
  BY <1>3, SpawnInv, StopStepInv, JoinStepInv, ChildStepInv
<1>4. QED  BY <1>1, <1>2, <1>3 DEF ProcNext

-----------------------------------------------------------------------------
\* Every reachable state satisfies the invariant.
THEOREM ProcInvariant == ProcSpec => []ProcInv
<1>1. ProcInit => ProcInv  BY ProcInitInv
<1>2. ProcInv /\ [ProcNext]_procVars => ProcInv'  BY ProcNextInv
<1>3. QED  BY <1>1, <1>2, PTL DEF ProcSpec

\* The handles' variables keep their types, for every set of children.
THEOREM ProcTypeCorrect == ProcSpec => []ProcTypeOK
<1>1. ProcInv => ProcTypeOK  OBVIOUS
<1>2. QED  BY <1>1, ProcInvariant, PTL

\* Only a child that ended with 0, or on a SIGINT that nothing stronger followed,
\* is ever handed out as a clean finish (PerfProcess.stop and join).
THEOREM CleanMeansClean == ProcSpec => []NoCleanEscalation
<1>1. ProcInv => NoCleanEscalation  OBVIOUS
<1>2. QED  BY <1>1, ProcInvariant, PTL

\* join() and stop() leave behind a dead child, or one that has SIGKILL coming.
THEOREM NothingLeaks == ProcSpec => []JoinNeverLeaks
<1>1. ProcInv => JoinNeverLeaks  BY ExpectedVal DEF LiveSig, JoinNeverLeaks
<1>2. QED  BY <1>1, ProcInvariant, PTL

\* stop() never returns over a live perf, whatever it had to escalate to.
THEOREM StopMeansGone == ProcSpec => StopReleases
<1> DEFINE Released == \A p \in Procs : op[p] \in StopOp /\ op'[p] = "done" => child'[p] = "exited"
<1>1. ProcInv /\ [ProcNext]_procVars => [Released]_procVars
  <2>1. SUFFICES ASSUME ProcInv, ProcNext, NEW p \in Procs, op[p] \in StopOp, op'[p] = "done"
                 PROVE  child'[p] = "exited"
    OBVIOUS
  <2>2. ~TerminalInt  BY <2>1 DEF TerminalInt, StopOp
  <2>3. PICK q \in Procs : \/ Spawn(q)
                           \/ child[q] # "absent" /\ (StopStep(q) \/ JoinStep(q))
                           \/ ChildStep(q)
    BY <2>1, <2>2 DEF ProcNext
  <2>4. ~Spawn(q)  BY <2>1 DEF Spawn, StopOp
  <2>5. ~ChildStep(q)
    BY <2>1 DEF ChildStep, ExitSelf, ExitOnInt, ExitOnTerm, ExitOnKill, Exit, StopOp
  <2>6. ~JoinStep(q)
    BY <2>1, ReapOpVal DEF JoinStep, JoinWait, ReapSend, ReapWait, ReapLast, StopOp
  <2>7. q = p /\ StopReturn(p)
    BY <2>1, <2>3, <2>4, <2>5, <2>6
       DEF StopStep, StopPoll, StopInt, StopWait, StopKill, StopBlock, StopReturn, StopOp
  <2>8. QED  BY <2>1, <2>3, <2>4, <2>5, <2>6, <2>7 DEF StopReturn, Child
<1>2. QED  BY <1>1, ProcInvariant, PTL DEF ProcSpec, StopReleases

\* Each signal a live child is sent is one step up from the last: perf always has
\* its chance to write what it has.
THEOREM SignalsInOrder == ProcSpec => EscalationOrder
<1> DEFINE Ordered == \A p \in Procs :
             child'[p] = "running" /\ sig'[p] # sig[p] /\ sig'[p] # "none"
               => Rank[sig'[p]] = Rank[sig[p]] + 1
<1>1. ProcInv /\ [ProcNext]_procVars => [Ordered]_procVars
  <2>1. SUFFICES ASSUME ProcInv, ProcNext, NEW p \in Procs, child'[p] = "running",
                        sig'[p] # sig[p], sig'[p] # "none"
                 PROVE  Rank[sig'[p]] = Rank[sig[p]] + 1
    OBVIOUS
  <2>2. CASE TerminalInt  BY <2>1, <2>2, RankVal DEF TerminalInt, Delivered, Signals
  <2>3. ASSUME NEW q \in Procs, StopStep(q) PROVE sig'[p] # sig[p] =>
            Rank[sig'[p]] = Rank[sig[p]] + 1
    <3>1. CASE StopInt(q)
      BY <2>1, <3>1, DeliveredFact, RankVal DEF StopInt, Delivered, EarlySig
    <3>2. CASE StopWait(q)
      BY <2>1, <3>2, DeliveredFact, RankVal, ExpectedVal DEF StopWait, StopReturn, LiveSig
    <3>3. CASE StopKill(q)
      BY <2>1, <3>3, DeliveredFact, RankVal, ExpectedVal DEF StopKill, StopReturn, LiveSig
    <3>4. QED  BY <2>3, <3>1, <3>2, <3>3 DEF StopStep, StopPoll, StopBlock, StopReturn
  <2>4. ASSUME NEW q \in Procs, JoinStep(q) PROVE sig'[p] # sig[p] =>
            Rank[sig'[p]] = Rank[sig[p]] + 1
    <3>1. ASSUME NEW s \in {"INT", "TERM", "KILL"}, ReapSend(q, s), sig'[p] # sig[p]
          PROVE  Rank[sig'[p]] = Rank[sig[p]] + 1
      <4>1. p = q /\ child[p] = "running" /\ sig'[p] = Delivered(p, s) /\ op[p] = ReapOp[s].now
        BY <2>1, <3>1 DEF ReapSend, Delivered
      <4>2. s = "INT" => sig[p] = "none" /\ sig'[p] = "INT"
        BY <2>1, <3>1, <4>1, ReapOpVal, ExpectedVal DEF LiveSig, Delivered
      <4>3. s = "TERM" => sig[p] = "INT" /\ sig'[p] = "TERM"
        BY <2>1, <4>1, ReapOpVal, ExpectedVal, DeliveredFact DEF LiveSig
      <4>4. s = "KILL" => sig[p] = "TERM" /\ sig'[p] = "KILL"
        BY <2>1, <4>1, ReapOpVal, ExpectedVal, DeliveredFact DEF LiveSig
      <4>5. QED  BY <4>2, <4>3, <4>4, RankVal
    <3>2. QED  BY <2>4, <3>1 DEF JoinStep, JoinWait, ReapWait, ReapLast
  <2>5. ASSUME NEW q \in Procs, Spawn(q) PROVE FALSE
    BY <2>1, <2>5 DEF Spawn
  <2>6. ASSUME NEW q \in Procs, ChildStep(q) PROVE FALSE
    BY <2>1, <2>6 DEF ChildStep, ExitSelf, ExitOnInt, ExitOnTerm, ExitOnKill, Exit
  <2>7. QED  BY <2>1, <2>2, <2>3, <2>4, <2>5, <2>6 DEF ProcNext
<1>2. QED  BY <1>1, ProcInvariant, PTL DEF ProcSpec, EscalationOrder
=============================================================================
