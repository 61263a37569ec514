-------------------------- MODULE SessionPromise --------------------------
(***************************************************************************)
(* What a profiling session promises the machine it runs on: it takes hold *)
(* of things (the target's freeze, the target it started, each collector   *)
(* and the counters it occupies) only while it is opening, and has given   *)
(* every one of them back when it is over, unless it was interrupted       *)
(* outside the region it protects (`lost`).                                *)
(***************************************************************************)
CONSTANT Resources

VARIABLES phase,    \* "opening", "closing" or "over"
          held,     \* what the session holds and has not given back
          lost      \* an interrupt came outside the protected region

promiseVars == <<phase, held, lost>>

Init == phase = "opening" /\ held = {} /\ lost = FALSE

Take(r) ==
  /\ phase = "opening" /\ r \notin held
  /\ held' = held \cup {r}
  /\ UNCHANGED <<phase, lost>>

\* A thing is given back, or goes by itself, at any time.
Give(r) ==
  /\ r \in held
  /\ held' = held \ {r}
  /\ UNCHANGED <<phase, lost>>

Close ==
  /\ phase = "opening" /\ phase' = "closing"
  /\ lost' \in {lost, TRUE}
  /\ UNCHANGED held

\* The last thing may go with the step that ends the session.
End ==
  /\ phase # "over" /\ phase' = "over"
  /\ lost' \in {lost, TRUE}
  /\ held' \subseteq held
  /\ lost' \/ held' = {}

Next == (\E r \in Resources : Take(r) \/ Give(r)) \/ Close \/ End

Spec == Init /\ [][Next]_promiseVars

\* The promise as an invariant of the abstract session.
NothingKept == phase = "over" /\ ~lost => held = {}
=============================================================================
