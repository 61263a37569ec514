-------------------------------- MODULE Profile --------------------------------
(***************************************************************************)
(* What the report makes of the samples.  vperf/stacks.py: build_profile,  *)
(* the numbers the server renders.  vperf/report_html.py: _sample_payload, *)
(* the rows it ships, and the script (_JS) that folds them again for the   *)
(* threads and the window the reader picks.                                *)
(*                                                                         *)
(* A frame is a symbol and where it lies - user, kernel, inline, unknown - *)
(* which is _frame_domain of its dso.  The process is one.                 *)
(***************************************************************************)
EXTENDS Integers, Sequences, FiniteSets, SequencesExt, FiniteSetsExt, Functions

CONSTANTS MaxFrames,   \* MAX_STACK_FRAMES
          Nothing,     \* Python's None, JavaScript's null
          Transient    \* _TRANSIENT_COMM, and what else starts with "perf-"

ASSUME ProfileConstants == MaxFrames \in Nat \ {0} /\ Nothing \notin Seq(Nat)

Unknown  == "[unknown]"
Boundary == "[kernel boundary]"    \* _KERNEL_BOUNDARY

\* f[k] += w on a defaultdict(int), or (f[k]||0)+w.
Empty          == [x \in {} |-> 0]
At(f, k)       == IF k \in DOMAIN f THEN f[k] ELSE 0
Put(f, k, v)   == [x \in DOMAIN f \cup {k} |-> IF x = k THEN v ELSE f[x]]
Added(f, k, w) == Put(f, k, At(f, k) + w)
EachOnce(f, S, w) == FoldSet(LAMBDA x, g : Added(g, x, w), f, S)

\* SelectSeq, as the fold it is.
Only(q, Test(_)) == FoldLeft(LAMBDA kept, x : IF Test(x) THEN Append(kept, x) ELSE kept, <<>>, q)

-----------------------------------------------------------------------------
(* build_profile.                                                          *)

\* cap_stacks: the callers' end goes.
Capped(frames) == SubSeq(frames, 1, Min({MaxFrames, Len(frames)}))

Symbols(frames) == [i \in DOMAIN frames |-> frames[i].sym]

\* Caller to leaf.
Callers(s) == IF s.frames = <<>> THEN <<Unknown>> ELSE Reverse(Symbols(Capped(s.frames)))
LeafDso(s) == IF s.frames = <<>> THEN Unknown ELSE s.frames[1].domain

\* _user_stack_frames: inlined frames belong to the user frame that follows them, and
\* to the stack's last when that is one.
OneMore(u, f) ==
  CASE f.domain = "inline" -> [u EXCEPT !.pending = Append(@, f.sym)]
    [] f.domain = "kernel" -> [u EXCEPT !.kernel = TRUE, !.pending = <<>>, !.last = f.domain]
    [] f.domain = "user"   -> [u EXCEPT !.syms = @ \o u.pending \o <<f.sym>>,
                                        !.pending = <<>>, !.last = f.domain]
    [] OTHER               -> [u EXCEPT !.pending = <<>>, !.last = f.domain]
NoFrames == [syms |-> <<>>, pending |-> <<>>, kernel |-> FALSE, last |-> Unknown]
UserFrames(frames) ==
  LET End(u) == [u EXCEPT !.syms = IF u.last = "user" THEN @ \o u.pending ELSE @]
  IN End(FoldLeft(OneMore, NoFrames, frames))

\* user_callers, or None where nothing of the stack can be told to be user's.
UserChain(s) ==
  LET Chain(u) == IF u.syms = <<>> /\ ~u.kernel THEN Nothing
                  ELSE Reverse(u.syms) \o (IF u.kernel THEN <<Boundary>> ELSE <<>>)
  IN Chain(UserFrames(Capped(s.frames)))

\* Mutant of Keep: a sample without a user chain takes no slot.
KeepClassified(chains, chain) == IF chain = Nothing THEN chains ELSE Append(chains, chain)

\* user_chains, in step with the samples.
Keep(chains, chain) == Append(chains, chain)

\* One round of the loop: the thread and the name it goes by, self time and module of
\* the leaf, inclusive time once per function, the user-space fold, and the chain kept
\* for the browser.
Account(p, s, callers, chain) ==
  [total  |-> p.total + s.period,
   comm   |-> IF s.tid \in DOMAIN p.comm /\ s.comm \in Transient THEN p.comm ELSE Put(p.comm, s.tid, s.comm),
   cycles |-> Added(p.cycles, s.tid, s.period),
   self   |-> Added(p.self, Last(callers), s.period),
   dso    |-> IF Last(callers) \in DOMAIN p.dso THEN p.dso ELSE Put(p.dso, Last(callers), LeafDso(s)),
   incl   |-> EachOnce(p.incl, ToSet(callers), s.period),
   user   |-> IF chain = Nothing THEN p.user ELSE Added(p.user, chain, s.period),
   chains |-> Keep(p.chains, chain)]

\* folded_user_key: the root's label, then the chain.
Labelled(s, chain) == IF chain = Nothing THEN Nothing ELSE <<s.comm>> \o chain

Round(p, s) == Account(p, s, Callers(s), Labelled(s, UserChain(s)))

Blank == [total |-> 0, comm |-> Empty, cycles |-> Empty, self |-> Empty, dso |-> Empty,
          incl |-> Empty, user |-> Empty, chains |-> <<>>]

\* real_comm: the last name of a thread that is not a transient one.
RealComm(p, samples) ==
  LET Named(t) == {i \in DOMAIN samples : samples[i].tid = t /\ samples[i].comm \notin Transient}
  IN [t \in DOMAIN p.comm |-> IF Named(t) = {} THEN p.comm[t] ELSE samples[Max(Named(t))].comm]

\* renames: what a thread went by and goes by now, the thread seen last having the say.
Renames(p, real, samples) ==
  LET First(t)   == Min({i \in DOMAIN samples : samples[i].tid = t})
      Under(old) == {t \in DOMAIN real : p.comm[t] = old /\ real[t] # old}
  IN [old \in {p.comm[t] : t \in {t \in DOMAIN real : real[t] # p.comm[t]}} |->
        real[CHOOSE t \in Under(old) : \A u \in Under(old) : First(u) <= First(t)]]

\* _rename_folded_roots
Renamed(chain, new) ==
  IF chain # Nothing /\ chain[1] \in DOMAIN new THEN <<new[chain[1]]>> \o Tail(chain) ELSE chain
RenamedFold(fold, new) ==
  [k \in {Renamed(c, new) : c \in DOMAIN fold} |->
     SumFunctionOnSet(fold, {c \in DOMAIN fold : Renamed(c, new) = k})]

BuildProfile(samples) ==
  LET Normalized(p, real, new) ==
        [p EXCEPT !.comm   = real,
                  !.user   = RenamedFold(@, new),
                  !.chains = [i \in DOMAIN @ |-> Renamed(@[i], new)]]
      Named(p, real) == Normalized(p, real, Renames(p, real, samples))
      Made(p)        == Named(p, RealComm(p, samples))
  IN Made(FoldLeft(Round, Blank, samples))

-----------------------------------------------------------------------------
(* The rows of the page, and the folds over them.                          *)

\* _Interner: the symbols travel as indexes.
Interned(samples, p) ==
  SetToSeq((UNION {ToSet(Callers(samples[i])) : i \in DOMAIN samples})
           \cup (UNION {ToSet(p.chains[i]) : i \in {i \in DOMAIN p.chains : p.chains[i] # Nothing}}))

\* A row: its thread, moment and weight, the stack and the user-space chain as indexes.
Row(s, chain, at) ==
  LET Index(q) == [i \in DOMAIN q |-> at[q[i]]] IN
  [tid |-> s.tid, time |-> s.time, period |-> s.period, stack |-> Index(Callers(s)),
   dso |-> LeafDso(s), root |-> IF chain = Nothing THEN s.comm ELSE chain[1],
   user |-> IF chain = Nothing THEN Nothing ELSE Index(Tail(chain))]

\* _sample_payload: S of the page.
Payload(samples) ==
  LET Page(p, syms, at) ==
        [syms |-> syms,
         rows |-> [i \in DOMAIN samples |->
                     Row(samples[i], IF i \in DOMAIN p.chains THEN p.chains[i] ELSE Nothing, at)]]
      Of(p, syms) == Page(p, syms, [x \in ToSet(syms) |-> CHOOSE i \in DOMAIN syms : syms[i] = x])
      Shipped(p)  == Of(p, Interned(samples, p))
  IN Shipped(BuildProfile(samples))

\* scopeRows and windowRows: a scope is every thread (null) or a set of them.
InScope(r, scope)        == scope = Nothing \/ r.tid \in scope
InWindow(r, scope, a, b) == InScope(r, scope) /\ a <= r.time /\ r.time <= b
Within(q, scope, a, b)   == Only(q, LAMBDA r : InWindow(r, scope, a, b))

\* sampleKey: the root's label, then the user-space frames.
SampleKey(r, syms) == <<r.root>> \o [i \in DOMAIN r.user |-> syms[r.user[i]]]

\* foldWindow
FoldWindow(rows, syms) ==
  FoldLeft(LAMBDA fold, r : IF r.user = Nothing THEN fold ELSE Added(fold, SampleKey(r, syms), r.period),
           Empty, rows)

\* renderHotspots; sampleUniq counts a function once per sample.
HotRow(h, r) ==
  [total |-> h.total + r.period, self |-> Added(h.self, Last(r.stack), r.period),
   mod   |-> IF Last(r.stack) \in DOMAIN h.mod THEN h.mod ELSE Put(h.mod, Last(r.stack), r.dso),
   incl  |-> EachOnce(h.incl, ToSet(r.stack), r.period)]
NoHot == [total |-> 0, self |-> Empty, mod |-> Empty, incl |-> Empty]
Hotspots(rows) == FoldLeft(HotRow, NoHot, rows)

\* renderThreads: byTid.
ByTid(rows) == FoldLeft(LAMBDA c, r : Added(c, r.tid, r.period), Empty, rows)
=============================================================================
