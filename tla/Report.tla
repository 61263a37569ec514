-------------------------------- MODULE Report --------------------------------
(***************************************************************************)
(* From script.txt to the report: parse_perf_script (vperf/parsers.py)     *)
(* reads the dump a line at a time, _analyze (vperf/cli.py) hands what it  *)
(* read to build_profile and build_html (Profile), and the page draws a    *)
(* flame graph of it (Flame).                                              *)
(*                                                                         *)
(* A sample is known by its place: the n-th is taken at time n, with the   *)
(* n-th of the periods.                                                    *)
(***************************************************************************)
EXTENDS Profile, Flame

CONSTANTS Headers,   \* bound: the header lines a dump may have, [tid, comm, event]
          Stacked,   \* bound: its frame lines, [sym, domain]
          MaxLines,  \* bound: its length
          Period     \* the cycles of its first sample, its second ...

\* What a sample may be.
NoStack == [sym |-> Unknown, domain |-> "unknown"]
Samples == [tid    : {h.tid : h \in Headers}, comm : {h.comm : h \in Headers},
            event  : {h.event : h \in Headers}, time : Nat, period : Nat \ {0},
            frames : Seq(Stacked \cup {NoStack})]

ASSUME ReportConstants == /\ MaxLines \in Nat /\ Period \in [1..MaxLines -> Nat \ {0}]
                          /\ Nothing \notin Samples

VARIABLES
  dump,     \* history: the lines read
  cur,      \* cur: the sample the next frames belong to
  drop,     \* drop: its event is one to skip
  samples,
  eof       \* the dump has ended

reportVars == <<dump, cur, drop, samples, eof>>

Header(h) == [kind |-> "header", tid |-> h.tid, comm |-> h.comm, event |-> h.event]
Frame(f)  == [kind |-> "frame", sym |-> f.sym, domain |-> f.domain]
Hex       == [kind |-> "hex"]        \* an address and nothing else
Ids(h)    == h.tid                   \* _split_ids
Heads(d)  == {i \in DOMAIN d : d[i].kind = "header"}

ReportInit == dump = <<>> /\ cur = Nothing /\ drop = FALSE /\ samples = <<>> /\ eof = FALSE

\* Mutant of Commit: what is to be dropped is kept.
CommitAll == samples' = IF cur # Nothing THEN Append(samples, cur) ELSE samples

\* commit()
Commit == samples' = IF cur # Nothing /\ ~drop THEN Append(samples, cur) ELSE samples

NextLine(line) == ~eof /\ Len(dump) < MaxLines /\ dump' = Append(dump, line) /\ UNCHANGED eof

\* A header ends the sample before it, and begins one unless its event is skipped.
ReadHeader(h) ==
  /\ NextLine(Header(h)) /\ Commit
  /\ LET n == Cardinality(Heads(dump)) + 1 IN
     cur' = [tid |-> Ids(h), comm |-> h.comm, event |-> h.event, time |-> n, period |-> Period[n],
             frames |-> <<>>]
  /\ drop' = (h.event = "mem")

\* A frame, once there is a sample to put it on.
ReadFrame(f) ==
  /\ dump # <<>> /\ NextLine(Frame(f))
  /\ cur' = IF cur = Nothing \/ drop THEN cur ELSE [cur EXCEPT !.frames = Append(@, f)]
  /\ UNCHANGED <<drop, samples>>

\* A bare address stands for a stack that was not unwound, and only for the whole of one.
ReadHex ==
  /\ dump # <<>> /\ NextLine(Hex)
  /\ cur' = IF cur = Nothing \/ drop \/ cur.frames # <<>> THEN cur
            ELSE [cur EXCEPT !.frames = <<NoStack>>]
  /\ UNCHANGED <<drop, samples>>

ReadEnd == ~eof /\ eof' = TRUE /\ Commit /\ cur' = Nothing /\ UNCHANGED <<dump, drop>>

ReportNext ==
  \/ \E h \in Headers : ReadHeader(h)
  \/ \E f \in Stacked : ReadFrame(f)
  \/ ReadHex \/ ReadEnd
  \/ eof /\ UNCHANGED reportVars

ReportSpec == ReportInit /\ [][ReportNext]_reportVars

\* _analyze: the records of the wait pass are not samples; the stacks are capped.
Analyzed ==
  LET kept == Only(samples, LAMBDA s : s.event # "sched")
  IN [i \in DOMAIN kept |-> [kept[i] EXCEPT !.frames = Capped(@)]]

-----------------------------------------------------------------------------
(* Properties.                                                             *)

\* The samples that should come of dump d, by the line they begin at, and how many of
\* a set of lines there are up to one.
Kept(d)    == {i \in Heads(d) : d[i].event # "mem"}
UpTo(S, i) == Cardinality({j \in S : j <= i})

\* The lines of the sample that begins at line i, and the frames among them.
Body(d, i)  == {j \in DOMAIN d : i < j /\ \A k \in Heads(d) : ~(i < k /\ k <= j)}
Stack(d, i) == {j \in Body(d, i) : d[j].kind = "frame"}
Bare(d, i)  == IF i + 1 \in Body(d, i) /\ d[i + 1].kind = "hex" THEN 1 ELSE 0

\* Whether s is that sample: of its thread, its moment and its event, with the frames
\* printed under it, in their order, and one for an address that stands first.
IsSample(d, i, s) ==
  /\ <<s.tid, s.comm, s.event>> = <<d[i].tid, d[i].comm, d[i].event>>
  /\ s.time = UpTo(Heads(d), i)
  /\ Len(s.frames) = Bare(d, i) + Cardinality(Stack(d, i))
  /\ Bare(d, i) = 1 => s.frames[1].sym = Unknown
  /\ \A j \in Stack(d, i) :
       LET f == s.frames[Bare(d, i) + UpTo(Stack(d, i), j)] IN
       f.sym = d[j].sym /\ f.domain = d[j].domain

\* The samples are those of the dump in its order, each with the frames printed under
\* it and no other's, those of the skipped events left out with all their frames.
SamplesAreTheDump ==
  eof => /\ Len(samples) = Cardinality(Kept(dump))
         /\ \A i \in Kept(dump) : IsSample(dump, i, samples[UpTo(Kept(dump), i)])

Moments == {s.time : s \in ToSet(Analyzed)}
Windows == {w \in Moments \X Moments : w[1] <= w[2]}
Tids    == {h.tid : h \in Headers}

\* The page names a function by its index.
ByName(f, syms) == [y \in {syms[i] : i \in DOMAIN f} |-> f[CHOOSE i \in DOMAIN f : syms[i] = y]]

\* What the page makes of rows is this profile: the flame graph and call tree, the
\* hotspots with their modules, the cycles of every thread.
Shows(rows, syms, profile) ==
  LET hot == Hotspots(rows) IN
  /\ FoldWindow(rows, syms) = profile.user
  /\ ByName(hot.self, syms) = profile.self /\ ByName(hot.incl, syms) = profile.incl
  /\ ByName(hot.mod, syms) = profile.dso /\ hot.total = profile.total
  /\ ByTid(rows) = profile.cycles

\* A profile of the samples of a scope and a window alone is what the page shows of
\* them, folded in the browser from rows made for the whole run.
WindowIsServer ==
  eof =>
    LET page == Payload(Analyzed) IN
    \A scope \in {Nothing} \cup ((SUBSET Tids) \ {{}}), w \in Windows :
      Shows(Within(page.rows, scope, w[1], w[2]), page.syms,
            BuildProfile(Within(Analyzed, scope, w[1], w[2])))

\* What the page folds from moment a on; and all it may.
FoldFrom(page, a) == FoldWindow(Within(page.rows, Nothing, a, MaxLines), page.syms)
Folds == LET page == Payload(Analyzed) IN {FoldFrom(page, a) : a \in Moments}

\* "Containment in x plus a deeper level is exactly `is a descendant of f'": a zoom
\* shows the subtree of its focus, in grey the path to it, and a second click leads to
\* the caller; frames of one row lie beside each other, within their caller's.
ZoomIsTheTree == eof => \A fold \in Folds : ZoomIsOfTheTree(Graph(fold))

\* A frame of the last row "only stands for the cut rows it still has frames in".
CutRowsAreItsOwn ==
  eof => \A fold \in Folds :
    LET g == Graph(fold) IN
    \A f \in Frames(g) : Len(f) = g.last =>
      Folded(g, f) = RowsBelow(g, f)
                     + Cardinality({q \in DOMAIN g.start : IsPrefix(f, q) /\ Len(q) > g.last})

\* "normalize transient comm labels (perf-exec) across folded keys/threads"
NoTransientRoot ==
  eof => LET p == BuildProfile(Analyzed) IN
    \A t \in DOMAIN p.comm : p.comm[t] \notin Transient =>
      \A i \in DOMAIN Analyzed : Analyzed[i].tid = t /\ p.chains[i] # Nothing => p.chains[i][1] = p.comm[t]
=============================================================================
