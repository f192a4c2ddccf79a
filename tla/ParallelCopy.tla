--------------------------- MODULE ParallelCopy ----------------------------
(***************************************************************************)
(* Sequentialization of a parallel copy, _seq_parallel_copies of           *)
(* sonolus/backend/_opt/midend.pyx.  When SSA form is left, the phis at    *)
(* the head of a block become one simultaneous assignment                  *)
(*                                                                         *)
(*      d1, d2, ... := s1, s2, ...                                         *)
(*                                                                         *)
(* which has to be emitted as a list of single moves.  A move may destroy  *)
(* a value that a later move still reads; loc remembers where the initial  *)
(* value of each source is by now, and a cycle (a swap) is broken with a   *)
(* fresh temporary.  The moves are executed on mem as they are emitted.    *)
(*                                                                         *)
(* The code keeps to_do and ready in lists and takes their last elements;  *)
(* here any element may be taken, so what is shown does not depend on the  *)
(* order of the phis.                                                      *)
(***************************************************************************)
EXTENDS Naturals, FiniteSets

CONSTANTS
  Temps,   \* temporaries of the program: destinations, and sources
  Leaves,  \* constants and the undefined value: sources only
  Fresh    \* temporaries make_fresh can return

ASSUME DisjointAssumption ==
  Temps \cap Leaves = {} /\ Temps \cap Fresh = {} /\ Leaves \cap Fresh = {}

ASSUME FiniteAssumption == IsFiniteSet(Temps)

Cells == Temps \cup Fresh
Keys == Temps \cup Leaves

\* A parallel copy: a source for each of some distinct destinations.
Requests == UNION {[D -> Keys] : D \in SUBSET Temps}

VARIABLES
  request,  \* the parallel copy
  pred,     \* destination -> source, for the moves still to be made
  loc,      \* source -> where its initial value can be read
  toDo,     \* destinations not looked at yet
  ready,    \* destinations that may be overwritten
  used,     \* fresh temporaries taken so far
  mem       \* contents of the cells, as initial values

vars == <<request, pred, loc, toDo, ready, used, mem>>

\* The destinations whose source is another cell, and their sources.
Moves(r) == {d \in DOMAIN r : r[d] # d}
Sources(r) == {r[d] : d \in Moves(r)}

Pending == DOMAIN pred
Read(c) == IF c \in Leaves THEN c ELSE mem[c]
Without(f, d) == [x \in DOMAIN f \ {d} |-> f[x]]

\* Mutant: copies of a temporary to itself are not dropped.
MutantKeepsSelfCopies ==
  /\ request \in Requests
  /\ pred = request
  /\ loc = [s \in Sources(request) |-> s]
  /\ toDo = Moves(request)
  /\ ready = Moves(request) \ Sources(request)
  /\ used = {}
  /\ mem = [c \in Cells |-> c]

Init ==
  /\ request \in Requests
  /\ pred = [d \in Moves(request) |-> request[d]]
  /\ loc = [s \in Sources(request) |-> s]
  /\ toDo = Moves(request)
  /\ ready = Moves(request) \ Sources(request)
  /\ used = {}
  /\ mem = [c \in Cells |-> c]

-----------------------------------------------------------------------------

\* Mutant: the source is read from its original place.
MutantReadsOrigin(d) ==
  /\ toDo # {} /\ d \in ready
  /\ IF d \notin Pending
     THEN ready' = ready \ {d} /\ UNCHANGED <<pred, loc, mem>>
     ELSE LET s == pred[d] IN
            /\ mem' = [mem EXCEPT ![d] = Read(s)]
            /\ loc' = [loc EXCEPT ![s] = d]
            /\ pred' = Without(pred, d)
            /\ ready' = (ready \ {d}) \cup (IF s = loc[s] /\ s \in DOMAIN pred' THEN {s} ELSE {})
  /\ UNCHANGED <<request, toDo, used>>

\* The inner loop: make the move into a destination that may be overwritten.
\* The first copy taken of a source frees the source itself.
TakeReady(d) ==
  /\ toDo # {} /\ d \in ready
  /\ IF d \notin Pending
     THEN ready' = ready \ {d} /\ UNCHANGED <<pred, loc, mem>>
     ELSE LET s == pred[d] IN
            /\ mem' = [mem EXCEPT ![d] = Read(loc[s])]
            /\ loc' = [loc EXCEPT ![s] = d]
            /\ pred' = Without(pred, d)
            /\ ready' = (ready \ {d}) \cup (IF s = loc[s] /\ s \in DOMAIN pred' THEN {s} ELSE {})
  /\ UNCHANGED <<request, toDo, used>>

\* The outer loop: nothing is ready.  A destination whose move is still to be
\* made lies on a cycle: its value is saved and it becomes ready.
TakeToDo(d) ==
  /\ ready = {} /\ d \in toDo
  /\ toDo' = toDo \ {d}
  /\ IF d \notin Pending THEN UNCHANGED <<pred, loc, ready, used, mem>>
     ELSE IF loc[pred[d]] # d
          THEN \E n \in Fresh \ used :
                 /\ mem' = [mem EXCEPT ![n] = mem[d]]
                 /\ loc' = [c \in DOMAIN loc \cup {d} |-> IF c = d THEN n ELSE loc[c]]
                 /\ ready' = {d}
                 /\ used' = used \cup {n}
                 /\ UNCHANGED pred
          ELSE /\ pred' = Without(pred, d)
               /\ UNCHANGED <<loc, ready, used, mem>>
  /\ UNCHANGED request

Next == \E d \in Temps : TakeReady(d) \/ TakeToDo(d)

Spec == Init /\ [][Next]_vars

-----------------------------------------------------------------------------
(* Properties                                                              *)

\* Every variable has its type.
TypeOK ==
  /\ request \in Requests
  /\ Pending \subseteq Moves(request)
  /\ pred \in [Pending -> Keys]
  /\ loc \in [DOMAIN loc -> Cells \cup Leaves]
  /\ toDo \subseteq Moves(request) /\ ready \subseteq Moves(request)
  /\ used \subseteq Fresh
  /\ mem \in [Cells -> Cells \cup Leaves]

\* The while loop of the code ends as soon as to_do is empty, whatever is left
\* in ready.
Done == toDo = {}

\* The moves emitted are together the parallel copy: every destination has the
\* initial value of its source, however the copies overlap, fan out or form
\* cycles.
ParallelSemantics == Done => \A d \in DOMAIN request : mem[d] = request[d]

\* No other temporary of the program has been touched.
NothingElseMoves == \A t \in Temps \ Moves(request) : mem[t] = t

\* The loop never ends with a saved destination still waiting in ready: another
\* destination of the same cycle is always behind it in to_do.
NothingLeftBehind == Done => Pending = {}

\* The initial value of a source is not lost while a move still needs it.
ValuesSurvive == \A d \in Pending : Read(loc[pred[d]]) = pred[d]

\* What is read, directly or not, to compute the destination d: the cells that
\* n moves lead back to, and all of them.
ReachedBack(r, d) ==
  LET reach[n \in 0 .. Cardinality(Temps)] ==
        IF n = 0 THEN {d}
        ELSE reach[n - 1] \cup {r[e] : e \in reach[n - 1] \cap Moves(r)}
  IN  reach
Behind(r, d) == ReachedBack(r, d)[Cardinality(Temps)]

\* Destinations on a cycle none of whose values is copied out of it.
OnPureCycle(r) ==
  {e \in Moves(r) : \A c \in Behind(r, e) :
     c \in Moves(r) /\ Cardinality({x \in Moves(r) : r[x] = c}) = 1}
PureCycles(r) == {Behind(r, d) : d \in OnPureCycle(r)}

\* Temporaries are not wasted: one is taken for each cycle none of whose values
\* is copied out of the cycle, and none otherwise.
FreshForPureCyclesOnly ==
  /\ Done => Cardinality(used) = Cardinality(PureCycles(request))
  /\ Cardinality(used) <= Cardinality(PureCycles(request))
=============================================================================
