---------------------------- MODULE Allocation -----------------------------
(***************************************************************************)
(* Allocation of temporaries: compute_liveness of                          *)
(* sonolus/backend/_opt/analysis.pyx; and _coalesce, _pack,                *)
(* _dead_store_elim and _rewrite_places of sonolus/backend/_opt/lower.pyx, *)
(* as lower_from_ssa and allocate_func run them.  The placement itself is  *)
(* module Packing, which this one extends.  Of coalescing this module has  *)
(* what interferes and which copies there are; the merging is module       *)
(* Coalesce, of which only what is proved there is used: that no two       *)
(* temporaries of a web interfere, and that webs a copy relates are merged *)
(* unless they do.                                                         *)
(*                                                                         *)
(* Liveness is found by two worklists, one block a step: forward, which    *)
(* arrays may have been written; then backward, which temporaries are      *)
(* live.  Temporaries live together after a store interfere.  Afterwards   *)
(* the program is run twice in step, on temporaries and on the slots they  *)
(* were given, with the stores that are dead left out.                     *)
(*                                                                         *)
(* Values are reduced to what matters here: "new" is computed from nothing *)
(* that is stored, "get" reads a place, "call" has an effect, may read a   *)
(* place and returns something.  The test of a block is a last call.       *)
(***************************************************************************)
EXTENDS Packing, SequencesExt

CONSTANTS
  N,         \* number of blocks
  Setups,    \* strategies and sizes: records [mode, size, merge], merge for
             \* code that is coalesced first
  Codes,     \* what a block may do: sequences of statements
  Flows,     \* control flow graphs: the successors of each block, in edge order
  MaxSteps   \* bound on the blocks executed

Blocks == 1..N
None == -1

\* A place is [temp, at, by]: the slot at of temp, or the one by points at; no
\* temporary if temp = None.
Places == [temp : Temps \cup {None}, at : Nat, by : Temps \cup {None}]
Statements == [to : Places, op : {"new", "get", "call"}, from : Places]

\* A code fits the sizes if it uses no temporary without slots and computes
\* indices in scalars.
Fitting(cs, sz) ==
  \A i \in DOMAIN cs : \A p \in {cs[i].to, cs[i].from} :
    (p.temp # None => sz[p.temp] > 0) /\ (p.by # None => sz[p.by] = 1)

ASSUME BlocksAssumption == N \in Nat \ {0} /\ MaxSteps \in Nat
ASSUME FlowsAssumption == Flows \subseteq [Blocks -> Seq(Blocks)]
ASSUME SetupsAssumption == Setups \subseteq [mode : Strategies, size : Sizes, merge : BOOLEAN]
ASSUME CodesAssumption ==
  Codes \subseteq Seq(Statements) /\ \A cs \in Codes : \A s \in Setups : Fitting(cs, s.size)

VARIABLES
  given,                          \* the statements of each block as they came
  succs, code,                    \* the program
  phase,                          \* what is being done
  merge,                          \* the temporaries are still to be coalesced
  stack,                          \* worklist of the pass, its top last
  visited,                        \* blocks the pass has reached
  defsIn, defsOut,                \* arrays that may be written: before a block, after it
  init,                           \* stores before which no element can be written
  liveIn, liveOut,                \* live temporaries: before a block, after it
  rootLive,                       \* live temporaries after each statement
  run                             \* the two executions

analysis == <<stack, visited, defsIn, defsOut, init, liveIn, liveOut, rootLive>>
placement == vars
allocation == <<given, succs, code, phase, merge, analysis, placement, run>>

Roots == UNION {{b} \X DOMAIN code[b] : b \in Blocks}
IsArray(t) == size[t] > 1
Preds(b) == {u \in Blocks : b \in ToSet(succs[u])}

-----------------------------------------------------------------------------
(* Uses and definitions of a statement.                                    *)

IndexUse(p) == {p.by} \ {None}

\* The temporaries the value of a statement reads.
Uses(s) == ({s.from.temp} \ {None}) \cup IndexUse(s.from)

Stores(s) == s.to.temp # None
HasEffect(s) == s.op = "call"

\* Arrays that are written somewhere.
Written == {t \in Temps : IsArray(t) /\ \E b \in Blocks : \E s \in ToSet(code[b]) : s.to.temp = t}

\* Arrays may be written after the first i statements of b.
DefsAfter(b, i, acc) == acc \cup {t \in Temps : IsArray(t) /\ \E k \in 1..i : code[b][k].to.temp = t}

\* The stores of b to an array that no path has written before.
FirstWrites(b, acc) ==
  {i \in DOMAIN code[b] : /\ Stores(code[b][i]) /\ IsArray(code[b][i].to.temp)
                          /\ code[b][i].to.temp \notin DefsAfter(b, i - 1, acc)}

\* A store of a pure value to a temporary that is not live is passed over.
Skipped(s, live) == Stores(s) /\ ~ HasEffect(s) /\ s.to.temp \notin live

Killed(b, i) ==
  LET t == code[b][i].to.temp IN
  IF t # None /\ (~ IsArray(t) \/ <<b, i>> \in init) THEN {t} ELSE {}

\* Live before statement i of b, given what is live after it.
LiveBefore(b, i, live) ==
  LET s == code[b][i] IN
  IF Skipped(s, live) THEN live ELSE (live \ Killed(b, i)) \cup IndexUse(s.to) \cup Uses(s)

\* What is live at the end of b: an array that is written, but on no path
\* to this point, is not.
LiveAtEnd(b, out) == out \ (Written \ defsOut[b])

\* Live after statement i of b; after statement 0, at the start of b.
LiveAfters(b, out) ==
  LET live[i \in 0..Len(code[b])] ==
        IF i = Len(code[b]) THEN LiveAtEnd(b, out)
        ELSE LiveBefore(b, i + 1, live[i + 1])
  IN  live
LiveAtStart(b, out) == LiveAfters(b, out)[0]

-----------------------------------------------------------------------------
Place(t, k) == [temp |-> t, at |-> k, by |-> None]
NoPlace == Place(None, 0)

\* A written array holds anything before its elements are written; all else
\* reads as the padding of the block.
Undefined == -1
Padding == 0
Idle == [block |-> None, steps |-> 0, source |-> <<>>, memory |-> <<>>, same |-> TRUE]

\* Nothing is known of any block.
Blank == [b \in Blocks |-> {}]

AllocInit ==
  /\ succs \in Flows /\ code \in [Blocks -> Codes] /\ given = code
  /\ \E s \in Setups : mode = s.mode /\ size = s.size /\ merge = s.merge
  /\ phase = IF merge THEN "begin" ELSE "decide"
  /\ stack = <<>> /\ visited = {} /\ init = {}
  /\ defsIn = Blank /\ defsOut = Blank /\ liveIn = Blank /\ liveOut = Blank
  /\ rootLive = [r \in Roots |-> {}]
  /\ adj = [t \in Temps |-> {}] /\ todo = Sized /\ index = 0
  /\ offset = [t \in Temps |-> Unallocated] /\ exceeded = FALSE
  /\ run = Idle

HasExit == \E b \in Blocks : succs[b] = <<>>

\* Liveness is computed, unless the program cannot end: that is refused.
Analyze ==
  \/ HasExit /\ phase' = "forward" /\ stack' = <<1>>
  \/ ~ HasExit /\ phase' = "rejected" /\ UNCHANGED stack

\* Coalescing needs liveness.
Begin ==
  /\ phase = "begin" /\ Analyze
  /\ UNCHANGED <<given, merge, succs, code, visited, defsIn, defsOut, init, liveIn, liveOut, rootLive,
                 placement, run>>

\* The strategy is settled; packing needs liveness.
Decide ==
  /\ phase = "decide"
  /\ \/ mode = "try_bump" /\ TryBump /\ UNCHANGED <<phase, stack>>
     \/ mode = "bump" /\ phase' = "place" /\ UNCHANGED <<stack, placement>>
     \/ mode = "packing" /\ Analyze /\ UNCHANGED placement
  /\ UNCHANGED <<given, merge, succs, code, visited, defsIn, defsOut, init, liveIn, liveOut, rootLive, run>>

\* Mutant: a block may be on the worklist several times.
MutantPushed(st, bs, changed) == st \o SelectSeq(bs, LAMBDA b : b \in changed)

\* Of the blocks bs those that are changed go on the worklist, unless they are
\* there already.
Pushed(st, bs, changed) ==
  LET push[i \in 0..Len(bs)] ==
        IF i = 0 THEN st
        ELSE LET before == push[i - 1]
             IN  IF bs[i] \in changed \ ToSet(before) THEN Append(before, bs[i]) ELSE before
  IN  push[Len(bs)]

\* The top of the worklist gets its arrays; its successors follow if they
\* have changed.
ForwardVisit ==
  /\ phase = "forward" /\ stack # <<>>
  /\ LET b == Last(stack)
         acc == DefsAfter(b, Len(code[b]), defsIn[b])
     IN  /\ init' = {r \in init : r[1] # b} \cup ({b} \X FirstWrites(b, defsIn[b]))
         /\ \/ /\ b \notin visited \/ acc # defsOut[b]
               /\ visited' = visited \cup {b}
               /\ defsOut' = [defsOut EXCEPT ![b] = acc]
               /\ defsIn' = [s \in Blocks |-> IF s \in ToSet(succs[b]) THEN defsIn[s] \cup acc ELSE defsIn[s]]
               /\ stack' = Pushed(Front(stack), succs[b], Blocks)
            \/ /\ b \in visited /\ acc = defsOut[b]
               /\ stack' = Front(stack)
               /\ UNCHANGED <<visited, defsIn, defsOut>>
  /\ UNCHANGED <<given, merge, succs, code, phase, liveIn, liveOut, rootLive, placement, run>>

\* Mutant: only the blocks that end the program are looked at first.
MutantForwardDone ==
  /\ phase = "forward" /\ stack = <<>>
  /\ phase' = "backward"
  /\ visited' = {}
  /\ stack' = SetToSeq({b \in Blocks : succs[b] = <<>>})
  /\ UNCHANGED <<given, merge, succs, code, defsIn, defsOut, init, liveIn, liveOut, rootLive, placement, run>>

\* The backward pass looks at every block at least once.
ForwardDone ==
  /\ phase = "forward" /\ stack = <<>>
  /\ phase' = "backward"
  /\ visited' = {}
  /\ stack' = [b \in Blocks |-> b]
  /\ UNCHANGED <<given, merge, succs, code, defsIn, defsOut, init, liveIn, liveOut, rootLive, placement, run>>

\* Mutant: predecessors are looked at again whether they changed or not.
MutantGrown(b, live) == Preds(b)

\* The predecessors of b that have to be looked at again.
Grown(b, live) == {u \in Preds(b) : u \notin visited \/ ~ (live \subseteq liveOut[u])}

\* The top of the worklist gets its live temporaries; predecessors follow.
BackwardVisit ==
  /\ phase = "backward" /\ stack # <<>>
  /\ LET b == Last(stack)
         lives == LiveAfters(b, liveOut[b])
         live == lives[0]
     IN  /\ rootLive' = [r \in Roots |-> IF r[1] = b THEN lives[r[2]] ELSE rootLive[r]]
         /\ liveIn' = [liveIn EXCEPT ![b] = live]
         /\ liveOut' = [u \in Blocks |-> IF u \in Preds(b) THEN liveOut[u] \cup live ELSE liveOut[u]]
         /\ visited' = visited \cup Grown(b, live)
         /\ stack' = Pushed(Front(stack), [u \in Blocks |-> u], Grown(b, live))
  /\ UNCHANGED <<given, merge, succs, code, phase, defsIn, defsOut, init, placement, run>>

\* Temporaries live together after a store must not overlap.
Interferes(t, u) == \E r \in Roots : Stores(code[r[1]][r[2]]) /\ {t, u} \subseteq rootLive[r]

\* Mutant: a store whose target is not live interferes with nothing.
MutantHeldAt(b, i) == rootLive[<<b, i>>]

\* The scalars that a store must not share a slot with, and its target: those
\* live after it; if the target itself is not, those live after the block too.
HeldAt(b, i) ==
  LET t == code[b][i].to.temp
      live == rootLive[<<b, i>>] \cup {t}
  IN  IF ~ IsArray(t) /\ t \notin rootLive[<<b, i>>] THEN live \cup liveOut[b] ELSE live

Scalars == {t \in Temps : size[t] = 1}

\* The scalars t interferes with when temporaries are coalesced.
Clashes(t) ==
  {u \in Scalars \ {t} : \E r \in Roots :
     Stores(code[r[1]][r[2]]) /\ {t, u} \subseteq HeldAt(r[1], r[2])}

IsCopy(s) == s.op = "get" /\ {s.to.temp, s.from.temp} \subseteq Scalars

\* The scalars with a copy between them whose target is live after it.
CopyPairs ==
  {{code[r[1]][r[2]].to.temp, code[r[1]][r[2]].from.temp} :
     r \in {q \in Roots : IsCopy(code[q[1]][q[2]]) /\ code[q[1]][q[2]].to.temp \in rootLive[q]}}

\* What the merging may end with, every scalar being called by the least of
\* its web: see SlotsAreSafe and NoCopyKeptInVain in module Coalesce.
Canonicals ==
  {c \in [Scalars -> Scalars] :
     LET web(t) == {u \in Scalars : c[u] = c[t]}
         closed(S, W) == \A p \in CopyPairs : p \subseteq W /\ p \cap S # {} => p \subseteq S
     IN  /\ \A t \in Scalars : /\ c[t] = Min(web(t))
                               /\ \A S \in SUBSET web(t) : t \in S /\ closed(S, web(t)) => S = web(t)
                               /\ web(t) \cap Clashes(t) = {}
         /\ \A p \in CopyPairs : \A t, u \in p :
              c[t] = c[u] \/ \E x \in web(t) : web(u) \cap Clashes(x) # {}}

\* Every place of a scalar is one of its web; copies within a web go.
Renamed(c, s) ==
  LET name(t) == IF t \in Scalars THEN c[t] ELSE t
      place(p) == [p EXCEPT !.temp = name(@), !.by = name(@)]
      t == [s EXCEPT !.to = place(@), !.from = place(@)]
  IN  IF IsCopy(s) /\ t.to.temp = t.from.temp THEN [to |-> NoPlace, op |-> "get", from |-> NoPlace] ELSE t

Merge ==
  /\ phase = "backward" /\ stack = <<>> /\ merge
  /\ phase' = "decide" /\ merge' = FALSE
  /\ \E c \in Canonicals : code' = [b \in Blocks |-> [i \in DOMAIN code[b] |-> Renamed(c, code[b][i])]]
  /\ stack' = <<>> /\ visited' = {} /\ init' = {}
  /\ defsIn' = Blank /\ defsOut' = Blank /\ liveIn' = Blank /\ liveOut' = Blank
  /\ rootLive' = [r \in Roots |-> {}]
  /\ UNCHANGED <<given, succs, placement, run>>

BackwardDone ==
  /\ phase = "backward" /\ stack = <<>> /\ ~ merge
  /\ phase' = "place"
  /\ adj' = [t \in Temps |-> {u \in Sized \ {t} : t \in Sized /\ Interferes(t, u)}]
  /\ UNCHANGED <<given, merge, succs, code, analysis, size, mode, todo, index, offset, exceeded, run>>

PlaceTemp ==
  /\ phase = "place"
  /\ \E t \in todo : Bump(t) \/ Pack(t)
  /\ UNCHANGED <<given, merge, succs, code, phase, analysis, run>>

-----------------------------------------------------------------------------
(* Dead stores.  Bump keeps every store.                                   *)

\* A store is dead if its target is not live after it, or it copies a place
\* to itself; two places with the same computed index are not recognized.
Dead(b, i) ==
  LET s == code[b][i] IN
  /\ mode = "packing" /\ Stores(s)
  /\ \/ s.to.temp \notin rootLive[<<b, i>>]
     \/ s.op = "get" /\ s.from = s.to /\ s.to.by = None

\* The effect of a dead store's value stays, as a statement of its own.
KeepsEffect(b, i) == HasEffect(code[b][i])

Cells(t) == 0..(size[t] - 1)

\* The program starts, on the temporaries and on the slots given to them.
Enter ==
  /\ phase = "place" /\ todo = {} /\ ~ exceeded
  /\ phase' = "run"
  /\ run' = [Idle EXCEPT !.block = 1,
               !.source = [t \in Temps |-> [k \in Cells(t) |-> IF t \in Written THEN Undefined ELSE Padding]],
               !.memory = [p \in 0..(TempSize - 1) |-> Padding]]
  /\ UNCHANGED <<given, merge, succs, code, analysis, placement>>

\* The cell of a place, given the value of its index.
CellOf(p, v) == (p.at + (IF p.by = None THEN 0 ELSE v)) % size[p.temp]
SourceCell(r, p) == CellOf(p, IF p.by = None THEN 0 ELSE r.source[p.by][0])
MemorySlot(r, p) == offset[p.temp] + CellOf(p, IF p.by = None THEN 0 ELSE r.memory[offset[p.by]])
SourceRead(r, p) == IF p.temp = None THEN Padding ELSE r.source[p.temp][SourceCell(r, p)]
MemoryRead(r, p) == IF p.temp = None THEN Padding ELSE r.memory[MemorySlot(r, p)]

\* An index that was never defined points anywhere: nothing is asked of a
\* program that uses one.
Defined(r, s) == \A p \in {s.from, s.to} : p.by # None => r.source[p.by][0] # Undefined

Fresh(r, i) == MaxSteps * i + r.steps + 1

\* Statement i of block b, as it came and as it is now.
RunStatement(r, b, i) ==
  LET g == given[b][i]
      s == code[b][i]
      result(read) == IF g.op = "get" THEN read ELSE Fresh(r, i)
  IN  [r EXCEPT
        !.source = IF Stores(g) THEN [@ EXCEPT ![g.to.temp][SourceCell(r, g.to)] = result(SourceRead(r, g.from))]
                   ELSE @,
        !.memory = IF Stores(s) /\ ~ Dead(b, i)
                   THEN [@ EXCEPT ![MemorySlot(r, s.to)] = result(MemoryRead(r, s.from))] ELSE @,
        !.same = @ /\ (HasEffect(g) => /\ SourceRead(r, g.from) \in {Undefined, MemoryRead(r, s.from)}
                                       /\ ~ Dead(b, i) \/ KeepsEffect(b, i))]

\* What the statements of b end with, as far as the program is defined.
RunBlock(r, b) ==
  LET step(q, i) == IF q.block = None THEN q
                    ELSE IF Defined(q, given[b][i]) THEN RunStatement(q, b, i) ELSE [q EXCEPT !.block = None]
      after[i \in 0..Len(code[b])] == IF i = 0 THEN {r} ELSE {step(q, i) : q \in after[i - 1]}
  IN  after[Len(code[b])]

\* The current block runs, and control goes to one of its successors or ends.
Run ==
  /\ phase = "run" /\ run.block # None /\ run.steps < MaxSteps
  /\ \E r \in RunBlock(run, run.block) :
       LET next == IF r.block = None \/ succs[r.block] = <<>> THEN {None} ELSE ToSet(succs[r.block])
       IN  \E b \in next : run' = [r EXCEPT !.block = b, !.steps = @ + 1]
  /\ UNCHANGED <<given, merge, succs, code, phase, analysis, placement>>

AllocNext ==
  \/ Begin \/ Decide \/ ForwardVisit \/ ForwardDone \/ BackwardVisit \/ BackwardDone
  \/ Merge \/ PlaceTemp \/ Enter \/ Run

AllocSpec == AllocInit /\ [][AllocNext]_allocation /\ WF_allocation(AllocNext)

-----------------------------------------------------------------------------
(* The tables of the analysis are well formed, and the worklist never      *)
(* outgrows its buffer, which has one entry per block (compute_liveness).  *)
AllocTypeOK ==
  /\ phase \in {"begin", "decide", "forward", "backward", "place", "run", "rejected"}
  /\ stack \in Seq(Blocks) /\ Len(stack) <= N /\ visited \subseteq Blocks
  /\ defsIn \in [Blocks -> SUBSET Temps] /\ defsOut \in [Blocks -> SUBSET Temps]
  /\ init \subseteq Roots
  /\ liveIn \in [Blocks -> SUBSET Temps] /\ liveOut \in [Blocks -> SUBSET Temps]
  /\ rootLive \in [Roots -> SUBSET Temps]
  /\ TypeOK
  /\ run.block \in Blocks \cup {None} /\ run.steps \in 0..MaxSteps

\* What the worklist ends with satisfies the liveness equations, after each
\* statement as well, and no part of it would do.
LiveAt(S, b) == {t \in Temps : <<b, t>> \in S}
Solves(S) == \A b \in Blocks : \A c \in ToSet(succs[b]) : LiveAtStart(c, LiveAt(S, c)) \subseteq LiveAt(S, b)
LivenessIsLeast ==
  phase = "backward" /\ stack = <<>> =>
    LET solution == UNION {{b} \X liveOut[b] : b \in Blocks} IN
    /\ Solves(solution) /\ \A S \in SUBSET solution : Solves(S) => S = solution
    /\ \A b \in Blocks : LET lives == LiveAfters(b, liveOut[b]) IN
         lives[0] = liveIn[b] /\ \A i \in DOMAIN code[b] : rootLive[<<b, i>>] = lives[i]

\* Whatever the program shows of its temporaries, the allocated program
\* shows too, the padding of what was never written included, and no call is
\* lost with the store of its result (lower.pyx: "Keep the side effect").
SameObservations == phase = "run" => run.same

\* Allocation ends: both worklists run dry ("The dataflow has a unique
\* fixpoint", analysis.pyx).
AllocationEnds == <>(exceeded \/ phase \in {"rejected", "run"})
=============================================================================
