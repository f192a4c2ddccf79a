---------------------------- MODULE CfgCleanup -----------------------------
(***************************************************************************)
(* Cleanup of the control flow graph, _Cleaner of                          *)
(* sonolus/backend/_opt/midend.pyx.  Seven transforms are repeated until   *)
(* none changes anything.  Five of them sweep over the blocks, one block   *)
(* in a step, and see what they have done to the blocks before it.         *)
(*                                                                         *)
(* A head stands for a chain of source blocks executed one after another;  *)
(* its edges are the branch behind the last of them.  A block is reduced   *)
(* to its number of statements and to its test, which is a constant or     *)
(* varies.  The edges of a head are a function from conditions to heads:   *)
(* the source has no two edges with one condition, and no transform makes  *)
(* a second, so that the part of _dedup that drops duplicates has nothing  *)
(* to do.                                                                  *)
(*                                                                         *)
(* Afterwards source and result run side by side.                          *)
(***************************************************************************)
EXTENDS Integers, SequencesExt, FiniteSetsExt

CONSTANTS
  Programs,  \* records [stmts, test, succs], sequences over the blocks
  Outcomes,  \* values a varying test takes
  Slack      \* rounds allowed beyond blocks * blocks + edges, 100000 in the code

\* The first block is the entry, and the edges of a block lead to blocks.
ASSUME CleanupAssumption ==
  /\ Slack \in Nat /\ Outcomes # {}
  /\ \A p \in Programs : LET n == Len(p.succs) IN
       /\ n \in Nat \ {0} /\ DOMAIN p.succs = 1..n /\ DOMAIN p.test = 1..n
       /\ p.stmts \in [1..n -> Nat]
       /\ \A b \in 1..n : p.succs[b] \in [DOMAIN p.succs[b] -> 1..n]

Default == -1   \* the condition of the unconditional edge
Varying == -1   \* a test that is not a constant
Ended == 0      \* no block: the program has ended

VARIABLES
  source,   \* the program
  phiSafe,  \* no block may be duplicated
  graph,    \* the graph under transformation: [entry, heads, chain, out, dup]
  pass,     \* the transform at work, or the next one
  block,    \* the block its sweep is at
  changed,  \* a transform of this round has changed something
  rounds,   \* rounds completed
  at,       \* execution of the source: its block
  pos       \* execution of the result: a head and a place in its chain

vars == <<source, phiSafe, graph, pass, block, changed, rounds, at, pos>>

Blocks == DOMAIN source.succs

NoEdges == [k \in {} |-> Ended]
\* The statements of a chain, each one by its block and its number there.
ChainStmts(g, h) == UNION {{i} \X (1 .. source.stmts[g.chain[h][i]]) : i \in DOMAIN g.chain[h]}
HasValueEdge(g, h) == DOMAIN g.out[h] \ {Default} # {}

\* The target of the only edge of h, if that edge is unconditional.
Jumps(g, h) == DOMAIN g.out[h] = {Default}
JumpTarget(g, h) == g.out[h][Default]

\* The edges into c: pairs of a head and a condition.
EdgesInto(g, c) == UNION {{h} \X {k \in DOMAIN g.out[h] : g.out[h][k] = c} : h \in g.heads}

\* The edges into the blocks of S lead to c instead, and S is gone.
Redirect(g, S, c) ==
  [g EXCEPT !.heads = @ \ S,
            !.out = [x \in Blocks |-> IF x \in S THEN NoEdges
                       ELSE [k \in DOMAIN g.out[x] |-> IF g.out[x][k] \in S THEN c ELSE g.out[x][k]]]]

-----------------------------------------------------------------------------
\* What is reached from block b on the edges of out.
Closed(out, S) == \A h \in S : Range(out[h]) \subseteq S
Reached(out, b) == {h \in Blocks : \A S \in SUBSET Blocks : b \in S /\ Closed(out, S) => h \in S}

\* Blocks not reached from the entry are left out from the start.
Built ==
  LET alive == Reached(source.succs, 1)
  IN  [entry |-> 1, heads |-> alive, chain |-> [b \in Blocks |-> <<b>>],
       out |-> [b \in Blocks |-> IF b \in alive THEN source.succs[b] ELSE NoEdges], dup |-> {}]

Cap == LET edges == FoldLeft(LAMBDA n, f : n + Cardinality(DOMAIN f), 0, Built.out)
       IN  Cardinality(Blocks) * Cardinality(Blocks) + edges + Slack

TheEnd == <<Ended, 1>>

Init ==
  /\ source \in Programs /\ phiSafe \in BOOLEAN
  /\ graph = Built
  /\ pass = "const_fold" /\ block = 1 /\ changed = FALSE /\ rounds = 0
  /\ at = Ended /\ pos = TheEnd

\* Transform t has made g of the graph; u is next.
Transform(t, u, g) ==
  /\ pass = t /\ pass' = u
  /\ graph' = g
  /\ changed' = (changed \/ g # graph)
  /\ UNCHANGED <<source, phiSafe, block, rounds, at, pos>>

\* Transform t is at a block and makes g of the graph, if the block is a head.
Sweep(t, u, g) ==
  /\ pass = t
  /\ graph' = IF block \in graph.heads THEN g ELSE graph
  /\ changed' = (changed \/ graph' # graph)
  /\ IF block = Len(source.succs) THEN pass' = u /\ block' = 1 ELSE pass' = t /\ block' = block + 1
  /\ UNCHANGED <<source, phiSafe, rounds, at, pos>>

\* A constant test: the edge with that condition, else the default edge, else
\* the program ends here.
FoldTest(g, h) ==
  LET t == source.test[Last(g.chain[h])]
      taken == IF t \in DOMAIN g.out[h] THEN {g.out[h][t]}
               ELSE IF Default \in DOMAIN g.out[h] THEN {g.out[h][Default]} ELSE {}
  IN  IF ~ HasValueEdge(g, h) \/ t = Varying THEN g
      ELSE [g EXCEPT !.out[h] = [k \in {Default : d \in taken} |-> CHOOSE d \in taken : TRUE]]
ConstFold == Sweep("const_fold", "dedup", FoldTest(graph, block))

\* A value edge to the target of the default edge is redundant.
DropRedundant(g, h) ==
  IF Default \notin DOMAIN g.out[h] THEN g
  ELSE [g EXCEPT !.out[h] = [k \in {Default} \cup {c \in DOMAIN @ : @[c] # @[Default]} |-> @[k]]]
Dedup == Sweep("dedup", "thread", DropRedundant(graph, block))

\* Mutant: an empty block that jumps to itself is threaded like any other.
MutantThreadsLoops(g, h) ==
  IF ChainStmts(g, h) # {} \/ ~ Jumps(g, h) THEN g
  ELSE [Redirect(g, {h}, JumpTarget(g, h)) EXCEPT !.entry = IF @ = h THEN JumpTarget(g, h) ELSE @,
                                                 !.heads = IF JumpTarget(g, h) = h THEN @ \cup {h} ELSE @]

\* An empty block that only jumps is passed by, the entry included.
Thread(g, h) ==
  IF ChainStmts(g, h) # {} \/ ~ Jumps(g, h) THEN g
  ELSE IF JumpTarget(g, h) = h THEN g
  ELSE [Redirect(g, {h}, JumpTarget(g, h)) EXCEPT !.entry = IF @ = h THEN JumpTarget(g, h) ELSE @]
ThreadForwarders == Sweep("thread", "merge", Thread(graph, block))

\* Mutant: the block is absorbed, its edges are not.
MutantAbsorb(g, h) ==
  IF ~ Jumps(g, h) THEN g
  ELSE LET c == JumpTarget(g, h) IN
       IF c \in {h, g.entry} \/ EdgesInto(g, c) # {<<h, Default>>} THEN g
       ELSE [g EXCEPT !.heads = @ \ {c}, !.chain[h] = @ \o g.chain[c]]

\* A block whose only predecessor jumps to it is absorbed by that one.
Absorb(g, h) ==
  IF ~ Jumps(g, h) THEN g
  ELSE LET c == JumpTarget(g, h) IN
       IF c \in {h, g.entry} \/ EdgesInto(g, c) # {<<h, Default>>} THEN g
       ELSE [g EXCEPT !.heads = @ \ {c}, !.chain[h] = @ \o g.chain[c],
                      !.out[h] = g.out[c], !.out[c] = NoEdges]
MergeSingle == Sweep("merge", "taildup", Absorb(graph, block))

\* Mutant: the same block is copied again and again.
MutantDuplicate(g, h) ==
  IF phiSafe \/ ~ Jumps(g, h) THEN g
  ELSE LET c == JumpTarget(g, h) IN
       IF c \in {h, g.entry} \/ Cardinality(ChainStmts(g, c)) > 1 THEN g
       ELSE [g EXCEPT !.chain[h] = @ \o g.chain[c], !.out[h] = g.out[c]]

\* Mutant: copies are made when they must not be.
MutantAlwaysDuplicates(g, h) ==
  IF ~ Jumps(g, h) THEN g
  ELSE LET c == JumpTarget(g, h) IN
       IF c \in {h, g.entry} \/ Cardinality(ChainStmts(g, c)) > 1 \/ <<h, c>> \in g.dup THEN g
       ELSE [g EXCEPT !.dup = @ \cup {<<h, c>>}, !.chain[h] = @ \o g.chain[c], !.out[h] = g.out[c]]

\* A block of one statement at most is copied behind a block that jumps to
\* it, once for each such block.
Duplicate(g, h) ==
  IF phiSafe \/ ~ Jumps(g, h) THEN g
  ELSE LET c == JumpTarget(g, h) IN
       IF c \in {h, g.entry} \/ Cardinality(ChainStmts(g, c)) > 1 \/ <<h, c>> \in g.dup THEN g
       ELSE [g EXCEPT !.dup = @ \cup {<<h, c>>}, !.chain[h] = @ \o g.chain[c], !.out[h] = g.out[c]]
TailDup == Sweep("taildup", "prune", Duplicate(graph, block))

Pruned(g) ==
  LET alive == Reached(g.out, g.entry)
  IN  [g EXCEPT !.heads = @ \cap alive, !.out = [h \in Blocks |-> IF h \in alive THEN @[h] ELSE NoEdges]]
PruneUnreachable == Transform("prune", "exits", Pruned(graph))

\* All empty blocks that end the program become one of them (the first in
\* reverse postorder in the code; here any).
EmptyExits(g) == {h \in g.heads : g.out[h] = NoEdges /\ ChainStmts(g, h) = {}}
CanonicalizeExits ==
  \/ EmptyExits(graph) = {} /\ Transform("exits", "round", graph)
  \/ \E first \in EmptyExits(graph) :
       Transform("exits", "round", Redirect(graph, EmptyExits(graph) \ {first}, first))

\* Another round, unless nothing has changed or the cap is exceeded.
Round ==
  /\ pass = "round"
  /\ rounds' = rounds + 1
  /\ changed' = FALSE
  /\ \/ rounds + 1 > Cap /\ pass' = "failed" /\ UNCHANGED <<at, pos>>
     \/ rounds + 1 <= Cap /\ changed /\ pass' = "const_fold" /\ UNCHANGED <<at, pos>>
     \/ rounds + 1 <= Cap /\ ~ changed /\ pass' = "run" /\ at' = 1 /\ pos' = <<graph.entry, 1>>
  /\ UNCHANGED <<source, phiSafe, graph, block>>

-----------------------------------------------------------------------------
(* Source and result, in step.  A test takes the same value on both sides. *)

\* The source block that graph g executes at p.
Here(g, p) == IF p = TheEnd THEN Ended ELSE g.chain[p[1]][p[2]]

\* Where a branch with edges f leads when the test has value v.
Branch(f, v) == IF v \in DOMAIN f THEN f[v] ELSE IF Default \in DOMAIN f THEN f[Default] ELSE Ended

TestOf(b) == IF source.test[b] = Varying THEN Outcomes ELSE {source.test[b]}

\* Where g goes on behind the block at p.
Onward(g, p, v) ==
  IF p[2] < Len(g.chain[p[1]]) THEN <<p[1], p[2] + 1>> ELSE <<Branch(g.out[p[1]], v), 1>>

\* Both execute the same block, or the one that is at an empty block alone.
Execute ==
  /\ pass = "run"
  /\ \/ /\ at # Ended /\ Here(graph, pos) = at
        /\ \E v \in TestOf(at) : at' = Branch(source.succs[at], v) /\ pos' = Onward(graph, pos, v)
     \/ /\ at # Ended /\ Here(graph, pos) # at /\ source.stmts[at] = 0
        /\ \E v \in TestOf(at) : at' = Branch(source.succs[at], v) /\ UNCHANGED pos
     \/ /\ at = Ended /\ Here(graph, pos) # Ended /\ source.stmts[Here(graph, pos)] = 0
        /\ \E v \in TestOf(Here(graph, pos)) : pos' = Onward(graph, pos, v) /\ UNCHANGED at
  /\ UNCHANGED <<source, phiSafe, graph, pass, block, changed, rounds>>

Next == \/ ConstFold \/ Dedup \/ ThreadForwarders \/ MergeSingle \/ TailDup \/ PruneUnreachable
        \/ CanonicalizeExits \/ Round \/ Execute

Spec == Init /\ [][Next]_vars /\ WF_vars(Next)

-----------------------------------------------------------------------------
(* Properties                                                              *)

\* When blocks must not be copied, none is in two chains or in one twice.
NoCopies ==
  \A h, k \in graph.heads : \A i \in DOMAIN graph.chain[h] : \A j \in DOMAIN graph.chain[k] :
    graph.chain[h][i] = graph.chain[k][j] => h = k /\ i = j

\* The edges of the heads lead to heads, and the entry is one; a block that
\* was absorbed or passed by has none.
TypeOK ==
  /\ source \in Programs /\ phiSafe \in BOOLEAN /\ changed \in BOOLEAN /\ rounds \in Nat /\ block \in Blocks
  /\ graph.entry \in graph.heads /\ graph.heads \subseteq Blocks
  /\ \A h \in Blocks : /\ Range(graph.out[h]) \subseteq graph.heads
                       /\ graph.chain[h] \in Seq(Blocks) /\ graph.chain[h] # <<>>
                       /\ h \notin graph.heads => graph.out[h] = NoEdges
  /\ phiSafe => NoCopies
  /\ at \in Blocks \cup {Ended}
  /\ pos = TheEnd \/ (pos[1] \in graph.heads /\ pos[2] \in DOMAIN graph.chain[pos[1]])

\* For every outcome of the tests the result executes the statements of the
\* source in their order: neither side ever meets a statement the other does
\* not execute at that point.
SameTraces ==
  pass = "run" /\ Here(graph, pos) # at =>
    IF at # Ended THEN source.stmts[at] = 0 ELSE source.stmts[Here(graph, pos)] = 0

\* Cleanup ends within its cap, even without the slack, and then neither side
\* ever runs ahead, loops or ends while the other does not: an empty loop of
\* the source is an empty loop of the result.
AlwaysRejoins == []<>(pass = "run" /\ Here(graph, pos) = at)
=============================================================================
