----------------------------- MODULE Dominators -----------------------------
(***************************************************************************)
(* What the passes of the back end ask about the shape of a callback:       *)
(* blocks are numbered in reverse postorder (flow.py, and again by every    *)
(* pass that builds a new function), immediate dominators are iterated over *)
(* these numbers, an Euler tour of the dominator tree answers which block   *)
(* dominates which, and natural loops come from the edges that go back to a *)
(* dominator (analysis.pyx).  Generators jump into loops from outside, so   *)
(* the graphs are any graphs.                                               *)
(***************************************************************************)
EXTENDS Integers, Sequences, FiniteSets, SequencesExt, FiniteSetsExt

CONSTANT FlowGraphs     \* functions from the blocks, 0 among them, to their successors in the order of their edges

\* Edges lead to blocks of the same graph, and 0 is the entry.
ASSUME GraphsAreWhole == \A g \in FlowGraphs : 0 \in DOMAIN g /\ g \in [DOMAIN g -> Seq(DOMAIN g)]

VARIABLES graph, stage,
          open, found, post,     \* numbering: blocks with the edges they have left, found, finished
          succ, pred,               \* by number: the targets of edges in their order, and the sources of edges
          idom, at, changed,        \* the iteration: immediate dominators (-1: unknown), block, whether this sweep changed one
          path, clock, tin, tout    \* the tour: the blocks it is in, its time, when it came to a block and left it
shapeVars == <<graph, stage, open, found, post, succ, pred, idom, at, changed, path, clock, tin, tout>>
-----------------------------------------------------------------------------
(* Numbering.                                                              *)

Found(b) == open' = Append(open, <<b, graph[b]>>) /\ found' = found \cup {b}

\* The next edge of the block on top: its target is found, or known already.
NextEdge ==
  LET top == Last(open) IN
  /\ stage = "number" /\ top[2] # <<>>
  /\ IF Head(top[2]) \in found
     THEN open' = Append(Front(open), <<top[1], Tail(top[2])>>) /\ UNCHANGED found
     ELSE Found(Head(top[2]))
  /\ UNCHANGED <<graph, stage, post, succ, pred, idom, at, changed, path, clock, tin, tout>>

\* The targets of all edges by the numbers of blocks, which start at the
\* block finished last.
Numbered(order) ==
  LET number(b) == CHOOSE n \in 0 .. Len(order) - 1 : order[Len(order) - n] = b
  IN  [n \in 0 .. Len(order) - 1 |-> LET out == graph[order[Len(order) - n]] IN [i \in DOMAIN out |-> number(out[i])]]
Sources(targets, n) == {m \in DOMAIN targets : n \in ToSet(targets[m])}

\* A block without edges left comes before all blocks that are finished.
Finish ==
  LET top == Last(open) IN
  /\ stage = "number" /\ top[2] = <<>>
  /\ post' = Append(post, top[1]) /\ open' = Front(open)
  /\ IF Len(open) = 1
     THEN stage' = "idom" /\ succ' = Numbered(post') /\ pred' = [n \in DOMAIN succ' |-> Sources(succ', n)]
     ELSE UNCHANGED <<stage, succ, pred>>
  /\ UNCHANGED <<graph, found, idom, at, changed, path, clock, tin, tout>>

\* From here on blocks go by their numbers; 0 is the entry.
Numbers == DOMAIN succ
-----------------------------------------------------------------------------
(* Immediate dominators.                                                   *)

Dom(n) == IF n \in DOMAIN idom THEN idom[n] ELSE IF n = 0 THEN 0 ELSE -1

Known == {n \in Numbers : Dom(n) # -1}

\* Two fingers walk up, the one with the larger number first, until they meet.
Intersect(a, b) ==
  LET meet[p \in Known \X Known] ==
        IF p[1] = p[2] THEN p[1] ELSE IF p[1] > p[2] THEN meet[<<Dom(p[1]), p[2]>>] ELSE meet[<<p[1], Dom(p[2])>>]
  IN  meet[<<a, b>>]

\* Mutant: a sweep takes the first predecessor it knows.
MutantMeet(n) == IF pred[n] \cap Known = {} THEN -1 ELSE Min(pred[n] \cap Known)
\* The sources of edges, in the order of their numbers; an edge that comes a
\* second time changes nothing.
Meet(n) ==
  LET upTo[m \in 0 .. Len(post)] ==
        IF m = 0 THEN -1
        ELSE IF m - 1 \notin pred[n] \cap Known THEN upTo[m - 1]
        ELSE IF upTo[m - 1] = -1 THEN m - 1 ELSE Intersect(m - 1, upTo[m - 1])
  IN  upTo[Len(post)]

\* One block of a sweep.
Update ==
  /\ stage = "idom" /\ at < Len(post)
  /\ LET new == Meet(at)
         better == new # -1 /\ Dom(at) # new
     IN  /\ idom' = IF better THEN [n \in DOMAIN idom \cup {at} |-> IF n = at THEN new ELSE idom[n]] ELSE idom
         /\ changed' = (changed \/ better)
  /\ at' = at + 1
  /\ UNCHANGED <<graph, stage, open, found, post, succ, pred, path, clock, tin, tout>>

\* Sweeps go on until one changes nothing; then the tour comes to the entry.
EndSweep ==
  /\ stage = "idom" /\ at = Len(post)
  /\ at' = 1 /\ changed' = FALSE
  /\ IF changed THEN UNCHANGED <<stage, path, clock, tin, tout>>
     ELSE /\ stage' = "tour" /\ path' = <<0>> /\ clock' = 1
          /\ tin' = [n \in Numbers |-> IF n = 0 THEN 0 ELSE -1] /\ tout' = [n \in Numbers |-> -1]
  /\ UNCHANGED <<graph, open, found, post, succ, pred, idom>>
-----------------------------------------------------------------------------
(* The tour of the dominator tree.                                         *)

Children(n) == {c \in Numbers \ {0} : Dom(c) = n}
Left(n) == {c \in Children(n) : tin[c] = -1}

EnterChild ==
  /\ stage = "tour" /\ Left(Last(path)) # {}
  /\ LET c == Min(Left(Last(path))) IN path' = Append(path, c) /\ tin' = [tin EXCEPT ![c] = clock]
  /\ clock' = clock + 1
  /\ UNCHANGED <<graph, stage, open, found, post, succ, pred, idom, at, changed, tout>>

LeaveBlock ==
  /\ stage = "tour" /\ Left(Last(path)) = {}
  /\ path' = Front(path) /\ tout' = [tout EXCEPT ![Last(path)] = clock] /\ clock' = clock + 1
  /\ stage' = IF Len(path) = 1 THEN "done" ELSE stage
  /\ UNCHANGED <<graph, open, found, post, succ, pred, idom, at, changed, tin>>

Dominates(a, b) == tin[a] <= tin[b] /\ tout[b] <= tout[a]
-----------------------------------------------------------------------------
(* Natural loops.                                                          *)

BackTo(h) == {u \in Numbers : h \in ToSet(succ[u]) /\ Dominates(h, u)}
Headers == {h \in Numbers : BackTo(h) # {}}
Body(h) ==
  LET grow[S \in SUBSET Numbers] ==
        LET T == S \cup UNION {pred[n] : n \in S \ {h}}
        IN  IF T = S THEN S ELSE grow[T]
  IN  grow[BackTo(h) \cup {h}]
Containing(n) == {h \in Headers : n \in Body(h)}
Depth(n) == Cardinality(Containing(n))

\* The deepest of some loops; of several, the one whose header comes first.
Deepest(loops) == IF loops = {} THEN -1 ELSE Min({h \in loops : \A g \in loops : Depth(g) <= Depth(h)})
Parent(h) == Deepest(Containing(h) \ {h})
Innermost(n) == Deepest(Containing(n))
CrossesLoop(d, u) == Innermost(u) # -1 /\ d \notin Body(Innermost(u))
-----------------------------------------------------------------------------
ShapeInit ==
  /\ graph \in FlowGraphs /\ stage = "number"
  /\ open = <<<<0, graph[0]>>>> /\ found = {0} /\ post = <<>>
  /\ succ = <<>> /\ pred = <<>> /\ idom = <<>> /\ at = 1 /\ changed = FALSE
  /\ path = <<>> /\ clock = 0 /\ tin = <<>> /\ tout = <<>>

ShapeNext == NextEdge \/ Finish \/ Update \/ EndSweep \/ EnterChild \/ LeaveBlock
ShapeSpec == ShapeInit /\ [][ShapeNext]_shapeVars
-----------------------------------------------------------------------------
ShapeTypeOK ==
  /\ graph \in FlowGraphs /\ stage \in {"number", "idom", "tour", "done"}
  /\ found \subseteq DOMAIN graph /\ ToSet(post) \subseteq found
  /\ \A s \in ToSet(open) : s[1] \in found /\ ToSet(s[2]) \subseteq DOMAIN graph
  /\ \A n \in DOMAIN idom : n \in Numbers \ {0} /\ idom[n] \in 0 .. n - 1
  /\ at \in 1 .. Cardinality(DOMAIN graph) /\ changed \in BOOLEAN /\ clock \in 0 .. 2 * Cardinality(DOMAIN graph)
  /\ ToSet(path) \subseteq DOMAIN graph

\* The blocks reached from the entry on paths that avoid one block: the least
\* set with the entry that every edge stays in unless it leads to that block.
ClosedAvoiding(a, S) == {0} \ {a} \subseteq S /\ \A n \in S : ToSet(succ[n]) \ {a} \subseteq S
ReachedAvoiding(a) == {b \in Numbers : \A S \in SUBSET Numbers : ClosedAvoiding(a, S) => b \in S}

\* One block dominates another if and only if it is on every path to it, also
\* in graphs with loops that have several entries: see compute_dominators.
DominanceIsExact ==
  stage = "done" => \A a, b \in Numbers : Dominates(a, b) <=> (a = b \/ b \notin ReachedAvoiding(a))

\* The loops of a block are nested, so that the innermost one answers for all
\* of them whether a value would be carried into a loop: see crosses_loop.
LoopsNest ==
  stage = "done" =>
    /\ \A g, h \in Headers : Body(g) \cap Body(h) # {} => Body(g) \subseteq Body(h) \/ Body(h) \subseteq Body(g)
    /\ \A d, u \in Numbers : CrossesLoop(d, u) <=> \E h \in Headers : u \in Body(h) /\ d \notin Body(h)
    /\ \A h \in Headers : Parent(h) # -1 => Body(h) \subseteq Body(Parent(h)) /\ Depth(h) = Depth(Parent(h)) + 1

\* Both: what the passes ask is answered exactly.
ShapeIsExact == DominanceIsExact /\ LoopsNest
=============================================================================
