------------------------------ MODULE MCSlots ------------------------------
(* Placement, coalescing, allocation and dominators, one of them at a time: *)
(* part says which.  The variables of the others keep one value; allocation *)
(* extends placement.                                               *)
EXTENDS Allocation, Coalesce, Dominators

VARIABLE part     \* what is checked

program == <<given, succs, code, phase, merge, analysis, run>>
slots == <<part, vars, webVars, program, shapeVars>>

(* Dominators of all graphs of up to four blocks with up to two edges each. *)
(* Blocks are called by the order in which they are found.                  *)
FourNodes == 0 .. 3
TwoWays == {<<>>} \cup {<<b>> : b \in FourNodes} \cup {<<p[1], p[2]>> : p \in {q \in FourNodes \X FourNodes : q[1] # q[2]}}
Discovered(g) ==
  LET visit[b \in FourNodes, seen \in Seq(FourNodes)] ==
        FoldLeft(LAMBDA s, t : IF t \in ToSet(s) THEN s ELSE visit[t, Append(s, t)], seen, g[b])
  IN  visit[0, <<0>>]
FourBlocks ==
  {g \in [FourNodes -> TwoWays] : LET names == Discovered(g) IN
      (\A i \in DOMAIN names : names[i] = i - 1) /\ \A b \in FourNodes \ ToSet(names) : g[b] = <<>>}

Nothing == <<>>
NoGraph == [t \in Temps |-> {}]
NoPlacement ==
  /\ size = [t \in Temps |-> 0] /\ adj = NoGraph /\ mode = "bump" /\ todo = {} /\ index = 0
  /\ offset = [t \in Temps |-> Unallocated] /\ exceeded = FALSE
NoWebs ==
  /\ inter = NoGraph /\ pairs = {} /\ left = {} /\ gen = 0
  /\ root = Nothing /\ members = Nothing /\ wmin = Nothing /\ base = Nothing /\ extra = Nothing /\ wgen = Nothing /\ xgen = Nothing
NoProgram ==
  /\ given = Nothing /\ succs = Nothing /\ code = Nothing /\ phase = "idle" /\ merge = Nothing /\ stack = Nothing
  /\ visited = Nothing /\ defsIn = Nothing /\ defsOut = Nothing /\ init = Nothing /\ liveIn = Nothing /\ liveOut = Nothing
  /\ rootLive = Nothing /\ run = Nothing
NoShape ==
  /\ graph = Nothing /\ stage = "none" /\ open = Nothing /\ found = Nothing /\ post = Nothing /\ succ = Nothing /\ pred = Nothing
  /\ idom = Nothing /\ at = Nothing /\ changed = Nothing /\ path = Nothing /\ clock = Nothing /\ tin = Nothing /\ tout = Nothing

SlotsInit ==
  \/ part = "placement" /\ Init /\ NoWebs /\ NoProgram /\ NoShape
  \/ part = "coalescing" /\ CoalesceInit /\ NoPlacement /\ NoProgram /\ NoShape
  \/ part = "allocation" /\ AllocInit /\ NoWebs /\ NoShape
  \/ part = "shape" /\ ShapeInit /\ NoPlacement /\ NoWebs /\ NoProgram

PlacementStep == part = "placement" /\ Next /\ UNCHANGED <<part, webVars, program, shapeVars>>
CoalescingStep == part = "coalescing" /\ CoalesceNext /\ UNCHANGED <<part, vars, program, shapeVars>>
AllocationStep == part = "allocation" /\ AllocNext /\ UNCHANGED <<part, webVars, shapeVars>>
ShapeStep == part = "shape" /\ ShapeNext /\ UNCHANGED <<part, vars, webVars, program>>

SlotsNext == PlacementStep \/ CoalescingStep \/ AllocationStep \/ ShapeStep
SlotsSpec == SlotsInit /\ [][SlotsNext]_slots /\ WF_slots(AllocationStep)

\* Every variable has its type, each part in its module (allocate_func,
\* _coalesce and compute_liveness).
AllTypesOK == TypeOK /\ CoalesceTypeOK /\ (part = "allocation" => AllocTypeOK) /\ (part = "shape" => ShapeTypeOK)

\* Allocation ends: see Allocation (compute_liveness).
Terminates == part = "allocation" => AllocationEnds
-----------------------------------------------------------------------------
(* Placement of four temporaries of up to three slots, every interference;  *)
(* coalescing of four, every set of copies.                                 *)

Edges(S) == {p \in S \X S : p[1] < p[2]}
Graph(S, es) == [t \in S |-> {u \in S : <<t, u>> \in es \/ <<u, t>> \in es}]

FourTemps == 0..3
AllSizes == [FourTemps -> 0..3]
AllGraphs == {Graph(FourTemps, es) : es \in SUBSET Edges(FourTemps)}
AllStrategies == {"bump", "packing", "try_bump"}

(* Allocation of two scalars and an array in programs of three blocks.      *)
x == 0
y == 1
a == 2

By(t, u) == [temp |-> t, at |-> 0, by |-> u]
At(t) == By(t, -1)
Nowhere == At(-1)
Set(p, o, q) == [to |-> p, op |-> o, from |-> q]
New(p) == Set(p, "new", Nowhere)
Use(p) == Set(Nowhere, "call", p)

BlockCodes == {
  <<>>,
  <<New(At(x)), Set(At(y), "get", At(x))>>,
  <<Use(At(x))>>,
  <<New(At(a)), Use(At(y))>>,
  <<New(By(a, x)), Use(At(a))>>,
  <<Set(At(x), "call", Nowhere), Use(At(y))>>,
  <<Set(At(x), "get", By(a, y))>>,
  <<New(At(y)), Set(At(x), "get", At(x)), New(At(a)), Set(By(a, y), "get", At(a)), Use(By(a, y))>> }

\* Straight line, diamond arms, loops with and without exit, a loop of one block.
ThreeFlows == {
  << <<2>>, <<3>>, <<>> >>,
  << <<2, 3>>, <<3>>, <<>> >>,
  << <<2>>, <<2, 3>>, <<>> >>,
  << <<2>>, <<1, 3>>, <<>> >>,
  << <<2, 3>>, <<2>>, <<>> >>,
  << <<2>>, <<3>>, <<1>> >> }

TwoScalarsAnArray == [t \in FourTemps |-> IF t = a THEN 2 ELSE IF t = 3 THEN 0 ELSE 1]
TwoSetups == {[mode |-> "try_bump", size |-> TwoScalarsAnArray, merge |-> FALSE],
              [mode |-> "packing", size |-> TwoScalarsAnArray, merge |-> TRUE]}
=============================================================================
