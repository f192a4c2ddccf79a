-------------------------- MODULE CfgCleanupProofs --------------------------
(***************************************************************************)
(* Proofs about the cleanup of control flow graphs, for any program and    *)
(* any number of rounds.                                                   *)
(*                                                                         *)
(* Equivalent is the heart of the inductive invariant: program and graph   *)
(* simulate one another from their entries on.  A simulation lets the      *)
(* program pass empty blocks while the graph waits, wherever it is, and    *)
(* the graph pass empty blocks when the program has ended; every transform *)
(* makes a simulation of the new graph from one of the old.  The           *)
(* executions of CfgCleanup do not choose: they move together whenever     *)
(* they are at the same block.  LockstepFollows shows that they may.       *)
(***************************************************************************)
EXTENDS CfgCleanup, WellFoundedInduction, TLAPS

-----------------------------------------------------------------------------
(* Programs and graphs.                                                    *)

Size == Len(source.succs)
Points == Blocks \cup {Ended}

LEMMA SourceFacts ==
  ASSUME source \in Programs
  PROVE  /\ Size \in Nat \ {0} /\ Blocks = 1..Size /\ 1 \in Blocks /\ Ended \notin Blocks
         /\ source.stmts \in [Blocks -> Nat]
         /\ \A b \in Blocks : source.succs[b] \in [DOMAIN source.succs[b] -> Blocks]
         /\ \A b \in Blocks : \A v : Branch(source.succs[b], v) \in Points
<1>1. Size \in Nat \ {0} /\ Blocks = 1..Size /\ source.stmts \in [Blocks -> Nat]
  BY CleanupAssumption DEF Size, Blocks
<1>2. \A b \in Blocks : source.succs[b] \in [DOMAIN source.succs[b] -> Blocks]
  BY CleanupAssumption DEF Blocks
<1>3. 1 \in Blocks /\ Ended \notin Blocks
  BY <1>1 DEF Ended
<1>4. ASSUME NEW b \in Blocks, NEW v PROVE Branch(source.succs[b], v) \in Points
  BY <1>2 DEF Branch, Points
<1> QED
  BY <1>1, <1>2, <1>3, <1>4

LEMMA TestsHaveValues ==
  ASSUME source \in Programs, NEW b \in Blocks
  PROVE  TestOf(b) # {}
BY CleanupAssumption DEF TestOf

\* A graph whose edges lead to heads.
IsGraph(g) ==
  /\ g = [entry |-> g.entry, heads |-> g.heads, chain |-> g.chain, out |-> g.out, dup |-> g.dup]
  /\ g.heads \subseteq Blocks
  /\ g.chain \in [Blocks -> Seq(Blocks)] /\ \A h \in Blocks : g.chain[h] # <<>>
  /\ g.out = [h \in Blocks |-> g.out[h]]
  /\ \A h \in Blocks : g.out[h] \in [DOMAIN g.out[h] -> g.heads]
  /\ \A h \in Blocks \ g.heads : g.out[h] = NoEdges

LEMMA GraphFacts ==
  ASSUME NEW g, IsGraph(g), NEW h \in Blocks
  PROVE  /\ Len(g.chain[h]) \in Nat \ {0}
         /\ \A i \in 1..Len(g.chain[h]) : g.chain[h][i] \in Blocks
         /\ \A v : Branch(g.out[h], v) \in g.heads \cup {Ended}
<1>1. g.chain[h] \in Seq(Blocks) /\ g.chain[h] # <<>>
  BY DEF IsGraph
<1>2. Len(g.chain[h]) \in Nat \ {0}
  BY <1>1
<1>3. \A i \in 1..Len(g.chain[h]) : g.chain[h][i] \in Blocks
  BY <1>1
<1>4. \A v : Branch(g.out[h], v) \in g.heads \cup {Ended}
  BY DEF IsGraph, Branch
<1> QED
  BY <1>2, <1>3, <1>4

\* The places of a graph: one of each block of a chain, and the end.
InChain(g, h, i) == h \in g.heads /\ i \in 1..Len(g.chain[h])
Places(g) == {TheEnd} \cup {p \in g.heads \X Nat : InChain(g, p[1], p[2])}

LEMMA PlaceFacts ==
  ASSUME NEW g, IsGraph(g), source \in Programs, NEW p \in Places(g), p # TheEnd
  PROVE  /\ p = <<p[1], p[2]>> /\ InChain(g, p[1], p[2])
         /\ Here(g, p) \in Blocks /\ Here(g, p) = g.chain[p[1]][p[2]] /\ Here(g, p) # Ended
         /\ \A v : Onward(g, p, v) \in Places(g)
<1>1. p \in g.heads \X Nat /\ InChain(g, p[1], p[2])
  BY DEF Places
<1>2. p = <<p[1], p[2]>> /\ p[1] \in g.heads /\ p[1] \in Blocks /\ p[2] \in Nat
  BY <1>1 DEF IsGraph
<1>3. Here(g, p) = g.chain[p[1]][p[2]] /\ Here(g, p) \in Blocks
  BY <1>1, <1>2, GraphFacts DEF Here, InChain
<1>4. ASSUME NEW v PROVE Onward(g, p, v) \in Places(g)
  <2>1. CASE p[2] < Len(g.chain[p[1]])
    <3>1. Onward(g, p, v) = <<p[1], p[2] + 1>>
      BY <2>1 DEF Onward
    <3>2. p[2] + 1 \in 1..Len(g.chain[p[1]]) /\ p[2] + 1 \in Nat
      BY <1>2, <2>1, GraphFacts
    <3> QED
      BY <1>2, <3>1, <3>2 DEF Places, InChain
  <2>2. CASE ~ (p[2] < Len(g.chain[p[1]]))
    <3>1. Onward(g, p, v) = <<Branch(g.out[p[1]], v), 1>>
      BY <2>2 DEF Onward
    <3>2. Branch(g.out[p[1]], v) \in g.heads \cup {Ended}
      BY <1>2, GraphFacts
    <3>3. \A h \in g.heads : <<h, 1>> \in Places(g)
      BY GraphFacts DEF Places, InChain, IsGraph
    <3> QED
      BY <3>1, <3>2, <3>3 DEF Places, TheEnd
  <2> QED
    BY <2>1, <2>2
<1> QED
  BY <1>1, <1>2, <1>3, <1>4, SourceFacts

LEMMA HeadsArePlaces ==
  ASSUME NEW g, IsGraph(g), source \in Programs, NEW h \in g.heads
  PROVE  <<h, 1>> \in Places(g) /\ <<h, 1>> # TheEnd /\ h # Ended /\ h \in Blocks
BY GraphFacts, SourceFacts DEF Places, InChain, IsGraph, TheEnd

-----------------------------------------------------------------------------
(* Simulations between the program and a graph: sets of pairs of a point   *)
(* of the program and a place of the graph.                                *)

Sides(g) == Points \X Places(g)

Together(g, R, b, p) ==
  /\ b # Ended /\ Here(g, p) = b
  /\ \A v \in TestOf(b) : <<Branch(source.succs[b], v), Onward(g, p, v)>> \in R
Ahead(g, R, b, p) ==
  /\ b # Ended /\ source.stmts[b] = 0
  /\ \A v \in TestOf(b) : <<Branch(source.succs[b], v), p>> \in R
Behind(g, R, b, p) ==
  /\ b = Ended /\ p # TheEnd /\ source.stmts[Here(g, p)] = 0
  /\ \A v \in TestOf(Here(g, p)) : <<Ended, Onward(g, p, v)>> \in R
Matched(g, R, b, p) ==
  Together(g, R, b, p) \/ Ahead(g, R, b, p) \/ Behind(g, R, b, p) \/ (b = Ended /\ p = TheEnd)

Simulates(g, R) == \A b \in Points, p \in Places(g) : <<b, p>> \in R => Matched(g, R, b, p)

\* The points and places that some simulation relates.
Alike(g) == {x \in Sides(g) : \E R \in SUBSET Sides(g) : Simulates(g, R) /\ x \in R}
AreAlike(g, b, p) == <<b, p>> \in Alike(g)
Equivalent(g) == AreAlike(g, 1, <<g.entry, 1>>)

LEMMA MatchedGrows ==
  ASSUME NEW g, NEW R, NEW S, R \subseteq S, NEW b, NEW p, Matched(g, R, b, p)
  PROVE  Matched(g, S, b, p)
<1>1. CASE Together(g, R, b, p)
  BY <1>1 DEF Matched, Together
<1>2. CASE Ahead(g, R, b, p)
  BY <1>2 DEF Matched, Ahead
<1>3. CASE Behind(g, R, b, p)
  BY <1>3 DEF Matched, Behind
<1> QED
  BY <1>1, <1>2, <1>3 DEF Matched

LEMMA AlikeIsLargest ==
  ASSUME NEW g, NEW R \in SUBSET Sides(g), Simulates(g, R)
  PROVE  R \subseteq Alike(g)
BY DEF Alike

LEMMA AlikeSimulates ==
  ASSUME NEW g
  PROVE  Simulates(g, Alike(g))
<1> SUFFICES ASSUME NEW b \in Points, NEW p \in Places(g), <<b, p>> \in Alike(g)
             PROVE  Matched(g, Alike(g), b, p)
  BY DEF Simulates
<1>1. PICK R \in SUBSET Sides(g) : Simulates(g, R) /\ <<b, p>> \in R
  BY DEF Alike
<1>2. Matched(g, R, b, p)
  BY <1>1 DEF Simulates
<1> QED
  BY <1>1, <1>2, MatchedGrows, AlikeIsLargest

LEMMA AlikeMatched ==
  ASSUME NEW g, NEW b \in Points, NEW p \in Places(g), AreAlike(g, b, p)
  PROVE  Matched(g, Alike(g), b, p)
BY AlikeSimulates DEF Simulates, AreAlike

LEMMA EndedFacts ==
  ASSUME NEW g, NEW p \in Places(g), p # TheEnd, AreAlike(g, Ended, p)
  PROVE  /\ source.stmts[Here(g, p)] = 0
         /\ \A v \in TestOf(Here(g, p)) : AreAlike(g, Ended, Onward(g, p, v))
<1>1. Matched(g, Alike(g), Ended, p)
  BY AlikeMatched DEF Points
<1>2. Behind(g, Alike(g), Ended, p)
  BY <1>1 DEF Matched, Together, Ahead
<1> QED
  BY <1>2 DEF Behind, AreAlike

\* The end of both is related.
LEMMA EndsAreAlike ==
  ASSUME NEW g
  PROVE  AreAlike(g, Ended, TheEnd)
<1> DEFINE R == {<<Ended, TheEnd>>}
<1>1. R \in SUBSET Sides(g)
  BY DEF Sides, Points, Places
<1>2. Simulates(g, R)
  BY DEF Simulates, Matched
<1> HIDE DEF R
<1>3. R \subseteq Alike(g)
  BY <1>1, <1>2, AlikeIsLargest
<1> QED
  BY <1>3 DEF AreAlike, R

-----------------------------------------------------------------------------
(* The two executions, which move together whenever they can.              *)

Lockstep(g, R) ==
  \A b \in Points, p \in Places(g) : <<b, p>> \in R =>
    /\ b # Ended /\ Here(g, p) = b => Together(g, R, b, p)
    /\ b # Ended /\ Here(g, p) # b => Ahead(g, R, b, p)
    /\ b = Ended /\ p # TheEnd => Behind(g, R, b, p)
InStep(g, b, p) == \E R \in SUBSET Sides(g) : Lockstep(g, R) /\ <<b, p>> \in R

\* At q the graph can only wait, until the program ends or for ever: the
\* program may come by the same block, but the two must not go on from there.
Stuck(g, q) ==
  q # TheEnd /\ AreAlike(g, Here(g, q), q) /\ ~ Together(g, Alike(g), Here(g, q), q)
\* The program passes empty blocks while the graph waits at q; it does not
\* matter where else the graph is, if it is well there when the program ends.
Astray(g, q, b, p) ==
  AreAlike(g, b, q) /\ (AreAlike(g, Ended, q) => AreAlike(g, Ended, p))

LEMMA StuckFacts ==
  ASSUME source \in Programs, NEW g, NEW q \in Places(g), Stuck(g, q), NEW b \in Blocks, AreAlike(g, b, q)
  PROVE  /\ source.stmts[b] = 0
         /\ \A v \in TestOf(b) : AreAlike(g, Branch(source.succs[b], v), q)
<1>1. b \in Points /\ b # Ended
  BY SourceFacts DEF Points
<1>2. Matched(g, Alike(g), b, q)
  BY <1>1, AlikeMatched
<1>3. ~ Together(g, Alike(g), b, q)
  BY DEF Stuck, Together
<1>4. Ahead(g, Alike(g), b, q)
  BY <1>1, <1>2, <1>3 DEF Matched, Behind
<1> QED
  BY <1>4 DEF Ahead, AreAlike

LEMMA AstrayGoesOn ==
  ASSUME source \in Programs, NEW g, IsGraph(g), NEW q \in Places(g), Stuck(g, q),
         NEW b \in Blocks, NEW p \in Places(g), Astray(g, q, b, p), NEW v \in TestOf(b)
  PROVE  /\ Astray(g, q, Branch(source.succs[b], v), p)
         /\ Here(g, p) = b => Astray(g, q, Branch(source.succs[b], v), Onward(g, p, v))
<1>1. AreAlike(g, Branch(source.succs[b], v), q)
  BY StuckFacts DEF Astray
<1>2. ASSUME Here(g, p) = b, AreAlike(g, Ended, q) PROVE AreAlike(g, Ended, Onward(g, p, v))
  <2>1. p # TheEnd
    BY <1>2, SourceFacts DEF Here
  <2> QED
    BY <1>2, <2>1, EndedFacts DEF Astray
<1> QED
  BY <1>1, <1>2 DEF Astray

LEMMA LockstepFollows ==
  ASSUME source \in Programs, NEW g, IsGraph(g), NEW b0 \in Points, NEW p0 \in Places(g), AreAlike(g, b0, p0)
  PROVE  InStep(g, b0, p0)
<1> DEFINE Wandering(b, p) == \E q \in Places(g) : Stuck(g, q) /\ Astray(g, q, b, p)
           R == {x \in Sides(g) : x \in Alike(g) \/ Wandering(x[1], x[2])}
<1>1. \A b \in Points, p \in Places(g) :
        /\ AreAlike(g, b, p) => <<b, p>> \in R
        /\ Wandering(b, p) => <<b, p>> \in R
        /\ <<b, p>> \in R => AreAlike(g, b, p) \/ Wandering(b, p)
  BY DEF Sides, AreAlike
<1>2. R \in SUBSET Sides(g) /\ Alike(g) \subseteq R
  BY DEF Alike
<1> HIDE DEF R
<1>3. ASSUME NEW b \in Blocks, NEW v PROVE Branch(source.succs[b], v) \in Points
  BY SourceFacts
<1>4. ASSUME NEW b \in Points, NEW p \in Places(g), AreAlike(g, b, p), b = Ended, p # TheEnd
      PROVE  Behind(g, R, b, p)
  <2>1. \A v : Onward(g, p, v) \in Places(g)
    BY <1>4, PlaceFacts
  <2> QED
    BY <1>1, <1>4, <2>1, EndedFacts DEF Behind
<1>5. ASSUME NEW b \in Points, NEW p \in Places(g), Wandering(b, p)
      PROVE  /\ b # Ended /\ Here(g, p) = b => Together(g, R, b, p)
             /\ b # Ended => Ahead(g, R, b, p)
             /\ b = Ended => AreAlike(g, b, p)
  <2>1. PICK q \in Places(g) : Stuck(g, q) /\ Astray(g, q, b, p)
    BY <1>5
  <2>2. b = Ended => AreAlike(g, b, p)
    BY <2>1 DEF Astray
  <2>3. ASSUME b # Ended PROVE Ahead(g, R, b, p) /\ (Here(g, p) = b => Together(g, R, b, p))
    <3>1. b \in Blocks
      BY <2>3 DEF Points
    <3>2. \A v \in TestOf(b) : /\ Wandering(Branch(source.succs[b], v), p)
                               /\ Here(g, p) = b => Wandering(Branch(source.succs[b], v), Onward(g, p, v))
      BY <2>1, <3>1, AstrayGoesOn
    <3> HIDE DEF Wandering
    <3>3. source.stmts[b] = 0
      BY <2>1, <3>1, StuckFacts DEF Astray
    <3>4. ASSUME NEW v \in TestOf(b) PROVE <<Branch(source.succs[b], v), p>> \in R
      <4>1. Branch(source.succs[b], v) \in Points
        BY <1>3, <3>1
      <4>2. Wandering(Branch(source.succs[b], v), p)
        BY <3>2
      <4> QED
        BY <1>1, <4>1, <4>2
    <3>5. ASSUME Here(g, p) = b, NEW v \in TestOf(b) PROVE <<Branch(source.succs[b], v), Onward(g, p, v)>> \in R
      <4>1. Branch(source.succs[b], v) \in Points
        BY <1>3, <3>1
      <4>2. p # TheEnd
        BY <2>3, <3>5 DEF Here
      <4>3. Onward(g, p, v) \in Places(g)
        BY <4>2, PlaceFacts
      <4>4. Wandering(Branch(source.succs[b], v), Onward(g, p, v))
        BY <3>2, <3>5
      <4> QED
        BY <1>1, <4>1, <4>3, <4>4
    <3> QED
      BY <2>3, <3>3, <3>4, <3>5 DEF Ahead, Together
  <2> QED
    BY <2>2, <2>3
<1>6. ASSUME NEW b \in Points, NEW p \in Places(g), AreAlike(g, b, p), b # Ended
      PROVE  /\ Here(g, p) = b => Together(g, R, b, p)
             /\ Here(g, p) # b => Ahead(g, R, b, p)
  <2>1. b \in Blocks
    BY <1>6 DEF Points
  <2>2. Matched(g, Alike(g), b, p)
    BY <1>6, AlikeMatched
  <2>4. ASSUME Together(g, Alike(g), b, p) PROVE Together(g, R, b, p)
    BY <1>2, <2>4 DEF Together
  <2>5. ASSUME Ahead(g, Alike(g), b, p) PROVE Ahead(g, R, b, p)
    BY <1>2, <2>5 DEF Ahead
  <2>6. Together(g, Alike(g), b, p) \/ Ahead(g, Alike(g), b, p)
    BY <1>6, <2>2 DEF Matched, Behind
  <2>7. Here(g, p) # b => Ahead(g, R, b, p)
    BY <2>5, <2>6 DEF Together
  <2>8. ASSUME Here(g, p) = b, ~ Together(g, Alike(g), b, p) PROVE Together(g, R, b, p)
    <3>1. p # TheEnd
      BY <1>6, <2>8 DEF Here
    <3>2. Stuck(g, p)
      BY <1>6, <2>8, <3>1 DEF Stuck
    <3>3. Astray(g, p, b, p)
      BY <1>6 DEF Astray
    <3>4. Wandering(b, p)
      BY <3>2, <3>3
    <3> HIDE DEF Wandering
    <3> QED
      BY <1>5, <1>6, <2>8, <3>4
  <2> QED
    BY <2>4, <2>7, <2>8
<1>7. Lockstep(g, R)
  <2> SUFFICES ASSUME NEW b \in Points, NEW p \in Places(g), <<b, p>> \in R
               PROVE  /\ b # Ended /\ Here(g, p) = b => Together(g, R, b, p)
                      /\ b # Ended /\ Here(g, p) # b => Ahead(g, R, b, p)
                      /\ b = Ended /\ p # TheEnd => Behind(g, R, b, p)
    BY DEF Lockstep
  <2>1. AreAlike(g, b, p) \/ Wandering(b, p)
    BY <1>1
  <2> HIDE DEF Wandering
  <2> QED
    BY <1>4, <1>5, <1>6, <2>1
<1>8. <<b0, p0>> \in R
  BY <1>1
<1> QED
  BY <1>2, <1>7, <1>8 DEF InStep
-----------------------------------------------------------------------------
(* From a simulation of one graph to a simulation of another: f says where *)
(* the old graph has the places of the new one.                            *)

Follows(g, k, f) ==
  /\ f \in [Places(k) -> Places(g)]
  /\ \A p \in Places(k) : Here(k, p) = Here(g, f[p])
  /\ \A p \in Places(k) \ {TheEnd} : \A v \in TestOf(Here(k, p)) : \A b \in Points :
       AreAlike(g, b, Onward(g, f[p], v)) => AreAlike(g, b, f[Onward(k, p, v)])

LEMMA AlikeWhenFollowed ==
  ASSUME source \in Programs, NEW g, NEW k, IsGraph(g), IsGraph(k), NEW f, Follows(g, k, f),
         NEW b0 \in Points, NEW p0 \in Places(k), AreAlike(g, b0, f[p0])
  PROVE  AreAlike(k, b0, p0)
<1> DEFINE R == {x \in Sides(k) : AreAlike(g, x[1], f[x[2]])}
<1>1. \A b \in Points, p \in Places(k) : /\ AreAlike(g, b, f[p]) => <<b, p>> \in R
                                         /\ <<b, p>> \in R => AreAlike(g, b, f[p])
  BY DEF Sides
<1>2. R \in SUBSET Sides(k)
  OBVIOUS
<1> HIDE DEF R
<1>3. ASSUME NEW b \in Points, NEW p \in Places(k), <<b, p>> \in R PROVE Matched(k, R, b, p)
  <2>1. f[p] \in Places(g) /\ AreAlike(g, b, f[p]) /\ Here(k, p) = Here(g, f[p])
    BY <1>1, <1>3 DEF Follows
  <2>2. Matched(g, Alike(g), b, f[p])
    BY <2>1, AlikeMatched
  <2>3. p # TheEnd <=> f[p] # TheEnd
    <3>1. p = TheEnd => Here(k, p) = Ended
      BY DEF Here
    <3>2. f[p] = TheEnd => Here(g, f[p]) = Ended
      BY DEF Here
    <3>3. p # TheEnd => Here(k, p) # Ended
      BY PlaceFacts
    <3>4. f[p] # TheEnd => Here(g, f[p]) # Ended
      BY <2>1, PlaceFacts
    <3> QED
      BY <2>1, <3>1, <3>2, <3>3, <3>4
  <2>4. ASSUME NEW c \in Points, p # TheEnd, NEW v \in TestOf(Here(k, p)), AreAlike(g, c, Onward(g, f[p], v))
        PROVE  <<c, Onward(k, p, v)>> \in R
    <3>1. AreAlike(g, c, f[Onward(k, p, v)])
      BY <2>4 DEF Follows
    <3>2. Onward(k, p, v) \in Places(k)
      BY <2>4, PlaceFacts
    <3> QED
      BY <1>1, <3>1, <3>2
  <2>5. CASE Together(g, Alike(g), b, f[p])
    <3>1. b \in Blocks /\ b # Ended /\ Here(k, p) = b
      BY <2>1, <2>5 DEF Together, Points
    <3>2. p # TheEnd
      BY <3>1 DEF Here
    <3>3. ASSUME NEW v \in TestOf(b) PROVE <<Branch(source.succs[b], v), Onward(k, p, v)>> \in R
      <4>1. AreAlike(g, Branch(source.succs[b], v), Onward(g, f[p], v))
        BY <2>5 DEF Together, AreAlike
      <4>2. Branch(source.succs[b], v) \in Points
        BY <3>1, SourceFacts
      <4> QED
        BY <2>4, <3>1, <3>2, <4>1, <4>2
    <3> QED
      BY <3>1, <3>3 DEF Matched, Together
  <2>6. CASE Ahead(g, Alike(g), b, f[p])
    <3>1. b \in Blocks /\ b # Ended /\ source.stmts[b] = 0
      BY <2>6 DEF Ahead, Points
    <3>2. ASSUME NEW v \in TestOf(b) PROVE <<Branch(source.succs[b], v), p>> \in R
      <4>1. AreAlike(g, Branch(source.succs[b], v), f[p])
        BY <2>6 DEF Ahead, AreAlike
      <4>2. Branch(source.succs[b], v) \in Points
        BY <3>1, SourceFacts
      <4> QED
        BY <1>1, <4>1, <4>2
    <3> QED
      BY <3>1, <3>2 DEF Matched, Ahead
  <2>7. CASE Behind(g, Alike(g), b, f[p])
    <3>1. b = Ended /\ f[p] # TheEnd /\ source.stmts[Here(k, p)] = 0
      BY <2>1, <2>7 DEF Behind
    <3>2. ASSUME NEW v \in TestOf(Here(k, p)) PROVE <<Ended, Onward(k, p, v)>> \in R
      <4>1. AreAlike(g, Ended, Onward(g, f[p], v))
        BY <2>1, <2>7 DEF Behind, AreAlike
      <4>2. Ended \in Points /\ p # TheEnd
        BY <2>3, <3>1 DEF Points
      <4> QED
        BY <2>4, <4>1, <4>2
    <3> QED
      BY <2>3, <3>1, <3>2 DEF Matched, Behind
  <2>8. CASE b = Ended /\ f[p] = TheEnd
    BY <2>3, <2>8 DEF Matched
  <2> QED
    BY <2>2, <2>5, <2>6, <2>7, <2>8 DEF Matched
<1>4. Simulates(k, R)
  BY <1>3 DEF Simulates
<1>5. <<b0, p0>> \in R
  BY <1>1
<1> QED
  BY <1>2, <1>4, <1>5, AlikeIsLargest DEF AreAlike

-----------------------------------------------------------------------------
(* Chains without a statement.                                             *)

Silent(g, h) == \A i \in 1..Len(g.chain[h]) : source.stmts[g.chain[h][i]] = 0
\* All outcomes of its test lead h to d.
LeadsTo(g, h, d) == \A v : Branch(g.out[h], v) = d

LEMMA EmptyIsSilent ==
  ASSUME source \in Programs, NEW g, IsGraph(g), NEW h \in Blocks, ChainStmts(g, h) = {}
  PROVE  Silent(g, h)
<1> SUFFICES ASSUME NEW i \in 1..Len(g.chain[h]), source.stmts[g.chain[h][i]] # 0
             PROVE  FALSE
  BY DEF Silent
<1>1. source.stmts[g.chain[h][i]] \in Nat
  BY GraphFacts, SourceFacts
<1>2. i \in DOMAIN g.chain[h]
  BY DEF IsGraph
<1>3. <<i, 1>> \in {i} \X (1 .. source.stmts[g.chain[h][i]])
  BY <1>1
<1>4. <<i, 1>> \in ChainStmts(g, h)
  BY <1>2, <1>3 DEF ChainStmts
<1> QED
  BY <1>4

LEMMA NaturalInduction ==
  ASSUME NEW S \in SUBSET Nat, 0 \in S, \A n \in S : n + 1 \in S
  PROVE  S = Nat
<1> SUFFICES ASSUME Nat \ S # {} PROVE FALSE
  OBVIOUS
<1> DEFINE R == OpToRel(<, Nat)
<1>1. IsWellFoundedOn(R, Nat)
  BY NatLessThanWellFounded
<1>2. \A m, n \in Nat : m < n => <<m, n>> \in R
  BY DEF OpToRel
<1> HIDE DEF R
<1>3. PICK m \in Nat \ S : \A n \in Nat \ S : ~ (<<n, m>> \in R)
  BY <1>1, WFMin
<1>4. m # 0 /\ m - 1 \in Nat /\ m - 1 < m /\ (m - 1) + 1 = m
  OBVIOUS
<1>5. m - 1 \in S
  BY <1>2, <1>3, <1>4
<1> QED
  BY <1>4, <1>5

LEMMA SilentOnward ==
  ASSUME source \in Programs, NEW g, IsGraph(g), NEW h \in g.heads, Silent(g, h), NEW d, LeadsTo(g, h, d),
         NEW i \in 1..Len(g.chain[h])
  PROVE  /\ <<h, i>> \in Places(g) /\ <<h, i>> # TheEnd /\ Here(g, <<h, i>>) = g.chain[h][i]
         /\ Here(g, <<h, i>>) \in Blocks /\ source.stmts[Here(g, <<h, i>>)] = 0
         /\ \A v : Onward(g, <<h, i>>, v) = IF i < Len(g.chain[h]) THEN <<h, i + 1>> ELSE <<d, 1>>
<1>1. h \in Blocks /\ h # Ended
  BY HeadsArePlaces
<1>2. <<h, i>> \in Places(g) /\ <<h, i>> # TheEnd
  BY <1>1, GraphFacts DEF Places, InChain, TheEnd
<1>3. Here(g, <<h, i>>) = g.chain[h][i] /\ g.chain[h][i] \in Blocks
  BY <1>1, <1>2, GraphFacts DEF Here
<1>4. \A v : Onward(g, <<h, i>>, v) = IF i < Len(g.chain[h]) THEN <<h, i + 1>> ELSE <<d, 1>>
  BY DEF Onward, LeadsTo
<1> QED
  BY <1>2, <1>3, <1>4 DEF Silent

LEMMA EndedPassesBy ==
  ASSUME source \in Programs, NEW g, IsGraph(g), NEW h \in g.heads, Silent(g, h), NEW d, LeadsTo(g, h, d),
         NEW i \in 1..Len(g.chain[h]), AreAlike(g, Ended, <<h, i>>)
  PROVE  AreAlike(g, Ended, <<d, 1>>)
<1>1. PICK n \in Nat : n = Len(g.chain[h])
  BY GraphFacts DEF IsGraph
<1> DEFINE S == {m \in Nat : n - m \in 1..n => (AreAlike(g, Ended, <<h, n - m>>) => AreAlike(g, Ended, <<d, 1>>))}
<1>2. ASSUME NEW j \in 1..n, AreAlike(g, Ended, <<h, j>>)
      PROVE  IF j < n THEN AreAlike(g, Ended, <<h, j + 1>>) ELSE AreAlike(g, Ended, <<d, 1>>)
  <2>1. PICK v : v \in TestOf(Here(g, <<h, j>>))
    BY <1>1, SilentOnward, TestsHaveValues
  <2>2. AreAlike(g, Ended, Onward(g, <<h, j>>, v))
    BY <1>1, <1>2, <2>1, SilentOnward, EndedFacts
  <2>3. Onward(g, <<h, j>>, v) = IF j < n THEN <<h, j + 1>> ELSE <<d, 1>>
    BY <1>1, SilentOnward
  <2> QED
    BY <2>2, <2>3
<1>3. 0 \in S
  <2>1. n - 0 = n /\ ~ (n < n)
    BY <1>1
  <2> QED
    BY <1>2, <2>1
<1>4. ASSUME NEW m \in S PROVE m + 1 \in S
  <2> SUFFICES ASSUME n - (m + 1) \in 1..n, AreAlike(g, Ended, <<h, n - (m + 1)>>)
               PROVE  AreAlike(g, Ended, <<d, 1>>)
    OBVIOUS
  <2>1. n - (m + 1) < n /\ n - (m + 1) + 1 = n - m /\ n - m \in 1..n
    OBVIOUS
  <2>2. AreAlike(g, Ended, <<h, n - m>>)
    BY <1>2, <2>1
  <2> QED
    BY <2>1, <2>2
<1>5. S = Nat
  <2> HIDE DEF S
  <2>1. S \subseteq Nat
    BY DEF S
  <2> QED
    BY <1>3, <1>4, <2>1, NaturalInduction
<1>6. i \in 1..n /\ n - i \in Nat /\ n - (n - i) = i
  BY <1>1
<1> QED
  BY <1>5, <1>6

LEMMA PassedBy ==
  ASSUME source \in Programs, NEW g, IsGraph(g), NEW h \in g.heads, Silent(g, h), NEW d, LeadsTo(g, h, d),
         <<d, 1>> \in Places(g), NEW b0 \in Points, AreAlike(g, b0, <<h, 1>>)
  PROVE  AreAlike(g, b0, <<d, 1>>)
<1> DEFINE n == Len(g.chain[h])
           Before(b) == \E i \in 1..n : AreAlike(g, b, <<h, i>>)
           R == {x \in Sides(g) : x \in Alike(g) \/ (x[2] = <<d, 1>> /\ Before(x[1]))}
<1>1. \A b \in Points, p \in Places(g) : /\ AreAlike(g, b, p) => <<b, p>> \in R
                                         /\ p = <<d, 1>> /\ Before(b) => <<b, p>> \in R
                                         /\ <<b, p>> \in R => AreAlike(g, b, p) \/ (p = <<d, 1>> /\ Before(b))
  BY DEF Sides, AreAlike
<1>2. R \in SUBSET Sides(g) /\ Alike(g) \subseteq R
  BY DEF Alike
<1> HIDE DEF R
<1>3. ASSUME NEW b \in Points, Before(b), b = Ended PROVE AreAlike(g, b, <<d, 1>>)
  BY <1>3, EndedPassesBy
<1>4. ASSUME NEW b \in Points, Before(b), b # Ended PROVE Ahead(g, R, b, <<d, 1>>)
  <2>1. PICK i \in 1..n : AreAlike(g, b, <<h, i>>)
    BY <1>4
  <2>2. b \in Blocks
    BY <1>4 DEF Points
  <2>3. /\ <<h, i>> \in Places(g) /\ source.stmts[Here(g, <<h, i>>)] = 0
        /\ \A v : Onward(g, <<h, i>>, v) = IF i < n THEN <<h, i + 1>> ELSE <<d, 1>>
    BY SilentOnward
  <2>4. Matched(g, Alike(g), b, <<h, i>>)
    BY <2>1, <2>3, AlikeMatched
  <2>5. i + 1 \in 1..n \/ ~ (i < n)
    BY GraphFacts DEF IsGraph
  <2>6. source.stmts[b] = 0 /\ \A v \in TestOf(b) : \/ Before(Branch(source.succs[b], v))
                                                    \/ AreAlike(g, Branch(source.succs[b], v), <<d, 1>>)
    <3>1. CASE Together(g, Alike(g), b, <<h, i>>)
      <4>1. source.stmts[b] = 0
        BY <2>3, <3>1 DEF Together
      <4>2. ASSUME NEW v \in TestOf(b) PROVE \/ Before(Branch(source.succs[b], v))
                                             \/ AreAlike(g, Branch(source.succs[b], v), <<d, 1>>)
        <5>1. AreAlike(g, Branch(source.succs[b], v), Onward(g, <<h, i>>, v))
          BY <3>1 DEF Together, AreAlike
        <5>2. Onward(g, <<h, i>>, v) = IF i < n THEN <<h, i + 1>> ELSE <<d, 1>>
          BY <2>3
        <5>3. CASE i < n
          BY <2>5, <5>1, <5>2, <5>3
        <5>4. CASE ~ (i < n)
          BY <5>1, <5>2, <5>4
        <5> QED
          BY <5>3, <5>4
      <4> QED
        BY <4>1, <4>2
    <3>2. CASE Ahead(g, Alike(g), b, <<h, i>>)
      BY <3>2 DEF Ahead, AreAlike
    <3> QED
      BY <1>4, <2>4, <3>1, <3>2 DEF Matched, Behind
  <2> HIDE DEF Before
  <2>7. ASSUME NEW v \in TestOf(b) PROVE <<Branch(source.succs[b], v), <<d, 1>>>> \in R
    <3>1. Branch(source.succs[b], v) \in Points
      BY <2>2, SourceFacts
    <3> QED
      BY <1>1, <2>6, <3>1
  <2> QED
    BY <1>4, <2>6, <2>7 DEF Ahead
<1>5. Simulates(g, R)
  <2> SUFFICES ASSUME NEW b \in Points, NEW p \in Places(g), <<b, p>> \in R PROVE Matched(g, R, b, p)
    BY DEF Simulates
  <2>1. CASE AreAlike(g, b, p)
    BY <1>2, <2>1, AlikeMatched, MatchedGrows
  <2>2. CASE ~ AreAlike(g, b, p)
    <3>1. p = <<d, 1>> /\ Before(b)
      BY <1>1, <2>2
    <3> HIDE DEF Before
    <3> QED
      BY <1>3, <1>4, <2>2, <3>1 DEF Matched
  <2> QED
    BY <2>1, <2>2
<1>6. Before(b0)
  <2>1. 1 \in 1..n
    BY HeadsArePlaces, GraphFacts
  <2> QED
    BY <2>1
<1> HIDE DEF Before
<1>7. <<b0, <<d, 1>>>> \in R
  BY <1>1, <1>6
<1> QED
  BY <1>2, <1>5, <1>7, AlikeIsLargest DEF AreAlike

\* What may be at the end may be at the start of an empty exit.
LEMMA BackToExit ==
  ASSUME source \in Programs, NEW g, IsGraph(g), NEW h \in g.heads, Silent(g, h), LeadsTo(g, h, Ended),
         NEW b0 \in Points, AreAlike(g, b0, TheEnd)
  PROVE  AreAlike(g, b0, <<h, 1>>)
<1> DEFINE n == Len(g.chain[h])
           R == {x \in Sides(g) : x \in Alike(g) \/ (AreAlike(g, x[1], TheEnd) /\ \E i \in 1..n : x[2] = <<h, i>>)}
<1>1. \A b \in Points, p \in Places(g) :
        /\ AreAlike(g, b, p) => <<b, p>> \in R
        /\ AreAlike(g, b, TheEnd) /\ (\E i \in 1..n : p = <<h, i>>) => <<b, p>> \in R
        /\ <<b, p>> \in R => AreAlike(g, b, p) \/ (AreAlike(g, b, TheEnd) /\ \E i \in 1..n : p = <<h, i>>)
  BY DEF Sides, AreAlike
<1>2. R \in SUBSET Sides(g) /\ Alike(g) \subseteq R
  BY DEF Alike
<1> HIDE DEF R
<1>3. ASSUME NEW b \in Points, AreAlike(g, b, TheEnd), NEW i \in 1..n PROVE Matched(g, R, b, <<h, i>>)
  <2>1. /\ <<h, i>> \in Places(g) /\ <<h, i>> # TheEnd /\ source.stmts[Here(g, <<h, i>>)] = 0
        /\ \A v : Onward(g, <<h, i>>, v) = IF i < n THEN <<h, i + 1>> ELSE <<Ended, 1>>
    BY SilentOnward
  <2>2. TheEnd \in Places(g) /\ Here(g, TheEnd) = Ended
    BY DEF Places, Here
  <2>3. Matched(g, Alike(g), b, TheEnd)
    BY <1>3, <2>2, AlikeMatched
  <2>4. CASE b = Ended
    <3>1. ASSUME NEW v PROVE <<Ended, Onward(g, <<h, i>>, v)>> \in R
      <4>1. CASE i < n
        <5>1. i + 1 \in 1..n
          BY <4>1, GraphFacts DEF IsGraph
        <5>2. <<h, i + 1>> \in Places(g)
          BY <5>1, SilentOnward
        <5>3. Onward(g, <<h, i>>, v) = <<h, i + 1>>
          BY <2>1, <4>1
        <5> QED
          BY <1>1, <1>3, <2>4, <5>1, <5>2, <5>3
      <4>2. CASE ~ (i < n)
        <5>1. Onward(g, <<h, i>>, v) = TheEnd
          BY <2>1, <4>2 DEF TheEnd
        <5> QED
          BY <1>1, <1>3, <2>2, <2>4, <5>1
      <4> QED
        BY <4>1, <4>2
    <3> QED
      BY <2>1, <2>4, <3>1 DEF Matched, Behind
  <2>5. CASE b # Ended
    <3>1. b \in Blocks
      BY <2>5 DEF Points
    <3>2. Ahead(g, Alike(g), b, TheEnd)
      BY <2>2, <2>3, <2>5 DEF Matched, Together, Behind
    <3>3. ASSUME NEW v \in TestOf(b) PROVE <<Branch(source.succs[b], v), <<h, i>>>> \in R
      <4>1. AreAlike(g, Branch(source.succs[b], v), TheEnd)
        BY <3>2 DEF Ahead, AreAlike
      <4>2. Branch(source.succs[b], v) \in Points
        BY <3>1, SourceFacts
      <4> QED
        BY <1>1, <2>1, <4>1, <4>2
    <3> QED
      BY <3>2, <3>3 DEF Matched, Ahead
  <2> QED
    BY <2>4, <2>5
<1>4. Simulates(g, R)
  <2> SUFFICES ASSUME NEW b \in Points, NEW p \in Places(g), <<b, p>> \in R PROVE Matched(g, R, b, p)
    BY DEF Simulates
  <2>1. CASE AreAlike(g, b, p)
    BY <1>2, <2>1, AlikeMatched, MatchedGrows
  <2>2. CASE ~ AreAlike(g, b, p)
    BY <1>1, <1>3, <2>2
  <2> QED
    BY <2>1, <2>2
<1>5. 1 \in 1..n /\ <<h, 1>> \in Places(g)
  BY GraphFacts, HeadsArePlaces
<1>6. <<b0, <<h, 1>>>> \in R
  BY <1>1, <1>5
<1> QED
  BY <1>2, <1>4, <1>6, AlikeIsLargest DEF AreAlike
-----------------------------------------------------------------------------
(* The transforms.                                                         *)

Sound(g) == IsGraph(g) /\ g.entry \in g.heads /\ Equivalent(g)

\* The two graphs have the same places, or the new one has fewer, and the
\* edges behind those lead to the same heads.
LEMMA SameEdges ==
  ASSUME source \in Programs, NEW g, NEW k, Sound(g), IsGraph(k), k.entry = g.entry, k.entry \in k.heads,
         k.heads \subseteq g.heads, k.chain = g.chain,
         \A h \in k.heads : \A v \in TestOf(g.chain[h][Len(g.chain[h])]) : Branch(k.out[h], v) = Branch(g.out[h], v)
  PROVE  Sound(k)
<1> DEFINE f == [p \in Places(k) |-> p]
<1>1. Places(k) \subseteq Places(g)
  BY DEF Places, InChain
<1>2. Follows(g, k, f)
  <2>1. f \in [Places(k) -> Places(g)]
    BY <1>1
  <2>2. \A p \in Places(k) : Here(k, p) = Here(g, f[p])
    BY DEF Here
  <2>3. ASSUME NEW p \in Places(k) \ {TheEnd}, NEW v \in TestOf(Here(k, p))
        PROVE  Onward(g, p, v) = Onward(k, p, v)
    <3>1. p[1] \in k.heads /\ p[2] \in 1..Len(k.chain[p[1]]) /\ Here(k, p) = k.chain[p[1]][p[2]]
      BY PlaceFacts DEF InChain
    <3>2. CASE p[2] < Len(k.chain[p[1]])
      BY <3>2 DEF Onward
    <3>3. CASE ~ (p[2] < Len(k.chain[p[1]]))
      <4>1. p[2] = Len(k.chain[p[1]])
        BY <3>1, <3>3, GraphFacts DEF IsGraph
      <4>2. Branch(k.out[p[1]], v) = Branch(g.out[p[1]], v)
        BY <3>1, <4>1
      <4> QED
        BY <3>3, <4>2 DEF Onward
    <3> QED
      BY <3>2, <3>3
  <2>4. \A p \in Places(k) \ {TheEnd} : \A v \in TestOf(Here(k, p)) : \A b \in Points :
          AreAlike(g, b, Onward(g, f[p], v)) => AreAlike(g, b, f[Onward(k, p, v)])
    <3> SUFFICES ASSUME NEW p \in Places(k) \ {TheEnd}, NEW v \in TestOf(Here(k, p)), NEW b \in Points,
                        AreAlike(g, b, Onward(g, f[p], v))
                 PROVE  AreAlike(g, b, f[Onward(k, p, v)])
      OBVIOUS
    <3>1. Onward(k, p, v) \in Places(k)
      BY PlaceFacts
    <3> QED
      BY <2>3, <3>1
  <2> QED
    BY <2>1, <2>2, <2>4 DEF Follows
<1>3. <<k.entry, 1>> \in Places(k) /\ 1 \in Points
  BY HeadsArePlaces, SourceFacts DEF Points
<1>4. AreAlike(g, 1, f[<<k.entry, 1>>])
  BY <1>3 DEF Sound, Equivalent
<1> HIDE DEF f
<1>5. AreAlike(k, 1, <<k.entry, 1>>)
  BY <1>2, <1>3, <1>4, AlikeWhenFollowed DEF Sound
<1> QED
  BY <1>5 DEF Sound, Equivalent

\* New edges for one head.
WithEdges(g, h, f) == [g EXCEPT !.out[h] = f]

LEMMA WithEdgesIs ==
  ASSUME source \in Programs, NEW g, IsGraph(g), NEW h \in g.heads, NEW f, f \in [DOMAIN f -> g.heads]
  PROVE  LET k == WithEdges(g, h, f)
         IN  /\ IsGraph(k) /\ k.entry = g.entry /\ k.heads = g.heads /\ k.chain = g.chain /\ k.dup = g.dup
             /\ \A x \in Blocks : k.out[x] = IF x = h THEN f ELSE g.out[x]
<1> DEFINE k == WithEdges(g, h, f)
           o == [g.out EXCEPT ![h] = f]
<1>1. g = [entry |-> g.entry, heads |-> g.heads, chain |-> g.chain, out |-> g.out, dup |-> g.dup]
  BY DEF IsGraph
<1>2. o = [x \in Blocks |-> IF x = h THEN f ELSE g.out[x]]
  BY DEF IsGraph
<1>3. k = [g EXCEPT !.out = o]
  BY DEF WithEdges
<1> HIDE DEF o
<1>4. k = [entry |-> g.entry, heads |-> g.heads, chain |-> g.chain, out |-> o, dup |-> g.dup]
  BY <1>1, <1>3
<1> HIDE DEF k
<1>5. k.entry = g.entry /\ k.heads = g.heads /\ k.chain = g.chain /\ k.dup = g.dup /\ k.out = o
  BY <1>4
<1>6. \A x \in Blocks : k.out[x] = IF x = h THEN f ELSE g.out[x]
  BY <1>2, <1>5
<1>7. \A x \in Blocks : k.out[x] \in [DOMAIN k.out[x] -> k.heads]
  BY <1>5, <1>6 DEF IsGraph
<1>8. \A x \in Blocks \ k.heads : k.out[x] = NoEdges
  BY <1>5, <1>6 DEF IsGraph
<1>9. k = [entry |-> k.entry, heads |-> k.heads, chain |-> k.chain, out |-> k.out, dup |-> k.dup]
      /\ k.out = [x \in Blocks |-> k.out[x]]
  BY <1>2, <1>4, <1>5
<1>10. IsGraph(k)
  BY <1>5, <1>7, <1>8, <1>9 DEF IsGraph
<1> QED
  BY <1>5, <1>6, <1>10 DEF k

LEMMA NewEdgesSound ==
  ASSUME source \in Programs, NEW g, Sound(g), NEW h \in g.heads, NEW f, f \in [DOMAIN f -> g.heads],
         \A v \in TestOf(g.chain[h][Len(g.chain[h])]) : Branch(f, v) = Branch(g.out[h], v)
  PROVE  Sound(WithEdges(g, h, f))
<1> DEFINE k == WithEdges(g, h, f)
<1>1. /\ IsGraph(k) /\ k.entry = g.entry /\ k.heads = g.heads /\ k.chain = g.chain
      /\ \A x \in Blocks : k.out[x] = IF x = h THEN f ELSE g.out[x]
  BY WithEdgesIs DEF Sound
<1> HIDE DEF k
<1>2. \A x \in k.heads : \A v \in TestOf(g.chain[x][Len(g.chain[x])]) : Branch(k.out[x], v) = Branch(g.out[x], v)
  BY <1>1 DEF Sound, IsGraph
<1>3. k.entry \in k.heads
  BY <1>1 DEF Sound
<1>4. Sound(k)
  BY <1>1, <1>2, <1>3, SameEdges
<1> QED
  BY <1>4 DEF k

LEMMA FoldTestSound ==
  ASSUME source \in Programs, NEW g, Sound(g), NEW h \in g.heads
  PROVE  Sound(FoldTest(g, h))
<1> DEFINE t == source.test[Last(g.chain[h])]
           o == g.out[h]
           taken == IF t \in DOMAIN o THEN {o[t]} ELSE IF Default \in DOMAIN o THEN {o[Default]} ELSE {}
           f == [k \in {Default : d \in taken} |-> CHOOSE d \in taken : TRUE]
<1>1. CASE ~ HasValueEdge(g, h) \/ t = Varying
  BY <1>1 DEF FoldTest
<1>2. CASE HasValueEdge(g, h) /\ t # Varying
  <2>1. FoldTest(g, h) = WithEdges(g, h, f)
    BY <1>2 DEF FoldTest, WithEdges
  <2>2. o \in [DOMAIN o -> g.heads]
    BY DEF Sound, IsGraph
  <2>3. TestOf(g.chain[h][Len(g.chain[h])]) = {t}
    BY <1>2 DEF TestOf, Last
  <2>4. f \in [DOMAIN f -> g.heads] /\ Branch(f, t) = Branch(o, t)
    <3>1. CASE taken = {}
      <4>1. DOMAIN f = {}
        BY <3>1
      <4>2. Branch(f, t) = Ended
        BY <4>1 DEF Branch
      <4>3. Branch(o, t) = Ended
        BY <3>1 DEF Branch
      <4> QED
        BY <4>1, <4>2, <4>3
    <3>2. CASE taken # {}
      <4>1. PICK d : taken = {d} /\ d \in g.heads /\ Branch(o, t) = d
        BY <2>2, <3>2 DEF Branch
      <4>2. f = [k \in {Default} |-> d]
        BY <4>1
      <4>3. Branch(f, t) = d
        BY <4>2 DEF Branch
      <4> QED
        BY <4>1, <4>2, <4>3
    <3> QED
      BY <3>1, <3>2
  <2> HIDE DEF f, t
  <2>5. Sound(WithEdges(g, h, f))
    BY <2>3, <2>4, NewEdgesSound
  <2> QED
    BY <2>1, <2>5
<1> QED
  BY <1>1, <1>2

LEMMA DropRedundantSound ==
  ASSUME source \in Programs, NEW g, Sound(g), NEW h \in g.heads
  PROVE  Sound(DropRedundant(g, h))
<1> DEFINE o == g.out[h]
           f == [k \in {Default} \cup {c \in DOMAIN o : o[c] # o[Default]} |-> o[k]]
<1>1. CASE Default \notin DOMAIN o
  BY <1>1 DEF DropRedundant
<1>2. CASE Default \in DOMAIN o
  <2>1. DropRedundant(g, h) = WithEdges(g, h, f)
    BY <1>2 DEF DropRedundant, WithEdges, Sound, IsGraph
  <2>2. o \in [DOMAIN o -> g.heads]
    BY DEF Sound, IsGraph
  <2>3. f \in [DOMAIN f -> g.heads]
    BY <1>2, <2>2
  <2>4. \A v : Branch(f, v) = Branch(o, v)
    BY <1>2 DEF Branch
  <2> HIDE DEF f
  <2>5. Sound(WithEdges(g, h, f))
    BY <2>3, <2>4, NewEdgesSound
  <2> QED
    BY <2>1, <2>5
<1> QED
  BY <1>1, <1>2

LEMMA NoEdgesFacts ==
  ASSUME NEW S
  PROVE  NoEdges \in [DOMAIN NoEdges -> S] /\ \A v : Branch(NoEdges, v) = Ended
BY DEF NoEdges, Branch

LEMMA ReachedFacts ==
  ASSUME NEW out, NEW e \in Blocks, NEW H \in SUBSET Blocks, e \in H, Closed(out, H),
         \A h \in H : out[h] \in [DOMAIN out[h] -> H]
  PROVE  /\ e \in Reached(out, e) /\ Reached(out, e) \subseteq H
         /\ \A h \in Reached(out, e) : out[h] \in [DOMAIN out[h] -> Reached(out, e)]
<1>1. e \in Reached(out, e) /\ Reached(out, e) \subseteq H
  BY DEF Reached
<1>2. ASSUME NEW h \in Reached(out, e), NEW k \in DOMAIN out[h] PROVE out[h][k] \in Reached(out, e)
  <2>1. out[h][k] \in Blocks /\ out[h][k] \in Range(out[h])
    BY <1>1 DEF Range
  <2>2. ASSUME NEW S \in SUBSET Blocks, e \in S, Closed(out, S) PROVE out[h][k] \in S
    <3>1. h \in S
      BY <2>2 DEF Reached
    <3> QED
      BY <2>1, <2>2, <3>1 DEF Closed
  <2> QED
    BY <2>1, <2>2 DEF Reached
<1>3. ASSUME NEW h \in Reached(out, e) PROVE out[h] \in [DOMAIN out[h] -> Reached(out, e)]
  <2>1. out[h] \in [DOMAIN out[h] -> H]
    BY <1>1
  <2> QED
    BY <1>2, <2>1
<1> QED
  BY <1>1, <1>3

LEMMA PrunedSound ==
  ASSUME source \in Programs, NEW g, Sound(g)
  PROVE  Sound(Pruned(g)) /\ Pruned(g).heads \subseteq g.heads /\ Pruned(g).chain = g.chain
<1> DEFINE alive == Reached(g.out, g.entry)
           k == Pruned(g)
           o == [h \in Blocks |-> IF h \in alive THEN g.out[h] ELSE NoEdges]
<1>1. IsGraph(g) /\ g.entry \in g.heads /\ g.heads \subseteq Blocks
  BY DEF Sound, IsGraph
<1>2. \A h \in g.heads : g.out[h] \in [DOMAIN g.out[h] -> g.heads]
  BY <1>1 DEF IsGraph
<1>3. Closed(g.out, g.heads)
  BY <1>2 DEF Closed, Range
<1>4. /\ g.entry \in alive /\ alive \subseteq g.heads
      /\ \A h \in alive : g.out[h] \in [DOMAIN g.out[h] -> alive]
  BY <1>1, <1>2, <1>3, ReachedFacts
<1>5. k = [g EXCEPT !.heads = g.heads \cap alive, !.out = o]
  BY DEF Pruned
<1> HIDE DEF alive, o
<1>6. k = [entry |-> g.entry, heads |-> alive, chain |-> g.chain, out |-> o, dup |-> g.dup]
  <2>1. g = [entry |-> g.entry, heads |-> g.heads, chain |-> g.chain, out |-> g.out, dup |-> g.dup]
    BY <1>1 DEF IsGraph
  <2>2. g.heads \cap alive = alive
    BY <1>4
  <2> QED
    BY <1>5, <2>1, <2>2
<1> HIDE DEF k
<1>7. k.entry = g.entry /\ k.heads = alive /\ k.chain = g.chain /\ k.out = o /\ k.dup = g.dup
  BY <1>6
<1>8. \A h \in Blocks : o[h] = IF h \in alive THEN g.out[h] ELSE NoEdges
  BY DEF o
<1>9. IsGraph(k)
  <2>1. k = [entry |-> k.entry, heads |-> k.heads, chain |-> k.chain, out |-> k.out, dup |-> k.dup]
    BY <1>6, <1>7
  <2>2. k.out = [h \in Blocks |-> k.out[h]]
    BY <1>7, <1>8 DEF o
  <2>3. ASSUME NEW h \in Blocks PROVE k.out[h] \in [DOMAIN k.out[h] -> k.heads]
    <3>1. CASE h \in alive
      BY <1>4, <1>7, <1>8, <3>1
    <3>2. CASE h \notin alive
      BY <1>7, <1>8, <3>2, NoEdgesFacts
    <3> QED
      BY <3>1, <3>2
  <2>4. \A h \in Blocks \ k.heads : k.out[h] = NoEdges
    BY <1>7, <1>8
  <2>5. k.heads \subseteq Blocks /\ k.chain \in [Blocks -> Seq(Blocks)] /\ \A h \in Blocks : k.chain[h] # <<>>
    BY <1>1, <1>4, <1>7 DEF IsGraph
  <2> QED
    BY <2>1, <2>2, <2>3, <2>4, <2>5 DEF IsGraph
<1>10. \A h \in k.heads : \A v \in TestOf(g.chain[h][Len(g.chain[h])]) : Branch(k.out[h], v) = Branch(g.out[h], v)
  BY <1>1, <1>4, <1>7, <1>8
<1>11. k.entry \in k.heads /\ k.heads \subseteq g.heads
  BY <1>4, <1>7
<1>12. Sound(k)
  BY <1>7, <1>9, <1>10, <1>11, SameEdges
<1> QED
  BY <1>7, <1>11, <1>12 DEF k

\* To begin with, the graph is the program.
LEMMA BuiltSound ==
  ASSUME source \in Programs
  PROVE  Sound(Built) /\ \A h \in Blocks : Built.chain[h] = <<h>>
<1> DEFINE alive == Reached(source.succs, 1)
           o == [b \in Blocks |-> IF b \in alive THEN source.succs[b] ELSE NoEdges]
           c == [b \in Blocks |-> <<b>>]
           g == Built
<1>1. /\ 1 \in alive /\ alive \subseteq Blocks
      /\ \A h \in alive : source.succs[h] \in [DOMAIN source.succs[h] -> alive]
  <2>1. Closed(source.succs, Blocks)
    BY SourceFacts DEF Closed, Range
  <2> QED
    BY <2>1, ReachedFacts, SourceFacts
<1>2. g = [entry |-> 1, heads |-> alive, chain |-> c, out |-> o, dup |-> {}]
  BY DEF Built
<1> HIDE DEF g, c, o, alive
<1>3. g.entry = 1 /\ g.heads = alive /\ g.chain = c /\ g.out = o /\ g.dup = {}
  BY <1>2
<1>4. \A h \in Blocks : c[h] = <<h>> /\ o[h] = IF h \in alive THEN source.succs[h] ELSE NoEdges
  BY DEF c, o
<1>5. IsGraph(g)
  <2>1. g = [entry |-> g.entry, heads |-> g.heads, chain |-> g.chain, out |-> g.out, dup |-> g.dup]
    BY <1>2, <1>3
  <2>2. g.out = [h \in Blocks |-> g.out[h]]
    BY <1>3 DEF o
  <2>3. ASSUME NEW h \in Blocks PROVE g.out[h] \in [DOMAIN g.out[h] -> g.heads]
    <3>1. CASE h \in alive
      BY <1>1, <1>3, <1>4, <3>1
    <3>2. CASE h \notin alive
      BY <1>3, <1>4, <3>2, NoEdgesFacts
    <3> QED
      BY <3>1, <3>2
  <2>4. \A h \in Blocks \ g.heads : g.out[h] = NoEdges
    BY <1>3, <1>4
  <2>5. g.chain \in [Blocks -> Seq(Blocks)]
    BY <1>3 DEF c
  <2>6. ASSUME NEW h \in Blocks PROVE g.chain[h] # <<>>
    <3>1. <<h>> # <<>>
      OBVIOUS
    <3>2. g.chain[h] = <<h>>
      BY <1>3, <1>4
    <3> QED
      BY <3>1, <3>2
  <2> QED
    BY <1>1, <1>3, <2>1, <2>2, <2>3, <2>4, <2>5, <2>6 DEF IsGraph
<1> DEFINE R == {<<b, <<b, 1>>>> : b \in alive} \cup {<<Ended, TheEnd>>}
<1>6. R \in SUBSET Sides(g)
  <2>1. \A b \in alive : b \in Points /\ <<b, 1>> \in Places(g)
    BY <1>1, <1>3, <1>5, HeadsArePlaces DEF Points
  <2> QED
    BY <2>1 DEF Sides, Points, Places
<1>7. ASSUME NEW b \in alive PROVE Together(g, R, b, <<b, 1>>)
  <2>1. b \in Blocks /\ b # Ended /\ <<b, 1>> # TheEnd /\ g.chain[b] = <<b>>
    BY <1>1, <1>3, <1>4, SourceFacts DEF TheEnd
  <2>2. Here(g, <<b, 1>>) = b
    BY <2>1 DEF Here
  <2>3. ASSUME NEW v PROVE <<Branch(source.succs[b], v), Onward(g, <<b, 1>>, v)>> \in R
    <3>1. Onward(g, <<b, 1>>, v) = <<Branch(g.out[b], v), 1>>
      BY <2>1 DEF Onward
    <3>2. g.out[b] = source.succs[b]
      BY <1>1, <1>3, <1>4
    <3>3. Branch(source.succs[b], v) \in alive \/ Branch(source.succs[b], v) = Ended
      BY <1>1 DEF Branch
    <3> QED
      BY <3>1, <3>2, <3>3 DEF TheEnd
  <2> QED
    BY <2>1, <2>2, <2>3 DEF Together
<1>8. Simulates(g, R)
  BY <1>7 DEF Simulates, Matched
<1>9. <<1, <<g.entry, 1>>>> \in R
  BY <1>1, <1>3
<1> HIDE DEF R
<1>10. Equivalent(g)
  BY <1>6, <1>8, <1>9, AlikeIsLargest DEF Equivalent, AreAlike
<1> QED
  BY <1>1, <1>3, <1>4, <1>5, <1>10 DEF Sound, g

\* Edges into the blocks of S lead to c instead; e is the entry then.
Redirected(g, S, c, e) == [Redirect(g, S, c) EXCEPT !.entry = e]

IsRedirected(g, k, S, c, e) ==
  /\ IsGraph(k) /\ k.entry = e /\ k.heads = g.heads \ S /\ k.chain = g.chain /\ k.dup = g.dup
  /\ \A x \in k.heads : \A v : Branch(k.out[x], v) = IF Branch(g.out[x], v) \in S THEN c ELSE Branch(g.out[x], v)

LEMMA RedirectedIs ==
  ASSUME source \in Programs, NEW g, IsGraph(g), NEW S \in SUBSET g.heads, NEW c \in g.heads \ S, NEW e \in g.heads \ S
  PROVE  IsRedirected(g, Redirected(g, S, c, e), S, c, e)
<1> DEFINE k == Redirected(g, S, c, e)
           moved(f) == [v \in DOMAIN f |-> IF f[v] \in S THEN c ELSE f[v]]
           o == [x \in Blocks |-> IF x \in S THEN NoEdges ELSE moved(g.out[x])]
<1>1. k = [g EXCEPT !.heads = g.heads \ S, !.out = o, !.entry = e]
  BY DEF Redirected, Redirect
<1>2. \A x \in Blocks : o[x] = IF x \in S THEN NoEdges ELSE moved(g.out[x])
  OBVIOUS
<1>3. o = [x \in Blocks |-> o[x]]
  OBVIOUS
<1> HIDE DEF o
<1>4. k = [entry |-> e, heads |-> g.heads \ S, chain |-> g.chain, out |-> o, dup |-> g.dup]
  <2>1. g = [entry |-> g.entry, heads |-> g.heads, chain |-> g.chain, out |-> g.out, dup |-> g.dup]
    BY DEF IsGraph
  <2> QED
    BY <1>1, <2>1
<1> HIDE DEF k
<1>5. k.entry = e /\ k.heads = g.heads \ S /\ k.chain = g.chain /\ k.out = o /\ k.dup = g.dup
  BY <1>4
<1>6. ASSUME NEW x \in Blocks PROVE moved(g.out[x]) \in [DOMAIN moved(g.out[x]) -> k.heads]
  <2>1. g.out[x] \in [DOMAIN g.out[x] -> g.heads]
    BY DEF IsGraph
  <2> QED
    BY <1>5, <2>1
<1>7. ASSUME NEW x \in k.heads, NEW v
      PROVE  Branch(k.out[x], v) = IF Branch(g.out[x], v) \in S THEN c ELSE Branch(g.out[x], v)
  <2>1. x \in Blocks /\ x \notin S /\ k.out[x] = moved(g.out[x])
    BY <1>2, <1>5 DEF IsGraph
  <2>2. Ended \notin S
    BY HeadsArePlaces
  <2> QED
    BY <2>1, <2>2 DEF Branch
<1>8. ASSUME NEW x \in Blocks PROVE k.out[x] \in [DOMAIN k.out[x] -> k.heads]
  <2>1. CASE x \in S
    BY <1>2, <1>5, <2>1, NoEdgesFacts
  <2>2. CASE x \notin S
    <3>1. k.out[x] = moved(g.out[x])
      BY <1>2, <1>5, <2>2
    <3> HIDE DEF moved
    <3> QED
      BY <1>6, <3>1
  <2> QED
    BY <2>1, <2>2
<1>9. ASSUME NEW x \in Blocks \ k.heads PROVE k.out[x] = NoEdges
  <2>1. CASE x \in S
    BY <1>2, <1>5, <2>1
  <2>2. CASE x \notin S
    <3>1. g.out[x] = NoEdges
      BY <1>5, <2>2 DEF IsGraph
    <3>2. moved(NoEdges) = NoEdges
      BY DEF NoEdges
    <3> QED
      BY <1>2, <1>5, <2>2, <3>1, <3>2
  <2> QED
    BY <2>1, <2>2
<1>10. IsGraph(k)
  <2>1. k = [entry |-> k.entry, heads |-> k.heads, chain |-> k.chain, out |-> k.out, dup |-> k.dup]
        /\ k.out = [x \in Blocks |-> k.out[x]]
    BY <1>3, <1>4, <1>5
  <2>2. k.heads \subseteq Blocks /\ k.chain \in [Blocks -> Seq(Blocks)] /\ \A h \in Blocks : k.chain[h] # <<>>
    BY <1>5 DEF IsGraph
  <2> QED
    BY <1>8, <1>9, <2>1, <2>2 DEF IsGraph
<1> QED
  BY <1>5, <1>7, <1>10 DEF IsRedirected, k

LEMMA RedirectedSound ==
  ASSUME source \in Programs, NEW g, Sound(g), NEW S \in SUBSET g.heads, NEW c \in g.heads \ S,
         NEW e, e = IF g.entry \in S THEN c ELSE g.entry,
         \A b \in Points : \A h \in S : AreAlike(g, b, <<h, 1>>) => AreAlike(g, b, <<c, 1>>)
  PROVE  Sound(Redirected(g, S, c, e))
<1> DEFINE k == Redirected(g, S, c, e)
           f == [p \in Places(k) |-> p]
<1>1. IsGraph(g) /\ g.entry \in g.heads /\ e \in g.heads \ S /\ 1 \in Points
  BY SourceFacts DEF Sound, Points
<1>2. /\ IsGraph(k) /\ k.entry = e /\ k.heads = g.heads \ S /\ k.chain = g.chain
      /\ \A x \in k.heads : \A v : Branch(k.out[x], v) = IF Branch(g.out[x], v) \in S THEN c ELSE Branch(g.out[x], v)
  <2>1. IsRedirected(g, k, S, c, e)
    BY <1>1, RedirectedIs
  <2> QED
    BY <2>1 DEF IsRedirected
<1> HIDE DEF k
<1>3. Places(k) \subseteq Places(g)
  BY <1>2 DEF Places, InChain
<1>4. ASSUME NEW p \in Places(k) \ {TheEnd}, NEW v, NEW b \in Points, AreAlike(g, b, Onward(g, p, v))
      PROVE  AreAlike(g, b, Onward(k, p, v))
  <2>1. p[1] \in k.heads
    BY <1>2, PlaceFacts DEF InChain
  <2>2. CASE p[2] < Len(g.chain[p[1]])
    BY <1>2, <1>4, <2>2 DEF Onward
  <2>3. CASE ~ (p[2] < Len(g.chain[p[1]]))
    <3>1. Onward(g, p, v) = <<Branch(g.out[p[1]], v), 1>> /\ Onward(k, p, v) = <<Branch(k.out[p[1]], v), 1>>
      BY <1>2, <2>3 DEF Onward
    <3>2. Branch(k.out[p[1]], v) = IF Branch(g.out[p[1]], v) \in S THEN c ELSE Branch(g.out[p[1]], v)
      BY <1>2, <2>1
    <3> QED
      BY <1>4, <3>1, <3>2
  <2> QED
    BY <2>2, <2>3
<1>5. Follows(g, k, f)
  <2>1. f \in [Places(k) -> Places(g)] /\ \A p \in Places(k) : Here(k, p) = Here(g, f[p])
    BY <1>2, <1>3 DEF Here
  <2>2. \A p \in Places(k) \ {TheEnd} : \A v : Onward(k, p, v) \in Places(k)
    BY <1>2, PlaceFacts
  <2> QED
    BY <1>4, <2>1, <2>2 DEF Follows
<1>6. <<e, 1>> \in Places(k)
  BY <1>1, <1>2, HeadsArePlaces
<1>7. AreAlike(g, 1, <<e, 1>>)
  BY <1>1 DEF Sound, Equivalent
<1>8. AreAlike(g, 1, f[<<e, 1>>])
  BY <1>6, <1>7
<1> HIDE DEF f
<1>9. AreAlike(k, 1, <<e, 1>>)
  BY <1>1, <1>2, <1>5, <1>6, <1>8, AlikeWhenFollowed
<1>10. Sound(k)
  BY <1>1, <1>2, <1>9 DEF Sound, Equivalent
<1> QED
  BY <1>10 DEF k

LEMMA JumpsLead ==
  ASSUME NEW g, IsGraph(g), NEW h \in Blocks, Jumps(g, h)
  PROVE  LeadsTo(g, h, JumpTarget(g, h)) /\ JumpTarget(g, h) \in g.heads
BY DEF LeadsTo, Jumps, JumpTarget, Branch, IsGraph

LEMMA ThreadSound ==
  ASSUME source \in Programs, NEW g, Sound(g), NEW h \in g.heads
  PROVE  Sound(Thread(g, h)) /\ Thread(g, h).heads \subseteq g.heads /\ Thread(g, h).chain = g.chain
<1> DEFINE c == JumpTarget(g, h)
           e == IF g.entry \in {h} THEN c ELSE g.entry
<1>1. IsGraph(g) /\ h \in Blocks /\ g.entry \in g.heads
  BY DEF Sound, IsGraph
<1>2. CASE ChainStmts(g, h) # {} \/ ~ Jumps(g, h) \/ c = h
  BY <1>2 DEF Thread
<1>3. CASE ChainStmts(g, h) = {} /\ Jumps(g, h) /\ c # h
  <2>1. LeadsTo(g, h, c) /\ c \in g.heads /\ Silent(g, h)
    BY <1>1, <1>3, JumpsLead, EmptyIsSilent
  <2>2. Thread(g, h) = Redirected(g, {h}, c, e)
    <3>1. Redirect(g, {h}, c).entry = g.entry
      BY <1>1 DEF Redirect, IsGraph
    <3> QED
      BY <1>3, <3>1 DEF Thread, Redirected
  <2> HIDE DEF c
  <2>3. c \in g.heads \ {h} /\ {h} \in SUBSET g.heads /\ e \in g.heads \ {h}
    BY <1>1, <1>3, <2>1
  <2>4. \A b \in Points : AreAlike(g, b, <<h, 1>>) => AreAlike(g, b, <<c, 1>>)
    BY <1>1, <2>1, PassedBy, HeadsArePlaces
  <2> HIDE DEF e
  <2>5. Sound(Redirected(g, {h}, c, e))
    BY <2>3, <2>4, RedirectedSound DEF e
  <2>6. Redirected(g, {h}, c, e).heads \subseteq g.heads /\ Redirected(g, {h}, c, e).chain = g.chain
    <3>1. IsRedirected(g, Redirected(g, {h}, c, e), {h}, c, e)
      BY <1>1, <2>3, RedirectedIs
    <3> QED
      BY <3>1 DEF IsRedirected
  <2> QED
    BY <2>2, <2>5, <2>6
<1> QED
  BY <1>2, <1>3

LEMMA ExitsSound ==
  ASSUME source \in Programs, NEW g, Sound(g), NEW c \in EmptyExits(g),
         g.entry \in EmptyExits(g) => g.heads = {g.entry}
  PROVE  LET k == Redirect(g, EmptyExits(g) \ {c}, c)
         IN  Sound(k) /\ k.heads \subseteq g.heads /\ k.chain = g.chain
<1> DEFINE S == EmptyExits(g) \ {c}
           k == Redirect(g, S, c)
           e == g.entry
<1>1. IsGraph(g) /\ g.entry \in g.heads
  BY DEF Sound
<1>2. \A h \in EmptyExits(g) : h \in g.heads /\ h \in Blocks /\ Silent(g, h) /\ LeadsTo(g, h, Ended)
  BY <1>1, EmptyIsSilent, NoEdgesFacts DEF EmptyExits, IsGraph, LeadsTo
<1>3. S \in SUBSET g.heads /\ c \in g.heads \ S /\ e \in g.heads \ S
  BY <1>1, <1>2
<1>4. <<Ended, 1>> \in Places(g)
  BY DEF Places, TheEnd
<1>5. ASSUME NEW b \in Points, NEW h \in S, AreAlike(g, b, <<h, 1>>) PROVE AreAlike(g, b, <<c, 1>>)
  <2>1. AreAlike(g, b, <<Ended, 1>>)
    BY <1>1, <1>2, <1>4, <1>5, PassedBy
  <2> QED
    BY <1>1, <1>2, <2>1, BackToExit DEF TheEnd
<1> HIDE DEF S
<1>6. Sound(Redirected(g, S, c, e))
  BY <1>3, <1>5, RedirectedSound
<1>7. k = Redirected(g, S, c, e)
  <2> DEFINE o == [x \in Blocks |-> IF x \in S THEN NoEdges
                                    ELSE [v \in DOMAIN g.out[x] |-> IF g.out[x][v] \in S THEN c ELSE g.out[x][v]]]
  <2>1. k = [g EXCEPT !.heads = g.heads \ S, !.out = o]
    BY DEF Redirect
  <2> HIDE DEF o, k
  <2>2. k = [entry |-> e, heads |-> g.heads \ S, chain |-> g.chain, out |-> o, dup |-> g.dup]
    BY <1>1, <2>1 DEF IsGraph
  <2>3. k = [k EXCEPT !.entry = e]
    BY <2>2
  <2> QED
    BY <2>3 DEF k, Redirected
<1>8. k.heads \subseteq g.heads /\ k.chain = g.chain
  <2>1. IsRedirected(g, Redirected(g, S, c, e), S, c, e)
    BY <1>1, <1>3, RedirectedIs
  <2> QED
    BY <1>7, <2>1 DEF IsRedirected
<1> QED
  BY <1>6, <1>7, <1>8 DEF S

\* k is g with the chain and the edges of c behind the chain of h.
Spliced(g, k, h, c) ==
  /\ k.entry = g.entry /\ k.entry \in k.heads /\ k.heads \subseteq g.heads
  /\ \A x \in k.heads : /\ k.chain[x] = IF x = h THEN g.chain[h] \o g.chain[c] ELSE g.chain[x]
                        /\ k.out[x] = IF x = h THEN g.out[c] ELSE g.out[x]

\* a is a sequence of n elements, those of s, and m more, those of t.
IsConcatenation(s, t, n, m, a) ==
  /\ Len(a) = n + m
  /\ \A i \in 1..n : a[i] = s[i]
  /\ \A i \in 1..m : a[n + i] = t[i]

LEMMA Concatenation ==
  ASSUME NEW B, NEW s \in Seq(B), NEW t \in Seq(B), NEW n \in Nat, n = Len(s), NEW m \in Nat, m = Len(t)
  PROVE  s \o t \in Seq(B) /\ IsConcatenation(s, t, n, m, s \o t)
<1>1. s \o t \in Seq(B) /\ Len(s \o t) = n + m
  OBVIOUS
<1>2. ASSUME NEW i \in 1..n PROVE (s \o t)[i] = s[i]
  <2>1. i \in 1..(n + m) /\ i <= n
    OBVIOUS
  <2> QED
    BY <2>1
<1>3. ASSUME NEW i \in 1..m PROVE (s \o t)[n + i] = t[i]
  <2>1. n + i \in 1..(n + m) /\ ~ (n + i <= n) /\ (n + i) - n = i
    OBVIOUS
  <2> QED
    BY <2>1
<1> QED
  BY <1>1, <1>2, <1>3 DEF IsConcatenation

LEMMA SplicedSound ==
  ASSUME source \in Programs, NEW g, NEW k, Sound(g), IsGraph(k), NEW h \in g.heads, NEW c \in g.heads, c # h,
         LeadsTo(g, h, c), Spliced(g, k, h, c)
  PROVE  Sound(k)
<1>1. IsGraph(g) /\ h \in Blocks /\ c \in Blocks /\ g.chain[h] \in Seq(Blocks) /\ g.chain[c] \in Seq(Blocks)
  BY DEF Sound, IsGraph
<1>2. PICK n \in Nat \ {0} : n = Len(g.chain[h])
  BY <1>1, GraphFacts
<1>3. PICK m \in Nat \ {0} : m = Len(g.chain[c])
  BY <1>1, GraphFacts
<1> DEFINE s == g.chain[h] \o g.chain[c]
           f == [p \in Places(k) |-> IF p[1] = h /\ p[2] > n THEN <<c, p[2] - n>> ELSE p]
<1>4. /\ Len(s) = n + m
      /\ \A i \in 1..n : s[i] = g.chain[h][i]
      /\ \A i \in 1..m : s[n + i] = g.chain[c][i]
  <2>1. n \in Nat /\ m \in Nat
    OBVIOUS
  <2>2. IsConcatenation(g.chain[h], g.chain[c], n, m, s)
    BY <1>1, <1>2, <1>3, <2>1, Concatenation
  <2> HIDE DEF s
  <2> QED
    BY <2>2 DEF IsConcatenation
<1>5. \A x \in k.heads : /\ x \in g.heads
                         /\ x # h => k.chain[x] = g.chain[x] /\ k.out[x] = g.out[x]
                         /\ x = h => k.chain[x] = s /\ k.out[x] = g.out[c]
  BY DEF Spliced
<1> HIDE DEF s
<1>6. ASSUME NEW p \in Places(k) \ {TheEnd}
      PROVE  \E x \in k.heads : \E i \in Nat \ {0} : /\ p = <<x, i>> /\ i \in 1..Len(k.chain[x])
                                                     /\ Here(k, p) = k.chain[x][i]
  <2>1. p = <<p[1], p[2]>> /\ InChain(k, p[1], p[2]) /\ Here(k, p) = k.chain[p[1]][p[2]]
    BY PlaceFacts
  <2>2. p[1] \in k.heads /\ p[2] \in 1..Len(k.chain[p[1]])
    BY <2>1 DEF InChain
  <2>3. p[2] \in Nat \ {0}
    BY <2>2, GraphFacts DEF IsGraph
  <2> QED
    BY <2>1, <2>2, <2>3
<1>7. ASSUME NEW x \in g.heads, NEW i \in Nat, i \in 1..Len(g.chain[x])
      PROVE  <<x, i>> \in Places(g) /\ Here(g, <<x, i>>) = g.chain[x][i]
  <2>1. x # Ended
    BY <1>1, HeadsArePlaces
  <2> QED
    BY <1>7, <2>1 DEF Places, InChain, Here, TheEnd
<1>8. ASSUME NEW x, NEW i \in Nat, <<x, i>> \in Places(k)
      PROVE  f[<<x, i>>] = IF x = h /\ i > n THEN <<c, i - n>> ELSE <<x, i>>
  BY <1>8
<1>9. f[TheEnd] = TheEnd
  <2>1. TheEnd \in Places(k) /\ ~ (1 > n)
    BY DEF Places
  <2> QED
    BY <2>1 DEF TheEnd
<1> HIDE DEF f
<1>10. ASSUME NEW p \in Places(k) \ {TheEnd} PROVE f[p] \in Places(g) /\ Here(k, p) = Here(g, f[p])
  <2>1. PICK x \in k.heads, i \in Nat \ {0} : p = <<x, i>> /\ i \in 1..Len(k.chain[x]) /\ Here(k, p) = k.chain[x][i]
    BY <1>6
  <2>2. x \in g.heads /\ f[p] = IF x = h /\ i > n THEN <<c, i - n>> ELSE <<x, i>>
    BY <1>5, <1>8, <2>1
  <2>3. CASE x # h
    <3>1. f[p] = <<x, i>> /\ k.chain[x] = g.chain[x]
      BY <1>5, <2>2, <2>3
    <3> QED
      BY <1>7, <2>1, <2>2, <3>1
  <2>4. CASE x = h /\ i <= n
    <3>1. f[p] = <<h, i>> /\ i \in 1..n /\ k.chain[x] = s
      BY <1>5, <2>2, <2>4
    <3>2. Here(k, p) = g.chain[h][i]
      BY <1>4, <2>1, <3>1
    <3> QED
      BY <1>2, <1>7, <3>1, <3>2
  <2>5. CASE x = h /\ i > n
    <3>1. k.chain[x] = s /\ i \in 1..(n + m) /\ f[p] = <<c, i - n>>
      BY <1>4, <1>5, <2>1, <2>2, <2>5
    <3>2. PICK j \in 1..m : i = n + j /\ i - n = j
      <4>1. i - n \in 1..m /\ i = n + (i - n)
        BY <2>5, <3>1
      <4> QED
        BY <4>1
    <3>3. Here(k, p) = g.chain[c][j]
      BY <1>4, <2>1, <3>1, <3>2
    <3> QED
      BY <1>3, <1>7, <3>1, <3>2, <3>3
  <2>6. i <= n \/ i > n
    OBVIOUS
  <2> QED
    BY <2>3, <2>4, <2>5, <2>6
<1>11. ASSUME NEW p \in Places(k) \ {TheEnd}, NEW v PROVE f[Onward(k, p, v)] = Onward(g, f[p], v)
  <2>1. Onward(k, p, v) \in Places(k)
    BY PlaceFacts
  <2>2. PICK x \in k.heads, i \in Nat \ {0} : p = <<x, i>> /\ i \in 1..Len(k.chain[x])
    BY <1>6
  <2>3. f[p] = IF x = h /\ i > n THEN <<c, i - n>> ELSE <<x, i>>
    BY <1>8, <2>2
  <2>4. Onward(k, p, v) = IF i < Len(k.chain[x]) THEN <<x, i + 1>> ELSE <<Branch(k.out[x], v), 1>>
    BY <2>2 DEF Onward
  <2>5. ASSUME NEW y, <<y, 1>> \in Places(k) PROVE f[<<y, 1>>] = <<y, 1>>
    <3>1. ~ (1 > n)
      OBVIOUS
    <3> QED
      BY <1>8, <2>5, <3>1
  <2>6. CASE x # h
    <3>1. f[p] = <<x, i>> /\ k.chain[x] = g.chain[x] /\ k.out[x] = g.out[x]
      BY <1>5, <2>3, <2>6
    <3>2. Onward(k, p, v) = Onward(g, <<x, i>>, v)
      BY <2>4, <3>1 DEF Onward
    <3>3. CASE i < Len(k.chain[x])
      <4>1. <<x, i + 1>> \in Places(k) /\ i + 1 \in Nat
        BY <2>1, <2>4, <3>3
      <4>2. f[<<x, i + 1>>] = <<x, i + 1>>
        BY <1>8, <2>6, <4>1
      <4> QED
        BY <2>4, <3>1, <3>2, <3>3, <4>2
    <3>4. CASE ~ (i < Len(k.chain[x]))
      BY <2>1, <2>4, <2>5, <3>1, <3>2, <3>4
    <3> QED
      BY <3>3, <3>4
  <2>7. CASE x = h
    <3>1. k.out[x] = g.out[c] /\ Len(k.chain[x]) = n + m /\ i \in 1..(n + m)
      BY <1>4, <1>5, <2>2, <2>7
    <3>2. CASE i < n
      <4>1. i < n + m /\ ~ (i > n) /\ ~ (i + 1 > n) /\ i + 1 \in Nat
        BY <3>2
      <4>2. Onward(k, p, v) = <<h, i + 1>>
        BY <2>4, <2>7, <3>1, <4>1
      <4>3. f[<<h, i + 1>>] = <<h, i + 1>>
        BY <1>8, <2>1, <4>1, <4>2
      <4>4. f[p] = <<h, i>>
        BY <2>3, <2>7, <4>1
      <4>5. Onward(g, <<h, i>>, v) = <<h, i + 1>>
        BY <1>2, <3>2 DEF Onward
      <4> QED
        BY <4>2, <4>3, <4>4, <4>5
    <3>3. CASE i = n
      <4>1. n < n + m /\ n + 1 > n /\ (n + 1) - n = 1 /\ n + 1 \in Nat /\ ~ (n > n) /\ ~ (n < n)
        OBVIOUS
      <4>2. Onward(k, p, v) = <<h, n + 1>>
        BY <2>4, <2>7, <3>1, <3>3, <4>1
      <4>3. f[<<h, n + 1>>] = <<c, 1>>
        BY <1>8, <2>1, <4>1, <4>2
      <4>4. f[p] = <<h, n>>
        BY <2>3, <2>7, <3>3, <4>1
      <4>5. Onward(g, <<h, n>>, v) = <<c, 1>>
        BY <1>2, <4>1 DEF Onward, LeadsTo
      <4> QED
        BY <4>2, <4>3, <4>4, <4>5
    <3>4. CASE i > n
      <4>1. PICK j \in 1..m : i = n + j /\ i - n = j
        <5>1. i - n \in 1..m /\ i = n + (i - n)
          BY <3>1, <3>4
        <5> QED
          BY <5>1
      <4>2. f[p] = <<c, j>>
        BY <2>3, <2>7, <3>4, <4>1
      <4>3. CASE j < m
        <5>1. i + 1 > n /\ (i + 1) - n = j + 1 /\ i < n + m /\ i + 1 \in Nat
          BY <4>1, <4>3
        <5>2. Onward(k, p, v) = <<h, i + 1>>
          BY <2>4, <2>7, <3>1, <5>1
        <5>3. f[<<h, i + 1>>] = <<c, j + 1>>
          BY <1>8, <2>1, <5>1, <5>2
        <5>4. Onward(g, <<c, j>>, v) = <<c, j + 1>>
          BY <1>3, <4>3 DEF Onward
        <5> QED
          BY <4>2, <5>2, <5>3, <5>4
      <4>4. CASE ~ (j < m)
        <5>1. ~ (i < n + m)
          BY <4>1, <4>4
        <5>2. Onward(k, p, v) = <<Branch(g.out[c], v), 1>>
          BY <2>4, <3>1, <5>1
        <5>3. Onward(g, <<c, j>>, v) = <<Branch(g.out[c], v), 1>>
          BY <1>3, <4>4 DEF Onward
        <5> QED
          BY <2>1, <2>5, <4>2, <5>2, <5>3
      <4> QED
        BY <4>3, <4>4
    <3>5. i < n \/ i = n \/ i > n
      OBVIOUS
    <3> QED
      BY <3>2, <3>3, <3>4, <3>5
  <2> QED
    BY <2>6, <2>7
<1>12. Follows(g, k, f)
  <2>1. \A p \in Places(k) : f[p] \in Places(g) /\ Here(k, p) = Here(g, f[p])
    BY <1>9, <1>10 DEF Places, Here
  <2>2. f \in [Places(k) -> Places(g)]
    BY <2>1 DEF f
  <2> QED
    BY <1>11, <2>1, <2>2 DEF Follows
<1>13. <<k.entry, 1>> \in Places(k) /\ 1 \in Points
  BY HeadsArePlaces, SourceFacts DEF Spliced, Points
<1>14. f[<<k.entry, 1>>] = <<k.entry, 1>>
  <2>1. ~ (1 > n)
    OBVIOUS
  <2> QED
    BY <1>8, <1>13, <2>1
<1>15. AreAlike(g, 1, f[<<k.entry, 1>>])
  BY <1>14 DEF Sound, Equivalent, Spliced
<1>16. AreAlike(k, 1, <<k.entry, 1>>)
  BY <1>1, <1>12, <1>13, <1>15, AlikeWhenFollowed
<1> QED
  BY <1>16 DEF Sound, Equivalent, Spliced

\* k is g with c behind h, and with the heads H.
Splices(g, k, h, c, H) ==
  /\ H \subseteq g.heads /\ g.entry \in H /\ h \in H
  /\ k = [entry |-> g.entry, heads |-> H, chain |-> k.chain, out |-> k.out, dup |-> k.dup]
  /\ k.chain = [x \in Blocks |-> IF x = h THEN g.chain[h] \o g.chain[c] ELSE g.chain[x]]
  /\ k.out = [x \in Blocks |-> IF x = h THEN g.out[c] ELSE IF x \in H THEN g.out[x] ELSE NoEdges]
  /\ \A x \in H : k.out[x] \in [DOMAIN k.out[x] -> H]

LEMMA SplicesSound ==
  ASSUME source \in Programs, NEW g, Sound(g), NEW h \in g.heads, NEW c \in g.heads, c # h, LeadsTo(g, h, c),
         NEW k, NEW H, Splices(g, k, h, c, H)
  PROVE  Sound(k)
<1> DEFINE a == k.chain
           o == k.out
<1>0. /\ H \subseteq g.heads /\ g.entry \in H /\ h \in H
      /\ k = [entry |-> g.entry, heads |-> H, chain |-> k.chain, out |-> k.out, dup |-> k.dup]
      /\ a = [x \in Blocks |-> IF x = h THEN g.chain[h] \o g.chain[c] ELSE g.chain[x]]
      /\ o = [x \in Blocks |-> IF x = h THEN g.out[c] ELSE IF x \in H THEN g.out[x] ELSE NoEdges]
      /\ \A x \in H : o[x] \in [DOMAIN o[x] -> H]
  BY DEF Splices
<1>2. k.entry = g.entry /\ k.heads = H /\ k.chain = a /\ k.out = o
  BY <1>0
<1> HIDE DEF a, o
<1>1. IsGraph(g) /\ h \in Blocks /\ c \in Blocks /\ H \subseteq Blocks
  BY <1>0 DEF Sound, IsGraph
<1>3. k = [entry |-> k.entry, heads |-> k.heads, chain |-> k.chain, out |-> k.out, dup |-> k.dup]
  BY <1>0, <1>2
<1>4. ASSUME NEW x \in Blocks PROVE o[x] \in [DOMAIN o[x] -> H]
  <2>1. CASE x \in H
    BY <1>0, <2>1
  <2>2. CASE x \notin H
    <3>1. o[x] = NoEdges
      BY <1>0, <2>2
    <3> QED
      BY <3>1, NoEdgesFacts
  <2> QED
    BY <2>1, <2>2
<1>5. ASSUME NEW x \in Blocks PROVE a[x] \in Seq(Blocks) /\ a[x] # <<>>
  <2>1. g.chain[h] \in Seq(Blocks) /\ g.chain[c] \in Seq(Blocks) /\ g.chain[x] \in Seq(Blocks)
        /\ g.chain[h] # <<>> /\ g.chain[x] # <<>>
    BY <1>1 DEF IsGraph
  <2>2. g.chain[h] \o g.chain[c] \in Seq(Blocks) /\ g.chain[h] \o g.chain[c] # <<>>
    BY <2>1
  <2> QED
    BY <1>0, <2>1, <2>2
<1>6. IsGraph(k)
  <2>1. k.chain \in [Blocks -> Seq(Blocks)] /\ \A x \in Blocks : k.chain[x] # <<>>
    <3>1. a = [x \in Blocks |-> a[x]]
      BY <1>0
    <3> QED
      BY <1>2, <1>5, <3>1
  <2>2. k.out = [x \in Blocks |-> k.out[x]]
    BY <1>0, <1>2
  <2>3. \A x \in Blocks : k.out[x] \in [DOMAIN k.out[x] -> k.heads]
    BY <1>2, <1>4
  <2>4. \A x \in Blocks \ k.heads : k.out[x] = NoEdges
    BY <1>0, <1>2
  <2>5. k.heads \subseteq Blocks
    BY <1>1, <1>2
  <2> QED
    BY <1>3, <2>1, <2>2, <2>3, <2>4, <2>5 DEF IsGraph
<1>7. Spliced(g, k, h, c)
  <2>1. ASSUME NEW x \in k.heads
        PROVE  /\ k.chain[x] = IF x = h THEN g.chain[h] \o g.chain[c] ELSE g.chain[x]
               /\ k.out[x] = IF x = h THEN g.out[c] ELSE g.out[x]
    <3>1. x \in Blocks /\ x \in H
      BY <1>1, <1>2
    <3>2. a[x] = IF x = h THEN g.chain[h] \o g.chain[c] ELSE g.chain[x]
      BY <1>0, <3>1
    <3>3. o[x] = IF x = h THEN g.out[c] ELSE g.out[x]
      BY <1>0, <3>1
    <3> QED
      BY <1>2, <3>2, <3>3
  <2> QED
    BY <1>0, <1>2, <2>1 DEF Spliced
<1> QED
  BY <1>6, <1>7, SplicedSound

LEMMA AbsorbSound ==
  ASSUME source \in Programs, NEW g, Sound(g), NEW h \in g.heads
  PROVE  Sound(Absorb(g, h))
<1> DEFINE c == JumpTarget(g, h)
           k == Absorb(g, h)
           a == [g.chain EXCEPT ![h] = g.chain[h] \o g.chain[c]]
           o == [[g.out EXCEPT ![h] = g.out[c]] EXCEPT ![c] = NoEdges]
<1>1. CASE ~ Jumps(g, h) \/ c \in {h, g.entry} \/ EdgesInto(g, c) # {<<h, Default>>}
  BY <1>1 DEF Absorb
<1>2. CASE Jumps(g, h) /\ c \notin {h, g.entry} /\ EdgesInto(g, c) = {<<h, Default>>}
  <2>1. IsGraph(g) /\ h \in Blocks /\ g.entry \in g.heads /\ g.heads \subseteq Blocks
    BY DEF Sound, IsGraph
  <2>2. c \in g.heads /\ c \in Blocks /\ c # h /\ LeadsTo(g, h, c)
    BY <1>2, <2>1, JumpsLead
  <2>3. k = [g EXCEPT !.heads = g.heads \ {c}, !.chain = a, !.out = o]
    BY <1>2 DEF Absorb
  <2>4. \A x \in g.heads : \A v \in DOMAIN g.out[x] : g.out[x][v] = c => x = h
    <3>1. \A x \in g.heads : \A v \in DOMAIN g.out[x] : g.out[x][v] = c => <<x, v>> \in EdgesInto(g, c)
      BY DEF EdgesInto
    <3> QED
      BY <1>2, <3>1
  <2>5. a = [x \in Blocks |-> IF x = h THEN g.chain[h] \o g.chain[c] ELSE g.chain[x]]
    BY <2>1 DEF IsGraph
  <2>6. o = [x \in Blocks |-> IF x = h THEN g.out[c] ELSE IF x \in g.heads \ {c} THEN g.out[x] ELSE NoEdges]
    BY <2>1, <2>2 DEF IsGraph
  <2> HIDE DEF a, o, c
  <2>7. ASSUME NEW x \in g.heads \ {c} PROVE o[x] \in [DOMAIN o[x] -> g.heads \ {c}]
    <3>1. \A y \in g.heads : g.out[y] \in [DOMAIN g.out[y] -> g.heads]
      BY <2>1 DEF IsGraph
    <3>2. CASE x = h
      <4>1. o[x] = g.out[c]
        BY <2>1, <2>6, <3>2
      <4> QED
        BY <2>2, <2>4, <3>1, <4>1
    <3>3. CASE x # h
      <4>1. o[x] = g.out[x]
        BY <2>1, <2>6, <3>3
      <4> QED
        BY <2>4, <3>1, <3>3, <4>1
    <3> QED
      BY <3>2, <3>3
  <2>8. k = [entry |-> g.entry, heads |-> g.heads \ {c}, chain |-> a, out |-> o, dup |-> g.dup]
    BY <2>1, <2>3 DEF IsGraph
  <2>9. g.heads \ {c} \in SUBSET g.heads /\ g.entry \in g.heads \ {c} /\ h \in g.heads \ {c}
    BY <1>2, <2>1, <2>2 DEF c
  <2> HIDE DEF k
  <2>10. k.heads = g.heads \ {c} /\ k.chain = a /\ k.out = o /\ k.dup = g.dup
    BY <2>8
  <2>11. Splices(g, k, h, c, g.heads \ {c})
    BY <2>5, <2>6, <2>7, <2>8, <2>9, <2>10 DEF Splices
  <2>12. Sound(k)
    BY <2>2, <2>11, SplicesSound
  <2> QED
    BY <2>12 DEF k
<1> QED
  BY <1>1, <1>2

LEMMA DuplicateSound ==
  ASSUME source \in Programs, NEW g, Sound(g), NEW h \in g.heads
  PROVE  Sound(Duplicate(g, h))
<1> DEFINE c == JumpTarget(g, h)
           k == Duplicate(g, h)
           a == [g.chain EXCEPT ![h] = g.chain[h] \o g.chain[c]]
           o == [g.out EXCEPT ![h] = g.out[c]]
           d == g.dup \cup {<<h, c>>}
           Skipped == phiSafe \/ ~ Jumps(g, h) \/ c \in {h, g.entry}
                      \/ Cardinality(ChainStmts(g, c)) > 1 \/ <<h, c>> \in g.dup
<1>1. CASE Skipped
  BY <1>1 DEF Duplicate
<1>2. CASE ~ Skipped
  <2>1. IsGraph(g) /\ h \in Blocks /\ g.entry \in g.heads /\ g.heads \subseteq Blocks
    BY DEF Sound, IsGraph
  <2>2. c \in g.heads /\ c \in Blocks /\ c # h /\ LeadsTo(g, h, c)
    BY <1>2, <2>1, JumpsLead
  <2>3. k = [g EXCEPT !.dup = d, !.chain = a, !.out = o]
    BY <1>2 DEF Duplicate
  <2>4. a = [x \in Blocks |-> IF x = h THEN g.chain[h] \o g.chain[c] ELSE g.chain[x]]
    BY <2>1 DEF IsGraph
  <2>5. o = [x \in Blocks |-> IF x = h THEN g.out[c] ELSE IF x \in g.heads THEN g.out[x] ELSE NoEdges]
    BY <2>1, <2>2 DEF IsGraph
  <2> HIDE DEF a, o, c, d
  <2>6. \A x \in g.heads : o[x] \in [DOMAIN o[x] -> g.heads]
    <3>1. \A y \in g.heads : g.out[y] \in [DOMAIN g.out[y] -> g.heads]
      BY <2>1 DEF IsGraph
    <3>2. \A x \in g.heads : o[x] = g.out[x] \/ o[x] = g.out[c]
      BY <2>1, <2>5
    <3> QED
      BY <2>2, <3>1, <3>2
  <2>7. k = [entry |-> g.entry, heads |-> g.heads, chain |-> a, out |-> o, dup |-> d]
    BY <2>1, <2>3 DEF IsGraph
  <2> HIDE DEF k
  <2>8. k.heads = g.heads /\ k.chain = a /\ k.out = o /\ k.dup = d
    BY <2>7
  <2>9. Splices(g, k, h, c, g.heads)
    BY <2>1, <2>4, <2>5, <2>6, <2>7, <2>8 DEF Splices
  <2>10. Sound(k)
    BY <2>2, <2>9, SplicesSound
  <2> QED
    BY <2>10 DEF k
<1> QED
  BY <1>1, <1>2
-----------------------------------------------------------------------------
(* The program stays what it is: what holds of the next graph for this     *)
(* program holds of it in the next state.                                  *)

LEMMA SourceStays ==
  ASSUME source' = source
  PROVE  /\ Blocks' = Blocks /\ Points' = Points /\ \A b : TestOf(b)' = TestOf(b)
         /\ IsGraph(graph)' = IsGraph(graph') /\ Places(graph)' = Places(graph')
         /\ \A b, p, R : Matched(graph, R, b, p)' = Matched(graph', R, b, p)
<1>1. Blocks' = Blocks /\ \A b : TestOf(b)' = TestOf(b)
  BY DEF Blocks, TestOf
<1>2. Points' = Points
  BY <1>1 DEF Points
<1>3. IsGraph(graph)' = IsGraph(graph')
  BY <1>1 DEF IsGraph
<1>4. Places(graph)' = Places(graph')
  BY DEF Places, InChain
<1>5. ASSUME NEW b, NEW p, NEW R PROVE Matched(graph, R, b, p)' = Matched(graph', R, b, p)
  BY <1>1 DEF Matched, Together, Ahead, Behind, Here, Onward, Branch
<1> QED
  BY <1>1, <1>2, <1>3, <1>4, <1>5

LEMMA SoundStays ==
  ASSUME source' = source, Sound(graph')
  PROVE  Sound(graph)'
<1>1. Sides(graph)' = Sides(graph')
  BY SourceStays DEF Sides
<1>2. \A R : Simulates(graph, R)' <=> Simulates(graph', R)
  <2> SUFFICES ASSUME NEW R PROVE Simulates(graph, R)' <=> Simulates(graph', R)
    OBVIOUS
  <2>1. \A b, p : Matched(graph, R, b, p)' = Matched(graph', R, b, p)
    BY SourceStays
  <2> QED
    BY <2>1, SourceStays DEF Simulates
<1>3. Alike(graph)' = Alike(graph')
  BY <1>1, <1>2 DEF Alike
<1>4. Equivalent(graph)'
  BY <1>3 DEF Sound, Equivalent, AreAlike
<1>5. IsGraph(graph)' /\ graph'.entry \in graph'.heads
  BY SourceStays DEF Sound
<1> QED
  BY <1>4, <1>5 DEF Sound

LEMMA InStepStays ==
  ASSUME source' = source, InStep(graph', at', pos')
  PROVE  InStep(graph, at, pos)'
<1>1. PICK R \in SUBSET Sides(graph') : Lockstep(graph', R) /\ <<at', pos'>> \in R
  BY DEF InStep
<1>2. Sides(graph)' = Sides(graph')
  BY SourceStays DEF Sides
<1>3. Lockstep(graph, R)'
  <2>1. \A b \in Points, p \in Places(graph') : <<b, p>> \in R =>
          /\ b # Ended /\ Here(graph', p) = b => Together(graph', R, b, p)
          /\ b # Ended /\ Here(graph', p) # b => Ahead(graph', R, b, p)
          /\ b = Ended /\ p # TheEnd => Behind(graph', R, b, p)
    BY <1>1 DEF Lockstep
  <2>2. ASSUME NEW b, NEW p
        PROVE  /\ Together(graph, R, b, p)' = Together(graph', R, b, p)
               /\ Ahead(graph, R, b, p)' = Ahead(graph', R, b, p)
               /\ Behind(graph, R, b, p)' = Behind(graph', R, b, p)
               /\ Here(graph, p)' = Here(graph', p)
    <3>1. \A x : TestOf(x)' = TestOf(x)
      BY SourceStays
    <3> QED
      BY <3>1 DEF Together, Ahead, Behind, Here, Onward, Branch
  <2> QED
    BY <2>1, <2>2, SourceStays DEF Lockstep, TheEnd
<1> QED
  BY <1>1, <1>2, <1>3 DEF InStep
-----------------------------------------------------------------------------
(* Copies of blocks, and blocks that end the program.                      *)

Uncopied(g) ==
  \A h, k \in g.heads : \A i \in DOMAIN g.chain[h] : \A j \in DOMAIN g.chain[k] :
    g.chain[h][i] = g.chain[k][j] => h = k /\ i = j

LEMMA FewerUncopied ==
  ASSUME NEW g, NEW k, Uncopied(g), k.heads \subseteq g.heads, k.chain = g.chain
  PROVE  Uncopied(k)
BY DEF Uncopied

LEMMA EdgesKeepBlocks ==
  ASSUME NEW g, IsGraph(g), NEW h
  PROVE  /\ FoldTest(g, h).heads = g.heads /\ FoldTest(g, h).chain = g.chain
         /\ DropRedundant(g, h).heads = g.heads /\ DropRedundant(g, h).chain = g.chain
<1>1. \A f : LET k == [g EXCEPT !.out[h] = f] IN k.heads = g.heads /\ k.chain = g.chain
  BY DEF IsGraph
<1>2. FoldTest(g, h).heads = g.heads /\ FoldTest(g, h).chain = g.chain
  <2>1. FoldTest(g, h) = g \/ \E f : FoldTest(g, h) = [g EXCEPT !.out[h] = f]
    BY DEF FoldTest
  <2> QED
    BY <1>1, <2>1
<1>3. DropRedundant(g, h).heads = g.heads /\ DropRedundant(g, h).chain = g.chain
  <2>1. DropRedundant(g, h) = g \/ \E f : DropRedundant(g, h) = [g EXCEPT !.out[h] = f]
    BY DEF DropRedundant
  <2> QED
    BY <1>1, <2>1
<1> QED
  BY <1>2, <1>3

LEMMA BuiltUncopied ==
  ASSUME source \in Programs
  PROVE  Uncopied(Built)
<1>1. Built.heads \subseteq Blocks /\ \A h \in Blocks : Built.chain[h] = <<h>>
  BY BuiltSound DEF Sound, IsGraph
<1>2. \A h \in Built.heads : \A i \in DOMAIN Built.chain[h] : i = 1 /\ Built.chain[h][i] = h
  BY <1>1
<1> QED
  BY <1>2 DEF Uncopied

\* A block is taken from one chain into another, whose own head stays.
LEMMA AbsorbUncopied ==
  ASSUME source \in Programs, NEW g, IsGraph(g), NEW h \in g.heads, Uncopied(g)
  PROVE  Uncopied(Absorb(g, h))
<1> DEFINE c == JumpTarget(g, h)
           s == g.chain[h] \o g.chain[c]
           k == Absorb(g, h)
<1>1. CASE k = g
  BY <1>1
<1>2. CASE k # g
  <2>1. Jumps(g, h) /\ c # h
    BY <1>2 DEF Absorb
  <2>2. h \in Blocks /\ c \in Blocks /\ c \in g.heads /\ g.chain[h] \in Seq(Blocks) /\ g.chain[c] \in Seq(Blocks)
    BY <2>1, JumpsLead DEF IsGraph
  <2>3. k.heads = g.heads \ {c} /\ \A x \in Blocks : k.chain[x] = IF x = h THEN s ELSE g.chain[x]
    <3> DEFINE a == [g.chain EXCEPT ![h] = g.chain[h] \o g.chain[c]]
               o == [[g.out EXCEPT ![h] = g.out[c]] EXCEPT ![c] = NoEdges]
    <3>1. k = [g EXCEPT !.heads = g.heads \ {c}, !.chain = a, !.out = o]
      BY <1>2 DEF Absorb
    <3>2. \A x \in Blocks : a[x] = IF x = h THEN s ELSE g.chain[x]
      BY <2>2 DEF IsGraph
    <3> HIDE DEF a, o, k, s, c
    <3>3. k.heads = g.heads \ {c} /\ k.chain = a
      BY <3>1 DEF IsGraph
    <3> QED
      BY <3>2, <3>3
  <2>4. PICK n \in Nat : n = Len(g.chain[h])
    BY <2>2
  <2>5. PICK m \in Nat : m = Len(g.chain[c])
    BY <2>2
  <2>6. IsConcatenation(g.chain[h], g.chain[c], n, m, s) /\ s \in Seq(Blocks)
    BY <2>2, <2>4, <2>5, Concatenation
  <2> HIDE DEF c, s, k
  <2> DEFINE from(x, i) == IF x = h /\ i > n THEN <<c, i - n>> ELSE <<x, i>>
  <2>7. ASSUME NEW x \in k.heads, NEW i \in DOMAIN k.chain[x]
        PROVE  /\ i \in Nat
               /\ \E y \in g.heads : \E j \in DOMAIN g.chain[y] : from(x, i) = <<y, j>> /\ k.chain[x][i] = g.chain[y][j]
    <3>1. x \in g.heads /\ x \in Blocks /\ x # c
      BY <2>3 DEF IsGraph
    <3>2. CASE x # h
      <4>1. k.chain[x] = g.chain[x] /\ g.chain[x] \in Seq(Blocks) /\ from(x, i) = <<x, i>>
        BY <2>3, <3>1, <3>2 DEF IsGraph
      <4> QED
        BY <3>1, <4>1
    <3>3. CASE x = h
      <4>1. k.chain[x] = s /\ i \in 1..(n + m) /\ i \in Nat
        BY <2>3, <2>6, <3>1, <3>3 DEF IsConcatenation
      <4>2. CASE i > n
        <5>1. PICK j \in 1..m : i = n + j /\ i - n = j
          <6>1. i - n \in 1..m /\ i = n + (i - n)
            BY <4>1, <4>2
          <6> QED
            BY <6>1
        <5>2. from(x, i) = <<c, j>> /\ s[i] = g.chain[c][j] /\ j \in DOMAIN g.chain[c]
          BY <2>2, <2>5, <2>6, <3>3, <4>2, <5>1 DEF IsConcatenation
        <5> QED
          BY <2>2, <4>1, <5>2
      <4>3. CASE ~ (i > n)
        <5>1. from(x, i) = <<h, i>> /\ s[i] = g.chain[h][i] /\ i \in DOMAIN g.chain[h]
          BY <2>2, <2>4, <2>6, <3>3, <4>1, <4>3 DEF IsConcatenation
        <5> QED
          BY <2>2, <4>1, <5>1
      <4> QED
        BY <4>2, <4>3
    <3> QED
      BY <3>2, <3>3
  <2>8. ASSUME NEW x \in k.heads, NEW i \in Nat, NEW y \in k.heads, NEW j \in Nat, from(x, i) = from(y, j)
        PROVE  x = y /\ i = j
    <3>1. x # c /\ y # c
      BY <2>3
    <3> QED
      BY <2>8, <3>1
  <2>9. ASSUME NEW x \in k.heads, NEW y \in k.heads, NEW i \in DOMAIN k.chain[x], NEW j \in DOMAIN k.chain[y],
               k.chain[x][i] = k.chain[y][j]
        PROVE  x = y /\ i = j
    <3> HIDE DEF from
    <3>1. PICK u \in g.heads : \E q \in DOMAIN g.chain[u] : from(x, i) = <<u, q>> /\ k.chain[x][i] = g.chain[u][q]
      BY <2>7
    <3>2. PICK q \in DOMAIN g.chain[u] : from(x, i) = <<u, q>> /\ k.chain[x][i] = g.chain[u][q]
      BY <3>1
    <3>3. PICK w \in g.heads : \E r \in DOMAIN g.chain[w] : from(y, j) = <<w, r>> /\ k.chain[y][j] = g.chain[w][r]
      BY <2>7
    <3>4. PICK r \in DOMAIN g.chain[w] : from(y, j) = <<w, r>> /\ k.chain[y][j] = g.chain[w][r]
      BY <3>3
    <3>5. g.chain[u][q] = g.chain[w][r]
      BY <2>9, <3>2, <3>4
    <3>6. u = w /\ q = r
      BY <3>5 DEF Uncopied
    <3>7. from(x, i) = from(y, j)
      BY <3>2, <3>4, <3>6
    <3> QED
      BY <2>7, <2>8, <3>7
  <2> QED
    BY <2>9 DEF Uncopied, k
<1> QED
  BY <1>1, <1>2

\* Only the entry is left if it is an empty block that ends the program.
LEMMA PrunedEntry ==
  ASSUME source \in Programs, NEW g, Sound(g), Pruned(g).entry \in EmptyExits(Pruned(g))
  PROVE  Pruned(g).heads = {Pruned(g).entry}
<1> DEFINE k == Pruned(g)
           alive == Reached(g.out, g.entry)
           o == [h \in Blocks |-> IF h \in alive THEN g.out[h] ELSE NoEdges]
<1>1. IsGraph(g) /\ g.entry \in g.heads /\ g.entry \in Blocks /\ g.heads \subseteq Blocks
  BY DEF Sound, IsGraph
<1>2. k.heads = g.heads \cap alive /\ k.entry = g.entry /\ k.out = o
  <2>1. k = [g EXCEPT !.heads = g.heads \cap alive, !.out = o]
    BY DEF Pruned
  <2> HIDE DEF alive, o, k
  <2> QED
    BY <1>1, <2>1 DEF IsGraph
<1>3. g.entry \in alive
  BY <1>1 DEF Reached
<1>4. g.out[g.entry] = NoEdges
  BY <1>1, <1>2, <1>3 DEF EmptyExits
<1>5. Closed(g.out, {g.entry})
  BY <1>4 DEF Closed, Range, NoEdges
<1>6. alive \subseteq {g.entry}
  BY <1>1, <1>5 DEF Reached
<1> QED
  BY <1>1, <1>2, <1>3, <1>6
-----------------------------------------------------------------------------
(* The invariant.                                                          *)

\* An empty block that ends the program is the entry only if nothing else is
\* left: the exits are merged right behind the pruning.
EntryEndsAlone == pass = "exits" /\ graph.entry \in EmptyExits(graph) => graph.heads = {graph.entry}

GraphInv == Sound(graph) /\ (phiSafe => Uncopied(graph))
RunInv == IF pass = "run" THEN InStep(graph, at, pos) ELSE at = Ended /\ pos = TheEnd
CleanupInv ==
  /\ source \in Programs /\ phiSafe \in BOOLEAN /\ changed \in BOOLEAN /\ rounds \in Nat /\ block \in Blocks
  /\ GraphInv /\ EntryEndsAlone
  /\ at \in Points /\ pos \in Places(graph)
  /\ RunInv

LEMMA CleanupInit ==
  ASSUME Init
  PROVE  CleanupInv
<1>1. source \in Programs /\ phiSafe \in BOOLEAN /\ changed \in BOOLEAN /\ rounds \in Nat /\ block \in Blocks
  BY SourceFacts DEF Init
<1>2. GraphInv
  BY <1>1, BuiltSound, BuiltUncopied DEF Init, GraphInv
<1>3. at \in Points /\ pos \in Places(graph) /\ RunInv /\ EntryEndsAlone
  BY DEF Init, Points, Places, RunInv, EntryEndsAlone
<1> QED
  BY <1>1, <1>2, <1>3 DEF CleanupInv

\* A step of the cleanup needs to be shown right for the graph it makes.
LEMMA GraphStep ==
  ASSUME CleanupInv, pass' # "run", UNCHANGED <<source, phiSafe, at, pos>>, pass # "run",
         changed' \in BOOLEAN, rounds' \in Nat, block' \in Blocks,
         Sound(graph'), phiSafe => Uncopied(graph'),
         pass' = "exits" /\ graph'.entry \in EmptyExits(graph') => graph'.heads = {graph'.entry}
  PROVE  CleanupInv'
<1>1. Blocks' = Blocks /\ Points' = Points /\ Places(graph)' = Places(graph')
  BY SourceStays
<1>2. source' \in Programs /\ phiSafe' \in BOOLEAN /\ changed' \in BOOLEAN /\ rounds' \in Nat /\ block' \in Blocks'
  BY <1>1 DEF CleanupInv
<1>3. GraphInv'
  BY SoundStays DEF GraphInv, Uncopied
<1>4. EntryEndsAlone'
  BY DEF EntryEndsAlone, EmptyExits, ChainStmts
<1>5. RunInv' /\ at' \in Points' /\ pos' \in Places(graph')
  BY <1>1 DEF CleanupInv, RunInv, Places, TheEnd
<1> QED
  BY <1>1, <1>2, <1>3, <1>4, <1>5 DEF CleanupInv

LEMMA SweepStep ==
  ASSUME CleanupInv, NEW t, NEW u, t # "run", t # "exits", u # "run", u # "exits", NEW g, Sweep(t, u, g),
         block \in graph.heads => Sound(g) /\ (phiSafe => Uncopied(g))
  PROVE  CleanupInv'
<1>1. source \in Programs /\ block \in Blocks /\ Blocks = 1..Size /\ Size \in Nat /\ 1 \in Blocks
  BY SourceFacts DEF CleanupInv
<1>2. block' \in Blocks
  BY <1>1 DEF Sweep, Size
<1>3. Sound(graph') /\ (phiSafe => Uncopied(graph'))
  BY DEF Sweep, CleanupInv, GraphInv
<1>4. changed' \in BOOLEAN
  BY DEF Sweep, CleanupInv
<1>5. pass # "run" /\ pass' # "run" /\ pass' # "exits" /\ rounds' \in Nat /\ UNCHANGED <<source, phiSafe, at, pos>>
  BY DEF Sweep, CleanupInv
<1> QED
  BY <1>2, <1>3, <1>4, <1>5, GraphStep

LEMMA TransformStep ==
  ASSUME CleanupInv, NEW t, NEW u, t # "run", u # "run", NEW g, Transform(t, u, g),
         Sound(g), phiSafe => Uncopied(g),
         u = "exits" /\ g.entry \in EmptyExits(g) => g.heads = {g.entry}
  PROVE  CleanupInv'
<1>1. changed' \in BOOLEAN
  BY DEF Transform, CleanupInv
<1>2. /\ pass # "run" /\ pass' = u /\ rounds' \in Nat /\ block' \in Blocks /\ graph' = g
      /\ UNCHANGED <<source, phiSafe, at, pos>>
  BY DEF Transform, CleanupInv
<1> QED
  BY <1>1, <1>2, GraphStep

\* Program and result are at their entries.
LEMMA RoundStep ==
  ASSUME CleanupInv, Round
  PROVE  CleanupInv'
<1>1. /\ source \in Programs /\ Sound(graph) /\ (phiSafe => Uncopied(graph)) /\ block \in Blocks /\ rounds \in Nat
      /\ UNCHANGED <<source, phiSafe, graph, block>> /\ rounds' \in Nat /\ changed' \in BOOLEAN /\ pass # "run"
  <2>1. source \in Programs /\ Sound(graph) /\ (phiSafe => Uncopied(graph)) /\ block \in Blocks /\ rounds \in Nat
    BY DEF CleanupInv, GraphInv
  <2>2. UNCHANGED <<source, phiSafe, graph, block>> /\ rounds' = rounds + 1
    BY DEF Round
  <2>3. changed' \in BOOLEAN /\ pass # "run"
    BY DEF Round
  <2>4. rounds' \in Nat
    BY <2>1, <2>2
  <2> QED
    BY <2>1, <2>2, <2>3, <2>4
<1>2. CASE pass' # "run"
  <2>1. pass' # "exits" /\ UNCHANGED <<at, pos>>
    BY <1>2 DEF Round
  <2>2. Sound(graph') /\ (phiSafe => Uncopied(graph')) /\ block' \in Blocks
    BY <1>1
  <2> QED
    BY <1>1, <1>2, <2>1, <2>2, GraphStep
<1>3. CASE pass' = "run"
  <2>1. at' = 1 /\ pos' = <<graph.entry, 1>>
    BY <1>3 DEF Round
  <2>2. IsGraph(graph) /\ graph.entry \in graph.heads /\ AreAlike(graph, 1, <<graph.entry, 1>>)
    BY <1>1 DEF Sound, Equivalent
  <2>3. 1 \in Points /\ <<graph.entry, 1>> \in Places(graph)
    BY <1>1, <2>2, SourceFacts, HeadsArePlaces DEF Points
  <2>4. InStep(graph, 1, <<graph.entry, 1>>)
    BY <1>1, <2>2, <2>3, LockstepFollows
  <2>5. InStep(graph', at', pos')
    BY <1>1, <2>1, <2>4
  <2>6. RunInv' /\ EntryEndsAlone'
    BY <1>1, <1>3, <2>5, InStepStays DEF RunInv, EntryEndsAlone
  <2>7. at' \in Points' /\ pos' \in Places(graph)' /\ block' \in Blocks'
    BY <1>1, <2>1, <2>3, SourceStays
  <2>8. GraphInv'
    BY <1>1, SoundStays DEF GraphInv, Uncopied
  <2> QED
    BY <1>1, <2>6, <2>7, <2>8 DEF CleanupInv
<1> QED
  BY <1>2, <1>3

LEMMA ExecuteStep ==
  ASSUME CleanupInv, Execute
  PROVE  CleanupInv'
<1>1. /\ source \in Programs /\ Sound(graph) /\ IsGraph(graph) /\ (phiSafe => Uncopied(graph)) /\ pass = "run" /\ pass' = "run"
      /\ UNCHANGED <<source, phiSafe, graph, pass, block, changed, rounds>>
      /\ at \in Points /\ pos \in Places(graph) /\ InStep(graph, at, pos)
  BY DEF CleanupInv, GraphInv, RunInv, Execute, Sound
<1>2. PICK R \in SUBSET Sides(graph) : Lockstep(graph, R) /\ <<at, pos>> \in R
  BY <1>1 DEF InStep
<1>3. /\ at # Ended /\ Here(graph, pos) = at => Together(graph, R, at, pos)
      /\ at # Ended /\ Here(graph, pos) # at => Ahead(graph, R, at, pos)
      /\ at = Ended /\ pos # TheEnd => Behind(graph, R, at, pos)
  BY <1>1, <1>2 DEF Lockstep
<1>4. <<at', pos'>> \in R
  <2>1. CASE at # Ended /\ Here(graph, pos) = at
    BY <1>3, <2>1 DEF Execute, Together
  <2>2. CASE at # Ended /\ Here(graph, pos) # at
    BY <1>3, <2>2 DEF Execute, Ahead
  <2>3. CASE at = Ended
    <3>1. Here(graph, pos) # Ended /\ pos # TheEnd
      BY <2>3 DEF Execute, Here
    <3> QED
      BY <1>3, <2>3, <3>1 DEF Execute, Behind
  <2> QED
    BY <2>1, <2>2, <2>3
<1>5. InStep(graph', at', pos') /\ at' \in Points /\ pos' \in Places(graph)
  BY <1>1, <1>2, <1>4 DEF InStep, Sides
<1>6. RunInv' /\ EntryEndsAlone'
  BY <1>1, <1>5, InStepStays DEF RunInv, EntryEndsAlone
<1>7. GraphInv'
  BY <1>1, SoundStays DEF GraphInv, Uncopied
<1>8. at' \in Points' /\ pos' \in Places(graph)'
  BY <1>1, <1>5, SourceStays
<1>9. source' \in Programs /\ phiSafe' \in BOOLEAN /\ changed' \in BOOLEAN /\ rounds' \in Nat /\ block' \in Blocks'
  BY <1>1, SourceStays DEF CleanupInv
<1> QED
  BY <1>6, <1>7, <1>8, <1>9 DEF CleanupInv

LEMMA CleanupStep ==
  ASSUME CleanupInv, [Next]_vars
  PROVE  CleanupInv'
<1>1. source \in Programs /\ Sound(graph) /\ IsGraph(graph) /\ (phiSafe => Uncopied(graph)) /\ EntryEndsAlone
  BY DEF CleanupInv, GraphInv, Sound
<1>2. CASE ConstFold
  <2>1. block \in graph.heads =>
          Sound(FoldTest(graph, block)) /\ (phiSafe => Uncopied(FoldTest(graph, block)))
    BY <1>1, FoldTestSound, EdgesKeepBlocks, FewerUncopied
  <2> QED
    BY <1>2, <2>1, SweepStep DEF ConstFold
<1>3. CASE Dedup
  <2>1. block \in graph.heads =>
          Sound(DropRedundant(graph, block)) /\ (phiSafe => Uncopied(DropRedundant(graph, block)))
    BY <1>1, DropRedundantSound, EdgesKeepBlocks, FewerUncopied
  <2> QED
    BY <1>3, <2>1, SweepStep DEF Dedup
<1>4. CASE ThreadForwarders
  <2>1. block \in graph.heads => Sound(Thread(graph, block)) /\ (phiSafe => Uncopied(Thread(graph, block)))
    BY <1>1, ThreadSound, FewerUncopied
  <2> QED
    BY <1>4, <2>1, SweepStep DEF ThreadForwarders
<1>5. CASE MergeSingle
  <2>1. block \in graph.heads => Sound(Absorb(graph, block)) /\ (phiSafe => Uncopied(Absorb(graph, block)))
    BY <1>1, AbsorbSound, AbsorbUncopied
  <2> QED
    BY <1>5, <2>1, SweepStep DEF MergeSingle
<1>6. CASE TailDup
  <2>1. phiSafe => Duplicate(graph, block) = graph
    BY DEF Duplicate
  <2>2. block \in graph.heads => Sound(Duplicate(graph, block)) /\ (phiSafe => Uncopied(Duplicate(graph, block)))
    BY <1>1, <2>1, DuplicateSound
  <2> QED
    BY <1>6, <2>2, SweepStep DEF TailDup
<1>7. CASE PruneUnreachable
  <2>1. Sound(Pruned(graph)) /\ (phiSafe => Uncopied(Pruned(graph)))
    BY <1>1, PrunedSound, FewerUncopied
  <2>2. Pruned(graph).entry \in EmptyExits(Pruned(graph)) => Pruned(graph).heads = {Pruned(graph).entry}
    BY <1>1, PrunedEntry
  <2> QED
    BY <1>7, <2>1, <2>2, TransformStep DEF PruneUnreachable
<1>8. CASE CanonicalizeExits
  <2>1. CASE Transform("exits", "round", graph)
    BY <1>1, <2>1, TransformStep
  <2>2. ASSUME NEW first \in EmptyExits(graph),
               Transform("exits", "round", Redirect(graph, EmptyExits(graph) \ {first}, first))
        PROVE  CleanupInv'
    <3> DEFINE k == Redirect(graph, EmptyExits(graph) \ {first}, first)
    <3>1. graph.entry \in EmptyExits(graph) => graph.heads = {graph.entry}
      BY <1>1, <2>2 DEF EntryEndsAlone, Transform
    <3>2. Sound(k) /\ k.heads \subseteq graph.heads /\ k.chain = graph.chain
      BY <1>1, <3>1, ExitsSound
    <3> HIDE DEF k
    <3>3. Sound(k) /\ (phiSafe => Uncopied(k))
      BY <1>1, <3>2, FewerUncopied
    <3>4. Transform("exits", "round", k)
      BY <2>2 DEF k
    <3> QED
      BY <3>3, <3>4, TransformStep
  <2> QED
    BY <1>8, <2>1, <2>2 DEF CanonicalizeExits
<1>9. CASE Round
  BY <1>9, RoundStep
<1>10. CASE Execute
  BY <1>10, ExecuteStep
<1>11. CASE UNCHANGED vars
  <2>1. UNCHANGED <<source, phiSafe, graph, pass, block, changed, rounds, at, pos>>
    BY <1>11 DEF vars
  <2>2. GraphInv' /\ EntryEndsAlone'
    BY <1>1, <2>1, SoundStays DEF GraphInv, EntryEndsAlone, Uncopied, EmptyExits, ChainStmts
  <2>3. at' \in Points' /\ pos' \in Places(graph)' /\ block' \in Blocks'
    BY <2>1, SourceStays DEF CleanupInv
  <2>4. RunInv'
    <3>1. CASE pass = "run"
      <4>1. InStep(graph', at', pos')
        BY <2>1, <3>1 DEF CleanupInv, RunInv
      <4> QED
        BY <2>1, <3>1, <4>1, InStepStays DEF RunInv
    <3>2. CASE pass # "run"
      BY <2>1, <3>2 DEF CleanupInv, RunInv, TheEnd
    <3> QED
      BY <3>1, <3>2
  <2> QED
    BY <2>1, <2>2, <2>3, <2>4 DEF CleanupInv
<1> QED
  BY <1>2, <1>3, <1>4, <1>5, <1>6, <1>7, <1>8, <1>9, <1>10, <1>11 DEF Next

-----------------------------------------------------------------------------
(* Results.                                                                *)

\* After every step of every transform, program and graph simulate one another
\* from their entries on, and a run of both stays within a simulation
\* (_Cleaner.run).
THEOREM CleanupIsSound ==
  Spec => []CleanupInv
<1>1. Init => CleanupInv
  BY CleanupInit
<1>2. CleanupInv /\ [Next]_vars => CleanupInv'
  BY CleanupStep
<1> QED
  BY <1>1, <1>2, PTL DEF Spec

\* The graph stays well formed between any two transforms: no edge leads to a
\* block that was absorbed or passed by, the entry is one of the heads, and
\* no block is in two chains when copies are forbidden (_Cleaner).
THEOREM CleanupTypeCorrect ==
  Spec => []TypeOK
<1>1. CleanupInv => TypeOK
  <2> SUFFICES ASSUME CleanupInv PROVE TypeOK
    OBVIOUS
  <2>1. source \in Programs /\ IsGraph(graph) /\ graph.entry \in graph.heads /\ (phiSafe => Uncopied(graph))
    BY DEF CleanupInv, GraphInv, Sound
  <2>2. ASSUME NEW h \in Blocks
        PROVE  /\ Range(graph.out[h]) \subseteq graph.heads
               /\ graph.chain[h] \in Seq(Blocks) /\ graph.chain[h] # <<>>
               /\ h \notin graph.heads => graph.out[h] = NoEdges
    <3>1. graph.out[h] \in [DOMAIN graph.out[h] -> graph.heads]
      BY <2>1 DEF IsGraph
    <3>2. Range(graph.out[h]) \subseteq graph.heads
      BY <3>1 DEF Range
    <3> QED
      BY <2>1, <3>2 DEF IsGraph
  <2>3. phiSafe => NoCopies
    BY <2>1 DEF NoCopies, Uncopied
  <2>4. pos = TheEnd \/ (pos[1] \in graph.heads /\ pos[2] \in DOMAIN graph.chain[pos[1]])
    <3>1. pos \in Places(graph)
      BY DEF CleanupInv
    <3>2. ASSUME pos # TheEnd PROVE pos[1] \in graph.heads /\ pos[2] \in 1..Len(graph.chain[pos[1]])
      BY <2>1, <3>1, <3>2, PlaceFacts DEF InChain
    <3>3. \A h \in graph.heads : DOMAIN graph.chain[h] = 1..Len(graph.chain[h])
      BY <2>1 DEF IsGraph
    <3> QED
      BY <3>2, <3>3
  <2>5. graph.heads \subseteq Blocks
    BY <2>1 DEF IsGraph
  <2> QED
    BY <2>1, <2>2, <2>3, <2>4, <2>5 DEF TypeOK, CleanupInv, Points
<1> QED
  BY <1>1, CleanupIsSound, PTL

\* For every program, every number of rounds and every outcome of the tests
\* the result executes the statements of the source in their order.
THEOREM CleanupIsTransparent ==
  Spec => []SameTraces
<1>1. CleanupInv => SameTraces
  <2> SUFFICES ASSUME CleanupInv, pass = "run", Here(graph, pos) # at
               PROVE  IF at # Ended THEN source.stmts[at] = 0 ELSE source.stmts[Here(graph, pos)] = 0
    BY DEF SameTraces
  <2>1. at \in Points /\ pos \in Places(graph) /\ InStep(graph, at, pos)
    BY DEF CleanupInv, RunInv
  <2>2. PICK R \in SUBSET Sides(graph) : Lockstep(graph, R) /\ <<at, pos>> \in R
    BY <2>1 DEF InStep
  <2>3. CASE at # Ended
    <3>1. Ahead(graph, R, at, pos)
      BY <2>1, <2>2, <2>3 DEF Lockstep
    <3> QED
      BY <2>3, <3>1 DEF Ahead
  <2>4. CASE at = Ended
    <3>1. pos # TheEnd
      BY <2>4 DEF Here
    <3>2. Behind(graph, R, at, pos)
      BY <2>1, <2>2, <2>4, <3>1 DEF Lockstep
    <3> QED
      BY <2>4, <3>2 DEF Behind
  <2> QED
    BY <2>3, <2>4
<1> QED
  BY <1>1, CleanupIsSound, PTL
=============================================================================
