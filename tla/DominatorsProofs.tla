-------------------------- MODULE DominatorsProofs --------------------------
(***************************************************************************)
(* Proofs about the shape of a callback, for any graphs                    *)
(* (sonolus/backend/_opt/analysis.pyx, sonolus/backend/optimize/flow.py):  *)
(* that one block encloses another in the tour of the dominator tree       *)
(* exactly if it is on every path to it, and that natural loops nest.      *)
(*                                                                         *)
(* Of the numbers it is needed only that every block but the entry has a   *)
(* predecessor with a smaller one.  The iteration starts from above: what  *)
(* dominates a block dominates the immediate dominator it has so far, too. *)
(* When a sweep changes nothing, what is above a block in the tree is above *)
(* each of its predecessors, or the block itself, and so on every path.    *)
(*                                                                         *)
(* Two loops that share a block have headers above it, so one is above the *)
(* other.  It is the header of the loop around the other one, since no     *)
(* path comes to the block but through both.                               *)
(***************************************************************************)
EXTENDS Dominators, FiniteSetTheorems, SequenceTheorems, WellFoundedInduction, TLAPS

-----------------------------------------------------------------------------
(* Sequences, numbers and recursive functions.                             *)

LEMMA FrontFacts ==
  ASSUME NEW S, NEW s \in Seq(S), s # <<>>
  PROVE  /\ Front(s) \in Seq(S) /\ Len(Front(s)) = Len(s) - 1 /\ Len(s) \in Nat \ {0}
         /\ \A i \in 1 .. Len(s) - 1 : Front(s)[i] = s[i]
         /\ Last(s) = s[Len(s)] /\ Last(s) \in S
<1>1. Len(s) \in Nat \ {0} /\ Len(s) \in DOMAIN s /\ Last(s) = s[Len(s)] /\ Last(s) \in S
  BY DEF Last
<1>2. Front(s) \in Seq(S) /\ DOMAIN Front(s) = 1 .. Len(s) - 1 /\ \A i \in 1 .. Len(s) - 1 : Front(s)[i] = s[i]
  BY <1>1 DEF Front
<1>3. Len(Front(s)) = Len(s) - 1
  BY <1>1, <1>2
<1> QED
  BY <1>1, <1>2, <1>3

LEMMA ToSetFacts ==
  ASSUME NEW S, NEW s \in Seq(S)
  PROVE  /\ \A i \in 1 .. Len(s) : s[i] \in ToSet(s)
         /\ \A x \in ToSet(s) : x \in S /\ \E i \in 1 .. Len(s) : s[i] = x
BY DEF ToSet

LEMMA ToSetOfAppend ==
  ASSUME NEW S, NEW s \in Seq(S), NEW e \in S
  PROVE  ToSet(Append(s, e)) = ToSet(s) \cup {e}
<1>1. Append(s, e) \in Seq(S) /\ Len(Append(s, e)) = Len(s) + 1 /\ Append(s, e)[Len(s) + 1] = e
      /\ \A i \in 1 .. Len(s) : Append(s, e)[i] = s[i]
  BY AppendProperties
<1>2. Len(s) \in Nat /\ \A i \in 1 .. Len(s) + 1 : i \in 1 .. Len(s) \/ i = Len(s) + 1
  OBVIOUS
<1>3. ASSUME NEW x \in ToSet(Append(s, e)) PROVE x \in ToSet(s) \cup {e}
  <2>1. PICK i \in 1 .. Len(s) + 1 : Append(s, e)[i] = x
    BY <1>1, ToSetFacts
  <2> QED
    BY <1>1, <1>2, <2>1, ToSetFacts
<1>4. ASSUME NEW x \in ToSet(s) PROVE x \in ToSet(Append(s, e))
  <2>1. PICK i \in 1 .. Len(s) : s[i] = x
    BY ToSetFacts
  <2>2. i \in 1 .. Len(Append(s, e)) /\ Append(s, e)[i] = x
    BY <1>1, <1>2, <2>1
  <2> QED
    BY <1>1, <2>2, ToSetFacts
<1>5. e \in ToSet(Append(s, e))
  <2>1. Len(s) + 1 \in DOMAIN Append(s, e)
    BY <1>1, <1>2
  <2> QED
    BY <1>1, <2>1 DEF ToSet
<1> QED
  BY <1>3, <1>4, <1>5

\* What holds of a number if it holds of all smaller ones holds of all.
LEMMA StrongInduction ==
  ASSUME NEW N \in Nat, NEW S \in SUBSET (0 .. N), \A n \in 0 .. N : (\A m \in 0 .. N : m < n => m \in S) => n \in S
  PROVE  S = 0 .. N
<1> SUFFICES ASSUME (0 .. N) \ S # {} PROVE FALSE
  OBVIOUS
<1> DEFINE R == OpToRel(<, Nat)
<1>1. IsWellFoundedOn(R, Nat)
  BY NatLessThanWellFounded
<1>2. \A p, q \in Nat : p < q => <<p, q>> \in R
  BY DEF OpToRel
<1> HIDE DEF R
<1>3. (0 .. N) \ S \in SUBSET Nat
  OBVIOUS
<1>4. PICK m \in (0 .. N) \ S : \A p \in (0 .. N) \ S : ~ (<<p, m>> \in R)
  BY <1>1, <1>3, WFMin
<1>5. \A p \in 0 .. N : p < m => p \in S
  BY <1>2, <1>3, <1>4
<1> QED
  BY <1>4, <1>5
\* A function may be defined by its values in some places, and everywhere else
\* from its value one step on; left says how many steps there are at most.
Decreases(S, stop, step, left, N) ==
  /\ N \in Nat /\ stop \in SUBSET S /\ step \in [S -> S] /\ left \in [S -> 0 .. N]
  /\ \A s \in S \ stop : left[step[s]] < left[s]
Defines(f, S, stop, out, step, then) ==
  f = [s \in S |-> IF s \in stop THEN out[s] ELSE then[s][f[step[s]]]]

LEMMA StepInduction ==
  ASSUME NEW S, NEW stop, NEW step, NEW left, NEW N, Decreases(S, stop, step, left, N),
         NEW R \in SUBSET S, stop \subseteq R, \A s \in S \ stop : step[s] \in R => s \in R
  PROVE  R = S
<1> DEFINE low == {n \in 0 .. N : \A s \in S : left[s] = n => s \in R}
<1>1. N \in Nat /\ step \in [S -> S] /\ left \in [S -> 0 .. N] /\ \A s \in S \ stop : left[step[s]] < left[s]
  BY DEF Decreases
<1>2. ASSUME NEW n \in 0 .. N, \A m \in 0 .. N : m < n => m \in low PROVE n \in low
  <2> SUFFICES ASSUME NEW s \in S, left[s] = n, s \notin stop PROVE s \in R
    OBVIOUS
  <2>1. step[s] \in S /\ left[step[s]] \in 0 .. N /\ left[step[s]] < n
    BY <1>1
  <2>2. left[step[s]] \in low
    BY <1>2, <2>1
  <2> QED
    BY <2>1, <2>2
<1>3. low = 0 .. N
  <2> HIDE DEF low
  <2>1. low \in SUBSET (0 .. N)
    BY DEF low
  <2> QED
    BY <1>1, <1>2, <2>1, StrongInduction
<1> QED
  BY <1>1, <1>3

LEMMA RecursionExists ==
  ASSUME NEW S, NEW stop, NEW step, NEW left, NEW N, Decreases(S, stop, step, left, N),
         NEW X, NEW out \in [S -> X], NEW then \in [S -> [X -> X]], NEW x \in X
  PROVE  \E f \in [S -> X] : Defines(f, S, stop, out, step, then)
<1> DEFINE Upto(f, n) == f \in [S -> X] /\ \A s \in S : left[s] < n => f[s] = IF s \in stop THEN out[s] ELSE then[s][f[step[s]]]
           good == {n \in 0 .. N + 1 : \E f : Upto(f, n)}
<1>1. N \in Nat /\ step \in [S -> S] /\ left \in [S -> 0 .. N] /\ \A s \in S \ stop : left[step[s]] < left[s]
  BY DEF Decreases
<1>2. Upto([s \in S |-> x], 0)
  <2>1. \A s \in S : ~ (left[s] < 0)
    BY <1>1
  <2> QED
    BY <2>1
<1>3. ASSUME NEW n \in Nat, NEW f, Upto(f, n) PROVE \E g : Upto(g, n + 1)
  <2> DEFINE g == [s \in S |-> IF s \in stop THEN out[s] ELSE then[s][f[step[s]]]]
  <2>1. g \in [S -> X]
    BY <1>1, <1>3
  <2>2. ASSUME NEW s \in S, left[s] < n + 1 PROVE g[s] = IF s \in stop THEN out[s] ELSE then[s][g[step[s]]]
    <3>1. CASE s \in stop
      BY <3>1
    <3>2. CASE s \notin stop
      <4>1. step[s] \in S /\ left[step[s]] < left[s] /\ left[s] \in Nat /\ left[step[s]] \in Nat
        BY <1>1, <3>2
      <4>2. left[step[s]] < n
        BY <2>2, <4>1
      <4>3. f[step[s]] = g[step[s]]
        BY <1>3, <4>1, <4>2
      <4>4. g[s] = then[s][f[step[s]]]
        BY <3>2
      <4> QED
        BY <3>2, <4>3, <4>4
    <3> QED
      BY <3>1, <3>2
  <2> HIDE DEF g
  <2> QED
    BY <2>1, <2>2
<1> HIDE DEF Upto
<1>4. good = 0 .. N + 1
  <2>1. N + 1 \in Nat /\ good \in SUBSET (0 .. N + 1)
    BY <1>1
  <2>2. ASSUME NEW n \in 0 .. N + 1, \A m \in 0 .. N + 1 : m < n => m \in good PROVE n \in good
    <3>1. CASE n = 0
      BY <1>2, <3>1
    <3>2. CASE n # 0
      <4>1. n - 1 \in 0 .. N + 1 /\ n - 1 < n /\ n - 1 \in Nat /\ (n - 1) + 1 = n
        BY <1>1, <3>2
      <4>2. PICK f : Upto(f, n - 1)
        BY <2>2, <4>1
      <4>3. \E g : Upto(g, n)
        BY <1>3, <4>1, <4>2
      <4> QED
        BY <4>3
    <3> QED
      BY <3>1, <3>2
  <2> HIDE DEF good
  <2> QED
    BY <2>1, <2>2, StrongInduction
<1>5. PICK f : Upto(f, N + 1)
  <2>1. N + 1 \in 0 .. N + 1
    BY <1>1
  <2> QED
    BY <1>4, <2>1
<1>6. f \in [S -> X] /\ \A s \in S : f[s] = IF s \in stop THEN out[s] ELSE then[s][f[step[s]]]
  <2>1. \A s \in S : left[s] < N + 1
    BY <1>1
  <2> QED
    BY <1>5, <2>1 DEF Upto
<1> QED
  BY <1>6 DEF Defines
-----------------------------------------------------------------------------
(* Numbering.                                                              *)

Blocks == DOMAIN graph
Frames == Blocks \X Seq(Blocks)
Edge(a, b) == b \in ToSet(graph[a])

\* Blocks are found once: the visited ones are on the stack or finished.
FoundOnce ==
  /\ found = {open[i][1] : i \in DOMAIN open} \cup ToSet(post)
  /\ \A i, j \in DOMAIN open : open[i][1] = open[j][1] => i = j
  /\ \A i, j \in DOMAIN post : post[i] = post[j] => i = j
  /\ \A i \in DOMAIN open : \A j \in DOMAIN post : open[i][1] # post[j]

\* Edges that have been looked at lead to visited blocks, the others are left.
EdgesSeen ==
  /\ \A i \in DOMAIN open : ToSet(open[i][2]) \subseteq ToSet(graph[open[i][1]])
  /\ \A i \in DOMAIN open : ToSet(graph[open[i][1]]) \subseteq found \cup ToSet(open[i][2])
  /\ \A i \in DOMAIN post : ToSet(graph[post[i]]) \subseteq found

\* A block on the stack was found from the one below it, a finished one from
\* one that is still on the stack or was finished later.
FoundFrom ==
  /\ open[1][1] = 0
  /\ \A i \in DOMAIN open : i # 1 => Edge(open[i - 1][1], open[i][1])
  /\ \A i \in DOMAIN post :
       \/ \E j \in DOMAIN open : Edge(open[j][1], post[i])
       \/ \E j \in DOMAIN post : i < j /\ Edge(post[j], post[i])

Numbering ==
  /\ graph \in FlowGraphs
  /\ open \in Seq(Frames) /\ open # <<>> /\ post \in Seq(Blocks)
  /\ FoundOnce /\ EdgesSeen /\ FoundFrom

\* What the rest needs of the numbers.
Shape ==
  /\ post # <<>> /\ Len(post) \in Nat \ {0}
  /\ succ \in [0 .. Len(post) - 1 -> Seq(0 .. Len(post) - 1)]
  /\ pred = [n \in 0 .. Len(post) - 1 |-> Sources(succ, n)]
  /\ \A n \in 1 .. Len(post) - 1 : \E m \in 0 .. n - 1 : n \in ToSet(succ[m])

NumberInv == IF stage = "number" THEN Numbering ELSE Shape

LEMMA NumberInitially ==
  ASSUME ShapeInit
  PROVE  NumberInv
<1>1. graph \in FlowGraphs /\ 0 \in Blocks /\ graph[0] \in Seq(Blocks) /\ open = <<<<0, graph[0]>>>> /\ found = {0} /\ post = <<>>
  BY GraphsAreWhole DEF ShapeInit, Blocks
<1>2. open \in Seq(Frames) /\ open # <<>> /\ DOMAIN open = {1} /\ open[1] = <<0, graph[0]>>
  BY <1>1 DEF Frames
<1>3. post \in Seq(Blocks) /\ DOMAIN post = {} /\ ToSet(post) = {}
  BY <1>1 DEF ToSet
<1>4. FoundOnce
  BY <1>1, <1>2, <1>3 DEF FoundOnce
<1>5. EdgesSeen
  BY <1>1, <1>2, <1>3 DEF EdgesSeen
<1>6. FoundFrom
  BY <1>1, <1>2, <1>3 DEF FoundFrom
<1> QED
  BY <1>1, <1>2, <1>3, <1>4, <1>5, <1>6 DEF ShapeInit, NumberInv, Numbering

LEMMA TopFacts ==
  ASSUME Numbering
  PROVE  /\ Len(open) \in Nat \ {0} /\ Len(open) \in DOMAIN open /\ DOMAIN open = 1 .. Len(open)
         /\ Last(open) = open[Len(open)]
         /\ Last(open)[1] \in Blocks /\ Last(open)[2] \in Seq(Blocks)
         /\ Last(open) = <<Last(open)[1], Last(open)[2]>>
         /\ \A b \in Blocks : graph[b] \in Seq(Blocks)
<1>1. open \in Seq(Frames) /\ open # <<>> /\ graph \in FlowGraphs
  BY DEF Numbering
<1>2. Len(open) \in Nat \ {0} /\ Len(open) \in DOMAIN open /\ DOMAIN open = 1 .. Len(open)
  BY <1>1
<1>3. Last(open) = open[Len(open)] /\ Last(open) \in Frames
  BY <1>1, FrontFacts
<1>4. \A b \in Blocks : graph[b] \in Seq(Blocks)
  BY <1>1, GraphsAreWhole DEF Blocks
<1> QED
  BY <1>2, <1>3, <1>4 DEF Frames

\* The next edge keeps the names on the stack, or puts one on top.
LEMMA NextEdgeNumbers ==
  ASSUME Numbering, NextEdge
  PROVE  Numbering'
<1> DEFINE K == Len(open)
           b == Head(Last(open)[2])
           rest == Tail(Last(open)[2])
<1>1. /\ K \in Nat \ {0} /\ K \in DOMAIN open /\ DOMAIN open = 1 .. K
      /\ Last(open) = open[K] /\ Last(open)[1] \in Blocks /\ Last(open)[2] \in Seq(Blocks)
      /\ \A c \in Blocks : graph[c] \in Seq(Blocks)
  BY TopFacts
<1>2. /\ graph' = graph /\ post' = post /\ Blocks' = Blocks /\ Frames' = Frames /\ Last(open)[2] # <<>>
      /\ graph \in FlowGraphs /\ post \in Seq(Blocks) /\ open \in Seq(Frames) /\ open # <<>>
      /\ FoundOnce /\ EdgesSeen /\ FoundFrom
  BY DEF NextEdge, Blocks, Frames, Numbering
<1>3. b \in Blocks /\ rest \in Seq(Blocks) /\ b \in ToSet(Last(open)[2])
  BY <1>1, <1>2 DEF ToSet
<1>4. ToSet(Last(open)[2]) = {b} \cup ToSet(rest)
  <2> DEFINE s == Last(open)[2]
  <2>1. s \in Seq(Blocks) /\ s # <<>>
    BY <1>1, <1>2
  <2> HIDE DEF s
  <2>2. ASSUME NEW x \in ToSet(s) PROVE x = Head(s) \/ x \in ToSet(Tail(s))
    <3>1. PICK i \in 1 .. Len(s) : s[i] = x
      BY <2>1, ToSetFacts
    <3>2. CASE i = 1
      BY <2>1, <3>1, <3>2
    <3>3. CASE i # 1
      <4>1. i - 1 \in DOMAIN Tail(s) /\ Tail(s)[i - 1] = s[i]
        BY <2>1, <3>1, <3>3
      <4> QED
        BY <3>1, <4>1 DEF ToSet
    <3> QED
      BY <3>2, <3>3
  <2>3. ASSUME NEW x \in ToSet(Tail(s)) PROVE x \in ToSet(s)
    <3>1. Tail(s) \in Seq(Blocks)
      BY <2>1
    <3>2. PICK i \in 1 .. Len(Tail(s)) : Tail(s)[i] = x
      BY <3>1, ToSetFacts
    <3>3. i + 1 \in DOMAIN s /\ s[i + 1] = x
      BY <2>1, <3>2
    <3> QED
      BY <3>3 DEF ToSet
  <2> QED
    BY <1>3, <2>2, <2>3 DEF s
<1> HIDE DEF K, b, rest
<1>5. CASE b \in found
  <2> DEFINE top == <<Last(open)[1], rest>>
  <2>1. open' = Append(Front(open), top) /\ found' = found /\ top \in Frames
    BY <1>1, <1>3, <1>5 DEF NextEdge, Frames, b, rest
  <2>2. Front(open) \in Seq(Frames) /\ Len(Front(open)) = K - 1 /\ \A i \in 1 .. K - 1 : Front(open)[i] = open[i]
    BY <1>2, FrontFacts DEF K
  <2> HIDE DEF top
  <2>3. /\ open' \in Seq(Frames) /\ open' # <<>> /\ Len(open') = (K - 1) + 1
        /\ \A i \in 1 .. K - 1 : open'[i] = Front(open)[i]
        /\ open'[(K - 1) + 1] = top
    BY <2>1, <2>2, AppendProperties
  <2>4. DOMAIN open' = DOMAIN open /\ open'[K] = top /\ \A i \in DOMAIN open : i # K => open'[i] = open[i]
    BY <1>1, <2>2, <2>3
  <2>5. \A i \in DOMAIN open : open'[i][1] = open[i][1]
    BY <1>1, <2>4 DEF top
  <2>6. FoundOnce'
    <3>1. {open'[i][1] : i \in DOMAIN open'} = {open[i][1] : i \in DOMAIN open}
      BY <2>4, <2>5
    <3>2. found' = {open'[i][1] : i \in DOMAIN open'} \cup ToSet(post')
      BY <1>2, <2>1, <3>1 DEF FoundOnce
    <3>3. \A i, j \in DOMAIN open' : open'[i][1] = open'[j][1] => i = j
      BY <1>2, <2>4, <2>5 DEF FoundOnce
    <3>4. \A i \in DOMAIN open' : \A j \in DOMAIN post : open'[i][1] # post[j]
      BY <1>2, <2>4, <2>5 DEF FoundOnce
    <3> QED
      BY <1>2, <3>2, <3>3, <3>4 DEF FoundOnce
  <2>7. EdgesSeen'
    <3>1. ToSet(graph[open[K][1]]) \subseteq found \cup ToSet(Last(open)[2])
      BY <1>1, <1>2 DEF EdgesSeen
    <3>2. ToSet(graph[open[K][1]]) \subseteq found \cup ToSet(open'[K][2])
      BY <1>4, <1>5, <2>4, <3>1 DEF top
    <3>3. ToSet(open'[K][2]) \subseteq ToSet(graph[open[K][1]])
      <4>1. ToSet(open[K][2]) \subseteq ToSet(graph[open[K][1]])
        BY <1>1, <1>2 DEF EdgesSeen
      <4> QED
        BY <1>1, <1>4, <2>4, <4>1 DEF top
    <3>4. \A i \in DOMAIN open : ToSet(graph[open[i][1]]) \subseteq found \cup ToSet(open'[i][2])
      <4> TAKE i \in DOMAIN open
      <4>1. CASE i = K
        BY <3>2, <4>1
      <4>2. CASE i # K
        BY <1>2, <2>4, <4>2 DEF EdgesSeen
      <4> QED
        BY <4>1, <4>2
    <3>5. \A i \in DOMAIN open : ToSet(open'[i][2]) \subseteq ToSet(graph[open[i][1]])
      <4> TAKE i \in DOMAIN open
      <4>1. CASE i = K
        BY <3>3, <4>1
      <4>2. CASE i # K
        BY <1>2, <2>4, <4>2 DEF EdgesSeen
      <4> QED
        BY <4>1, <4>2
    <3> QED
      BY <1>2, <2>1, <2>4, <2>5, <3>4, <3>5 DEF EdgesSeen
  <2>8. FoundFrom'
    <3>1. open'[1][1] = 0 /\ \A i \in DOMAIN open : i # 1 => i - 1 \in DOMAIN open
      <4>1. 1 \in DOMAIN open /\ \A i \in DOMAIN open : i # 1 => i - 1 \in DOMAIN open
        BY <1>1
      <4> QED
        BY <1>2, <2>5, <4>1 DEF FoundFrom
    <3>2. \A i \in DOMAIN open : i # 1 => Edge(open'[i - 1][1], open'[i][1])
      BY <1>2, <2>5, <3>1 DEF FoundFrom
    <3> QED
      BY <1>2, <2>4, <2>5, <3>1, <3>2 DEF FoundFrom, Edge
  <2> QED
    BY <1>2, <2>3, <2>6, <2>7, <2>8 DEF Numbering
<1>6. CASE b \notin found
  <2> DEFINE top == <<b, graph[b]>>
  <2>1. open' = Append(open, top) /\ found' = found \cup {b} /\ top \in Frames
    BY <1>1, <1>3, <1>6 DEF NextEdge, Found, Frames, b
  <2>2. top[1] = b /\ top[2] = graph[b]
    OBVIOUS
  <2> HIDE DEF top
  <2>3. /\ open' \in Seq(Frames) /\ open' # <<>> /\ Len(open') = K + 1
        /\ \A i \in 1 .. K : open'[i] = open[i]
        /\ open'[K + 1] = top
    <3>1. open \in Seq(Frames)
      BY <1>2
    <3> QED
      BY <2>1, <3>1, AppendProperties DEF K
  <2>4. /\ DOMAIN open' = DOMAIN open \cup {K + 1} /\ K + 1 \notin DOMAIN open
        /\ \A i \in DOMAIN open : open'[i] = open[i]
    BY <1>1, <2>3
  <2>5. FoundOnce'
    <3>1. \A i \in DOMAIN open : open[i][1] # b
      BY <1>2, <1>6 DEF FoundOnce
    <3>2. \A i \in DOMAIN post : post[i] # b
      BY <1>2, <1>6 DEF FoundOnce, ToSet
    <3>3. found' = {open'[i][1] : i \in DOMAIN open'} \cup ToSet(post')
      BY <1>2, <2>1, <2>2, <2>3, <2>4 DEF FoundOnce
    <3>4. \A i, j \in DOMAIN open' : open'[i][1] = open'[j][1] => i = j
      BY <1>2, <2>2, <2>3, <2>4, <3>1 DEF FoundOnce
    <3>5. \A i \in DOMAIN open' : \A j \in DOMAIN post : open'[i][1] # post[j]
      BY <1>2, <2>2, <2>3, <2>4, <3>2 DEF FoundOnce
    <3> QED
      BY <1>2, <3>3, <3>4, <3>5 DEF FoundOnce
  <2>6. EdgesSeen'
    <3>1. ASSUME NEW i \in DOMAIN open'
          PROVE  /\ ToSet(open'[i][2]) \subseteq ToSet(graph[open'[i][1]])
                 /\ ToSet(graph[open'[i][1]]) \subseteq found' \cup ToSet(open'[i][2])
      <4>1. CASE i = K + 1
        BY <2>2, <2>3, <4>1
      <4>2. CASE i # K + 1
        <5>1. i \in DOMAIN open /\ open'[i] = open[i]
          BY <2>4, <3>1, <4>2
        <5> QED
          BY <1>2, <2>1, <5>1 DEF EdgesSeen
      <4> QED
        BY <4>1, <4>2
    <3> QED
      BY <1>2, <2>1, <3>1 DEF EdgesSeen
  <2>7. FoundFrom'
    <3>1. Edge(open[K][1], b)
      BY <1>1, <1>2, <1>3 DEF EdgesSeen, Edge
    <3>2. open'[1][1] = 0
      BY <1>1, <1>2, <2>4 DEF FoundFrom
    <3>3. ASSUME NEW i \in DOMAIN open', i # 1 PROVE Edge(open'[i - 1][1], open'[i][1])
      <4>1. CASE i = K + 1
        BY <1>1, <2>2, <2>3, <2>4, <3>1, <4>1
      <4>2. CASE i # K + 1
        <5>1. i \in DOMAIN open /\ i - 1 \in DOMAIN open
          BY <1>1, <2>4, <3>3, <4>2
        <5> QED
          BY <1>2, <2>4, <3>3, <5>1 DEF FoundFrom
      <4> QED
        BY <4>1, <4>2
    <3>4. \A i \in DOMAIN post : \A j \in DOMAIN open : Edge(open[j][1], post[i]) => Edge(open'[j][1], post[i]) /\ j \in DOMAIN open'
      BY <2>4
    <3> QED
      BY <1>2, <3>2, <3>3, <3>4 DEF FoundFrom, Edge
  <2> QED
    BY <1>2, <2>3, <2>5, <2>6, <2>7 DEF Numbering
<1> QED
  BY <1>5, <1>6
\* The blocks of an order are numbered one to one, edges included.
LEMMA NumberedFacts ==
  ASSUME NEW order \in Seq(Blocks), order # <<>>, \A b \in Blocks : graph[b] \in Seq(Blocks),
         \A i, j \in DOMAIN order : order[i] = order[j] => i = j,
         \A i \in DOMAIN order : ToSet(graph[order[i]]) \subseteq ToSet(order)
  PROVE  /\ Numbered(order) \in [0 .. Len(order) - 1 -> Seq(0 .. Len(order) - 1)]
         /\ \A i, j \in 1 .. Len(order) : Edge(order[i], order[j]) => Len(order) - j \in ToSet(Numbered(order)[Len(order) - i])
<1> DEFINE N == Len(order)
           number(b) == CHOOSE n \in 0 .. N - 1 : order[N - n] = b
           out(n) == graph[order[N - n]]
<1>1. N \in Nat \ {0} /\ DOMAIN order = 1 .. N /\ \A i \in 1 .. N : order[i] \in Blocks
  OBVIOUS
<1>2. ASSUME NEW j \in 1 .. N PROVE number(order[j]) = N - j
  <2>1. N - j \in 0 .. N - 1 /\ N - (N - j) = j
    BY <1>1
  <2>2. number(order[j]) \in 0 .. N - 1 /\ order[N - number(order[j])] = order[j]
    BY <2>1
  <2> HIDE DEF number
  <2>3. N - number(order[j]) \in DOMAIN order /\ j \in DOMAIN order
    BY <1>1, <2>2
  <2>4. N - number(order[j]) = j
    BY <2>2, <2>3
  <2> QED
    BY <1>1, <2>2, <2>4
<1>3. Numbered(order) = [n \in 0 .. N - 1 |-> [i \in DOMAIN out(n) |-> number(out(n)[i])]]
  BY DEF Numbered
<1>4. ASSUME NEW n \in 0 .. N - 1
      PROVE  /\ out(n) \in Seq(Blocks) /\ ToSet(out(n)) \subseteq ToSet(order)
             /\ Numbered(order)[n] = [i \in DOMAIN out(n) |-> number(out(n)[i])]
  <2>1. N - n \in DOMAIN order
    BY <1>1
  <2>2. out(n) \in Seq(Blocks) /\ ToSet(out(n)) \subseteq ToSet(order)
    BY <1>1, <2>1
  <2> HIDE DEF number, out
  <2> QED
    BY <1>3, <2>2
<1> HIDE DEF number
<1>5. ASSUME NEW n \in 0 .. N - 1, NEW i \in DOMAIN out(n)
      PROVE  number(out(n)[i]) \in 0 .. N - 1
  <2>1. out(n)[i] \in ToSet(order)
    BY <1>4 DEF ToSet
  <2>2. PICK j \in 1 .. N : order[j] = out(n)[i]
    BY <1>1, <2>1 DEF ToSet
  <2> HIDE DEF out
  <2> QED
    BY <1>1, <1>2, <2>2
<1>6. ASSUME NEW n \in 0 .. N - 1
      PROVE  Numbered(order)[n] \in Seq(0 .. N - 1)
  <2> DEFINE s == out(n)
             f == [i \in DOMAIN s |-> number(s[i])]
  <2>1. s \in Seq(Blocks) /\ \A i \in DOMAIN s : number(s[i]) \in 0 .. N - 1
    BY <1>4, <1>5
  <2> HIDE DEF s
  <2>2. DOMAIN s = 1 .. Len(s) /\ Len(s) \in Nat
    BY <2>1
  <2>3. f \in [1 .. Len(s) -> 0 .. N - 1]
    BY <2>1, <2>2
  <2>4. f \in Seq(0 .. N - 1)
    BY <2>2, <2>3, IsASeq
  <2> QED
    BY <1>4, <2>4 DEF s
<1>7. Numbered(order) \in [0 .. N - 1 -> Seq(0 .. N - 1)]
  <2>1. DOMAIN Numbered(order) = 0 .. N - 1 /\ Numbered(order) = [n \in DOMAIN Numbered(order) |-> Numbered(order)[n]]
    BY <1>3
  <2> QED
    BY <1>6, <2>1
<1>8. ASSUME NEW i \in 1 .. N, NEW j \in 1 .. N, Edge(order[i], order[j])
      PROVE  N - j \in ToSet(Numbered(order)[N - i])
  <2>1. N - i \in 0 .. N - 1 /\ N - (N - i) = i
    BY <1>1
  <2>2. out(N - i) = graph[order[i]]
    BY <2>1
  <2>3. PICK k \in DOMAIN out(N - i) : out(N - i)[k] = order[j]
    BY <1>8, <2>2 DEF Edge, ToSet
  <2> HIDE DEF out
  <2>4. DOMAIN Numbered(order)[N - i] = DOMAIN out(N - i) /\ Numbered(order)[N - i][k] = number(order[j])
    <3> DEFINE t == out(N - i)
    <3>1. Numbered(order)[N - i] = [q \in DOMAIN t |-> number(t[q])] /\ k \in DOMAIN t /\ t[k] = order[j]
      BY <1>4, <2>1, <2>3
    <3> HIDE DEF t
    <3>2. DOMAIN Numbered(order)[N - i] = DOMAIN t /\ Numbered(order)[N - i][k] = number(order[j])
      BY <3>1
    <3> QED
      BY <3>2 DEF t
  <2> QED
    BY <1>2, <2>3, <2>4 DEF ToSet
<1> QED
  BY <1>7, <1>8

LEMMA FinishNumbers ==
  ASSUME stage = "number", Numbering, Finish
  PROVE  NumberInv'
<1> DEFINE K == Len(open)
           b == Last(open)[1]
           P == Len(post)
<1>1. /\ K \in Nat \ {0} /\ K \in DOMAIN open /\ DOMAIN open = 1 .. K
      /\ Last(open) = open[K] /\ b \in Blocks
      /\ \A c \in Blocks : graph[c] \in Seq(Blocks)
  BY TopFacts
<1>2. /\ graph' = graph /\ Blocks' = Blocks /\ Frames' = Frames /\ found' = found
      /\ graph \in FlowGraphs /\ post \in Seq(Blocks) /\ open \in Seq(Frames) /\ open # <<>>
      /\ FoundOnce /\ EdgesSeen /\ FoundFrom
  BY DEF Finish, Blocks, Frames, Numbering
<1>3. open' = Front(open) /\ post' = Append(post, b) /\ open[K] = <<b, <<>>>>
  <2>1. open[K] \in Frames
    BY <1>1, <1>2
  <2> QED
    BY <1>1, <2>1 DEF Finish, Frames
<1> HIDE DEF K, b
<1>4. /\ open' \in Seq(Frames) /\ Len(open') = K - 1 /\ DOMAIN open' = 1 .. K - 1
      /\ \A i \in 1 .. K - 1 : open'[i] = open[i] /\ i \in DOMAIN open /\ i # K
      /\ \A i \in DOMAIN open : i # K => i \in 1 .. K - 1
  <2>1. Front(open) \in Seq(Frames) /\ Len(Front(open)) = K - 1 /\ \A i \in 1 .. K - 1 : Front(open)[i] = open[i]
    BY <1>2, FrontFacts DEF K
  <2>2. \A i \in 1 .. K - 1 : i \in DOMAIN open /\ i # K
    BY <1>1
  <2>3. \A i \in DOMAIN open : i # K => i \in 1 .. K - 1
    BY <1>1
  <2> QED
    BY <1>3, <2>1, <2>2, <2>3
<1>5. /\ post' \in Seq(Blocks) /\ Len(post') = P + 1 /\ DOMAIN post' = 1 .. P + 1 /\ post' # <<>>
      /\ P \in Nat /\ DOMAIN post = 1 .. P
      /\ \A i \in 1 .. P : post'[i] = post[i]
      /\ post'[P + 1] = b
      /\ ToSet(post') = ToSet(post) \cup {b}
  <2>1. post \in Seq(Blocks) /\ b \in Blocks
    BY <1>1, <1>2 DEF b
  <2> QED
    BY <1>3, <2>1, AppendProperties, ToSetOfAppend
<1> HIDE DEF P
<1>6. /\ open[K][1] = b /\ \A i \in 1 .. P : post[i] # b
      /\ ToSet(graph[b]) \subseteq found
  <2>1. open[K][1] = b /\ open[K][2] = <<>> /\ ToSet(<<>>) = {}
    BY <1>3 DEF ToSet
  <2>2. \A i \in 1 .. P : post[i] # b
    BY <1>1, <1>2, <1>5, <2>1 DEF FoundOnce
  <2>3. ToSet(graph[b]) \subseteq found \cup {}
    BY <1>1, <1>2, <2>1 DEF EdgesSeen
  <2> QED
    BY <2>1, <2>2, <2>3
<1>7. FoundOnce'
  <2>1. found = {open'[i][1] : i \in DOMAIN open'} \cup ToSet(post')
    <3>1. ASSUME NEW x \in found PROVE x \in {open'[i][1] : i \in DOMAIN open'} \cup ToSet(post')
      <4>1. CASE x \in ToSet(post)
        BY <1>5, <4>1
      <4>2. CASE x \notin ToSet(post)
        <5>1. PICK i \in DOMAIN open : x = open[i][1]
          BY <1>2, <3>1, <4>2 DEF FoundOnce
        <5> QED
          BY <1>4, <1>5, <1>6, <5>1
      <4> QED
        BY <4>1, <4>2
    <3>2. ASSUME NEW x \in {open'[i][1] : i \in DOMAIN open'} \cup ToSet(post') PROVE x \in found
      <4>1. \A i \in DOMAIN open : open[i][1] \in found
        BY <1>2 DEF FoundOnce
      <4>2. ToSet(post) \subseteq found
        BY <1>2 DEF FoundOnce
      <4>3. CASE x \in ToSet(post')
        BY <1>1, <1>5, <1>6, <4>1, <4>2, <4>3
      <4>4. CASE x \notin ToSet(post')
        <5>1. PICK i \in DOMAIN open' : x = open'[i][1]
          BY <3>2, <4>4
        <5> QED
          BY <1>4, <4>1, <5>1
      <4> QED
        BY <4>3, <4>4
    <3> QED
      BY <3>1, <3>2
  <2>2. \A i, j \in DOMAIN open' : open'[i][1] = open'[j][1] => i = j
    BY <1>2, <1>4 DEF FoundOnce
  <2>3. ASSUME NEW i \in DOMAIN post', NEW j \in DOMAIN post', post'[i] = post'[j] PROVE i = j
    <3>1. (i \in 1 .. P \/ i = P + 1) /\ (j \in 1 .. P \/ j = P + 1)
      BY <1>5
    <3> QED
      BY <1>2, <1>5, <1>6, <2>3, <3>1 DEF FoundOnce
  <2>4. ASSUME NEW i \in DOMAIN open', NEW j \in DOMAIN post' PROVE open'[i][1] # post'[j]
    <3>1. j \in 1 .. P \/ j = P + 1
      BY <1>5
    <3>2. open'[i][1] # b
      BY <1>1, <1>2, <1>4, <1>6 DEF FoundOnce
    <3>3. \A k \in 1 .. P : open[i][1] # post[k]
      BY <1>2, <1>4, <1>5 DEF FoundOnce
    <3> QED
      BY <1>4, <1>5, <3>1, <3>2, <3>3
  <2> QED
    BY <1>2, <2>1, <2>2, <2>3, <2>4 DEF FoundOnce
<1>8. \A i \in DOMAIN post' : ToSet(graph[post'[i]]) \subseteq found
  <2> TAKE i \in DOMAIN post'
  <2>1. i \in 1 .. P \/ i = P + 1
    BY <1>5
  <2> QED
    BY <1>2, <1>5, <1>6, <2>1 DEF EdgesSeen
<1>9. \A i \in DOMAIN post' :
        \/ \E j \in DOMAIN open' : Edge(open'[j][1], post'[i])
        \/ \E j \in DOMAIN post' : i < j /\ Edge(post'[j], post'[i])
        \/ i = P + 1 /\ K = 1
  <2> TAKE i \in DOMAIN post'
  <2>1. CASE i = P + 1 /\ K # 1
    <3>1. K - 1 \in 1 .. K - 1
      BY <1>1, <2>1
    <3>2. Edge(open[K - 1][1], open[K][1])
      BY <1>1, <1>2, <2>1 DEF FoundFrom
    <3> QED
      BY <1>4, <1>5, <1>6, <2>1, <3>1, <3>2
  <2>2. CASE i # P + 1
    <3>1. i \in 1 .. P /\ post'[i] = post[i]
      BY <1>5, <2>2
    <3>2. CASE \E j \in DOMAIN open : Edge(open[j][1], post[i])
      <4>1. PICK j \in DOMAIN open : Edge(open[j][1], post[i])
        BY <3>2
      <4>2. CASE j = K
        <5>1. P + 1 \in DOMAIN post' /\ i < P + 1
          BY <1>5, <3>1
        <5> QED
          BY <1>5, <1>6, <3>1, <4>1, <4>2, <5>1
      <4>3. CASE j # K
        BY <1>4, <3>1, <4>1, <4>3
      <4> QED
        BY <4>2, <4>3
    <3>3. CASE \E j \in DOMAIN post : i < j /\ Edge(post[j], post[i])
      <4>1. PICK j \in DOMAIN post : i < j /\ Edge(post[j], post[i])
        BY <3>3
      <4>2. j \in DOMAIN post' /\ post'[j] = post[j]
        BY <1>5, <4>1
      <4> QED
        BY <3>1, <4>1, <4>2
    <3> QED
      BY <1>2, <1>5, <3>1, <3>2, <3>3 DEF FoundFrom
  <2> QED
    BY <2>1, <2>2
<1>10. CASE K # 1
  <2>1. stage' = "number" /\ open' # <<>>
    <3>1. K - 1 # 0
      BY <1>1, <1>10
    <3>2. stage' = stage
      BY <1>10 DEF Finish, K
    <3>3. Len(<<>>) = 0
      OBVIOUS
    <3> QED
      BY <1>4, <3>1, <3>2, <3>3
  <2>2. EdgesSeen'
    BY <1>2, <1>4, <1>8 DEF EdgesSeen
  <2>3. FoundFrom'
    <3>1. 1 \in 1 .. K - 1 /\ \A i \in 1 .. K - 1 : i # 1 => i - 1 \in 1 .. K - 1
      BY <1>1, <1>10
    <3>2. open'[1][1] = 0 /\ \A i \in DOMAIN open' : i # 1 => Edge(open'[i - 1][1], open'[i][1])
      BY <1>2, <1>4, <3>1 DEF FoundFrom
    <3> QED
      BY <1>2, <1>9, <1>10, <3>2 DEF FoundFrom, Edge
  <2> QED
    BY <1>2, <1>4, <1>5, <1>7, <2>1, <2>2, <2>3 DEF NumberInv, Numbering
<1>11. CASE K = 1
  <2>1. stage' = "idom" /\ succ' = Numbered(post') /\ pred' = [n \in DOMAIN succ' |-> Sources(succ', n)]
    BY <1>11 DEF Finish, K
  <2>2. found = ToSet(post') /\ DOMAIN open' = {}
    BY <1>2, <1>4, <1>7, <1>11 DEF FoundOnce
  <2>3. /\ Numbered(post') \in [0 .. Len(post') - 1 -> Seq(0 .. Len(post') - 1)]
        /\ \A i, j \in 1 .. Len(post') : Edge(post'[i], post'[j]) => Len(post') - j \in ToSet(Numbered(post')[Len(post') - i])
    <3>1. \A i, j \in DOMAIN post' : post'[i] = post'[j] => i = j
      BY <1>7 DEF FoundOnce
    <3>2. \A i \in DOMAIN post' : ToSet(graph[post'[i]]) \subseteq ToSet(post')
      BY <1>8, <2>2
    <3>3. post' \in Seq(Blocks) /\ post' # <<>> /\ \A c \in Blocks : graph[c] \in Seq(Blocks)
      BY <1>1, <1>5
    <3> QED
      BY <3>1, <3>2, <3>3, NumberedFacts
  <2>4. ASSUME NEW n \in 1 .. Len(post') - 1 PROVE \E m \in 0 .. n - 1 : n \in ToSet(succ'[m])
    <3>1. P + 1 - n \in DOMAIN post' /\ P + 1 - n # P + 1 /\ (P + 1) - (P + 1 - n) = n
      BY <1>5
    <3>2. PICK j \in DOMAIN post' : P + 1 - n < j /\ Edge(post'[j], post'[P + 1 - n])
      BY <1>9, <2>2, <3>1
    <3>3. P + 1 - j \in 0 .. n - 1
      BY <1>5, <3>2
    <3>4. n \in ToSet(Numbered(post')[P + 1 - j])
      BY <1>5, <2>3, <3>1, <3>2
    <3> QED
      BY <2>1, <3>3, <3>4
  <2>5. Len(post') \in Nat \ {0} /\ DOMAIN succ' = 0 .. Len(post') - 1
    BY <1>5, <2>1, <2>3
  <2> QED
    BY <1>5, <2>1, <2>3, <2>4, <2>5 DEF NumberInv, Shape
<1> QED
  BY <1>10, <1>11
LEMMA NumberStep ==
  ASSUME NumberInv, [ShapeNext]_shapeVars
  PROVE  NumberInv'
<1>1. CASE NextEdge
  <2>1. stage = "number" /\ stage' = "number" /\ Numbering
    BY <1>1 DEF NextEdge, NumberInv
  <2> QED
    BY <1>1, <2>1, NextEdgeNumbers DEF NumberInv
<1>2. CASE Finish
  <2>1. stage = "number" /\ Numbering
    BY <1>2 DEF Finish, NumberInv
  <2> QED
    BY <1>2, <2>1, FinishNumbers
<1>3. CASE stage # "number" /\ stage' # "number" /\ UNCHANGED <<post, succ, pred>>
  BY <1>3 DEF NumberInv, Shape, Sources
<1>4. CASE UNCHANGED shapeVars
  BY <1>4 DEF shapeVars, NumberInv, Shape, Sources, Numbering, FoundOnce, EdgesSeen, FoundFrom, Edge, Blocks, Frames
<1>5. Update => <1>3!1
  BY DEF Update
<1>6. EndSweep => <1>3!1
  BY DEF EndSweep
<1>7. EnterChild => <1>3!1
  BY DEF EnterChild
<1>8. LeaveBlock => <1>3!1
  BY DEF LeaveBlock
<1> QED
  BY <1>1, <1>2, <1>3, <1>4, <1>5, <1>6, <1>7, <1>8 DEF ShapeNext
-----------------------------------------------------------------------------
(* Paths that avoid a block, and the tree as it is so far.                 *)

OnEveryPath(a, b) == a = b \/ b \notin ReachedAvoiding(a)

LEMMA ShapeFacts ==
  ASSUME Shape
  PROVE  /\ Len(post) \in Nat \ {0} /\ Numbers = 0 .. Len(post) - 1 /\ 0 \in Numbers /\ Numbers \subseteq Nat
         /\ \A m \in Numbers : ToSet(succ[m]) \subseteq Numbers
         /\ \A n \in Numbers : pred[n] = {m \in Numbers : n \in ToSet(succ[m])}
         /\ \A n \in Numbers : n # 0 => \E m \in Numbers : m < n /\ n \in ToSet(succ[m])
<1>1. Len(post) \in Nat \ {0} /\ Numbers = 0 .. Len(post) - 1
  BY DEF Shape, Numbers
<1>2. 0 \in Numbers /\ Numbers \subseteq Nat
  BY <1>1
<1>3. ASSUME NEW m \in Numbers PROVE ToSet(succ[m]) \subseteq Numbers
  <2>1. succ[m] \in Seq(Numbers)
    BY <1>1, <1>3 DEF Shape
  <2> QED
    BY <2>1, ToSetFacts
<1>4. \A n \in Numbers : pred[n] = {m \in Numbers : n \in ToSet(succ[m])}
  BY <1>1 DEF Shape, Sources, Numbers
<1>5. ASSUME NEW n \in Numbers, n # 0 PROVE \E m \in Numbers : m < n /\ n \in ToSet(succ[m])
  <2>1. n \in 1 .. Len(post) - 1
    BY <1>1, <1>5
  <2>2. PICK m \in 0 .. n - 1 : n \in ToSet(succ[m])
    BY <2>1 DEF Shape
  <2>3. m \in Numbers /\ m < n
    BY <1>1, <2>1
  <2> QED
    BY <2>2, <2>3
<1> QED
  BY <1>1, <1>2, <1>3, <1>4, <1>5

LEMMA ReachedFacts ==
  ASSUME Shape, NEW a \in Numbers
  PROVE  /\ a # 0 => 0 \in ReachedAvoiding(a)
         /\ \A m \in ReachedAvoiding(a) : \A n \in ToSet(succ[m]) : n # a => n \in ReachedAvoiding(a)
<1>1. 0 \in Numbers /\ \A m \in Numbers : ToSet(succ[m]) \subseteq Numbers
  BY ShapeFacts
<1>2. a # 0 => 0 \in ReachedAvoiding(a)
  BY <1>1 DEF ReachedAvoiding, ClosedAvoiding
<1>3. ASSUME NEW m \in ReachedAvoiding(a), NEW n \in ToSet(succ[m]), n # a PROVE n \in ReachedAvoiding(a)
  <2>1. m \in Numbers /\ n \in Numbers
    BY <1>1 DEF ReachedAvoiding
  <2>2. ASSUME NEW S \in SUBSET Numbers, ClosedAvoiding(a, S) PROVE n \in S
    <3>1. m \in S
      BY <2>2 DEF ReachedAvoiding
    <3> QED
      BY <1>3, <2>2, <3>1 DEF ClosedAvoiding
  <2> QED
    BY <2>1, <2>2 DEF ReachedAvoiding
<1> QED
  BY <1>2, <1>3

\* A block is on every path to each source of an edge, if it is on every path
\* to the target and not the target.
LEMMA OnEveryPathToSources ==
  ASSUME Shape, NEW d \in Numbers, NEW m \in Numbers, NEW n \in ToSet(succ[m]), d # n, OnEveryPath(d, n)
  PROVE  OnEveryPath(d, m)
BY ReachedFacts DEF OnEveryPath

\* Every block is reached past the blocks with larger numbers.
LEMMA DominatorComesFirst ==
  ASSUME Shape, NEW a \in Numbers, NEW b \in Numbers, OnEveryPath(a, b)
  PROVE  a <= b
<1> DEFINE T == {n \in 0 .. Len(post) - 1 : n < a => n \in ReachedAvoiding(a)}
<1>1. Len(post) - 1 \in Nat /\ Numbers = 0 .. Len(post) - 1
  BY ShapeFacts
<1>2. ASSUME NEW n \in 0 .. Len(post) - 1, \A m \in 0 .. Len(post) - 1 : m < n => m \in T PROVE n \in T
  <2> SUFFICES ASSUME n < a PROVE n \in ReachedAvoiding(a)
    OBVIOUS
  <2>1. CASE n = 0
    <3>1. a # 0
      BY <1>1, <2>1
    <3> QED
      BY <2>1, <3>1, ReachedFacts
  <2>2. CASE n # 0
    <3>1. PICK m \in Numbers : m < n /\ n \in ToSet(succ[m])
      BY <1>1, <2>2, ShapeFacts
    <3>2. m \in T /\ m < a /\ n # a
      BY <1>1, <1>2, <3>1
    <3> QED
      BY <3>1, <3>2, ReachedFacts
  <2> QED
    BY <2>1, <2>2
<1>3. T = 0 .. Len(post) - 1
  <2> HIDE DEF T
  <2>1. T \in SUBSET (0 .. Len(post) - 1)
    BY DEF T
  <2> QED
    BY <1>1, <1>2, <2>1, StrongInduction
<1>4. a \in Int /\ b \in Int
  BY <1>1
<1>5. b < a => b \in ReachedAvoiding(a) /\ a # b
  BY <1>1, <1>3, <1>4
<1> QED
  BY <1>4, <1>5 DEF OnEveryPath

\* The blocks above a block in the tree, itself included.
Above(b) == {a \in Numbers : \A S \in SUBSET Numbers : b \in S /\ (\A m \in S : Dom(m) \in S) => a \in S}

\* Immediate dominators are known blocks that come earlier, and what is on
\* every path to a block is on every path to the one above it, or the block.
Tree ==
  /\ DOMAIN idom \subseteq Numbers \ {0}
  /\ \A n \in DOMAIN idom : idom[n] \in Known /\ idom[n] < n
  /\ \A n \in DOMAIN idom : \A d \in Numbers : d # n /\ OnEveryPath(d, n) => OnEveryPath(d, idom[n])

LEMMA TreeFacts ==
  ASSUME Shape, Tree
  PROVE  /\ Known = {0} \cup DOMAIN idom /\ Known \subseteq Numbers
         /\ Dom(0) = 0 /\ \A n \in DOMAIN idom : Dom(n) = idom[n] /\ n # 0
         /\ \A n \in Known : Dom(n) \in Known /\ Dom(n) <= n /\ (n # 0 => Dom(n) < n)
<1>1. 0 \in Numbers /\ Numbers \subseteq Nat /\ DOMAIN idom \subseteq Numbers \ {0}
  BY ShapeFacts DEF Tree
<1>2. Dom(0) = 0 /\ \A n \in DOMAIN idom : Dom(n) = idom[n] /\ n # 0
  BY <1>1 DEF Dom
<1>3. Known \subseteq Numbers
  BY DEF Known
<1>4. ASSUME NEW n \in Known PROVE n \in {0} \cup DOMAIN idom
  BY DEF Known, Dom
<1>5. 0 \in Known
  BY <1>1, <1>2 DEF Known
<1>6. ASSUME NEW n \in DOMAIN idom PROVE n \in Known
  <2>1. idom[n] \in Nat
    BY <1>1, <1>3 DEF Tree
  <2> QED
    BY <1>1, <1>2, <2>1 DEF Known
<1>7. ASSUME NEW n \in Known PROVE Dom(n) \in Known /\ Dom(n) <= n /\ (n # 0 => Dom(n) < n)
  <2>1. CASE n = 0
    BY <1>2, <1>5, <2>1
  <2>2. CASE n # 0
    <3>1. n \in DOMAIN idom
      BY <1>4, <2>2
    <3>2. idom[n] \in Known /\ idom[n] < n /\ idom[n] \in Nat /\ n \in Nat
      BY <1>1, <1>3, <3>1 DEF Tree
    <3> QED
      BY <1>2, <3>1, <3>2
  <2> QED
    BY <2>1, <2>2
<1> QED
  BY <1>2, <1>3, <1>4, <1>5, <1>6, <1>7

LEMMA AboveFacts ==
  ASSUME Shape, Tree, NEW b \in Known
  PROVE  /\ b \in Above(b) /\ Dom(b) \in Above(b)
         /\ \A a \in Above(b) : a \in Known /\ a <= b /\ Above(a) \subseteq Above(b) /\ (a # b => a \in Above(Dom(b)))
<1>1. /\ Known \subseteq Numbers /\ Numbers \subseteq Nat
      /\ \A n \in Known : Dom(n) \in Known /\ Dom(n) <= n
  BY ShapeFacts, TreeFacts
<1>2. b \in Above(b) /\ Dom(b) \in Above(b)
  BY <1>1 DEF Above
<1>3. ASSUME NEW a \in Above(b) PROVE a \in Known /\ a <= b
  <2> DEFINE S == {m \in Known : m <= b}
  <2>1. S \in SUBSET Numbers /\ b \in S
    <3>1. b \in Nat
      BY <1>1
    <3>2. b <= b
      BY <3>1
    <3> QED
      BY <1>1, <3>2
  <2>2. ASSUME NEW m \in S PROVE Dom(m) \in S
    <3>1. Dom(m) \in Nat /\ m \in Nat /\ b \in Nat
      BY <1>1
    <3> QED
      BY <1>1, <3>1
  <2>3. a \in S
    BY <1>3, <2>1, <2>2 DEF Above
  <2> QED
    BY <2>3
<1>4. ASSUME NEW a \in Above(b), NEW c \in Above(a) PROVE c \in Above(b)
  BY DEF Above
<1>5. ASSUME NEW a \in Above(b), a # b PROVE a \in Above(Dom(b))
  <2> DEFINE S == {b} \cup Above(Dom(b))
  <2>1. S \in SUBSET Numbers /\ b \in S
    BY <1>1 DEF Above
  <2>2. Dom(b) \in Above(Dom(b))
    BY <1>1 DEF Above
  <2>3. ASSUME NEW m \in Above(Dom(b)) PROVE Dom(m) \in Above(Dom(b))
    <3>1. m \in Known
      <4>1. Known \in SUBSET Numbers /\ Dom(b) \in Known
        BY <1>1
      <4> QED
        BY <1>1, <2>3, <4>1 DEF Above
    <3>2. Dom(m) \in Numbers
      BY <1>1, <3>1
    <3> QED
      BY <2>3, <3>2 DEF Above
  <2>4. a \in S
    BY <1>5, <2>1, <2>2, <2>3 DEF Above
  <2> QED
    BY <1>5, <2>4
<1> QED
  BY <1>2, <1>3, <1>4, <1>5
-----------------------------------------------------------------------------
(* The iteration.                                                          *)

\* A place where two fingers may meet: above both, and below what is on every
\* path to both.
Between(z, x, y) ==
  /\ z \in Known /\ z \in Above(x) /\ z \in Above(y)
  /\ \A d \in Numbers : OnEveryPath(d, x) /\ OnEveryPath(d, y) => OnEveryPath(d, z)

\* The finger with the larger number goes up.
LEMMA FingerGoesUp ==
  ASSUME Shape, Tree, NEW x \in Known, NEW y \in Known, y < x, NEW z
  PROVE  /\ Between(z, Dom(x), y) => Between(z, x, y)
         /\ Between(z, y, Dom(x)) => Between(z, y, x)
<1>1. /\ Known = {0} \cup DOMAIN idom /\ Known \subseteq Numbers /\ Numbers \subseteq Nat
      /\ \A n \in DOMAIN idom : Dom(n) = idom[n]
  BY ShapeFacts, TreeFacts
<1>2. x \in Nat /\ y \in Nat /\ x # 0
  BY <1>1
<1>3. Above(Dom(x)) \subseteq Above(x)
  BY AboveFacts
<1>4. ASSUME NEW d \in Numbers, OnEveryPath(d, x), OnEveryPath(d, y) PROVE OnEveryPath(d, Dom(x))
  <2>1. d <= y
    BY <1>1, <1>4, DominatorComesFirst
  <2>2. d # x
    BY <1>1, <1>2, <2>1
  <2>3. x \in DOMAIN idom
    BY <1>1, <1>2
  <2>4. Dom(x) = idom[x]
    BY <1>1, <2>3
  <2> QED
    BY <1>4, <2>2, <2>3, <2>4 DEF Tree
<1> QED
  BY <1>3, <1>4 DEF Between

LEMMA IntersectFacts ==
  ASSUME Shape, Tree, NEW a \in Known, NEW b \in Known
  PROVE  Between(Intersect(a, b), a, b)
<1> DEFINE S == Known \X Known
           stop == {p \in S : p[1] = p[2]}
           out == [p \in S |-> p[1]]
           up(p) == IF p[1] > p[2] THEN <<Dom(p[1]), p[2]>> ELSE <<p[1], Dom(p[2])>>
           step == [p \in S |-> up(p)]
           left == [p \in S |-> p[1] + p[2]]
           then == [p \in S |-> [z \in Known |-> z]]
           N == 2 * Len(post)
           Is(f) == f = [p \in Known \X Known |->
             IF p[1] = p[2] THEN p[1] ELSE IF p[1] > p[2] THEN f[<<Dom(p[1]), p[2]>>] ELSE f[<<p[1], Dom(p[2])>>]]
           h == CHOOSE f : Is(f)
<1>1. /\ Known \subseteq Numbers /\ Known \subseteq Nat /\ Len(post) \in Nat \ {0} /\ Numbers = 0 .. Len(post) - 1
      /\ \A n \in Known : Dom(n) \in Known /\ Dom(n) <= n /\ (n # 0 => Dom(n) < n)
  BY ShapeFacts, TreeFacts
<1>2. ASSUME NEW p \in S
      PROVE  /\ p[1] \in Known /\ p[2] \in Known /\ p[1] \in 0 .. Len(post) - 1 /\ p[2] \in 0 .. Len(post) - 1
             /\ p = <<p[1], p[2]>>
  <2>1. p[1] \in Known /\ p[2] \in Known /\ p = <<p[1], p[2]>>
    OBVIOUS
  <2> QED
    BY <1>1, <2>1
<1>3. ASSUME NEW p \in S
      PROVE  up(p) \in S /\ left[p] \in 0 .. N /\ (p \notin stop => left[up(p)] < left[p])
  <2>1. /\ Dom(p[1]) \in Known /\ Dom(p[1]) \in Nat /\ (p[1] # 0 => Dom(p[1]) < p[1])
        /\ Dom(p[2]) \in Known /\ Dom(p[2]) \in Nat /\ (p[2] # 0 => Dom(p[2]) < p[2])
    <3>1. \A n \in Known : Dom(n) \in Known /\ Dom(n) \in Nat /\ (n # 0 => Dom(n) < n)
      BY <1>1
    <3> HIDE DEF S
    <3> QED
      BY <1>2, <3>1
  <2>2. p[1] \in Nat /\ p[2] \in Nat /\ left[p] = p[1] + p[2] /\ left[p] \in 0 .. N
    BY <1>1, <1>2
  <2>3. CASE p[1] > p[2]
    <3>1. up(p) = <<Dom(p[1]), p[2]>> /\ up(p) \in S
      BY <1>2, <2>1, <2>3
    <3>2. left[up(p)] = Dom(p[1]) + p[2]
      BY <3>1
    <3> QED
      BY <2>1, <2>2, <2>3, <3>1, <3>2
  <2>4. CASE ~ (p[1] > p[2])
    <3>1. up(p) = <<p[1], Dom(p[2])>> /\ up(p) \in S
      BY <1>2, <2>1, <2>4
    <3>2. left[up(p)] = p[1] + Dom(p[2])
      BY <3>1
    <3>3. p \notin stop => p[2] # 0
      BY <2>2, <2>4
    <3> QED
      BY <2>1, <2>2, <2>4, <3>1, <3>2, <3>3
  <2> QED
    BY <2>3, <2>4
<1> HIDE DEF N
<1>4. Decreases(S, stop, step, left, N)
  <2>1. N \in Nat
    BY <1>1 DEF N
  <2>2. stop \in SUBSET S
    OBVIOUS
  <2>3. step \in [S -> S]
    BY <1>3
  <2>4. left \in [S -> 0 .. N]
    BY <1>3
  <2>5. ASSUME NEW p \in S \ stop PROVE left[step[p]] < left[p]
    BY <1>3
  <2> HIDE DEF S, stop, step, left
  <2> QED
    BY <2>1, <2>2, <2>3, <2>4, <2>5 DEF Decreases
<1>5. \E f : Is(f)
  <2>1. out \in [S -> Known]
    BY <1>2
  <2>2. then \in [S -> [Known -> Known]]
    OBVIOUS
  <2>3. \E f \in [S -> Known] : Defines(f, S, stop, out, step, then)
    <3> HIDE DEF S, stop, out, step, then, left
    <3> QED
      BY <1>4, <2>1, <2>2, RecursionExists
  <2>4. PICK f \in [S -> Known] : Defines(f, S, stop, out, step, then)
    BY <2>3
  <2>5. f = [p \in S |-> IF p \in stop THEN out[p] ELSE then[p][f[step[p]]]]
    BY <2>4 DEF Defines
  <2>6. ASSUME NEW p \in S
        PROVE  f[p] = IF p[1] = p[2] THEN p[1] ELSE IF p[1] > p[2] THEN f[<<Dom(p[1]), p[2]>>] ELSE f[<<p[1], Dom(p[2])>>]
    <3>1. then[p][f[step[p]]] = f[up(p)]
      BY <1>3
    <3>2. CASE p \in stop
      BY <2>5, <3>2
    <3>3. CASE p \notin stop
      <4>1. f[p] = f[up(p)] /\ p[1] # p[2]
        BY <2>5, <3>1, <3>3
      <4> QED
        BY <4>1
    <3> QED
      BY <3>2, <3>3
  <2>7. DOMAIN f = S /\ f = [p \in DOMAIN f |-> f[p]]
    BY <2>4
  <2> QED
    BY <2>6, <2>7
<1>6. Is(h)
  BY <1>5
<1>7. \A x, y \in Known : Intersect(x, y) = h[<<x, y>>]
  BY DEF Intersect
<1> HIDE DEF h
<1> DEFINE R == {p \in S : Between(h[p], p[1], p[2])}
<1>8. ASSUME NEW p \in stop PROVE p \in R
  <2>1. h[p] = p[1] /\ p[1] = p[2] /\ p[1] \in Known
    BY <1>2, <1>6
  <2>2. p[1] \in Above(p[1])
    BY <2>1, AboveFacts
  <2> QED
    BY <2>1, <2>2 DEF Between
<1>9. ASSUME NEW p \in S \ stop, step[p] \in R PROVE p \in R
  <2>1. p[1] \in Known /\ p[2] \in Known /\ p[1] \in Nat /\ p[2] \in Nat /\ p[1] # p[2]
    BY <1>2
  <2>2. CASE p[1] > p[2]
    <3>1. h[p] = h[<<Dom(p[1]), p[2]>>] /\ step[p] = <<Dom(p[1]), p[2]>>
      BY <1>6, <2>1, <2>2
    <3>2. Between(h[p], Dom(p[1]), p[2]) /\ p[2] < p[1]
      BY <1>9, <2>1, <2>2, <3>1
    <3> QED
      BY <2>1, <3>2, FingerGoesUp
  <2>3. CASE ~ (p[1] > p[2])
    <3>1. h[p] = h[<<p[1], Dom(p[2])>>] /\ step[p] = <<p[1], Dom(p[2])>>
      BY <1>6, <2>1, <2>3
    <3>2. Between(h[p], p[1], Dom(p[2])) /\ p[1] < p[2]
      BY <1>9, <2>1, <2>3, <3>1
    <3> QED
      BY <2>1, <3>2, FingerGoesUp
  <2> QED
    BY <2>2, <2>3
<1>10. R = S
  <2>1. R \in SUBSET S /\ stop \subseteq R
    BY <1>8
  <2> HIDE DEF S, stop, step, left, R
  <2> QED
    BY <1>4, <1>9, <2>1, StepInduction
<1>11. <<a, b>> \in R
  BY <1>10
<1> QED
  BY <1>7, <1>11
\* Where the fingers of several blocks meet: above all, below what is on every
\* path to all of them.
Meets(z, Q) ==
  IF Q = {} THEN z = -1
  ELSE /\ z \in Known /\ \A p \in Q : z \in Above(p)
       /\ \A d \in Numbers : (\A p \in Q : OnEveryPath(d, p)) => OnEveryPath(d, z)

LEMMA OneMoreMeets ==
  ASSUME Shape, Tree, NEW Q \in SUBSET Known, NEW p \in Known, NEW z, Meets(z, Q)
  PROVE  Meets(IF z = -1 THEN p ELSE Intersect(p, z), Q \cup {p})
<1>1. /\ Known \subseteq Nat /\ Q \cup {p} # {}
      /\ \A x \in Known : x \in Above(x) /\ \A c \in Above(x) : Above(c) \subseteq Above(x)
  BY ShapeFacts, TreeFacts, AboveFacts
<1>2. CASE Q = {}
  <2>1. z = -1 /\ Q \cup {p} = {p}
    BY <1>2 DEF Meets
  <2> QED
    BY <1>1, <2>1 DEF Meets
<1>3. CASE Q # {}
  <2>1. /\ z \in Known /\ \A q \in Q : z \in Above(q)
        /\ \A d \in Numbers : (\A q \in Q : OnEveryPath(d, q)) => OnEveryPath(d, z)
    BY <1>3 DEF Meets
  <2>2. z # -1
    BY <1>1, <2>1
  <2> DEFINE w == Intersect(p, z)
  <2>3. Between(w, p, z)
    BY <2>1, IntersectFacts
  <2> HIDE DEF w
  <2>4. w \in Known /\ \A q \in Q \cup {p} : w \in Above(q)
    BY <1>1, <2>1, <2>3 DEF Between
  <2>5. \A d \in Numbers : (\A q \in Q \cup {p} : OnEveryPath(d, q)) => OnEveryPath(d, w)
    BY <2>1, <2>3 DEF Between
  <2>6. Meets(w, Q \cup {p})
    BY <1>1, <2>4, <2>5 DEF Meets
  <2> QED
    BY <2>2, <2>6 DEF w
<1> QED
  BY <1>2, <1>3

LEMMA MeetFacts ==
  ASSUME Shape, Tree, NEW n \in Numbers
  PROVE  Meets(Meet(n), pred[n] \cap Known)
<1> DEFINE L == Len(post)
           S == 0 .. L
           X == Known \cup {-1}
           out == [m \in S |-> -1]
           step == [m \in S |-> IF m = 0 THEN 0 ELSE m - 1]
           left == [m \in S |-> m]
           next(m, z) == IF m - 1 \notin pred[n] \cap Known THEN z ELSE IF z = -1 THEN m - 1 ELSE Intersect(m - 1, z)
           then == [m \in S |-> [z \in X |-> IF m = 0 THEN z ELSE next(m, z)]]
           Is(f) == f = [m \in 0 .. Len(post) |->
             IF m = 0 THEN -1
             ELSE IF m - 1 \notin pred[n] \cap Known THEN f[m - 1]
             ELSE IF f[m - 1] = -1 THEN m - 1 ELSE Intersect(m - 1, f[m - 1])]
           h == CHOOSE f : Is(f)
           Q(m) == {p \in pred[n] \cap Known : p < m}
<1>1. L \in Nat \ {0} /\ Numbers = 0 .. L - 1 /\ Known \subseteq Numbers /\ Known \subseteq Nat
  BY ShapeFacts, TreeFacts
<1>2. Decreases(S, {0}, step, left, L)
  BY <1>1 DEF Decreases
<1>3. ASSUME NEW z \in Known, NEW p \in Known PROVE Intersect(p, z) \in Known
  BY IntersectFacts DEF Between
<1>4. \E f : Is(f)
  <2>1. out \in [S -> X]
    OBVIOUS
  <2>2. ASSUME NEW m \in S, NEW z \in X PROVE (IF m = 0 THEN z ELSE next(m, z)) \in X
    <3>1. m - 1 \in pred[n] \cap Known => m - 1 \in Known
      OBVIOUS
    <3>2. z # -1 => z \in Known
      OBVIOUS
    <3> QED
      BY <1>3, <3>1, <3>2
  <2>3. then \in [S -> [X -> X]]
    <3> HIDE DEF next
    <3> QED
      BY <2>2
  <2>4. -1 \in X
    OBVIOUS
  <2>5. PICK f \in [S -> X] : Defines(f, S, {0}, out, step, then)
    <3> HIDE DEF S, X, out, step, then, left, L
    <3> QED
      BY <1>2, <2>1, <2>3, <2>4, RecursionExists
  <2>6. f = [m \in S |-> IF m \in {0} THEN out[m] ELSE then[m][f[step[m]]]]
    BY <2>5 DEF Defines
  <2>7. ASSUME NEW m \in S PROVE f[m] = IF m = 0 THEN -1 ELSE next(m, f[m - 1])
    <3>1. CASE m = 0
      BY <2>6, <3>1
    <3>2. CASE m # 0
      <4>1. m - 1 \in S /\ f[m - 1] \in X /\ step[m] = m - 1
        <5>1. m - 1 \in S /\ step[m] = m - 1
          BY <1>1, <3>2
        <5> HIDE DEF S, X, step
        <5> QED
          BY <2>5, <5>1
      <4>2. f[m] = then[m][f[m - 1]]
        BY <2>6, <3>2, <4>1
      <4>3. then[m][f[m - 1]] = next(m, f[m - 1])
        <5> HIDE DEF next
        <5> QED
          BY <3>2, <4>1
      <4> QED
        BY <3>2, <4>2, <4>3
    <3> QED
      BY <3>1, <3>2
  <2>8. DOMAIN f = S /\ f = [m \in DOMAIN f |-> f[m]]
    BY <2>5
  <2> QED
    BY <2>7, <2>8
<1>5. Is(h)
  BY <1>4
<1>6. Meet(n) = h[L]
  BY DEF Meet
<1> HIDE DEF h
<1>7. h[0] = -1 /\ \A m \in 1 .. L : h[m] = next(m, h[m - 1])
  BY <1>1, <1>5
<1> DEFINE R == {m \in S : Meets(h[m], Q(m))}
<1>8. 0 \in R
  <2>1. Q(0) = {} /\ 0 \in S
    BY <1>1
  <2> QED
    BY <1>7, <2>1 DEF Meets
<1>9. ASSUME NEW m \in S \ {0}, step[m] \in R PROVE m \in R
  <2>1. m - 1 \in R /\ m \in 1 .. L /\ m \in Nat
    BY <1>1, <1>9
  <2>2. Meets(h[m - 1], Q(m - 1)) /\ Q(m - 1) \in SUBSET Known
    BY <2>1
  <2>3. CASE m - 1 \notin pred[n] \cap Known
    <3>1. Q(m) = Q(m - 1)
      <4>1. ASSUME NEW p \in pred[n] \cap Known PROVE p < m <=> p < m - 1
        <5>1. p \in Nat /\ p # m - 1
          BY <1>1, <2>3
        <5> QED
          BY <2>1, <5>1
      <4> QED
        BY <4>1
    <3>2. h[m] = h[m - 1]
      BY <1>7, <2>1, <2>3
    <3> QED
      BY <2>1, <2>2, <3>1, <3>2
  <2>4. CASE m - 1 \in pred[n] \cap Known
    <3>1. Q(m) = Q(m - 1) \cup {m - 1}
      <4>1. ASSUME NEW p \in pred[n] \cap Known PROVE p < m <=> (p < m - 1 \/ p = m - 1)
        <5>1. p \in Nat
          BY <1>1
        <5> QED
          BY <2>1, <5>1
      <4> QED
        BY <2>4, <4>1
    <3>2. h[m] = IF h[m - 1] = -1 THEN m - 1 ELSE Intersect(m - 1, h[m - 1])
      BY <1>7, <2>1, <2>4
    <3>3. m - 1 \in Known
      BY <2>4
    <3> HIDE DEF Q
    <3>4. Meets(h[m], Q(m - 1) \cup {m - 1})
      BY <2>2, <3>2, <3>3, OneMoreMeets
    <3> QED
      BY <2>1, <3>1, <3>4
  <2> QED
    BY <2>3, <2>4
<1>10. R = S
  <2>1. R \in SUBSET S /\ {0} \subseteq R
    BY <1>8
  <2> HIDE DEF S, step, left, R
  <2> QED
    BY <1>2, <1>9, <2>1, StepInduction
<1>11. Meets(h[L], Q(L))
  <2>1. L \in S
    BY <1>1
  <2> QED
    BY <1>10, <2>1
<1>12. Q(L) = pred[n] \cap Known
  <2>1. \A p \in Known : p < L
    BY <1>1
  <2> QED
    BY <2>1
<1> QED
  BY <1>6, <1>11, <1>12
\* A sweep: the blocks it has passed are known, and as long as nothing has
\* changed each of them is where its predecessors meet.
Sweep ==
  /\ at \in 1 .. Len(post) /\ changed \in BOOLEAN
  /\ 1 .. at - 1 \subseteq DOMAIN idom
  /\ ~ changed => \A n \in 1 .. at - 1 : idom[n] = Meet(n)
Settled == \A n \in Numbers : n # 0 => n \in DOMAIN idom /\ idom[n] = Meet(n)

IterationInv ==
  IF stage = "number" THEN idom = <<>> /\ at = 1 /\ changed = FALSE
  ELSE Tree /\ IF stage = "idom" THEN Sweep ELSE Settled

LEMMA PathsStay ==
  ASSUME UNCHANGED succ, NEW d, NEW n
  PROVE  OnEveryPath(d, n)' <=> OnEveryPath(d, n)
BY DEF OnEveryPath, ReachedAvoiding, ClosedAvoiding, Numbers

LEMMA MeetStays ==
  ASSUME UNCHANGED <<succ, pred, post, idom>>, NEW n
  PROVE  Meet(n)' = Meet(n)
BY DEF Meet, Intersect, Known, Numbers, Dom

LEMMA TreeStays ==
  ASSUME UNCHANGED <<succ, idom>>, Tree
  PROVE  Tree'
<1>1. \A d, n : OnEveryPath(d, n)' <=> OnEveryPath(d, n)
  BY PathsStay
<1>2. Numbers' = Numbers /\ Known' = Known
  BY DEF Numbers, Known, Dom
<1> QED
  BY <1>1, <1>2 DEF Tree

\* The block of an update has a known predecessor, so the fingers meet before it.
LEMMA UpdateMeets ==
  ASSUME Shape, Tree, Sweep, at < Len(post)
  PROVE  /\ at \in Numbers /\ at # 0 /\ at \in Nat
         /\ Meet(at) \in Known /\ Meet(at) < at
         /\ \A d \in Numbers : d # at /\ OnEveryPath(d, at) => OnEveryPath(d, Meet(at))
<1>1. /\ Len(post) \in Nat \ {0} /\ Numbers = 0 .. Len(post) - 1 /\ Numbers \subseteq Nat
      /\ Known = {0} \cup DOMAIN idom /\ Known \subseteq Nat
      /\ \A n \in Numbers : pred[n] = {m \in Numbers : n \in ToSet(succ[m])}
  BY ShapeFacts, TreeFacts
<1>2. at \in Numbers /\ at # 0 /\ at \in Nat
  BY <1>1 DEF Sweep
<1>3. PICK m \in Numbers : m < at /\ at \in ToSet(succ[m])
  BY <1>2, ShapeFacts
<1>4. m \in pred[at] \cap Known
  <2>1. m = 0 \/ m \in 1 .. at - 1
    BY <1>1, <1>2, <1>3
  <2> QED
    BY <1>1, <1>2, <1>3, <2>1 DEF Sweep
<1>5. Meets(Meet(at), pred[at] \cap Known)
  BY <1>2, MeetFacts
<1>6. Meet(at) \in Known /\ Meet(at) \in Above(m)
  BY <1>4, <1>5 DEF Meets
<1>7. Meet(at) < at
  <2>1. Meet(at) <= m
    BY <1>4, <1>6, AboveFacts
  <2>2. m \in Nat /\ Meet(at) \in Nat
    BY <1>1, <1>6
  <2> QED
    BY <1>2, <1>3, <2>1, <2>2
<1>8. ASSUME NEW d \in Numbers, d # at, OnEveryPath(d, at) PROVE OnEveryPath(d, Meet(at))
  <2>1. ASSUME NEW p \in pred[at] \cap Known PROVE OnEveryPath(d, p)
    BY <1>1, <1>2, <1>8, <2>1, OnEveryPathToSources
  <2> QED
    BY <1>4, <1>5, <2>1 DEF Meets
<1> QED
  BY <1>2, <1>6, <1>7, <1>8

LEMMA UpdateIterates ==
  ASSUME Shape, Tree, Sweep, Update
  PROVE  Tree' /\ Sweep'
<1> DEFINE new == Meet(at)
           better == new # -1 /\ Dom(at) # new
<1>1. /\ at \in Numbers /\ at # 0 /\ at \in Nat /\ new \in Known /\ new < at
      /\ \A d \in Numbers : d # at /\ OnEveryPath(d, at) => OnEveryPath(d, new)
  BY UpdateMeets DEF Update
<1>2. /\ Len(post) \in Nat \ {0} /\ Numbers = 0 .. Len(post) - 1 /\ Known \subseteq Nat
      /\ Known = {0} \cup DOMAIN idom /\ Known \subseteq Numbers
      /\ Dom(0) = 0 /\ \A n \in DOMAIN idom : Dom(n) = idom[n] /\ n # 0
  BY ShapeFacts, TreeFacts
<1>3. new # -1
  BY <1>1, <1>2
<1>4. /\ at < Len(post) /\ at' = at + 1 /\ changed' = (changed \/ better)
      /\ idom' = IF better THEN [n \in DOMAIN idom \cup {at} |-> IF n = at THEN new ELSE idom[n]] ELSE idom
      /\ succ' = succ /\ pred' = pred /\ post' = post /\ Numbers' = Numbers
  BY DEF Update, Numbers
<1>5. at' \in 1 .. Len(post') /\ \A n \in 1 .. at' - 1 : n \in 1 .. at - 1 \/ n = at
  BY <1>1, <1>2, <1>4
<1> HIDE DEF new
<1>6. CASE better
  <2>1. changed' = TRUE /\ changed' \in BOOLEAN
    BY <1>4, <1>6
  <2>2. /\ DOMAIN idom' = DOMAIN idom \cup {at} /\ idom'[at] = new
        /\ \A n \in DOMAIN idom : n # at => idom'[n] = idom[n]
    BY <1>4, <1>6
  <2>3. 1 .. at' - 1 \subseteq DOMAIN idom'
    BY <1>5, <2>2 DEF Sweep
  <2>4. ASSUME NEW m \in Known PROVE m \in Known'
    <3>1. CASE m = 0
      <4>1. Dom(0)' = 0
        BY <1>1, <1>2, <2>2, <3>1 DEF Dom
      <4> QED
        BY <1>2, <1>4, <3>1, <4>1 DEF Known
    <3>2. CASE m # 0
      <4>1. m \in DOMAIN idom' /\ idom'[m] \in Known
        BY <1>1, <1>2, <2>2, <3>2 DEF Tree
      <4>2. Dom(m)' = idom'[m] /\ idom'[m] # -1
        BY <1>2, <4>1 DEF Dom
      <4> QED
        BY <1>2, <1>4, <4>2 DEF Known
    <3> QED
      BY <3>1, <3>2
  <2>5. \A d, n : OnEveryPath(d, n)' <=> OnEveryPath(d, n)
    BY <1>4, PathsStay
  <2>6. ASSUME NEW n \in DOMAIN idom'
        PROVE  /\ idom'[n] \in Known /\ idom'[n] < n
               /\ \A d \in Numbers : d # n /\ OnEveryPath(d, n) => OnEveryPath(d, idom'[n])
    <3>1. CASE n = at
      BY <1>1, <2>2, <3>1
    <3>2. CASE n # at
      <4>1. n \in DOMAIN idom /\ idom'[n] = idom[n]
        BY <2>2, <3>2
      <4> QED
        BY <4>1 DEF Tree
    <3> QED
      BY <3>1, <3>2
  <2>7. Tree'
    <3>1. DOMAIN idom' \subseteq Numbers \ {0}
      BY <1>1, <2>2 DEF Tree
    <3> QED
      BY <1>4, <2>4, <2>5, <2>6, <3>1 DEF Tree
  <2> QED
    BY <1>5, <2>1, <2>3, <2>7 DEF Sweep
<1>7. CASE ~ better
  <2>1. idom' = idom /\ Dom(at) = new /\ changed' = changed
    <3>1. changed' = (changed \/ FALSE) /\ changed \in BOOLEAN
      BY <1>4, <1>7 DEF Sweep
    <3> QED
      BY <1>3, <1>4, <1>7, <3>1
  <2>2. at \in DOMAIN idom /\ idom[at] = new
    <3>1. at \in Known
      BY <1>1, <1>3, <2>1 DEF Known
    <3> QED
      BY <1>1, <1>2, <2>1, <3>1
  <2>3. Tree'
    BY <1>4, <2>1, TreeStays
  <2>4. \A n : Meet(n)' = Meet(n)
    BY <1>4, <2>1, MeetStays
  <2>5. \A n \in 1 .. at' - 1 : n \in DOMAIN idom /\ (~ changed => idom[n] = Meet(n))
    BY <1>5, <2>2 DEF Sweep, new
  <2>6. Sweep'
    BY <1>5, <2>1, <2>4, <2>5 DEF Sweep
  <2> QED
    BY <2>3, <2>6
<1> QED
  BY <1>6, <1>7
LEMMA IterationStep ==
  ASSUME NumberInv, IterationInv, [ShapeNext]_shapeVars
  PROVE  IterationInv'
<1>1. CASE NextEdge
  BY <1>1 DEF NextEdge, IterationInv
<1>2. CASE Finish
  <2>1. stage = "number" /\ idom' = <<>> /\ at' = 1 /\ changed' = FALSE
    BY <1>2 DEF Finish, IterationInv
  <2>2. CASE stage' = "number"
    BY <2>1, <2>2 DEF IterationInv
  <2>3. CASE stage' # "number"
    <3>1. stage' = "idom"
      BY <1>2, <2>1, <2>3 DEF Finish
    <3>2. Shape'
      BY <1>2, <2>3, NumberStep DEF NumberInv, ShapeNext
    <3>3. at' \in 1 .. Len(post') /\ 1 .. at' - 1 = {}
      BY <2>1, <3>2 DEF Shape
    <3>4. Sweep'
      BY <2>1, <3>3 DEF Sweep
    <3>5. DOMAIN idom' = {}
      BY <2>1
    <3>6. Tree'
      BY <3>5 DEF Tree
    <3> QED
      BY <3>1, <3>4, <3>6 DEF IterationInv
  <2> QED
    BY <2>2, <2>3
<1>3. CASE Update
  <2>1. stage = "idom" /\ stage' = "idom"
    BY <1>3 DEF Update
  <2>2. Shape /\ Tree /\ Sweep
    BY <2>1 DEF NumberInv, IterationInv
  <2> QED
    BY <1>3, <2>1, <2>2, UpdateIterates DEF IterationInv
<1>4. CASE EndSweep
  <2>1. stage = "idom" /\ at = Len(post) /\ at' = 1 /\ changed' = FALSE /\ UNCHANGED <<post, succ, pred, idom>>
    BY <1>4 DEF EndSweep
  <2>2. Shape /\ Tree /\ Sweep
    BY <2>1 DEF NumberInv, IterationInv
  <2>3. Tree'
    BY <2>1, <2>2, TreeStays
  <2>4. Len(post) \in Nat \ {0} /\ Numbers = 0 .. Len(post) - 1
    BY <2>2, ShapeFacts
  <2>5. CASE changed
    <3>1. stage' = "idom"
      BY <1>4, <2>1, <2>5 DEF EndSweep
    <3>2. at' \in 1 .. Len(post') /\ 1 .. at' - 1 = {}
      BY <2>1, <2>4
    <3>3. Sweep'
      BY <2>1, <3>2 DEF Sweep
    <3> QED
      BY <2>3, <3>1, <3>3 DEF IterationInv
  <2>6. CASE ~ changed
    <3>1. stage' = "tour"
      BY <1>4, <2>6 DEF EndSweep
    <3>2. \A n : Meet(n)' = Meet(n)
      BY <2>1, MeetStays
    <3>3. \A n \in Numbers : n # 0 => n \in DOMAIN idom /\ idom[n] = Meet(n)
      <4>1. \A n \in Numbers : n # 0 => n \in 1 .. at - 1
        BY <2>1, <2>4
      <4> QED
        BY <2>2, <2>6, <4>1 DEF Sweep
    <3>4. Settled'
      <4>1. Numbers' = Numbers
        BY <2>1 DEF Numbers
      <4> QED
        BY <2>1, <3>2, <3>3, <4>1 DEF Settled
    <3> QED
      BY <2>3, <3>1, <3>4 DEF IterationInv
  <2> QED
    BY <2>5, <2>6
<1>5. CASE stage \in {"tour", "done"} /\ stage' \in {"tour", "done"} /\ UNCHANGED <<post, succ, pred, idom>>
  <2>1. Tree /\ Settled
    BY <1>5 DEF IterationInv
  <2>2. Tree'
    BY <1>5, <2>1, TreeStays
  <2>3. \A n : Meet(n)' = Meet(n)
    BY <1>5, MeetStays
  <2>4. Settled'
    <3>1. Numbers' = Numbers
      BY <1>5 DEF Numbers
    <3> QED
      BY <1>5, <2>1, <2>3, <3>1 DEF Settled
  <2> QED
    BY <1>5, <2>2, <2>4 DEF IterationInv
<1>6. EnterChild => <1>5!1
  BY DEF EnterChild
<1>7. LeaveBlock => <1>5!1
  BY DEF LeaveBlock
<1>8. CASE UNCHANGED shapeVars
  <2>1. UNCHANGED <<post, succ, pred, idom, at, changed, stage>>
    BY <1>8 DEF shapeVars
  <2>2. Tree => Tree'
    BY <2>1, TreeStays
  <2>3. \A n : Meet(n)' = Meet(n)
    BY <2>1, MeetStays
  <2>4. Numbers' = Numbers
    BY <2>1 DEF Numbers
  <2>5. Settled => Settled'
    BY <2>1, <2>3, <2>4 DEF Settled
  <2>6. Sweep => Sweep'
    BY <2>1, <2>3 DEF Sweep
  <2> QED
    BY <2>1, <2>2, <2>5, <2>6 DEF IterationInv
<1> QED
  BY <1>1, <1>2, <1>3, <1>4, <1>5, <1>6, <1>7, <1>8 DEF ShapeNext

\* At the end, being above in the tree is being on every path.
LEMMA AboveIsOnEveryPath ==
  ASSUME Shape, Tree, Settled, NEW a \in Numbers, NEW b \in Numbers
  PROVE  a \in Above(b) <=> OnEveryPath(a, b)
<1>1. /\ Len(post) - 1 \in Nat /\ Numbers = 0 .. Len(post) - 1 /\ Numbers \subseteq Nat /\ 0 \in Numbers
      /\ \A m \in Numbers : ToSet(succ[m]) \subseteq Numbers
      /\ \A n \in Numbers : pred[n] = {m \in Numbers : n \in ToSet(succ[m])}
      /\ \A n \in DOMAIN idom : Dom(n) = idom[n] /\ n # 0
      /\ Known \subseteq Numbers /\ Known = {0} \cup DOMAIN idom
      /\ \A n \in Known : Dom(n) \in Known /\ Dom(n) <= n /\ (n # 0 => Dom(n) < n)
  BY ShapeFacts, TreeFacts
<1>2. Known = Numbers
  BY <1>1 DEF Settled
<1>3. ASSUME a \in Above(b), a # b PROVE b \notin ReachedAvoiding(a)
  <2> DEFINE S == {c \in Numbers : a \notin Above(c)}
  <2>1. a # 0 => 0 \in S
    <3>1. a \in Above(0) => a <= 0
      BY <1>1, <1>2, AboveFacts
    <3> QED
      BY <1>1, <3>1
  <2>2. ASSUME NEW m \in S, NEW n \in ToSet(succ[m]), n # a PROVE n \in S
    <3>1. n \in Numbers /\ m \in Numbers /\ a \notin Above(m)
      BY <1>1
    <3>2. CASE n = 0
      BY <2>1, <2>2, <3>2
    <3>3. CASE n # 0
      <4>1. m \in pred[n] \cap Known /\ Meets(idom[n], pred[n] \cap Known) /\ Dom(n) = idom[n]
        <5>1. m \in pred[n] \cap Known
          BY <1>1, <1>2, <3>1
        <5>2. idom[n] = Meet(n) /\ n \in DOMAIN idom
          BY <3>1, <3>3 DEF Settled
        <5>3. Meets(Meet(n), pred[n] \cap Known)
          BY <3>1, MeetFacts
        <5> QED
          BY <1>1, <5>1, <5>2, <5>3
      <4>2. Dom(n) \in Above(m)
        BY <4>1 DEF Meets
      <4>3. Above(Dom(n)) \subseteq Above(m)
        BY <1>2, <3>1, <4>2, AboveFacts
      <4>4. a \in Above(n) => a \in Above(Dom(n))
        BY <1>2, <2>2, <3>1, AboveFacts
      <4> QED
        BY <3>1, <4>3, <4>4
    <3> QED
      BY <3>2, <3>3
  <2>3. ClosedAvoiding(a, S)
    BY <2>1, <2>2 DEF ClosedAvoiding
  <2>4. S \in SUBSET Numbers /\ b \notin S
    BY <1>3
  <2> HIDE DEF S
  <2> QED
    BY <2>3, <2>4 DEF ReachedAvoiding
<1>4. OnEveryPath(a, b) => a \in Above(b)
  <2> DEFINE T == {n \in 0 .. Len(post) - 1 : OnEveryPath(a, n) => a \in Above(n)}
  <2>1. ASSUME NEW n \in 0 .. Len(post) - 1, \A m \in 0 .. Len(post) - 1 : m < n => m \in T PROVE n \in T
    <3> SUFFICES ASSUME OnEveryPath(a, n) PROVE a \in Above(n)
      OBVIOUS
    <3>1. n \in Known
      BY <1>1, <1>2
    <3>2. CASE a = n
      BY <3>1, <3>2, AboveFacts
    <3>3. CASE a # n
      <4>1. n # 0
        <5>1. n = 0 => n \in ReachedAvoiding(a)
          BY <1>1, <3>3, ReachedFacts
        <5> QED
          BY <3>3, <5>1 DEF OnEveryPath
      <4>2. n \in DOMAIN idom /\ Dom(n) = idom[n] /\ Dom(n) \in 0 .. Len(post) - 1 /\ Dom(n) < n
        BY <1>1, <1>2, <3>1, <4>1
      <4>3. OnEveryPath(a, Dom(n))
        BY <3>3, <4>2 DEF Tree
      <4>4. a \in Above(Dom(n))
        BY <2>1, <4>2, <4>3
      <4>5. Above(Dom(n)) \subseteq Above(n)
        BY <3>1, AboveFacts
      <4> QED
        BY <4>4, <4>5
    <3> QED
      BY <3>2, <3>3
  <2>2. T = 0 .. Len(post) - 1
    <3> HIDE DEF T
    <3>1. T \in SUBSET (0 .. Len(post) - 1)
      BY DEF T
    <3> QED
      BY <1>1, <2>1, <3>1, StrongInduction
  <2> QED
    BY <1>1, <2>2
<1>5. a = b => a \in Above(b)
  BY <1>2, AboveFacts
<1> QED
  BY <1>3, <1>4, <1>5 DEF OnEveryPath
-----------------------------------------------------------------------------
(* The tour.                                                               *)

Came(n) == tin[n] # -1
Went(n) == tout[n] # -1

\* Times lie in the past, and a block is left after it was come to.
Timed ==
  /\ clock \in Nat /\ tin \in [Numbers -> Int] /\ tout \in [Numbers -> Int]
  /\ \A n \in Numbers : tin[n] < clock /\ tout[n] < clock /\ (Went(n) => Came(n) /\ tin[n] < tout[n])

\* The blocks come to and not left are the path, each above those behind it.
OnThePath ==
  /\ path \in Seq(Numbers)
  /\ \A n \in Numbers : n \in ToSet(path) <=> Came(n) /\ ~ Went(n)
  /\ \A j \in DOMAIN path : \A i \in DOMAIN path : i < j => path[i] \in Above(path[j]) /\ path[i] < path[j]

\* The entry comes first, every block after the one above it, which is left
\* after all of its children.
ParentsEnclose ==
  /\ Came(0)
  /\ \A n \in Numbers : n # 0 /\ Came(n) => Came(Dom(n)) /\ tin[Dom(n)] < tin[n]
  /\ \A n \in Numbers : Went(n) => \A c \in Children(n) : Went(c) /\ tout[c] < tout[n]

\* Of two blocks none of which is above the other, one was left before the tour
\* came to the other.
OthersApart ==
  \A m, n \in Numbers : Came(m) /\ Came(n) /\ m \notin Above(n) /\ n \notin Above(m) =>
    (Went(m) /\ tout[m] < tin[n]) \/ (Went(n) /\ tout[n] < tin[m])

Tour == Timed /\ OnThePath /\ ParentsEnclose /\ OthersApart
TourInv == stage \in {"tour", "done"} => Tour /\ (stage = "tour" <=> path # <<>>)

\* A set of numbers has a least one.
LEMMA MinFacts ==
  ASSUME NEW N \in Nat, NEW S \in SUBSET (0 .. N), S # {}
  PROVE  Min(S) \in S /\ \A y \in S : Min(S) <= y
<1> DEFINE T == (0 .. N) \ S
<1>1. ASSUME ~ \E x \in S : \A y \in S : x <= y PROVE FALSE
  <2>1. ASSUME NEW n \in 0 .. N, \A m \in 0 .. N : m < n => m \in T PROVE n \in T
    <3>1. ASSUME n \in S PROVE FALSE
      <4>1. PICK y \in S : ~ (n <= y)
        BY <1>1, <3>1
      <4>2. y \in 0 .. N /\ y < n
        BY <4>1
      <4> QED
        BY <2>1, <4>1, <4>2
    <3> QED
      BY <3>1
  <2>2. T \in SUBSET (0 .. N)
    OBVIOUS
  <2> HIDE DEF T
  <2>3. T = 0 .. N
    BY <2>1, <2>2, StrongInduction
  <2> QED
    BY <2>3 DEF T
<1> QED
  BY <1>1 DEF Min

\* In the tour every block is in the tree.
LEMMA TourTree ==
  ASSUME Shape, Tree, Settled
  PROVE  /\ Len(post) - 1 \in Nat /\ Numbers = 0 .. Len(post) - 1 /\ 0 \in Numbers /\ Numbers \subseteq Nat /\ Known = Numbers
         /\ Dom(0) = 0 /\ \A n \in Numbers : n # 0 => Dom(n) \in Numbers /\ Dom(n) < n
         /\ \A n \in Numbers : n \in Above(n)
         /\ \A b \in Numbers : \A a \in Above(b) :
              a \in Numbers /\ a <= b /\ Above(a) \subseteq Above(b) /\ (a # b => a \in Above(Dom(b)))
         /\ \A n \in Numbers : \A c \in Children(n) :
              c \in Numbers /\ c # 0 /\ Dom(c) = n /\ n \in Above(c) /\ n < c /\ Above(n) \subseteq Above(c)
<1>1. /\ Len(post) - 1 \in Nat /\ Numbers = 0 .. Len(post) - 1 /\ 0 \in Numbers /\ Numbers \subseteq Nat
      /\ Known \subseteq Numbers /\ Known = {0} \cup DOMAIN idom /\ Dom(0) = 0
      /\ \A n \in Known : Dom(n) \in Known /\ Dom(n) <= n /\ (n # 0 => Dom(n) < n)
  BY ShapeFacts, TreeFacts
<1>2. Known = Numbers
  BY <1>1 DEF Settled
<1>3. \A b \in Numbers : /\ b \in Above(b) /\ Dom(b) \in Above(b)
                         /\ \A a \in Above(b) : a \in Numbers /\ a <= b /\ Above(a) \subseteq Above(b) /\ (a # b => a \in Above(Dom(b)))
  BY <1>2, AboveFacts
<1>4. ASSUME NEW n \in Numbers, NEW c \in Children(n)
      PROVE  c \in Numbers /\ c # 0 /\ Dom(c) = n /\ n \in Above(c) /\ n < c /\ Above(n) \subseteq Above(c)
  <2>1. c \in Numbers /\ c # 0 /\ Dom(c) = n
    BY DEF Children
  <2> QED
    BY <1>1, <1>2, <1>3, <2>1
<1> QED
  BY <1>1, <1>2, <1>3, <1>4

LEMMA TreeOfTourStays ==
  ASSUME UNCHANGED <<post, succ, idom>>
  PROVE  /\ Numbers' = Numbers
         /\ \A n : Dom(n)' = Dom(n) /\ Above(n)' = Above(n) /\ Children(n)' = Children(n)
BY DEF Numbers, Dom, Above, Children

LEMMA EnterTours ==
  ASSUME Shape, Tree, Settled, Tour, path # <<>>, EnterChild
  PROVE  Tour' /\ path' # <<>>
<1> DEFINE K == Len(path)
<1> PICK top : top = Last(path)
  OBVIOUS
<1> PICK c : c = Min(Left(top))
  OBVIOUS
<1>1. /\ Len(post) - 1 \in Nat /\ Numbers = 0 .. Len(post) - 1 /\ Numbers \subseteq Nat
      /\ \A n \in Numbers : n \in Above(n)
      /\ \A b \in Numbers : \A a \in Above(b) : a \in Numbers /\ a <= b
      /\ \A n \in Numbers : \A d \in Children(n) : d \in Numbers /\ d # 0 /\ Dom(d) = n /\ n \in Above(d) /\ n < d /\ Above(n) \subseteq Above(d)
  BY TourTree
<1>2. /\ path \in Seq(Numbers) /\ K \in Nat \ {0} /\ top = path[K] /\ top \in Numbers /\ DOMAIN path = 1 .. K
      /\ top \in ToSet(path)
  <2>1. path \in Seq(Numbers) /\ path # <<>>
    BY DEF Tour, OnThePath
  <2> QED
    BY <2>1, FrontFacts DEF ToSet
<1>3. c \in Children(top) /\ tin[c] = -1
  <2>1. Left(top) # {} /\ Left(top) \in SUBSET (0 .. Len(post) - 1)
    BY <1>1 DEF EnterChild, Left, Children
  <2>2. c \in Left(top)
    BY <1>1, <2>1, MinFacts
  <2> QED
    BY <2>2 DEF Left
<1>4. c \in Numbers /\ c # 0 /\ Dom(c) = top /\ top \in Above(c) /\ top < c /\ Above(top) \subseteq Above(c)
  BY <1>1, <1>2, <1>3
<1>5. /\ path' = Append(path, c) /\ clock' = clock + 1 /\ tout' = tout
      /\ tin' = [tin EXCEPT ![c] = clock]
      /\ UNCHANGED <<post, succ, idom>>
  BY DEF EnterChild
<1>6. Numbers' = Numbers /\ \A n : Dom(n)' = Dom(n) /\ Above(n)' = Above(n) /\ Children(n)' = Children(n)
  BY <1>5, TreeOfTourStays
<1> HIDE DEF K
<1>7. /\ path' \in Seq(Numbers) /\ path' # <<>> /\ Len(path') = K + 1 /\ path'[K + 1] = c
      /\ DOMAIN path' = 1 .. K + 1
      /\ \A i \in 1 .. K : path'[i] = path[i]
      /\ ToSet(path') = ToSet(path) \cup {c}
  <2>1. path \in Seq(Numbers) /\ c \in Numbers /\ path' = Append(path, c)
    BY <1>2, <1>4, <1>5
  <2>2. ToSet(path') = ToSet(path) \cup {c}
    BY <2>1, ToSetOfAppend
  <2>3. path' \in Seq(Numbers) /\ path' # <<>> /\ Len(path') = K + 1 /\ path'[K + 1] = c /\ \A i \in 1 .. K : path'[i] = path[i]
    BY <2>1, AppendProperties DEF K
  <2>4. DOMAIN path' = 1 .. K + 1
    BY <2>3
  <2> QED
    BY <2>2, <2>3, <2>4
<1>8. /\ clock \in Nat /\ tin \in [Numbers -> Int] /\ tout \in [Numbers -> Int]
      /\ \A n \in Numbers : tin[n] < clock /\ tout[n] < clock /\ (Went(n) => Came(n) /\ tin[n] < tout[n])
  BY DEF Tour, Timed
<1>9. /\ tin'[c] = clock /\ clock # -1 /\ \A n \in Numbers : n # c => tin'[n] = tin[n]
      /\ tin' \in [Numbers -> Int] /\ tout[c] = -1 /\ ~ Came(c) /\ ~ Went(c)
  BY <1>3, <1>4, <1>5, <1>8 DEF Came, Went
<1>10. /\ Came(c)' /\ ~ Went(c)' /\ \A n \in Numbers : (n # c => (Came(n)' <=> Came(n))) /\ (Went(n)' <=> Went(n))
  BY <1>5, <1>9 DEF Came, Went
<1>11. \A i \in 1 .. K : path[i] \in Above(top) /\ path[i] \in Numbers /\ path[i] <= top /\ Came(path[i]) /\ ~ Went(path[i])
  <2> TAKE i \in 1 .. K
  <2>1. path[i] \in ToSet(path) /\ path[i] \in Numbers
    BY <1>2 DEF ToSet
  <2>2. path[i] \in Above(top)
    <3>1. CASE i = K
      BY <1>1, <1>2, <3>1
    <3>2. CASE i # K
      <4>1. i < K /\ K \in 1 .. K
        BY <1>2, <3>2
      <4> QED
        BY <1>2, <4>1 DEF Tour, OnThePath
    <3> QED
      BY <3>1, <3>2
  <2> QED
    BY <1>1, <1>2, <2>1, <2>2 DEF Tour, OnThePath
<1>12. Timed'
  <2>1. clock' \in Nat /\ tin' \in [Numbers -> Int] /\ tout' \in [Numbers -> Int]
    BY <1>5, <1>8, <1>9
  <2>2. ASSUME NEW n \in Numbers
        PROVE  tin'[n] < clock' /\ tout'[n] < clock' /\ (Went(n)' => Came(n)' /\ tin'[n] < tout'[n])
    <3>1. CASE n = c
      BY <1>5, <1>8, <1>9, <1>10, <3>1
    <3>2. CASE n # c
      <4>1. tin'[n] = tin[n] /\ tout'[n] = tout[n] /\ tin[n] \in Int /\ tout[n] \in Int
        BY <1>5, <1>8, <1>9, <3>2
      <4>2. tin'[n] < clock' /\ tout'[n] < clock'
        BY <1>5, <1>8, <4>1
      <4> QED
        BY <1>8, <1>10, <3>2, <4>1, <4>2
    <3> QED
      BY <3>1, <3>2
  <2> QED
    BY <1>6, <2>1, <2>2 DEF Timed
<1>13. OnThePath'
  <2>1. ASSUME NEW n \in Numbers PROVE n \in ToSet(path') <=> Came(n)' /\ ~ Went(n)'
    <3>1. n \in ToSet(path) <=> Came(n) /\ ~ Went(n)
      BY DEF Tour, OnThePath
    <3>2. CASE n = c
      BY <1>7, <1>10, <3>2
    <3>3. CASE n # c
      BY <1>7, <1>10, <3>1, <3>3
    <3> QED
      BY <3>2, <3>3
  <2>2. ASSUME NEW j \in DOMAIN path', NEW i \in DOMAIN path', i < j
        PROVE  path'[i] \in Above(path'[j]) /\ path'[i] < path'[j]
    <3>1. i \in 1 .. K /\ (j \in 1 .. K \/ j = K + 1)
      BY <1>2, <1>7, <2>2
    <3>2. CASE j = K + 1
      <4>1. path[i] \in Above(top) /\ path[i] <= top /\ path[i] \in Nat /\ top \in Nat /\ c \in Nat
        BY <1>1, <1>2, <1>4, <1>11, <3>1
      <4> QED
        BY <1>4, <1>7, <3>1, <3>2, <4>1
    <3>3. CASE j \in 1 .. K
      BY <1>2, <1>7, <2>2, <3>1, <3>3 DEF Tour, OnThePath
    <3> QED
      BY <3>1, <3>2, <3>3
  <2> QED
    BY <1>6, <1>7, <2>1, <2>2 DEF OnThePath
<1>14. ParentsEnclose'
  <2>1. /\ Came(0) /\ \A n \in Numbers : n # 0 /\ Came(n) => Came(Dom(n)) /\ tin[Dom(n)] < tin[n]
        /\ \A n \in Numbers : Went(n) => \A d \in Children(n) : Went(d) /\ tout[d] < tout[n]
    BY DEF Tour, ParentsEnclose
  <2>2. Came(0)'
    BY <1>1, <1>4, <1>10, <2>1
  <2>3. ASSUME NEW n \in Numbers, n # 0, Came(n)' PROVE tin'[Dom(n)] # -1 /\ tin'[Dom(n)] < tin'[n]
    <3>1. CASE n = c
      <4>1. Came(top)
        BY <1>2 DEF Tour, OnThePath
      <4>2. top # c
        BY <1>9, <4>1
      <4> QED
        BY <1>2, <1>4, <1>8, <1>9, <3>1, <4>1, <4>2 DEF Came
    <3>2. CASE n # c
      <4>1. Came(n) /\ Came(Dom(n)) /\ tin[Dom(n)] < tin[n]
        BY <1>10, <2>1, <2>3, <3>2
      <4>2. Dom(n) \in Numbers /\ Dom(n) # c
        BY <1>9, <2>3, <4>1, TourTree
      <4> QED
        BY <1>9, <3>2, <4>1, <4>2 DEF Came
    <3> QED
      BY <3>1, <3>2
  <2>4. \A n \in Numbers : Went(n)' => \A d \in Children(n) : Went(d)' /\ tout'[d] < tout'[n]
    BY <1>1, <1>5, <1>10, <2>1
  <2> QED
    BY <1>6, <2>2, <2>3, <2>4 DEF ParentsEnclose, Came
<1>15. OthersApart'
  <2>1. ASSUME NEW m \in Numbers, Came(m), m \notin Above(c) PROVE Went(m) /\ tout[m] < clock
    <3>1. m \notin ToSet(path)
      <4>1. ASSUME m \in ToSet(path) PROVE FALSE
        <5>1. PICK i \in 1 .. K : path[i] = m
          BY <1>2, <4>1 DEF ToSet
        <5> QED
          BY <1>4, <1>11, <2>1, <5>1
      <4> QED
        BY <4>1
    <3> QED
      BY <1>8, <2>1, <3>1 DEF Tour, OnThePath
  <2>2. ASSUME NEW m \in Numbers, NEW n \in Numbers, Came(m)', Came(n)', m \notin Above(n), n \notin Above(m)
        PROVE  (Went(m)' /\ tout'[m] < tin'[n]) \/ (Went(n)' /\ tout'[n] < tin'[m])
    <3>1. CASE m = c
      <4>1. n # c
        BY <1>1, <2>2, <3>1
      <4> QED
        BY <1>5, <1>9, <1>10, <2>1, <2>2, <3>1, <4>1
    <3>2. CASE n = c
      <4>1. m # c
        BY <1>1, <2>2, <3>2
      <4> QED
        BY <1>5, <1>9, <1>10, <2>1, <2>2, <3>2, <4>1
    <3>3. CASE m # c /\ n # c
      <4>1. (Went(m) /\ tout[m] < tin[n]) \/ (Went(n) /\ tout[n] < tin[m])
        BY <1>10, <2>2, <3>3 DEF Tour, OthersApart
      <4> QED
        BY <1>5, <1>9, <1>10, <3>3, <4>1
    <3> QED
      BY <3>1, <3>2, <3>3
  <2> QED
    BY <1>6, <2>2 DEF OthersApart
<1> QED
  BY <1>7, <1>12, <1>13, <1>14, <1>15 DEF Tour
LEMMA LeaveTours ==
  ASSUME Shape, Tree, Settled, Tour, path # <<>>, LeaveBlock
  PROVE  Tour' /\ (path' # <<>> <=> Len(path) # 1)
<1> DEFINE K == Len(path)
<1> PICK top : top = Last(path)
  OBVIOUS
<1>1. /\ Len(post) - 1 \in Nat /\ Numbers = 0 .. Len(post) - 1 /\ Numbers \subseteq Nat
      /\ \A n \in Numbers : n \in Above(n)
      /\ \A b \in Numbers : \A a \in Above(b) : a \in Numbers /\ a <= b
      /\ \A n \in Numbers : \A d \in Children(n) : d \in Numbers /\ d # 0 /\ Dom(d) = n /\ n \in Above(d) /\ n < d /\ Above(n) \subseteq Above(d)
  BY TourTree
<1>2. /\ path \in Seq(Numbers) /\ K \in Nat \ {0} /\ top = path[K] /\ top \in Numbers /\ DOMAIN path = 1 .. K
      /\ top \in ToSet(path)
  <2>1. path \in Seq(Numbers) /\ path # <<>>
    BY DEF Tour, OnThePath
  <2> QED
    BY <2>1, FrontFacts DEF ToSet
<1>3. /\ path' = Front(path) /\ clock' = clock + 1 /\ tin' = tin
      /\ tout' = [tout EXCEPT ![top] = clock] /\ Left(top) = {}
      /\ UNCHANGED <<post, succ, idom>>
  BY DEF LeaveBlock
<1>4. Numbers' = Numbers /\ \A n : Dom(n)' = Dom(n) /\ Above(n)' = Above(n) /\ Children(n)' = Children(n)
  BY <1>3, TreeOfTourStays
<1>5. /\ clock \in Nat /\ tin \in [Numbers -> Int] /\ tout \in [Numbers -> Int]
      /\ \A n \in Numbers : tin[n] < clock /\ tout[n] < clock /\ (Went(n) => Came(n) /\ tin[n] < tout[n])
  BY DEF Tour, Timed
<1>6. Came(top) /\ ~ Went(top)
  BY <1>2 DEF Tour, OnThePath
<1>7. /\ tout'[top] = clock /\ clock # -1 /\ \A n \in Numbers : n # top => tout'[n] = tout[n]
      /\ tout' \in [Numbers -> Int]
  BY <1>2, <1>3, <1>5
<1>8. Went(top)' /\ \A n \in Numbers : (n # top => (Went(n)' <=> Went(n))) /\ (Came(n)' <=> Came(n))
  BY <1>3, <1>7 DEF Came, Went
<1> HIDE DEF K
<1>9. \A i \in 1 .. K : path[i] \in Numbers /\ path[i] <= top /\ (i # K => path[i] # top)
  <2> TAKE i \in 1 .. K
  <2>1. path[i] \in Numbers
    BY <1>2
  <2>2. CASE i = K
    <3>1. top \in Nat
      BY <1>1, <1>2
    <3> QED
      BY <1>2, <2>2, <3>1
  <2>3. CASE i # K
    <3>1. i < K /\ K \in 1 .. K
      BY <1>2, <2>3
    <3>2. path[i] < path[K]
      BY <1>2, <3>1 DEF Tour, OnThePath
    <3>3. path[i] \in Nat /\ top \in Nat
      BY <1>1, <1>2, <2>1
    <3> QED
      BY <1>2, <2>1, <3>2, <3>3
  <2> QED
    BY <2>2, <2>3
<1>10. /\ path' \in Seq(Numbers) /\ Len(path') = K - 1 /\ DOMAIN path' = 1 .. K - 1
       /\ \A i \in 1 .. K - 1 : path'[i] = path[i] /\ i \in 1 .. K /\ i # K
       /\ ToSet(path') = ToSet(path) \ {top}
  <2>1. path' \in Seq(Numbers) /\ Len(path') = K - 1 /\ \A i \in 1 .. K - 1 : path'[i] = path[i]
    <3>1. path \in Seq(Numbers) /\ path # <<>>
      BY <1>2
    <3> QED
      BY <1>3, <3>1, FrontFacts DEF K
  <2>2. DOMAIN path' = 1 .. K - 1
    BY <2>1
  <2>3. \A i \in 1 .. K - 1 : i \in 1 .. K /\ i # K
    BY <1>2
  <2>4. \A i \in 1 .. K : i # K => i \in 1 .. K - 1
    BY <1>2
  <2>5. ASSUME NEW x \in ToSet(path') PROVE x \in ToSet(path) \ {top}
    <3>1. PICK i \in 1 .. K - 1 : path'[i] = x
      BY <2>2, <2>5 DEF ToSet
    <3> QED
      BY <1>2, <1>9, <2>1, <2>3, <3>1 DEF ToSet
  <2>6. ASSUME NEW x \in ToSet(path) \ {top} PROVE x \in ToSet(path')
    <3>1. PICK i \in 1 .. K : path[i] = x
      BY <1>2, <2>6 DEF ToSet
    <3>2. i \in DOMAIN path' /\ path'[i] = x
      BY <1>2, <2>1, <2>2, <2>4, <2>6, <3>1
    <3> QED
      BY <3>2 DEF ToSet
  <2> QED
    BY <2>1, <2>2, <2>3, <2>5, <2>6
<1>11. path' # <<>> <=> Len(path) # 1
  <2>1. path' \in Seq(Numbers)
    BY <1>10
  <2>2. path' = <<>> <=> Len(path') = 0
    BY <2>1
  <2>3. Len(path') = 0 <=> K = 1
    BY <1>2, <1>10
  <2> QED
    BY <2>2, <2>3 DEF K
<1>12. Timed'
  <2>1. ASSUME NEW n \in Numbers
        PROVE  tin'[n] < clock' /\ tout'[n] < clock' /\ (Went(n)' => Came(n)' /\ tin'[n] < tout'[n])
    <3>1. CASE n = top
      BY <1>3, <1>5, <1>6, <1>7, <1>8, <3>1
    <3>2. CASE n # top
      <4>1. tin'[n] = tin[n] /\ tout'[n] = tout[n] /\ tin[n] \in Int /\ tout[n] \in Int
        BY <1>3, <1>5, <1>7, <3>2
      <4>2. tin'[n] < clock' /\ tout'[n] < clock'
        BY <1>3, <1>5, <4>1
      <4> QED
        BY <1>5, <1>8, <3>2, <4>1, <4>2
    <3> QED
      BY <3>1, <3>2
  <2> QED
    BY <1>3, <1>4, <1>5, <1>7, <2>1 DEF Timed
<1>13. OnThePath'
  <2>1. ASSUME NEW n \in Numbers PROVE n \in ToSet(path') <=> Came(n)' /\ ~ Went(n)'
    <3>1. n \in ToSet(path) <=> Came(n) /\ ~ Went(n)
      BY DEF Tour, OnThePath
    <3>2. CASE n = top
      BY <1>8, <1>10, <3>2
    <3>3. CASE n # top
      BY <1>8, <1>10, <3>1, <3>3
    <3> QED
      BY <3>2, <3>3
  <2>2. ASSUME NEW j \in DOMAIN path', NEW i \in DOMAIN path', i < j
        PROVE  path'[i] \in Above(path'[j]) /\ path'[i] < path'[j]
    BY <1>2, <1>10, <2>2 DEF Tour, OnThePath
  <2> QED
    BY <1>4, <1>10, <2>1, <2>2 DEF OnThePath
<1>14. ParentsEnclose'
  <2>1. /\ Came(0) /\ \A n \in Numbers : n # 0 /\ Came(n) => Came(Dom(n)) /\ tin[Dom(n)] < tin[n]
        /\ \A n \in Numbers : Went(n) => \A d \in Children(n) : Went(d) /\ tout[d] < tout[n]
    BY DEF Tour, ParentsEnclose
  <2>2. ASSUME NEW n \in Numbers, Went(n)', NEW d \in Children(n) PROVE Went(d)' /\ tout'[d] < tout'[n]
    <3>1. CASE n = top
      <4>1. d \in Numbers /\ top < d /\ Came(d)
        BY <1>1, <1>2, <1>3, <3>1 DEF Left, Came
      <4>2. d \notin ToSet(path)
        <5>1. ASSUME d \in ToSet(path) PROVE FALSE
          <6>1. PICK i \in 1 .. K : path[i] = d
            BY <1>2, <5>1 DEF ToSet
          <6>2. d <= top /\ d \in Nat /\ top \in Nat
            BY <1>1, <1>2, <1>9, <6>1
          <6> QED
            BY <4>1, <6>2
        <5> QED
          BY <5>1
      <4>3. Went(d)
        BY <4>1, <4>2 DEF Tour, OnThePath
      <4>4. d # top
        BY <1>6, <4>3
      <4> QED
        BY <1>5, <1>7, <1>8, <3>1, <4>1, <4>3, <4>4
    <3>2. CASE n # top
      <4>1. Went(n) /\ Went(d) /\ tout[d] < tout[n] /\ d \in Numbers
        BY <1>1, <1>8, <2>1, <2>2, <3>2
      <4>2. d # top
        BY <1>6, <4>1
      <4> QED
        BY <1>7, <1>8, <3>2, <4>1, <4>2
    <3> QED
      BY <3>1, <3>2
  <2> QED
    BY <1>3, <1>4, <2>1, <2>2 DEF ParentsEnclose, Came
<1>15. OthersApart'
  <2>1. ASSUME NEW m \in Numbers, NEW n \in Numbers, Came(m)', Came(n)', m \notin Above(n), n \notin Above(m)
        PROVE  (Went(m)' /\ tout'[m] < tin'[n]) \/ (Went(n)' /\ tout'[n] < tin'[m])
    <3>1. (Went(m) /\ tout[m] < tin[n]) \/ (Went(n) /\ tout[n] < tin[m])
      BY <1>8, <2>1 DEF Tour, OthersApart
    <3>2. \A x \in Numbers : Went(x) => Went(x)' /\ tout'[x] = tout[x]
      BY <1>6, <1>7, <1>8
    <3> QED
      BY <1>3, <3>1, <3>2
  <2> QED
    BY <1>4, <2>1 DEF OthersApart
<1> QED
  BY <1>11, <1>12, <1>13, <1>14, <1>15 DEF Tour
LEMMA TourBegins ==
  ASSUME Shape, EndSweep, ~ changed
  PROVE  Tour' /\ stage' = "tour" /\ path' # <<>>
<1>1. /\ stage' = "tour" /\ path' = <<0>> /\ clock' = 1 /\ UNCHANGED <<post, succ, idom>>
      /\ tin' = [n \in Numbers |-> IF n = 0 THEN 0 ELSE -1] /\ tout' = [n \in Numbers |-> -1]
  BY DEF EndSweep
<1>2. 0 \in Numbers
  BY ShapeFacts
<1>3. Numbers' = Numbers /\ \A n : Dom(n)' = Dom(n) /\ Above(n)' = Above(n) /\ Children(n)' = Children(n)
  BY <1>1, TreeOfTourStays
<1>4. \A n \in Numbers : ~ Went(n)' /\ (Came(n)' <=> n = 0)
  BY <1>1 DEF Came, Went
<1>5. Timed'
  <2>1. clock' \in Nat /\ tin' \in [Numbers -> Int] /\ tout' \in [Numbers -> Int]
    BY <1>1
  <2>2. \A n \in Numbers : tin'[n] < clock' /\ tout'[n] < clock'
    BY <1>1
  <2> QED
    BY <1>3, <1>4, <2>1, <2>2 DEF Timed
<1>6. OnThePath'
  <2>1. path' \in Seq(Numbers) /\ DOMAIN path' = {1} /\ path'[1] = 0
    BY <1>1, <1>2
  <2>2. ToSet(path') = {0}
    BY <2>1 DEF ToSet
  <2>3. \A j \in DOMAIN path' : \A i \in DOMAIN path' : ~ (i < j)
    BY <2>1
  <2> QED
    BY <1>3, <1>4, <2>1, <2>2, <2>3 DEF OnThePath
<1>7. ParentsEnclose'
  <2>1. Came(0)'
    BY <1>2, <1>4
  <2>2. \A n \in Numbers : ~ (n # 0 /\ Came(n)')
    BY <1>4
  <2> QED
    BY <1>3, <1>4, <2>1, <2>2 DEF ParentsEnclose
<1>8. OthersApart'
  <2>1. 0 \in Above(0)
    BY <1>2 DEF Above
  <2> QED
    BY <1>3, <1>4, <2>1 DEF OthersApart
<1> QED
  BY <1>1, <1>5, <1>6, <1>7, <1>8 DEF Tour

LEMMA TourStep ==
  ASSUME NumberInv, IterationInv, TourInv, [ShapeNext]_shapeVars
  PROVE  TourInv'
<1>1. NextEdge => stage' \notin {"tour", "done"}
  BY DEF NextEdge
<1>2. Finish => stage' \notin {"tour", "done"}
  BY DEF Finish
<1>3. Update => stage' \notin {"tour", "done"}
  BY DEF Update
<1>4. CASE EndSweep
  <2>1. stage = "idom" /\ Shape
    BY <1>4 DEF EndSweep, NumberInv
  <2>2. CASE changed
    BY <1>4, <2>1, <2>2 DEF EndSweep, TourInv
  <2>3. CASE ~ changed
    BY <1>4, <2>1, <2>3, TourBegins DEF TourInv
  <2> QED
    BY <2>2, <2>3
<1>5. CASE EnterChild
  <2>1. stage = "tour" /\ stage' = "tour"
    BY <1>5 DEF EnterChild
  <2>2. Shape /\ Tree /\ Settled /\ Tour /\ path # <<>>
    BY <2>1 DEF NumberInv, IterationInv, TourInv
  <2> QED
    BY <1>5, <2>1, <2>2, EnterTours DEF TourInv
<1>6. CASE LeaveBlock
  <2>1. stage = "tour" /\ stage' = IF Len(path) = 1 THEN "done" ELSE "tour"
    BY <1>6 DEF LeaveBlock
  <2>2. Shape /\ Tree /\ Settled /\ Tour /\ path # <<>>
    BY <2>1 DEF NumberInv, IterationInv, TourInv
  <2>3. Tour' /\ (path' # <<>> <=> Len(path) # 1)
    BY <1>6, <2>2, LeaveTours
  <2> QED
    BY <2>1, <2>3 DEF TourInv
<1>7. CASE UNCHANGED shapeVars
  <2>1. UNCHANGED <<post, succ, idom, stage, path, clock, tin, tout>>
    BY <1>7 DEF shapeVars
  <2>2. Numbers' = Numbers /\ \A n : Dom(n)' = Dom(n) /\ Above(n)' = Above(n) /\ Children(n)' = Children(n)
    BY <2>1, TreeOfTourStays
  <2>3. Tour => Tour'
    BY <2>1, <2>2 DEF Tour, Timed, OnThePath, ParentsEnclose, OthersApart, Came, Went
  <2> QED
    BY <2>1, <2>3 DEF TourInv
<1> QED
  BY <1>1, <1>2, <1>3, <1>4, <1>5, <1>6, <1>7 DEF ShapeNext, TourInv

\* When the tour is over it has left every block.
LEMMA AllLeft ==
  ASSUME Shape, Tree, Settled, Tour, path = <<>>
  PROVE  \A n \in Numbers : Came(n) /\ Went(n)
<1> DEFINE T == {n \in 0 .. Len(post) - 1 : Went(n)}
<1>1. /\ Len(post) - 1 \in Nat /\ Numbers = 0 .. Len(post) - 1 /\ 0 \in Numbers
      /\ \A n \in Numbers : n # 0 => Dom(n) \in Numbers /\ Dom(n) < n
  BY TourTree
<1>2. ToSet(path) = {}
  BY DEF ToSet
<1>3. ASSUME NEW n \in 0 .. Len(post) - 1, \A m \in 0 .. Len(post) - 1 : m < n => m \in T PROVE n \in T
  <2>1. CASE n = 0
    BY <1>1, <1>2, <2>1 DEF Tour, ParentsEnclose, OnThePath
  <2>2. CASE n # 0
    <3>1. Dom(n) \in T /\ n \in Children(Dom(n))
      BY <1>1, <1>3, <2>2 DEF Children
    <3> QED
      BY <1>1, <3>1 DEF Tour, ParentsEnclose
  <2> QED
    BY <2>1, <2>2
<1>4. T = 0 .. Len(post) - 1
  <2> HIDE DEF T
  <2>1. T \in SUBSET (0 .. Len(post) - 1)
    BY DEF T
  <2> QED
    BY <1>1, <1>3, <2>1, StrongInduction
<1> QED
  BY <1>1, <1>4 DEF Tour, Timed

\* One block encloses another in the tour if and only if it is above it.
LEMMA EnclosesIsAbove ==
  ASSUME Shape, Tree, Settled, Tour, path = <<>>, NEW a \in Numbers, NEW b \in Numbers
  PROVE  Dominates(a, b) <=> a \in Above(b)
<1>1. /\ Numbers \subseteq Nat /\ 0 \in Numbers /\ Dom(0) = 0 /\ \A n \in Numbers : n # 0 => Dom(n) \in Numbers /\ Dom(n) < n
      /\ \A y \in Numbers : \A x \in Above(y) : x \in Numbers /\ (x # y => x \in Above(Dom(y)))
  BY TourTree
<1>2. \A n \in Numbers : Came(n) /\ Went(n) /\ tin[n] \in Int /\ tout[n] \in Int /\ tin[n] < tout[n]
  BY AllLeft DEF Tour, Timed
<1>3. \A n \in Numbers : n # 0 => tin[Dom(n)] < tin[n] /\ tout[n] < tout[Dom(n)]
  <2> SUFFICES ASSUME NEW n \in Numbers, n # 0 PROVE tin[Dom(n)] < tin[n] /\ tout[n] < tout[Dom(n)]
    OBVIOUS
  <2>1. n \in Children(Dom(n))
    BY DEF Children
  <2> QED
    BY <1>1, <1>2, <2>1 DEF Tour, ParentsEnclose
<1>4. ASSUME NEW x \in Numbers, NEW y \in Numbers, x \in Above(y)
      PROVE  tin[x] <= tin[y] /\ tout[y] <= tout[x]
  <2> DEFINE S == {c \in Numbers : tin[c] <= tin[y] /\ tout[y] <= tout[c]}
  <2>1. S \in SUBSET Numbers /\ y \in S
    <3>1. tin[y] <= tin[y] /\ tout[y] <= tout[y]
      BY <1>2
    <3> QED
      BY <3>1
  <2>2. ASSUME NEW m \in S PROVE Dom(m) \in S
    <3>1. CASE m = 0
      BY <1>1, <3>1
    <3>2. CASE m # 0
      <4>1. Dom(m) \in Numbers /\ tin[Dom(m)] < tin[m] /\ tout[m] < tout[Dom(m)]
        BY <1>1, <1>3, <3>2
      <4> QED
        BY <1>2, <4>1
    <3> QED
      BY <3>1, <3>2
  <2> HIDE DEF S
  <2>3. x \in S
    BY <1>4, <2>1, <2>2 DEF Above
  <2> QED
    BY <2>3 DEF S
<1>5. ASSUME Dominates(a, b), a \notin Above(b) PROVE FALSE
  <2>1. tin[a] <= tin[b] /\ tout[b] <= tout[a]
    BY <1>5 DEF Dominates
  <2>2. CASE b \in Above(a)
    <3>1. a # b
      BY <1>5, TourTree
    <3>2. a # 0
      <4>1. a = 0 => b \in Above(0) /\ b <= 0
        BY <1>1, <2>2, TourTree
      <4> QED
        BY <1>1, <3>1, <4>1
    <3>3. b \in Above(Dom(a)) /\ Dom(a) \in Numbers
      BY <1>1, <2>2, <3>1, <3>2
    <3>4. tin[b] <= tin[Dom(a)] /\ tin[Dom(a)] < tin[a]
      BY <1>3, <1>4, <3>2, <3>3
    <3> QED
      BY <1>2, <2>1, <3>3, <3>4
  <2>3. CASE b \notin Above(a)
    <3>1. tout[a] < tin[b] \/ tout[b] < tin[a]
      BY <1>2, <1>5, <2>3 DEF Tour, OthersApart
    <3> QED
      BY <1>2, <2>1, <3>1
  <2> QED
    BY <2>2, <2>3
<1> QED
  BY <1>4, <1>5 DEF Dominates
-----------------------------------------------------------------------------
(* Natural loops.                                                          *)

\* What the body of a loop grows to: the least set with what it starts from and
\* the sources of the edges into its blocks but the header.
GrowsTo(B, h, S) ==
  /\ B \in SUBSET Numbers /\ S \subseteq B /\ \A n \in B : n # h => pred[n] \subseteq B
  /\ \A C \in SUBSET Numbers : S \subseteq C /\ (\A n \in C : n # h => pred[n] \subseteq C) => B \subseteq C

LEMMA Smaller ==
  ASSUME NEW A, NEW B, IsFiniteSet(B), A \subseteq B, A # B
  PROVE  IsFiniteSet(A) /\ Cardinality(A) \in Nat /\ Cardinality(B) \in Nat /\ Cardinality(A) < Cardinality(B)
<1>1. IsFiniteSet(A) /\ Cardinality(A) <= Cardinality(B) /\ Cardinality(A) # Cardinality(B)
  BY FS_Subset
<1>2. Cardinality(A) \in Nat /\ Cardinality(B) \in Nat
  BY <1>1, FS_CardinalityType
<1> QED
  BY <1>1, <1>2

LEMMA NumbersAreFinite ==
  ASSUME Shape
  PROVE  /\ IsFiniteSet(Numbers) /\ Cardinality(Numbers) \in Nat
         /\ \A S \in SUBSET Numbers : IsFiniteSet(S) /\ Cardinality(S) \in 0 .. Cardinality(Numbers)
<1>1. Numbers = 0 .. Len(post) - 1 /\ 0 \in Int /\ Len(post) - 1 \in Int
  BY ShapeFacts
<1>2. IsFiniteSet(Numbers)
  BY <1>1, FS_Interval
<1>3. Cardinality(Numbers) \in Nat
  BY <1>2, FS_CardinalityType
<1>4. ASSUME NEW S \in SUBSET Numbers PROVE IsFiniteSet(S) /\ Cardinality(S) \in 0 .. Cardinality(Numbers)
  <2>1. IsFiniteSet(S) /\ Cardinality(S) <= Cardinality(Numbers)
    BY <1>2, FS_Subset
  <2>2. Cardinality(S) \in Nat
    BY <2>1, FS_CardinalityType
  <2> QED
    BY <1>3, <2>1, <2>2
<1> QED
  BY <1>2, <1>3, <1>4

LEMMA BodyGrows ==
  ASSUME Shape, NEW h \in Numbers
  PROVE  GrowsTo(Body(h), h, BackTo(h) \cup {h})
<1> DEFINE W == SUBSET Numbers
           next(S) == S \cup UNION {pred[n] : n \in S \ {h}}
           stop == {S \in W : next(S) = S}
           out == [S \in W |-> S]
           step == [S \in W |-> next(S)]
           left == [S \in W |-> Cardinality(Numbers \ S)]
           then == [S \in W |-> [z \in W |-> z]]
           N == Cardinality(Numbers)
           Is(f) == f = [S \in SUBSET Numbers |->
             LET T == S \cup UNION {pred[n] : n \in S \ {h}} IN IF T = S THEN S ELSE f[T]]
           g == CHOOSE f : Is(f)
<1>1. ASSUME NEW S \in W PROVE next(S) \in W /\ S \subseteq next(S)
  <2>1. \A n \in S : pred[n] \subseteq Numbers
    BY ShapeFacts
  <2> QED
    BY <2>1
<1>2. Decreases(W, stop, step, left, N)
  <2>1. N \in Nat /\ \A S \in W : Numbers \ S \in W /\ IsFiniteSet(Numbers \ S)
    BY NumbersAreFinite
  <2>2. stop \in SUBSET W
    OBVIOUS
  <2>3. step \in [W -> W]
    <3> HIDE DEF W, next
    <3> QED
      BY <1>1
  <2>4. left \in [W -> 0 .. N]
    <3>1. \A S \in W : Cardinality(Numbers \ S) \in 0 .. N
      BY NumbersAreFinite
    <3> HIDE DEF W, N
    <3> QED
      BY <3>1
  <2>5. ASSUME NEW S \in W \ stop PROVE left[step[S]] < left[S]
    <3>1. next(S) \in W /\ S \subseteq next(S) /\ next(S) # S
      BY <1>1
    <3>2. step[S] = next(S) /\ left[S] = Cardinality(Numbers \ S) /\ left[step[S]] = Cardinality(Numbers \ next(S))
      <4> HIDE DEF next
      <4> QED
        BY <3>1
    <3>3. Numbers \ next(S) \subseteq Numbers \ S /\ Numbers \ next(S) # Numbers \ S
      <4> HIDE DEF next
      <4> QED
        BY <3>1
    <3>4. Cardinality(Numbers \ next(S)) < Cardinality(Numbers \ S)
      <4> HIDE DEF next
      <4> QED
        BY <2>1, <3>3, Smaller
    <3> QED
      BY <3>2, <3>4
  <2> HIDE DEF W, stop, step, left, N
  <2> QED
    BY <2>1, <2>2, <2>3, <2>4, <2>5 DEF Decreases
<1>3. \E f : Is(f)
  <2>1. out \in [W -> W] /\ then \in [W -> [W -> W]] /\ {} \in W
    OBVIOUS
  <2>2. PICK f \in [W -> W] : Defines(f, W, stop, out, step, then)
    <3> HIDE DEF W, stop, out, step, left, then, N
    <3> QED
      BY <1>2, <2>1, RecursionExists
  <2>3. f = [S \in W |-> IF S \in stop THEN out[S] ELSE then[S][f[step[S]]]]
    BY <2>2 DEF Defines
  <2>4. ASSUME NEW S \in W PROVE f[S] = IF next(S) = S THEN S ELSE f[next(S)]
    <3> HIDE DEF next, W
    <3>1. next(S) \in W /\ f[next(S)] \in W
      BY <1>1, <2>2
    <3>2. then[S][f[step[S]]] = f[next(S)]
      BY <3>1
    <3>3. S \in stop <=> next(S) = S
      OBVIOUS
    <3> QED
      BY <2>3, <3>2, <3>3
  <2>5. f = [S \in W |-> IF next(S) = S THEN S ELSE f[next(S)]]
    <3> HIDE DEF next, W
    <3>1. DOMAIN f = W /\ f = [S \in DOMAIN f |-> f[S]]
      BY <2>2
    <3> QED
      BY <2>4, <3>1
  <2> QED
    BY <2>5
<1>4. Is(g)
  BY <1>3
<1>5. Body(h) = g[BackTo(h) \cup {h}]
  BY DEF Body
<1> HIDE DEF g
<1>6. \A S \in W : g[S] = IF next(S) = S THEN S ELSE g[next(S)]
  BY <1>4
<1> DEFINE R == {S \in W : GrowsTo(g[S], h, S)}
<1>7. ASSUME NEW S \in stop PROVE S \in R
  <2>1. g[S] = S /\ next(S) = S /\ S \in W
    BY <1>6
  <2>2. \A n \in S : n # h => pred[n] \subseteq S
    BY <2>1
  <2> QED
    BY <2>1, <2>2 DEF GrowsTo
<1>8. ASSUME NEW S \in W \ stop, step[S] \in R PROVE S \in R
  <2>1. GrowsTo(g[next(S)], h, next(S)) /\ g[S] = g[next(S)] /\ S \subseteq next(S)
    BY <1>1, <1>6, <1>8
  <2>2. ASSUME NEW C \in SUBSET Numbers, S \subseteq C, \A n \in C : n # h => pred[n] \subseteq C PROVE next(S) \subseteq C
    BY <2>2
  <2> HIDE DEF next
  <2> QED
    BY <2>1, <2>2 DEF GrowsTo
<1>9. R = W
  <2>1. R \in SUBSET W /\ stop \subseteq R
    BY <1>7
  <2> HIDE DEF W, stop, step, left, R, N
  <2> QED
    BY <1>2, <1>8, <2>1, StepInduction
<1>10. BackTo(h) \cup {h} \in W
  BY DEF BackTo
<1> QED
  BY <1>5, <1>9, <1>10
\* The tour is over: what dominates is above, and on every path.
Toured == Shape /\ Tree /\ Settled /\ Tour /\ path = <<>>

LEMMA TouredFacts ==
  ASSUME Toured
  PROVE  /\ Numbers \subseteq Nat /\ 0 \in Numbers
         /\ \A n \in Numbers : n \in Above(n)
         /\ \A b \in Numbers : \A a \in Above(b) : a \in Numbers /\ a <= b /\ Above(a) \subseteq Above(b)
         /\ \A a, b \in Numbers : a \in Above(b) /\ b \in Above(a) => a = b
         /\ \A n \in Numbers : pred[n] \subseteq Numbers /\ (n # 0 => \E m \in pred[n] : m < n)
         /\ \A n \in Numbers : \A m \in pred[n] : \A d \in Above(n) : d # n => d \in Above(m)
<1>1. /\ Numbers \subseteq Nat /\ 0 \in Numbers /\ \A n \in Numbers : n \in Above(n)
      /\ \A b \in Numbers : \A a \in Above(b) : a \in Numbers /\ a <= b /\ Above(a) \subseteq Above(b)
  BY TourTree DEF Toured
<1>2. ASSUME NEW a \in Numbers, NEW b \in Numbers, a \in Above(b), b \in Above(a) PROVE a = b
  <2>1. a <= b /\ b <= a /\ a \in Nat /\ b \in Nat
    BY <1>1, <1>2
  <2> QED
    BY <2>1
<1>3. /\ \A n \in Numbers : pred[n] = {m \in Numbers : n \in ToSet(succ[m])}
      /\ \A n \in Numbers : n # 0 => \E m \in Numbers : m < n /\ n \in ToSet(succ[m])
  BY ShapeFacts DEF Toured
<1>4. ASSUME NEW n \in Numbers, NEW m \in pred[n], NEW d \in Above(n), d # n PROVE d \in Above(m)
  <2>1. m \in Numbers /\ n \in ToSet(succ[m]) /\ d \in Numbers
    BY <1>1, <1>3
  <2>2. OnEveryPath(d, n)
    BY <1>4, <2>1, AboveIsOnEveryPath DEF Toured
  <2>3. OnEveryPath(d, m)
    BY <1>4, <2>1, <2>2, OnEveryPathToSources DEF Toured
  <2> QED
    BY <2>1, <2>3, AboveIsOnEveryPath DEF Toured
<1> QED
  BY <1>1, <1>2, <1>3, <1>4

\* Of two blocks above a third, one is above the other.
LEMMA AboveIsAChain ==
  ASSUME Toured, NEW a, NEW b, NEW c \in Numbers, a \in Above(c), b \in Above(c)
  PROVE  a \in Above(b) \/ b \in Above(a)
<1> DEFINE T == {n \in 0 .. Len(post) - 1 : a \in Above(n) /\ b \in Above(n) => a \in Above(b) \/ b \in Above(a)}
<1>1. /\ Len(post) - 1 \in Nat /\ Numbers = 0 .. Len(post) - 1 /\ 0 \in Numbers
      /\ \A n \in Numbers : n # 0 => Dom(n) \in Numbers /\ Dom(n) < n
      /\ \A y \in Numbers : \A x \in Above(y) : x \in Numbers /\ x <= y /\ (x # y => x \in Above(Dom(y)))
  BY TourTree DEF Toured
<1>2. ASSUME NEW n \in 0 .. Len(post) - 1, \A m \in 0 .. Len(post) - 1 : m < n => m \in T PROVE n \in T
  <2> SUFFICES ASSUME a \in Above(n), b \in Above(n) PROVE a \in Above(b) \/ b \in Above(a)
    OBVIOUS
  <2>1. CASE a = n \/ b = n
    BY <2>1
  <2>2. CASE a # n /\ b # n
    <3>1. n # 0
      <4>1. n = 0 => a \in Nat /\ a <= 0
        BY <1>1
      <4> QED
        BY <2>2, <4>1
    <3>2. a \in Above(Dom(n)) /\ b \in Above(Dom(n)) /\ Dom(n) \in T
      BY <1>1, <1>2, <2>2, <3>1
    <3> QED
      BY <3>2
  <2> QED
    BY <2>1, <2>2
<1>3. T = 0 .. Len(post) - 1
  <2> HIDE DEF T
  <2>1. T \in SUBSET (0 .. Len(post) - 1)
    BY DEF T
  <2> QED
    BY <1>1, <1>2, <2>1, StrongInduction
<1> QED
  BY <1>1, <1>3

\* A loop starts from its header and the sources of the edges back to it, and
\* its header dominates all of it.
LEMMA BodyFacts ==
  ASSUME Toured, NEW h \in Numbers
  PROVE  /\ BackTo(h) \in SUBSET Numbers /\ \A u \in BackTo(h) : u \in pred[h] /\ h \in Above(u)
         /\ Body(h) \in SUBSET Numbers /\ h \in Body(h) /\ \A n \in Body(h) : n # h => pred[n] \subseteq Body(h)
         /\ \A C \in SUBSET Numbers :
              BackTo(h) \cup {h} \subseteq C /\ (\A n \in C : n # h => pred[n] \subseteq C) => Body(h) \subseteq C
         /\ \A n \in Body(h) : h \in Above(n)
<1>1. ASSUME NEW u \in BackTo(h) PROVE u \in Numbers /\ u \in pred[h] /\ h \in Above(u)
  <2>1. u \in Numbers /\ h \in ToSet(succ[u]) /\ Dominates(h, u)
    BY DEF BackTo
  <2>2. u \in pred[h]
    BY <2>1, ShapeFacts DEF Toured
  <2>3. h \in Above(u)
    BY <2>1, EnclosesIsAbove DEF Toured
  <2> QED
    BY <2>1, <2>2, <2>3
<1>2. /\ Body(h) \in SUBSET Numbers /\ h \in Body(h) /\ \A n \in Body(h) : n # h => pred[n] \subseteq Body(h)
      /\ \A C \in SUBSET Numbers :
           BackTo(h) \cup {h} \subseteq C /\ (\A n \in C : n # h => pred[n] \subseteq C) => Body(h) \subseteq C
  BY BodyGrows DEF Toured, GrowsTo
<1>3. \A n \in Body(h) : h \in Above(n)
  <2> DEFINE C == {n \in Numbers : h \in Above(n)}
  <2>1. C \in SUBSET Numbers /\ BackTo(h) \cup {h} \subseteq C
    BY <1>1, TouredFacts
  <2>2. ASSUME NEW n \in C, n # h PROVE pred[n] \subseteq C
    BY <2>2, TouredFacts
  <2>3. Body(h) \subseteq C
    <3> HIDE DEF C
    <3> QED
      BY <1>2, <2>1, <2>2
  <2> QED
    BY <2>3
<1> QED
  BY <1>1, <1>2, <1>3

\* Loops that share a block: the header that dominates the other is that of a
\* loop around it, as no path could come to the block past the other.
LEMMA OuterHolds ==
  ASSUME Toured, NEW g \in Numbers, NEW h \in Numbers, NEW n, n \in Body(g), n \in Body(h), g \in Above(h)
  PROVE  h \in Body(g)
<1> SUFFICES ASSUME h \notin Body(g) PROVE FALSE
  OBVIOUS
<1> DEFINE W == {m \in Body(g) : h \in Above(m)}
<1>1. /\ Body(g) \in SUBSET Numbers /\ g \in Body(g) /\ h \in Above(n)
      /\ \A m \in Body(g) : m # g => pred[m] \subseteq Body(g)
  BY BodyFacts
<1>2. n \in W /\ W \in SUBSET Numbers
  BY <1>1
<1>3. ASSUME NEW m \in W PROVE \E k \in W : k < m
  <2>1. m \in Numbers /\ m \in Body(g) /\ h \in Above(m) /\ m # h
    BY <1>1
  <2>2. m # g
    BY <1>1, <2>1, TouredFacts
  <2>3. m # 0
    <3>1. m = 0 => h <= 0 /\ h \in Nat
      BY <2>1, TouredFacts
    <3> QED
      BY <2>1, <3>1
  <2>4. PICK k \in pred[m] : k < m
    BY <2>1, <2>3, TouredFacts
  <2>5. k \in Body(g) /\ h \in Above(k)
    BY <1>1, <2>1, <2>2, TouredFacts
  <2> QED
    BY <2>4, <2>5
<1>4. Len(post) - 1 \in Nat /\ Numbers = 0 .. Len(post) - 1 /\ Numbers \subseteq Nat
  BY TourTree DEF Toured
<1> HIDE DEF W
<1>5. Min(W) \in W /\ \A y \in W : Min(W) <= y
  BY <1>2, <1>4, MinFacts
<1>6. PICK k \in W : k < Min(W)
  BY <1>3, <1>5
<1>7. k \in Nat /\ Min(W) \in Nat /\ Min(W) <= k
  BY <1>2, <1>4, <1>5
<1> QED
  BY <1>6, <1>7

\* A loop whose header is in another one is in the other one.
LEMMA HeaderBringsLoop ==
  ASSUME Toured, NEW g \in Numbers, NEW h \in Body(g)
  PROVE  Body(h) \subseteq Body(g)
<1>1. /\ Body(g) \in SUBSET Numbers /\ g \in Above(h)
      /\ \A m \in Body(g) : m # g => pred[m] \subseteq Body(g)
  BY BodyFacts
<1> SUFFICES ASSUME h # g PROVE Body(h) \subseteq Body(g)
  OBVIOUS
<1> DEFINE C == {m \in Body(g) : h \in Above(m)}
<1>2. h \in Numbers
  BY <1>1
<1>3. C \in SUBSET Numbers /\ BackTo(h) \cup {h} \subseteq C
  <2>1. h \in C
    BY <1>2, TouredFacts
  <2>2. \A u \in BackTo(h) : u \in pred[h] /\ h \in Above(u)
    BY <1>2, BodyFacts
  <2> QED
    BY <1>1, <2>1, <2>2
<1>4. ASSUME NEW m \in C, m # h PROVE pred[m] \subseteq C
  <2>1. m \in Numbers /\ m \in Body(g) /\ h \in Above(m)
    BY <1>1
  <2>2. m # g
    BY <1>1, <1>2, <2>1, TouredFacts
  <2>3. \A k \in pred[m] : k \in Body(g) /\ h \in Above(k)
    BY <1>1, <1>4, <2>1, <2>2, TouredFacts
  <2> QED
    BY <2>3
<1>5. Body(h) \subseteq C
  <2> HIDE DEF C
  <2> QED
    BY <1>2, <1>3, <1>4, BodyFacts
<1> QED
  BY <1>5
LEMMA LoopsThatMeet ==
  ASSUME Toured, NEW g \in Headers, NEW h \in Headers, NEW n, n \in Body(g), n \in Body(h)
  PROVE  (h \in Body(g) /\ Body(h) \subseteq Body(g)) \/ (g \in Body(h) /\ Body(g) \subseteq Body(h))
<1>1. g \in Numbers /\ h \in Numbers
  BY DEF Headers
<1>2. g \in Above(n) /\ h \in Above(n) /\ n \in Numbers
  BY <1>1, BodyFacts
<1>3. g \in Above(h) \/ h \in Above(g)
  BY <1>2, AboveIsAChain
<1>4. h \in Body(g) \/ g \in Body(h)
  BY <1>1, <1>3, OuterHolds
<1> QED
  BY <1>1, <1>4, HeaderBringsLoop

LEMMA DepthFacts ==
  ASSUME Toured, NEW n
  PROVE  /\ Containing(n) \in SUBSET Numbers /\ IsFiniteSet(Containing(n))
         /\ Depth(n) \in 0 .. Cardinality(Numbers) /\ Cardinality(Numbers) \in Nat
<1>1. Containing(n) \in SUBSET Numbers
  BY DEF Containing, Headers
<1> QED
  BY <1>1, NumbersAreFinite DEF Depth, Toured

\* The header of a loop is in more loops than that of one around it.
LEMMA InnerIsDeeper ==
  ASSUME Toured, NEW h \in Headers, NEW k \in Headers, h \in Body(k), h # k
  PROVE  Containing(k) \subseteq Containing(h) /\ h \notin Containing(k) /\ Depth(k) < Depth(h)
<1>1. h \in Numbers /\ k \in Numbers
  BY DEF Headers
<1>2. ASSUME NEW l \in Containing(k) PROVE l \in Containing(h)
  <2>1. l \in Headers /\ k \in Body(l) /\ l \in Numbers
    BY DEF Containing, Headers
  <2>2. Body(k) \subseteq Body(l)
    BY <2>1, HeaderBringsLoop
  <2> QED
    BY <2>1, <2>2 DEF Containing
<1>3. h \notin Containing(k)
  <2>1. ASSUME k \in Body(h) PROVE FALSE
    <3>1. h \in Above(k) /\ k \in Above(h)
      BY <1>1, <2>1, BodyFacts
    <3> QED
      BY <1>1, <3>1, TouredFacts
  <2> QED
    BY <2>1 DEF Containing
<1>4. h \in Containing(h)
  BY <1>1, BodyFacts DEF Containing
<1>5. Cardinality(Containing(k)) < Cardinality(Containing(h))
  <2>1. Containing(k) \subseteq Containing(h) /\ Containing(k) # Containing(h) /\ IsFiniteSet(Containing(h))
    BY <1>2, <1>3, <1>4, DepthFacts
  <2> QED
    BY <2>1, Smaller
<1> QED
  BY <1>2, <1>3, <1>5 DEF Depth

\* The deepest of some loops around a block is inside all of them.
LEMMA DeepestIsInnermost ==
  ASSUME Toured, NEW n, NEW L \in SUBSET Containing(n), L # {}
  PROVE  /\ Deepest(L) \in L /\ Deepest(L) \in Headers /\ Deepest(L) # -1
         /\ \A g \in L : Deepest(L) \in Body(g) /\ Body(Deepest(L)) \subseteq Body(g)
<1> DEFINE K == Cardinality(Numbers)
           D == {K - Depth(g) : g \in L}
           best == {h \in L : \A g \in L : Depth(g) <= Depth(h)}
<1>1. /\ K \in Nat /\ \A g \in L : g \in Headers /\ n \in Body(g) /\ g \in Numbers
      /\ \A g \in L : Depth(g) \in 0 .. K
  BY DepthFacts DEF Containing, Headers
<1>2. best # {}
  <2>1. D \in SUBSET (0 .. K) /\ D # {}
    <3>1. \A g \in L : K - Depth(g) \in 0 .. K
      <4> HIDE DEF K
      <4> QED
        BY <1>1
    <3> HIDE DEF K
    <3> QED
      BY <3>1
  <2>2. Min(D) \in D /\ \A y \in D : Min(D) <= y
    <3> HIDE DEF K, D
    <3> QED
      BY <1>1, <2>1, MinFacts
  <2>3. PICK h \in L : Min(D) = K - Depth(h)
    BY <2>2
  <2>4. ASSUME NEW g \in L PROVE Depth(g) <= Depth(h)
    <3>1. K - Depth(h) <= K - Depth(g)
      BY <2>2, <2>3
    <3> HIDE DEF K
    <3> QED
      BY <1>1, <3>1
  <2> QED
    BY <2>4
<1>3. Deepest(L) = Min(best)
  BY DEF Deepest
<1>4. Len(post) - 1 \in Nat /\ Numbers = 0 .. Len(post) - 1
  BY TourTree DEF Toured
<1>5. Min(best) \in best
  <2>1. best \in SUBSET (0 .. Len(post) - 1)
    BY <1>1, <1>4
  <2> HIDE DEF best
  <2> QED
    BY <1>2, <1>4, <2>1, MinFacts
<1> DEFINE r == Deepest(L)
<1>6. r \in L /\ \A g \in L : Depth(g) <= Depth(r)
  BY <1>3, <1>5
<1> HIDE DEF r, K, best, D
<1>7. r \in Headers /\ n \in Body(r) /\ r \in Numbers /\ r # -1
  BY <1>1, <1>4, <1>6
<1>8. ASSUME NEW g \in L PROVE r \in Body(g) /\ Body(r) \subseteq Body(g)
  <2>1. CASE r = g
    BY <1>7, <2>1, BodyFacts
  <2>2. CASE r # g /\ r \notin Body(g)
    <3>1. g \in Body(r) /\ g \in Headers
      BY <1>1, <1>7, <2>2, LoopsThatMeet
    <3>2. Depth(r) < Depth(g)
      BY <1>7, <2>2, <3>1, InnerIsDeeper
    <3> QED
      BY <1>1, <1>6, <3>2
  <2>3. CASE r \in Body(g)
    BY <1>1, <2>3, HeaderBringsLoop
  <2> QED
    BY <2>1, <2>2, <2>3
<1> QED
  BY <1>6, <1>7, <1>8 DEF r

\* Whether a value would be carried into a loop, asked of the innermost loop
\* and of all of them.
LEMMA InnermostAnswers ==
  ASSUME Toured, NEW d \in Numbers, NEW u \in Numbers
  PROVE  CrossesLoop(d, u) <=> \E h \in Headers : u \in Body(h) /\ d \notin Body(h)
<1>1. CASE Containing(u) = {}
  <2>1. Innermost(u) = -1
    BY <1>1 DEF Innermost, Deepest
  <2> QED
    BY <1>1, <2>1 DEF CrossesLoop, Containing
<1>2. CASE Containing(u) # {}
  <2>1. PICK r : r = Innermost(u)
    OBVIOUS
  <2>2. /\ r \in Containing(u) /\ r # -1
        /\ \A g \in Containing(u) : Body(r) \subseteq Body(g)
    BY <1>2, <2>1, DeepestIsInnermost DEF Innermost
  <2>3. CrossesLoop(d, u) <=> d \notin Body(r)
    BY <2>1, <2>2 DEF CrossesLoop
  <2> QED
    BY <2>2, <2>3 DEF Containing
<1> QED
  BY <1>1, <1>2

\* The parent of a loop is the loop right around it.
LEMMA ParentIsNext ==
  ASSUME Toured, NEW h \in Headers, Parent(h) # -1
  PROVE  Body(h) \subseteq Body(Parent(h)) /\ Depth(h) = Depth(Parent(h)) + 1
<1> DEFINE L == Containing(h) \ {h}
<1>1. PICK p : p = Parent(h)
  OBVIOUS
<1>2. L # {}
  BY DEF Parent, Deepest
<1>3. p \in L /\ p \in Headers /\ \A g \in L : p \in Body(g)
  <2>1. p = Deepest(L) /\ L \in SUBSET Containing(h)
    BY <1>1 DEF Parent
  <2> HIDE DEF L
  <2> QED
    BY <1>2, <2>1, DeepestIsInnermost
<1>4. h \in Body(p) /\ h # p /\ p \in Numbers /\ h \in Numbers
  BY <1>3 DEF Containing, Headers
<1>5. Body(h) \subseteq Body(p)
  BY <1>4, HeaderBringsLoop
<1>6. Containing(p) \subseteq Containing(h) /\ h \notin Containing(p)
  BY <1>3, <1>4, InnerIsDeeper
<1>7. Containing(h) = Containing(p) \cup {h}
  <2>1. h \in Containing(h)
    BY <1>4, BodyFacts DEF Containing
  <2>2. ASSUME NEW l \in Containing(h), l # h PROVE l \in Containing(p)
    <3>1. l \in L /\ l \in Headers
      BY <2>2 DEF Containing
    <3> QED
      BY <1>3, <3>1 DEF Containing
  <2> QED
    BY <1>6, <2>1, <2>2
<1>8. Cardinality(Containing(h)) = Cardinality(Containing(p)) + 1
  <2>1. IsFiniteSet(Containing(p))
    BY DepthFacts
  <2> QED
    BY <1>6, <1>7, <2>1, FS_AddElement
<1> QED
  BY <1>1, <1>5, <1>8 DEF Depth
-----------------------------------------------------------------------------
(* The theorems.                                                           *)

ShapeInv == NumberInv /\ IterationInv /\ TourInv

LEMMA ShapeInitially ==
  ASSUME ShapeInit
  PROVE  ShapeInv
<1>1. NumberInv
  BY NumberInitially
<1>2. IterationInv /\ TourInv
  BY DEF ShapeInit, IterationInv, TourInv
<1> QED
  BY <1>1, <1>2 DEF ShapeInv

\* Dominance is exact: in any graph, however its edges jump into its loops, one
\* block encloses another in the tour if and only if every path from the entry
\* to the one goes through the other (compute_dominators, Dominators.dominates).
THEOREM ExactDominance == ShapeSpec => []DominanceIsExact
<1>1. ShapeInit => ShapeInv
  BY ShapeInitially
<1>2. ShapeInv /\ [ShapeNext]_shapeVars => ShapeInv'
  BY NumberStep, IterationStep, TourStep DEF ShapeInv
<1>3. ShapeInv => DominanceIsExact
  <2> SUFFICES ASSUME ShapeInv, stage = "done", NEW a \in Numbers, NEW b \in Numbers
               PROVE  Dominates(a, b) <=> (a = b \/ b \notin ReachedAvoiding(a))
    BY DEF DominanceIsExact
  <2>1. Shape /\ Tree /\ Settled /\ Tour /\ path = <<>>
    BY DEF ShapeInv, NumberInv, IterationInv, TourInv
  <2> QED
    BY <2>1, EnclosesIsAbove, AboveIsOnEveryPath DEF OnEveryPath
<1> QED
  BY <1>1, <1>2, <1>3, PTL DEF ShapeSpec

\* Loops nest: two natural loops of any graph are apart or one is in the other,
\* so that the innermost loop of a block answers for all of them, and the parent
\* of a loop is right around it (Loops, crosses_loop).
THEOREM NestedLoops == ShapeSpec => []LoopsNest
<1>1. ShapeInit => ShapeInv
  BY ShapeInitially
<1>2. ShapeInv /\ [ShapeNext]_shapeVars => ShapeInv'
  BY NumberStep, IterationStep, TourStep DEF ShapeInv
<1>3. ShapeInv => LoopsNest
  <2> SUFFICES ASSUME ShapeInv, stage = "done" PROVE LoopsNest
    BY DEF LoopsNest
  <2>1. Toured
    BY DEF ShapeInv, NumberInv, IterationInv, TourInv, Toured
  <2>2. ASSUME NEW g \in Headers, NEW h \in Headers, Body(g) \cap Body(h) # {}
        PROVE  Body(g) \subseteq Body(h) \/ Body(h) \subseteq Body(g)
    BY <2>1, <2>2, LoopsThatMeet
  <2>3. \A d, u \in Numbers : CrossesLoop(d, u) <=> \E h \in Headers : u \in Body(h) /\ d \notin Body(h)
    BY <2>1, InnermostAnswers
  <2>4. \A h \in Headers : Parent(h) # -1 => Body(h) \subseteq Body(Parent(h)) /\ Depth(h) = Depth(Parent(h)) + 1
    BY <2>1, ParentIsNext
  <2> QED
    BY <2>2, <2>3, <2>4 DEF LoopsNest
<1> QED
  BY <1>1, <1>2, <1>3, PTL DEF ShapeSpec

\* What the passes ask of the shape of a callback is answered exactly, for any
\* graph (compute_dominators, compute_loops).
THEOREM ExactShape == ShapeSpec => []ShapeIsExact
<1>1. DominanceIsExact /\ LoopsNest => ShapeIsExact
  BY DEF ShapeIsExact
<1> QED
  BY <1>1, ExactDominance, NestedLoops, PTL
=============================================================================
