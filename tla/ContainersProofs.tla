-------------------------- MODULE ContainersProofs --------------------------
(***************************************************************************)
(* Proofs about the containers of Containers, for any capacity and any     *)
(* entries (sonolus/script/containers.py).                                 *)
(*                                                                         *)
(* What an iterator has delivered is known by element, while it keeps a    *)
(* position only and removals move the last entry about.  That it delivers *)
(* no element twice holds because no two cells hold the same element       *)
(* (Distinct), because what was delivered is still there or was removed    *)
(* since (Delivered), and because a removal moves entries towards the      *)
(* start only.                                                             *)
(*                                                                         *)
(* The sorts of arrays and of linked entities and the binary search        *)
(* (sonolus/script/array_like.py) come first.  A loop is a recursive       *)
(* function of its state.  That there is one that satisfies its equation   *)
(* is LoopExists, what holds of its results is LoopInduction: a set of     *)
(* states that has all where the loop stops, and each one whose next state *)
(* it has, has all states.                                                 *)
(***************************************************************************)
EXTENDS Containers, FiniteSetTheorems, FunctionTheorems, SequenceTheorems, WellFoundedInduction, TLAPS

-----------------------------------------------------------------------------
(* Loops: stop says where one stops, out what it returns there, step where *)
(* it goes on, and left, at most N, how much is left to do.                *)

LEMMA LeastNumber ==
  ASSUME NEW S \in SUBSET Nat, S # {}
  PROVE  \E m \in S : \A n \in S : m <= n
<1> DEFINE R == OpToRel(<, Nat)
<1>1. IsWellFoundedOn(R, Nat)
  BY NatLessThanWellFounded
<1>2. \A p, q \in Nat : p < q => <<p, q>> \in R
  BY DEF OpToRel
<1> HIDE DEF R
<1>3. PICK m \in S : \A p \in S : ~ (<<p, m>> \in R)
  BY <1>1, WFMin
<1>4. ASSUME NEW n \in S PROVE m <= n
  <2>1. ~ (n < m)
    BY <1>2, <1>3
  <2>2. m \in Nat /\ n \in Nat
    OBVIOUS
  <2> QED
    BY <2>1, <2>2
<1> QED
  BY <1>4

Decreases(S, stop, step, left, N) ==
  /\ N \in Nat /\ stop \in SUBSET S /\ step \in [S -> S] /\ left \in [S -> 0..N]
  /\ \A s \in S \ stop : left[step[s]] < left[s]
IsLoop(f, S, stop, out, step) == f = [s \in S |-> IF s \in stop THEN out[s] ELSE f[step[s]]]

LEMMA LoopInduction ==
  ASSUME NEW S, NEW stop, NEW step, NEW left, NEW N, Decreases(S, stop, step, left, N),
         NEW R \in SUBSET S, stop \subseteq R, \A s \in S \ stop : step[s] \in R => s \in R
  PROVE  R = S
<1> SUFFICES ASSUME R # S PROVE FALSE
  OBVIOUS
<1> DEFINE bad == {left[s] : s \in S \ R}
<1>1. bad \in SUBSET Nat /\ bad # {}
  BY DEF Decreases
<1>2. PICK m \in bad : \A n \in bad : m <= n
  BY <1>1, LeastNumber
<1>3. PICK s \in S \ R : m = left[s]
  BY <1>2
<1>4. step[s] \in S \ R /\ left[step[s]] < left[s] /\ left[s] \in Nat /\ left[step[s]] \in Nat
  BY <1>3 DEF Decreases
<1> QED
  BY <1>2, <1>3, <1>4

LEMMA LoopExists ==
  ASSUME NEW S, NEW stop, NEW step, NEW left, NEW N, Decreases(S, stop, step, left, N),
         NEW X, NEW out \in [S -> X], X # {}
  PROVE  \E f \in [S -> X] : IsLoop(f, S, stop, out, step)
<1> DEFINE Upto(f, n) == f \in [S -> X] /\ \A s \in S : left[s] < n => f[s] = IF s \in stop THEN out[s] ELSE f[step[s]]
           bad == {n \in Nat : n <= N + 1 /\ ~ \E f : Upto(f, n)}
<1>1. N \in Nat /\ step \in [S -> S] /\ left \in [S -> 0..N] /\ \A s \in S \ stop : left[step[s]] < left[s]
  BY DEF Decreases
<1>2. PICK x : x \in X
  OBVIOUS
<1>3. Upto([s \in S |-> x], 0)
  <2>1. \A s \in S : ~ (left[s] < 0)
    BY <1>1
  <2> QED
    BY <1>2, <2>1
<1>4. ASSUME NEW n \in Nat, NEW f, Upto(f, n) PROVE \E g : Upto(g, n + 1)
  <2> DEFINE g == [s \in S |-> IF s \in stop THEN out[s] ELSE f[step[s]]]
  <2>1. g \in [S -> X]
    BY <1>1, <1>4
  <2>2. ASSUME NEW s \in S, left[s] < n + 1 PROVE g[s] = IF s \in stop THEN out[s] ELSE g[step[s]]
    <3>1. CASE s \in stop
      BY <3>1
    <3>2. CASE s \notin stop
      <4>1. step[s] \in S /\ left[step[s]] < left[s] /\ left[s] \in Nat /\ left[step[s]] \in Nat
        BY <1>1, <3>2
      <4>2. left[step[s]] < n
        BY <2>2, <4>1
      <4>3. f[step[s]] = g[step[s]]
        BY <1>4, <4>1, <4>2
      <4>4. g[s] = f[step[s]]
        BY <3>2
      <4> QED
        BY <3>2, <4>3, <4>4
    <3> QED
      BY <3>1, <3>2
  <2> HIDE DEF g
  <2> QED
    BY <2>1, <2>2
<1> HIDE DEF Upto
<1>5. bad = {}
  <2> SUFFICES ASSUME bad # {} PROVE FALSE
    OBVIOUS
  <2>1. PICK m \in bad : \A n \in bad : m <= n
    BY LeastNumber
  <2>2. m # 0 /\ m - 1 \in Nat /\ m - 1 <= N + 1 /\ m \in Nat /\ (m - 1) + 1 = m
    BY <1>1, <1>3, <2>1
  <2>3. m - 1 \notin bad
    BY <2>1, <2>2
  <2>4. PICK f : Upto(f, m - 1)
    BY <2>2, <2>3
  <2>5. \E g : Upto(g, m)
    BY <1>4, <2>2, <2>4
  <2> QED
    BY <2>1, <2>5
<1>6. PICK f : Upto(f, N + 1)
  BY <1>1, <1>5
<1>7. f \in [S -> X] /\ \A s \in S : f[s] = IF s \in stop THEN out[s] ELSE f[step[s]]
  <2>1. \A s \in S : left[s] < N + 1
    BY <1>1
  <2> QED
    BY <1>6, <2>1 DEF Upto
<1> QED
  BY <1>7 DEF IsLoop
-----------------------------------------------------------------------------
(* Orders.  Two elements are in order if the first may come before the     *)
(* second.                                                                 *)

Ordered(how, x, y) == ~ OutOfOrder(how, x, y)
Alike(how, x, y) == Ordered(how, x, y) /\ Ordered(how, y, x)

LEMMA OrderFacts ==
  ASSUME NEW how \in Orders, NEW x \in Entries, NEW y \in Entries
  PROVE  /\ Ordered(how, x, y) \/ Ordered(how, y, x)
         /\ \A z \in Entries : Ordered(how, x, y) /\ Ordered(how, y, z) => Ordered(how, x, z)
         /\ x.key = y.key => (how.keyed => Alike(how, x, y))
<1>1. \A e \in Entries : e.key \in Int /\ e.val \in Int
  BY SortingAssumption
<1>2. CASE how.reverse
  BY <1>1, <1>2 DEF Ordered, Alike, OutOfOrder, Greater
<1>3. CASE ~ how.reverse
  BY <1>1, <1>3 DEF Ordered, Alike, OutOfOrder, Greater
<1> QED
  BY <1>2, <1>3

\* A list of comparable elements is in order up to m.
InOrderUpto(how, a, m) == \A x, y \in DOMAIN a : x < y /\ y < m => Ordered(how, a[x], a[y])

-----------------------------------------------------------------------------
(* Arrays and their permutations.                                          *)

LEMMA ArrayFacts ==
  ASSUME NEW a \in Arrays
  PROVE  /\ Size(a) \in 0..MaxLength /\ DOMAIN a = 0 .. Size(a) - 1 /\ a \in [DOMAIN a -> Entries]
         /\ \A b \in [DOMAIN a -> Entries] : b \in Arrays /\ Size(b) = Size(a)
<1>1. PICK n \in 0..MaxLength : a \in [0 .. n - 1 -> Entries]
  BY DEF Arrays
<1>2. Cardinality(0 .. n - 1) = n
  <2>1. 0 \in Int /\ n - 1 \in Int
    BY SortingAssumption
  <2>2. Cardinality(0 .. n - 1) = IF 0 > n - 1 THEN 0 ELSE (n - 1) - 0 + 1
    BY <2>1, FS_Interval
  <2> QED
    BY <2>2, SortingAssumption
<1>3. \A b \in [0 .. n - 1 -> Entries] : b \in Arrays
  BY DEF Arrays
<1> QED
  BY <1>1, <1>2, <1>3 DEF Size

LEMMA SwapFacts ==
  ASSUME NEW a \in Arrays, NEW i \in DOMAIN a, NEW j \in DOMAIN a
  PROVE  /\ SwapUnchecked(a, i, j) \in Arrays /\ DOMAIN SwapUnchecked(a, i, j) = DOMAIN a
         /\ SwapUnchecked(a, i, j) \in [DOMAIN a -> Entries]
         /\ \A x \in DOMAIN a : SwapUnchecked(a, i, j)[x] = IF x = i THEN a[j] ELSE IF x = j THEN a[i] ELSE a[x]
<1>1. a \in [DOMAIN a -> Entries] /\ \A b \in [DOMAIN a -> Entries] : b \in Arrays
  BY ArrayFacts
<1>2. SwapUnchecked(a, i, j) = [x \in DOMAIN a |-> IF x = i THEN a[j] ELSE IF x = j THEN a[i] ELSE a[x]]
  BY <1>1 DEF SwapUnchecked
<1>3. SwapUnchecked(a, i, j) \in [DOMAIN a -> Entries]
  BY <1>1, <1>2
<1> QED
  BY <1>1, <1>2, <1>3

IsSwap(a, i, j, b) ==
  /\ DOMAIN b = DOMAIN a
  /\ \A x \in DOMAIN a : b[x] = IF x = i THEN a[j] ELSE IF x = j THEN a[i] ELSE a[x]

LEMMA SwapIs ==
  ASSUME NEW a \in Arrays, NEW i \in DOMAIN a, NEW j \in DOMAIN a
  PROVE  IsSwap(a, i, j, SwapUnchecked(a, i, j))
BY SwapFacts DEF IsSwap

\* b has the elements of a in another order; if stably, those that are alike
\* keep theirs.
ByPermutation(how, a, b, stably, p) ==
  /\ p \in Bijection(DOMAIN a, DOMAIN a) /\ b = [x \in DOMAIN a |-> a[p[x]]]
  /\ stably => \A x, y \in DOMAIN a : x < y /\ Alike(how, b[x], b[y]) => p[x] < p[y]
Reorders(how, a, b, stably) == \E p : ByPermutation(how, a, b, stably, p)

LEMMA ReordersItself ==
  ASSUME NEW how, NEW a \in Arrays, NEW stably
  PROVE  Reorders(how, a, a, stably)
<1> DEFINE p == [x \in DOMAIN a |-> x]
<1>1. a \in [DOMAIN a -> Entries]
  BY ArrayFacts
<1>2. p \in Bijection(DOMAIN a, DOMAIN a) /\ a = [x \in DOMAIN a |-> a[p[x]]]
  BY <1>1 DEF Bijection, Injection, IsInjective, Surjection
<1>3. ByPermutation(how, a, a, stably, p)
  BY <1>2 DEF ByPermutation
<1> QED
  BY <1>3 DEF Reorders

LEMMA ReordersAgain ==
  ASSUME NEW how, NEW a \in Arrays, NEW b, NEW c, NEW stably,
         Reorders(how, a, b, stably), Reorders(how, b, c, stably)
  PROVE  Reorders(how, a, c, stably)
<1>1. PICK p : ByPermutation(how, a, b, stably, p)
  BY DEF Reorders
<1>2. PICK q : ByPermutation(how, b, c, stably, q)
  BY DEF Reorders
<1> DEFINE D == DOMAIN a
           r == [x \in D |-> p[q[x]]]
<1>3. DOMAIN b = D /\ p \in [D -> D] /\ q \in [D -> D]
  BY <1>1, <1>2 DEF ByPermutation, Bijection, Injection, IsInjective, Surjection
<1>4. r \in Bijection(D, D)
  <2>1. ASSUME NEW x \in D PROVE \E y \in D : r[y] = x
    <3>1. PICK z \in D : p[z] = x
      BY <1>1 DEF ByPermutation, Bijection, Injection, IsInjective, Surjection
    <3>2. PICK y \in D : q[y] = z
      BY <1>2, <1>3 DEF ByPermutation, Bijection, Injection, IsInjective, Surjection
    <3> QED
      BY <3>1, <3>2
  <2>2. r \in [D -> D]
    BY <1>3
  <2>3. ASSUME NEW x \in D, NEW y \in D, r[x] = r[y] PROVE x = y
    <3>1. q[x] = q[y]
      BY <1>1, <1>3, <2>3 DEF ByPermutation, Bijection, Injection, IsInjective
    <3> QED
      BY <1>2, <1>3, <3>1 DEF ByPermutation, Bijection, Injection, IsInjective
  <2> HIDE DEF r, D
  <2> QED
    BY <2>1, <2>2, <2>3 DEF Bijection, Injection, IsInjective, Surjection
<1>5. c = [x \in D |-> a[r[x]]]
  <2>1. c = [x \in D |-> b[q[x]]]
    BY <1>2, <1>3 DEF ByPermutation
  <2>2. \A x \in D : b[q[x]] = a[p[q[x]]]
    BY <1>1, <1>3 DEF ByPermutation
  <2> QED
    BY <2>1, <2>2
<1>6. ASSUME stably, NEW x \in D, NEW y \in D, x < y, Alike(how, c[x], c[y]) PROVE r[x] < r[y]
  <2>1. q[x] < q[y]
    BY <1>2, <1>3, <1>6 DEF ByPermutation
  <2>2. c[x] = b[q[x]] /\ c[y] = b[q[y]] /\ q[x] \in D /\ q[y] \in D
    BY <1>2, <1>3 DEF ByPermutation
  <2>3. p[q[x]] < p[q[y]]
    BY <1>1, <1>6, <2>1, <2>2 DEF ByPermutation
  <2> QED
    BY <2>3
<1> HIDE DEF r
<1>7. ByPermutation(how, a, c, stably, r)
  BY <1>4, <1>5, <1>6 DEF ByPermutation
<1> QED
  BY <1>7 DEF Reorders

\* Any two elements may be swapped; two neighbours stably, if they are out of order.
LEMMA SwapReorders ==
  ASSUME NEW how, NEW a \in Arrays, NEW i \in DOMAIN a, NEW j \in DOMAIN a, NEW stably,
         stably => i = j - 1 /\ ~ Ordered(how, a[i], a[j])
  PROVE  Reorders(how, a, SwapUnchecked(a, i, j), stably)
<1> DEFINE D == DOMAIN a
           b == SwapUnchecked(a, i, j)
           p == [x \in D |-> IF x = i THEN j ELSE IF x = j THEN i ELSE x]
<1>1. D \subseteq Int
  BY ArrayFacts
<1>2. b = [x \in D |-> IF x = i THEN a[j] ELSE IF x = j THEN a[i] ELSE a[x]]
  <2>1. b \in [D -> Entries] /\ \A x \in D : b[x] = IF x = i THEN a[j] ELSE IF x = j THEN a[i] ELSE a[x]
    BY SwapFacts
  <2> QED
    BY <2>1
<1>3. p \in Bijection(D, D)
  <2>1. \A x \in D : p[x] \in D /\ p[p[x]] = x
    OBVIOUS
  <2>2. p \in [D -> D]
    BY <2>1
  <2> HIDE DEF p, D
  <2> QED
    BY <2>1, <2>2 DEF Bijection, Injection, IsInjective, Surjection
<1>4. b = [x \in D |-> a[p[x]]]
  BY <1>2
<1>5. ASSUME stably, NEW x \in D, NEW y \in D, x < y, Alike(how, b[x], b[y]) PROVE p[x] < p[y]
  <2>1. i = j - 1 /\ ~ Ordered(how, a[i], a[j])
    BY <1>5
  <2>2. CASE x = i /\ y = j
    <3>1. b[x] = a[j] /\ b[y] = a[i]
      BY <1>1, <1>2, <2>1, <2>2
    <3> QED
      BY <1>5, <2>1, <3>1 DEF Alike
  <2>3. CASE ~ (x = i /\ y = j)
    BY <1>1, <1>5, <2>1, <2>3
  <2> QED
    BY <2>2, <2>3
<1> HIDE DEF p, b
<1>6. ByPermutation(how, a, b, stably, p)
  BY <1>3, <1>4, <1>5 DEF ByPermutation
<1> QED
  BY <1>6 DEF Reorders, b
-----------------------------------------------------------------------------
(* Insertion sort.                                                         *)

LEMMA LoopFacts ==
  ASSUME NEW l \in Loops
  PROVE  /\ l = Loop(l.array, l.at) /\ l.array \in Arrays /\ l.at \in Positions
         /\ DOMAIN l.array = 0 .. Size(l.array) - 1 /\ Size(l.array) \in 0..MaxLength
BY ArrayFacts DEF Loops, Loop

LEMMA LoopType ==
  ASSUME NEW a \in Arrays, NEW i \in Positions
  PROVE  Loop(a, i) \in Loops /\ Loop(a, i).array = a /\ Loop(a, i).at = i
BY DEF Loops, Loop

LEMMA SinkFacts ==
  ASSUME NEW how, NEW a \in Arrays, NEW j \in Positions, Sinks(how, a, j)
  PROVE  /\ j - 1 \in DOMAIN a /\ j \in DOMAIN a /\ j - 1 \in Positions
         /\ SwapUnchecked(a, j - 1, j) \in Arrays
         /\ Loop(SwapUnchecked(a, j - 1, j), j - 1) \in Loops
<1>1. j - 1 \in DOMAIN a /\ j \in DOMAIN a /\ j - 1 \in Positions
  BY ArrayFacts, SortingAssumption DEF Sinks, Positions
<1> QED
  BY <1>1, SwapFacts, LoopType

\* A loop that returns the array it worked on.
LEMMA ArrayLoop ==
  ASSUME NEW stop, NEW step, NEW left, NEW N, Decreases(Loops, stop, step, left, N)
  PROVE  \E f : f = [l \in Loops |-> IF l \in stop THEN l.array ELSE f[step[l]]]
<1> DEFINE out == [l \in Loops |-> l.array]
<1>1. out \in [Loops -> Arrays]
  BY LoopFacts
<1>2. Arrays # {}
  <2>1. [x \in 0 .. 0 - 1 |-> x] \in [0 .. 0 - 1 -> Entries] /\ 0 \in 0..MaxLength
    BY SortingAssumption
  <2> QED
    BY <2>1 DEF Arrays
<1>3. \A l \in Loops : out[l] = l.array
  OBVIOUS
<1> HIDE DEF out
<1>4. PICK f \in [Loops -> Arrays] : IsLoop(f, Loops, stop, out, step)
  BY <1>1, <1>2, LoopExists
<1> QED
  BY <1>3, <1>4 DEF IsLoop

SinkStops(how) == {l \in Loops : ~ Sinks(how, l.array, l.at)}
SinkNext(l) == Loop(SwapUnchecked(l.array, l.at - 1, l.at), l.at - 1)
SinkStep(how) == [l \in Loops |-> IF Sinks(how, l.array, l.at) THEN SinkNext(l) ELSE l]
SinkLeft == [l \in Loops |-> l.at + 1]

LEMMA SinkingIs ==
  ASSUME NEW how
  PROVE  /\ Decreases(Loops, SinkStops(how), SinkStep(how), SinkLeft, MaxLength + 2)
         /\ Sinking(how) = [l \in Loops |-> IF Sinks(how, l.array, l.at) THEN Sinking(how)[SinkNext(l)] ELSE l.array]
<1> DEFINE Is(f) == f = [l \in Loops |-> IF Sinks(how, l.array, l.at) THEN f[SinkNext(l)] ELSE l.array]
<1>1. \A l \in Loops : Sinks(how, l.array, l.at) => SinkNext(l) \in Loops /\ SinkNext(l).at = l.at - 1
  BY LoopFacts, SinkFacts DEF Loop, SinkNext
<1>2. SinkStep(how) \in [Loops -> Loops]
  BY <1>1 DEF SinkStep
<1>3. MaxLength + 2 \in Nat /\ SinkLeft \in [Loops -> 0..(MaxLength + 2)]
  BY LoopFacts, SortingAssumption DEF Positions, SinkLeft
<1>4. \A l \in Loops \ SinkStops(how) : SinkLeft[SinkStep(how)[l]] < SinkLeft[l]
  BY <1>1, LoopFacts, SortingAssumption DEF Positions, SinkLeft, SinkStep, SinkStops
<1>5. Decreases(Loops, SinkStops(how), SinkStep(how), SinkLeft, MaxLength + 2)
  BY <1>2, <1>3, <1>4 DEF Decreases, SinkStops
<1>6. PICK f : f = [l \in Loops |-> IF l \in SinkStops(how) THEN l.array ELSE f[SinkStep(how)[l]]]
  BY <1>5, ArrayLoop
<1>7. Is(f)
  <2>1. \A l \in Loops : (IF l \in SinkStops(how) THEN l.array ELSE f[SinkStep(how)[l]])
                         = IF Sinks(how, l.array, l.at) THEN f[SinkNext(l)] ELSE l.array
    BY DEF SinkStops, SinkStep
  <2> QED
    BY <1>6, <2>1
<1>8. Sinking(how) = CHOOSE g : Is(g)
  BY DEF Sinking, SinkNext
<1>9. Is(Sinking(how))
  BY <1>7, <1>8
<1> QED
  BY <1>5, <1>9

\* Up to m, only what precedes the element at j may be out of order with it.
InOrderBut(how, a, j, m) ==
  \A x, y \in DOMAIN a : x < y /\ y < m /\ y # j => Ordered(how, a[x], a[y])

LEMMA SinkStepKeeps ==
  ASSUME NEW how \in Orders, NEW a \in Arrays, NEW j \in Positions, Sinks(how, a, j), NEW m \in Int,
         InOrderBut(how, a, j, m)
  PROVE  InOrderBut(how, SwapUnchecked(a, j - 1, j), j - 1, m)
<1> DEFINE b == SwapUnchecked(a, j - 1, j)
<1>1. j - 1 \in DOMAIN a /\ j \in DOMAIN a /\ DOMAIN a \subseteq Int /\ a \in [DOMAIN a -> Entries]
  BY SinkFacts, ArrayFacts
<1>2. DOMAIN b = DOMAIN a /\ \A x \in DOMAIN a : b[x] = IF x = j - 1 THEN a[j] ELSE IF x = j THEN a[j - 1] ELSE a[x]
  BY <1>1, SwapFacts
<1>3. Ordered(how, a[j], a[j - 1])
  BY <1>1, OrderFacts DEF Sinks, Ordered
<1> HIDE DEF b
<1> SUFFICES ASSUME NEW x \in DOMAIN a, NEW y \in DOMAIN a, x < y, y < m, y # j - 1
             PROVE  Ordered(how, b[x], b[y])
  BY <1>2 DEF InOrderBut, b
<1>4. CASE y = j
  <2>1. b[y] = a[j - 1]
    BY <1>1, <1>2, <1>4
  <2>2. CASE x = j - 1
    BY <1>2, <1>3, <2>1, <2>2
  <2>3. CASE x # j - 1
    <3>1. b[x] = a[x] /\ x < j - 1 /\ j - 1 < m /\ j - 1 # j
      BY <1>1, <1>2, <1>4, <2>3
    <3> QED
      BY <1>1, <2>1, <3>1 DEF InOrderBut
  <2> QED
    BY <2>2, <2>3
<1>5. CASE y # j
  <2>1. b[y] = a[y]
    BY <1>2, <1>5
  <2>2. PICK z \in DOMAIN a : b[x] = a[z] /\ z < y
    <3>1. CASE x = j - 1
      BY <1>1, <1>2, <1>5, <3>1
    <3>2. CASE x = j
      BY <1>1, <1>2, <1>5, <3>2
    <3>3. CASE x # j - 1 /\ x # j
      BY <1>2, <3>3
    <3> QED
      BY <3>1, <3>2, <3>3
  <2> QED
    BY <1>5, <2>1, <2>2 DEF InOrderBut
<1> QED
  BY <1>4, <1>5

LEMMA SinkStop ==
  ASSUME NEW how \in Orders, NEW a \in Arrays, NEW j \in Positions, ~ Sinks(how, a, j), NEW m \in Int,
         InOrderBut(how, a, j, m)
  PROVE  InOrderUpto(how, a, m)
<1>1. DOMAIN a = 0 .. Size(a) - 1 /\ Size(a) \in Nat /\ a \in [DOMAIN a -> Entries]
  BY ArrayFacts, SortingAssumption
<1> SUFFICES ASSUME NEW x \in DOMAIN a, NEW y \in DOMAIN a, x < y, y < m
             PROVE  Ordered(how, a[x], a[y])
  BY DEF InOrderUpto
<1>2. CASE y # j
  BY <1>2 DEF InOrderBut
<1>3. CASE y = j
  <2>1. j - 1 \in DOMAIN a /\ x <= j - 1 /\ Ordered(how, a[j - 1], a[j])
    BY <1>1, <1>3 DEF Sinks, Ordered
  <2>2. CASE x = j - 1
    BY <1>3, <2>1, <2>2
  <2>3. CASE x # j - 1
    <3>1. Ordered(how, a[x], a[j - 1])
      <4>1. x < j - 1 /\ j - 1 < m /\ j - 1 # j
        BY <1>1, <1>3, <2>1, <2>3
      <4> QED
        BY <2>1, <4>1 DEF InOrderBut
    <3> QED
      BY <1>1, <1>3, <2>1, <3>1, OrderFacts
  <2> QED
    BY <2>2, <2>3
<1> QED
  BY <1>2, <1>3

SinkDoes(how, a, j, b) ==
  /\ b \in Arrays /\ DOMAIN b = DOMAIN a /\ Reorders(how, a, b, TRUE)
  /\ \A m \in Int : InOrderBut(how, a, j, m) => InOrderUpto(how, b, m)

\* An element sinks past those it is out of order with, no further.
LEMMA SinkWorks ==
  ASSUME NEW how \in Orders, NEW a \in Arrays, NEW j \in Positions
  PROVE  SinkDoes(how, a, j, Sink(how, a, j))
<1> DEFINE R == {l \in Loops : SinkDoes(how, l.array, l.at, Sinking(how)[l])}
<1>1. Decreases(Loops, SinkStops(how), SinkStep(how), SinkLeft, MaxLength + 2)
  BY SinkingIs
<1>2. \A l \in Loops : Sinking(how)[l] = IF Sinks(how, l.array, l.at) THEN Sinking(how)[SinkNext(l)] ELSE l.array
  BY SinkingIs
<1>3. SinkStops(how) \subseteq R
  <2> SUFFICES ASSUME NEW l \in Loops, ~ Sinks(how, l.array, l.at) PROVE SinkDoes(how, l.array, l.at, l.array)
    BY <1>2 DEF SinkStops
  <2>1. l.array \in Arrays /\ l.at \in Positions
    BY LoopFacts
  <2> QED
    BY <2>1, ReordersItself, SinkStop DEF SinkDoes
<1>4. ASSUME NEW l \in Loops \ SinkStops(how), SinkStep(how)[l] \in R PROVE l \in R
  <2> DEFINE b == SwapUnchecked(l.array, l.at - 1, l.at)
             c == Sinking(how)[l]
  <2>1. l.array \in Arrays /\ l.at \in Positions /\ Sinks(how, l.array, l.at)
    BY LoopFacts, <1>4 DEF SinkStops
  <2>2. l.at - 1 \in DOMAIN l.array /\ l.at \in DOMAIN l.array /\ l.at - 1 \in Positions /\ b \in Arrays
    BY <2>1, SinkFacts
  <2>3. SinkStep(how)[l] = Loop(b, l.at - 1) /\ c = Sinking(how)[Loop(b, l.at - 1)]
    BY <1>2, <2>1 DEF SinkStep, SinkNext
  <2> HIDE DEF c
  <2>4. SinkDoes(how, b, l.at - 1, c)
    <3>1. SinkDoes(how, Loop(b, l.at - 1).array, Loop(b, l.at - 1).at, Sinking(how)[Loop(b, l.at - 1)])
      BY <1>4, <2>3
    <3>2. Loop(b, l.at - 1).array = b /\ Loop(b, l.at - 1).at = l.at - 1
      BY <2>2, LoopType
    <3> HIDE DEF b
    <3> QED
      BY <2>3, <3>1, <3>2
  <2>5. DOMAIN b = DOMAIN l.array /\ Reorders(how, l.array, b, TRUE)
    <3>1. ~ Ordered(how, l.array[l.at - 1], l.array[l.at])
      BY <2>1 DEF Sinks, Ordered
    <3>2. DOMAIN b = DOMAIN l.array
      BY <2>1, <2>2, SwapFacts
    <3>3. Reorders(how, l.array, b, TRUE)
      BY <2>1, <2>2, <3>1, SwapReorders
    <3> QED
      BY <3>2, <3>3
  <2>6. Reorders(how, l.array, c, TRUE)
    <3> HIDE DEF b
    <3> QED
      BY <2>1, <2>4, <2>5, ReordersAgain DEF SinkDoes
  <2>7. ASSUME NEW m \in Int, InOrderBut(how, l.array, l.at, m) PROVE InOrderUpto(how, c, m)
    <3>1. InOrderBut(how, b, l.at - 1, m)
      BY <2>1, <2>7, SinkStepKeeps
    <3> HIDE DEF b
    <3> QED
      BY <2>4, <3>1 DEF SinkDoes
  <2>8. SinkDoes(how, l.array, l.at, c)
    <3> HIDE DEF b
    <3> QED
      BY <2>4, <2>5, <2>6, <2>7 DEF SinkDoes
  <2> QED
    BY <2>8 DEF c
<1>5. R = Loops
  <2>1. R \subseteq Loops
    OBVIOUS
  <2> HIDE DEF R
  <2> QED
    BY <1>1, <1>3, <1>4, <2>1, LoopInduction
<1>6. Loop(a, j) \in R /\ Loop(a, j).array = a /\ Loop(a, j).at = j
  BY <1>5, LoopType
<1> QED
  BY <1>6 DEF Sink
InsertStops == {l \in Loops : l.at \notin DOMAIN l.array}
InsertNext(how, l) == Loop(Sink(how, l.array, l.at), l.at + 1)
InsertStep(how) == [l \in Loops |-> IF l.at \in DOMAIN l.array THEN InsertNext(how, l) ELSE l]
InsertLeft == [l \in Loops |-> MaxLength + 1 - l.at]

LEMMA InsertingIs ==
  ASSUME NEW how \in Orders
  PROVE  /\ Decreases(Loops, InsertStops, InsertStep(how), InsertLeft, MaxLength + 2)
         /\ Inserting(how) = [l \in Loops |-> IF l.at \in DOMAIN l.array THEN Inserting(how)[InsertNext(how, l)] ELSE l.array]
<1> DEFINE Is(f) == f = [l \in Loops |-> IF l.at \in DOMAIN l.array THEN f[InsertNext(how, l)] ELSE l.array]
<1>1. ASSUME NEW l \in Loops, l.at \in DOMAIN l.array
      PROVE  InsertNext(how, l) \in Loops /\ InsertNext(how, l).at = l.at + 1
  <2>1. Sink(how, l.array, l.at) \in Arrays
    BY LoopFacts, SinkWorks DEF SinkDoes
  <2>2. l.at + 1 \in Positions
    BY <1>1, LoopFacts, SortingAssumption DEF Positions
  <2> QED
    BY <2>1, <2>2, LoopType DEF InsertNext
<1>2. InsertStep(how) \in [Loops -> Loops]
  BY <1>1 DEF InsertStep
<1>3. MaxLength + 2 \in Nat /\ InsertLeft \in [Loops -> 0..(MaxLength + 2)]
  BY LoopFacts, SortingAssumption DEF Positions, InsertLeft
<1>4. \A l \in Loops \ InsertStops : InsertLeft[InsertStep(how)[l]] < InsertLeft[l]
  BY <1>1, LoopFacts, SortingAssumption DEF Positions, InsertLeft, InsertStep, InsertStops
<1>5. Decreases(Loops, InsertStops, InsertStep(how), InsertLeft, MaxLength + 2)
  BY <1>2, <1>3, <1>4 DEF Decreases, InsertStops
<1>6. PICK f : f = [l \in Loops |-> IF l \in InsertStops THEN l.array ELSE f[InsertStep(how)[l]]]
  BY <1>5, ArrayLoop
<1>7. Is(f)
  <2>1. \A l \in Loops : (IF l \in InsertStops THEN l.array ELSE f[InsertStep(how)[l]])
                         = IF l.at \in DOMAIN l.array THEN f[InsertNext(how, l)] ELSE l.array
    BY DEF InsertStops, InsertStep
  <2> QED
    BY <1>6, <2>1
<1>8. Inserting(how) = CHOOSE g : Is(g)
  BY DEF Inserting, InsertNext
<1>9. Is(Inserting(how))
  BY <1>7, <1>8
<1> QED
  BY <1>5, <1>9

InsertDoes(how, a, i, b) ==
  /\ b \in Arrays /\ DOMAIN b = DOMAIN a /\ Reorders(how, a, b, TRUE)
  /\ 0 <= i /\ InOrderUpto(how, a, i) => InOrderUpto(how, b, Size(a))

LEMMA InsertWorks ==
  ASSUME NEW how \in Orders, NEW a \in Arrays, NEW i \in Positions
  PROVE  InsertDoes(how, a, i, Inserting(how)[Loop(a, i)])
<1> DEFINE R == {l \in Loops : InsertDoes(how, l.array, l.at, Inserting(how)[l])}
<1>1. Decreases(Loops, InsertStops, InsertStep(how), InsertLeft, MaxLength + 2)
  BY InsertingIs
<1>2. \A l \in Loops : Inserting(how)[l] = IF l.at \in DOMAIN l.array THEN Inserting(how)[InsertNext(how, l)] ELSE l.array
  BY InsertingIs
<1>3. InsertStops \subseteq R
  <2> SUFFICES ASSUME NEW l \in Loops, l.at \notin DOMAIN l.array PROVE InsertDoes(how, l.array, l.at, l.array)
    BY <1>2 DEF InsertStops
  <2>1. l.array \in Arrays /\ l.at \in Positions /\ DOMAIN l.array = 0 .. Size(l.array) - 1 /\ Size(l.array) \in Nat
    BY LoopFacts, SortingAssumption
  <2>2. ASSUME 0 <= l.at, InOrderUpto(how, l.array, l.at) PROVE InOrderUpto(how, l.array, Size(l.array))
    <3>1. Size(l.array) <= l.at
      BY <2>1, <2>2 DEF Positions
    <3>2. \A y \in DOMAIN l.array : y < l.at
      BY <2>1, <3>1 DEF Positions
    <3> QED
      BY <2>2, <3>2 DEF InOrderUpto
  <2> QED
    BY <2>1, <2>2, ReordersItself DEF InsertDoes
<1>4. ASSUME NEW l \in Loops \ InsertStops, InsertStep(how)[l] \in R PROVE l \in R
  <2> DEFINE b == Sink(how, l.array, l.at)
             c == Inserting(how)[l]
  <2>1. l.array \in Arrays /\ l.at \in Positions /\ l.at \in DOMAIN l.array /\ DOMAIN l.array \subseteq Int
    BY LoopFacts, ArrayFacts, <1>4 DEF InsertStops
  <2>2. SinkDoes(how, l.array, l.at, b)
    BY <2>1, SinkWorks
  <2>3. b \in Arrays /\ DOMAIN b = DOMAIN l.array /\ Size(b) = Size(l.array) /\ l.at + 1 \in Positions
    BY <2>1, <2>2, LoopFacts, SortingAssumption DEF SinkDoes, Size, Positions
  <2>4. InsertStep(how)[l] = Loop(b, l.at + 1) /\ c = Inserting(how)[Loop(b, l.at + 1)]
    BY <1>2, <2>1 DEF InsertStep, InsertNext
  <2> HIDE DEF c, b
  <2>5. InsertDoes(how, b, l.at + 1, c)
    <3>1. InsertDoes(how, Loop(b, l.at + 1).array, Loop(b, l.at + 1).at, Inserting(how)[Loop(b, l.at + 1)])
      BY <1>4, <2>4
    <3>2. Loop(b, l.at + 1).array = b /\ Loop(b, l.at + 1).at = l.at + 1
      BY <2>3, LoopType
    <3> QED
      BY <2>4, <3>1, <3>2
  <2>6. Reorders(how, l.array, c, TRUE)
    BY <2>1, <2>2, <2>5, ReordersAgain DEF SinkDoes, InsertDoes
  <2>7. ASSUME 0 <= l.at, InOrderUpto(how, l.array, l.at) PROVE InOrderUpto(how, c, Size(l.array))
    <3>1. InOrderBut(how, l.array, l.at, l.at + 1)
      <4>1. \A y \in DOMAIN l.array : y < l.at + 1 /\ y # l.at => y < l.at
        BY <2>1 DEF Positions
      <4> QED
        BY <2>7, <4>1 DEF InOrderBut, InOrderUpto
    <3>2. l.at + 1 \in Int /\ 0 <= l.at + 1
      BY <2>1, <2>7
    <3>3. InOrderUpto(how, b, l.at + 1)
      BY <2>2, <3>1, <3>2 DEF SinkDoes
    <3> QED
      BY <2>3, <2>5, <3>2, <3>3 DEF InsertDoes
  <2>8. InsertDoes(how, l.array, l.at, c)
    BY <2>3, <2>5, <2>6, <2>7 DEF InsertDoes
  <2> QED
    BY <2>8 DEF c
<1>5. R = Loops
  <2>1. R \subseteq Loops
    OBVIOUS
  <2> HIDE DEF R
  <2> QED
    BY <1>1, <1>3, <1>4, <2>1, LoopInduction
<1>6. Loop(a, i) \in R /\ Loop(a, i).array = a /\ Loop(a, i).at = i
  BY <1>5, LoopType
<1> QED
  BY <1>6

SortsTo(how, a, b, stably) ==
  /\ b \in Arrays /\ DOMAIN b = DOMAIN a
  /\ Reorders(how, a, b, stably) /\ InOrderUpto(how, b, Size(a))

LEMMA InsertionSorts ==
  ASSUME NEW how \in Orders, NEW a \in Arrays
  PROVE  SortsTo(how, a, InsertionSort(how, a), TRUE)
<1>1. DOMAIN a \subseteq Nat /\ 1 \in Positions
  BY ArrayFacts, SortingAssumption DEF Positions
<1>2. InOrderUpto(how, a, 1)
  BY <1>1 DEF InOrderUpto
<1>3. InsertDoes(how, a, 1, InsertionSort(how, a))
  BY <1>1, InsertWorks DEF InsertionSort
<1>4. 0 <= 1
  OBVIOUS
<1> QED
  BY <1>2, <1>3, <1>4 DEF InsertDoes, SortsTo
-----------------------------------------------------------------------------
(* Heap sort.                                                              *)

\* The children of a node are behind it.
Child(p, c) == c = 2 * p + 1 \/ c = 2 * p + 2

\* Below end, no child of a node from "from" on comes after its parent.
IsHeap(how, a, end, from) ==
  \A p, c \in DOMAIN a : Child(p, c) /\ from <= p /\ c < end => Ordered(how, a[c], a[p])

\* The same, but for node i, which may be out of order with its children only.
IsHeapBut(how, a, end, from, i) ==
  /\ \A p, c \in DOMAIN a : Child(p, c) /\ from <= p /\ c < end /\ p # i => Ordered(how, a[c], a[p])
  /\ \A p, c \in DOMAIN a : Child(p, i) /\ Child(i, c) /\ from <= p /\ c < end => Ordered(how, a[c], a[p])

LEMMA PreferredFacts ==
  ASSUME NEW how \in Orders, NEW a \in Arrays, NEW end, NEW best \in DOMAIN a, NEW child
  PROVE  /\ Preferred(how, a, end, best, child) \in {best, child} \cap DOMAIN a
         /\ Preferred(how, a, end, best, child) = child => child = best \/ child < end
         /\ Ordered(how, a[best], a[Preferred(how, a, end, best, child)])
         /\ child \in DOMAIN a /\ child < end => Ordered(how, a[child], a[Preferred(how, a, end, best, child)])
<1>1. a \in [DOMAIN a -> Entries]
  BY ArrayFacts
<1>2. \A e \in Entries : e.key \in Int /\ e.val \in Int
  BY SortingAssumption
<1>3. \A e \in Entries : Ordered(how, e, e)
  BY OrderFacts
<1>4. ASSUME NEW x \in Entries, NEW y \in Entries
      PROVE  IF Greater(how, x, y) # how.reverse THEN Ordered(how, y, x) ELSE Ordered(how, x, y)
  <2>1. Greater(how, x, y) => ~ Greater(how, y, x)
    BY <1>2 DEF Greater
  <2>2. Greater(how, x, y) \in BOOLEAN /\ how.reverse \in BOOLEAN
    BY DEF Greater, Orders
  <2>3. Ordered(how, y, x) <=> ~ (IF how.reverse THEN Greater(how, x, y) ELSE Greater(how, y, x))
    BY DEF Ordered, OutOfOrder
  <2>4. Ordered(how, x, y) <=> ~ (IF how.reverse THEN Greater(how, y, x) ELSE Greater(how, x, y))
    BY DEF Ordered, OutOfOrder
  <2>5. CASE how.reverse = TRUE
    <3>1. Greater(how, x, y) # how.reverse <=> ~ Greater(how, x, y)
      BY <2>2, <2>5, Zenon
    <3> QED
      BY ONLY <2>1, <2>3, <2>4, <2>5, <3>1, Zenon
  <2>6. CASE how.reverse = FALSE
    <3>1. Greater(how, x, y) # how.reverse <=> Greater(how, x, y)
      BY <2>2, <2>6, Zenon
    <3> QED
      BY ONLY <2>1, <2>3, <2>4, <2>6, <3>1, Zenon
  <2> QED
    BY <2>2, <2>5, <2>6
<1>5. CASE child \in DOMAIN a /\ child < end
  <2>1. a[child] \in Entries /\ a[best] \in Entries
    BY <1>1, <1>5
  <2>2. CASE Greater(how, a[child], a[best]) # how.reverse
    <3>1. Preferred(how, a, end, best, child) = child
      BY <1>5, <2>2 DEF Preferred
    <3>2. Ordered(how, a[best], a[child]) /\ Ordered(how, a[child], a[child])
      BY <1>3, <1>4, <2>1, <2>2
    <3> QED
      BY <1>5, <3>1, <3>2
  <2>3. CASE ~ (Greater(how, a[child], a[best]) # how.reverse)
    <3>1. Preferred(how, a, end, best, child) = best
      BY <1>5, <2>3 DEF Preferred
    <3>2. Ordered(how, a[child], a[best]) /\ Ordered(how, a[best], a[best])
      BY <1>3, <1>4, <2>1, <2>3
    <3> QED
      BY <1>5, <3>1, <3>2
  <2> QED
    BY <2>2, <2>3
<1>6. CASE ~ (child \in DOMAIN a /\ child < end)
  <2>1. Preferred(how, a, end, best, child) = best
    BY <1>6 DEF Preferred
  <2>2. Ordered(how, a[best], a[best])
    BY <1>1, <1>3
  <2> QED
    BY <1>6, <2>1, <2>2
<1> QED
  BY <1>5, <1>6

\* The largest of a node and its children.
LEMMA LargestFacts ==
  ASSUME NEW how \in Orders, NEW a \in Arrays, NEW end, NEW i \in DOMAIN a
  PROVE  /\ Largest(how, a, end, i) \in DOMAIN a
         /\ Largest(how, a, end, i) # i => Child(i, Largest(how, a, end, i)) /\ Largest(how, a, end, i) < end
         /\ Ordered(how, a[i], a[Largest(how, a, end, i)])
         /\ \A c \in DOMAIN a : Child(i, c) /\ c < end => Ordered(how, a[c], a[Largest(how, a, end, i)])
<1> DEFINE l == 2 * i + 1
           r == 2 * i + 2
           one == Preferred(how, a, end, i, l)
           two == Preferred(how, a, end, one, r)
<1>1. /\ one \in {i, l} \cap DOMAIN a /\ (one = l => l = i \/ l < end) /\ Ordered(how, a[i], a[one])
      /\ l \in DOMAIN a /\ l < end => Ordered(how, a[l], a[one])
  <2> HIDE DEF l
  <2> QED
    BY PreferredFacts
<1>2. /\ two \in {one, r} \cap DOMAIN a /\ (two = r => r = one \/ r < end) /\ Ordered(how, a[one], a[two])
      /\ r \in DOMAIN a /\ r < end => Ordered(how, a[r], a[two])
  <2> HIDE DEF r, one
  <2> QED
    BY <1>1, PreferredFacts
<1>3. Largest(how, a, end, i) = two
  BY DEF Largest
<1>4. \A c : Child(i, c) <=> c = l \/ c = r
  BY DEF Child
<1>5. i \in Nat /\ l # i /\ r # l /\ r # i
  BY ArrayFacts
<1> HIDE DEF l, r, one, two
<1>6. a \in [DOMAIN a -> Entries]
  BY ArrayFacts
<1>7. Ordered(how, a[i], a[two])
  BY <1>1, <1>2, <1>6, OrderFacts
<1>8. ASSUME NEW c \in DOMAIN a, Child(i, c), c < end PROVE Ordered(how, a[c], a[two])
  <2>1. CASE c = l
    <3>1. Ordered(how, a[l], a[one])
      BY <1>1, <1>8, <2>1
    <3> QED
      BY <1>1, <1>2, <1>6, <1>8, <2>1, <3>1, OrderFacts
  <2>2. CASE c = r
    BY <1>2, <1>8, <2>2
  <2> QED
    BY <1>4, <1>8, <2>1, <2>2
<1>9. two # i => Child(i, two) /\ two < end
  BY <1>1, <1>2, <1>4, <1>5
<1> QED
  BY <1>2, <1>3, <1>7, <1>8, <1>9

LEMMA SiftStepKeeps ==
  ASSUME NEW how \in Orders, NEW a \in Arrays, NEW end, NEW i \in DOMAIN a, NEW m \in DOMAIN a,
         m = Largest(how, a, end, i), m # i, NEW from \in Nat, from <= i, IsHeapBut(how, a, end, from, i)
  PROVE  IsHeapBut(how, SwapUnchecked(a, i, m), end, from, m)
<1> DEFINE b == SwapUnchecked(a, i, m)
<1>1. DOMAIN a \subseteq Nat /\ DOMAIN b = DOMAIN a
      /\ \A x \in DOMAIN a : b[x] = IF x = i THEN a[m] ELSE IF x = m THEN a[i] ELSE a[x]
  <2>1. DOMAIN a \subseteq Nat
    BY ArrayFacts
  <2>2. IsSwap(a, i, m, b)
    BY SwapIs
  <2> HIDE DEF b
  <2> QED
    BY <2>1, <2>2 DEF IsSwap
<1>2. Child(i, m) /\ m < end /\ Ordered(how, a[i], a[m])
      /\ \A c \in DOMAIN a : Child(i, c) /\ c < end => Ordered(how, a[c], a[m])
  BY LargestFacts
<1>3. \A p, c \in DOMAIN a : Child(p, c) => p < c
  BY <1>1 DEF Child
<1>4. \A p, q, c \in DOMAIN a : Child(p, c) /\ Child(q, c) => p = q
  BY <1>1 DEF Child
<1>5. from <= m
  BY <1>1, <1>2, <1>3
<1> HIDE DEF b
<1>6. ASSUME NEW p \in DOMAIN a, NEW c \in DOMAIN a, Child(p, c), from <= p, c < end, p # m
      PROVE  Ordered(how, b[c], b[p])
  <2>1. CASE p = i
    <3>1. b[p] = a[m] /\ c # i
      BY <1>1, <1>3, <1>6, <2>1
    <3>2. CASE c = m
      BY <1>1, <1>2, <1>6, <3>1, <3>2
    <3>3. CASE c # m
      <4>1. b[c] = a[c] /\ Ordered(how, a[c], a[m])
        BY <1>1, <1>2, <1>6, <2>1, <3>1, <3>3
      <4> QED
        BY <3>1, <4>1
    <3> QED
      BY <3>2, <3>3
  <2>2. CASE p # i
    <3>1. b[p] = a[p] /\ c # m
      BY <1>1, <1>2, <1>4, <1>6, <2>2
    <3>2. CASE c = i
      <4>1. b[c] = a[m]
        BY <1>1, <3>2
      <4>2. Ordered(how, a[m], a[p])
        BY <1>2, <1>6, <3>2 DEF IsHeapBut
      <4> QED
        BY <3>1, <4>1, <4>2
    <3>3. CASE c # i
      <4>1. b[c] = a[c]
        BY <1>1, <3>1, <3>3
      <4>2. Ordered(how, a[c], a[p])
        BY <1>6, <2>2 DEF IsHeapBut
      <4> QED
        BY <3>1, <4>1, <4>2
    <3> QED
      BY <3>2, <3>3
  <2> QED
    BY <2>1, <2>2
<1>7. ASSUME NEW p \in DOMAIN a, NEW c \in DOMAIN a, Child(p, m), Child(m, c), from <= p, c < end
      PROVE  Ordered(how, b[c], b[p])
  <2>1. p = i
    BY <1>2, <1>4, <1>7
  <2>2. m < c /\ i < m
    BY <1>2, <1>3, <1>7
  <2>3. c # i /\ c # m
    BY <1>1, <2>2
  <2>4. b[p] = a[m] /\ b[c] = a[c]
    BY <1>1, <2>1, <2>3
  <2>5. Ordered(how, a[c], a[m])
    BY <1>5, <1>7 DEF IsHeapBut
  <2> QED
    BY <2>4, <2>5
<1>8. IsHeapBut(how, b, end, from, m)
  BY <1>1, <1>6, <1>7 DEF IsHeapBut
<1> QED
  BY <1>8 DEF b

Sifts(how, end, l) == l.at \in DOMAIN l.array /\ Largest(how, l.array, end, l.at) # l.at
SiftStops(how, end) == {l \in Loops : ~ Sifts(how, end, l)}
SiftNext(how, end, l) ==
  Loop(SwapUnchecked(l.array, l.at, Largest(how, l.array, end, l.at)), Largest(how, l.array, end, l.at))
SiftStep(how, end) == [l \in Loops |-> IF Sifts(how, end, l) THEN SiftNext(how, end, l) ELSE l]
SiftLeft == [l \in Loops |-> MaxLength + 1 - l.at]

LEMMA SiftFacts ==
  ASSUME NEW how \in Orders, NEW end, NEW l \in Loops, Sifts(how, end, l)
  PROVE  /\ l.array \in Arrays /\ l.at \in DOMAIN l.array /\ Largest(how, l.array, end, l.at) \in DOMAIN l.array
         /\ Largest(how, l.array, end, l.at) \in Positions /\ l.at < Largest(how, l.array, end, l.at)
         /\ Largest(how, l.array, end, l.at) < end
         /\ SwapUnchecked(l.array, l.at, Largest(how, l.array, end, l.at)) \in Arrays
         /\ SiftNext(how, end, l) \in Loops
         /\ SiftNext(how, end, l).array = SwapUnchecked(l.array, l.at, Largest(how, l.array, end, l.at))
         /\ SiftNext(how, end, l).at = Largest(how, l.array, end, l.at)
<1> DEFINE a == l.array
           i == l.at
           m == Largest(how, a, end, i)
           b == SwapUnchecked(a, i, m)
<1>1. a \in Arrays /\ i \in DOMAIN a /\ m # i
  BY LoopFacts DEF Sifts
<1>2. DOMAIN a = 0 .. Size(a) - 1 /\ Size(a) \in 0..MaxLength
  BY <1>1, ArrayFacts
<1> HIDE DEF a, i
<1>3. m \in DOMAIN a /\ Child(i, m) /\ m < end
  BY <1>1, LargestFacts
<1> HIDE DEF m
<1>4. m \in Positions /\ i < m
  BY <1>1, <1>2, <1>3, SortingAssumption DEF Positions, Child
<1>5. b \in Arrays
  BY <1>1, <1>3, SwapFacts
<1>6. SiftNext(how, end, l) = Loop(b, m)
  BY DEF SiftNext, a, i, m
<1> HIDE DEF b
<1>7. Loop(b, m) \in Loops /\ Loop(b, m).array = b /\ Loop(b, m).at = m
  BY <1>4, <1>5, LoopType
<1> QED
  BY <1>1, <1>3, <1>4, <1>5, <1>6, <1>7 DEF a, i, m, b

LEMMA SiftingIs ==
  ASSUME NEW how \in Orders, NEW end
  PROVE  /\ Decreases(Loops, SiftStops(how, end), SiftStep(how, end), SiftLeft, MaxLength + 2)
         /\ Sifting(how, end) = [l \in Loops |-> IF Sifts(how, end, l) THEN Sifting(how, end)[SiftNext(how, end, l)]
                                                 ELSE l.array]
<1> DEFINE Is(f) == f = [l \in Loops |-> IF Sifts(how, end, l) THEN f[SiftNext(how, end, l)] ELSE l.array]
<1>1. \A l \in Loops : Sifts(how, end, l) => SiftNext(how, end, l) \in Loops /\ l.at < SiftNext(how, end, l).at
                                             /\ SiftNext(how, end, l).at \in Positions
  BY SiftFacts
<1>2. SiftStep(how, end) \in [Loops -> Loops]
  BY <1>1 DEF SiftStep
<1>3. MaxLength + 2 \in Nat /\ SiftLeft \in [Loops -> 0..(MaxLength + 2)]
  BY LoopFacts, SortingAssumption DEF Positions, SiftLeft
<1>4. \A l \in Loops \ SiftStops(how, end) : SiftLeft[SiftStep(how, end)[l]] < SiftLeft[l]
  BY <1>1, LoopFacts, SortingAssumption DEF Positions, SiftLeft, SiftStep, SiftStops
<1>5. Decreases(Loops, SiftStops(how, end), SiftStep(how, end), SiftLeft, MaxLength + 2)
  BY <1>2, <1>3, <1>4 DEF Decreases, SiftStops
<1>6. PICK f : f = [l \in Loops |-> IF l \in SiftStops(how, end) THEN l.array ELSE f[SiftStep(how, end)[l]]]
  BY <1>5, ArrayLoop
<1>7. Is(f)
  <2>1. \A l \in Loops : (IF l \in SiftStops(how, end) THEN l.array ELSE f[SiftStep(how, end)[l]])
                         = IF Sifts(how, end, l) THEN f[SiftNext(how, end, l)] ELSE l.array
    BY DEF SiftStops, SiftStep
  <2> QED
    BY <1>6, <2>1
<1>8. Sifting(how, end) = CHOOSE g : Is(g)
  BY DEF Sifting, SiftNext, Sifts
<1>9. Is(Sifting(how, end))
  BY <1>7, <1>8
<1> QED
  BY <1>5, <1>9

\* What sifting the element at i down does: the result is a heap if everything
\* but i was in order, and nothing from end on moves.
SiftDoes(how, end, a, i, b) ==
  /\ b \in Arrays /\ DOMAIN b = DOMAIN a /\ Reorders(how, a, b, FALSE)
  /\ \A from \in Nat : from <= i /\ IsHeapBut(how, a, end, from, i) => IsHeap(how, b, end, from)
  /\ i < end => /\ \A x \in DOMAIN a : end <= x => b[x] = a[x]
                /\ \A x \in DOMAIN a : x < end => \E y \in DOMAIN a : y < end /\ b[x] = a[y]

LEMMA SiftStop ==
  ASSUME NEW how \in Orders, NEW end \in Int, NEW a \in Arrays, NEW i \in Positions,
         ~ (i \in DOMAIN a /\ Largest(how, a, end, i) # i)
  PROVE  SiftDoes(how, end, a, i, a)
<1>1. Reorders(how, a, a, FALSE)
  BY ReordersItself
<1>2. ASSUME NEW from \in Nat, from <= i, IsHeapBut(how, a, end, from, i) PROVE IsHeap(how, a, end, from)
  <2>1. ASSUME NEW p \in DOMAIN a, NEW c \in DOMAIN a, Child(p, c), from <= p, c < end PROVE Ordered(how, a[c], a[p])
    <3>1. CASE p # i
      BY <1>2, <2>1, <3>1 DEF IsHeapBut
    <3>2. CASE p = i
      <4>1. Largest(how, a, end, i) = i
        BY <2>1, <3>2
      <4> QED
        BY <2>1, <3>2, <4>1, LargestFacts
    <3> QED
      BY <3>1, <3>2
  <2> QED
    BY <2>1 DEF IsHeap
<1> QED
  BY <1>1, <1>2 DEF SiftDoes

LEMMA SiftWorks ==
  ASSUME NEW how \in Orders, NEW end \in Int, NEW a \in Arrays, NEW i \in Positions
  PROVE  SiftDoes(how, end, a, i, Heapify(how, a, end, i))
<1> DEFINE R == {l \in Loops : SiftDoes(how, end, l.array, l.at, Sifting(how, end)[l])}
<1>1. Decreases(Loops, SiftStops(how, end), SiftStep(how, end), SiftLeft, MaxLength + 2)
  BY SiftingIs
<1>2. \A l \in Loops : Sifting(how, end)[l] = IF Sifts(how, end, l) THEN Sifting(how, end)[SiftNext(how, end, l)]
                                              ELSE l.array
  BY SiftingIs
<1>3. SiftStops(how, end) \subseteq R
  <2> SUFFICES ASSUME NEW l \in Loops, ~ Sifts(how, end, l) PROVE SiftDoes(how, end, l.array, l.at, l.array)
    BY <1>2 DEF SiftStops
  <2>1. l.array \in Arrays /\ l.at \in Positions
    BY LoopFacts
  <2> QED
    BY <2>1, SiftStop DEF Sifts
<1>4. ASSUME NEW l \in Loops \ SiftStops(how, end), SiftStep(how, end)[l] \in R PROVE l \in R
  <2> DEFINE m == Largest(how, l.array, end, l.at)
             b == SwapUnchecked(l.array, l.at, m)
             c == Sifting(how, end)[l]
  <2>1. Sifts(how, end, l) /\ m # l.at
    BY <1>4 DEF SiftStops, Sifts
  <2>2. /\ l.array \in Arrays /\ l.at \in DOMAIN l.array /\ m \in DOMAIN l.array
        /\ m \in Positions /\ l.at < m /\ m < end /\ b \in Arrays
        /\ SiftNext(how, end, l) \in Loops /\ SiftNext(how, end, l).array = b /\ SiftNext(how, end, l).at = m
    BY <2>1, SiftFacts
  <2>3. SiftStep(how, end)[l] = SiftNext(how, end, l) /\ c = Sifting(how, end)[SiftNext(how, end, l)]
    BY <1>2, <2>1 DEF SiftStep
  <2>4. DOMAIN b = DOMAIN l.array
        /\ \A x \in DOMAIN l.array : b[x] = IF x = l.at THEN l.array[m] ELSE IF x = m THEN l.array[l.at] ELSE l.array[x]
    <3>1. IsSwap(l.array, l.at, m, b)
      BY <2>2, SwapIs
    <3> HIDE DEF b, m
    <3> QED
      BY <3>1 DEF IsSwap
  <2>5. Reorders(how, l.array, b, FALSE)
    BY <2>2, SwapReorders
  <2>6. ASSUME NEW from \in Nat, from <= l.at, IsHeapBut(how, l.array, end, from, l.at)
        PROVE  IsHeapBut(how, b, end, from, m)
    BY <2>1, <2>2, <2>6, SiftStepKeeps
  <2>7. DOMAIN l.array \subseteq Nat
    BY <2>2, ArrayFacts
  <2> HIDE DEF c, b, m
  <2>8. SiftDoes(how, end, b, m, c)
    BY <1>4, <2>2, <2>3
  <2>9. Reorders(how, l.array, c, FALSE)
    BY <2>2, <2>5, <2>8, ReordersAgain DEF SiftDoes
  <2>10. ASSUME NEW from \in Nat, from <= l.at, IsHeapBut(how, l.array, end, from, l.at)
         PROVE  IsHeap(how, c, end, from)
    <3>1. from <= m
      BY <2>2, <2>7, <2>10
    <3> QED
      BY <2>6, <2>8, <2>10, <3>1 DEF SiftDoes
  <2>11. ASSUME NEW x \in DOMAIN l.array, end <= x PROVE c[x] = l.array[x]
    <3>1. x # l.at /\ x # m
      BY <2>2, <2>7, <2>11
    <3>2. c[x] = b[x] /\ b[x] = l.array[x]
      BY <2>2, <2>4, <2>8, <2>11, <3>1 DEF SiftDoes
    <3> QED
      BY <3>2
  <2>12. ASSUME NEW x \in DOMAIN l.array, x < end PROVE \E y \in DOMAIN l.array : y < end /\ c[x] = l.array[y]
    <3>1. PICK z \in DOMAIN l.array : z < end /\ c[x] = b[z]
      BY <2>2, <2>4, <2>8, <2>12 DEF SiftDoes
    <3>2. l.at < end
      BY <2>2, <2>7
    <3>3. \E y \in DOMAIN l.array : y < end /\ b[z] = l.array[y]
      BY <2>2, <2>4, <3>1, <3>2
    <3> QED
      BY <3>1, <3>3
  <2>13. SiftDoes(how, end, l.array, l.at, c)
    BY <2>4, <2>8, <2>9, <2>10, <2>11, <2>12 DEF SiftDoes
  <2> QED
    BY <2>13 DEF c
<1>5. R = Loops
  <2>1. R \subseteq Loops
    OBVIOUS
  <2> HIDE DEF R
  <2> QED
    BY <1>1, <1>3, <1>4, <2>1, LoopInduction
<1>6. Loop(a, i) \in R /\ Loop(a, i).array = a /\ Loop(a, i).at = i
  BY <1>5, LoopType
<1> QED
  BY <1>6 DEF Heapify

\* Nothing in a heap comes after its root: else the first that does would have
\* a parent before it that does.
LEMMA HeapRoot ==
  ASSUME NEW how \in Orders, NEW a \in Arrays, NEW end \in Int, IsHeap(how, a, end, 0), NEW x \in DOMAIN a, x < end
  PROVE  Ordered(how, a[x], a[0])
<1>1. DOMAIN a = 0 .. Size(a) - 1 /\ Size(a) \in Nat /\ a \in [DOMAIN a -> Entries]
  BY ArrayFacts, SortingAssumption
<1> DEFINE bad == {y \in DOMAIN a : y < end /\ ~ Ordered(how, a[y], a[0])}
<1>2. SUFFICES ASSUME bad # {} PROVE FALSE
  OBVIOUS
<1>3. bad \in SUBSET Nat
  BY <1>1
<1> HIDE DEF bad
<1>4. PICK c \in bad : \A y \in bad : c <= y
  BY <1>2, <1>3, LeastNumber
<1>5. c \in DOMAIN a /\ c < end /\ ~ Ordered(how, a[c], a[0])
  BY DEF bad
<1>6. c # 0
  BY <1>1, <1>5, OrderFacts
<1>7. PICK p \in DOMAIN a : Child(p, c) /\ p < c
  <2> DEFINE q == (c - 1) \div 2
  <2>1. c \in Nat /\ 0 < c /\ c < Size(a)
    BY <1>1, <1>5, <1>6
  <2>2. q \in Nat /\ q < c /\ (c = 2 * q + 1 \/ c = 2 * q + 2)
    BY <2>1
  <2>3. q \in DOMAIN a
    BY <1>1, <2>1, <2>2
  <2> QED
    BY <2>2, <2>3 DEF Child
<1>8. 0 <= p /\ p < end /\ 0 \in DOMAIN a
  BY <1>1, <1>5, <1>7
<1>9. Ordered(how, a[c], a[p])
  BY <1>5, <1>7, <1>8 DEF IsHeap
<1>10. p \notin bad
  BY <1>1, <1>4, <1>5, <1>7
<1>11. Ordered(how, a[p], a[0])
  BY <1>8, <1>10 DEF bad
<1> QED
  BY <1>1, <1>5, <1>8, <1>9, <1>11, OrderFacts
HeapStops == {l \in Loops : l.at < 0}
HeapNext(how, l) == Loop(Heapify(how, l.array, Size(l.array), l.at), l.at - 1)
HeapStep(how) == [l \in Loops |-> IF l.at < 0 THEN l ELSE HeapNext(how, l)]
HeapLeft == [l \in Loops |-> l.at + 1]

LEMMA HeapNextFacts ==
  ASSUME NEW how \in Orders, NEW l \in Loops
  PROVE  /\ SiftDoes(how, Size(l.array), l.array, l.at, Heapify(how, l.array, Size(l.array), l.at))
         /\ ~ (l.at < 0) => /\ HeapNext(how, l) \in Loops
                            /\ HeapNext(how, l).array = Heapify(how, l.array, Size(l.array), l.at)
                            /\ HeapNext(how, l).at = l.at - 1
<1>1. l.array \in Arrays /\ l.at \in Positions /\ Size(l.array) \in Int
  BY LoopFacts, SortingAssumption
<1> DEFINE b == Heapify(how, l.array, Size(l.array), l.at)
<1>2. SiftDoes(how, Size(l.array), l.array, l.at, b)
  BY <1>1, SiftWorks
<1>3. b \in Arrays
  BY <1>2 DEF SiftDoes
<1>4. ~ (l.at < 0) => l.at - 1 \in Positions
  BY <1>1, SortingAssumption DEF Positions
<1>5. HeapNext(how, l) = Loop(b, l.at - 1)
  BY DEF HeapNext
<1> HIDE DEF b
<1>6. ~ (l.at < 0) => Loop(b, l.at - 1) \in Loops /\ Loop(b, l.at - 1).array = b /\ Loop(b, l.at - 1).at = l.at - 1
  BY <1>3, <1>4, LoopType
<1> QED
  BY <1>2, <1>5, <1>6 DEF b

LEMMA HeapingIs ==
  ASSUME NEW how \in Orders
  PROVE  /\ Decreases(Loops, HeapStops, HeapStep(how), HeapLeft, MaxLength + 2)
         /\ Heaping(how) = [l \in Loops |-> IF l.at < 0 THEN l.array ELSE Heaping(how)[HeapNext(how, l)]]
<1> DEFINE Is(f) == f = [l \in Loops |-> IF l.at < 0 THEN l.array ELSE f[HeapNext(how, l)]]
<1>1. \A l \in Loops : ~ (l.at < 0) => HeapNext(how, l) \in Loops /\ HeapNext(how, l).at = l.at - 1
  BY HeapNextFacts
<1>2. HeapStep(how) \in [Loops -> Loops]
  BY <1>1 DEF HeapStep
<1>3. MaxLength + 2 \in Nat /\ HeapLeft \in [Loops -> 0..(MaxLength + 2)]
  BY LoopFacts, SortingAssumption DEF Positions, HeapLeft
<1>4. \A l \in Loops \ HeapStops : HeapLeft[HeapStep(how)[l]] < HeapLeft[l]
  BY <1>1, LoopFacts, SortingAssumption DEF Positions, HeapLeft, HeapStep, HeapStops
<1>5. Decreases(Loops, HeapStops, HeapStep(how), HeapLeft, MaxLength + 2)
  BY <1>2, <1>3, <1>4 DEF Decreases, HeapStops
<1>6. PICK f : f = [l \in Loops |-> IF l \in HeapStops THEN l.array ELSE f[HeapStep(how)[l]]]
  BY <1>5, ArrayLoop
<1>7. Is(f)
  <2>1. \A l \in Loops : (IF l \in HeapStops THEN l.array ELSE f[HeapStep(how)[l]])
                         = IF l.at < 0 THEN l.array ELSE f[HeapNext(how, l)]
    BY DEF HeapStops, HeapStep
  <2> QED
    BY <1>6, <2>1
<1>8. Heaping(how) = CHOOSE g : Is(g)
  BY DEF Heaping, HeapNext
<1>9. Is(Heaping(how))
  BY <1>7, <1>8
<1> QED
  BY <1>5, <1>9

HeapDoes(how, a, i, b) ==
  /\ b \in Arrays /\ DOMAIN b = DOMAIN a /\ Reorders(how, a, b, FALSE)
  /\ IsHeap(how, a, Size(a), i + 1) => IsHeap(how, b, Size(a), 0)

\* From the last parent to the root, every node is sifted down.
LEMMA HeapWorks ==
  ASSUME NEW how \in Orders, NEW a \in Arrays, NEW i \in Positions
  PROVE  HeapDoes(how, a, i, Heaping(how)[Loop(a, i)])
<1> DEFINE R == {l \in Loops : HeapDoes(how, l.array, l.at, Heaping(how)[l])}
<1>1. Decreases(Loops, HeapStops, HeapStep(how), HeapLeft, MaxLength + 2)
  BY HeapingIs
<1>2. \A l \in Loops : Heaping(how)[l] = IF l.at < 0 THEN l.array ELSE Heaping(how)[HeapNext(how, l)]
  BY HeapingIs
<1>3. HeapStops \subseteq R
  <2> SUFFICES ASSUME NEW l \in Loops, l.at < 0 PROVE HeapDoes(how, l.array, l.at, l.array)
    BY <1>2 DEF HeapStops
  <2>1. l.array \in Arrays /\ l.at + 1 = 0
    BY LoopFacts, SortingAssumption DEF Positions
  <2> QED
    BY <2>1, ReordersItself DEF HeapDoes
<1>4. ASSUME NEW l \in Loops \ HeapStops, HeapStep(how)[l] \in R PROVE l \in R
  <2> DEFINE b == Heapify(how, l.array, Size(l.array), l.at)
             c == Heaping(how)[l]
  <2>1. ~ (l.at < 0)
    BY <1>4 DEF HeapStops
  <2>2. /\ SiftDoes(how, Size(l.array), l.array, l.at, b)
        /\ HeapNext(how, l) \in Loops /\ HeapNext(how, l).array = b /\ HeapNext(how, l).at = l.at - 1
    BY <2>1, HeapNextFacts
  <2>3. HeapStep(how)[l] = HeapNext(how, l) /\ c = Heaping(how)[HeapNext(how, l)]
    BY <1>2, <2>1 DEF HeapStep
  <2>4. l.array \in Arrays /\ l.at \in Nat /\ DOMAIN l.array \subseteq Nat
    BY <2>1, LoopFacts, SortingAssumption DEF Positions
  <2> HIDE DEF b, c
  <2>5. b \in Arrays /\ DOMAIN b = DOMAIN l.array /\ Size(b) = Size(l.array)
    BY <2>2 DEF SiftDoes, Size
  <2>6. HeapDoes(how, b, l.at - 1, c)
    BY <1>4, <2>2, <2>3
  <2>7. Reorders(how, l.array, c, FALSE)
    BY <2>2, <2>4, <2>6, ReordersAgain DEF SiftDoes, HeapDoes
  <2>8. ASSUME IsHeap(how, l.array, Size(l.array), l.at + 1) PROVE IsHeap(how, c, Size(l.array), 0)
    <3>1. IsHeapBut(how, l.array, Size(l.array), l.at, l.at)
      <4>1. \A p \in DOMAIN l.array : l.at <= p /\ p # l.at => l.at + 1 <= p
        BY <2>4
      <4>2. \A p \in DOMAIN l.array : ~ (Child(p, l.at) /\ l.at <= p)
        BY <2>4 DEF Child
      <4> QED
        BY <2>8, <4>1, <4>2 DEF IsHeap, IsHeapBut
    <3>2. l.at <= l.at /\ (l.at - 1) + 1 = l.at
      BY <2>4
    <3>3. IsHeap(how, b, Size(l.array), l.at)
      BY <2>2, <2>4, <3>1, <3>2 DEF SiftDoes
    <3> QED
      BY <2>5, <2>6, <3>2, <3>3 DEF HeapDoes
  <2>9. HeapDoes(how, l.array, l.at, c)
    BY <2>5, <2>6, <2>7, <2>8 DEF HeapDoes
  <2> QED
    BY <2>9 DEF c
<1>5. R = Loops
  <2>1. R \subseteq Loops
    OBVIOUS
  <2> HIDE DEF R
  <2> QED
    BY <1>1, <1>3, <1>4, <2>1, LoopInduction
<1>6. Loop(a, i) \in R /\ Loop(a, i).array = a /\ Loop(a, i).at = i
  BY <1>5, LoopType
<1> QED
  BY <1>6
Unheaps(l) == l.at \in DOMAIN l.array \ {0}
UnheapStops == {l \in Loops : ~ Unheaps(l)}
UnheapNext(how, l) == Loop(Heapify(how, SwapUnchecked(l.array, 0, l.at), l.at, 0), l.at - 1)
UnheapStep(how) == [l \in Loops |-> IF Unheaps(l) THEN UnheapNext(how, l) ELSE l]
UnheapLeft == [l \in Loops |-> l.at + 1]

LEMMA UnheapNextFacts ==
  ASSUME NEW how \in Orders, NEW l \in Loops, Unheaps(l)
  PROVE  /\ 0 \in DOMAIN l.array /\ l.at \in DOMAIN l.array /\ 0 < l.at
         /\ SwapUnchecked(l.array, 0, l.at) \in Arrays
         /\ SiftDoes(how, l.at, SwapUnchecked(l.array, 0, l.at), 0, Heapify(how, SwapUnchecked(l.array, 0, l.at), l.at, 0))
         /\ UnheapNext(how, l) \in Loops
         /\ UnheapNext(how, l).array = Heapify(how, SwapUnchecked(l.array, 0, l.at), l.at, 0)
         /\ UnheapNext(how, l).at = l.at - 1
<1>1. l.array \in Arrays /\ l.at \in Positions /\ DOMAIN l.array = 0 .. Size(l.array) - 1 /\ Size(l.array) \in 0..MaxLength
  BY LoopFacts
<1>2. 0 \in DOMAIN l.array /\ l.at \in DOMAIN l.array /\ 0 < l.at /\ l.at \in Int /\ l.at - 1 \in Positions /\ 0 \in Positions
  BY <1>1, SortingAssumption DEF Unheaps, Positions
<1> DEFINE b == SwapUnchecked(l.array, 0, l.at)
           c == Heapify(how, b, l.at, 0)
<1>3. b \in Arrays
  BY <1>1, <1>2, SwapFacts
<1>4. SiftDoes(how, l.at, b, 0, c)
  <2> HIDE DEF b
  <2> QED
    BY <1>2, <1>3, SiftWorks
<1>5. UnheapNext(how, l) = Loop(c, l.at - 1)
  BY DEF UnheapNext
<1> HIDE DEF c
<1>6. Loop(c, l.at - 1) \in Loops /\ Loop(c, l.at - 1).array = c /\ Loop(c, l.at - 1).at = l.at - 1
  <2>1. c \in Arrays
    BY <1>4 DEF SiftDoes
  <2> QED
    BY <1>2, <2>1, LoopType
<1> QED
  BY <1>2, <1>3, <1>4, <1>5, <1>6 DEF c

LEMMA UnheapingIs ==
  ASSUME NEW how \in Orders
  PROVE  /\ Decreases(Loops, UnheapStops, UnheapStep(how), UnheapLeft, MaxLength + 2)
         /\ Unheaping(how) = [l \in Loops |-> IF Unheaps(l) THEN Unheaping(how)[UnheapNext(how, l)] ELSE l.array]
<1> DEFINE Is(f) == f = [l \in Loops |-> IF Unheaps(l) THEN f[UnheapNext(how, l)] ELSE l.array]
<1>1. \A l \in Loops : Unheaps(l) => UnheapNext(how, l) \in Loops /\ UnheapNext(how, l).at = l.at - 1
  BY UnheapNextFacts
<1>2. UnheapStep(how) \in [Loops -> Loops]
  BY <1>1 DEF UnheapStep
<1>3. MaxLength + 2 \in Nat /\ UnheapLeft \in [Loops -> 0..(MaxLength + 2)]
  BY LoopFacts, SortingAssumption DEF Positions, UnheapLeft
<1>4. \A l \in Loops \ UnheapStops : UnheapLeft[UnheapStep(how)[l]] < UnheapLeft[l]
  BY <1>1, LoopFacts, SortingAssumption DEF Positions, UnheapLeft, UnheapStep, UnheapStops
<1>5. Decreases(Loops, UnheapStops, UnheapStep(how), UnheapLeft, MaxLength + 2)
  BY <1>2, <1>3, <1>4 DEF Decreases, UnheapStops
<1>6. PICK f : f = [l \in Loops |-> IF l \in UnheapStops THEN l.array ELSE f[UnheapStep(how)[l]]]
  BY <1>5, ArrayLoop
<1>7. Is(f)
  <2>1. \A l \in Loops : (IF l \in UnheapStops THEN l.array ELSE f[UnheapStep(how)[l]])
                         = IF Unheaps(l) THEN f[UnheapNext(how, l)] ELSE l.array
    BY DEF UnheapStops, UnheapStep
  <2> QED
    BY <1>6, <2>1
<1>8. Unheaping(how) = CHOOSE g : Is(g)
  BY DEF Unheaping, UnheapNext, Unheaps
<1>9. Is(Unheaping(how))
  BY <1>7, <1>8
<1> QED
  BY <1>5, <1>9

\* The elements up to i are a heap, and those behind it in their final places.
Unheaped(how, a, i) ==
  /\ IsHeap(how, a, i + 1, 0)
  /\ \A x, y \in DOMAIN a : x < y /\ i < y => Ordered(how, a[x], a[y])

\* The root goes to i, and what was at i is sifted down from the root.
LEMMA UnheapStepKeeps ==
  ASSUME NEW how \in Orders, NEW a \in Arrays, 0 \in DOMAIN a, NEW i \in DOMAIN a, 0 < i, NEW b, NEW c,
         IsSwap(a, 0, i, b), SiftDoes(how, i, b, 0, c), Unheaped(how, a, i)
  PROVE  Unheaped(how, c, i - 1)
<1>1. DOMAIN a \subseteq Nat /\ a \in [DOMAIN a -> Entries]
  BY ArrayFacts
<1>2. DOMAIN b = DOMAIN a /\ DOMAIN c = DOMAIN a
  BY DEF IsSwap, SiftDoes
<1>3. b[i] = a[0] /\ b[0] = a[i] /\ \A x \in DOMAIN a : x # 0 /\ x # i => b[x] = a[x]
  BY <1>1 DEF IsSwap
<1>4. IsHeapBut(how, b, i, 0, 0)
  <2>1. ASSUME NEW p \in DOMAIN a, NEW x \in DOMAIN a, Child(p, x), x < i, p # 0 PROVE Ordered(how, b[x], b[p])
    <3>1. p < x
      BY <1>1, <2>1 DEF Child
    <3>2. x # 0 /\ x # i /\ p # i /\ x < i + 1 /\ 0 <= p
      BY <1>1, <2>1, <3>1
    <3>3. b[x] = a[x] /\ b[p] = a[p]
      BY <1>3, <2>1, <3>2
    <3>4. Ordered(how, a[x], a[p])
      BY <2>1, <3>2 DEF Unheaped, IsHeap
    <3> QED
      BY <3>3, <3>4
  <2>2. \A p \in DOMAIN a : ~ Child(p, 0)
    BY <1>1 DEF Child
  <2> QED
    BY <1>2, <2>1, <2>2 DEF IsHeapBut
<1>5. IsHeap(how, c, (i - 1) + 1, 0)
  <2>1. IsHeap(how, c, i, 0)
    <3>1. 0 \in Nat /\ 0 <= 0
      OBVIOUS
    <3> QED
      BY <1>4, <3>1 DEF SiftDoes
  <2>2. (i - 1) + 1 = i
    BY <1>1
  <2> QED
    BY <2>1, <2>2
<1>6. \A x \in DOMAIN a : x <= i => Ordered(how, a[x], a[0])
  <2>1. ASSUME NEW x \in DOMAIN a, x <= i PROVE Ordered(how, a[x], a[0])
    <3>1. i + 1 \in Int /\ x < i + 1 /\ IsHeap(how, a, i + 1, 0)
      BY <1>1, <2>1 DEF Unheaped
    <3> QED
      BY <3>1, HeapRoot
  <2> QED
    BY <2>1
<1>7. ASSUME NEW x \in DOMAIN a, x < i PROVE \E z \in DOMAIN a : z <= i /\ c[x] = a[z]
  <2>1. PICK y \in DOMAIN a : y < i /\ c[x] = b[y]
    BY <1>2, <1>7 DEF SiftDoes
  <2>2. CASE y = 0
    <3>1. i <= i
      BY <1>1
    <3> QED
      BY <1>3, <2>1, <2>2, <3>1
  <2>3. CASE y # 0
    <3>1. y # i /\ y <= i
      BY <1>1, <2>1
    <3> QED
      BY <1>3, <2>1, <2>3, <3>1
  <2> QED
    BY <2>2, <2>3
<1>8. \A x \in DOMAIN a : i <= x => c[x] = b[x]
  BY <1>2 DEF SiftDoes
<1>9. ASSUME NEW x \in DOMAIN a, NEW y \in DOMAIN a, x < y, i - 1 < y PROVE Ordered(how, c[x], c[y])
  <2>1. CASE y = i
    <3>1. PICK z \in DOMAIN a : z <= i /\ c[x] = a[z]
      BY <1>7, <1>9, <2>1
    <3>2. c[i] = a[0]
      BY <1>1, <1>3, <1>8
    <3> QED
      BY <1>6, <2>1, <3>1, <3>2
  <2>2. CASE y # i
    <3>1. i < y /\ i <= y /\ y # 0
      BY <1>1, <1>9, <2>2
    <3>2. c[y] = a[y]
      BY <1>3, <1>8, <2>2, <3>1
    <3>3. PICK z \in DOMAIN a : z < y /\ c[x] = a[z]
      <4>1. CASE x < i
        <5>1. PICK z \in DOMAIN a : z <= i /\ c[x] = a[z]
          BY <1>7, <4>1
        <5>2. z < y
          BY <1>1, <3>1, <5>1
        <5> QED
          BY <5>1, <5>2
      <4>2. CASE x = i
        <5>1. c[x] = a[0] /\ 0 < y
          BY <1>1, <1>3, <1>8, <3>1, <4>2
        <5> QED
          BY <5>1
      <4>3. CASE i < x
        <5>1. x # 0 /\ x # i /\ i <= x
          BY <1>1, <4>3
        <5>2. c[x] = a[x]
          BY <1>3, <1>8, <5>1
        <5> QED
          BY <1>9, <5>2
      <4>4. x < i \/ x = i \/ i < x
        BY <1>1
      <4> QED
        BY <4>1, <4>2, <4>3, <4>4
    <3>4. Ordered(how, a[z], a[y])
      BY <3>1, <3>3 DEF Unheaped
    <3> QED
      BY <3>2, <3>3, <3>4
  <2> QED
    BY <2>1, <2>2
<1> QED
  BY <1>2, <1>5, <1>9 DEF Unheaped
UnheapDoes(how, a, i, b) ==
  /\ b \in Arrays /\ DOMAIN b = DOMAIN a /\ Reorders(how, a, b, FALSE)
  /\ i < Size(a) /\ Unheaped(how, a, i) => InOrderUpto(how, b, Size(a))

LEMMA UnheapWorks ==
  ASSUME NEW how \in Orders, NEW a \in Arrays, NEW i \in Positions
  PROVE  UnheapDoes(how, a, i, Unheaping(how)[Loop(a, i)])
<1> DEFINE R == {l \in Loops : UnheapDoes(how, l.array, l.at, Unheaping(how)[l])}
<1>1. Decreases(Loops, UnheapStops, UnheapStep(how), UnheapLeft, MaxLength + 2)
  BY UnheapingIs
<1>2. \A l \in Loops : Unheaping(how)[l] = IF Unheaps(l) THEN Unheaping(how)[UnheapNext(how, l)] ELSE l.array
  BY UnheapingIs
<1>3. UnheapStops \subseteq R
  <2> SUFFICES ASSUME NEW l \in Loops, ~ Unheaps(l) PROVE UnheapDoes(how, l.array, l.at, l.array)
    BY <1>2 DEF UnheapStops
  <2>1. l.array \in Arrays /\ l.at \in Int /\ DOMAIN l.array = 0 .. Size(l.array) - 1 /\ Size(l.array) \in Nat
    BY LoopFacts, SortingAssumption DEF Positions
  <2>2. ASSUME l.at < Size(l.array), Unheaped(how, l.array, l.at) PROVE InOrderUpto(how, l.array, Size(l.array))
    <3>1. l.at <= 0
      BY <2>1, <2>2 DEF Unheaps
    <3>2. \A x, y \in DOMAIN l.array : x < y => l.at < y
      BY <2>1, <3>1
    <3> QED
      BY <2>2, <3>2 DEF Unheaped, InOrderUpto
  <2> QED
    BY <2>1, <2>2, ReordersItself DEF UnheapDoes
<1>4. ASSUME NEW l \in Loops \ UnheapStops, UnheapStep(how)[l] \in R PROVE l \in R
  <2> DEFINE b == SwapUnchecked(l.array, 0, l.at)
             c == Heapify(how, b, l.at, 0)
             d == Unheaping(how)[l]
  <2>1. Unheaps(l)
    BY <1>4 DEF UnheapStops
  <2>2. /\ 0 \in DOMAIN l.array /\ l.at \in DOMAIN l.array /\ 0 < l.at
        /\ b \in Arrays /\ SiftDoes(how, l.at, b, 0, c)
        /\ UnheapNext(how, l) \in Loops /\ UnheapNext(how, l).array = c /\ UnheapNext(how, l).at = l.at - 1
    BY <2>1, UnheapNextFacts
  <2>3. UnheapStep(how)[l] = UnheapNext(how, l) /\ d = Unheaping(how)[UnheapNext(how, l)]
    BY <1>2, <2>1 DEF UnheapStep
  <2>4. l.array \in Arrays /\ DOMAIN l.array = 0 .. Size(l.array) - 1 /\ Size(l.array) \in Nat
    BY LoopFacts, SortingAssumption
  <2>5. IsSwap(l.array, 0, l.at, b)
    BY <2>2, <2>4, SwapIs
  <2>6. Reorders(how, l.array, b, FALSE)
    BY <2>2, <2>4, SwapReorders
  <2> HIDE DEF b, c, d
  <2>7. c \in Arrays /\ DOMAIN b = DOMAIN l.array /\ DOMAIN c = DOMAIN l.array /\ Size(c) = Size(l.array)
    BY <2>2, <2>5 DEF SiftDoes, Size, IsSwap
  <2>8. UnheapDoes(how, c, l.at - 1, d)
    BY <1>4, <2>2, <2>3
  <2>9. Reorders(how, l.array, d, FALSE)
    <3>1. Reorders(how, l.array, c, FALSE)
      BY <2>2, <2>4, <2>6, ReordersAgain DEF SiftDoes
    <3> QED
      BY <2>4, <2>8, <3>1, ReordersAgain DEF UnheapDoes
  <2>10. ASSUME Unheaped(how, l.array, l.at) PROVE InOrderUpto(how, d, Size(l.array))
    <3>1. Unheaped(how, c, l.at - 1)
      BY <2>2, <2>4, <2>5, <2>10, UnheapStepKeeps
    <3>2. l.at - 1 < Size(c)
      BY <2>2, <2>4, <2>7
    <3> QED
      BY <2>7, <2>8, <3>1, <3>2 DEF UnheapDoes
  <2>11. UnheapDoes(how, l.array, l.at, d)
    BY <2>7, <2>8, <2>9, <2>10 DEF UnheapDoes
  <2> QED
    BY <2>11 DEF d
<1>5. R = Loops
  <2>1. R \subseteq Loops
    OBVIOUS
  <2> HIDE DEF R
  <2> QED
    BY <1>1, <1>3, <1>4, <2>1, LoopInduction
<1>6. Loop(a, i) \in R /\ Loop(a, i).array = a /\ Loop(a, i).at = i
  BY <1>5, LoopType
<1> QED
  BY <1>6

LEMMA HeapSorts ==
  ASSUME NEW how \in Orders, NEW a \in Arrays
  PROVE  SortsTo(how, a, HeapSort(how, a), FALSE)
<1> DEFINE n == Size(a)
           i == n \div 2 - 1
           b == Heaping(how)[Loop(a, i)]
           c == Unheaping(how)[Loop(b, n - 1)]
<1>1. n \in 0..MaxLength /\ DOMAIN a = 0 .. n - 1
  BY ArrayFacts
<1> HIDE DEF n
<1>2. i \in Positions /\ n - 1 \in Positions /\ i \in Int
  BY <1>1, SortingAssumption DEF Positions
<1>3. IsHeap(how, a, n, i + 1)
  <2>1. ASSUME NEW p \in DOMAIN a, NEW x \in DOMAIN a, Child(p, x), i + 1 <= p PROVE FALSE
    <3>1. 2 * p + 1 <= x /\ x <= n - 1 /\ n \div 2 <= p
      BY <1>1, <2>1 DEF Child
    <3>2. n <= 2 * (n \div 2) + 1 /\ n \div 2 \in Int
      BY <1>1
    <3> QED
      BY <1>1, <2>1, <3>1, <3>2
  <2> QED
    BY <2>1 DEF IsHeap
<1> HIDE DEF i
<1>4. HeapDoes(how, a, i, b)
  BY <1>2, HeapWorks
<1> HIDE DEF b
<1>5. b \in Arrays /\ DOMAIN b = DOMAIN a /\ Size(b) = n /\ IsHeap(how, b, n, 0)
  BY <1>3, <1>4 DEF HeapDoes, Size, n
<1>6. UnheapDoes(how, b, n - 1, c)
  BY <1>2, <1>5, UnheapWorks
<1> HIDE DEF c
<1>7. Unheaped(how, b, n - 1)
  <2>1. (n - 1) + 1 = n /\ \A y \in DOMAIN b : ~ (n - 1 < y)
    BY <1>1, <1>5
  <2> QED
    BY <1>5, <2>1 DEF Unheaped
<1>8. n - 1 < n
  BY <1>1
<1>9. InOrderUpto(how, c, n)
  BY <1>5, <1>6, <1>7, <1>8 DEF UnheapDoes
<1>10. Reorders(how, a, c, FALSE)
  BY <1>4, <1>6, ReordersAgain DEF HeapDoes, UnheapDoes
<1>11. c = HeapSort(how, a)
  BY DEF HeapSort, b, c, i, n
<1> QED
  BY <1>5, <1>6, <1>9, <1>10, <1>11 DEF SortsTo, UnheapDoes, n

\* ArrayLike.sort leaves the elements it is given, in order; with a key, those
\* that are alike keep the order they had.
THEOREM SortCorrect ==
  ASSUME NEW how \in Orders, NEW a \in Arrays
  PROVE  SortsTo(how, a, Sort(how, a), how.keyed)
<1>1. CASE how.keyed
  <2>1. Sort(how, a) = InsertionSort(how, a) /\ how.keyed = TRUE
    BY <1>1 DEF Sort, Orders
  <2> QED
    BY <2>1, InsertionSorts
<1>2. CASE ~ how.keyed
  <2>1. how.keyed = FALSE
    BY <1>2 DEF Orders
  <2>2. SortsTo(how, a, InsertionSort(how, a), FALSE)
    <3>1. SortsTo(how, a, InsertionSort(how, a), TRUE)
      BY InsertionSorts
    <3> QED
      BY <3>1 DEF SortsTo, Reorders, ByPermutation
  <2>3. SortsTo(how, a, HeapSort(how, a), FALSE)
    BY HeapSorts
  <2>4. Sort(how, a) = InsertionSort(how, a) \/ Sort(how, a) = HeapSort(how, a)
    BY DEF Sort
  <2> QED
    BY <2>1, <2>2, <2>3, <2>4
<1> QED
  BY <1>1, <1>2
-----------------------------------------------------------------------------
(* Binary search.                                                          *)

Mid(w) == (w.left + w.right) \div 2
Found(a, k, w) == a[Mid(w)].key = k
SearchStops(a, k) == {w \in Windows : w.left > w.right \/ Found(a, k, w)}
SearchOut(a, k) == [w \in Windows |-> IF w.left > w.right THEN FALSE ELSE Found(a, k, w)]
SearchNext(a, k, w) == IF a[Mid(w)].key < k THEN Window(Mid(w) + 1, w.right) ELSE Window(w.left, Mid(w) - 1)
SearchStep(a, k) == [w \in Windows |-> IF w.left > w.right THEN w ELSE SearchNext(a, k, w)]
SearchLeft == [w \in Windows |-> w.right - w.left + MaxLength + 2]

LEMMA WindowType ==
  ASSUME NEW l \in 0 .. MaxLength + 1, NEW r \in -1 .. MaxLength
  PROVE  Window(l, r) \in Windows /\ Window(l, r).left = l /\ Window(l, r).right = r
BY DEF Windows, Window

LEMMA MidFacts ==
  ASSUME NEW w \in Windows
  PROVE  /\ w.left \in 0 .. MaxLength + 1 /\ w.right \in -1 .. MaxLength /\ w = Window(w.left, w.right)
         /\ w.left <= w.right => /\ Mid(w) \in w.left .. w.right
                                 /\ Window(Mid(w) + 1, w.right) \in Windows /\ Window(w.left, Mid(w) - 1) \in Windows
<1>1. w.left \in 0 .. MaxLength + 1 /\ w.right \in -1 .. MaxLength /\ w = Window(w.left, w.right)
  BY DEF Windows, Window
<1>2. ASSUME w.left <= w.right PROVE Mid(w) \in w.left .. w.right
  BY <1>1, <1>2, SortingAssumption DEF Mid
<1>3. ASSUME w.left <= w.right
      PROVE Window(Mid(w) + 1, w.right) \in Windows /\ Window(w.left, Mid(w) - 1) \in Windows
  <2>1. Mid(w) + 1 \in 0 .. MaxLength + 1 /\ Mid(w) - 1 \in -1 .. MaxLength
    BY <1>1, <1>2, <1>3, SortingAssumption
  <2> QED
    BY <1>1, <2>1, WindowType
<1> QED
  BY <1>1, <1>2, <1>3

LEMMA SearchStepFacts ==
  ASSUME NEW a, NEW k, NEW w \in Windows, w.left <= w.right
  PROVE  /\ SearchNext(a, k, w) \in Windows
         /\ a[Mid(w)].key < k => SearchNext(a, k, w).left = Mid(w) + 1 /\ SearchNext(a, k, w).right = w.right
         /\ ~ (a[Mid(w)].key < k) => SearchNext(a, k, w).left = w.left /\ SearchNext(a, k, w).right = Mid(w) - 1
BY MidFacts DEF SearchNext, Window

LEMMA SearchingIs ==
  ASSUME NEW a, NEW k
  PROVE  /\ Decreases(Windows, SearchStops(a, k), SearchStep(a, k), SearchLeft, MaxLength + MaxLength + 2)
         /\ \A w \in Windows : Searching(a, k)[w] = IF w \in SearchStops(a, k) THEN SearchOut(a, k)[w]
                                                    ELSE Searching(a, k)[SearchStep(a, k)[w]]
<1> DEFINE Body(f, w) == IF w.left > w.right THEN FALSE
                         ELSE IF a[Mid(w)].key = k THEN TRUE
                         ELSE IF a[Mid(w)].key < k THEN f[Window(Mid(w) + 1, w.right)]
                         ELSE f[Window(w.left, Mid(w) - 1)]
           Is(f) == f = [w \in Windows |-> Body(f, w)]
<1>1. \A w \in Windows : w.left <= w.right \/ w.left > w.right
  BY MidFacts, SortingAssumption
<1>2. SearchStep(a, k) \in [Windows -> Windows]
  BY <1>1, SearchStepFacts DEF SearchStep
<1>3. MaxLength + MaxLength + 2 \in Nat /\ SearchLeft \in [Windows -> 0..(MaxLength + MaxLength + 2)]
  BY MidFacts, SortingAssumption DEF SearchLeft
<1>4. ASSUME NEW w \in Windows \ SearchStops(a, k) PROVE SearchLeft[SearchStep(a, k)[w]] < SearchLeft[w]
  <2> DEFINE v == SearchNext(a, k, w)
  <2>1. w \in Windows /\ w.left <= w.right
    BY <1>1 DEF SearchStops
  <2>2. ~ (w.left > w.right)
    BY DEF SearchStops
  <2>3. SearchStep(a, k)[w] = v /\ v \in Windows
    BY <2>1, <2>2, SearchStepFacts DEF SearchStep
  <2>4. (v.left = Mid(w) + 1 /\ v.right = w.right) \/ (v.left = w.left /\ v.right = Mid(w) - 1)
    BY <2>1, SearchStepFacts
  <2>5. Mid(w) \in w.left .. w.right /\ w.left \in 0 .. MaxLength + 1 /\ w.right \in -1 .. MaxLength
    BY <2>1, MidFacts
  <2> HIDE DEF v
  <2>6. v.right - v.left + MaxLength + 2 < w.right - w.left + MaxLength + 2
    BY <2>4, <2>5, SortingAssumption
  <2> QED
    BY <2>1, <2>3, <2>6 DEF SearchLeft
<1>5. Decreases(Windows, SearchStops(a, k), SearchStep(a, k), SearchLeft, MaxLength + MaxLength + 2)
  BY <1>2, <1>3, <1>4 DEF Decreases, SearchStops
<1>6. SearchOut(a, k) \in [Windows -> BOOLEAN]
  BY DEF SearchOut, Found
<1>7. PICK f \in [Windows -> BOOLEAN] : IsLoop(f, Windows, SearchStops(a, k), SearchOut(a, k), SearchStep(a, k))
  BY <1>5, <1>6, LoopExists
<1>8. ASSUME NEW g
      PROVE  \A w \in Windows : (IF w \in SearchStops(a, k) THEN SearchOut(a, k)[w] ELSE g[SearchStep(a, k)[w]]) = Body(g, w)
  BY DEF SearchStops, SearchOut, SearchStep, SearchNext, Found
<1>9. Is(f)
  BY <1>7, <1>8 DEF IsLoop
<1>10. Searching(a, k) = CHOOSE g : Is(g)
  BY DEF Searching, Mid
<1>11. Is(Searching(a, k))
  BY <1>9, <1>10
<1>12. \A w \in Windows : Searching(a, k)[w] = Body(Searching(a, k), w)
  BY <1>11
<1>13. \A w \in Windows : (IF w \in SearchStops(a, k) THEN SearchOut(a, k)[w] ELSE Searching(a, k)[SearchStep(a, k)[w]])
                          = Body(Searching(a, k), w)
  BY <1>8
<1> HIDE DEF Body
<1> QED
  BY <1>5, <1>12, <1>13

KeysAscend(a) == \A x, y \in DOMAIN a : x < y => a[x].key <= a[y].key
SearchDoes(a, k, w, r) ==
  w.right < Size(a) => /\ r \in BOOLEAN
                       /\ r <=> \E x \in DOMAIN a : w.left <= x /\ x <= w.right /\ a[x].key = k

\* In an array sorted by key, the search finds the keys there are, and no others.
THEOREM SearchCorrect ==
  ASSUME NEW a \in Arrays, KeysAscend(a), NEW k
  PROVE  Search(a, k) = \E x \in DOMAIN a : a[x].key = k
<1> DEFINE R == {w \in Windows : SearchDoes(a, k, w, Searching(a, k)[w])}
<1>1. Decreases(Windows, SearchStops(a, k), SearchStep(a, k), SearchLeft, MaxLength + MaxLength + 2)
  BY SearchingIs
<1>2. \A w \in Windows : Searching(a, k)[w] = IF w \in SearchStops(a, k) THEN SearchOut(a, k)[w]
                                              ELSE Searching(a, k)[SearchStep(a, k)[w]]
  BY SearchingIs
<1>3. DOMAIN a = 0 .. Size(a) - 1 /\ Size(a) \in 0..MaxLength /\ a \in [DOMAIN a -> Entries]
  BY ArrayFacts
<1>4. \A x \in DOMAIN a : a[x].key \in Int /\ x \in Int
  BY <1>3, SortingAssumption
<1>5. \A w \in Windows : w.left <= w.right \/ w.left > w.right
  BY MidFacts, SortingAssumption
<1>6. ASSUME NEW w \in Windows, w.left <= w.right, w.right < Size(a) PROVE Mid(w) \in DOMAIN a
  BY <1>3, <1>6, MidFacts, SortingAssumption
<1>7. SearchStops(a, k) \subseteq R
  <2> SUFFICES ASSUME NEW w \in SearchStops(a, k), w.right < Size(a)
               PROVE  /\ SearchOut(a, k)[w] \in BOOLEAN
                      /\ SearchOut(a, k)[w] <=> \E x \in DOMAIN a : w.left <= x /\ x <= w.right /\ a[x].key = k
    BY <1>2 DEF SearchDoes, SearchStops
  <2>1. w \in Windows /\ (w.left > w.right \/ Found(a, k, w))
    BY DEF SearchStops
  <2>2. w.left \in Int /\ w.right \in Int
    BY <2>1, MidFacts, SortingAssumption
  <2>3. CASE w.left > w.right
    <3>1. ~ \E x \in DOMAIN a : w.left <= x /\ x <= w.right /\ a[x].key = k
      BY <1>4, <2>2, <2>3
    <3>2. SearchOut(a, k)[w] = FALSE
      BY <2>1, <2>3 DEF SearchOut
    <3> QED
      BY <3>1, <3>2
  <2>4. CASE ~ (w.left > w.right)
    <3>1. w.left <= w.right /\ Found(a, k, w)
      BY <1>5, <2>1, <2>4
    <3>2. SearchOut(a, k)[w] = TRUE
      BY <2>1, <2>4, <3>1 DEF SearchOut, Found
    <3>3. Mid(w) \in DOMAIN a /\ Mid(w) \in w.left .. w.right
      BY <1>6, <2>1, <3>1, MidFacts
    <3>4. w.left <= Mid(w) /\ Mid(w) <= w.right
      BY <2>2, <3>3
    <3> QED
      BY <3>1, <3>2, <3>3, <3>4 DEF Found
  <2> QED
    BY <2>3, <2>4
<1>8. ASSUME NEW w \in Windows \ SearchStops(a, k), SearchStep(a, k)[w] \in R PROVE w \in R
  <2> DEFINE v == SearchNext(a, k, w)
             r == Searching(a, k)[w]
  <2> SUFFICES ASSUME w.right < Size(a)
               PROVE  r \in BOOLEAN /\ (r <=> \E x \in DOMAIN a : w.left <= x /\ x <= w.right /\ a[x].key = k)
    BY DEF SearchDoes
  <2>1. w \in Windows /\ w.left <= w.right /\ ~ (w.left > w.right) /\ ~ Found(a, k, w)
    BY <1>5 DEF SearchStops
  <2>2. SearchStep(a, k)[w] = v /\ r = Searching(a, k)[v]
    BY <1>2, <2>1 DEF SearchStep
  <2>3. SearchDoes(a, k, v, r)
    BY <1>8, <2>2
  <2>4. Mid(w) \in DOMAIN a /\ Mid(w) \in w.left .. w.right /\ w.left \in Int /\ w.right \in Int
    BY <1>6, <2>1, MidFacts, SortingAssumption
  <2>5. a[Mid(w)].key # k
    BY <2>1 DEF Found
  <2>6. /\ a[Mid(w)].key < k => v.left = Mid(w) + 1 /\ v.right = w.right
        /\ ~ (a[Mid(w)].key < k) => v.left = w.left /\ v.right = Mid(w) - 1
    BY <2>1, SearchStepFacts
  <2> HIDE DEF r, v
  <2>7. v.right < Size(a)
    BY <1>3, <2>4, <2>6
  <2>8. ASSUME NEW x \in DOMAIN a, a[x].key = k
        PROVE (w.left <= x /\ x <= w.right) <=> (v.left <= x /\ x <= v.right)
    <3>1. CASE a[Mid(w)].key < k
      <4>1. Mid(w) < x
        BY <1>4, <2>4, <2>8, <3>1 DEF KeysAscend
      <4>2. v.left = Mid(w) + 1 /\ v.right = w.right
        BY <2>6, <3>1
      <4> QED
        BY <1>4, <2>4, <4>1, <4>2
    <3>2. CASE ~ (a[Mid(w)].key < k)
      <4>1. x < Mid(w)
        <5>1. k < a[Mid(w)].key
          BY <1>4, <2>4, <2>5, <2>8, <3>2
        <5>2. ~ (Mid(w) < x)
          BY <1>4, <2>4, <2>8, <5>1 DEF KeysAscend
        <5>3. Mid(w) # x
          BY <2>5, <2>8
        <5> QED
          BY <1>4, <2>4, <5>2, <5>3
      <4>2. v.left = w.left /\ v.right = Mid(w) - 1
        BY <2>6, <3>2
      <4> QED
        BY <1>4, <2>4, <4>1, <4>2
    <3> QED
      BY <3>1, <3>2
  <2>9. r \in BOOLEAN /\ (r <=> \E x \in DOMAIN a : v.left <= x /\ x <= v.right /\ a[x].key = k)
    BY <2>3, <2>7 DEF SearchDoes
  <2> QED
    BY <2>8, <2>9
<1>9. R = Windows
  <2>1. R \subseteq Windows
    OBVIOUS
  <2> HIDE DEF R
  <2> QED
    BY <1>1, <1>7, <1>8, <2>1, LoopInduction
<1> DEFINE w == Window(0, Size(a) - 1)
<1>10. w \in Windows /\ w.left = 0 /\ w.right = Size(a) - 1
  <2>1. 0 \in 0 .. MaxLength + 1 /\ Size(a) - 1 \in -1 .. MaxLength
    BY <1>3, SortingAssumption
  <2> QED
    BY <2>1, WindowType
<1>11. SearchDoes(a, k, w, HalvingSearch(a, k))
  BY <1>9, <1>10 DEF HalvingSearch
<1> HIDE DEF w
<1>12. Size(a) - 1 < Size(a) /\ \A x \in DOMAIN a : 0 <= x /\ x <= Size(a) - 1
  BY <1>3, SortingAssumption
<1>13. HalvingSearch(a, k) = \E x \in DOMAIN a : a[x].key = k
  BY <1>10, <1>11, <1>12 DEF SearchDoes
<1> QED
  BY <1>13 DEF Search

-----------------------------------------------------------------------------
(* Linked entities.  v lists them; a chain is a stretch of it that the     *)
(* references follow and that ends there.                                  *)

Chain(next, v, i, j) == \A x \in i .. j : next[v[x]] = IF x < j THEN v[x + 1] ELSE 0
Listing(v, n) == n \in 0 .. MaxLength /\ v \in Injection(1 .. n, Entities)

LEMMA ListingFacts ==
  ASSUME NEW n, NEW v, Listing(v, n)
  PROVE  /\ n \in Nat /\ MaxLength \in Nat /\ n <= MaxLength /\ DOMAIN v = 1 .. n
         /\ \A x \in 1 .. n : v[x] \in Entities /\ v[x] \in References /\ v[x] # 0
         /\ \A x, y \in 1 .. n : v[x] = v[y] => x = y
<1>1. MaxLength \in Nat
  BY SortingAssumption
<1>2. n \in 0 .. MaxLength /\ v \in [1 .. n -> Entities] /\ \A x, y \in 1 .. n : v[x] = v[y] => x = y
  BY DEF Listing, Injection, IsInjective
<1> QED
  BY <1>1, <1>2 DEF Entities, References

LEMMA LinksFacts ==
  ASSUME NEW next \in Links, NEW e \in Entities
  PROVE  /\ next[e] \in References /\ (next[e] # 0 => next[e] \in Entities)
         /\ \A d \in References : [next EXCEPT ![e] = d] \in Links
BY SortingAssumption DEF Links, Entities, References

WalkStops == {w \in Walks : w.at = 0 \/ Len(w.met) > MaxLength}
WalkStep(next) == [w \in Walks |-> IF w \in WalkStops THEN w ELSE Further(next, w)]
WalkLeft == [w \in Walks |-> IF Len(w.met) > MaxLength THEN 0 ELSE MaxLength + 1 - Len(w.met)]

LEMMA WalkingIs ==
  ASSUME NEW next \in Links
  PROVE  /\ Decreases(Walks, WalkStops, WalkStep(next), WalkLeft, MaxLength + 1)
         /\ Walking(next) = [w \in Walks |-> IF w.at = 0 \/ Len(w.met) > MaxLength THEN w.met
                                             ELSE Walking(next)[Further(next, w)]]
<1> DEFINE Is(f) == f = [w \in Walks |-> IF w.at = 0 \/ Len(w.met) > MaxLength THEN w.met ELSE f[Further(next, w)]]
           out == [w \in Walks |-> w.met]
<1>0. MaxLength \in Nat
  BY SortingAssumption
<1>1. \A w \in Walks : w.at \in References /\ w.met \in Seq(Entities) /\ Len(w.met) \in Nat
  BY DEF Walks
<1>2. ASSUME NEW w \in Walks, w \notin WalkStops
      PROVE  Further(next, w) \in Walks /\ Len(Further(next, w).met) = Len(w.met) + 1 /\ ~ (Len(w.met) > MaxLength)
  <2>1. w.at \in Entities
    BY <1>0, <1>1, <1>2 DEF WalkStops, Entities, References
  <2>2. Append(w.met, w.at) \in Seq(Entities) /\ Len(Append(w.met, w.at)) = Len(w.met) + 1
    BY <1>1, <2>1
  <2>3. next[w.at] \in References
    BY <2>1, LinksFacts
  <2> QED
    BY <1>2, <2>2, <2>3 DEF Walks, Further, WalkStops
<1>3. WalkStep(next) \in [Walks -> Walks]
  BY <1>2 DEF WalkStep
<1>4. WalkLeft \in [Walks -> 0 .. MaxLength + 1]
  <2>1. ASSUME NEW w \in Walks
        PROVE  (IF Len(w.met) > MaxLength THEN 0 ELSE MaxLength + 1 - Len(w.met)) \in 0 .. MaxLength + 1
    <3>1. \A k \in Nat : (IF k > MaxLength THEN 0 ELSE MaxLength + 1 - k) \in 0 .. MaxLength + 1
      BY <1>0
    <3> QED
      BY <1>1, <3>1
  <2> QED
    BY <2>1 DEF WalkLeft
<1>5. ASSUME NEW w \in Walks \ WalkStops PROVE WalkLeft[WalkStep(next)[w]] < WalkLeft[w]
  <2>1. Len(w.met) \in Nat /\ ~ (Len(w.met) > MaxLength) /\ WalkLeft[w] = MaxLength + 1 - Len(w.met)
    BY <1>1, <1>2 DEF WalkLeft
  <2>2. WalkStep(next)[w] \in Walks /\ Len(WalkStep(next)[w].met) = Len(w.met) + 1
    BY <1>2 DEF WalkStep
  <2>3. WalkLeft[WalkStep(next)[w]] = IF Len(w.met) + 1 > MaxLength THEN 0 ELSE MaxLength + 1 - (Len(w.met) + 1)
    BY <2>2 DEF WalkLeft
  <2>4. \A k \in Nat : ~ (k > MaxLength)
                     => (IF k + 1 > MaxLength THEN 0 ELSE MaxLength + 1 - (k + 1)) < MaxLength + 1 - k
    BY <1>0
  <2>5. (IF Len(w.met) + 1 > MaxLength THEN 0 ELSE MaxLength + 1 - (Len(w.met) + 1)) < MaxLength + 1 - Len(w.met)
    BY <2>1, <2>4
  <2> QED
    BY <2>1, <2>3, <2>5
<1>6. Decreases(Walks, WalkStops, WalkStep(next), WalkLeft, MaxLength + 1)
  BY <1>0, <1>3, <1>4, <1>5 DEF Decreases, WalkStops
<1>7. out \in [Walks -> Seq(Entities)] /\ Seq(Entities) # {} /\ \A w \in Walks : out[w] = w.met
  <2>1. << >> \in Seq(Entities)
    OBVIOUS
  <2> QED
    BY <1>1, <2>1
<1> HIDE DEF out
<1>8. PICK f \in [Walks -> Seq(Entities)] : IsLoop(f, Walks, WalkStops, out, WalkStep(next))
  BY <1>6, <1>7, LoopExists
<1>9. Is(f)
  <2>1. \A w \in Walks : (IF w \in WalkStops THEN out[w] ELSE f[WalkStep(next)[w]])
                         = IF w.at = 0 \/ Len(w.met) > MaxLength THEN w.met ELSE f[Further(next, w)]
    BY <1>7 DEF WalkStops, WalkStep
  <2> QED
    BY <1>8, <2>1 DEF IsLoop
<1>10. Walking(next) = CHOOSE g : Is(g)
  BY DEF Walking
<1>11. Is(Walking(next))
  BY <1>9, <1>10
<1> QED
  BY <1>6, <1>11

GoStops(next) == {l \in Leads : l.n <= 1 \/ l.at = 0 \/ next[l.at] = 0}
GoStep(next) == [l \in Leads |-> IF l \in GoStops(next) THEN l ELSE Lead(next[l.at], l.n - 1)]
GoLeft == [l \in Leads |-> l.n]

LEMMA GoingIs ==
  ASSUME NEW next \in Links
  PROVE  /\ Decreases(Leads, GoStops(next), GoStep(next), GoLeft, MaxLength)
         /\ Going(next) = [l \in Leads |-> IF l.n <= 1 \/ l.at = 0 \/ next[l.at] = 0 THEN l.at
                                           ELSE Going(next)[Lead(next[l.at], l.n - 1)]]
         /\ Going(next) \in [Leads -> References]
<1> DEFINE Is(f) == f = [l \in Leads |-> IF l.n <= 1 \/ l.at = 0 \/ next[l.at] = 0 THEN l.at ELSE f[Lead(next[l.at], l.n - 1)]]
           out == [l \in Leads |-> l.at]
<1>0. MaxLength \in Nat
  BY SortingAssumption
<1>1. \A l \in Leads : l.at \in References /\ l.n \in 0 .. MaxLength
  BY DEF Leads
<1>2. ASSUME NEW l \in Leads, l \notin GoStops(next)
      PROVE  Lead(next[l.at], l.n - 1) \in Leads /\ Lead(next[l.at], l.n - 1).n = l.n - 1
  <2>1. l.at \in Entities /\ l.n - 1 \in 0 .. MaxLength
    BY <1>0, <1>1, <1>2 DEF GoStops, Entities, References
  <2>2. next[l.at] \in References
    BY <2>1, LinksFacts
  <2> QED
    BY <2>1, <2>2 DEF Leads, Lead
<1>3. GoStep(next) \in [Leads -> Leads]
  BY <1>2 DEF GoStep
<1>4. GoLeft \in [Leads -> 0 .. MaxLength]
  BY <1>1 DEF GoLeft
<1>5. \A l \in Leads \ GoStops(next) : GoLeft[GoStep(next)[l]] < GoLeft[l]
  BY <1>0, <1>1, <1>2 DEF GoLeft, GoStep
<1>6. Decreases(Leads, GoStops(next), GoStep(next), GoLeft, MaxLength)
  BY <1>0, <1>3, <1>4, <1>5 DEF Decreases, GoStops
<1>7. out \in [Leads -> References] /\ References # {} /\ \A l \in Leads : out[l] = l.at
  BY <1>0, <1>1 DEF References
<1> HIDE DEF out
<1>8. PICK f \in [Leads -> References] : IsLoop(f, Leads, GoStops(next), out, GoStep(next))
  BY <1>6, <1>7, LoopExists
<1>9. Is(f)
  <2>1. \A l \in Leads : (IF l \in GoStops(next) THEN out[l] ELSE f[GoStep(next)[l]])
                         = IF l.n <= 1 \/ l.at = 0 \/ next[l.at] = 0 THEN l.at ELSE f[Lead(next[l.at], l.n - 1)]
    BY <1>7 DEF GoStops, GoStep
  <2> QED
    BY <1>8, <2>1 DEF IsLoop
<1>10. Going(next) = CHOOSE g : Is(g)
  BY DEF Going
<1>11. Is(Going(next))
  BY <1>9, <1>10
<1> HIDE DEF Is
<1>12. Going(next) \in [Leads -> References]
  <2> DEFINE R == {l \in Leads : Going(next)[l] \in References}
  <2>1. GoStops(next) \subseteq R
    BY <1>1, <1>11 DEF Is, GoStops
  <2>2. ASSUME NEW l \in Leads \ GoStops(next), GoStep(next)[l] \in R PROVE l \in R
    BY <1>11, <2>2 DEF Is, GoStops, GoStep
  <2>3. R \in SUBSET Leads
    OBVIOUS
  <2> HIDE DEF R
  <2>4. R = Leads
    BY <1>6, <2>1, <2>2, <2>3, LoopInduction
  <2>5. \E D : Going(next) = [l \in Leads |-> D[l]]
    BY <1>11 DEF Is
  <2>6. Going(next) = [l \in Leads |-> Going(next)[l]]
    BY <1>11 DEF Is
  <2> QED
    BY <2>4, <2>6 DEF R
<1> QED
  BY <1>6, <1>11, <1>12 DEF Is
Prefix(v, i) == [x \in 1 .. i |-> v[x]]
HeadOf(v, n) == IF n = 0 THEN 0 ELSE v[1]

LEMMA PrefixFacts ==
  ASSUME NEW n, NEW v, Listing(v, n), NEW i \in 0 .. n
  PROVE  /\ Prefix(v, i) \in Seq(Entities) /\ Len(Prefix(v, i)) = i
         /\ (i = n => Prefix(v, i) = v)
         /\ (i < n => Append(Prefix(v, i), v[i + 1]) = Prefix(v, i + 1))
<1>1. n \in Nat /\ DOMAIN v = 1 .. n /\ \A x \in 1 .. n : v[x] \in Entities
  BY ListingFacts
<1>2. i \in Nat /\ i <= n
  BY <1>1
<1>3. Prefix(v, i) \in [1 .. i -> Entities]
  BY <1>1, <1>2 DEF Prefix
<1>4. Prefix(v, i) \in Seq(Entities) /\ Len(Prefix(v, i)) = i
  BY <1>2, <1>3
<1>5. v \in [1 .. n -> Entities]
  BY DEF Listing, Injection
<1>6. ASSUME i < n PROVE Append(Prefix(v, i), v[i + 1]) = Prefix(v, i + 1)
  <2>1. v[i + 1] \in Entities /\ Prefix(v, i + 1) \in [1 .. i + 1 -> Entities] /\ i + 1 \in Nat
    BY <1>1, <1>2, <1>6 DEF Prefix
  <2>2. Prefix(v, i + 1) \in Seq(Entities) /\ Len(Prefix(v, i + 1)) = i + 1
    BY <2>1
  <2>3. \A x \in 1 .. i + 1 : Append(Prefix(v, i), v[i + 1])[x] = Prefix(v, i + 1)[x]
    BY <1>2, <1>3, <1>4 DEF Prefix
  <2>4. Append(Prefix(v, i), v[i + 1]) \in Seq(Entities) /\ Len(Append(Prefix(v, i), v[i + 1])) = i + 1
    BY <1>4, <2>1
  <2> QED
    BY <2>2, <2>3, <2>4
<1> QED
  BY <1>1, <1>4, <1>5, <1>6 DEF Prefix

\* A walk along a list meets its entities in their order.
LEMMA WalkIs ==
  ASSUME NEW next \in Links, NEW n, NEW v, Listing(v, n), Chain(next, v, 1, n)
  PROVE  Walk(next, HeadOf(v, n)) = v
<1> DEFINE At(w, i) == w.at = (IF i < n THEN v[i + 1] ELSE 0) /\ w.met = Prefix(v, i)
           R == {w \in Walks : \A i \in 0 .. n : At(w, i) => Walking(next)[w] = v}
<1>1. /\ n \in Nat /\ MaxLength \in Nat /\ n <= MaxLength
      /\ \A x \in 1 .. n : v[x] \in Entities /\ v[x] \in References /\ v[x] # 0
  BY ListingFacts
<1>2. ASSUME NEW w \in Walks, NEW i \in 0 .. n, At(w, i)
      PROVE  IF i = n THEN w \in WalkStops /\ Walking(next)[w] = v
             ELSE /\ w \notin WalkStops /\ Walking(next)[w] = Walking(next)[Further(next, w)]
                  /\ WalkStep(next)[w] = Further(next, w) /\ At(Further(next, w), i + 1)
  <2>1. i \in Nat /\ i <= n /\ Len(w.met) = i
    BY <1>1, <1>2, PrefixFacts
  <2>2. ~ (Len(w.met) > MaxLength)
    BY <1>1, <2>1
  <2>3. CASE i = n
    <3>1. w.at = 0 /\ w.met = v
      BY <1>1, <1>2, <2>3, PrefixFacts
    <3> QED
      BY <2>3, <3>1, WalkingIs DEF WalkStops
  <2>4. CASE i # n
    <3>1. i < n /\ i + 1 \in 1 .. n /\ w.at = v[i + 1] /\ w.at # 0
      BY <1>1, <1>2, <2>1, <2>4
    <3>2. next[v[i + 1]] = IF i + 1 < n THEN v[i + 1 + 1] ELSE 0
      BY <3>1 DEF Chain
    <3>3. Further(next, w).met = Prefix(v, i + 1)
      BY <1>2, <3>1, PrefixFacts DEF Further
    <3>4. w \notin WalkStops
      BY <2>2, <3>1 DEF WalkStops
    <3>5. Further(next, w).at = next[w.at]
      BY DEF Further
    <3> HIDE DEF At
    <3>6. At(Further(next, w), i + 1)
      BY <3>1, <3>2, <3>3, <3>5 DEF At
    <3>7. Walking(next)[w] = Walking(next)[Further(next, w)]
      BY <2>2, <3>1, WalkingIs
    <3> QED
      BY <2>4, <3>4, <3>6, <3>7 DEF WalkStep
  <2> QED
    BY <2>3, <2>4
<1>3. WalkStops \subseteq R
  <2> SUFFICES ASSUME NEW w \in WalkStops, NEW i \in 0 .. n, At(w, i) PROVE Walking(next)[w] = v
    BY DEF WalkStops
  <2>1. w \in Walks
    BY DEF WalkStops
  <2> HIDE DEF At
  <2> QED
    BY <1>2, <2>1
<1>4. ASSUME NEW w \in Walks \ WalkStops, WalkStep(next)[w] \in R PROVE w \in R
  <2> SUFFICES ASSUME NEW i \in 0 .. n, At(w, i) PROVE Walking(next)[w] = v
    OBVIOUS
  <2> HIDE DEF At
  <2>1. i # n /\ Walking(next)[w] = Walking(next)[Further(next, w)] /\ WalkStep(next)[w] = Further(next, w) /\ At(Further(next, w), i + 1)
    BY <1>2
  <2>2. i + 1 \in 0 .. n
    BY <1>1, <2>1
  <2> QED
    BY <1>4, <2>1, <2>2
<1>5. R \in SUBSET Walks
  OBVIOUS
<1> HIDE DEF R
<1>6. R = Walks
  BY <1>3, <1>4, <1>5, WalkingIs, LoopInduction
<1> DEFINE start == [at |-> HeadOf(v, n), met |-> << >>]
<1>7. start \in Walks /\ At(start, 0) /\ 0 \in 0 .. n
  <2>1. HeadOf(v, n) \in References /\ HeadOf(v, n) = IF 0 < n THEN v[0 + 1] ELSE 0
    BY <1>1 DEF HeadOf, References
  <2>2. Prefix(v, 0) = << >>
    BY DEF Prefix
  <2> QED
    BY <1>1, <2>1, <2>2 DEF Walks
<1> HIDE DEF start, At
<1>8. Walking(next)[start] = v
  BY <1>6, <1>7 DEF R
<1> QED
  BY <1>8 DEF Walk, start

\* The last of the first w entities of a list.
LEMMA NthIs ==
  ASSUME NEW next \in Links, NEW n, NEW v, Listing(v, n), NEW i \in 1 .. n, NEW j \in i .. n, Chain(next, v, i, j),
         NEW w \in 1 .. MaxLength
  PROVE  NthOf(next, v[i], w) = v[IF i + w - 1 <= j THEN i + w - 1 ELSE j]
<1> DEFINE Last(x, k) == IF x + k - 1 <= j THEN x + k - 1 ELSE j
           R == {l \in Leads : \A x \in i .. j : l.at = v[x] /\ l.n >= 1 => Going(next)[l] = v[Last(x, l.n)]}
<1>1. /\ n \in Nat /\ MaxLength \in Nat /\ n <= MaxLength /\ i \in Int /\ j \in Int /\ w \in Int /\ 1 <= i /\ i <= j /\ j <= n
      /\ \A x \in 1 .. n : v[x] \in Entities /\ v[x] \in References /\ v[x] # 0
  BY ListingFacts
<1>2. \A l \in Leads : l.at \in References /\ l.n \in 0 .. MaxLength
  BY DEF Leads
<1>3. ASSUME NEW l \in Leads, NEW x \in i .. j, l.at = v[x], l.n >= 1
      PROVE  IF l.n = 1 \/ x = j THEN l \in GoStops(next) /\ Going(next)[l] = v[Last(x, l.n)]
             ELSE /\ l \notin GoStops(next) /\ Going(next)[l] = Going(next)[GoStep(next)[l]]
                  /\ GoStep(next)[l].at = v[x + 1] /\ GoStep(next)[l].n = l.n - 1 /\ x + 1 \in i .. j
                  /\ Last(x, l.n) = Last(x + 1, l.n - 1)
  <2>1. next[l.at] = IF x < j THEN v[x + 1] ELSE 0
    BY <1>3 DEF Chain
  <2>2. l.at # 0 /\ x \in 1 .. n /\ l.n \in Int
    BY <1>1, <1>2, <1>3
  <2>3. CASE l.n = 1 \/ x = j
    <3>1. l \in GoStops(next) /\ Going(next)[l] = l.at
      <4>1. l.n <= 1 \/ next[l.at] = 0
        BY <2>1, <2>3
      <4> QED
        BY <4>1, GoingIs DEF GoStops
    <3>2. Last(x, l.n) = x
      BY <1>1, <1>3, <2>2, <2>3
    <3> HIDE DEF Last
    <3> QED
      BY <1>3, <2>3, <3>1, <3>2
  <2>4. CASE ~ (l.n = 1 \/ x = j)
    <3>1. x < j /\ x + 1 \in i .. j /\ ~ (l.n <= 1) /\ x + 1 \in 1 .. n
      BY <1>1, <1>3, <2>2, <2>4
    <3>2. next[l.at] = v[x + 1] /\ v[x + 1] # 0
      BY <1>1, <2>1, <3>1
    <3>3. l \notin GoStops(next)
      BY <2>2, <3>1, <3>2 DEF GoStops
    <3>4. GoStep(next)[l] = Lead(v[x + 1], l.n - 1)
      BY <3>2, <3>3 DEF GoStep
    <3>5. Going(next)[l] = Going(next)[Lead(v[x + 1], l.n - 1)]
      BY <2>2, <3>1, <3>2, GoingIs
    <3>6. Last(x, l.n) = Last(x + 1, l.n - 1)
      BY <1>1, <2>2, <3>1
    <3> HIDE DEF Last
    <3> QED
      BY <2>4, <3>1, <3>3, <3>4, <3>5, <3>6 DEF Lead
  <2> QED
    BY <2>3, <2>4
<1> HIDE DEF Last
<1>4. GoStops(next) \subseteq R
  <2> SUFFICES ASSUME NEW l \in GoStops(next), NEW x \in i .. j, l.at = v[x], l.n >= 1 PROVE Going(next)[l] = v[Last(x, l.n)]
    BY DEF GoStops
  <2>1. l \in Leads
    BY DEF GoStops
  <2> QED
    BY <1>3, <2>1
<1>5. ASSUME NEW l \in Leads \ GoStops(next), GoStep(next)[l] \in R PROVE l \in R
  <2> SUFFICES ASSUME NEW x \in i .. j, l.at = v[x], l.n >= 1 PROVE Going(next)[l] = v[Last(x, l.n)]
    OBVIOUS
  <2>1. /\ ~ (l.n = 1 \/ x = j) /\ Going(next)[l] = Going(next)[GoStep(next)[l]]
        /\ GoStep(next)[l].at = v[x + 1] /\ GoStep(next)[l].n = l.n - 1 /\ x + 1 \in i .. j
        /\ Last(x, l.n) = Last(x + 1, l.n - 1)
    BY <1>3
  <2>2. l.n - 1 >= 1
    BY <1>2, <2>1
  <2> QED
    BY <1>5, <2>1, <2>2
<1>6. R \in SUBSET Leads
  OBVIOUS
<1> HIDE DEF R
<1>7. R = Leads
  BY <1>4, <1>5, <1>6, GoingIs, LoopInduction
<1>8. Lead(v[i], w) \in Leads /\ Lead(v[i], w).at = v[i] /\ Lead(v[i], w).n = w /\ w >= 1 /\ i \in i .. j
  BY <1>1 DEF Lead, Leads
<1>9. Going(next)[Lead(v[i], w)] = v[Last(i, w)]
  BY <1>7, <1>8 DEF R
<1> QED
  BY <1>9 DEF NthOf, Last
-----------------------------------------------------------------------------
(* Merging two lists.                                                      *)

LEMMA MergeFields ==
  ASSUME NEW m \in Merges
  PROVE  /\ m.next \in Links /\ m.head \in References /\ m.tail \in References
         /\ m.left \in References /\ m.right \in References /\ m.most \in 0 .. MaxLength
         /\ m = [next |-> m.next, head |-> m.head, tail |-> m.tail, left |-> m.left, right |-> m.right, most |-> m.most]
BY DEF Merges

LinkTo(next, tail, node) == [next EXCEPT ![tail] = node]

LEMMA LinkToFacts ==
  ASSUME NEW next \in Links, NEW tail, NEW node \in References
  PROVE  /\ LinkTo(next, tail, node) \in Links
         /\ \A e \in Entities : LinkTo(next, tail, node)[e] = IF e = tail THEN node ELSE next[e]
BY DEF Links, LinkTo

LEMMA AttachFacts ==
  ASSUME NEW m \in Merges, NEW node \in Entities, m.most # 0
  PROVE  Attach(m, node) = [next |-> IF m.head = 0 THEN m.next ELSE LinkTo(m.next, m.tail, node),
                            head |-> IF m.head = 0 THEN node ELSE m.head, tail |-> node,
                            left |-> m.left, right |-> m.right, most |-> m.most - 1]
<1> DEFINE next == IF m.head = 0 THEN m.next ELSE LinkTo(m.next, m.tail, node)
           head == IF m.head = 0 THEN node ELSE m.head
<1>1. Attach(m, node) = [m EXCEPT !.next = next, !.head = head, !.tail = node, !.most = m.most - 1]
  BY MergeFields DEF Attach, LinkTo
<1> HIDE DEF next, head
<1>2. Attach(m, node) = [next |-> next, head |-> head, tail |-> node, left |-> m.left, right |-> m.right,
                         most |-> m.most - 1]
  BY <1>1, MergeFields
<1> QED
  BY <1>2 DEF next, head

TakenFrom(m, node, left, right) ==
  [next |-> IF m.head = 0 THEN m.next ELSE LinkTo(m.next, m.tail, node),
   head |-> IF m.head = 0 THEN node ELSE m.head, tail |-> node, left |-> left, right |-> right, most |-> m.most - 1]

LEMMA TakenFacts ==
  ASSUME NEW key, NEW m \in Merges, ~ (m.left = 0 /\ m.right = 0), m.most # 0
  PROVE  /\ Taken(key, m) \in Merges
         /\ TakesLeft(key, m) => m.left \in Entities /\ \E a \in Links :
               /\ a = (IF m.head = 0 THEN m.next ELSE LinkTo(m.next, m.tail, m.left))
               /\ Taken(key, m) = TakenFrom(m, m.left, a[m.left], m.right)
         /\ ~ TakesLeft(key, m) => m.right \in Entities /\ \E a \in Links :
               /\ a = (IF m.head = 0 THEN m.next ELSE LinkTo(m.next, m.tail, m.right))
               /\ Taken(key, m) = TakenFrom(m, m.right, m.left, a[m.right])
<1>0. MaxLength \in Nat
  BY SortingAssumption
<1>1. \A e \in References : e # 0 => e \in Entities
  BY <1>0 DEF References, Entities
<1>2. Entities \subseteq References /\ m.most - 1 \in 0 .. MaxLength
  BY <1>0, MergeFields DEF References, Entities
<1>3. CASE TakesLeft(key, m)
  <2>1. m.left \in Entities
    BY <1>1, <1>3, MergeFields DEF TakesLeft
  <2> DEFINE a == IF m.head = 0 THEN m.next ELSE LinkTo(m.next, m.tail, m.left)
  <2>2. a \in Links
    BY <1>2, <2>1, MergeFields, LinkToFacts
  <2>3. a[m.left] \in References
    BY <2>1, <2>2, LinksFacts
  <2>4. Taken(key, m) = TakenFrom(m, m.left, a[m.left], m.right)
    BY <1>3, <2>1, AttachFacts DEF Taken, LeftTaken, RightTaken, TakenFrom
  <2> HIDE DEF a
  <2>5. TakenFrom(m, m.left, a[m.left], m.right) \in Merges
    BY <1>2, <2>1, <2>2, <2>3, MergeFields DEF TakenFrom, Merges, a
  <2> QED
    BY <1>3, <2>1, <2>2, <2>4, <2>5 DEF a
<1>4. CASE ~ TakesLeft(key, m)
  <2>1. m.right \in Entities
    BY <1>1, <1>4, MergeFields DEF TakesLeft
  <2> DEFINE a == IF m.head = 0 THEN m.next ELSE LinkTo(m.next, m.tail, m.right)
  <2>2. a \in Links
    BY <1>2, <2>1, MergeFields, LinkToFacts
  <2>3. a[m.right] \in References
    BY <2>1, <2>2, LinksFacts
  <2>4. Taken(key, m) = TakenFrom(m, m.right, m.left, a[m.right])
    BY <1>4, <2>1, AttachFacts DEF Taken, LeftTaken, RightTaken, TakenFrom
  <2> HIDE DEF a
  <2>5. TakenFrom(m, m.right, m.left, a[m.right]) \in Merges
    BY <1>2, <2>1, <2>2, <2>3, MergeFields DEF TakenFrom, Merges, a
  <2> QED
    BY <1>4, <2>1, <2>2, <2>4, <2>5 DEF a
<1> QED
  BY <1>3, <1>4

LEMMA EndedFacts ==
  ASSUME NEW m \in Merges
  PROVE  /\ Ended(m) \in Merges /\ Ended(m).head = m.head
         /\ Ended(m).next = IF m.tail = 0 THEN m.next ELSE LinkTo(m.next, m.tail, 0)
<1>1. 0 \in References
  BY SortingAssumption DEF References
<1>2. LinkTo(m.next, m.tail, 0) \in Links
  BY <1>1, MergeFields, LinkToFacts
<1>3. Ended(m) = [next |-> IF m.tail = 0 THEN m.next ELSE LinkTo(m.next, m.tail, 0), head |-> m.head, tail |-> m.tail,
                  left |-> m.left, right |-> m.right, most |-> m.most]
  BY MergeFields DEF Ended, LinkTo
<1> QED
  BY <1>2, <1>3, MergeFields DEF Merges

MergeStops == {m \in Merges : (m.left = 0 /\ m.right = 0) \/ m.most = 0}
MergeStep(key) == [m \in Merges |-> IF m \in MergeStops THEN m ELSE Taken(key, m)]
MergeLeft == [m \in Merges |-> m.most]

LEMMA MergingIs ==
  ASSUME NEW key
  PROVE  /\ Decreases(Merges, MergeStops, MergeStep(key), MergeLeft, MaxLength)
         /\ Merging(key) = [m \in Merges |-> IF m.left = 0 /\ m.right = 0 THEN Ended(m)
                                             ELSE IF m.most = 0 THEN m ELSE Merging(key)[Taken(key, m)]]
         /\ Merging(key) \in [Merges -> Merges]
<1> DEFINE Is(f) == f = [m \in Merges |-> IF m.left = 0 /\ m.right = 0 THEN Ended(m)
                                          ELSE IF m.most = 0 THEN m ELSE f[Taken(key, m)]]
           out == [m \in Merges |-> IF m.left = 0 /\ m.right = 0 THEN Ended(m) ELSE m]
<1>0. MaxLength \in Nat
  BY SortingAssumption
<1>1. ASSUME NEW m \in Merges, m \notin MergeStops
      PROVE  Taken(key, m) \in Merges /\ Taken(key, m).most = m.most - 1
  <2>1. ~ (m.left = 0 /\ m.right = 0) /\ m.most # 0
    BY <1>1 DEF MergeStops
  <2> QED
    BY <2>1, TakenFacts DEF TakenFrom
<1>2. MergeStep(key) \in [Merges -> Merges]
  BY <1>1 DEF MergeStep
<1>3. MergeLeft \in [Merges -> 0 .. MaxLength]
  BY MergeFields DEF MergeLeft
<1>4. ASSUME NEW m \in Merges \ MergeStops PROVE MergeLeft[MergeStep(key)[m]] < MergeLeft[m]
  BY <1>0, <1>1, MergeFields DEF MergeLeft, MergeStep
<1>5. Decreases(Merges, MergeStops, MergeStep(key), MergeLeft, MaxLength)
  BY <1>0, <1>2, <1>3, <1>4 DEF Decreases, MergeStops
<1>6. out \in [Merges -> Merges] /\ \A m \in Merges : out[m] = IF m.left = 0 /\ m.right = 0 THEN Ended(m) ELSE m
  BY EndedFacts
<1>7. Merges # {}
  <2> DEFINE m == [next |-> [e \in Entities |-> 0], head |-> 0, tail |-> 0, left |-> 0, right |-> 0, most |-> 0]
  <2>1. 0 \in References /\ 0 \in 0 .. MaxLength /\ [e \in Entities |-> 0] \in Links
    BY <1>0 DEF References, Links
  <2>2. m \in Merges
    BY <2>1 DEF Merges
  <2> QED
    BY <2>2
<1> HIDE DEF out
<1>8. PICK f \in [Merges -> Merges] : IsLoop(f, Merges, MergeStops, out, MergeStep(key))
  BY <1>5, <1>6, <1>7, LoopExists
<1>9. Is(f)
  <2>1. \A m \in Merges : (IF m \in MergeStops THEN out[m] ELSE f[MergeStep(key)[m]])
                         = IF m.left = 0 /\ m.right = 0 THEN Ended(m) ELSE IF m.most = 0 THEN m ELSE f[Taken(key, m)]
    BY <1>6 DEF MergeStops, MergeStep
  <2> QED
    BY <1>8, <2>1 DEF IsLoop
<1>10. Merging(key) = CHOOSE g : Is(g)
  BY DEF Merging
<1>11. Is(Merging(key))
  BY <1>9, <1>10
<1> HIDE DEF Is
<1>12. Merging(key) \in [Merges -> Merges]
  <2> DEFINE R == {m \in Merges : Merging(key)[m] \in Merges}
  <2>1. MergeStops \subseteq R
    BY <1>11, EndedFacts DEF Is, MergeStops
  <2>2. ASSUME NEW m \in Merges \ MergeStops, MergeStep(key)[m] \in R PROVE m \in R
    BY <1>11, <2>2 DEF Is, MergeStops, MergeStep
  <2>3. R \in SUBSET Merges
    OBVIOUS
  <2> HIDE DEF R
  <2>4. R = Merges
    BY <1>5, <2>1, <2>2, <2>3, LoopInduction
  <2>5. Merging(key) = [m \in Merges |-> Merging(key)[m]]
    BY <1>11 DEF Is
  <2> QED
    BY <2>4, <2>5 DEF R
<1> QED
  BY <1>5, <1>11, <1>12 DEF Is

\* The order the sort is to make: by key, and by rank among those of one key.
Precedes(key, rank, x, y) == key[x] < key[y] \/ (key[x] = key[y] /\ rank[x] < rank[y])
Ascends(key, rank, v, i, j) == \A x, y \in i .. j : x < y => Precedes(key, rank, v[x], v[y])
Ranking(key, rank) == key \in [Entities -> Int] /\ rank \in [Entities -> Int]

\* A merge has put the entities at lo + 1 .. k of v into the new list; k + 1 .. j is
\* left of the first list, j + 1 .. hi of the second.
MergeLinked(n, lo, hi, m, v, k, j) ==
  /\ Listing(v, n) /\ k \in lo .. j /\ j \in lo .. hi
  /\ m.left = IF k < j THEN v[k + 1] ELSE 0
  /\ m.right = IF j < hi THEN v[j + 1] ELSE 0
  /\ m.head = IF k = lo THEN 0 ELSE v[lo + 1]
  /\ m.tail = IF k = lo THEN 0 ELSE v[k]
  /\ m.most >= hi - k
  /\ \A x \in lo + 1 .. k - 1 : m.next[v[x]] = v[x + 1]
  /\ Chain(m.next, v, k + 1, j) /\ Chain(m.next, v, j + 1, hi)
MergeOrdered(key, rank, lo, hi, v, k, j) ==
  /\ \A x \in lo + 1 .. k, y \in lo + 1 .. hi : x < y => Precedes(key, rank, v[x], v[y])
  /\ Ascends(key, rank, v, k + 1, j) /\ Ascends(key, rank, v, j + 1, hi)
  /\ \A x \in k + 1 .. j, y \in j + 1 .. hi : rank[v[x]] < rank[v[y]]
MergeDone(key, rank, n, lo, hi, next, v, r) ==
  \E u : /\ Listing(u, n) /\ r.head = u[lo + 1] /\ Chain(r.next, u, lo + 1, hi) /\ Ascends(key, rank, u, lo + 1, hi)
         /\ \A x \in 1 .. n : x \notin lo + 1 .. hi => u[x] = v[x]
         /\ \A x \in lo + 1 .. hi : \E y \in lo + 1 .. hi : u[x] = v[y]
         /\ \A e \in Entities : (\A x \in lo + 1 .. hi : v[x] # e) => r.next[e] = next[e]

\* The entity at j + 1 moves to k + 1.
Origin(k, j, x) == IF x = k + 1 THEN j + 1 ELSE IF k + 1 < x /\ x <= j + 1 THEN x - 1 ELSE x
Rotated(v, k, j) == [x \in DOMAIN v |-> v[Origin(k, j, x)]]

LEMMA RotatedFacts ==
  ASSUME NEW n, NEW v, Listing(v, n), NEW k \in 0 .. n, NEW j \in k .. n, j < n
  PROVE  /\ Listing(Rotated(v, k, j), n)
         /\ \A x \in 1 .. n : Rotated(v, k, j)[x] = v[Origin(k, j, x)] /\ Origin(k, j, x) \in 1 .. n
<1>1. n \in Nat /\ DOMAIN v = 1 .. n /\ v \in [1 .. n -> Entities] /\ \A x, y \in 1 .. n : v[x] = v[y] => x = y
  BY ListingFacts DEF Listing, Injection
<1>2. \A x \in 1 .. n : Origin(k, j, x) \in 1 .. n
  BY <1>1 DEF Origin
<1>3. \A x, y \in 1 .. n : Origin(k, j, x) = Origin(k, j, y) => x = y
  BY <1>1 DEF Origin
<1>4. \A x \in 1 .. n : Rotated(v, k, j)[x] = v[Origin(k, j, x)]
  BY <1>1 DEF Rotated
<1>5. Rotated(v, k, j) \in [1 .. n -> Entities]
  BY <1>1, <1>2 DEF Rotated
<1>6. \A x, y \in 1 .. n : Rotated(v, k, j)[x] = Rotated(v, k, j)[y] => x = y
  BY <1>1, <1>2, <1>3, <1>4
<1>7. n \in 0 .. MaxLength
  BY DEF Listing
<1> QED
  BY <1>2, <1>4, <1>5, <1>6, <1>7 DEF Listing, Injection, IsInjective

LEMMA PrecedesFacts ==
  ASSUME NEW key, NEW rank, Ranking(key, rank), NEW x \in Entities, NEW y \in Entities, NEW z \in Entities
  PROVE  Precedes(key, rank, x, y) /\ Precedes(key, rank, y, z) => Precedes(key, rank, x, z)
BY DEF Precedes, Ranking

LEMMA MergeTakesLeft ==
  ASSUME NEW key, NEW rank, Ranking(key, rank), NEW n, NEW lo \in 0 .. n, NEW hi \in lo .. n,
         NEW m \in Merges, NEW v, NEW k, NEW j, MergeLinked(n, lo, hi, m, v, k, j), MergeOrdered(key, rank, lo, hi, v, k, j),
         m \notin MergeStops, TakesLeft(key, m)
  PROVE  /\ MergeLinked(n, lo, hi, Taken(key, m), v, k + 1, j) /\ MergeOrdered(key, rank, lo, hi, v, k + 1, j)
         /\ \A e \in Entities : (\A x \in lo + 1 .. hi : v[x] # e) => Taken(key, m).next[e] = m.next[e]
<1>1. /\ n \in Nat /\ n <= MaxLength /\ MaxLength \in Nat /\ lo \in Nat /\ hi \in Nat /\ lo <= hi /\ hi <= n
      /\ k \in Nat /\ j \in Nat /\ lo <= k /\ k <= j /\ j <= hi
      /\ \A x \in 1 .. n : v[x] \in Entities /\ v[x] # 0
      /\ \A x, y \in 1 .. n : v[x] = v[y] => x = y
  <2>1. Listing(v, n) /\ k \in lo .. j /\ j \in lo .. hi
    BY DEF MergeLinked
  <2> QED
    BY <2>1, ListingFacts
<1>2. ~ (m.left = 0 /\ m.right = 0) /\ m.most # 0
  BY DEF MergeStops
<1>3. k < j /\ k + 1 \in 1 .. n /\ m.left = v[k + 1]
  BY <1>1, <1>2 DEF TakesLeft, MergeLinked
<1>4. PICK a \in Links : /\ a = (IF m.head = 0 THEN m.next ELSE LinkTo(m.next, m.tail, m.left))
                         /\ Taken(key, m) = TakenFrom(m, m.left, a[m.left], m.right)
  BY <1>2, TakenFacts
<1>5. \A x \in 1 .. n : a[v[x]] = IF k # lo /\ x = k THEN v[k + 1] ELSE m.next[v[x]]
  <2>1. CASE k = lo
    BY <1>4, <2>1 DEF MergeLinked
  <2>2. CASE k # lo
    <3>1. m.head = v[lo + 1] /\ lo + 1 \in 1 .. n /\ m.tail = v[k] /\ k \in 1 .. n
      BY <1>1, <1>3, <2>2 DEF MergeLinked
    <3>2. a = LinkTo(m.next, v[k], v[k + 1]) /\ m.next \in Links /\ v[k + 1] \in References
      BY <1>1, <1>3, <1>4, <3>1, MergeFields
    <3> QED
      BY <1>1, <2>2, <3>1, <3>2, LinkToFacts
  <2> QED
    BY <2>1, <2>2
<1>6. \A e \in Entities : (\A x \in lo + 1 .. hi : v[x] # e) => a[e] = m.next[e]
  <2>1. CASE k = lo
    BY <1>4, <2>1 DEF MergeLinked
  <2>2. CASE k # lo
    <3>1. m.head = v[lo + 1] /\ lo + 1 \in 1 .. n /\ m.tail = v[k] /\ k \in 1 .. n /\ k \in lo + 1 .. hi
      BY <1>1, <1>3, <2>2 DEF MergeLinked
    <3>2. a = LinkTo(m.next, v[k], v[k + 1]) /\ m.next \in Links /\ v[k + 1] \in References
      BY <1>1, <1>3, <1>4, <3>1, MergeFields
    <3> QED
      BY <1>1, <2>2, <3>1, <3>2, LinkToFacts
  <2> QED
    BY <2>1, <2>2
<1>7. /\ Taken(key, m).next = a /\ Taken(key, m).left = a[v[k + 1]] /\ Taken(key, m).right = m.right
      /\ Taken(key, m).head = (IF m.head = 0 THEN v[k + 1] ELSE m.head) /\ Taken(key, m).tail = v[k + 1]
      /\ Taken(key, m).most = m.most - 1
  BY <1>3, <1>4 DEF TakenFrom
<1>8. MergeLinked(n, lo, hi, Taken(key, m), v, k + 1, j)
  <2>1. k + 1 \in lo .. j /\ j \in lo .. hi /\ Listing(v, n)
    BY <1>1, <1>3 DEF MergeLinked
  <2>2. a[v[k + 1]] = IF k + 1 < j THEN v[k + 1 + 1] ELSE 0
    <3>1. m.next[v[k + 1]] = IF k + 1 < j THEN v[k + 1 + 1] ELSE 0
      BY <1>1, <1>3 DEF MergeLinked, Chain
    <3> QED
      BY <1>1, <1>3, <1>5, <3>1
  <2>3. m.right = IF j < hi THEN v[j + 1] ELSE 0
    BY DEF MergeLinked
  <2>4. (IF m.head = 0 THEN v[k + 1] ELSE m.head) = v[lo + 1]
    <3>1. CASE k = lo
      BY <3>1 DEF MergeLinked
    <3>2. CASE k # lo
      <4>1. m.head = v[lo + 1] /\ lo + 1 \in 1 .. n
        BY <1>1, <1>3, <3>2 DEF MergeLinked
      <4> QED
        BY <1>1, <4>1
    <3> QED
      BY <3>1, <3>2
  <2>5. m.most - 1 >= hi - (k + 1)
    <3>1. m.most \in Int /\ m.most >= hi - k
      BY MergeFields DEF MergeLinked
    <3> QED
      BY <1>1, <3>1
  <2>6. \A x \in lo + 1 .. (k + 1) - 1 : a[v[x]] = v[x + 1]
    <3>1. ASSUME NEW x \in lo + 1 .. (k + 1) - 1 PROVE a[v[x]] = v[x + 1]
      <4>1. x \in 1 .. n /\ x <= k /\ lo # k
        BY <1>1, <1>3
      <4>2. x < k => m.next[v[x]] = v[x + 1]
        BY <1>1, <4>1 DEF MergeLinked
      <4> QED
        BY <1>1, <1>5, <4>1, <4>2
    <3> QED
      BY <3>1
  <2>7. Chain(a, v, k + 1 + 1, j)
    BY <1>1, <1>3, <1>5 DEF MergeLinked, Chain
  <2>8. Chain(a, v, j + 1, hi)
    BY <1>1, <1>3, <1>5 DEF MergeLinked, Chain
  <2>9. k + 1 # lo
    BY <1>1
  <2> QED
    BY <1>7, <2>1, <2>2, <2>3, <2>4, <2>5, <2>6, <2>7, <2>8, <2>9 DEF MergeLinked
<1>9. MergeOrdered(key, rank, lo, hi, v, k + 1, j)
  <2>1. \A y \in k + 1 + 1 .. hi : Precedes(key, rank, v[k + 1], v[y])
    <3> SUFFICES ASSUME NEW y \in k + 1 + 1 .. hi PROVE Precedes(key, rank, v[k + 1], v[y])
      OBVIOUS
    <3>1. CASE y <= j
      BY <1>1, <1>3, <3>1 DEF MergeOrdered, Ascends
    <3>2. CASE j < y
      <4>1. m.right = v[j + 1] /\ j + 1 \in 1 .. n /\ v[j + 1] \in Entities /\ j + 1 \in j + 1 .. hi /\ y \in j + 1 .. hi /\ y \in 1 .. n
        BY <1>1, <3>2 DEF MergeLinked
      <4>2. key[v[k + 1]] <= key[v[j + 1]]
        BY <1>1, <1>3, <4>1 DEF TakesLeft
      <4>3. y # j + 1 => Precedes(key, rank, v[j + 1], v[y])
        BY <1>1, <3>2, <4>1 DEF MergeOrdered, Ascends
      <4>4. rank[v[k + 1]] < rank[v[y]]
        BY <1>1, <1>3, <4>1 DEF MergeOrdered
      <4>5. key[v[k + 1]] \in Int /\ key[v[j + 1]] \in Int /\ key[v[y]] \in Int
        BY <1>1, <1>3, <4>1 DEF Ranking
      <4>6. key[v[j + 1]] <= key[v[y]]
        BY <4>3, <4>5 DEF Precedes
      <4> QED
        BY <4>2, <4>4, <4>5, <4>6 DEF Precedes
    <3> QED
      BY <1>1, <3>1, <3>2
  <2>2. \A x \in lo + 1 .. k + 1, y \in lo + 1 .. hi : x < y => Precedes(key, rank, v[x], v[y])
    <3> SUFFICES ASSUME NEW x \in lo + 1 .. k + 1, NEW y \in lo + 1 .. hi, x < y PROVE Precedes(key, rank, v[x], v[y])
      OBVIOUS
    <3>1. CASE x = k + 1
      BY <1>1, <2>1, <3>1
    <3>2. CASE x # k + 1
      BY <1>1, <3>2 DEF MergeOrdered
    <3> QED
      BY <3>1, <3>2
  <2>3. Ascends(key, rank, v, k + 1 + 1, j) /\ Ascends(key, rank, v, j + 1, hi)
    BY <1>1 DEF MergeOrdered, Ascends
  <2>4. \A x \in k + 1 + 1 .. j, y \in j + 1 .. hi : rank[v[x]] < rank[v[y]]
    BY <1>1 DEF MergeOrdered
  <2> QED
    BY <2>2, <2>3, <2>4 DEF MergeOrdered
<1> QED
  BY <1>6, <1>7, <1>8, <1>9

LEMMA MergeTakesRight ==
  ASSUME NEW key, NEW rank, Ranking(key, rank), NEW n, NEW lo \in 0 .. n, NEW hi \in lo .. n,
         NEW m \in Merges, NEW v, NEW k, NEW j, MergeLinked(n, lo, hi, m, v, k, j), MergeOrdered(key, rank, lo, hi, v, k, j),
         m \notin MergeStops, ~ TakesLeft(key, m)
  PROVE  /\ j < hi
         /\ MergeLinked(n, lo, hi, Taken(key, m), Rotated(v, k, j), k + 1, j + 1)
         /\ MergeOrdered(key, rank, lo, hi, Rotated(v, k, j), k + 1, j + 1)
         /\ \A e \in Entities : (\A x \in lo + 1 .. hi : v[x] # e) => Taken(key, m).next[e] = m.next[e]
<1> DEFINE u == Rotated(v, k, j)
<1>1. /\ n \in Nat /\ n <= MaxLength /\ MaxLength \in Nat /\ lo \in Nat /\ hi \in Nat /\ lo <= hi /\ hi <= n
      /\ k \in Nat /\ j \in Nat /\ lo <= k /\ k <= j /\ j <= hi /\ Listing(v, n)
      /\ \A x \in 1 .. n : v[x] \in Entities /\ v[x] # 0
      /\ \A x, y \in 1 .. n : v[x] = v[y] => x = y
  <2>1. Listing(v, n) /\ k \in lo .. j /\ j \in lo .. hi
    BY DEF MergeLinked
  <2> QED
    BY <2>1, ListingFacts
<1>2. ~ (m.left = 0 /\ m.right = 0) /\ m.most # 0
  BY DEF MergeStops
<1>3. j < hi /\ j + 1 \in 1 .. n /\ m.right = v[j + 1] /\ k + 1 \in 1 .. n
  BY <1>1, <1>2 DEF TakesLeft, MergeLinked
<1>4. PICK a \in Links : /\ a = (IF m.head = 0 THEN m.next ELSE LinkTo(m.next, m.tail, m.right))
                         /\ Taken(key, m) = TakenFrom(m, m.right, m.left, a[m.right])
  BY <1>2, TakenFacts
<1>5. \A x \in 1 .. n : a[v[x]] = IF k # lo /\ x = k THEN v[j + 1] ELSE m.next[v[x]]
  <2>1. CASE k = lo
    BY <1>4, <2>1 DEF MergeLinked
  <2>2. CASE k # lo
    <3>1. m.head = v[lo + 1] /\ lo + 1 \in 1 .. n /\ m.tail = v[k] /\ k \in 1 .. n
      BY <1>1, <1>3, <2>2 DEF MergeLinked
    <3>2. a = LinkTo(m.next, v[k], v[j + 1]) /\ m.next \in Links /\ v[j + 1] \in References
      BY <1>1, <1>3, <1>4, <3>1, MergeFields
    <3> QED
      BY <1>1, <2>2, <3>1, <3>2, LinkToFacts
  <2> QED
    BY <2>1, <2>2
<1>6. \A e \in Entities : (\A x \in lo + 1 .. hi : v[x] # e) => a[e] = m.next[e]
  <2>1. CASE k = lo
    BY <1>4, <2>1 DEF MergeLinked
  <2>2. CASE k # lo
    <3>1. m.head = v[lo + 1] /\ lo + 1 \in 1 .. n /\ m.tail = v[k] /\ k \in 1 .. n /\ k \in lo + 1 .. hi
      BY <1>1, <1>3, <2>2 DEF MergeLinked
    <3>2. a = LinkTo(m.next, v[k], v[j + 1]) /\ m.next \in Links /\ v[j + 1] \in References
      BY <1>1, <1>3, <1>4, <3>1, MergeFields
    <3> QED
      BY <1>1, <2>2, <3>1, <3>2, LinkToFacts
  <2> QED
    BY <2>1, <2>2
<1>7. /\ Taken(key, m).next = a /\ Taken(key, m).left = m.left /\ Taken(key, m).right = a[v[j + 1]]
      /\ Taken(key, m).head = (IF m.head = 0 THEN v[j + 1] ELSE m.head) /\ Taken(key, m).tail = v[j + 1]
      /\ Taken(key, m).most = m.most - 1
  BY <1>3, <1>4 DEF TakenFrom
<1>8. /\ Listing(u, n) /\ u[k + 1] = v[j + 1]
      /\ \A x \in 1 .. n : x <= k \/ x > j + 1 => u[x] = v[x]
      /\ \A x \in 1 .. n : k + 1 < x /\ x <= j + 1 => u[x] = v[x - 1]
  <2>1. k \in 0 .. n /\ j \in k .. n /\ j < n
    BY <1>1, <1>3
  <2>2. Listing(u, n) /\ \A x \in 1 .. n : u[x] = v[Origin(k, j, x)]
    BY <1>1, <2>1, RotatedFacts
  <2>3. /\ Origin(k, j, k + 1) = j + 1
        /\ \A x \in 1 .. n : x <= k \/ x > j + 1 => Origin(k, j, x) = x
        /\ \A x \in 1 .. n : k + 1 < x /\ x <= j + 1 => Origin(k, j, x) = x - 1
    BY <1>1 DEF Origin
  <2> QED
    BY <1>3, <2>2, <2>3
<1> HIDE DEF u
<1>9. MergeLinked(n, lo, hi, Taken(key, m), u, k + 1, j + 1)
  <2>1. k + 1 \in lo .. j + 1 /\ j + 1 \in lo .. hi
    BY <1>1, <1>3
  <2>2. a[v[j + 1]] = IF j + 1 < hi THEN u[j + 1 + 1] ELSE 0
    <3>1. m.next[v[j + 1]] = IF j + 1 < hi THEN v[j + 1 + 1] ELSE 0
      BY <1>1, <1>3 DEF MergeLinked, Chain
    <3>2. j + 1 < hi => u[j + 1 + 1] = v[j + 1 + 1]
      BY <1>1, <1>3, <1>8
    <3> QED
      BY <1>1, <1>3, <1>5, <3>1, <3>2
  <2>3. m.left = IF k + 1 < j + 1 THEN u[k + 1 + 1] ELSE 0
    <3>1. m.left = IF k < j THEN v[k + 1] ELSE 0
      BY DEF MergeLinked
    <3>2. k < j => u[k + 1 + 1] = v[k + 1]
      BY <1>1, <1>3, <1>8
    <3> QED
      BY <1>1, <3>1, <3>2
  <2>4. (IF m.head = 0 THEN v[j + 1] ELSE m.head) = u[lo + 1]
    <3>1. CASE k = lo
      BY <1>8, <3>1 DEF MergeLinked
    <3>2. CASE k # lo
      <4>1. m.head = v[lo + 1] /\ lo + 1 \in 1 .. n /\ lo + 1 <= k
        BY <1>1, <1>3, <3>2 DEF MergeLinked
      <4> QED
        BY <1>1, <1>8, <4>1
    <3> QED
      BY <3>1, <3>2
  <2>5. m.most - 1 >= hi - (k + 1)
    <3>1. m.most \in Int /\ m.most >= hi - k
      BY MergeFields DEF MergeLinked
    <3> QED
      BY <1>1, <3>1
  <2>6. \A x \in lo + 1 .. (k + 1) - 1 : a[u[x]] = u[x + 1]
    <3>1. ASSUME NEW x \in lo + 1 .. (k + 1) - 1 PROVE a[u[x]] = u[x + 1]
      <4>1. x \in 1 .. n /\ x <= k /\ lo # k /\ u[x] = v[x]
        BY <1>1, <1>3, <1>8
      <4>2. CASE x < k
        <5>1. m.next[v[x]] = v[x + 1] /\ u[x + 1] = v[x + 1]
          BY <1>1, <1>8, <4>1, <4>2 DEF MergeLinked
        <5> QED
          BY <1>1, <1>5, <4>1, <4>2, <5>1
      <4>3. CASE x = k
        BY <1>1, <1>5, <1>8, <4>1, <4>3
      <4> QED
        BY <1>1, <4>1, <4>2, <4>3
    <3> QED
      BY <3>1
  <2>7. Chain(a, u, k + 1 + 1, j + 1)
    <3> SUFFICES ASSUME NEW x \in k + 1 + 1 .. j + 1 PROVE a[u[x]] = IF x < j + 1 THEN u[x + 1] ELSE 0
      BY DEF Chain
    <3>1. x \in 1 .. n /\ x - 1 \in 1 .. n /\ u[x] = v[x - 1] /\ x - 1 \in k + 1 .. j /\ x - 1 # k
      BY <1>1, <1>3, <1>8
    <3>2. m.next[v[x - 1]] = IF x - 1 < j THEN v[(x - 1) + 1] ELSE 0
      BY <3>1 DEF MergeLinked, Chain
    <3>3. x < j + 1 => u[x + 1] = v[x] /\ v[(x - 1) + 1] = v[x]
      BY <1>1, <1>3, <1>8, <3>1
    <3> QED
      BY <1>1, <1>5, <3>1, <3>2, <3>3
  <2>8. Chain(a, u, j + 1 + 1, hi)
    <3> SUFFICES ASSUME NEW x \in j + 1 + 1 .. hi PROVE a[u[x]] = IF x < hi THEN u[x + 1] ELSE 0
      BY DEF Chain
    <3>1. x \in 1 .. n /\ u[x] = v[x] /\ x \in j + 1 .. hi /\ x # k /\ (x < hi => u[x + 1] = v[x + 1])
      BY <1>1, <1>3, <1>8
    <3>2. m.next[v[x]] = IF x < hi THEN v[x + 1] ELSE 0
      BY <3>1 DEF MergeLinked, Chain
    <3> QED
      BY <1>5, <3>1, <3>2
  <2>9. k + 1 # lo
    BY <1>1
  <2> QED
    BY <1>7, <1>8, <2>1, <2>2, <2>3, <2>4, <2>5, <2>6, <2>7, <2>8, <2>9 DEF MergeLinked
<1>10. MergeOrdered(key, rank, lo, hi, u, k + 1, j + 1)
  <2>1. \A y \in j + 1 + 1 .. hi : Precedes(key, rank, v[j + 1], v[y])
    BY <1>1, <1>3 DEF MergeOrdered, Ascends
  <2>2. \A y \in k + 1 .. j : Precedes(key, rank, v[j + 1], v[y])
    <3> SUFFICES ASSUME NEW y \in k + 1 .. j PROVE Precedes(key, rank, v[j + 1], v[y])
      OBVIOUS
    <3>1. m.left = v[k + 1] /\ k + 1 \in 1 .. n /\ y \in 1 .. n /\ m.left # 0
      BY <1>1, <1>3 DEF MergeLinked
    <3>2. key[v[k + 1]] \in Int /\ key[v[j + 1]] \in Int /\ key[v[y]] \in Int
      BY <1>1, <1>3, <3>1 DEF Ranking
    <3>3. ~ (key[v[k + 1]] <= key[v[j + 1]])
      BY <1>1, <1>3, <3>1 DEF TakesLeft
    <3>4. key[v[k + 1]] <= key[v[y]]
      <4>1. y # k + 1 => Precedes(key, rank, v[k + 1], v[y])
        BY <1>1 DEF MergeOrdered, Ascends
      <4> QED
        BY <3>2, <4>1 DEF Precedes
    <3> QED
      BY <3>2, <3>3, <3>4 DEF Precedes
  <2>3. \A x \in lo + 1 .. k, y \in lo + 1 .. hi : x < y => Precedes(key, rank, u[x], u[y])
    <3> SUFFICES ASSUME NEW x \in lo + 1 .. k, NEW y \in lo + 1 .. hi, x < y PROVE Precedes(key, rank, u[x], u[y])
      OBVIOUS
    <3>1. x \in 1 .. n /\ y \in 1 .. n /\ u[x] = v[x]
      BY <1>1, <1>8
    <3>2. CASE y <= k \/ y > j + 1
      BY <1>1, <1>8, <3>1, <3>2 DEF MergeOrdered
    <3>3. CASE y = k + 1
      BY <1>1, <1>3, <1>8, <3>1, <3>3 DEF MergeOrdered
    <3>4. CASE k + 1 < y /\ y <= j + 1
      <4>1. u[y] = v[y - 1] /\ y - 1 \in lo + 1 .. hi /\ x < y - 1
        BY <1>1, <1>8, <3>1, <3>4
      <4> QED
        BY <3>1, <4>1 DEF MergeOrdered
    <3> QED
      BY <1>1, <3>1, <3>2, <3>3, <3>4
  <2>4. \A y \in lo + 1 .. hi : k + 1 < y => Precedes(key, rank, u[k + 1], u[y])
    <3> SUFFICES ASSUME NEW y \in lo + 1 .. hi, k + 1 < y PROVE Precedes(key, rank, u[k + 1], u[y])
      OBVIOUS
    <3>1. CASE y <= j + 1
      <4>1. u[y] = v[y - 1] /\ y - 1 \in k + 1 .. j
        BY <1>1, <1>8, <3>1
      <4> QED
        BY <1>8, <2>2, <4>1
    <3>2. CASE ~ (y <= j + 1)
      <4>1. u[y] = v[y] /\ y \in j + 1 + 1 .. hi
        BY <1>1, <1>8, <3>2
      <4> QED
        BY <1>8, <2>1, <4>1
    <3> QED
      BY <3>1, <3>2
  <2>5. \A x \in lo + 1 .. k + 1, y \in lo + 1 .. hi : x < y => Precedes(key, rank, u[x], u[y])
    <3> SUFFICES ASSUME NEW x \in lo + 1 .. k + 1, NEW y \in lo + 1 .. hi, x < y PROVE Precedes(key, rank, u[x], u[y])
      OBVIOUS
    <3>1. CASE x = k + 1
      BY <2>4, <3>1
    <3>2. CASE x # k + 1
      <4>1. x \in lo + 1 .. k
        BY <1>1, <3>2
      <4> QED
        BY <2>3, <4>1
    <3> QED
      BY <3>1, <3>2
  <2>6. Ascends(key, rank, u, k + 1 + 1, j + 1)
    <3> SUFFICES ASSUME NEW x \in k + 1 + 1 .. j + 1, NEW y \in k + 1 + 1 .. j + 1, x < y PROVE Precedes(key, rank, u[x], u[y])
      BY DEF Ascends
    <3>1. u[x] = v[x - 1] /\ u[y] = v[y - 1] /\ x - 1 \in k + 1 .. j /\ y - 1 \in k + 1 .. j /\ x - 1 < y - 1
      BY <1>1, <1>3, <1>8
    <3> QED
      BY <3>1 DEF MergeOrdered, Ascends
  <2>7. Ascends(key, rank, u, j + 1 + 1, hi)
    <3> SUFFICES ASSUME NEW x \in j + 1 + 1 .. hi, NEW y \in j + 1 + 1 .. hi, x < y PROVE Precedes(key, rank, u[x], u[y])
      BY DEF Ascends
    <3>1. u[x] = v[x] /\ u[y] = v[y] /\ x \in j + 1 .. hi /\ y \in j + 1 .. hi
      BY <1>1, <1>3, <1>8
    <3> QED
      BY <3>1 DEF MergeOrdered, Ascends
  <2>8. \A x \in k + 1 + 1 .. j + 1, y \in j + 1 + 1 .. hi : rank[u[x]] < rank[u[y]]
    <3> SUFFICES ASSUME NEW x \in k + 1 + 1 .. j + 1, NEW y \in j + 1 + 1 .. hi PROVE rank[u[x]] < rank[u[y]]
      OBVIOUS
    <3>1. u[x] = v[x - 1] /\ u[y] = v[y] /\ x - 1 \in k + 1 .. j /\ y \in j + 1 .. hi
      BY <1>1, <1>3, <1>8
    <3> QED
      BY <3>1 DEF MergeOrdered
  <2> QED
    BY <2>5, <2>6, <2>7, <2>8 DEF MergeOrdered
<1> QED
  BY <1>3, <1>6, <1>7, <1>9, <1>10 DEF u

\* Merging makes one list of two, of which all of the first rank before all of the second.
LEMMA MergeWorks ==
  ASSUME NEW key, NEW rank, Ranking(key, rank), NEW n, NEW lo \in 0 .. n, NEW hi \in lo .. n, lo < hi,
         NEW m \in Merges, NEW v, NEW k, NEW j, MergeLinked(n, lo, hi, m, v, k, j), MergeOrdered(key, rank, lo, hi, v, k, j)
  PROVE  MergeDone(key, rank, n, lo, hi, m.next, v, Merging(key)[m])
<1> DEFINE State(s, w, a, b) == MergeLinked(n, lo, hi, s, w, a, b) /\ MergeOrdered(key, rank, lo, hi, w, a, b)
           Done(s, w) == MergeDone(key, rank, n, lo, hi, s.next, w, Merging(key)[s])
           R == {s \in Merges : \A w, a, b : State(s, w, a, b) => Done(s, w)}
<1>1. MergeStops \subseteq R
  <2> SUFFICES ASSUME NEW s \in MergeStops, NEW w, NEW a, NEW b, State(s, w, a, b) PROVE Done(s, w)
    BY DEF MergeStops
  <2>1. /\ n \in Nat /\ lo \in Nat /\ hi \in Nat /\ lo < hi /\ hi <= n
        /\ a \in Nat /\ b \in Nat /\ lo <= a /\ a <= b /\ b <= hi /\ Listing(w, n)
        /\ \A x \in 1 .. n : w[x] \in Entities /\ w[x] # 0
        /\ \A x, y \in 1 .. n : w[x] = w[y] => x = y
    <3>1. Listing(w, n) /\ a \in lo .. b /\ b \in lo .. hi
      BY DEF MergeLinked
    <3> QED
      BY <3>1, ListingFacts
  <2>2. s \in Merges
    BY DEF MergeStops
  <2>3. a = hi /\ b = hi /\ s.left = 0 /\ s.right = 0
    <3>1. s.most \in Int /\ s.most >= hi - a
      BY <2>2, MergeFields DEF MergeLinked
    <3>2. CASE s.left = 0 /\ s.right = 0
      <4>1. ~ (a < b) /\ ~ (b < hi)
        <5>1. a < b => s.left # 0
          BY <2>1 DEF MergeLinked
        <5>2. b < hi => s.right # 0
          BY <2>1 DEF MergeLinked
        <5> QED
          BY <3>2, <5>1, <5>2
      <4> QED
        BY <2>1, <3>2, <4>1
    <3>3. CASE s.most = 0
      <4>1. a = hi /\ b = hi
        BY <2>1, <3>1, <3>3
      <4> QED
        BY <2>1, <4>1 DEF MergeLinked
    <3> QED
      BY <3>2, <3>3 DEF MergeStops
  <2>4. Merging(key)[s] = Ended(s)
    BY <2>2, <2>3, MergingIs
  <2>5. s.head = w[lo + 1] /\ s.tail = w[hi] /\ s.tail # 0 /\ s.next \in Links /\ hi \in 1 .. n
    BY <2>1, <2>2, <2>3, MergeFields DEF MergeLinked
  <2>6. Ended(s).head = w[lo + 1] /\ Ended(s).next = LinkTo(s.next, w[hi], 0) /\ 0 \in References
    BY <2>2, <2>5, EndedFacts, SortingAssumption DEF References
  <2>7. \A e \in Entities : Ended(s).next[e] = IF e = w[hi] THEN 0 ELSE s.next[e]
    BY <2>5, <2>6, LinkToFacts
  <2>8. Chain(Ended(s).next, w, lo + 1, hi)
    <3> SUFFICES ASSUME NEW x \in lo + 1 .. hi PROVE Ended(s).next[w[x]] = IF x < hi THEN w[x + 1] ELSE 0
      BY DEF Chain
    <3>1. x \in 1 .. n /\ x \in Int /\ (x < hi => x \in lo + 1 .. a - 1)
      BY <2>1, <2>3
    <3>2. x < hi => s.next[w[x]] = w[x + 1] /\ w[x] # w[hi]
      BY <2>1, <2>5, <3>1 DEF MergeLinked
    <3> QED
      BY <2>1, <2>7, <3>1, <3>2
  <2>9. Ascends(key, rank, w, lo + 1, hi)
    BY <2>1, <2>3 DEF MergeOrdered, Ascends
  <2>10. \A e \in Entities : (\A x \in lo + 1 .. hi : w[x] # e) => Ended(s).next[e] = s.next[e]
    <3>1. hi \in lo + 1 .. hi
      BY <2>1
    <3> QED
      BY <2>7, <3>1
  <2> QED
    BY <2>1, <2>4, <2>6, <2>8, <2>9, <2>10 DEF MergeDone
<1>2. ASSUME NEW s \in Merges \ MergeStops, MergeStep(key)[s] \in R PROVE s \in R
  <2> SUFFICES ASSUME NEW w, NEW a, NEW b, State(s, w, a, b) PROVE Done(s, w)
    OBVIOUS
  <2> DEFINE t == Taken(key, s)
  <2>1. t \in R /\ Merging(key)[s] = Merging(key)[t]
    <3>1. ~ (s.left = 0 /\ s.right = 0) /\ s.most # 0
      BY DEF MergeStops
    <3>2. MergeStep(key)[s] = t
      BY DEF MergeStep
    <3>3. Merging(key)[s] = Merging(key)[t]
      BY <3>1, MergingIs
    <3> HIDE DEF t, R
    <3> QED
      BY <1>2, <3>2, <3>3
  <2>2. CASE TakesLeft(key, s)
    <3>1. State(t, w, a + 1, b) /\ \A e \in Entities : (\A x \in lo + 1 .. hi : w[x] # e) => t.next[e] = s.next[e]
      BY <2>2, MergeTakesLeft
    <3> HIDE DEF t, State
    <3>2. Done(t, w)
      BY <2>1, <3>1
    <3>3. MergeDone(key, rank, n, lo, hi, s.next, w, Merging(key)[t])
      BY <3>1, <3>2 DEF MergeDone
    <3> QED
      BY <2>1, <3>3
  <2>3. CASE ~ TakesLeft(key, s)
    <3> DEFINE q == Rotated(w, a, b)
    <3>1. b < hi /\ State(t, q, a + 1, b + 1) /\ \A e \in Entities : (\A x \in lo + 1 .. hi : w[x] # e) => t.next[e] = s.next[e]
      BY <2>3, MergeTakesRight
    <3>2. /\ n \in Nat /\ lo \in Nat /\ hi \in Nat /\ hi <= n
          /\ a \in Nat /\ b \in Nat /\ lo <= a /\ a <= b /\ b <= hi /\ Listing(w, n)
      <4>1. Listing(w, n) /\ a \in lo .. b /\ b \in lo .. hi
        BY DEF MergeLinked
      <4> QED
        BY <4>1, ListingFacts
    <3>3. \A x \in 1 .. n : q[x] = w[Origin(a, b, x)]
      <4>1. b < hi
        BY <3>1
      <4>2. a \in 0 .. n /\ b \in a .. n /\ b < n
        BY <3>2, <4>1
      <4>3. Listing(w, n)
        BY <3>2
      <4> HIDE DEF t, State
      <4> QED
        BY <4>2, <4>3, RotatedFacts
    <3>4. /\ \A x \in 1 .. n : x \notin lo + 1 .. hi => Origin(a, b, x) = x
          /\ \A x \in lo + 1 .. hi : x \in 1 .. n /\ Origin(a, b, x) \in lo + 1 .. hi
      BY <3>1, <3>2 DEF Origin
    <3> HIDE DEF t, State, q
    <3>5. Done(t, q)
      BY <2>1, <3>1
    <3>6. PICK u : /\ Listing(u, n) /\ Merging(key)[t].head = u[lo + 1] /\ Chain(Merging(key)[t].next, u, lo + 1, hi)
                   /\ Ascends(key, rank, u, lo + 1, hi)
                   /\ \A x \in 1 .. n : x \notin lo + 1 .. hi => u[x] = q[x]
                   /\ \A x \in lo + 1 .. hi : \E y \in lo + 1 .. hi : u[x] = q[y]
                   /\ \A e \in Entities : (\A x \in lo + 1 .. hi : q[x] # e) => Merging(key)[t].next[e] = t.next[e]
      BY <3>5 DEF MergeDone
    <3>7. \A x \in 1 .. n : x \notin lo + 1 .. hi => u[x] = w[x]
      BY <3>3, <3>4, <3>6
    <3>8. \A x \in lo + 1 .. hi : \E y \in lo + 1 .. hi : u[x] = w[y]
      BY <3>3, <3>4, <3>6
    <3>9. \A e \in Entities : (\A x \in lo + 1 .. hi : w[x] # e) => Merging(key)[t].next[e] = s.next[e]
      BY <3>1, <3>3, <3>4, <3>6
    <3>10. MergeDone(key, rank, n, lo, hi, s.next, w, Merging(key)[t])
      BY <3>6, <3>7, <3>8, <3>9 DEF MergeDone
    <3> QED
      BY <2>1, <3>10
  <2> QED
    BY <2>2, <2>3
<1>3. R \in SUBSET Merges
  OBVIOUS
<1> HIDE DEF R
<1>4. R = Merges
  BY <1>1, <1>2, <1>3, MergingIs, LoopInduction
<1> QED
  BY <1>4 DEF R

LEMMA MergedIs ==
  ASSUME NEW key, NEW rank, Ranking(key, rank), NEW n, NEW v, Listing(v, n), NEW next \in Links,
         NEW lo \in Nat, NEW mid \in Nat, NEW hi \in Nat, lo < mid, mid < hi, hi <= n,
         Chain(next, v, lo + 1, mid), Chain(next, v, mid + 1, hi),
         Ascends(key, rank, v, lo + 1, mid), Ascends(key, rank, v, mid + 1, hi),
         \A x \in lo + 1 .. mid, y \in mid + 1 .. hi : rank[v[x]] < rank[v[y]]
  PROVE  MergeDone(key, rank, n, lo, hi, next, v, Merged(key, next, v[lo + 1], v[mid + 1]))
<1> DEFINE m == [next |-> next, head |-> 0, tail |-> 0, left |-> v[lo + 1], right |-> v[mid + 1], most |-> MaxLength]
<1>1. n \in Nat /\ n <= MaxLength /\ MaxLength \in Nat /\ \A x \in 1 .. n : v[x] \in References
  BY ListingFacts
<1>2. v[lo + 1] \in References /\ v[mid + 1] \in References
  BY <1>1
<1>3. m \in Merges
  BY <1>1, <1>2 DEF Merges, References
<1>4. MergeLinked(n, lo, hi, m, v, lo, mid)
  BY <1>1 DEF MergeLinked
<1>5. MergeOrdered(key, rank, lo, hi, v, lo, mid)
  BY <1>1 DEF MergeOrdered
<1>6. m.next = next /\ Merged(key, next, v[lo + 1], v[mid + 1]) = Merging(key)[m]
  BY DEF Merged
<1>7. lo \in 0 .. n /\ hi \in lo .. n /\ lo < hi
  BY <1>1
<1> HIDE DEF m
<1>8. MergeDone(key, rank, n, lo, hi, m.next, v, Merging(key)[m])
  BY <1>3, <1>4, <1>5, <1>7, MergeWorks
<1> QED
  BY <1>6, <1>8

-----------------------------------------------------------------------------
(* A pass, which makes lists of 2w of lists of w.                          *)

Multiples(w) == {c * w : c \in Nat}

LEMMA MultiplesFacts ==
  ASSUME NEW w \in Nat, w > 0
  PROVE  /\ Multiples(w) \subseteq Nat /\ 0 \in Multiples(w)
         /\ \A c \in Multiples(w) : c + w \in Multiples(w)
         /\ \A c, d \in Multiples(w) : c < d => c + w <= d
         /\ Multiples(2 * w) \subseteq Multiples(w)
<1>1. \A c \in Nat : c * w \in Nat
  OBVIOUS
<1>2. 0 * w = 0
  OBVIOUS
<1>3. ASSUME NEW c \in Nat PROVE (c + 1) * w = c * w + w
  OBVIOUS
<1>4. ASSUME NEW c \in Nat, NEW d \in Nat, c * w < d * w PROVE c * w + w <= d * w
  <2>1. c < d
    <3>1. ASSUME d <= c PROVE FALSE
      <4>1. PICK k \in Nat : c = d + k
        <5>1. c - d \in Nat /\ c = d + (c - d)
          BY <3>1
        <5> QED
          BY <5>1
      <4>2. c * w = d * w + k * w /\ k * w \in Nat /\ d * w \in Nat
        BY <4>1
      <4> QED
        BY <1>4, <4>2
    <3> QED
      BY <3>1
  <2>2. PICK k \in Nat : d = c + 1 + k
    <3>1. d - (c + 1) \in Nat /\ d = c + 1 + (d - (c + 1))
      BY <2>1
    <3> QED
      BY <3>1
  <2>3. d * w = c * w + w + k * w /\ k * w \in Nat /\ c * w \in Nat
    BY <2>2
  <2> QED
    BY <2>3
<1>5. ASSUME NEW c \in Nat PROVE c * (2 * w) = (2 * c) * w /\ 2 * c \in Nat
  OBVIOUS
<1>6. Multiples(w) \subseteq Nat /\ 0 \in Multiples(w)
  BY <1>1, <1>2 DEF Multiples
<1>7. ASSUME NEW c \in Multiples(w) PROVE c + w \in Multiples(w)
  <2>1. PICK k \in Nat : c = k * w
    BY DEF Multiples
  <2>2. c + w = (k + 1) * w /\ k + 1 \in Nat
    BY <1>3, <2>1
  <2> QED
    BY <2>2 DEF Multiples
<1>8. ASSUME NEW c \in Multiples(w), NEW d \in Multiples(w), c < d PROVE c + w <= d
  <2>1. PICK k \in Nat : c = k * w
    BY DEF Multiples
  <2>2. PICK l \in Nat : d = l * w
    BY DEF Multiples
  <2> QED
    BY <1>4, <1>8, <2>1, <2>2
<1>9. ASSUME NEW c \in Multiples(2 * w) PROVE c \in Multiples(w)
  <2>1. PICK k \in Nat : c = k * (2 * w)
    BY DEF Multiples
  <2>2. c = (2 * k) * w /\ 2 * k \in Nat
    BY <1>5, <2>1
  <2> QED
    BY <2>2 DEF Multiples
<1> QED
  BY <1>6, <1>7, <1>8, <1>9

Block(key, rank, v, n, c, w) ==
  /\ \A x, y \in 1 .. n : c < x /\ x < y /\ y <= c + w => Precedes(key, rank, v[x], v[y])
  /\ \A x \in 1 .. n : c < x /\ x <= c + w => c < rank[v[x]] /\ rank[v[x]] <= c + w
Blocks(key, rank, v, n, w) == \A c \in Multiples(w) : Block(key, rank, v, n, c, w)

\* The first d entities of v are in the new list, in lists of 2w.
PassLinked(n, p, v, d) ==
  /\ Listing(v, n) /\ d \in 0 .. n
  /\ p.current = IF d < n THEN v[d + 1] ELSE 0
  /\ p.head = IF d = 0 THEN 0 ELSE v[1]
  /\ p.tail = IF d = 0 THEN 0 ELSE v[d]
  /\ p.most >= n - d
  /\ Chain(p.next, v, 1, d) /\ Chain(p.next, v, d + 1, n)
PassOrdered(key, rank, n, w, v, d) ==
  /\ d = n \/ d \in Multiples(2 * w)
  /\ \A c \in Multiples(2 * w) : c < d => Block(key, rank, v, n, c, 2 * w)
  /\ \A c \in Multiples(w) : c >= d => Block(key, rank, v, n, c, w)
PassDone(key, rank, n, w, r) ==
  \E u : Listing(u, n) /\ r.head = u[1] /\ Chain(r.next, u, 1, n) /\ Blocks(key, rank, u, n, 2 * w)

LEMMA PassFields ==
  ASSUME NEW p \in Passes
  PROVE  /\ p.next \in Links /\ p.current \in References /\ p.head \in References /\ p.tail \in References
         /\ p.most \in 0 .. MaxLength
         /\ p = [next |-> p.next, current |-> p.current, head |-> p.head, tail |-> p.tail, most |-> p.most]
BY DEF Passes

LEMMA EntitiesFacts ==
  /\ MaxLength \in Nat /\ 0 \in References /\ Entities \subseteq References /\ 0 \notin Entities
  /\ \A e \in References : e # 0 => e \in Entities
BY SortingAssumption DEF References, Entities

LEMMA NthType ==
  ASSUME NEW next \in Links, NEW node \in References, NEW n \in 0 .. MaxLength
  PROVE  NthOf(next, node, n) \in References /\ (node # 0 => NthOf(next, node, n) \in Entities)
<1> DEFINE R == {l \in Leads : l.at # 0 => Going(next)[l] # 0}
<1>1. GoStops(next) \subseteq R
  <2> SUFFICES ASSUME NEW l \in GoStops(next), l.at # 0 PROVE Going(next)[l] # 0
    BY DEF GoStops
  <2>1. l \in Leads /\ (l.n <= 1 \/ l.at = 0 \/ next[l.at] = 0)
    BY DEF GoStops
  <2>2. Going(next)[l] = l.at
    BY <2>1, GoingIs
  <2> QED
    BY <2>2
<1>2. ASSUME NEW l \in Leads \ GoStops(next), GoStep(next)[l] \in R PROVE l \in R
  <2>1. GoStep(next)[l] = Lead(next[l.at], l.n - 1) /\ next[l.at] # 0
    BY DEF GoStep, GoStops
  <2>2. Going(next)[l] = Going(next)[Lead(next[l.at], l.n - 1)]
    BY GoingIs DEF GoStops
  <2>3. Lead(next[l.at], l.n - 1).at # 0
    BY <2>1 DEF Lead
  <2> QED
    BY <1>2, <2>1, <2>2, <2>3
<1>3. R \in SUBSET Leads
  OBVIOUS
<1> HIDE DEF R
<1>4. R = Leads
  BY <1>1, <1>2, <1>3, GoingIs, LoopInduction
<1>5. Lead(node, n) \in Leads /\ Lead(node, n).at = node
  BY DEF Lead, Leads
<1>6. Going(next)[Lead(node, n)] \in References
  BY <1>5, GoingIs
<1>7. node # 0 => Going(next)[Lead(node, n)] # 0
  BY <1>4, <1>5 DEF R
<1> QED
  BY <1>6, <1>7, EntitiesFacts DEF NthOf

LEMMA CutType ==
  ASSUME NEW next \in Links, NEW node \in Entities, NEW n \in 0 .. MaxLength
  PROVE  /\ Cut(next, node, n) = LinkTo(next, NthOf(next, node, n), 0) /\ Cut(next, node, n) \in Links
         /\ Behind(next, node, n) \in References
<1>1. NthOf(next, node, n) \in Entities
  BY EntitiesFacts, NthType
<1>2. LinkTo(next, NthOf(next, node, n), 0) \in Links
  BY EntitiesFacts, LinkToFacts
<1> QED
  BY <1>1, <1>2, LinksFacts DEF Cut, Behind, LinkTo

LEMMA MergedType ==
  ASSUME NEW key, NEW next \in Links, NEW left \in References, NEW right \in References
  PROVE  Merged(key, next, left, right) \in Merges
<1>1. [next |-> next, head |-> 0, tail |-> 0, left |-> left, right |-> right, most |-> MaxLength] \in Merges
  BY EntitiesFacts DEF Merges
<1> QED
  BY <1>1, MergingIs DEF Merged

PairedParts(key, w, p, right, cut, cut2, m, linked) ==
  /\ right = Behind(p.next, p.current, w) /\ cut = Cut(p.next, p.current, w) /\ cut2 = Cut(cut, right, w)
  /\ m = Merged(key, cut2, p.current, right)
  /\ linked = (IF p.head = 0 THEN m.next ELSE LinkTo(m.next, p.tail, m.head))
  /\ right \in Entities /\ cut \in Links /\ cut2 \in Links /\ m \in Merges /\ linked \in Links
  /\ Paired(key, w, p) = [next |-> linked, current |-> Behind(cut, right, w),
                          head |-> IF p.head = 0 THEN m.head ELSE p.head,
                          tail |-> LastOf(linked, m.head), most |-> p.most - 1]
  /\ Paired(key, w, p) \in Passes

LEMMA PairedFacts ==
  ASSUME NEW key, NEW w \in 1 .. MaxLength, NEW p \in Passes, p.current # 0, p.most # 0, ~ Unpaired(w, p)
  PROVE  \E right, cut, cut2, m, linked : PairedParts(key, w, p, right, cut, cut2, m, linked)
<1> DEFINE right == Behind(p.next, p.current, w)
           cut == Cut(p.next, p.current, w)
           cut2 == Cut(cut, right, w)
           m == Merged(key, cut2, p.current, right)
           linked == IF p.head = 0 THEN m.next ELSE LinkTo(m.next, p.tail, m.head)
           next == [next |-> linked, current |-> Behind(cut, right, w),
                    head |-> IF p.head = 0 THEN m.head ELSE p.head,
                    tail |-> LastOf(linked, m.head), most |-> p.most - 1]
<1>0. w \in 0 .. MaxLength /\ p.most - 1 \in 0 .. MaxLength /\ MaxLength \in 0 .. MaxLength
  BY EntitiesFacts, PassFields
<1>1. Paired(key, w, p) = next
  BY DEF Paired, PairedWith, Joined, Appended, LinkTo
<1>2. p.current \in Entities /\ p.next \in Links
  BY PassFields, EntitiesFacts
<1>3. right \in Entities /\ cut \in Links
  BY <1>0, <1>2, CutType, EntitiesFacts DEF Unpaired
<1> HIDE DEF right, cut
<1>4. cut2 \in Links /\ Behind(cut, right, w) \in References
  BY <1>0, <1>3, CutType
<1> HIDE DEF cut2
<1>5. m \in Merges
  BY <1>2, <1>3, <1>4, MergedType, EntitiesFacts
<1> HIDE DEF m
<1>6. linked \in Links
  BY <1>5, MergeFields, PassFields, LinkToFacts
<1> HIDE DEF linked
<1>7. LastOf(linked, m.head) \in References
  BY <1>0, <1>5, <1>6, MergeFields, NthType DEF LastOf
<1>8. next \in Passes
  BY <1>0, <1>4, <1>5, <1>6, <1>7, MergeFields, PassFields DEF Passes
<1>9. PairedParts(key, w, p, right, cut, cut2, m, linked)
  BY <1>1, <1>3, <1>4, <1>5, <1>6, <1>8 DEF PairedParts, right, cut, cut2, m, linked
<1> QED
  BY <1>9

LEMMA AttachedFacts ==
  ASSUME NEW p \in Passes
  PROVE  /\ Attached(p) \in Passes
         /\ Attached(p).head = p.head /\ Attached(p).next = LinkTo(p.next, p.tail, p.current)
<1>1. LinkTo(p.next, p.tail, p.current) \in Links
  BY PassFields, LinkToFacts
<1> DEFINE next == LinkTo(p.next, p.tail, p.current)
<1>2. Attached(p) = [p EXCEPT !.next = next, !.current = 0]
  BY PassFields DEF Attached, LinkTo
<1> HIDE DEF next
<1>3. Attached(p) = [next |-> next, current |-> 0, head |-> p.head, tail |-> p.tail, most |-> p.most]
  BY <1>2, PassFields
<1> QED
  BY <1>1, <1>3, PassFields, EntitiesFacts DEF Passes, next

PassStops(w) == {p \in Passes : p.current = 0 \/ p.most = 0 \/ Unpaired(w, p)}
PassStep(key, w) == [p \in Passes |-> IF p \in PassStops(w) THEN p ELSE Paired(key, w, p)]
PassLeft == [p \in Passes |-> p.most]

LEMMA PassingIs ==
  ASSUME NEW key, NEW w \in 1 .. MaxLength
  PROVE  /\ Decreases(Passes, PassStops(w), PassStep(key, w), PassLeft, MaxLength)
         /\ Passing(key, w) = [p \in Passes |-> IF p.current = 0 \/ p.most = 0 THEN p
                                                ELSE IF Unpaired(w, p) THEN Attached(p)
                                                ELSE Passing(key, w)[Paired(key, w, p)]]
         /\ Passing(key, w) \in [Passes -> Passes]
<1> DEFINE Is(f) == f = [p \in Passes |-> IF p.current = 0 \/ p.most = 0 THEN p
                                          ELSE IF Unpaired(w, p) THEN Attached(p) ELSE f[Paired(key, w, p)]]
           out == [p \in Passes |-> IF p.current = 0 \/ p.most = 0 THEN p ELSE Attached(p)]
<1>1. ASSUME NEW p \in Passes, p \notin PassStops(w)
      PROVE  Paired(key, w, p) \in Passes /\ Paired(key, w, p).most = p.most - 1
  <2>1. PICK right, cut, cut2, m, linked : PairedParts(key, w, p, right, cut, cut2, m, linked)
    BY <1>1, PairedFacts DEF PassStops
  <2> QED
    BY <2>1 DEF PairedParts
<1>2. PassStep(key, w) \in [Passes -> Passes]
  BY <1>1 DEF PassStep
<1>3. PassLeft \in [Passes -> 0 .. MaxLength]
  BY PassFields DEF PassLeft
<1>4. ASSUME NEW p \in Passes \ PassStops(w) PROVE PassLeft[PassStep(key, w)[p]] < PassLeft[p]
  BY <1>1, EntitiesFacts, PassFields DEF PassLeft, PassStep
<1>5. Decreases(Passes, PassStops(w), PassStep(key, w), PassLeft, MaxLength)
  BY <1>2, <1>3, <1>4, EntitiesFacts DEF Decreases, PassStops
<1>6. out \in [Passes -> Passes] /\ \A p \in Passes : out[p] = IF p.current = 0 \/ p.most = 0 THEN p ELSE Attached(p)
  BY AttachedFacts
<1>7. Passes # {}
  <2> DEFINE p == [next |-> [e \in Entities |-> 0], current |-> 0, head |-> 0, tail |-> 0, most |-> 0]
  <2>1. 0 \in References /\ 0 \in 0 .. MaxLength /\ [e \in Entities |-> 0] \in Links
    BY EntitiesFacts DEF Links
  <2>2. p \in Passes
    BY <2>1 DEF Passes
  <2> QED
    BY <2>2
<1> HIDE DEF out
<1>8. PICK f \in [Passes -> Passes] : IsLoop(f, Passes, PassStops(w), out, PassStep(key, w))
  BY <1>5, <1>6, <1>7, LoopExists
<1>9. Is(f)
  <2>1. \A p \in Passes : (IF p \in PassStops(w) THEN out[p] ELSE f[PassStep(key, w)[p]])
                         = IF p.current = 0 \/ p.most = 0 THEN p
                           ELSE IF Unpaired(w, p) THEN Attached(p) ELSE f[Paired(key, w, p)]
    BY <1>6 DEF PassStops, PassStep
  <2> QED
    BY <1>8, <2>1 DEF IsLoop
<1>10. Passing(key, w) = CHOOSE g : Is(g)
  BY DEF Passing
<1>11. Is(Passing(key, w))
  BY <1>9, <1>10
<1> HIDE DEF Is
<1>12. Passing(key, w) \in [Passes -> Passes]
  <2> DEFINE R == {p \in Passes : Passing(key, w)[p] \in Passes}
  <2>1. PassStops(w) \subseteq R
    BY <1>11, AttachedFacts DEF Is, PassStops
  <2>2. ASSUME NEW p \in Passes \ PassStops(w), PassStep(key, w)[p] \in R PROVE p \in R
    BY <1>11, <2>2 DEF Is, PassStops, PassStep
  <2>3. R \in SUBSET Passes
    OBVIOUS
  <2> HIDE DEF R
  <2>4. R = Passes
    BY <1>5, <2>1, <2>2, <2>3, LoopInduction
  <2>5. Passing(key, w) = [p \in Passes |-> Passing(key, w)[p]]
    BY <1>11 DEF Is
  <2> QED
    BY <2>4, <2>5 DEF R
<1> QED
  BY <1>5, <1>11, <1>12 DEF Is
PassFacts(n, w, p, v, d) ==
  /\ n \in Nat /\ n <= MaxLength /\ MaxLength \in Nat /\ d \in Nat /\ d <= n /\ w \in Nat /\ 1 <= w /\ Listing(v, n)
  /\ \A x \in 1 .. n : v[x] \in Entities /\ v[x] \in References /\ v[x] # 0
  /\ \A x, y \in 1 .. n : v[x] = v[y] => x = y

LEMMA PassHas ==
  ASSUME NEW n, NEW w \in 1 .. MaxLength, NEW p \in Passes, NEW v, NEW d, PassLinked(n, p, v, d)
  PROVE  PassFacts(n, w, p, v, d)
<1>1. Listing(v, n) /\ d \in 0 .. n
  BY DEF PassLinked
<1> QED
  BY <1>1, ListingFacts DEF PassFacts

\* Where the sublist that starts behind d ends.
LEMMA PassEnds ==
  ASSUME NEW n, NEW w \in 1 .. MaxLength, NEW p \in Passes, NEW v, NEW d, PassLinked(n, p, v, d), d < n
  PROVE  /\ p.current = v[d + 1] /\ p.current # 0
         /\ (n <= d + w => Unpaired(w, p))
         /\ (d + w < n => /\ ~ Unpaired(w, p)
                          /\ NthOf(p.next, p.current, w) = v[d + w] /\ Behind(p.next, p.current, w) = v[d + w + 1])
<1>1. PassFacts(n, w, p, v, d)
  BY PassHas
<1>2. p.current = v[d + 1] /\ d + 1 \in 1 .. n /\ n \in d + 1 .. n /\ p.next \in Links /\ Chain(p.next, v, d + 1, n)
  BY <1>1, PassFields DEF PassFacts, PassLinked
<1>3. NthOf(p.next, p.current, w) = v[IF d + 1 + w - 1 <= n THEN d + 1 + w - 1 ELSE n]
  BY <1>1, <1>2, NthIs DEF PassFacts
<1>4. CASE d + w < n
  <2>1. d + 1 + w - 1 = d + w /\ d + w <= n /\ d + w \in d + 1 .. n /\ d + w + 1 \in 1 .. n
    BY <1>1, <1>4 DEF PassFacts
  <2>2. NthOf(p.next, p.current, w) = v[d + w]
    BY <1>3, <2>1
  <2>3. p.next[v[d + w]] = v[d + w + 1]
    BY <1>2, <1>4, <2>1 DEF Chain
  <2> QED
    BY <1>1, <1>2, <1>4, <2>1, <2>2, <2>3 DEF PassFacts, Behind, Unpaired
<1>5. CASE ~ (d + w < n)
  <2>1. (IF d + 1 + w - 1 <= n THEN d + 1 + w - 1 ELSE n) = n /\ n <= d + w
    BY <1>1, <1>5 DEF PassFacts
  <2>2. p.next[v[n]] = 0
    BY <1>1, <1>2 DEF Chain, PassFacts
  <2> QED
    BY <1>1, <1>2, <1>3, <1>5, <2>1, <2>2 DEF PassFacts, Behind, Unpaired
<1> QED
  BY <1>4, <1>5

\* A single sublist at the end is attached as it is.
LEMMA PassAttaches ==
  ASSUME NEW key, NEW rank, Ranking(key, rank), NEW n, NEW w \in 1 .. MaxLength, w < n, NEW p \in Passes, NEW v, NEW d,
         PassLinked(n, p, v, d), PassOrdered(key, rank, n, w, v, d), d < n, n <= d + w
  PROVE  PassDone(key, rank, n, w, Attached(p))
<1>1. PassFacts(n, w, p, v, d)
  BY PassHas
<1>2. d # 0 /\ d \in 1 .. n /\ d + 1 \in 1 .. n /\ p.tail = v[d] /\ p.head = v[1] /\ p.current = v[d + 1] /\ p.next \in Links
  BY <1>1, PassFields DEF PassFacts, PassLinked
<1>3. /\ Attached(p).head = v[1]
      /\ \A e \in Entities : Attached(p).next[e] = IF e = v[d] THEN v[d + 1] ELSE p.next[e]
  <2>1. Attached(p).head = v[1] /\ Attached(p).next = LinkTo(p.next, v[d], v[d + 1]) /\ v[d + 1] \in References
    BY <1>1, <1>2, AttachedFacts DEF PassFacts
  <2> QED
    BY <1>2, <2>1, LinkToFacts
<1>4. Chain(Attached(p).next, v, 1, n)
  <2> SUFFICES ASSUME NEW x \in 1 .. n PROVE Attached(p).next[v[x]] = IF x < n THEN v[x + 1] ELSE 0
    BY DEF Chain
  <2>1. Attached(p).next[v[x]] = IF x = d THEN v[d + 1] ELSE p.next[v[x]]
    BY <1>1, <1>2, <1>3 DEF PassFacts
  <2>2. x < d => p.next[v[x]] = v[x + 1]
    BY <1>1 DEF PassFacts, PassLinked, Chain
  <2>3. x > d => p.next[v[x]] = IF x < n THEN v[x + 1] ELSE 0
    BY <1>1 DEF PassFacts, PassLinked, Chain
  <2> QED
    BY <1>1, <2>1, <2>2, <2>3 DEF PassFacts
<1>5. ASSUME NEW c \in Multiples(2 * w) PROVE Block(key, rank, v, n, c, 2 * w)
  <2>1. /\ c \in Nat /\ c \in Multiples(w) /\ d \in Multiples(2 * w) /\ d \in Multiples(w)
        /\ (d < c => d + 2 * w <= c) /\ 2 * w \in Nat
    BY <1>1, MultiplesFacts DEF PassFacts, PassOrdered
  <2>2. CASE c < d
    BY <2>2 DEF PassOrdered
  <2>3. CASE c = d
    <3>1. Block(key, rank, v, n, d, w)
      BY <1>1, <2>1 DEF PassOrdered, PassFacts
    <3>2. \A x, y \in 1 .. n : c < x /\ x < y /\ y <= c + 2 * w => Precedes(key, rank, v[x], v[y])
      BY <1>1, <2>3, <3>1 DEF Block, PassFacts
    <3>3. ASSUME NEW x \in 1 .. n, c < x, x <= c + 2 * w PROVE c < rank[v[x]] /\ rank[v[x]] <= c + 2 * w
      <4>1. d < rank[v[x]] /\ rank[v[x]] <= d + w
        BY <1>1, <2>3, <3>1, <3>3 DEF Block, PassFacts
      <4>2. \A r \in Int : d < r /\ r <= d + w => r <= d + 2 * w
        BY <1>1, <2>1 DEF PassFacts
      <4>3. rank[v[x]] \in Int
        BY <1>1 DEF PassFacts, Ranking
      <4> QED
        BY <2>3, <4>1, <4>2, <4>3
    <3> QED
      BY <3>2, <3>3 DEF Block
  <2>4. CASE c > d
    <3>1. n <= c
      BY <1>1, <2>1, <2>4 DEF PassFacts
    <3>2. \A x \in 1 .. n : ~ (c < x)
      BY <1>1, <2>1, <3>1 DEF PassFacts
    <3> QED
      BY <3>2 DEF Block
  <2> QED
    BY <1>1, <2>1, <2>2, <2>3, <2>4 DEF PassFacts
<1> QED
  BY <1>1, <1>3, <1>4, <1>5 DEF PassDone, PassFacts, Blocks

\* Two sublists are merged and attached.
LEMMA PassPairs ==
  ASSUME NEW key, NEW rank, Ranking(key, rank), NEW n, NEW w \in 1 .. MaxLength, NEW p \in Passes, p.most # 0,
         NEW v, NEW d, PassLinked(n, p, v, d), PassOrdered(key, rank, n, w, v, d), d + w < n
  PROVE  \E u, e : PassLinked(n, Paired(key, w, p), u, e) /\ PassOrdered(key, rank, n, w, u, e)
<1> DEFINE e == IF d + 2 * w <= n THEN d + 2 * w ELSE n
           mid == d + w
<1>1. PassFacts(n, w, p, v, d) /\ p.next \in Links
  BY PassHas, PassFields
<1>2. /\ n \in Nat /\ n <= MaxLength /\ MaxLength \in Nat /\ d \in Nat /\ w \in Nat /\ 1 <= w
      /\ mid = d + w /\ mid \in Nat /\ d < mid /\ mid < n /\ mid \in d + 1 .. n /\ mid \in 1 .. n
      /\ e \in Nat /\ mid < e /\ e <= n /\ e <= d + 2 * w /\ (e = n \/ e = d + 2 * w) /\ e \in mid + 1 .. n /\ e \in 1 .. n
  BY <1>1 DEF PassFacts
<1>3. d \in Multiples(2 * w) /\ d \in Multiples(w) /\ mid \in Multiples(w) /\ 2 * w \in Nat /\ 0 < 2 * w
  <2>1. d # n /\ 2 * w \in Nat /\ 0 < 2 * w
    BY <1>2
  <2> QED
    BY <1>2, <2>1, MultiplesFacts DEF PassOrdered
<1> HIDE DEF e, mid
<1>0. /\ p.current = v[d + 1] /\ p.current # 0 /\ ~ Unpaired(w, p)
      /\ NthOf(p.next, p.current, w) = v[mid] /\ Behind(p.next, p.current, w) = v[mid + 1]
  <2>1. d < n
    BY <1>2
  <2> QED
    BY <2>1, PassEnds DEF mid
<1>4. PICK right, cut, cut2, m, linked : PairedParts(key, w, p, right, cut, cut2, m, linked)
  BY <1>0, PairedFacts
<1>5. p.current = v[d + 1] /\ right = v[mid + 1] /\ NthOf(p.next, p.current, w) = v[mid] /\ mid + 1 \in 1 .. n
  BY <1>0, <1>2, <1>4 DEF PairedParts
<1>6. \A x \in 1 .. n : cut[v[x]] = IF x = mid THEN 0 ELSE p.next[v[x]]
  <2>1. cut = LinkTo(p.next, v[mid], 0) /\ 0 \in References
    BY <1>1, <1>2, <1>4, <1>5, CutType, EntitiesFacts DEF PairedParts, PassFacts
  <2> QED
    BY <1>1, <1>2, <2>1, LinkToFacts DEF PassFacts
<1>7. Chain(cut, v, mid + 1, n)
  BY <1>1, <1>2, <1>6 DEF PassFacts, PassLinked, Chain
<1>8. NthOf(cut, right, w) = v[e]
  <2>1. NthOf(cut, v[mid + 1], w) = v[IF mid + 1 + w - 1 <= n THEN mid + 1 + w - 1 ELSE n]
    <3>1. n \in mid + 1 .. n /\ cut \in Links
      BY <1>2, <1>4 DEF PairedParts
    <3> QED
      BY <1>1, <1>5, <1>7, <3>1, NthIs DEF PassFacts
  <2>2. (IF mid + 1 + w - 1 <= n THEN mid + 1 + w - 1 ELSE n) = e
    BY <1>2 DEF e
  <2> QED
    BY <1>5, <2>1, <2>2
<1>9. /\ \A x \in 1 .. n : cut2[v[x]] = IF x = e \/ x = mid THEN 0 ELSE p.next[v[x]]
      /\ Behind(cut, right, w) = IF e < n THEN v[e + 1] ELSE 0
  <2>1. cut2 = LinkTo(cut, v[e], 0) /\ cut \in Links /\ 0 \in References
    BY <1>1, <1>2, <1>4, <1>8, CutType, EntitiesFacts DEF PairedParts, PassFacts
  <2>2. \A x \in 1 .. n : cut2[v[x]] = IF x = e \/ x = mid THEN 0 ELSE p.next[v[x]]
    BY <1>1, <1>2, <1>6, <2>1, LinkToFacts DEF PassFacts
  <2>3. cut[v[e]] = IF e < n THEN v[e + 1] ELSE 0
    BY <1>2, <1>7 DEF Chain
  <2> QED
    BY <1>8, <2>2, <2>3 DEF Behind
<1>10. Chain(cut2, v, d + 1, mid) /\ Chain(cut2, v, mid + 1, e)
  <2>1. Chain(cut2, v, d + 1, mid)
    BY <1>1, <1>2, <1>9 DEF PassFacts, PassLinked, Chain
  <2>2. Chain(cut2, v, mid + 1, e)
    BY <1>1, <1>2, <1>9 DEF PassFacts, PassLinked, Chain
  <2> QED
    BY <2>1, <2>2
<1>11. Block(key, rank, v, n, d, w) /\ Block(key, rank, v, n, mid, w)
  BY <1>2, <1>3 DEF PassOrdered
<1>12. /\ Ascends(key, rank, v, d + 1, mid) /\ Ascends(key, rank, v, mid + 1, e)
       /\ \A x \in d + 1 .. mid, y \in mid + 1 .. e : rank[v[x]] < rank[v[y]]
  <2>1. Ascends(key, rank, v, d + 1, mid)
    BY <1>2, <1>11 DEF Block, Ascends
  <2>2. Ascends(key, rank, v, mid + 1, e)
    BY <1>2, <1>11 DEF Block, Ascends
  <2>3. ASSUME NEW x \in d + 1 .. mid, NEW y \in mid + 1 .. e PROVE rank[v[x]] < rank[v[y]]
    <3>1. x \in 1 .. n /\ y \in 1 .. n /\ d < x /\ x <= d + w /\ mid < y /\ y <= mid + w
      BY <1>2
    <3>2. rank[v[x]] <= d + w /\ mid < rank[v[y]]
      BY <1>11, <3>1 DEF Block
    <3>3. rank[v[x]] \in Int /\ rank[v[y]] \in Int
      BY <1>1, <3>1 DEF Ranking, PassFacts
    <3> QED
      BY <1>2, <3>2, <3>3
  <2> QED
    BY <2>1, <2>2, <2>3
<1>13. MergeDone(key, rank, n, d, e, cut2, v, m)
  <2>1. m = Merged(key, cut2, v[d + 1], v[mid + 1]) /\ cut2 \in Links
    BY <1>4, <1>5 DEF PairedParts
  <2> QED
    BY <1>1, <1>2, <1>10, <1>12, <2>1, MergedIs DEF PassFacts
<1>14. PICK u : /\ Listing(u, n) /\ m.head = u[d + 1] /\ Chain(m.next, u, d + 1, e) /\ Ascends(key, rank, u, d + 1, e)
                /\ \A x \in 1 .. n : x \notin d + 1 .. e => u[x] = v[x]
                /\ \A x \in d + 1 .. e : \E y \in d + 1 .. e : u[x] = v[y]
                /\ \A f \in Entities : (\A x \in d + 1 .. e : v[x] # f) => m.next[f] = cut2[f]
  BY <1>13 DEF MergeDone
<1>15. /\ \A x \in 1 .. n : u[x] \in Entities /\ u[x] \in References /\ u[x] # 0
       /\ \A x, y \in 1 .. n : u[x] = u[y] => x = y
  BY <1>14, ListingFacts
<1>16. \A x \in 1 .. n : linked[u[x]] = IF d # 0 /\ x = d THEN u[d + 1] ELSE m.next[u[x]]
  <2>1. p.head = (IF d = 0 THEN 0 ELSE v[1]) /\ p.tail = IF d = 0 THEN 0 ELSE v[d]
    BY DEF PassLinked
  <2>2. CASE d = 0
    BY <1>4, <2>1, <2>2 DEF PairedParts
  <2>3. CASE d # 0
    <3>1. d \in 1 .. n /\ 1 \in 1 .. n /\ v[1] # 0 /\ u[d] = v[d]
      BY <1>1, <1>2, <1>14, <2>3 DEF PassFacts
    <3>2. linked = LinkTo(m.next, u[d], u[d + 1]) /\ m.next \in Links /\ u[d + 1] \in References
      BY <1>2, <1>4, <1>14, <1>15, <2>1, <2>3, <3>1, MergeFields DEF PairedParts
    <3> QED
      BY <1>15, <2>3, <3>1, <3>2, LinkToFacts
  <2> QED
    BY <2>2, <2>3
<1>17. \A x \in 1 .. n : x \notin d + 1 .. e => u[x] = v[x] /\ m.next[u[x]] = p.next[v[x]]
  <2> SUFFICES ASSUME NEW x \in 1 .. n, x \notin d + 1 .. e PROVE u[x] = v[x] /\ m.next[u[x]] = p.next[v[x]]
    OBVIOUS
  <2>1. u[x] = v[x] /\ v[x] \in Entities
    BY <1>1, <1>14 DEF PassFacts
  <2>2. \A y \in d + 1 .. e : v[y] # v[x]
    BY <1>1, <1>2 DEF PassFacts
  <2>3. x # e /\ x # mid
    BY <1>2
  <2> QED
    BY <1>9, <1>14, <2>1, <2>2, <2>3
<1>18. Chain(linked, u, 1, e)
  <2> SUFFICES ASSUME NEW x \in 1 .. e PROVE linked[u[x]] = IF x < e THEN u[x + 1] ELSE 0
    BY DEF Chain
  <2>1. x \in 1 .. n /\ x \in Int /\ x + 1 \in Int
    BY <1>2
  <2>2. CASE x < d
    <3>1. linked[u[x]] = m.next[u[x]] /\ x \notin d + 1 .. e /\ x + 1 \in 1 .. n /\ x + 1 \notin d + 1 .. e
      BY <1>2, <1>16, <2>1, <2>2
    <3>2. p.next[v[x]] = v[x + 1]
      BY <1>2, <2>1, <2>2 DEF PassLinked, Chain
    <3>3. u[x + 1] = v[x + 1] /\ m.next[u[x]] = p.next[v[x]]
      BY <1>17, <2>1, <3>1
    <3> QED
      BY <1>2, <2>1, <2>2, <3>1, <3>2, <3>3
  <2>3. CASE x = d
    BY <1>2, <1>16, <2>1, <2>3
  <2>4. CASE x > d
    <3>1. x \in d + 1 .. e /\ x # d
      BY <1>2, <2>1, <2>4
    <3> QED
      BY <1>14, <1>16, <2>1, <3>1 DEF Chain
  <2> QED
    BY <1>2, <2>1, <2>2, <2>3, <2>4
<1>19. Chain(linked, u, e + 1, n)
  <2> SUFFICES ASSUME NEW x \in e + 1 .. n PROVE linked[u[x]] = IF x < n THEN u[x + 1] ELSE 0
    BY DEF Chain
  <2>1. x \in 1 .. n /\ x # d /\ x \notin d + 1 .. e /\ x \in d + 1 .. n /\ (x < n => x + 1 \in 1 .. n /\ x + 1 \notin d + 1 .. e)
    BY <1>2
  <2>2. p.next[v[x]] = IF x < n THEN v[x + 1] ELSE 0
    BY <2>1 DEF PassLinked, Chain
  <2>3. x < n => u[x + 1] = v[x + 1]
    BY <1>17, <2>1
  <2> QED
    BY <1>16, <1>17, <2>1, <2>2, <2>3
<1>20. LastOf(linked, m.head) = u[e]
  <2>1. Chain(linked, u, d + 1, e)
    BY <1>2, <1>18 DEF Chain
  <2>2. d + 1 \in 1 .. n /\ e \in d + 1 .. n /\ MaxLength \in 1 .. MaxLength /\ linked \in Links
    BY <1>2, <1>4 DEF PairedParts
  <2>3. NthOf(linked, u[d + 1], MaxLength) = u[IF d + 1 + MaxLength - 1 <= e THEN d + 1 + MaxLength - 1 ELSE e]
    BY <1>14, <2>1, <2>2, NthIs
  <2>4. (IF d + 1 + MaxLength - 1 <= e THEN d + 1 + MaxLength - 1 ELSE e) = e
    BY <1>2
  <2> QED
    BY <1>14, <2>3, <2>4 DEF LastOf
<1>21. PassLinked(n, Paired(key, w, p), u, e)
  <2>1. /\ Paired(key, w, p).next = linked /\ Paired(key, w, p).current = Behind(cut, right, w)
        /\ Paired(key, w, p).head = (IF p.head = 0 THEN m.head ELSE p.head)
        /\ Paired(key, w, p).tail = u[e] /\ Paired(key, w, p).most = p.most - 1
    BY <1>4, <1>20 DEF PairedParts
  <2>2. Behind(cut, right, w) = IF e < n THEN u[e + 1] ELSE 0
    <3>1. e < n => e + 1 \in 1 .. n /\ e + 1 \notin d + 1 .. e
      BY <1>2
    <3> QED
      BY <1>9, <1>17, <3>1
  <2>3. (IF p.head = 0 THEN m.head ELSE p.head) = u[1]
    <3>1. CASE d = 0
      BY <1>14, <3>1 DEF PassLinked
    <3>2. CASE d # 0
      <4>1. p.head = v[1] /\ 1 \in 1 .. n /\ 1 \notin d + 1 .. e
        BY <1>2, <3>2 DEF PassLinked
      <4> QED
        BY <1>15, <1>17, <4>1
    <3> QED
      BY <3>1, <3>2
  <2>4. p.most - 1 >= n - e
    <3>1. p.most \in Int /\ p.most >= n - d
      BY PassFields DEF PassLinked
    <3> QED
      BY <1>2, <3>1
  <2>5. e # 0 /\ e \in 0 .. n
    BY <1>2
  <2> QED
    BY <1>14, <1>18, <1>19, <2>1, <2>2, <2>3, <2>4, <2>5 DEF PassLinked
<1>22. PassOrdered(key, rank, n, w, u, e)
  <2>1. e = n \/ e \in Multiples(2 * w)
    <3>1. d + 2 * w \in Multiples(2 * w)
      BY <1>3, MultiplesFacts
    <3> QED
      BY <1>2, <3>1
  <2>2. ASSUME NEW c \in Multiples(2 * w), c < e PROVE Block(key, rank, u, n, c, 2 * w)
    <3>1. c \in Nat /\ (d < c => d + 2 * w <= c) /\ (c < d => c + 2 * w <= d)
      BY <1>3, MultiplesFacts
    <3>2. c = d \/ (c < d /\ c + 2 * w <= d)
      BY <1>2, <1>3, <2>2, <3>1
    <3>3. CASE c < d /\ c + 2 * w <= d
      <4>1. Block(key, rank, v, n, c, 2 * w)
        BY <3>3 DEF PassOrdered
      <4>2. \A x \in 1 .. n : x <= c + 2 * w => u[x] = v[x]
        <5>1. \A x \in 1 .. n : x <= c + 2 * w => x \notin d + 1 .. e
          BY <1>2, <1>3, <3>1, <3>3
        <5> QED
          BY <1>17, <5>1
      <4>3. \A x, y \in 1 .. n : x < y /\ y <= c + 2 * w => x <= c + 2 * w
        BY <1>2, <1>3, <3>1
      <4> QED
        BY <4>1, <4>2, <4>3 DEF Block
    <3>4. CASE c = d
      <4>1. \A x \in 1 .. n : d < x /\ x <= d + 2 * w => x \in d + 1 .. e
        BY <1>2
      <4>2. \A x, y \in 1 .. n : c < x /\ x < y /\ y <= c + 2 * w => Precedes(key, rank, u[x], u[y])
        <5>1. \A x, y \in 1 .. n : c < x /\ x < y /\ y <= c + 2 * w => x \in d + 1 .. e /\ y \in d + 1 .. e
          BY <1>2, <1>3, <3>4
        <5> QED
          BY <1>14, <5>1 DEF Ascends
      <4>3. ASSUME NEW x \in 1 .. n, c < x, x <= c + 2 * w PROVE c < rank[u[x]] /\ rank[u[x]] <= c + 2 * w
        <5>1. PICK y \in d + 1 .. e : u[x] = v[y]
          BY <1>14, <3>4, <4>1, <4>3
        <5>2. y \in 1 .. n /\ rank[v[y]] \in Int
          BY <1>1, <1>2 DEF PassFacts, Ranking
        <5>3. CASE y <= mid
          <6>1. d < rank[v[y]] /\ rank[v[y]] <= d + w
            BY <1>2, <1>11, <5>2, <5>3 DEF Block
          <6> QED
            BY <1>2, <3>4, <5>1, <5>2, <6>1
        <5>4. CASE ~ (y <= mid)
          <6>1. mid < y /\ y <= mid + w
            BY <1>2, <5>4
          <6>2. mid < rank[v[y]] /\ rank[v[y]] <= mid + w
            BY <1>11, <5>2, <6>1 DEF Block
          <6> QED
            BY <1>2, <3>4, <5>1, <5>2, <6>2
        <5> QED
          BY <5>3, <5>4
      <4> QED
        BY <4>2, <4>3 DEF Block
    <3> QED
      BY <3>2, <3>3, <3>4
  <2>3. ASSUME NEW c \in Multiples(w), c >= e PROVE Block(key, rank, u, n, c, w)
    <3>1. c \in Nat /\ c >= d
      BY <1>2, <2>3, MultiplesFacts
    <3>2. Block(key, rank, v, n, c, w)
      BY <3>1 DEF PassOrdered
    <3>3. \A x \in 1 .. n : c < x => u[x] = v[x]
      <4>1. \A x \in 1 .. n : c < x => x \notin d + 1 .. e
        BY <1>2, <2>3, <3>1
      <4> QED
        BY <1>17, <4>1
    <3>4. \A x, y \in 1 .. n : c < x /\ x < y => c < y
      BY <1>2, <3>1
    <3> QED
      BY <3>2, <3>3, <3>4 DEF Block
  <2> QED
    BY <2>1, <2>2, <2>3 DEF PassOrdered
<1> QED
  BY <1>21, <1>22

\* A pass over lists of w leaves lists of 2w.
LEMMA PassWorks ==
  ASSUME NEW key, NEW rank, Ranking(key, rank), NEW n, NEW w \in 1 .. MaxLength, w < n,
         NEW p \in Passes, NEW v, NEW d, PassLinked(n, p, v, d), PassOrdered(key, rank, n, w, v, d)
  PROVE  PassDone(key, rank, n, w, Passing(key, w)[p])
<1> DEFINE State(q, u, e) == PassLinked(n, q, u, e) /\ PassOrdered(key, rank, n, w, u, e)
           Done(q) == PassDone(key, rank, n, w, Passing(key, w)[q])
           R == {q \in Passes : \A u, e : State(q, u, e) => Done(q)}
<1>1. PassStops(w) \subseteq R
  <2> SUFFICES ASSUME NEW q \in PassStops(w), NEW u, NEW e, State(q, u, e) PROVE Done(q)
    BY DEF PassStops
  <2>1. q \in Passes /\ (q.current = 0 \/ q.most = 0 \/ Unpaired(w, q)) /\ PassFacts(n, w, q, u, e)
    BY PassHas DEF PassStops
  <2>2. q.most \in Int /\ q.most >= n - e
    BY <2>1, PassFields DEF PassLinked
  <2>3. CASE e < n
    <3>1. q.current # 0 /\ q.most # 0 /\ Unpaired(w, q) /\ n <= e + w
      <4>1. q.current # 0 /\ (e + w < n => ~ Unpaired(w, q))
        BY <2>1, <2>3, PassEnds
      <4>2. q.most # 0
        BY <2>1, <2>2, <2>3 DEF PassFacts
      <4> QED
        BY <2>1, <4>1, <4>2 DEF PassFacts
    <3>2. Passing(key, w)[q] = Attached(q)
      BY <2>1, <3>1, PassingIs
    <3> QED
      BY <2>1, <2>3, <3>1, <3>2, PassAttaches
  <2>4. CASE ~ (e < n)
    <3>1. e = n /\ q.current = 0 /\ n # 0 /\ q.head = u[1] /\ Chain(q.next, u, 1, n) /\ Listing(u, n)
      BY <2>1, <2>4 DEF PassLinked, PassFacts
    <3>2. Passing(key, w)[q] = q
      BY <2>1, <3>1, PassingIs
    <3>3. ASSUME NEW c \in Multiples(2 * w) PROVE Block(key, rank, u, n, c, 2 * w)
      <4>1. c \in Nat
        BY <2>1, MultiplesFacts DEF PassFacts
      <4>2. CASE c < n
        BY <3>1, <4>2 DEF PassOrdered
      <4>3. CASE ~ (c < n)
        <5>1. \A x \in 1 .. n : ~ (c < x)
          BY <2>1, <4>1, <4>3 DEF PassFacts
        <5> QED
          BY <5>1 DEF Block
      <4> QED
        BY <4>2, <4>3
    <3> QED
      BY <3>1, <3>2, <3>3 DEF PassDone, Blocks
  <2> QED
    BY <2>3, <2>4
<1>2. ASSUME NEW q \in Passes \ PassStops(w), PassStep(key, w)[q] \in R PROVE q \in R
  <2> SUFFICES ASSUME NEW u, NEW e, State(q, u, e) PROVE Done(q)
    OBVIOUS
  <2>1. q.current # 0 /\ q.most # 0 /\ ~ Unpaired(w, q) /\ PassFacts(n, w, q, u, e)
    BY PassHas DEF PassStops
  <2>2. e < n /\ e + w < n
    <3>1. e < n
      BY <2>1 DEF PassLinked, PassFacts
    <3>2. n <= e + w => Unpaired(w, q)
      BY <3>1, PassEnds
    <3> QED
      BY <2>1, <3>1, <3>2 DEF PassFacts
  <2>3. PICK t, f : State(Paired(key, w, q), t, f)
    BY <2>1, <2>2, PassPairs
  <2>4. PassStep(key, w)[q] = Paired(key, w, q)
    BY DEF PassStep
  <2>5. Passing(key, w)[q] = Passing(key, w)[Paired(key, w, q)]
    BY <2>1, PassingIs
  <2> HIDE DEF State
  <2> QED
    BY <1>2, <2>3, <2>4, <2>5
<1>3. R \in SUBSET Passes
  OBVIOUS
<1> HIDE DEF R
<1>4. R = Passes
  BY <1>1, <1>2, <1>3, PassingIs, LoopInduction
<1> QED
  BY <1>4 DEF R

-----------------------------------------------------------------------------
(* The sizes double until one list is left.                                *)

SortStops(length) == {s \in Sorts : s.size >= length}
SortStep(key, length) == [s \in Sorts |-> IF s \in SortStops(length) THEN s ELSE Doubled(key, s)]
SortLeft == [s \in Sorts |-> 2 * MaxLength + 1 - s.size]

LEMMA SortFields ==
  ASSUME NEW s \in Sorts
  PROVE  s.next \in Links /\ s.head \in References /\ s.size \in Nat /\ 1 <= s.size /\ s.size <= 2 * MaxLength + 1
BY EntitiesFacts DEF Sorts

LEMMA DoubledFacts ==
  ASSUME NEW key, NEW s \in Sorts, NEW length \in 0 .. MaxLength + 1, s.size < length
  PROVE  /\ s.size \in 1 .. MaxLength /\ PassStart(s) \in Passes
         /\ Doubled(key, s).next = Passing(key, s.size)[PassStart(s)].next
         /\ Doubled(key, s).head = Passing(key, s.size)[PassStart(s)].head
         /\ Doubled(key, s).size = 2 * s.size /\ Doubled(key, s) \in Sorts
<1>1. s.size \in 1 .. MaxLength /\ 2 * s.size \in 1 .. 2 * MaxLength + 1
  BY SortFields, EntitiesFacts
<1>2. PassStart(s) \in Passes
  BY SortFields, EntitiesFacts DEF PassStart, Passes
<1> DEFINE p == Passing(key, s.size)[PassStart(s)]
<1>3. p \in Passes
  BY <1>1, <1>2, PassingIs
<1>4. Doubled(key, s) = [next |-> p.next, head |-> p.head, size |-> 2 * s.size]
  BY DEF Doubled, Resorted
<1> HIDE DEF p
<1>5. Doubled(key, s) \in Sorts
  BY <1>1, <1>3, <1>4, PassFields DEF Sorts
<1> QED
  BY <1>1, <1>2, <1>4, <1>5 DEF p

LEMMA DoublingIs ==
  ASSUME NEW key, NEW length \in 0 .. MaxLength + 1
  PROVE  /\ Decreases(Sorts, SortStops(length), SortStep(key, length), SortLeft, 2 * MaxLength + 1)
         /\ Doubling(key, length) = [s \in Sorts |-> IF s.size >= length THEN s
                                                     ELSE Doubling(key, length)[Doubled(key, s)]]
<1> DEFINE Is(f) == f = [s \in Sorts |-> IF s.size >= length THEN s ELSE f[Doubled(key, s)]]
           out == [s \in Sorts |-> s]
<1>1. ASSUME NEW s \in Sorts, s \notin SortStops(length)
      PROVE  Doubled(key, s) \in Sorts /\ Doubled(key, s).size = 2 * s.size
  <2>1. s.size < length
    BY <1>1, SortFields, EntitiesFacts DEF SortStops
  <2> QED
    BY <2>1, DoubledFacts
<1>2. SortStep(key, length) \in [Sorts -> Sorts]
  BY <1>1 DEF SortStep
<1>3. SortLeft \in [Sorts -> 0 .. 2 * MaxLength + 1]
  BY SortFields, EntitiesFacts DEF SortLeft
<1>4. ASSUME NEW s \in Sorts \ SortStops(length) PROVE SortLeft[SortStep(key, length)[s]] < SortLeft[s]
  <2>1. SortStep(key, length)[s] = Doubled(key, s)
    BY DEF SortStep
  <2>2. SortLeft[Doubled(key, s)] = 2 * MaxLength + 1 - 2 * s.size /\ SortLeft[s] = 2 * MaxLength + 1 - s.size
    BY <1>1 DEF SortLeft
  <2> QED
    BY <2>1, <2>2, SortFields, EntitiesFacts
<1>5. Decreases(Sorts, SortStops(length), SortStep(key, length), SortLeft, 2 * MaxLength + 1)
  <2>1. SortStops(length) \subseteq Sorts /\ 2 * MaxLength + 1 \in Nat
    BY EntitiesFacts DEF SortStops
  <2> QED
    BY <1>2, <1>3, <1>4, <2>1 DEF Decreases
<1>6. out \in [Sorts -> Sorts] /\ \A s \in Sorts : out[s] = s
  OBVIOUS
<1>7. Sorts # {}
  <2> DEFINE s == [next |-> [e \in Entities |-> 0], head |-> 0, size |-> 1]
  <2>1. 0 \in References /\ 1 \in 1 .. 2 * MaxLength + 1 /\ [e \in Entities |-> 0] \in Links
    BY EntitiesFacts DEF Links
  <2>2. s \in Sorts
    BY <2>1 DEF Sorts
  <2> QED
    BY <2>2
<1> HIDE DEF out
<1>8. PICK f \in [Sorts -> Sorts] : IsLoop(f, Sorts, SortStops(length), out, SortStep(key, length))
  BY <1>5, <1>6, <1>7, LoopExists
<1>9. Is(f)
  <2>1. \A s \in Sorts : (IF s \in SortStops(length) THEN out[s] ELSE f[SortStep(key, length)[s]])
                         = IF s.size >= length THEN s ELSE f[Doubled(key, s)]
    BY <1>6 DEF SortStops, SortStep
  <2> QED
    BY <1>8, <2>1 DEF IsLoop
<1>10. Doubling(key, length) = CHOOSE g : Is(g)
  BY DEF Doubling
<1>11. Is(Doubling(key, length))
  BY <1>9, <1>10
<1> QED
  BY <1>5, <1>11 DEF Is

\* The list is made of ascending lists of a size.
SortState(key, rank, n, s, v) ==
  /\ s \in Sorts /\ Listing(v, n) /\ s.head = HeadOf(v, n) /\ Chain(s.next, v, 1, n) /\ Blocks(key, rank, v, n, s.size)

LEMMA DoublingSorts ==
  ASSUME NEW key, NEW rank, Ranking(key, rank), NEW n, NEW s, NEW v, SortState(key, rank, n, s, v), s.size < n
  PROVE  \E u : SortState(key, rank, n, Doubled(key, s), u)
<1> DEFINE p == PassStart(s)
           r == Passing(key, s.size)[p]
<1>1. n \in Nat /\ n <= MaxLength /\ n \in 0 .. MaxLength + 1 /\ s \in Sorts /\ s.size \in Nat /\ 1 <= s.size
  BY ListingFacts, SortFields DEF SortState
<1>2. s.size \in 1 .. MaxLength /\ p \in Passes /\ Doubled(key, s).next = r.next /\ Doubled(key, s).head = r.head
      /\ Doubled(key, s).size = 2 * s.size /\ Doubled(key, s) \in Sorts
  BY <1>1, DoubledFacts
<1>3. n # 0 /\ s.head = v[1]
  BY <1>1 DEF SortState, HeadOf
<1>4. PassLinked(n, p, v, 0)
  <2>1. p.current = v[0 + 1] /\ p.head = 0 /\ p.tail = 0 /\ p.most = MaxLength /\ p.next = s.next
    BY <1>3 DEF PassStart
  <2>2. Chain(p.next, v, 1, 0)
    BY DEF Chain
  <2>3. Chain(p.next, v, 0 + 1, n)
    BY <2>1 DEF SortState
  <2>4. 0 \in 0 .. n /\ 0 < n /\ p.most >= n - 0
    BY <1>1, <1>3, <2>1, EntitiesFacts
  <2> HIDE DEF p
  <2> QED
    BY <2>1, <2>2, <2>3, <2>4 DEF PassLinked, SortState
<1>5. PassOrdered(key, rank, n, s.size, v, 0)
  <2>1. 2 * s.size \in Nat /\ 0 < 2 * s.size
    BY <1>1
  <2>2. 0 \in Multiples(2 * s.size) /\ Multiples(2 * s.size) \subseteq Nat
    BY <2>1, MultiplesFacts
  <2>3. \A c \in Multiples(2 * s.size) : ~ (c < 0)
    BY <2>2
  <2> QED
    BY <2>2, <2>3 DEF PassOrdered, SortState, Blocks
<1> HIDE DEF p
<1>6. PassDone(key, rank, n, s.size, r)
  BY <1>2, <1>4, <1>5, PassWorks
<1> HIDE DEF r
<1>7. PICK u : Listing(u, n) /\ r.head = u[1] /\ Chain(r.next, u, 1, n) /\ Blocks(key, rank, u, n, 2 * s.size)
  BY <1>6 DEF PassDone
<1>8. SortState(key, rank, n, Doubled(key, s), u)
  BY <1>2, <1>3, <1>7 DEF SortState, HeadOf
<1> QED
  BY <1>8

LEMMA SortEnds ==
  ASSUME NEW key, NEW rank, Ranking(key, rank), NEW n, NEW s, NEW v, SortState(key, rank, n, s, v)
  PROVE  \E u : SortState(key, rank, n, Doubling(key, n)[s], u) /\ Doubling(key, n)[s].size >= n
<1> DEFINE Done(q) == \E u : SortState(key, rank, n, Doubling(key, n)[q], u) /\ Doubling(key, n)[q].size >= n
           R == {q \in Sorts : \A u : SortState(key, rank, n, q, u) => Done(q)}
<1>0. n \in 0 .. MaxLength + 1 /\ n \in Nat
  BY ListingFacts DEF SortState
<1>1. SortStops(n) \subseteq R
  <2> SUFFICES ASSUME NEW q \in SortStops(n), NEW u, SortState(key, rank, n, q, u) PROVE Done(q)
    BY DEF SortStops
  <2>1. Doubling(key, n)[q] = q /\ q.size >= n
    BY <1>0, DoublingIs DEF SortStops
  <2> QED
    BY <2>1
<1>2. ASSUME NEW q \in Sorts \ SortStops(n), SortStep(key, n)[q] \in R PROVE q \in R
  <2> SUFFICES ASSUME NEW u, SortState(key, rank, n, q, u) PROVE Done(q)
    OBVIOUS
  <2>1. q.size < n
    BY <1>0, SortFields DEF SortStops
  <2>2. PICK t : SortState(key, rank, n, Doubled(key, q), t)
    BY <2>1, DoublingSorts
  <2>3. SortStep(key, n)[q] = Doubled(key, q) /\ Doubling(key, n)[q] = Doubling(key, n)[Doubled(key, q)]
    BY <1>0, DoublingIs DEF SortStep, SortStops
  <2> QED
    BY <1>2, <2>2, <2>3
<1>3. R \in SUBSET Sorts
  OBVIOUS
<1> HIDE DEF R
<1>4. Decreases(Sorts, SortStops(n), SortStep(key, n), SortLeft, 2 * MaxLength + 1)
  BY <1>0, DoublingIs
<1>5. R = Sorts
  BY <1>1, <1>2, <1>3, <1>4, LoopInduction
<1> QED
  BY <1>5 DEF R, SortState

LEMMA InjectionIsOnto ==
  ASSUME NEW n \in Nat, NEW p \in [1 .. n -> 1 .. n], \A x, y \in 1 .. n : p[x] = p[y] => x = y
  PROVE  \A x \in 1 .. n : \E y \in 1 .. n : p[y] = x
<1>1. p \in Injection(1 .. n, 1 .. n)
  BY DEF Injection, IsInjective
<1>2. IsFiniteSet(1 .. n)
  BY FS_Interval
<1>3. p \in Surjection(1 .. n, 1 .. n)
  BY <1>1, <1>2, FS_Injection
<1> QED
  BY <1>3 DEF Surjection

\* The entities of v in the order p, which is that of the keys and stable.
SortedBy(key, v, n, u, p) ==
  /\ Listing(u, n) /\ p \in [1 .. n -> 1 .. n]
  /\ \A x, y \in 1 .. n : p[x] = p[y] => x = y
  /\ \A x \in 1 .. n : \E y \in 1 .. n : p[y] = x
  /\ \A x \in 1 .. n : u[x] = v[p[x]]
  /\ \A x, y \in 1 .. n : x < y => key[u[x]] < key[u[y]] \/ (key[u[x]] = key[u[y]] /\ p[x] < p[y])

LEMMA SortLinkedIs ==
  ASSUME NEW key \in [Entities -> Int], NEW n, NEW v, Listing(v, n), NEW next \in Links, Chain(next, v, 1, n)
  PROVE  \E u, p : /\ SortedBy(key, v, n, u, p)
                   /\ SortLinked(key, next, HeadOf(v, n)).next \in Links
                   /\ SortLinked(key, next, HeadOf(v, n)).head = HeadOf(u, n)
                   /\ Chain(SortLinked(key, next, HeadOf(v, n)).next, u, 1, n)
<1> DEFINE Place(e) == CHOOSE x \in 1 .. n : v[x] = e
           rank == [e \in Entities |-> IF \E x \in 1 .. n : v[x] = e THEN Place(e) ELSE 0]
           start == [next |-> next, head |-> HeadOf(v, n), size |-> 1]
           r == Doubling(key, n)[start]
<1>1. /\ n \in Nat /\ n <= MaxLength /\ MaxLength \in Nat
      /\ \A x \in 1 .. n : v[x] \in Entities /\ v[x] \in References
      /\ \A x, y \in 1 .. n : v[x] = v[y] => x = y
  BY ListingFacts
<1>2. HeadOf(v, n) \in References
  BY <1>1, EntitiesFacts DEF HeadOf
<1>3. Len(Walk(next, HeadOf(v, n))) = n
  <2>1. Walk(next, HeadOf(v, n)) = v
    BY WalkIs
  <2>2. v \in [1 .. n -> Entities]
    BY DEF Listing, Injection
  <2> QED
    BY <1>1, <2>1, <2>2
<1>4. SortLinked(key, next, HeadOf(v, n)) = r
  BY <1>3 DEF SortLinked
<1>5. start \in Sorts /\ start.size = 1 /\ start.next = next /\ start.head = HeadOf(v, n)
  BY <1>1, <1>2 DEF Sorts
<1>6. \A e \in Entities : /\ rank[e] \in 0 .. n /\ (rank[e] # 0 => v[rank[e]] = e)
  <2> TAKE e \in Entities
  <2>1. CASE \E x \in 1 .. n : v[x] = e
    <3>1. Place(e) \in 1 .. n /\ v[Place(e)] = e
      BY <2>1
    <3>2. rank[e] = Place(e)
      BY <2>1
    <3> QED
      BY <1>1, <3>1, <3>2
  <2>2. CASE ~ (\E x \in 1 .. n : v[x] = e)
    <3>1. rank[e] = 0
      BY <2>2
    <3> QED
      BY <1>1, <3>1
  <2> QED
    BY <2>1, <2>2
<1>7. \A x \in 1 .. n : rank[v[x]] = x
  <2> TAKE x \in 1 .. n
  <2>1. \E y \in 1 .. n : v[y] = v[x]
    OBVIOUS
  <2>2. Place(v[x]) \in 1 .. n /\ v[Place(v[x])] = v[x]
    BY <2>1
  <2>3. Place(v[x]) = x
    BY <1>1, <2>2
  <2> HIDE DEF Place
  <2> QED
    BY <1>1, <2>1, <2>3
<1>8. rank = [e \in Entities |-> rank[e]]
  OBVIOUS
<1> HIDE DEF rank, start
<1>9. Ranking(key, rank)
  <2>1. \A e \in Entities : rank[e] \in Int
    BY <1>1, <1>6
  <2> QED
    BY <1>8, <2>1 DEF Ranking
<1>10. SortState(key, rank, n, start, v)
  <2>1. ASSUME NEW c \in Multiples(1) PROVE Block(key, rank, v, n, c, 1)
    <3>1. c \in Nat
      BY <2>1, MultiplesFacts
    <3>2. \A x, y \in 1 .. n : ~ (c < x /\ x < y /\ y <= c + 1)
      BY <1>1, <3>1
    <3>3. \A x \in 1 .. n : c < x /\ x <= c + 1 => c < rank[v[x]] /\ rank[v[x]] <= c + 1
      BY <1>7
    <3> QED
      BY <3>2, <3>3 DEF Block
  <2> QED
    BY <1>5, <2>1 DEF SortState, Blocks
<1>11. PICK u : SortState(key, rank, n, r, u) /\ r.size >= n
  BY <1>9, <1>10, SortEnds
<1> HIDE DEF r
<1>12. r.next \in Links /\ r.head = HeadOf(u, n) /\ Chain(r.next, u, 1, n) /\ Listing(u, n) /\ r.size \in Nat /\ r.size >= 1
  BY <1>11, SortFields DEF SortState
<1>13. \A x \in 1 .. n : u[x] \in Entities
  BY <1>12, ListingFacts
<1>14. \A x, y \in 1 .. n : u[x] = u[y] => x = y
  BY <1>12, ListingFacts
<1>15. Block(key, rank, u, n, 0, r.size)
  <2>1. 0 \in Multiples(r.size)
    BY <1>12, MultiplesFacts
  <2> QED
    BY <1>11, <2>1 DEF SortState, Blocks
<1> DEFINE p == [x \in 1 .. n |-> rank[u[x]]]
<1>16. \A x \in 1 .. n : 0 < x /\ x <= 0 + r.size
  BY <1>1, <1>11, <1>12
<1>17. \A x \in 1 .. n : p[x] \in 1 .. n /\ u[x] = v[p[x]]
  <2> TAKE x \in 1 .. n
  <2>1. 0 < rank[u[x]]
    BY <1>15, <1>16 DEF Block
  <2> QED
    BY <1>1, <1>6, <1>13, <2>1
<1>18. \A x, y \in 1 .. n : x < y => Precedes(key, rank, u[x], u[y])
  BY <1>15, <1>16 DEF Block
<1>19. p \in [1 .. n -> 1 .. n]
  BY <1>17
<1>20. \A x, y \in 1 .. n : p[x] = p[y] => x = y
  BY <1>14, <1>17
<1>21. \A x, y \in 1 .. n : x < y => key[u[x]] < key[u[y]] \/ (key[u[x]] = key[u[y]] /\ p[x] < p[y])
  BY <1>18 DEF Precedes
<1> HIDE DEF p
<1>22. \A x \in 1 .. n : \E y \in 1 .. n : p[y] = x
  BY <1>1, <1>19, <1>20, InjectionIsOnto
<1>23. SortedBy(key, v, n, u, p)
  BY <1>12, <1>17, <1>19, <1>20, <1>21, <1>22 DEF SortedBy
<1> QED
  BY <1>4, <1>12, <1>23

\* The backward references are those of the order u.
Mirrors(u, n, prev) == \A x \in 1 .. n : prev[u[x]] = IF x = 1 THEN 0 ELSE u[x - 1]

\* sort_linked_entities leaves one list of all the entities it was given, at any
\* length: in the order of their keys, stable, and with backward references that
\* mirror the forward ones.
THEOREM SortLinkedEntitiesIs ==
  ASSUME NEW key \in [Entities -> Int], NEW n, NEW v, Listing(v, n), NEW next \in Links, NEW prev \in Links,
         Chain(next, v, 1, n), NEW r, r = SortLinkedEntities(key, next, prev, HeadOf(v, n))
  PROVE  \E u, p : /\ SortedBy(key, v, n, u, p)
                   /\ r.next \in Links /\ r.head = HeadOf(u, n) /\ Chain(r.next, u, 1, n)
                   /\ r.prev \in Links /\ Mirrors(u, n, r.prev)
<1> DEFINE sorted == SortLinked(key, next, HeadOf(v, n))
           order == Walk(sorted.next, sorted.head)
           Place(e) == CHOOSE i \in DOMAIN order : order[i] = e
           back == [e \in Entities |-> IF \E i \in DOMAIN order : order[i] = e
                                       THEN IF Place(e) = 1 THEN 0 ELSE order[Place(e) - 1] ELSE prev[e]]
<1>1. r.head = sorted.head /\ r.next = sorted.next /\ r.prev = back
  BY DEF SortLinkedEntities, Mirrored, Backward
<1>2. PICK u, p : /\ SortedBy(key, v, n, u, p) /\ sorted.next \in Links
                  /\ sorted.head = HeadOf(u, n) /\ Chain(sorted.next, u, 1, n)
  BY SortLinkedIs
<1> HIDE DEF sorted
<1>3. Listing(u, n)
  BY <1>2 DEF SortedBy
<1>4. order = u
  BY <1>2, <1>3, WalkIs
<1> HIDE DEF order
<1>5. n \in Nat /\ DOMAIN u = 1 .. n /\ \A x \in 1 .. n : u[x] \in Entities /\ u[x] \in References
  BY <1>3, ListingFacts
<1>6. \A x, y \in 1 .. n : u[x] = u[y] => x = y
  BY <1>3, ListingFacts
<1>7. \A x \in 1 .. n : Place(u[x]) = x
  BY <1>4, <1>5, <1>6
<1>8. ASSUME NEW x \in 1 .. n PROVE back[u[x]] = IF x = 1 THEN 0 ELSE u[x - 1]
  <2>1. \E i \in DOMAIN order : order[i] = u[x]
    BY <1>4, <1>5
  <2>2. back[u[x]] = IF Place(u[x]) = 1 THEN 0 ELSE order[Place(u[x]) - 1]
    BY <1>5, <2>1
  <2> HIDE DEF back, Place
  <2> QED
    BY <1>4, <1>7, <2>2
<1>9. ASSUME NEW e \in Entities PROVE back[e] \in References
  <2>1. CASE \E i \in DOMAIN order : order[i] = e
    <3>1. PICK x \in 1 .. n : u[x] = e
      BY <1>4, <1>5, <2>1
    <3>2. x # 1 => x - 1 \in 1 .. n
      BY <1>5
    <3> HIDE DEF back
    <3> QED
      BY <1>5, <1>8, <3>1, <3>2, EntitiesFacts
  <2>2. CASE ~ \E i \in DOMAIN order : order[i] = e
    <3>1. back[e] = prev[e]
      BY <2>2
    <3> QED
      BY <3>1 DEF Links
  <2> QED
    BY <2>1, <2>2
<1>10. back = [e \in Entities |-> back[e]]
  OBVIOUS
<1> HIDE DEF back
<1>11. back \in Links
  BY <1>9, <1>10 DEF Links
<1>12. Mirrors(u, n, back)
  BY <1>8 DEF Mirrors
<1> QED
  BY <1>1, <1>2, <1>11, <1>12
-----------------------------------------------------------------------------
(* Containers.                                                             *)

Hashed == kind \in {"set", "map"}

Typed ==
  /\ size \in 0 .. MaxLength
  /\ cells \in [Cells -> Entries \cup {NoEntry}]
  /\ \A i \in Used : cells[i] \in Entries
  /\ iter = [at |-> iter.at, seen |-> iter.seen, removed |-> iter.removed]
  /\ iter.at \in Int /\ iter.removed \in BOOLEAN

\* No two cells in use hold the same element, or the same key of a map.
Distinct == \A i, j \in Used : Identity(cells[i]) = Identity(cells[j]) => i = j

Delivered ==
  iter.at >= 0 =>
    /\ \A x \in iter.seen : \E i \in Used : x = Identity(cells[i])
    /\ \A i \in Used : i >= iter.at => Identity(cells[i]) \notin iter.seen
    /\ ~iter.removed => iter.at <= size /\ \A i \in Used : i < iter.at => Identity(cells[i]) \in iter.seen

IInv ==
  /\ kind \in {"list", "set", "map", "linked"}
  /\ ~Hashed => iter = NoIterator
  /\ Hashed => Typed /\ Distinct /\ Delivered

-----------------------------------------------------------------------------
(* Finding an entry.                                                       *)

\* An entry is known by its key in a map and by all of it in a set.
LEMMA IdentityOfEntry ==
  ASSUME NEW x \in Entries, NEW y \in Entries
  PROVE  /\ kind # "map" => (Identity(x) = Identity(y) <=> x = y)
         /\ kind = "map" => (Identity(x) = Identity(y) <=> x.key = y.key)
<1>1. \A e \in Entries : e = [key |-> e.key, val |-> e.val]
  <2> DEFINE V == {e.val : e \in Entries}
  <2>1. Entries = [key : EntryKeys, val : V]
    BY EntriesAssumption
  <2> HIDE DEF V
  <2> QED
    BY <2>1
<1>2. CASE kind # "map"
  BY <1>2 DEF Identity
<1>3. CASE kind = "map"
  <2>1. Identity(x) = [key |-> x.key, val |-> 0] /\ Identity(y) = [key |-> y.key, val |-> 0]
    BY <1>1, <1>3 DEF Identity
  <2> QED
    BY <1>3, <2>1
<1> QED
  BY <1>2, <1>3

\* The index of a value in a set is where it is.
LEMMA IndexFinds ==
  ASSUME Typed, Distinct, kind # "map", NEW e
  PROVE  \/ Index(e) = -1 /\ \A i \in Used : cells[i] # e
         \/ Index(e) \in Used /\ cells[Index(e)] = e
<1>1. CASE \E i \in Used : cells[i] = e
  <2>1. PICK i \in Used : cells[i] = e
    BY <1>1
  <2>2. \A j \in 0 .. i - 1 : cells[j] # e
    BY <2>1, IdentityOfEntry DEF Typed, Distinct, Used
  <2>3. Index(e) = CHOOSE k \in Used : cells[k] = e /\ \A j \in 0 .. k - 1 : cells[j] # e
    BY <1>1 DEF Index
  <2> QED
    BY <2>1, <2>2, <2>3
<1>2. CASE ~ \E i \in Used : cells[i] = e
  BY <1>2 DEF Index
<1> QED
  BY <1>1, <1>2

\* The index of a key in a map is where it is.
LEMMA KeyIndexFinds ==
  ASSUME Typed, NEW k
  PROVE  \/ KeyIndex(k) = -1 /\ \A i \in Used : cells[i].key # k
         \/ KeyIndex(k) \in Used /\ cells[KeyIndex(k)].key = k
BY DEF KeyIndex

-----------------------------------------------------------------------------
(* What the operations do to cells and iterators.                          *)

\* A new element goes behind the others.
LEMMA AppendKeeps ==
  ASSUME IInv, Hashed, kind' = kind, size < MaxLength, NEW e \in Entries,
         \A i \in Used : Identity(cells[i]) # Identity(e),
         cells' = [cells EXCEPT ![size] = e], size' = size + 1, UNCHANGED iter
  PROVE  IInv'
<1>1. Typed /\ Distinct /\ Delivered /\ MaxLength \in Nat
  BY SortingAssumption DEF IInv
<1>2. /\ cells'[size] = e /\ \A i \in Used : cells'[i] = cells[i]
      /\ Used' = Used \cup {size} /\ size \notin Used
      /\ cells' \in [Cells -> Entries \cup {NoEntry}]
  BY <1>1 DEF Typed, Used, Cells
<1>3. \A x : Identity(x)' = Identity(x)
  BY DEF Identity
<1>4. Typed'
  BY <1>1, <1>2 DEF Typed
<1>5. Distinct'
  BY <1>1, <1>2 DEF Distinct, Identity
<1>6. Delivered'
  <2> SUFFICES ASSUME iter.at >= 0
               PROVE  /\ \A x \in iter.seen : \E i \in Used' : x = Identity(cells'[i])
                      /\ \A i \in Used' : i >= iter.at => Identity(cells'[i]) \notin iter.seen
                      /\ ~iter.removed => iter.at <= size' /\ \A i \in Used' : i < iter.at => Identity(cells'[i]) \in iter.seen
    BY DEF Delivered, Identity
  <2>1. Identity(e) \notin iter.seen
    BY <1>1 DEF Delivered
  <2>2. \A x \in iter.seen : \E i \in Used' : x = Identity(cells'[i])
    BY <1>1, <1>2 DEF Delivered
  <2>3. \A i \in Used' : i >= iter.at => Identity(cells'[i]) \notin iter.seen
    BY <1>1, <1>2, <2>1 DEF Delivered
  <2>4. ASSUME ~iter.removed
        PROVE  iter.at <= size' /\ \A i \in Used' : i < iter.at => Identity(cells'[i]) \in iter.seen
    <3>1. iter.at <= size /\ \A i \in Used : i < iter.at => Identity(cells[i]) \in iter.seen
      BY <1>1, <2>4 DEF Delivered
    <3>2. iter.at <= size' /\ \A i \in Used' : i < iter.at => i \in Used
      BY <1>1, <1>2, <3>1 DEF Typed, Used
    <3> QED
      BY <1>2, <3>1, <3>2
  <2> QED
    BY <2>2, <2>3, <2>4
<1> QED
  BY <1>4, <1>5, <1>6 DEF IInv, Hashed
\* A step that leaves cells and iterator alone.
LEMMA LookupKeeps ==
  ASSUME IInv, kind' = kind, UNCHANGED <<cells, size, iter>>
  PROVE  IInv'
BY DEF IInv, Hashed, Typed, Distinct, Delivered, Used, Identity

\* The last entry moves into the hole; what was there is forgotten.
LEMMA RemovalKeeps ==
  ASSUME IInv, Hashed, kind' = kind, NEW at \in Used, RemoveSwapping(at)
  PROVE  IInv'
<1> DEFINE gone == Identity(cells[at])
<1>1. Typed /\ Distinct /\ Delivered /\ MaxLength \in Nat
  BY SortingAssumption DEF IInv
<1>2. /\ size' = size - 1 /\ size \in 1 .. MaxLength /\ Used' = Used \ {size - 1} /\ size - 1 \in Used
      /\ Used \subseteq Cells
  BY <1>1 DEF RemoveSwapping, Typed, Used, Cells
<1>3. /\ cells' \in [Cells -> Entries \cup {NoEntry}]
      /\ \A i \in Used' : cells'[i] = IF i = at THEN cells[size - 1] ELSE cells[i]
  <2>1. CASE at < size - 1
    BY <1>1, <1>2, <2>1 DEF RemoveSwapping, Typed
  <2>2. CASE ~(at < size - 1)
    BY <1>1, <1>2, <2>2 DEF RemoveSwapping, Typed, Used
  <2> QED
    BY <2>1, <2>2
<1>4. /\ iter' = [at |-> iter.at, seen |-> iter.seen \ {gone}, removed |-> TRUE]
      /\ iter'.at = iter.at /\ iter'.seen = iter.seen \ {gone} /\ iter'.removed
  BY <1>1 DEF RemoveSwapping, Typed
<1>5. \A x : Identity(x)' = Identity(x)
  BY DEF Identity
<1>6. Typed'
  <2>1. size' \in 0 .. MaxLength
    BY <1>1, <1>2 DEF Typed
  <2>2. \A i \in Used' : cells'[i] \in Entries
    BY <1>1, <1>2, <1>3 DEF Typed
  <2>3. iter'.at \in Int
    BY <1>1, <1>4 DEF Typed
  <2> QED
    BY <1>3, <1>4, <2>1, <2>2, <2>3 DEF Typed
<1>7. Distinct'
  <2> SUFFICES ASSUME NEW i \in Used', NEW j \in Used', Identity(cells'[i]) = Identity(cells'[j])
               PROVE  i = j
    BY DEF Distinct, Identity
  <2> DEFINE from(k) == IF k = at THEN size - 1 ELSE k
  <2>1. /\ from(i) \in Used /\ from(j) \in Used
        /\ cells'[i] = cells[from(i)] /\ cells'[j] = cells[from(j)]
    BY <1>2, <1>3
  <2>2. from(i) = from(j)
    BY <1>1, <2>1 DEF Distinct
  <2> QED
    BY <1>2, <2>2
<1>8. Delivered'
  <2> SUFFICES ASSUME iter.at >= 0
               PROVE  /\ \A x \in iter'.seen : \E i \in Used' : x = Identity(cells'[i])
                      /\ \A i \in Used' : i >= iter.at => Identity(cells'[i]) \notin iter'.seen
    BY <1>4 DEF Delivered, Identity
  <2> HIDE DEF gone
  <2>1. ASSUME NEW x \in iter'.seen
        PROVE  \E i \in Used' : x = Identity(cells'[i])
    <3>1. PICK i \in Used : x = Identity(cells[i]) /\ i # at
      BY <1>1, <1>4, <2>1 DEF Delivered, gone
    <3>2. CASE i = size - 1
      <4>1. at \in Used' /\ cells'[at] = cells[i]
        BY <1>2, <1>3, <3>1, <3>2
      <4> QED
        BY <3>1, <4>1
    <3>3. CASE i # size - 1
      BY <1>2, <1>3, <3>1, <3>3
    <3> QED
      BY <3>2, <3>3
  <2>2. ASSUME NEW i \in Used', i >= iter.at
        PROVE  Identity(cells'[i]) \notin iter'.seen
    <3>1. CASE i = at
      <4>1. size - 1 >= iter.at /\ cells'[i] = cells[size - 1]
        BY <1>1, <1>2, <1>3, <2>2, <3>1 DEF Typed, Used
      <4> QED
        BY <1>1, <1>2, <1>4, <4>1 DEF Delivered
    <3>2. CASE i # at
      BY <1>1, <1>2, <1>3, <1>4, <2>2, <3>2 DEF Delivered
    <3> QED
      BY <3>1, <3>2
  <2> QED
    BY <2>1, <2>2
<1> QED
  BY <1>6, <1>7, <1>8 DEF IInv, Hashed

LEMMA ClearKeeps ==
  ASSUME IInv, Hashed, kind' = kind, ClearIterated
  PROVE  IInv'
<1>1. Typed /\ size' = 0 /\ cells' = cells /\ MaxLength \in Nat
  BY SortingAssumption DEF IInv, ClearIterated, Clear
<1>2. iter' = [at |-> iter.at, seen |-> {}, removed |-> TRUE] /\ iter.at \in Int
  BY <1>1 DEF ClearIterated, Typed
<1>3. Used' = {}
  BY <1>1 DEF Used
<1>4. Typed' /\ Distinct' /\ Delivered'
  BY <1>1, <1>2, <1>3 DEF Typed, Distinct, Delivered
<1> QED
  BY <1>4 DEF IInv, Hashed

LEMMA StartKeeps ==
  ASSUME IInv, Hashed, kind' = kind, StartIteration
  PROVE  IInv'
<1>1. Typed /\ Distinct /\ UNCHANGED <<cells, size>> /\ iter' = [at |-> 0, seen |-> {}, removed |-> FALSE]
  BY DEF IInv, StartIteration
<1>2. Typed'
  BY <1>1 DEF Typed, Used
<1>3. Distinct'
  BY <1>1 DEF Distinct, Used, Identity
<1>4. Delivered'
  BY <1>1 DEF Delivered, Typed, Used
<1> QED
  BY <1>2, <1>3, <1>4 DEF IInv, Hashed

LEMMA NextEntryKeeps ==
  ASSUME IInv, Hashed, kind' = kind, NextEntry
  PROVE  IInv'
<1> DEFINE now == Identity(cells[iter.at])
<1>1. Typed /\ Distinct /\ Delivered /\ UNCHANGED <<cells, size>> /\ iter.at >= 0 /\ iter.at < size
  BY DEF IInv, NextEntry
<1>2. iter.at \in Used
  BY <1>1 DEF Typed, Used
<1>3. /\ iter' = [at |-> iter.at + 1, seen |-> iter.seen \cup {now}, removed |-> iter.removed]
      /\ iter'.at = iter.at + 1 /\ iter'.seen = iter.seen \cup {now} /\ iter'.removed = iter.removed
  BY <1>1 DEF NextEntry, Typed
<1>4. \A x : Identity(x)' = Identity(x)
  BY DEF Identity
<1>5. Typed'
  BY <1>1, <1>3 DEF Typed, Used
<1>6. Distinct'
  BY <1>1 DEF Distinct, Used, Identity
<1>7. Delivered'
  <2>1. ASSUME NEW x \in iter'.seen PROVE \E i \in Used : x = Identity(cells[i])
    BY <1>1, <1>2, <1>3, <2>1 DEF Delivered
  <2>2. ASSUME NEW i \in Used, i >= iter.at + 1 PROVE Identity(cells[i]) \notin iter'.seen
    <3>1. i >= iter.at /\ i # iter.at
      BY <1>1, <2>2 DEF Typed, Used
    <3> QED
      BY <1>1, <1>2, <1>3, <3>1 DEF Delivered, Distinct
  <2>3. ASSUME ~iter.removed
        PROVE  iter.at + 1 <= size /\ \A i \in Used : i < iter.at + 1 => Identity(cells[i]) \in iter'.seen
    <3>1. iter.at + 1 <= size
      BY <1>1 DEF Typed
    <3>2. ASSUME NEW i \in Used, i < iter.at + 1 PROVE i < iter.at \/ i = iter.at
      BY <1>1, <3>2 DEF Typed, Used
    <3> QED
      BY <1>1, <1>3, <2>3, <3>1, <3>2 DEF Delivered
  <2>4. Used' = Used /\ cells' = cells /\ size' = size
    BY <1>1 DEF Used
  <2> QED
    BY <1>3, <2>1, <2>2, <2>3, <2>4 DEF Delivered, Identity
<1> QED
  BY <1>5, <1>6, <1>7 DEF IInv, Hashed
\* An argument stands for an entry.
LEMMA ReadIsEntry ==
  ASSUME Typed, NEW arg \in Arguments
  PROVE  Read(cells, arg) \in Entries
<1>1. CASE arg \in [cell : {-1}, entry : Entries]
  BY <1>1 DEF Read
<1>2. CASE arg \in [cell : Used, entry : {NoEntry}]
  BY <1>2 DEF Read, Typed, Used
<1> QED
  BY <1>1, <1>2 DEF Arguments

LEMMA SetAddKeeps ==
  ASSUME IInv, kind = "set", kind' = kind, NEW arg \in Arguments, SetAdd(arg)
  PROVE  IInv'
<1> DEFINE e == Read(cells, arg)
<1>1. Typed /\ Distinct /\ MaxLength \in Nat /\ Hashed
  BY SortingAssumption DEF IInv, Hashed
<1>2. e \in Entries
  BY <1>1, ReadIsEntry
<1> HIDE DEF e
<1>3. CASE size >= MaxLength \/ Index(e) >= 0
  BY <1>3, LookupKeeps DEF SetAdd, e
<1>4. CASE ~(size >= MaxLength \/ Index(e) >= 0)
  <2>1. size < MaxLength /\ cells' = [cells EXCEPT ![size] = e] /\ size' = size + 1 /\ UNCHANGED iter
    BY <1>1, <1>4 DEF SetAdd, Typed, e
  <2>2. \A i \in Used : cells[i] # e
    BY <1>1, <1>4, IndexFinds DEF Used, Typed
  <2>3. \A i \in Used : Identity(cells[i]) # Identity(e)
    BY <1>1, <1>2, <2>2, IdentityOfEntry DEF Typed
  <2> QED
    BY <1>1, <1>2, <2>1, <2>3, AppendKeeps
<1> QED
  BY <1>3, <1>4

LEMMA SetRemoveKeeps ==
  ASSUME IInv, kind = "set", kind' = kind, NEW arg \in Arguments, SetRemove(arg)
  PROVE  IInv'
<1> DEFINE at == Index(Read(cells, arg))
<1>1. Typed /\ Distinct /\ Hashed
  BY DEF IInv, Hashed
<1>2. at = -1 \/ at \in Used
  BY <1>1, IndexFinds
<1> HIDE DEF at
<1>3. CASE at = -1
  BY <1>3, LookupKeeps DEF SetRemove, at
<1>4. CASE at \in Used
  <2>1. RemoveSwapping(at)
    BY <1>1, <1>4 DEF SetRemove, at, Used, Typed
  <2> QED
    BY <1>1, <1>4, <2>1, RemovalKeeps
<1> QED
  BY <1>2, <1>3, <1>4

\* Writing the value of a key leaves all keys as they are.
LEMMA OverwriteKeeps ==
  ASSUME IInv, kind = "map", kind' = kind, NEW at \in Used, NEW v, [key |-> cells[at].key, val |-> v] \in Entries,
         cells' = [cells EXCEPT ![at].val = v], UNCHANGED <<size, iter>>
  PROVE  IInv'
<1>1. Typed /\ Distinct /\ Delivered /\ Hashed
  BY DEF IInv, Hashed
<1>2. \A e \in Entries : e = [key |-> e.key, val |-> e.val]
  <2> DEFINE V == {e.val : e \in Entries}
  <2>1. Entries = [key : EntryKeys, val : V]
    BY EntriesAssumption
  <2> HIDE DEF V
  <2> QED
    BY <2>1
<1>3. cells[at] \in Entries /\ at \in Cells /\ Used' = Used
  BY <1>1, SortingAssumption DEF Typed, Used, Cells
<1>4. [cells[at] EXCEPT !.val = v] = [key |-> cells[at].key, val |-> v]
  BY <1>2, <1>3
<1>5. cells' = [cells EXCEPT ![at] = [key |-> cells[at].key, val |-> v]]
  BY <1>4
<1>6. /\ cells' \in [Cells -> Entries \cup {NoEntry}]
      /\ cells'[at] = [key |-> cells[at].key, val |-> v]
      /\ \A i \in Used : i # at => cells'[i] = cells[i]
  <2> DEFINE e == [key |-> cells[at].key, val |-> v]
  <2>1. e \in Entries /\ cells' = [cells EXCEPT ![at] = e] /\ cells \in [Cells -> Entries \cup {NoEntry}]
    BY <1>1, <1>5 DEF Typed
  <2>2. Used \subseteq Cells
    BY <1>1, SortingAssumption DEF Typed, Used, Cells
  <2> HIDE DEF e
  <2>3. /\ cells' \in [Cells -> Entries \cup {NoEntry}]
        /\ cells'[at] = e
        /\ \A i \in Used : i # at => cells'[i] = cells[i]
    BY <1>3, <2>1, <2>2
  <2> QED
    BY <2>3 DEF e
<1>7. \A i \in Used : cells'[i] \in Entries /\ cells'[i].key = cells[i].key
  BY <1>1, <1>6 DEF Typed
<1>8. \A i \in Used : Identity(cells'[i]) = Identity(cells[i])
  BY <1>1, <1>7, IdentityOfEntry DEF Typed
<1>9. Typed'
  BY <1>1, <1>3, <1>6, <1>7 DEF Typed
<1>10. Distinct'
  BY <1>1, <1>3, <1>8 DEF Distinct, Identity
<1>11. Delivered'
  <2>1. /\ \A x \in iter.seen : iter.at >= 0 => \E i \in Used : x = Identity(cells'[i])
        /\ \A i \in Used : iter.at >= 0 /\ i >= iter.at => Identity(cells'[i]) \notin iter.seen
    BY <1>1, <1>8 DEF Delivered
  <2>2. ASSUME iter.at >= 0, ~iter.removed
        PROVE  iter.at <= size /\ \A i \in Used : i < iter.at => Identity(cells'[i]) \in iter.seen
    BY <1>1, <1>8, <2>2 DEF Delivered
  <2> QED
    BY <1>3, <2>1, <2>2 DEF Delivered, Identity
<1> QED
  BY <1>9, <1>10, <1>11 DEF IInv, Hashed

LEMMA PutItemKeeps ==
  ASSUME IInv, kind = "map", kind' = kind, NEW k \in EntryKeys, NEW arg \in Arguments, PutItem(k, arg)
  PROVE  IInv'
<1> DEFINE at == KeyIndex(k)
           v == Read(cells, arg).val
           e == [key |-> k, val |-> v]
<1>1. Typed /\ Distinct /\ MaxLength \in Nat /\ Hashed
  BY SortingAssumption DEF IInv, Hashed
<1>2. e \in Entries
  <2> DEFINE V == {x.val : x \in Entries}
  <2>1. Read(cells, arg) \in Entries
    BY <1>1, ReadIsEntry
  <2>2. v \in V
    BY <2>1
  <2>3. Entries = [key : EntryKeys, val : V]
    BY EntriesAssumption
  <2> HIDE DEF V, v
  <2> QED
    BY <2>2, <2>3
<1>3. \/ at = -1 /\ \A i \in Used : cells[i].key # k
      \/ at \in Used /\ cells[at].key = k
  BY <1>1, KeyIndexFinds
<1>4. CASE at = -1 /\ \A i \in Used : cells[i].key # k
  <2>1. size < MaxLength /\ cells' = [cells EXCEPT ![size] = e] /\ size' = size + 1 /\ UNCHANGED iter
    BY <1>4 DEF PutItem
  <2> HIDE DEF v
  <2>2. \A i \in Used : Identity(cells[i]) # Identity(e)
    BY <1>1, <1>2, <1>4, IdentityOfEntry DEF Typed
  <2> QED
    BY <1>1, <1>2, <2>1, <2>2, AppendKeeps
<1>5. CASE at \in Used /\ cells[at].key = k
  <2>1. cells' = [cells EXCEPT ![at].val = v] /\ size' = size /\ UNCHANGED iter
    <3>1. at >= 0
      BY <1>1, <1>5 DEF Used, Typed
    <3> QED
      BY <3>1 DEF PutItem
  <2> HIDE DEF v, at
  <2> QED
    BY <1>2, <1>5, <2>1, OverwriteKeeps
<1> QED
  BY <1>3, <1>4, <1>5

LEMMA MapRemoveKeeps ==
  ASSUME IInv, kind = "map", kind' = kind, NEW k, MapPop(k) \/ DelItem(k)
  PROVE  IInv'
<1>1. Typed /\ Hashed /\ KeyIndex(k) >= 0 /\ RemoveSwapping(KeyIndex(k))
  BY DEF IInv, Hashed, MapPop, DelItem
<1>2. KeyIndex(k) \in Used
  BY <1>1, KeyIndexFinds
<1> QED
  BY <1>1, <1>2, RemovalKeeps

-----------------------------------------------------------------------------
(* The invariant.                                                          *)

LEMMA InitInvariant == Init => IInv
<1> SUFFICES ASSUME Init PROVE IInv
  OBVIOUS
<1>1. kind \in {"list", "set", "map", "linked"} /\ iter = NoIterator
  BY DEF Init
<1>2. ASSUME Hashed PROVE Typed /\ Distinct /\ Delivered
  <2>1. size = 0 /\ cells = [i \in Cells |-> NoEntry] /\ Used = {}
    BY <1>2 DEF Init, Hashed, Used
  <2> QED
    BY <1>1, <2>1, SortingAssumption DEF Typed, Distinct, Delivered, NoIterator
<1> QED
  BY <1>1, <1>2 DEF IInv

LEMMA NextInvariant == IInv /\ [Next]_vars => IInv'
<1> SUFFICES ASSUME IInv, [Next]_vars PROVE IInv'
  OBVIOUS
<1>1. CASE UNCHANGED vars
  BY <1>1, LookupKeeps DEF vars
<1>2. CASE kind' = kind /\ (VarArray \/ LinkedList)
  BY <1>2 DEF IInv, Hashed, VarArray, LinkedList
<1>3. CASE kind' = kind /\ ArraySet
  <2>1. kind = "set" /\ Hashed
    BY <1>3 DEF ArraySet, Hashed
  <2>2. CASE \E arg \in Arguments : SetAdd(arg) \/ SetRemove(arg)
    BY <1>3, <2>1, <2>2, SetAddKeeps, SetRemoveKeeps
  <2>3. CASE ClearIterated \/ StartIteration \/ NextEntry
    BY <1>3, <2>1, <2>3, ClearKeeps, StartKeeps, NextEntryKeeps
  <2> QED
    BY <1>3, <2>2, <2>3 DEF ArraySet
<1>4. CASE kind' = kind /\ ArrayMap
  <2>1. kind = "map" /\ Hashed
    BY <1>4 DEF ArrayMap, Hashed
  <2>2. CASE \E k \in EntryKeys, arg \in Arguments : PutItem(k, arg)
    BY <1>4, <2>1, <2>2, PutItemKeeps
  <2>3. CASE \E k \in EntryKeys : GetItem(k) \/ MapPop(k) \/ DelItem(k)
    BY <1>4, <2>1, <2>3, MapRemoveKeeps, LookupKeeps DEF GetItem
  <2>4. CASE ClearIterated \/ StartIteration \/ NextEntry
    BY <1>4, <2>1, <2>4, ClearKeeps, StartKeeps, NextEntryKeeps
  <2> QED
    BY <1>4, <2>2, <2>3, <2>4 DEF ArrayMap
<1> QED
  BY <1>1, <1>2, <1>3, <1>4 DEF Next

LEMMA Invariance == Spec => []IInv
BY InitInvariant, NextInvariant, PTL DEF Spec

-----------------------------------------------------------------------------
(* Sets and maps implement the sets and maps of Collection.                *)

Stored == {cells[i] : i \in Used}
AbstractStep == Abstract!Next \/ UNCHANGED Abstract!vars

LEMMA ValuesAreStored ==
  ASSUME Hashed
  PROVE  Values = Stored
BY DEF Values, Stored, Hashed

LEMMA ValuesAreStoredNext ==
  ASSUME Hashed'
  PROVE  Values' = Stored'
BY DEF Values, Stored, Hashed

\* A cell for each element.
LEMMA SizeOfImage ==
  ASSUME NEW f, NEW n \in Nat, \A i, j \in 0 .. n - 1 : f[i] = f[j] => i = j
  PROVE  Cardinality({f[i] : i \in 0 .. n - 1}) = n
<1> DEFINE S == 0 .. n - 1
           T == {f[i] : i \in S}
           g == [i \in S |-> f[i]]
<1>1. g \in [S -> T] /\ (\A a, b \in S : g[a] = g[b] => a = b) /\ \A t \in T : \E a \in S : g[a] = t
  OBVIOUS
<1>2. IsFiniteSet(S) /\ Cardinality(S) = n
  BY FS_Interval
<1> HIDE DEF S, T, g
<1>3. g \in Bijection(S, T)
  BY <1>1, Fun_IsBij
<1>4. ExistsBijection(S, T)
  BY <1>3 DEF ExistsBijection
<1>5. Cardinality(T) = n
  BY <1>2, <1>4, FS_Bijection
<1> QED
  BY <1>5 DEF T, S

LEMMA StoredSize ==
  ASSUME Typed, Distinct
  PROVE  Cardinality(Stored) = size
<1>1. size \in Nat /\ \A i, j \in 0 .. size - 1 : cells[i] = cells[j] => i = j
  BY SortingAssumption DEF Typed, Distinct, Used
<1> QED
  BY <1>1, SizeOfImage DEF Stored, Used

LEMMA StoredSizeNext ==
  ASSUME Typed', Distinct'
  PROVE  Cardinality(Stored') = size' /\ size' <= MaxLength
<1>1. size' \in Nat /\ size' <= MaxLength /\ \A i, j \in 0 .. size' - 1 : cells'[i] = cells'[j] => i = j
  <2>1. size' \in Nat /\ size' <= MaxLength
    BY SortingAssumption DEF Typed
  <2>2. Used' = 0 .. size' - 1
    BY DEF Used
  <2>3. \A i, j \in Used' : (Identity(cells[i]) = Identity(cells[j]))' => i = j
    BY DEF Distinct
  <2>4. \A i, j \in Used' : cells'[i] = cells'[j] => i = j
    BY <2>3 DEF Identity
  <2> QED
    BY <2>1, <2>2, <2>4
<1> QED
  BY <1>1, SizeOfImage DEF Stored, Used

\* What is stored after an element was added.
LEMMA StoredAppend ==
  ASSUME Typed, size < MaxLength, NEW e, cells' = [cells EXCEPT ![size] = e], size' = size + 1
  PROVE  Stored' = Stored \cup {e}
<1>1. Used' = Used \cup {size} /\ size \notin Used /\ size \in Cells /\ Used \subseteq Cells
  BY SortingAssumption DEF Typed, Used, Cells
<1>2. cells'[size] = e /\ \A i \in Used : cells'[i] = cells[i]
  BY <1>1 DEF Typed
<1> QED
  BY <1>1, <1>2 DEF Stored

\* What is stored after a removal.
LEMMA StoredRemoval ==
  ASSUME Typed, Distinct, NEW at \in Used, RemoveSwapping(at)
  PROVE  Stored' = Stored \ {cells[at]}
<1>1. /\ Used' = Used \ {size - 1} /\ size - 1 \in Used /\ Used \subseteq Cells
      /\ \A i \in Used' : cells'[i] = IF i = at THEN cells[size - 1] ELSE cells[i]
  <2>1. /\ size' = size - 1 /\ size \in 1 .. MaxLength /\ Used' = Used \ {size - 1} /\ size - 1 \in Used
        /\ Used \subseteq Cells
    BY SortingAssumption DEF RemoveSwapping, Typed, Used, Cells
  <2>2. CASE at < size - 1
    BY <2>1, <2>2 DEF RemoveSwapping, Typed
  <2>3. CASE ~(at < size - 1)
    BY <2>1, <2>3 DEF RemoveSwapping, Typed, Used
  <2> QED
    BY <2>1, <2>2, <2>3
<1>2. \A i \in Used : cells[i] = cells[at] => i = at
  BY DEF Distinct
<1>3. ASSUME NEW i \in Used' PROVE cells'[i] \in Stored \ {cells[at]}
  BY <1>1, <1>2, <1>3 DEF Stored
<1>4. ASSUME NEW i \in Used, i # at PROVE cells[i] \in Stored'
  <2>1. CASE i = size - 1
    <3>1. at \in Used' /\ cells'[at] = cells[i]
      BY <1>1, <1>4, <2>1
    <3> QED
      BY <3>1 DEF Stored
  <2>2. CASE i # size - 1
    <3>1. i \in Used' /\ cells'[i] = cells[i]
      BY <1>1, <1>4, <2>2
    <3> QED
      BY <3>1 DEF Stored
  <2> QED
    BY <2>1, <2>2
<1> QED
  BY <1>2, <1>3, <1>4 DEF Stored

LEMMA SetAddRefines ==
  ASSUME IInv, kind = "set", kind' = kind, NEW arg \in Arguments, SetAdd(arg)
  PROVE  AbstractStep
<1> DEFINE e == Read(cells, arg)
<1>1. Typed /\ Distinct /\ MaxLength \in Nat /\ size \in 0 .. MaxLength /\ e \in Entries
  BY SortingAssumption, ReadIsEntry DEF IInv, Hashed, Typed
<1>2. Values = Stored /\ Values' = Stored' /\ Cardinality(Values) = size
  BY <1>1, ValuesAreStored, ValuesAreStoredNext, StoredSize DEF Hashed
<1>3. \/ Index(e) = -1 /\ \A i \in Used : cells[i] # e
      \/ Index(e) \in Used /\ cells[Index(e)] = e
  BY <1>1, IndexFinds
<1>4. Index(e) >= 0 <=> e \in Values
  BY <1>1, <1>2, <1>3 DEF Stored, Used
<1>5. IF e \in Values \/ Cardinality(Values) = MaxLength
      THEN Values' = Values /\ Returns("add", <<>>, e, NoEntry, 0)
      ELSE Values' = Values \cup {e} /\ Returns("add", <<>>, e, NoEntry, 1)
  <2>1. CASE size >= MaxLength \/ Index(e) >= 0
    <3>1. Returns("add", <<>>, e, NoEntry, 0) /\ UNCHANGED <<cells, size>>
      BY <2>1 DEF SetAdd
    <3>2. Values' = Values
      BY <1>2, <3>1 DEF Stored, Used
    <3> QED
      BY <1>1, <1>2, <1>4, <2>1, <3>1, <3>2
  <2>2. CASE ~(size >= MaxLength \/ Index(e) >= 0)
    <3>1. /\ size < MaxLength /\ Returns("add", <<>>, e, NoEntry, 1)
          /\ cells' = [cells EXCEPT ![size] = e] /\ size' = size + 1
      BY <1>1, <2>2 DEF SetAdd
    <3> HIDE DEF e
    <3>2. Values' = Values \cup {e}
      BY <1>1, <1>2, <3>1, StoredAppend
    <3> QED
      BY <1>1, <1>2, <1>4, <2>2, <3>1, <3>2
  <2> QED
    BY <2>1, <2>2
<1> HIDE DEF e
<1>6. \E x \in Entries : IF x \in Values \/ Cardinality(Values) = MaxLength
                        THEN Values' = Values /\ Returns("add", <<>>, x, NoEntry, 0)
                        ELSE Values' = Values \cup {x} /\ Returns("add", <<>>, x, NoEntry, 1)
  BY <1>1, <1>5
<1>7. Abstract!Cardinality(Values) = Cardinality(Values)
  BY DEF Cardinality, Abstract!Cardinality
<1>8. Abstract!Set
  BY <1>6, <1>7 DEF Abstract!Set, Abstract!Returns, Returns
<1> QED
  BY <1>8 DEF AbstractStep, Abstract!Next

LEMMA SetRemoveRefines ==
  ASSUME IInv, kind = "set", kind' = kind, NEW arg \in Arguments, SetRemove(arg)
  PROVE  AbstractStep
<1> DEFINE e == Read(cells, arg)
           at == Index(e)
<1>1. Typed /\ Distinct /\ e \in Entries
  BY ReadIsEntry DEF IInv, Hashed
<1>2. Values = Stored /\ Values' = Stored'
  BY ValuesAreStored, ValuesAreStoredNext DEF Hashed
<1>3. \/ at = -1 /\ \A i \in Used : cells[i] # e
      \/ at \in Used /\ cells[at] = e
  BY <1>1, IndexFinds
<1>4. Values' = Values \ {e} /\ Returns("discard", <<>>, e, NoEntry, Abstract!Truth(e \in Values))
  <2>1. CASE at = -1 /\ \A i \in Used : cells[i] # e
    <3>1. Returns("discard", <<>>, e, NoEntry, 0) /\ UNCHANGED <<cells, size>>
      BY <2>1 DEF SetRemove
    <3>2. Values' = Values /\ e \notin Values
      BY <1>2, <2>1, <3>1 DEF Stored, Used
    <3> QED
      BY <3>1, <3>2 DEF Abstract!Truth
  <2>2. CASE at \in Used /\ cells[at] = e
    <3>1. Returns("discard", <<>>, e, NoEntry, 1) /\ RemoveSwapping(at)
      BY <1>1, <2>2 DEF SetRemove, Used, Typed
    <3>2. e \in Values
      BY <1>2, <2>2 DEF Stored
    <3> HIDE DEF at, e
    <3>3. Values' = Values \ {e}
      BY <1>1, <1>2, <2>2, <3>1, StoredRemoval
    <3> QED
      BY <3>1, <3>2, <3>3 DEF Abstract!Truth
  <2> QED
    BY <1>3, <2>1, <2>2
<1> HIDE DEF e
<1>5. Abstract!Set
  BY <1>1, <1>4 DEF Abstract!Set, Abstract!Returns, Returns
<1> QED
  BY <1>5 DEF AbstractStep, Abstract!Next

LEMMA ClearRefines ==
  ASSUME IInv, Hashed, kind' = kind, ClearIterated
  PROVE  AbstractStep
<1>1. Values' = {} /\ Returns("clear", <<>>, NoEntry, NoEntry, 0)
  <2>1. size' = 0 /\ Returns("clear", <<>>, NoEntry, NoEntry, 0)
    BY DEF ClearIterated, Clear
  <2> QED
    BY <2>1, ValuesAreStoredNext DEF Hashed, Stored, Used
<1>2. Abstract!Set \/ Abstract!Map
  BY <1>1 DEF Abstract!Set, Abstract!Map, Abstract!Returns, Returns, Hashed
<1> QED
  BY <1>2 DEF AbstractStep, Abstract!Next

LEMMA IterationRefines ==
  ASSUME IInv, Hashed, kind' = kind, StartIteration \/ NextEntry
  PROVE  AbstractStep
<1>1. UNCHANGED <<cells, size, result>>
  BY DEF StartIteration, NextEntry
<1>2. Values' = Values
  BY <1>1, ValuesAreStored, ValuesAreStoredNext DEF Hashed, Stored, Used
<1> QED
  BY <1>1, <1>2 DEF AbstractStep, Abstract!vars

LEMMA PutItemRefines ==
  ASSUME IInv, kind = "map", kind' = kind, NEW k \in EntryKeys, NEW arg \in Arguments, PutItem(k, arg)
  PROVE  AbstractStep
<1> DEFINE at == KeyIndex(k)
           given == Read(cells, arg)
           v == given.val
           e == [key |-> k, val |-> v]
<1>1. Typed /\ Distinct /\ MaxLength \in Nat /\ Hashed /\ Hashed'
  BY SortingAssumption DEF IInv, Hashed
<1>2. e \in Entries /\ e.key = k /\ given \in Entries
  <2> DEFINE V == {x.val : x \in Entries}
  <2>1. given \in Entries
    BY <1>1, ReadIsEntry
  <2>2. v \in V
    BY <2>1
  <2>3. Entries = [key : EntryKeys, val : V]
    BY EntriesAssumption
  <2> HIDE DEF V, v
  <2>4. e \in Entries /\ e.key = k
    BY <2>2, <2>3
  <2> QED
    BY <2>1, <2>4
<1>3. Values = Stored /\ Values' = Stored'
  BY <1>1, ValuesAreStored, ValuesAreStoredNext
<1>4. Cardinality(Values') <= MaxLength
  <2>1. Typed' /\ Distinct'
    BY <1>1, PutItemKeeps DEF IInv
  <2> QED
    BY <1>1, <1>3, <2>1, StoredSizeNext
<1>5. Returns("put", <<k>>, given, NoEntry, 0)
  BY DEF PutItem
<1>6. Values' = {x \in Values : x.key # k} \cup {e}
  <2>1. CASE at = -1 /\ \A i \in Used : cells[i].key # k
    <3>1. size < MaxLength /\ cells' = [cells EXCEPT ![size] = e] /\ size' = size + 1
      BY <2>1 DEF PutItem
    <3> HIDE DEF e
    <3>2. Values' = Values \cup {e}
      BY <1>1, <1>3, <3>1, StoredAppend
    <3> QED
      BY <1>3, <2>1, <3>2 DEF Stored
  <2>2. CASE at \in Used /\ cells[at].key = k
    <3>1. cells' = [cells EXCEPT ![at].val = v] /\ size' = size
      <4>1. at >= 0
        BY <1>1, <2>2 DEF Used, Typed
      <4> QED
        BY <4>1 DEF PutItem
    <3>2. \A x \in Entries : x = [key |-> x.key, val |-> x.val]
      <4> DEFINE V == {x.val : x \in Entries}
      <4>1. Entries = [key : EntryKeys, val : V]
        BY EntriesAssumption
      <4> HIDE DEF V
      <4> QED
        BY <4>1
    <3>3. [cells[at] EXCEPT !.val = v] = e
      <4>1. cells[at] = [key |-> k, val |-> cells[at].val]
        BY <1>1, <2>2, <3>2 DEF Typed
      <4> QED
        BY <4>1
    <3>4. cells' = [cells EXCEPT ![at] = e]
      BY <3>1, <3>3
    <3> HIDE DEF e, at
    <3>5. Used' = Used /\ Used \subseteq Cells /\ cells'[at] = e /\ \A i \in Used : i # at => cells'[i] = cells[i]
      BY <1>1, <2>2, <3>1, <3>4 DEF Typed, Used, Cells
    <3>6. \A i \in Used : cells[i].key = k <=> i = at
      BY <1>1, <2>2, IdentityOfEntry DEF Typed, Distinct
    <3> QED
      BY <1>3, <2>2, <3>5, <3>6 DEF Stored
  <2>3. \/ at = -1 /\ \A i \in Used : cells[i].key # k
        \/ at \in Used /\ cells[at].key = k
    BY <1>1, KeyIndexFinds
  <2> QED
    BY <2>1, <2>2, <2>3
<1> HIDE DEF e
<1>7. \E x \in Entries : /\ Returns("put", <<k>>, x, NoEntry, 0)
                       /\ Values' = {y \in Values : y.key # k} \cup {[key |-> k, val |-> x.val]}
                       /\ Cardinality(Values') <= MaxLength
  <2>1. Values' = {y \in Values : y.key # k} \cup {[key |-> k, val |-> given.val]}
    BY <1>6 DEF e
  <2> HIDE DEF given
  <2> QED
    BY <1>2, <1>4, <1>5, <2>1
<1>8. Abstract!Cardinality(Values') = Cardinality(Values')
  BY DEF Cardinality, Abstract!Cardinality
<1>9. Abstract!Map
  BY <1>7, <1>8 DEF Abstract!Map, Abstract!Returns, Returns
<1> QED
  BY <1>9 DEF AbstractStep, Abstract!Next

LEMMA MapAccessRefines ==
  ASSUME IInv, kind = "map", kind' = kind, NEW k \in EntryKeys, GetItem(k) \/ MapPop(k) \/ DelItem(k)
  PROVE  AbstractStep
<1> DEFINE at == KeyIndex(k)
<1>1. Typed /\ Distinct /\ Hashed /\ Hashed' /\ at >= 0
  BY DEF IInv, Hashed, GetItem, MapPop, DelItem
<1>2. Values = Stored /\ Values' = Stored'
  BY <1>1, ValuesAreStored, ValuesAreStoredNext
<1>3. at \in Used /\ cells[at].key = k
  BY <1>1, KeyIndexFinds
<1>4. cells[at] \in Values
  BY <1>2, <1>3 DEF Stored
<1>5. CASE GetItem(k)
  <2>1. UNCHANGED <<cells, size>> /\ Returns("get", <<k>>, NoEntry, cells[at], 0)
    BY <1>5 DEF GetItem
  <2>2. Values' = Values
    BY <1>2, <2>1 DEF Stored, Used
  <2>3. Abstract!Map
    BY <1>3, <1>4, <2>1, <2>2 DEF Abstract!Map, Abstract!Returns, Returns
  <2> QED
    BY <2>3 DEF AbstractStep, Abstract!Next
<1>6. CASE MapPop(k) \/ DelItem(k)
  <2>1. RemoveSwapping(at) /\ (Returns("take", <<k>>, NoEntry, cells[at], 0) \/ Returns("delete", <<k>>, NoEntry, NoEntry, 0))
    BY <1>6 DEF MapPop, DelItem
  <2> HIDE DEF at
  <2>2. Values' = Values \ {cells[at]}
    BY <1>1, <1>2, <1>3, <2>1, StoredRemoval
  <2>3. Abstract!Map
    BY <1>3, <1>4, <2>1, <2>2 DEF Abstract!Map, Abstract!Returns, Returns
  <2> QED
    BY <2>3 DEF AbstractStep, Abstract!Next
<1> QED
  BY <1>5, <1>6

LEMMA StepRefines == IInv /\ [Next]_vars => (Hashed => AbstractStep)
<1> SUFFICES ASSUME IInv, [Next]_vars, Hashed PROVE AbstractStep
  OBVIOUS
<1>1. CASE UNCHANGED vars
  <2>1. Values' = Values
    BY <1>1, ValuesAreStored, ValuesAreStoredNext DEF vars, Hashed, Stored, Used
  <2> QED
    BY <1>1, <2>1 DEF AbstractStep, Abstract!vars, vars
<1>2. CASE kind' = kind /\ ArraySet
  <2>1. kind = "set"
    BY <1>2 DEF ArraySet
  <2>2. CASE \E arg \in Arguments : SetAdd(arg) \/ SetRemove(arg)
    BY <1>2, <2>1, <2>2, SetAddRefines, SetRemoveRefines
  <2>3. CASE ClearIterated \/ StartIteration \/ NextEntry
    BY <1>2, <2>3, ClearRefines, IterationRefines
  <2> QED
    BY <1>2, <2>2, <2>3 DEF ArraySet
<1>3. CASE kind' = kind /\ ArrayMap
  <2>1. kind = "map"
    BY <1>3 DEF ArrayMap
  <2>2. CASE \E k \in EntryKeys, arg \in Arguments : PutItem(k, arg)
    BY <1>3, <2>1, <2>2, PutItemRefines
  <2>3. CASE \E k \in EntryKeys : GetItem(k) \/ MapPop(k) \/ DelItem(k)
    BY <1>3, <2>1, <2>3, MapAccessRefines
  <2>4. CASE ClearIterated \/ StartIteration \/ NextEntry
    BY <1>3, <2>4, ClearRefines, IterationRefines
  <2> QED
    BY <1>3, <2>2, <2>3, <2>4 DEF ArrayMap
<1> QED
  BY <1>1, <1>2, <1>3 DEF Next, VarArray, LinkedList, Hashed

-----------------------------------------------------------------------------
(* Lists: the content is a sequence, and what an operation makes of it is  *)
(* compared element by element.                                            *)

Items == [i \in 1 .. size |-> cells[i - 1]]

LEMMA ItemsFacts ==
  ASSUME Typed
  PROVE  /\ Items \in Seq(Entries) /\ Len(Items) = size /\ DOMAIN Items = 1 .. size /\ size \in Nat
         /\ \A i \in 1 .. size : Items[i] = cells[i - 1] /\ i - 1 \in Used
         /\ kind = "list" => Values = Items
<1>1. size \in Nat /\ \A i \in 1 .. size : i - 1 \in Used
  BY SortingAssumption DEF Typed, Used
<1>2. \A i \in 1 .. size : cells[i - 1] \in Entries
  BY <1>1 DEF Typed
<1> QED
  BY <1>1, <1>2 DEF Items, Values

\* A step of a list that leaves the elements of t in the first cells.
ListState == Typed /\ kind = "list" /\ kind' = kind /\ UNCHANGED iter
Leaves(t) ==
  /\ t \in Seq(Entries) /\ size' = Len(t) /\ Len(t) <= MaxLength
  /\ cells' \in [Cells -> Entries \cup {NoEntry}]
  /\ \A i \in 1 .. Len(t) : cells'[i - 1] = t[i]

LEMMA ListStep ==
  ASSUME ListState, NEW t, Leaves(t)
  PROVE  Typed' /\ Values' = t
<1>1. Len(t) \in Nat /\ DOMAIN t = 1 .. Len(t) /\ t = [i \in 1 .. Len(t) |-> t[i]]
      /\ \A i \in 1 .. Len(t) : t[i] \in Entries
  BY DEF Leaves
<1>2. \A i \in 0 .. Len(t) - 1 : cells'[i] \in Entries
  <2>1. ASSUME NEW i \in 0 .. Len(t) - 1 PROVE cells'[i] \in Entries
    <3>1. i + 1 \in 1 .. Len(t) /\ (i + 1) - 1 = i
      BY <1>1
    <3>2. cells'[(i + 1) - 1] = t[i + 1]
      BY <3>1 DEF Leaves
    <3> QED
      BY <1>1, <3>1, <3>2
  <2> QED
    BY <2>1
<1>3. Typed'
  BY <1>1, <1>2, SortingAssumption DEF Leaves, ListState, Typed, Used
<1>4. Values' = [i \in 1 .. size' |-> cells'[i - 1]]
  BY DEF ListState, Values
<1>5. Values' = t
  BY <1>1, <1>4 DEF Leaves
<1> QED
  BY <1>3, <1>5

LEMMA InsertAtFacts ==
  ASSUME NEW E, NEW s \in Seq(E), NEW i \in 1 .. Len(s) + 1, NEW e \in E
  PROVE  /\ Abstract!InsertAt(s, i, e) \in Seq(E) /\ Len(Abstract!InsertAt(s, i, e)) = Len(s) + 1
         /\ \A j \in 1 .. Len(s) + 1 :
               Abstract!InsertAt(s, i, e)[j] = IF j < i THEN s[j] ELSE IF j = i THEN e ELSE s[j - 1]
<1> DEFINE p == SubSeq(s, 1, i - 1)
           q == SubSeq(s, i, Len(s))
           m == p \o <<e>>
<1>1. Len(s) \in Nat /\ \A j \in 1 .. Len(s) : s[j] \in E
  OBVIOUS
<1>2. p \in Seq(E) /\ Len(p) = i - 1 /\ \A j \in 1 .. i - 1 : p[j] = s[j]
  BY <1>1, SubSeqProperties
<1>3. q \in Seq(E) /\ Len(q) = Len(s) - i + 1 /\ \A j \in 1 .. Len(s) - i + 1 : q[j] = s[i + j - 1]
  BY <1>1, SubSeqProperties
<1> HIDE DEF p, q
<1>4. m \in Seq(E) /\ Len(m) = i /\ m[i] = e /\ \A j \in 1 .. i - 1 : m[j] = s[j]
  BY <1>2, ConcatProperties
<1> HIDE DEF m
<1>5. m \o q \in Seq(E) /\ Len(m \o q) = Len(s) + 1
      /\ \A j \in 1 .. Len(s) + 1 : (m \o q)[j] = IF j <= i THEN m[j] ELSE q[j - i]
  <2>1. Len(m) + Len(q) = Len(s) + 1
    BY <1>1, <1>3, <1>4
  <2>2. m \o q \in Seq(E) /\ Len(m \o q) = Len(m) + Len(q)
        /\ \A j \in 1 .. Len(m) + Len(q) : (m \o q)[j] = IF j <= Len(m) THEN m[j] ELSE q[j - Len(m)]
    BY <1>3, <1>4, ConcatProperties
  <2> QED
    BY <1>4, <2>1, <2>2
<1>6. \A j \in 1 .. Len(s) + 1 : (m \o q)[j] = IF j < i THEN s[j] ELSE IF j = i THEN e ELSE s[j - 1]
  <2> SUFFICES ASSUME NEW j \in 1 .. Len(s) + 1
               PROVE  (m \o q)[j] = IF j < i THEN s[j] ELSE IF j = i THEN e ELSE s[j - 1]
    OBVIOUS
  <2>1. CASE j <= i
    BY <1>4, <1>5, <2>1
  <2>2. CASE ~ (j <= i)
    <3>1. j - i \in 1 .. Len(s) - i + 1 /\ i + (j - i) - 1 = j - 1
      BY <1>1, <2>2
    <3>2. q[j - i] = s[i + (j - i) - 1]
      BY <1>3, <3>1
    <3> QED
      BY <1>1, <1>5, <2>2, <3>1, <3>2
  <2> QED
    BY <2>1, <2>2
<1>7. Abstract!InsertAt(s, i, e) = m \o q
  BY DEF Abstract!InsertAt, m, p, q
<1> QED
  BY <1>5, <1>6, <1>7

LEMMA RemoveAtFacts ==
  ASSUME NEW E, NEW s \in Seq(E), NEW i \in 1 .. Len(s)
  PROVE  /\ Abstract!RemoveAt(s, i) \in Seq(E) /\ Len(Abstract!RemoveAt(s, i)) = Len(s) - 1
         /\ \A j \in 1 .. Len(s) - 1 : Abstract!RemoveAt(s, i)[j] = IF j < i THEN s[j] ELSE s[j + 1]
<1> DEFINE p == SubSeq(s, 1, i - 1)
           q == SubSeq(s, i + 1, Len(s))
<1>1. Len(s) \in Nat /\ \A j \in 1 .. Len(s) : s[j] \in E
  OBVIOUS
<1>2. p \in Seq(E) /\ Len(p) = i - 1 /\ \A j \in 1 .. i - 1 : p[j] = s[j]
  BY <1>1, SubSeqProperties
<1>3. q \in Seq(E) /\ Len(q) = Len(s) - i /\ \A j \in 1 .. Len(s) - i : q[j] = s[i + j]
  BY <1>1, SubSeqProperties
<1> HIDE DEF p, q
<1>4. p \o q \in Seq(E) /\ Len(p \o q) = Len(s) - 1
      /\ \A j \in 1 .. Len(s) - 1 : (p \o q)[j] = IF j <= i - 1 THEN p[j] ELSE q[j - (i - 1)]
  <2>1. Len(p) + Len(q) = Len(s) - 1
    BY <1>1, <1>2, <1>3
  <2>2. p \o q \in Seq(E) /\ Len(p \o q) = Len(p) + Len(q)
        /\ \A j \in 1 .. Len(p) + Len(q) : (p \o q)[j] = IF j <= Len(p) THEN p[j] ELSE q[j - Len(p)]
    BY <1>2, <1>3, ConcatProperties
  <2> HIDE DEF p, q
  <2> QED
    BY <1>2, <2>1, <2>2
<1>5. ASSUME NEW j \in 1 .. Len(s) - 1
      PROVE  (p \o q)[j] = IF j < i THEN s[j] ELSE s[j + 1]
  <2>1. CASE j < i
    BY <1>2, <1>4, <2>1
  <2>2. CASE ~ (j < i)
    <3>1. j - (i - 1) \in 1 .. Len(s) - i /\ i + (j - (i - 1)) = j + 1 /\ ~ (j <= i - 1)
      BY <1>1, <2>2
    <3>2. q[j - (i - 1)] = s[i + (j - (i - 1))]
      BY <1>3, <3>1
    <3> QED
      BY <1>1, <1>4, <2>2, <3>1, <3>2
  <2> QED
    BY <2>1, <2>2
<1>6. Abstract!RemoveAt(s, i) = p \o q
  BY DEF Abstract!RemoveAt, p, q
<1> QED
  BY <1>4, <1>5, <1>6

LEMMA AppendItemRefines ==
  ASSUME ListState, NEW arg \in Arguments, AppendItem(arg)
  PROVE  Typed' /\ Abstract!List
<1> DEFINE e == Read(cells, arg)
           t == Append(Items, e)
<1>1. Typed /\ e \in Entries
  BY ReadIsEntry DEF ListState
<1>2. Items \in Seq(Entries) /\ Len(Items) = size /\ size \in Nat /\ Values = Items
      /\ \A i \in 1 .. size : Items[i] = cells[i - 1] /\ i - 1 \in Used
  BY <1>1, ItemsFacts DEF ListState
<1>3. size < MaxLength /\ cells' = [cells EXCEPT ![size] = e] /\ size' = size + 1 /\ Returns("append", <<>>, e, NoEntry, 0)
  BY DEF AppendItem
<1> HIDE DEF e
<1>4. t \in Seq(Entries) /\ Len(t) = size + 1 /\ t[size + 1] = e /\ \A i \in 1 .. size : t[i] = Items[i]
  BY <1>1, <1>2
<1> HIDE DEF t
<1>5. Leaves(t)
  <2>1. size \in Cells /\ \A i \in Used : i \in Cells /\ i # size
    BY <1>1, <1>2, <1>3, SortingAssumption DEF Used, Cells, Typed
  <2>2. cells' \in [Cells -> Entries \cup {NoEntry}] /\ cells'[size] = e /\ \A i \in Used : cells'[i] = cells[i]
    BY <1>1, <1>3, <2>1 DEF Typed
  <2>3. ASSUME NEW i \in 1 .. Len(t) PROVE cells'[i - 1] = t[i]
    <3>1. CASE i = size + 1
      BY <1>2, <1>4, <2>2, <3>1
    <3>2. CASE i # size + 1
      <4>1. i \in 1 .. size
        BY <1>2, <1>4, <3>2
      <4> QED
        BY <1>2, <1>4, <2>2, <4>1
    <3> QED
      BY <3>1, <3>2
  <2> QED
    BY <1>2, <1>3, <1>4, <2>2, <2>3, SortingAssumption DEF Leaves
<1>6. Typed' /\ Values' = t
  BY <1>5, ListStep
<1>7. Len(Values) < MaxLength /\ Values' = Append(Values, e)
  BY <1>2, <1>3, <1>6 DEF t
<1>8. Abstract!List
  BY <1>1, <1>3, <1>7 DEF Abstract!List, Abstract!Returns, Returns, ListState
<1> QED
  BY <1>6, <1>8

\* Raw indices mean the same positions to the array and to the list of values.
LEMMA PositionFacts ==
  ASSUME ListState
  PROVE  /\ Abstract!Indices = -size .. size - 1
         /\ \A i \in -size .. size : i \in Abstract!Indices \union {Len(Values)}
         /\ \A i \in -size .. size : Abstract!Position(i) = GetPositiveIndex(i) + 1
<1>1. Len(Values) = size /\ size \in Nat
  BY ItemsFacts DEF ListState
<1>2. Abstract!Indices = -size .. size - 1
  BY <1>1 DEF Abstract!Indices
<1> QED
  BY <1>1, <1>2 DEF Abstract!Position, GetPositiveIndex

LEMMA InsertRefines ==
  ASSUME ListState, NEW arg \in Arguments, arg.cell < 0, NEW i \in -size .. size, Insert(i, arg)
  PROVE  Typed' /\ Abstract!List
<1> DEFINE at == GetPositiveIndex(i)
           shifted == [c \in Cells |-> IF at < c /\ c <= size THEN cells[c - 1] ELSE cells[c]]
           e == arg.entry
           t == Abstract!InsertAt(Items, at + 1, e)
<1>1. Typed /\ MaxLength \in Nat
  BY SortingAssumption DEF ListState
<1>2. Items \in Seq(Entries) /\ Len(Items) = size /\ size \in Nat /\ Values = Items
      /\ \A j \in 1 .. size : Items[j] = cells[j - 1] /\ j - 1 \in Used
  BY <1>1, ItemsFacts DEF ListState
<1>3. size < MaxLength /\ cells' = [shifted EXCEPT ![at] = e] /\ size' = size + 1 /\ Returns("insert", <<i>>, e, NoEntry, 0)
  <2>1. ~ (arg.cell >= 0)
    BY DEF Arguments, Used
  <2>2. \A array : Read(array, arg) = e
    BY <2>1 DEF Read
  <2> HIDE DEF e
  <2> QED
    BY <2>2 DEF Insert
<1>4. at \in 0 .. size /\ at + 1 \in 1 .. Len(Items) + 1
  BY <1>2 DEF GetPositiveIndex
<1> HIDE DEF at
<1>5. /\ shifted \in [Cells -> Entries \cup {NoEntry}] /\ at \in Cells
      /\ \A c \in Cells : shifted[c] = IF at < c /\ c <= size THEN cells[c - 1] ELSE cells[c]
  BY <1>1, <1>2, <1>3, <1>4 DEF Typed, Cells
<1> HIDE DEF shifted
<1>6. e \in Entries
  <2>1. arg.cell \in Used \/ (arg.cell = -1 /\ arg.entry \in Entries)
    BY DEF Arguments
  <2> QED
    BY <1>2, <2>1 DEF Used
<1> HIDE DEF e
<1>7. t \in Seq(Entries) /\ Len(t) = size + 1
      /\ \A j \in 1 .. size + 1 : t[j] = IF j < at + 1 THEN Items[j] ELSE IF j = at + 1 THEN e ELSE Items[j - 1]
  <2> DEFINE p == at + 1
  <2>1. Items \in Seq(Entries) /\ p \in 1 .. Len(Items) + 1 /\ t = Abstract!InsertAt(Items, p, e)
    BY <1>2, <1>4
  <2> HIDE DEF t, p
  <2>2. /\ t \in Seq(Entries) /\ Len(t) = Len(Items) + 1
        /\ \A j \in 1 .. Len(Items) + 1 : t[j] = IF j < p THEN Items[j] ELSE IF j = p THEN e ELSE Items[j - 1]
    BY <1>6, <2>1, InsertAtFacts
  <2> QED
    BY <1>2, <2>2 DEF p
<1> HIDE DEF t
<1>8. cells' \in [Cells -> Entries \cup {NoEntry}] /\ cells'[at] = e /\ \A c \in Cells : c # at => cells'[c] = shifted[c]
  BY <1>3, <1>5, <1>6
<1>9. Leaves(t)
  <2>1. ASSUME NEW j \in 1 .. Len(t) PROVE cells'[j - 1] = t[j]
    <3>1. j \in 1 .. size + 1 /\ j - 1 \in Cells
      BY <1>1, <1>2, <1>3, <1>7 DEF Cells
    <3>2. CASE j = at + 1
      BY <1>4, <1>7, <1>8, <3>1, <3>2
    <3>3. CASE j < at + 1
      <4>1. j \in 1 .. size /\ j - 1 # at /\ ~ (at < j - 1)
        BY <1>2, <1>4, <3>1, <3>3
      <4>2. cells'[j - 1] = cells[j - 1]
        BY <1>5, <1>8, <3>1, <4>1
      <4> QED
        BY <1>2, <1>7, <3>1, <3>3, <4>1, <4>2
    <3>4. CASE at + 1 < j
      <4>1. j - 1 \in 1 .. size /\ j - 1 # at /\ at < j - 1 /\ j - 1 <= size /\ ~ (j < at + 1) /\ j # at + 1
        BY <1>2, <1>4, <3>1, <3>4
      <4>2. cells'[j - 1] = cells[(j - 1) - 1]
        BY <1>5, <1>8, <3>1, <4>1
      <4>3. t[j] = Items[j - 1]
        BY <1>7, <3>1, <4>1
      <4> QED
        BY <1>2, <4>1, <4>2, <4>3
    <3> QED
      BY <1>4, <3>1, <3>2, <3>3, <3>4
  <2> QED
    BY <1>1, <1>2, <1>3, <1>7, <1>8, <2>1 DEF Leaves
<1>10. Typed' /\ Values' = t
  BY <1>9, ListStep
<1>11. Len(Values) < MaxLength /\ i \in Abstract!Indices \union {Len(Values)}
       /\ Values' = Abstract!InsertAt(Values, Abstract!Position(i), e)
  <2>1. Abstract!Position(i) = at + 1 /\ i \in Abstract!Indices \union {Len(Values)}
    BY <1>2, PositionFacts DEF at
  <2> QED
    BY <1>2, <1>3, <1>10, <2>1 DEF t
<1>12. Abstract!List
  BY <1>3, <1>6, <1>11 DEF Abstract!List, Abstract!Returns, Returns, ListState
<1> QED
  BY <1>10, <1>12

LEMMA WithoutFacts ==
  ASSUME ListState, NEW at \in Used, size' = size - 1, cells' = Without(at)
  PROVE  Typed' /\ Values' = Abstract!RemoveAt(Values, at + 1) /\ at + 1 \in 1 .. Len(Values) /\ Values[at + 1] = cells[at]
<1> DEFINE t == Abstract!RemoveAt(Items, at + 1)
<1>1. Typed /\ MaxLength \in Nat
  BY SortingAssumption DEF ListState
<1>2. Items \in Seq(Entries) /\ Len(Items) = size /\ size \in Nat /\ Values = Items
      /\ \A j \in 1 .. size : Items[j] = cells[j - 1] /\ j - 1 \in Used
  BY <1>1, ItemsFacts DEF ListState
<1>3. at + 1 \in 1 .. Len(Items) /\ at \in Nat /\ (at + 1) - 1 = at /\ size <= MaxLength
  BY <1>1, <1>2 DEF Used, Typed
<1>4. t \in Seq(Entries) /\ Len(t) = size - 1
      /\ \A j \in 1 .. size - 1 : t[j] = IF j < at + 1 THEN Items[j] ELSE Items[j + 1]
  BY <1>2, <1>3, RemoveAtFacts
<1> HIDE DEF t
<1>5. \A c \in Cells : cells'[c] = IF at <= c /\ c < size - 1 THEN cells[c + 1] ELSE cells[c]
  BY DEF Without
<1>6. cells' \in [Cells -> Entries \cup {NoEntry}]
  BY <1>1, <1>2, <1>3 DEF Without, Typed, Cells
<1>7. ASSUME NEW j \in 1 .. Len(t) PROVE cells'[j - 1] = t[j]
  <2>1. j \in 1 .. size - 1 /\ j \in 1 .. size /\ j + 1 \in 1 .. size /\ j - 1 \in Cells /\ j - 1 < size - 1
        /\ (j < at + 1 <=> ~ (at <= j - 1)) /\ (j - 1) + 1 = (j + 1) - 1
    BY <1>1, <1>2, <1>3, <1>4 DEF Cells
  <2>2. CASE j < at + 1
    BY <1>2, <1>4, <1>5, <2>1, <2>2
  <2>3. CASE ~ (j < at + 1)
    <3>1. cells'[j - 1] = cells[(j - 1) + 1]
      BY <1>5, <2>1, <2>3
    <3> QED
      BY <1>2, <1>4, <2>1, <2>3, <3>1
  <2> QED
    BY <2>2, <2>3
<1>8. Leaves(t)
  BY <1>1, <1>2, <1>3, <1>4, <1>6, <1>7 DEF Leaves
<1>9. Typed' /\ Values' = t
  BY <1>8, ListStep
<1> QED
  BY <1>2, <1>3, <1>9 DEF t

LEMMA PopRefines ==
  ASSUME ListState, NEW i \in -size .. size - 1, Pop(i)
  PROVE  Typed' /\ Abstract!List
<1> DEFINE at == GetPositiveIndex(i)
<1>1. at \in Used
  BY SortingAssumption DEF GetPositiveIndex, Used, ListState, Typed
<1>2. Returns("pop", <<i>>, NoEntry, cells[at], 0) /\ size' = size - 1 /\ cells' = Without(at)
  BY DEF Pop
<1>3. Abstract!Position(i) = at + 1 /\ i \in Abstract!Indices
  <2>1. i \in -size .. size
    BY SortingAssumption DEF ListState, Typed
  <2> QED
    BY <2>1, PositionFacts
<1> HIDE DEF at
<1>4. Typed' /\ Values' = Abstract!RemoveAt(Values, at + 1) /\ at + 1 \in 1 .. Len(Values) /\ Values[at + 1] = cells[at]
  BY <1>1, <1>2, WithoutFacts
<1>5. Abstract!List
  BY <1>2, <1>4, <1>3 DEF Abstract!List, Abstract!Returns, Returns, ListState
<1> QED
  BY <1>4, <1>5

\* The first of the elements that are equal to e.
LEMMA IndexIsFirst ==
  ASSUME ListState, NEW e
  PROVE  IF e \in Abstract!ToSet(Values)
         THEN Index(e) \in Used /\ Abstract!First(e) = Index(e) + 1
         ELSE Index(e) = -1
<1>1. Typed
  BY DEF ListState
<1>2. Items \in Seq(Entries) /\ Len(Items) = size /\ size \in Nat /\ Values = Items /\ DOMAIN Values = 1 .. size
      /\ Len(Values) = size /\ \A j \in 1 .. size : Values[j] = cells[j - 1] /\ j - 1 \in Used
  BY <1>1, ItemsFacts DEF ListState
<1>3. \A i \in Used : i + 1 \in 1 .. size /\ (i + 1) - 1 = i /\ i \in Nat
  BY <1>2 DEF Used
<1>4. \A i \in Used : Values[i + 1] = cells[i]
  BY <1>2, <1>3
<1>5. e \in Abstract!ToSet(Values) <=> \E i \in Used : cells[i] = e
  <2>1. Abstract!ToSet(Values) = {Values[j] : j \in 1 .. size}
    BY <1>2 DEF Abstract!ToSet
  <2>2. ASSUME NEW j \in 1 .. size, e = Values[j] PROVE \E i \in Used : cells[i] = e
    BY <1>2, <2>2
  <2>3. ASSUME NEW i \in Used, cells[i] = e PROVE e \in {Values[j] : j \in 1 .. size}
    BY <1>3, <1>4, <2>3
  <2> QED
    BY <2>1, <2>2, <2>3
<1>6. CASE e \notin Abstract!ToSet(Values)
  BY <1>5, <1>6 DEF Index
<1>7. CASE e \in Abstract!ToSet(Values)
  <2> DEFINE S == {i \in Used : cells[i] = e}
  <2>1. S # {} /\ S \in SUBSET Nat
    BY <1>3, <1>5, <1>7
  <2>2. PICK m \in S : \A i \in S : m <= i
    BY <2>1, LeastNumber
  <2>3. m \in Used /\ cells[m] = e /\ m \in Nat /\ \A i \in Used : cells[i] = e => m <= i
    BY <1>3, <2>2
  <2> HIDE DEF S
  <2>4. ASSUME NEW i \in Used, cells[i] = e, \A j \in 0 .. i - 1 : cells[j] # e PROVE i = m
    <3>1. m <= i /\ m \in Nat /\ i \in Nat
      BY <1>3, <2>3, <2>4
    <3>2. m < i => m \in 0 .. i - 1
      BY <3>1
    <3> QED
      BY <2>3, <2>4, <3>1, <3>2
  <2>5. \A j \in 0 .. m - 1 : cells[j] # e
    <3>1. \A j \in 0 .. m - 1 : j \in Used /\ ~ (m <= j)
      BY <1>2, <2>3 DEF Used
    <3> QED
      BY <2>3, <3>1
  <2>6. Index(e) = m
    <3>1. \E i \in Used : cells[i] = e
      BY <2>3
    <3>2. Index(e) = CHOOSE i \in Used : cells[i] = e /\ \A j \in 0 .. i - 1 : cells[j] # e
      BY <3>1 DEF Index
    <3> QED
      BY <2>3, <2>4, <2>5, <3>2
  <2>7. Abstract!First(e) = m + 1
    <3>1. Abstract!First(e) = CHOOSE i \in 1 .. size : Values[i] = e /\ \A j \in 1 .. i - 1 : Values[j] # e
      BY <1>2 DEF Abstract!First, Abstract!Positions
    <3>2. m + 1 \in 1 .. size /\ Values[m + 1] = e
      BY <1>3, <1>4, <2>3
    <3>3. \A j \in 1 .. (m + 1) - 1 : Values[j] # e
      <4>1. \A j \in 1 .. (m + 1) - 1 : j \in 1 .. size /\ j - 1 \in 0 .. m - 1
        BY <1>2, <2>3, <3>2
      <4> QED
        BY <1>2, <2>5, <4>1
    <3>4. ASSUME NEW i \in 1 .. size, Values[i] = e, \A j \in 1 .. i - 1 : Values[j] # e PROVE i = m + 1
      <4>1. i - 1 \in Used /\ cells[i - 1] = e /\ i \in Nat /\ m <= i - 1
        BY <1>2, <2>3, <3>4
      <4>2. ~ (m + 1 < i)
        <5>1. m + 1 < i => m + 1 \in 1 .. i - 1
          BY <2>3, <4>1
        <5> QED
          BY <3>2, <3>4, <5>1
      <4> QED
        BY <2>3, <4>1, <4>2
    <3> QED
      BY <3>1, <3>2, <3>3, <3>4
  <2> QED
    BY <1>7, <2>3, <2>6, <2>7
<1> QED
  BY <1>6, <1>7

\* A step that leaves cells and size alone.
LEMMA ListUnchanged ==
  ASSUME ListState, UNCHANGED <<cells, size>>
  PROVE  Typed' /\ Values' = Values
BY ItemsFacts DEF ListState, Typed, Used, Values

LEMMA RemoveRefines ==
  ASSUME ListState, NEW arg \in Arguments, Remove(arg) \/ IndexOf(arg)
  PROVE  Typed' /\ Abstract!List
<1> DEFINE e == Read(cells, arg)
           at == Index(e)
<1>1. e \in Entries
  BY ReadIsEntry DEF ListState
<1>2. IF e \in Abstract!ToSet(Values) THEN at \in Used /\ Abstract!First(e) = at + 1 ELSE at = -1
  BY IndexIsFirst
<1>3. \A i \in Used : ~ (i < 0) /\ i \in Int
  BY SortingAssumption DEF Used, ListState, Typed
<1>4. CASE IndexOf(arg)
  <2>1. Returns("index", <<>>, e, NoEntry, at) /\ UNCHANGED <<cells, size>>
    BY <1>4 DEF IndexOf
  <2>2. Typed' /\ Values' = Values
    BY <2>1, ListUnchanged
  <2>3. at = IF e \in Abstract!ToSet(Values) THEN Abstract!First(e) - 1 ELSE -1
    BY <1>2, <1>3
  <2> HIDE DEF e, at
  <2>4. Abstract!List
    BY <1>1, <2>1, <2>2, <2>3 DEF Abstract!List, Abstract!Returns, Returns, ListState
  <2> QED
    BY <2>2, <2>4
<1>5. CASE Remove(arg) /\ e \in Abstract!ToSet(Values)
  <2>1. Returns("remove", <<>>, e, NoEntry, 1) /\ size' = size - 1 /\ cells' = Without(at) /\ at \in Used
    BY <1>2, <1>3, <1>5 DEF Remove
  <2> HIDE DEF e, at
  <2>2. Typed' /\ Values' = Abstract!RemoveAt(Values, at + 1)
    BY <2>1, WithoutFacts
  <2>3. Values' = Abstract!RemoveAt(Values, Abstract!First(e))
    BY <1>2, <1>5, <2>2
  <2>4. Abstract!List
    BY <1>1, <1>5, <2>1, <2>3 DEF Abstract!List, Abstract!Returns, Returns, ListState
  <2> QED
    BY <2>2, <2>4
<1>6. CASE Remove(arg) /\ e \notin Abstract!ToSet(Values)
  <2>1. Returns("remove", <<>>, e, NoEntry, 0) /\ UNCHANGED <<cells, size>>
    BY <1>2, <1>6 DEF Remove
  <2>2. Typed' /\ Values' = Values
    BY <2>1, ListUnchanged
  <2> HIDE DEF e, at
  <2>3. Abstract!List
    BY <1>1, <1>6, <2>1, <2>2 DEF Abstract!List, Abstract!Returns, Returns, ListState
  <2> QED
    BY <2>2, <2>3
<1> QED
  BY <1>4, <1>5, <1>6

LEMMA SetItemRefines ==
  ASSUME ListState, NEW arg \in Arguments, NEW i \in -size .. size - 1, SetItem(i, arg)
  PROVE  Typed' /\ Abstract!List
<1> DEFINE e == Read(cells, arg)
           at == GetPositiveIndex(i)
           t == [Items EXCEPT ![at + 1] = e]
<1>1. Typed /\ e \in Entries /\ MaxLength \in Nat
  BY ReadIsEntry, SortingAssumption DEF ListState
<1>2. Items \in Seq(Entries) /\ Len(Items) = size /\ size \in Nat /\ Values = Items
      /\ \A j \in 1 .. size : Items[j] = cells[j - 1] /\ j - 1 \in Used
  BY <1>1, ItemsFacts DEF ListState
<1>3. at \in Used /\ at \in Cells /\ at + 1 \in 1 .. size
  BY <1>1, <1>2 DEF GetPositiveIndex, Used, Typed, Cells
<1>4. cells' = [cells EXCEPT ![at] = e] /\ size' = size /\ Returns("set", <<i>>, e, NoEntry, 0)
  BY DEF SetItem
<1> HIDE DEF e, at
<1>5. t \in Seq(Entries) /\ Len(t) = size /\ \A j \in 1 .. size : t[j] = IF j = at + 1 THEN e ELSE Items[j]
  BY <1>1, <1>2, <1>3, ExceptSeq
<1> HIDE DEF t
<1>6. cells' \in [Cells -> Entries \cup {NoEntry}] /\ cells'[at] = e /\ \A c \in Cells : c # at => cells'[c] = cells[c]
  BY <1>1, <1>3, <1>4 DEF Typed
<1>7. ASSUME NEW j \in 1 .. size PROVE cells'[j - 1] = t[j]
  <2>1. j - 1 \in Cells /\ (j = at + 1 <=> j - 1 = at)
    BY <1>1, <1>2, <1>3 DEF Cells, Typed
  <2> QED
    BY <1>2, <1>5, <1>6, <2>1
<1>8. Leaves(t)
  BY <1>1, <1>4, <1>5, <1>6, <1>7 DEF Leaves, Typed
<1>9. Typed' /\ Values' = t
  BY <1>8, ListStep
<1>10. i \in Abstract!Indices /\ Values' = [Values EXCEPT ![Abstract!Position(i)] = e]
  <2>1. i \in -size .. size
    BY <1>2
  <2>2. i \in Abstract!Indices /\ Abstract!Position(i) = at + 1
    BY <2>1, PositionFacts DEF at
  <2> QED
    BY <1>2, <1>9, <2>2 DEF t
<1>11. Abstract!List
  BY <1>1, <1>4, <1>10 DEF Abstract!List, Abstract!Returns, Returns, ListState
<1> QED
  BY <1>9, <1>11

LEMMA ReverseFacts ==
  ASSUME NEW E, NEW s \in Seq(E)
  PROVE  /\ Abstract!Reverse(s) \in Seq(E) /\ Len(Abstract!Reverse(s)) = Len(s)
         /\ \A j \in 1 .. Len(s) : Abstract!Reverse(s)[j] = s[Len(s) - j + 1]
<1>1. Len(s) \in Nat /\ \A j \in 1 .. Len(s) : Len(s) - j + 1 \in 1 .. Len(s) /\ s[Len(s) - j + 1] \in E
  <2>1. Len(s) \in Nat /\ \A j \in 1 .. Len(s) : s[j] \in E
    OBVIOUS
  <2>2. \A j \in 1 .. Len(s) : Len(s) - j + 1 \in 1 .. Len(s)
    BY <2>1
  <2> QED
    BY <2>1, <2>2
<1>2. Abstract!Reverse(s) = [j \in 1 .. Len(s) |-> s[Len(s) - j + 1]]
  BY DEF Abstract!Reverse
<1> QED
  BY <1>1, <1>2

LEMMA ExtendRefines ==
  ASSUME ListState, NEW reversed \in BOOLEAN, Extend(reversed)
  PROVE  Typed' /\ Abstract!List
<1> DEFINE more == IF reversed THEN Abstract!Reverse(Items) ELSE Items
           t == Items \o more
<1>1. Typed /\ MaxLength \in Nat
  BY SortingAssumption DEF ListState
<1>2. Items \in Seq(Entries) /\ Len(Items) = size /\ size \in Nat /\ Values = Items
      /\ \A j \in 1 .. size : Items[j] = cells[j - 1] /\ j - 1 \in Used
  BY <1>1, ItemsFacts DEF ListState
<1>3. more \in Seq(Entries) /\ Len(more) = size
      /\ \A j \in 1 .. size : more[j] = IF reversed THEN Items[size - j + 1] ELSE Items[j]
  BY <1>2, ReverseFacts
<1> HIDE DEF more
<1>4. t \in Seq(Entries) /\ Len(t) = size + size
      /\ \A j \in 1 .. size + size : t[j] = IF j <= size THEN Items[j] ELSE more[j - size]
  <2>1. t \in Seq(Entries) /\ Len(t) = Len(Items) + Len(more)
        /\ \A j \in 1 .. Len(Items) + Len(more) : t[j] = IF j <= Len(Items) THEN Items[j] ELSE more[j - Len(Items)]
    BY <1>2, <1>3, ConcatProperties
  <2> HIDE DEF t
  <2> QED
    BY <1>2, <1>3, <2>1
<1> HIDE DEF t
<1>5. /\ size + size <= MaxLength /\ size' = size + size /\ Returns(IF reversed THEN "extend reversed" ELSE "extend", <<>>, NoEntry, NoEntry, 0)
      /\ \A c \in Cells : cells'[c] = IF c \in size .. size + size - 1
                                      THEN cells[IF reversed THEN size - 1 - (c - size) ELSE c - size] ELSE cells[c]
  BY DEF Extend
<1>6. cells' \in [Cells -> Entries \cup {NoEntry}]
  <2>1. \A c \in size .. size + size - 1 : size - 1 - (c - size) \in Used /\ c - size \in Used
    BY <1>2 DEF Used
  <2>2. \A c \in Cells : cells[c] \in Entries \cup {NoEntry}
    BY <1>1 DEF Typed
  <2>3. \A c \in Used : cells[c] \in Entries
    BY <1>1 DEF Typed
  <2> QED
    BY <2>1, <2>2, <2>3 DEF Extend
<1>7. ASSUME NEW j \in 1 .. size + size PROVE cells'[j - 1] = t[j]
  <2>1. j - 1 \in Cells /\ (j <= size <=> ~ (j - 1 \in size .. size + size - 1)) /\ j \in Nat
    <3>1. size + size <= MaxLength /\ j \in 1 .. size + size
      BY <1>5
    <3> QED
      BY <1>1, <1>2, <3>1 DEF Cells
  <2>2. CASE j <= size
    <3>1. j \in 1 .. size
      BY <1>2, <2>1, <2>2
    <3>2. t[j] = Items[j]
      BY <1>4, <2>2
    <3>3. cells'[j - 1] = cells[j - 1]
      BY <1>5, <2>1, <2>2
    <3> QED
      BY <1>2, <3>1, <3>2, <3>3
  <2>3. CASE ~ (j <= size)
    <3>1. j - size \in 1 .. size /\ size - (j - size) + 1 \in 1 .. size
      BY <1>2, <2>1, <2>3
    <3>2. t[j] = more[j - size]
      BY <1>4, <2>3
    <3>3. CASE reversed
      <4>1. t[j] = Items[size - (j - size) + 1]
        BY <1>3, <3>1, <3>2, <3>3
      <4>2. cells'[j - 1] = cells[size - 1 - ((j - 1) - size)]
        BY <1>5, <2>1, <2>3, <3>3
      <4>3. (size - (j - size) + 1) - 1 = size - 1 - ((j - 1) - size)
        BY <1>2, <2>1
      <4> QED
        BY <1>2, <3>1, <4>1, <4>2, <4>3
    <3>4. CASE ~ reversed
      <4>1. t[j] = Items[j - size]
        BY <1>3, <3>1, <3>2, <3>4
      <4>2. cells'[j - 1] = cells[(j - 1) - size] /\ (j - size) - 1 = (j - 1) - size
        BY <1>2, <1>5, <2>1, <2>3, <3>4
      <4> QED
        BY <1>2, <3>1, <4>1, <4>2
    <3> QED
      BY <3>3, <3>4
  <2> QED
    BY <2>2, <2>3
<1>8. Leaves(t)
  BY <1>4, <1>5, <1>6, <1>7 DEF Leaves
<1>9. Typed' /\ Values' = t
  BY <1>8, ListStep
<1>10. Values' = (IF reversed THEN Values \o Abstract!Reverse(Values) ELSE Values \o Values) /\ Len(Values') <= MaxLength
  BY <1>2, <1>4, <1>5, <1>9 DEF t, more
<1>11. Abstract!List
  BY <1>5, <1>10 DEF Abstract!List, Abstract!Returns, Returns, ListState
<1> QED
  BY <1>9, <1>11

LEMMA ClearRefinesList ==
  ASSUME ListState, Clear
  PROVE  Typed' /\ Abstract!List
<1>1. size' = 0 /\ Returns("clear", <<>>, NoEntry, NoEntry, 0) /\ UNCHANGED cells
  BY DEF Clear
<1>2. Leaves(<<>>)
  BY <1>1, SortingAssumption DEF Leaves, ListState, Typed
<1>3. Typed' /\ Values' = <<>>
  BY <1>2, ListStep
<1>4. Abstract!List
  BY <1>1, <1>3 DEF Abstract!List, Abstract!Returns, Returns, ListState
<1> QED
  BY <1>3, <1>4

LEMMA SwapRefines ==
  ASSUME ListState, NEW i \in Used, NEW j \in Used, Swap(i, j)
  PROVE  Typed' /\ Abstract!List
<1> DEFINE t == [Items EXCEPT ![i + 1] = Items[j + 1], ![j + 1] = Items[i + 1]]
<1>1. Typed /\ MaxLength \in Nat /\ size <= MaxLength
  BY SortingAssumption DEF ListState, Typed
<1>2. Items \in Seq(Entries) /\ Len(Items) = size /\ size \in Nat /\ Values = Items /\ DOMAIN Items = 1 .. size
      /\ \A k \in 1 .. size : Items[k] = cells[k - 1] /\ k - 1 \in Used
  BY <1>1, ItemsFacts DEF ListState
<1>3. /\ i + 1 \in 1 .. size /\ j + 1 \in 1 .. size /\ (i + 1) - 1 = i /\ (j + 1) - 1 = j
      /\ i \in Cells /\ j \in Cells /\ i \in Int /\ j \in Int
  BY <1>1, <1>2 DEF Used, Cells
<1>4. cells' = SwapUnchecked(cells, i, j) /\ size' = size /\ Returns("swap", <<i, j>>, NoEntry, NoEntry, 0)
  BY DEF Swap
<1>5. cells' \in [Cells -> Entries \cup {NoEntry}]
      /\ \A c \in Cells : cells'[c] = IF c = j THEN cells[i] ELSE IF c = i THEN cells[j] ELSE cells[c]
  BY <1>1, <1>3, <1>4 DEF Typed, SwapUnchecked
<1>6. t \in Seq(Entries) /\ Len(t) = size
      /\ \A k \in 1 .. size : t[k] = IF k = j + 1 THEN Items[i + 1] ELSE IF k = i + 1 THEN Items[j + 1] ELSE Items[k]
  <2>1. \A k \in 1 .. size : Items[k] \in Entries
    BY <1>2
  <2>2. t = [k \in 1 .. size |-> IF k = j + 1 THEN Items[i + 1] ELSE IF k = i + 1 THEN Items[j + 1] ELSE Items[k]]
    BY <1>2, <1>3
  <2> QED
    BY <1>2, <1>3, <2>1, <2>2
<1> HIDE DEF t
<1>7. ASSUME NEW k \in 1 .. size PROVE cells'[k - 1] = t[k]
  <2>1. k - 1 \in Cells /\ (k = j + 1 <=> k - 1 = j) /\ (k = i + 1 <=> k - 1 = i)
    BY <1>1, <1>2, <1>3 DEF Cells
  <2>2. Items[i + 1] = cells[i] /\ Items[j + 1] = cells[j] /\ Items[k] = cells[k - 1]
    BY <1>2, <1>3
  <2> QED
    BY <1>5, <1>6, <2>1, <2>2
<1>8. Leaves(t)
  BY <1>1, <1>4, <1>5, <1>6, <1>7 DEF Leaves
<1>9. Typed' /\ Values' = t
  BY <1>8, ListStep
<1>10. i + 1 \in Abstract!Positions /\ j + 1 \in Abstract!Positions
       /\ Values' = [Values EXCEPT ![i + 1] = Values[j + 1], ![j + 1] = Values[i + 1]]
  BY <1>2, <1>3, <1>9 DEF Abstract!Positions, t
<1>11. Abstract!List
  BY <1>3, <1>4, <1>10 DEF Abstract!List, Abstract!Returns, Returns, ListState
<1> QED
  BY <1>9, <1>11

LEMMA ReverseAllRefines ==
  ASSUME ListState, ReverseAll
  PROVE  Typed' /\ Abstract!List
<1> DEFINE t == Abstract!Reverse(Items)
<1>1. Typed /\ MaxLength \in Nat /\ size <= MaxLength
  BY SortingAssumption DEF ListState, Typed
<1>2. Items \in Seq(Entries) /\ Len(Items) = size /\ size \in Nat /\ Values = Items
      /\ \A k \in 1 .. size : Items[k] = cells[k - 1] /\ k - 1 \in Used
  BY <1>1, ItemsFacts DEF ListState
<1>3. size' = size /\ Returns("reverse", <<>>, NoEntry, NoEntry, 0)
      /\ \A c \in Cells : cells'[c] = IF c \in Used THEN cells[size - 1 - c] ELSE cells[c]
  BY DEF ReverseAll
<1>4. cells' \in [Cells -> Entries \cup {NoEntry}]
  <2>1. \A c \in Used : size - 1 - c \in Used
    BY <1>2 DEF Used
  <2>2. \A c \in Cells : cells[c] \in Entries \cup {NoEntry}
    BY <1>1 DEF Typed
  <2>3. \A c \in Used : cells[c] \in Entries
    BY <1>1 DEF Typed
  <2> QED
    BY <2>1, <2>2, <2>3 DEF ReverseAll
<1>5. t \in Seq(Entries) /\ Len(t) = size /\ \A k \in 1 .. size : t[k] = Items[size - k + 1]
  BY <1>2, ReverseFacts
<1> HIDE DEF t
<1>6. ASSUME NEW k \in 1 .. size PROVE cells'[k - 1] = t[k]
  <2>1. k - 1 \in Cells /\ k - 1 \in Used /\ size - k + 1 \in 1 .. size /\ (size - k + 1) - 1 = size - 1 - (k - 1)
    BY <1>1, <1>2 DEF Cells, Used
  <2>2. Items[size - k + 1] = cells[(size - k + 1) - 1]
    BY <1>2, <2>1
  <2>3. cells'[k - 1] = cells[size - 1 - (k - 1)]
    BY <1>3, <2>1
  <2> QED
    BY <1>5, <2>1, <2>2, <2>3
<1>7. Leaves(t)
  BY <1>1, <1>3, <1>4, <1>5, <1>6 DEF Leaves
<1>8. Typed' /\ Values' = t
  BY <1>7, ListStep
<1>9. Abstract!List
  BY <1>2, <1>3, <1>8 DEF Abstract!List, Abstract!Returns, Returns, ListState, t
<1> QED
  BY <1>8, <1>9

LEMMA ContentFacts ==
  ASSUME ListState
  PROVE  Content \in Arrays /\ DOMAIN Content = Used /\ Size(Content) = size /\ \A i \in Used : Content[i] = cells[i]
<1>1. Typed /\ size \in 0 .. MaxLength /\ MaxLength \in Nat
  BY SortingAssumption DEF ListState, Typed
<1>2. Content \in [0 .. size - 1 -> Entries] /\ DOMAIN Content = Used
  BY <1>1 DEF Content, Typed, Used
<1>3. Content \in Arrays
  BY <1>1, <1>2 DEF Arrays
<1>4. Size(Content) = size
  <2>1. DOMAIN Content = 0 .. Size(Content) - 1 /\ Size(Content) \in Nat
    BY <1>1, <1>3, ArrayFacts
  <2> QED
    BY <1>1, <1>2, <2>1 DEF Used
<1> QED
  BY <1>2, <1>3, <1>4 DEF Content

LEMMA FrozenContainsRefines ==
  ASSUME ListState, NEW k \in EntryKeys, FrozenContains(k)
  PROVE  Typed' /\ Abstract!List
<1>1. Typed /\ size \in Nat /\ \A i \in Used : cells[i].key \in Int
  BY SortingAssumption DEF ListState, Typed
<1>2. Len(Values) = size /\ DOMAIN Values = 1 .. size /\ \A j \in 1 .. size : Values[j] = cells[j - 1] /\ j - 1 \in Used
  BY <1>1, ItemsFacts DEF ListState
<1>3. \A i \in Used : i + 1 \in 1 .. size /\ (i + 1) - 1 = i /\ i \in Nat
  BY <1>1 DEF Used
<1>4. Content \in Arrays /\ DOMAIN Content = Used /\ \A i \in Used : Content[i] = cells[i]
  BY ContentFacts
<1>5. ASSUME NEW x \in Used, NEW y \in Used, x < y PROVE cells[x].key <= cells[y].key
  <2> DEFINE bad == {z \in Used : x < z /\ ~ (cells[x].key <= cells[z].key)}
  <2>1. SUFFICES ASSUME bad # {} PROVE FALSE
    BY <1>5
  <2>2. bad \in SUBSET Nat
    BY <1>3
  <2> HIDE DEF bad
  <2>3. PICK z \in bad : \A w \in bad : z <= w
    BY <2>1, <2>2, LeastNumber
  <2>4. z \in Used /\ x < z /\ ~ (cells[x].key <= cells[z].key)
    BY DEF bad
  <2>5. z - 1 \in Used /\ z > 0 /\ (z - 1 = x \/ x < z - 1) /\ ~ (z <= z - 1)
    BY <1>1, <1>3, <2>4 DEF Used
  <2>6. cells[z - 1].key <= cells[z].key
    BY <2>4, <2>5 DEF FrozenContains
  <2>7. cells[x].key <= cells[z - 1].key
    <3>1. CASE z - 1 = x
      BY <1>1, <3>1
    <3>2. CASE x < z - 1
      <4>1. z - 1 \notin bad
        BY <2>3, <2>5
      <4> QED
        BY <2>5, <3>2, <4>1 DEF bad
    <3> QED
      BY <2>5, <3>1, <3>2
  <2> QED
    BY <1>1, <2>4, <2>5, <2>6, <2>7
<1>6. KeysAscend(Content)
  BY <1>4, <1>5 DEF KeysAscend
<1>7. Search(Content, k) <=> \E i \in Used : cells[i].key = k
  <2>1. Search(Content, k) = \E x \in DOMAIN Content : Content[x].key = k
    BY <1>4, <1>6, SearchCorrect
  <2>2. (\E x \in DOMAIN Content : Content[x].key = k) <=> \E i \in Used : cells[i].key = k
    BY <1>4
  <2> QED
    BY <2>1, <2>2, Zenon
<1>8. Search(Content, k) <=> \E i \in Abstract!Positions : Values[i].key = k
  <2>1. Abstract!Positions = 1 .. size
    BY <1>2 DEF Abstract!Positions
  <2>2. \A i \in Used : Values[i + 1] = cells[i]
    BY <1>2, <1>3
  <2>3. (\E i \in 1 .. size : Values[i].key = k) => \E i \in Used : cells[i].key = k
    BY <1>2
  <2>4. (\E i \in Used : cells[i].key = k) => \E i \in 1 .. size : Values[i].key = k
    BY <1>3, <2>2
  <2> QED
    BY <1>7, <2>1, <2>3, <2>4, Zenon
<1>9. Abstract!InOrder(Values, TRUE, FALSE)
  <2> SUFFICES ASSUME NEW i \in 1 .. size, NEW j \in 1 .. size, i < j
               PROVE  ~ (Values[j].key < Values[i].key)
    BY <1>2 DEF Abstract!InOrder, Abstract!Before
  <2>1. i - 1 \in Used /\ j - 1 \in Used /\ i - 1 < j - 1
    <3>1. i - 1 < j - 1
      BY <1>1
    <3> QED
      BY <1>2, <3>1
  <2>2. cells[i - 1].key <= cells[j - 1].key
    BY <1>5, <2>1
  <2> QED
    BY <1>1, <1>2, <2>1, <2>2
<1>10. UNCHANGED <<cells, size>> /\ Returns("search", <<k>>, NoEntry, NoEntry, IF Search(Content, k) THEN 1 ELSE 0)
  BY DEF FrozenContains
<1>11. Typed' /\ Values' = Values
  BY <1>10, ListUnchanged
<1>12. Returns("search", <<k>>, NoEntry, NoEntry, Abstract!Truth(\E i \in Abstract!Positions : Values[i].key = k))
  BY <1>8, <1>10 DEF Abstract!Truth
<1>13. Abstract!List
  BY <1>9, <1>11, <1>12 DEF Abstract!List, Abstract!Returns, Returns, ListState
<1> QED
  BY <1>11, <1>13

\* In order as arrays are, and as Collection says it.
LEMMA OrderedIsInOrder ==
  ASSUME NEW how \in Orders, NEW x \in Entries, NEW y \in Entries, Ordered(how, x, y)
  PROVE  IF how.reverse THEN ~ Abstract!Before(how.keyed, x, y) ELSE ~ Abstract!Before(how.keyed, y, x)
<1>1. x.key \in Int /\ x.val \in Int /\ y.key \in Int /\ y.val \in Int
  BY SortingAssumption
<1>2. CASE how.reverse
  BY <1>1, <1>2 DEF Ordered, OutOfOrder, Greater, Abstract!Before
<1>3. CASE ~ how.reverse
  BY <1>1, <1>3 DEF Ordered, OutOfOrder, Greater, Abstract!Before
<1> QED
  BY <1>2, <1>3

\* Sequences s and t hold what the arrays a and b of n cells hold.
Holds(n, a, s) == DOMAIN a = 0 .. n - 1 /\ DOMAIN s = 1 .. n /\ \A i \in 1 .. n : s[i] = a[i - 1]

\* A permutation of the cells from 0 is one of the positions from 1.
LEMMA ReordersIsRearranged ==
  ASSUME NEW how \in Orders, NEW n \in Nat, NEW a, NEW b, NEW s, NEW t \in [1 .. n -> Entries],
         Reorders(how, a, b, how.keyed), Holds(n, a, s), Holds(n, b, t)
  PROVE  Abstract!Rearranged(s, t, how.keyed)
<1>1. PICK p : ByPermutation(how, a, b, how.keyed, p)
  BY DEF Reorders
<1> DEFINE D == 0 .. n - 1
           q == [i \in 1 .. n |-> p[i - 1] + 1]
<1>2. /\ p \in [D -> D] /\ b = [x \in D |-> a[p[x]]]
      /\ \A x, y \in D : p[x] = p[y] => x = y
      /\ \A x \in D : \E y \in D : p[y] = x
      /\ how.keyed => \A x, y \in D : x < y /\ Alike(how, b[x], b[y]) => p[x] < p[y]
      /\ DOMAIN s = 1 .. n /\ \A i \in 1 .. n : s[i] = a[i - 1] /\ t[i] = b[i - 1]
  <2>1. DOMAIN a = D
    BY DEF Holds
  <2> HIDE DEF D
  <2> QED
    BY <1>1, <2>1 DEF ByPermutation, Bijection, Injection, IsInjective, Surjection, Holds
<1>3. \A i \in 1 .. n : i - 1 \in D
  OBVIOUS
<1>4. \A x \in D : x + 1 \in 1 .. n /\ (x + 1) - 1 = x /\ x \in Int
  OBVIOUS
<1> HIDE DEF D
<1>5. q \in [1 .. n -> 1 .. n] /\ \A i \in 1 .. n : q[i] = p[i - 1] + 1 /\ q[i] - 1 = p[i - 1]
  <2>1. \A i \in 1 .. n : p[i - 1] \in D
    BY <1>2, <1>3
  <2> QED
    BY <1>4, <2>1
<1> HIDE DEF q
<1>6. ASSUME NEW i \in 1 .. n, NEW j \in 1 .. n, q[i] = q[j] PROVE i = j
  <2>1. p[i - 1] = p[j - 1] /\ i - 1 \in D /\ j - 1 \in D
    BY <1>3, <1>5, <1>6
  <2>2. i - 1 = j - 1
    BY <1>2, <2>1
  <2> QED
    BY <2>2
<1>7. ASSUME NEW i \in 1 .. n PROVE \E j \in 1 .. n : q[j] = i
  <2>1. PICK y \in D : p[y] = i - 1
    BY <1>2, <1>3
  <2>2. q[y + 1] = p[y] + 1 /\ y + 1 \in 1 .. n
    BY <1>4, <1>5
  <2>3. (i - 1) + 1 = i
    OBVIOUS
  <2> QED
    BY <2>1, <2>2, <2>3
<1>8. q \in Abstract!Bijection(DOMAIN s, DOMAIN s)
  BY <1>2, <1>5, <1>6, <1>7
  DEF Abstract!Bijection, Abstract!Injection, Abstract!Surjection, Abstract!IsInjective
<1>9. t = [i \in DOMAIN s |-> s[q[i]]]
  <2>1. ASSUME NEW i \in 1 .. n PROVE t[i] = s[q[i]]
    <3>1. t[i] = b[i - 1] /\ b[i - 1] = a[p[i - 1]]
      BY <1>2, <1>3
    <3>2. q[i] \in 1 .. n /\ s[q[i]] = a[q[i] - 1]
      BY <1>2, <1>5
    <3> QED
      BY <1>5, <3>1, <3>2
  <2>2. t = [i \in 1 .. n |-> t[i]]
    OBVIOUS
  <2> QED
    BY <1>2, <2>1, <2>2
<1>10. ASSUME how.keyed, NEW i \in 1 .. n, NEW j \in 1 .. n, i < j, t[i].key = t[j].key PROVE q[i] < q[j]
  <2>1. i - 1 \in D /\ j - 1 \in D /\ i - 1 < j - 1
    <3>1. i - 1 < j - 1
      BY <1>10
    <3> QED
      BY <1>3, <3>1
  <2>2. t[i] = b[i - 1] /\ t[j] = b[j - 1]
    BY <1>2
  <2>3. Alike(how, b[i - 1], b[j - 1])
    BY <1>10, <2>2, OrderFacts
  <2>4. p[i - 1] < p[j - 1]
    BY <1>2, <1>10, <2>1, <2>3
  <2>5. p[i - 1] \in Int /\ p[j - 1] \in Int
    BY <1>2, <1>3, <1>4
  <2> QED
    BY <1>5, <2>4, <2>5
<1> QED
  BY <1>2, <1>8, <1>9, <1>10 DEF Abstract!Rearranged

LEMMA SortItemsRefines ==
  ASSUME ListState, NEW how \in Orders, SortItems(how)
  PROVE  Typed' /\ Abstract!Sort
<1> DEFINE b == Sort(how, Content)
           t == [i \in 1 .. size |-> b[i - 1]]
<1>1. Typed /\ MaxLength \in Nat /\ size <= MaxLength
  BY SortingAssumption DEF ListState, Typed
<1>2. Len(Items) = size /\ size \in Nat /\ Values = Items /\ DOMAIN Items = 1 .. size
      /\ \A k \in 1 .. size : Items[k] = cells[k - 1] /\ k - 1 \in Used
  BY <1>1, ItemsFacts DEF ListState
<1>3. Content \in Arrays /\ DOMAIN Content = Used /\ Size(Content) = size /\ \A i \in Used : Content[i] = cells[i]
  BY ContentFacts
<1>4. SortsTo(how, Content, b, how.keyed)
  BY <1>3, SortCorrect
<1>5. cells' = WithContent(b) /\ size' = size /\ Returns(SortName(how), <<>>, NoEntry, NoEntry, 0)
  BY DEF SortItems
<1> HIDE DEF b
<1>6. DOMAIN b = Used /\ \A i \in Used : b[i] \in Entries
  BY <1>3, <1>4, ArrayFacts DEF SortsTo
<1>7. t \in Seq(Entries) /\ Len(t) = size /\ DOMAIN t = 1 .. size /\ \A i \in 1 .. size : t[i] = b[i - 1]
  <2>1. \A i \in 1 .. size : b[i - 1] \in Entries
    BY <1>2, <1>6
  <2>2. t \in [1 .. size -> Entries] /\ \A i \in 1 .. size : t[i] = b[i - 1]
    BY <2>1
  <2> HIDE DEF t
  <2>3. t \in Seq(Entries)
    BY <1>2, <2>2
  <2> QED
    BY <1>2, <2>2, <2>3
<1>8. cells' \in [Cells -> Entries \cup {NoEntry}] /\ \A i \in Used : cells'[i] = b[i]
  <2>1. Used \subseteq Cells
    BY <1>1, <1>2 DEF Used, Cells
  <2>2. cells' = [c \in Cells |-> IF c \in Used THEN b[c] ELSE cells[c]]
    BY <1>5, <1>6 DEF WithContent
  <2> QED
    BY <1>1, <1>6, <2>1, <2>2 DEF Typed
<1>9. Leaves(t)
  <2>1. \A i \in 1 .. size : cells'[i - 1] = t[i]
    BY <1>2, <1>7, <1>8
  <2> HIDE DEF t
  <2> QED
    BY <1>1, <1>5, <1>7, <1>8, <2>1 DEF Leaves
<1>10. Typed' /\ Values' = t
  BY <1>9, ListStep
<1>11. Abstract!Rearranged(Values, t, how.keyed)
  <2>1. DOMAIN Content = 0 .. size - 1 /\ DOMAIN b = 0 .. size - 1 /\ Reorders(how, Content, b, how.keyed)
    BY <1>3, <1>4 DEF Used, SortsTo
  <2>2. Holds(size, Content, Values)
    BY <1>2, <1>3, <2>1 DEF Holds
  <2>3. Holds(size, b, t)
    BY <1>7, <2>1 DEF Holds
  <2>4. t \in [1 .. size -> Entries]
    BY <1>2, <1>6
  <2> HIDE DEF t
  <2> QED
    BY <1>2, <2>1, <2>2, <2>3, <2>4, ReordersIsRearranged
<1>12. Abstract!InOrder(t, how.keyed, how.reverse)
  <2> SUFFICES ASSUME NEW i \in 1 .. size, NEW j \in 1 .. size, i < j
               PROVE  IF how.reverse THEN ~ Abstract!Before(how.keyed, t[i], t[j]) ELSE ~ Abstract!Before(how.keyed, t[j], t[i])
    BY <1>7 DEF Abstract!InOrder
  <2>1. i - 1 < j - 1 /\ j - 1 < size
    BY <1>2
  <2>2. i - 1 \in Used /\ j - 1 \in Used
    BY <1>2
  <2>3. Ordered(how, b[i - 1], b[j - 1])
    BY <1>3, <1>4, <1>6, <2>1, <2>2 DEF SortsTo, InOrderUpto
  <2> QED
    BY <1>6, <1>7, <2>2, <2>3, OrderedIsInOrder
<1> HIDE DEF t
<1>13. \/ how.keyed = FALSE /\ how.reverse = FALSE /\ SortName(how) = "sort"
       \/ how.keyed = FALSE /\ how.reverse = TRUE /\ SortName(how) = "sort reverse"
       \/ how.keyed = TRUE /\ how.reverse = FALSE /\ SortName(how) = "sort by key"
       \/ how.keyed = TRUE /\ how.reverse = TRUE /\ SortName(how) = "sort by key reverse"
  BY DEF Orders, SortName
<1>14. Abstract!Sort
  BY <1>5, <1>10, <1>11, <1>12, <1>13 DEF Abstract!Sort, Abstract!Returns, Returns, ListState
<1> QED
  BY <1>10, <1>14

ListInvariant == kind = "list" => Typed

LEMMA ListInit == Init => ListInvariant
<1> SUFFICES ASSUME Init, kind = "list" PROVE Typed
  BY DEF ListInvariant
<1>1. size = 0 /\ cells = [i \in Cells |-> NoEntry] /\ Used = {} /\ iter = NoIterator
  BY DEF Init, Used
<1> QED
  BY <1>1, SortingAssumption DEF Typed, NoIterator

LEMMA ListNext ==
  ASSUME ~AliasedInserts, ListInvariant, [Next]_vars
  PROVE  ListInvariant' /\ (kind = "list" => AbstractStep)
<1>1. CASE UNCHANGED vars
  <2>1. ListInvariant'
    BY <1>1 DEF vars, ListInvariant, Typed, Used
  <2>2. ASSUME kind = "list" PROVE UNCHANGED Abstract!vars
    BY <1>1, <2>2 DEF vars, Abstract!vars, Values
  <2> QED
    BY <2>1, <2>2 DEF AbstractStep
<1>2. CASE kind # "list" /\ kind' = kind
  BY <1>2 DEF ListInvariant
<1>3. CASE kind = "list" /\ kind' = kind /\ VarArray
  <2>1. ListState
    BY <1>3 DEF ListInvariant, ListState, VarArray
  <2>2. Typed' /\ (Abstract!List \/ Abstract!Sort)
    <3>1. CASE \E arg \in Arguments : AppendItem(arg) \/ Remove(arg) \/ IndexOf(arg)
      BY <2>1, <3>1, AppendItemRefines, RemoveRefines
    <3>2. CASE \E i \in -size .. size, arg \in Arguments : (AliasedInserts \/ arg.cell < 0) /\ Insert(i, arg)
      BY <2>1, <3>2, InsertRefines
    <3>3. CASE \E i \in -size .. size - 1 : Pop(i)
      BY <2>1, <3>3, PopRefines
    <3>4. CASE \E i \in -size .. size - 1, arg \in Arguments : SetItem(i, arg)
      BY <2>1, <3>4, SetItemRefines
    <3>5. CASE \E reversed \in BOOLEAN : Extend(reversed)
      BY <2>1, <3>5, ExtendRefines
    <3>6. CASE \E i, j \in Used : Swap(i, j)
      BY <2>1, <3>6, SwapRefines
    <3>7. CASE Clear \/ ReverseAll
      BY <2>1, <3>7, ClearRefinesList, ReverseAllRefines
    <3>8. CASE \E how \in Orders : SortItems(how)
      BY <2>1, <3>8, SortItemsRefines
    <3>9. CASE \E k \in EntryKeys : FrozenContains(k)
      BY <2>1, <3>9, FrozenContainsRefines
    <3> QED
      BY <1>3, <3>1, <3>2, <3>3, <3>4, <3>5, <3>6, <3>7, <3>8, <3>9 DEF VarArray
  <2> QED
    BY <1>3, <2>2 DEF ListInvariant, AbstractStep, Abstract!Next
<1> QED
  BY <1>1, <1>2, <1>3 DEF Next, ArraySet, ArrayMap, LinkedList

-----------------------------------------------------------------------------
(* Linked entities: v is their order.                                      *)

Ordering(v) ==
  /\ Listing(v, size) /\ link.head = HeadOf(v, size) /\ Chain(link.next, v, 1, size)
  /\ \A x \in 1 .. size : v[x] \in 1 .. size
  /\ \A e \in 1 .. size : \E x \in 1 .. size : v[x] = e
  /\ result.op = "sort" => Mirrors(v, size, link.prev)
LinksTyped == cells \in [Cells -> Entries] /\ link.next \in Links /\ link.prev \in Links
LinkedInvariant == kind = "linked" => LinksTyped /\ \E v : Ordering(v)

LEMMA OrderingFacts ==
  ASSUME kind = "linked", LinksTyped, NEW v, Ordering(v)
  PROVE  /\ Order = v /\ size \in Nat /\ size <= MaxLength /\ Len(v) = size /\ DOMAIN v = 1 .. size
         /\ Values = [x \in 1 .. size |-> cells[v[x] - 1]]
         /\ Len(Values) = size /\ DOMAIN Values = 1 .. size
         /\ \A x \in 1 .. size : v[x] - 1 \in Cells /\ cells[v[x] - 1] \in Entries
<1>1. Order = v
  BY WalkIs DEF Ordering, Order, LinksTyped
<1>2. v \in [1 .. size -> Entities] /\ size \in Nat /\ size <= MaxLength /\ DOMAIN v = 1 .. size
  BY ListingFacts DEF Ordering, Listing, Injection
<1>3. Len(v) = size
  BY <1>2
<1>4. Values = [x \in 1 .. size |-> cells[v[x] - 1]]
  BY <1>1, <1>3 DEF Values
<1>5. \A x \in 1 .. size : v[x] - 1 \in Cells
  BY <1>2, EntitiesFacts DEF Entities, Cells
<1>6. \A x \in 1 .. size : cells[v[x] - 1] \in Entries
  BY <1>5 DEF LinksTyped
<1>7. Values \in [1 .. size -> Entries]
  BY <1>4, <1>6
<1>8. Len(Values) = size
  BY <1>2, <1>7
<1> QED
  BY <1>1, <1>2, <1>3, <1>4, <1>5, <1>6, <1>8

LEMMA LinkedValuesNext ==
  ASSUME kind' = "linked", LinksTyped', NEW v, Ordering(v)'
  PROVE  Values' = [x \in 1 .. size' |-> cells'[v[x] - 1]]
<1>1. Walk(link'.next, link'.head) = v
  BY WalkIs DEF Ordering, LinksTyped
<1>2. Order' = v
  BY <1>1 DEF Order
<1>3. v \in [1 .. size' -> Entities] /\ size' \in Nat
  BY ListingFacts DEF Ordering, Listing, Injection
<1>4. Len(v) = size'
  BY <1>3
<1> QED
  BY <1>2, <1>4 DEF Values

LEMMA LinkedInit == Init => LinkedInvariant
<1> SUFFICES ASSUME Init, kind = "linked" PROVE LinksTyped /\ \E v : Ordering(v)
  BY DEF LinkedInvariant
<1>1. /\ size \in 0 .. MaxLength /\ cells \in [Cells -> Entries] /\ result.op = "new"
      /\ link = [head |-> IF size = 0 THEN 0 ELSE 1,
                 next |-> [e \in Entities |-> IF e < size THEN e + 1 ELSE 0],
                 prev |-> [e \in Entities |-> 0]]
  BY DEF Init
<1> DEFINE v == [x \in 1 .. size |-> x]
<1>2. size \in Nat /\ size <= MaxLength /\ MaxLength \in Nat
  BY <1>1, EntitiesFacts
<1>3. link.head = (IF size = 0 THEN 0 ELSE 1) /\ link.next \in Links /\ link.prev \in Links
      /\ \A x \in 1 .. size : link.next[x] = IF x < size THEN x + 1 ELSE 0
  BY <1>1, <1>2 DEF Links, References, Entities
<1>4. \A x \in 1 .. size : v[x] = x /\ x \in Entities
  BY <1>2 DEF Entities
<1>5. v \in Injection(1 .. size, Entities)
  BY <1>4 DEF Injection, IsInjective
<1>6. Listing(v, size)
  BY <1>1, <1>5 DEF Listing
<1>7. Chain(link.next, v, 1, size)
  BY <1>2, <1>3 DEF Chain
<1>8. link.head = HeadOf(v, size)
  BY <1>2, <1>3 DEF HeadOf
<1>9. Ordering(v)
  BY <1>1, <1>4, <1>6, <1>7, <1>8 DEF Ordering
<1> QED
  BY <1>1, <1>3, <1>9 DEF LinksTyped

LEMMA WriteEntityRefines ==
  ASSUME kind = "linked", kind' = kind, size' = size, LinksTyped, NEW v, Ordering(v),
         NEW e \in 1 .. size, NEW entry \in Entries, WriteEntity(e, entry)
  PROVE  LinksTyped' /\ Ordering(v)' /\ Abstract!Linked
<1>1. /\ Order = v /\ size \in Nat /\ size <= MaxLength /\ DOMAIN Values = 1 .. size /\ Len(Values) = size
      /\ Values = [x \in 1 .. size |-> cells[v[x] - 1]]
      /\ \A x \in 1 .. size : v[x] - 1 \in Cells /\ cells[v[x] - 1] \in Entries
  BY OrderingFacts
<1>2. cells' = [cells EXCEPT ![e - 1] = entry] /\ link' = link /\ Returns("set", <<>>, entry, NoEntry, 0)
  BY DEF WriteEntity
<1>3. e - 1 \in Cells
  BY <1>1, EntitiesFacts DEF Cells
<1>4. LinksTyped'
  BY <1>2, <1>3 DEF LinksTyped
<1>5. result'.op = "set"
  BY <1>2 DEF Returns
<1>6. Ordering(v)'
  BY <1>2, <1>5 DEF Ordering
<1>7. Values' = [x \in 1 .. size |-> cells'[v[x] - 1]]
  BY <1>4, <1>6, LinkedValuesNext
<1>8. PICK i \in 1 .. size : v[i] = e
  BY DEF Ordering
<1>9. \A x, y \in 1 .. size : v[x] = v[y] => x = y
  BY ListingFacts DEF Ordering
<1>10. \A x \in 1 .. size : cells'[v[x] - 1] = IF x = i THEN entry ELSE cells[v[x] - 1]
  <2> TAKE x \in 1 .. size
  <2>1. v[x] \in 1 .. size
    BY DEF Ordering
  <2>2. v[x] - 1 = e - 1 => x = i
    BY <1>8, <1>9, <2>1
  <2> QED
    BY <1>1, <1>2, <1>8, <2>2 DEF LinksTyped
<1>11. Values' = [Values EXCEPT ![i] = entry]
  BY <1>1, <1>7, <1>10
<1>12. Abstract!Linked
  <2>1. i \in Abstract!Positions
    BY <1>1 DEF Abstract!Positions
  <2>2. Abstract!Returns("set", <<>>, entry, NoEntry, 0)
    BY <1>2 DEF Abstract!Returns, Returns
  <2> QED
    BY <1>11, <2>1, <2>2 DEF Abstract!Linked
<1> QED
  BY <1>4, <1>6, <1>12

LEMMA SortListRefines ==
  ASSUME kind = "linked", kind' = kind, size' = size, LinksTyped, NEW v, Ordering(v), SortList
  PROVE  LinksTyped' /\ (\E u : Ordering(u)') /\ Abstract!Linked
<1>1. /\ size \in Nat /\ size <= MaxLength /\ DOMAIN Values = 1 .. size /\ Len(Values) = size
      /\ Values = [x \in 1 .. size |-> cells[v[x] - 1]]
      /\ \A x \in 1 .. size : v[x] - 1 \in Cells /\ cells[v[x] - 1] \in Entries
  BY OrderingFacts
<1>2. link' = SortLinkedEntities(EntityKeys, link.next, link.prev, HeadOf(v, size)) /\ cells' = cells
      /\ Returns("sort", <<>>, NoEntry, NoEntry, 0)
  BY DEF SortList, Ordering
<1>3. EntityKeys \in [Entities -> Int] /\ \A e \in Entities : EntityKeys[e] = cells[e - 1].key
  <2>1. \A e \in Entities : e - 1 \in Cells
    BY EntitiesFacts DEF Entities, Cells
  <2>2. \A e \in Entities : cells[e - 1].key \in Int
    BY <2>1, SortingAssumption DEF LinksTyped
  <2> QED
    BY <2>2 DEF EntityKeys
<1>4. Listing(v, size) /\ Chain(link.next, v, 1, size) /\ link.next \in Links /\ link.prev \in Links
  BY DEF Ordering, LinksTyped
<1>5. PICK u, p : /\ SortedBy(EntityKeys, v, size, u, p)
                  /\ link'.next \in Links /\ link'.head = HeadOf(u, size) /\ Chain(link'.next, u, 1, size)
                  /\ link'.prev \in Links /\ Mirrors(u, size, link'.prev)
  BY <1>2, <1>3, <1>4, SortLinkedEntitiesIs
<1>6. /\ Listing(u, size) /\ p \in [1 .. size -> 1 .. size]
      /\ \A x, y \in 1 .. size : p[x] = p[y] => x = y
      /\ \A x \in 1 .. size : \E y \in 1 .. size : p[y] = x
      /\ \A x \in 1 .. size : u[x] = v[p[x]]
      /\ \A x, y \in 1 .. size : x < y => \/ EntityKeys[u[x]] < EntityKeys[u[y]]
                                          \/ EntityKeys[u[x]] = EntityKeys[u[y]] /\ p[x] < p[y]
  BY <1>5 DEF SortedBy
<1>7. LinksTyped'
  BY <1>2, <1>5 DEF LinksTyped
<1>8. Ordering(u)'
  <2>1. \A x \in 1 .. size : v[x] \in 1 .. size
    BY DEF Ordering
  <2>2. \A e \in 1 .. size : \E x \in 1 .. size : v[x] = e
    BY DEF Ordering
  <2>3. \A x \in 1 .. size : u[x] \in 1 .. size
    BY <1>6, <2>1
  <2>4. ASSUME NEW e \in 1 .. size PROVE \E x \in 1 .. size : u[x] = e
    <3>1. PICK y \in 1 .. size : v[y] = e
      BY <2>2
    <3>2. PICK x \in 1 .. size : p[x] = y
      BY <1>6
    <3> QED
      BY <1>6, <3>1, <3>2
  <2> QED
    BY <1>5, <1>6, <2>3, <2>4 DEF Ordering
<1> DEFINE t == [x \in 1 .. size |-> cells[u[x] - 1]]
<1>9. Values' = t
  BY <1>2, <1>7, <1>8, LinkedValuesNext
<1>10. t = [x \in DOMAIN Values |-> Values[p[x]]] /\ DOMAIN t = 1 .. size
  <2>1. \A x \in 1 .. size : cells[u[x] - 1] = Values[p[x]]
    BY <1>1, <1>6
  <2> QED
    BY <1>1, <2>1
<1>11. \A x \in 1 .. size : t[x].key = EntityKeys[u[x]] /\ EntityKeys[u[x]] \in Int
  BY <1>3, <1>6, ListingFacts
<1> HIDE DEF t
<1>12. p \in Abstract!Bijection(DOMAIN Values, DOMAIN Values)
  BY <1>1, <1>6 DEF Abstract!Bijection, Abstract!Injection, Abstract!Surjection, Abstract!IsInjective
<1>13. ASSUME NEW x \in 1 .. size, NEW y \in 1 .. size, x < y
       PROVE  ~ (t[y].key < t[x].key) /\ (t[x].key = t[y].key => p[x] < p[y])
  <2>1. EntityKeys[u[x]] < EntityKeys[u[y]] \/ (EntityKeys[u[x]] = EntityKeys[u[y]] /\ p[x] < p[y])
    BY <1>6, <1>13
  <2> QED
    BY <1>11, <2>1
<1>14. Abstract!InOrder(t, TRUE, FALSE)
  BY <1>10, <1>13 DEF Abstract!InOrder, Abstract!Before
<1>15. Abstract!Rearranged(Values, t, TRUE)
  BY <1>1, <1>10, <1>12, <1>13 DEF Abstract!Rearranged
<1>16. Abstract!Linked
  BY <1>2, <1>9, <1>14, <1>15 DEF Abstract!Linked, Abstract!Returns, Returns
<1> QED
  BY <1>7, <1>8, <1>16

LEMMA LinkedNext ==
  ASSUME LinkedInvariant, [Next]_vars
  PROVE  LinkedInvariant' /\ (kind = "linked" => AbstractStep)
<1>1. CASE UNCHANGED vars
  <2>1. LinkedInvariant'
    BY <1>1 DEF vars, LinkedInvariant, LinksTyped, Ordering
  <2>2. ASSUME kind = "linked" PROVE UNCHANGED Abstract!vars
    BY <1>1, <2>2 DEF vars, Abstract!vars, Values, Order
  <2> QED
    BY <2>1, <2>2 DEF AbstractStep
<1>2. CASE kind # "linked" /\ kind' = kind
  BY <1>2 DEF LinkedInvariant
<1>3. CASE kind = "linked" /\ kind' = kind /\ LinkedList
  <2>1. LinksTyped /\ size' = size
    BY <1>3 DEF LinkedInvariant, LinkedList
  <2>2. PICK v : Ordering(v)
    BY <1>3 DEF LinkedInvariant
  <2>3. LinksTyped' /\ (\E u : Ordering(u)') /\ Abstract!Linked
    <3>1. CASE SortList
      BY <1>3, <2>1, <2>2, <3>1, SortListRefines
    <3>2. CASE \E e \in 1 .. size, entry \in Entries : WriteEntity(e, entry)
      BY <1>3, <2>1, <2>2, <3>2, WriteEntityRefines
    <3> QED
      BY <1>3, <3>1, <3>2 DEF LinkedList
  <2>4. LinkedInvariant'
    BY <2>3 DEF LinkedInvariant
  <2> QED
    BY <1>3, <2>3, <2>4 DEF AbstractStep, Abstract!Next
<1> QED
  BY <1>1, <1>2, <1>3 DEF Next, VarArray, ArraySet, ArrayMap

LEMMA LinkedAlways == Spec => []LinkedInvariant
<1>1. LinkedInvariant /\ [Next]_vars => LinkedInvariant'
  BY LinkedNext
<1> QED
  BY <1>1, LinkedInit, PTL DEF Spec

-----------------------------------------------------------------------------
(* The theorems.                                                           *)

\* No two cells in use hold the same element of a set or the same key of a map
\* (ArraySet.add, ArrayMap.__setitem__), at any capacity.
THEOREM EntriesAreDistinct == Spec => [](Hashed => Distinct)
<1>1. IInv => (Hashed => Distinct)
  BY DEF IInv
<1> QED
  BY <1>1, Invariance, PTL

\* An iterator never delivers an element twice, and exactly those it has passed
\* if nothing was removed (the iterators of containers.py).
THEOREM IteratorsAreExact == Spec => []IteratorsDeliver
<1>1. ASSUME IInv PROVE IteratorsDeliver
  <2> SUFFICES ASSUME iter.at >= 0
               PROVE  /\ \A i \in Used : ~(i < iter.at) => Identity(cells[i]) \notin iter.seen
                      /\ ~iter.removed => iter.seen = {Identity(cells[i]) : i \in {j \in Used : j < iter.at}}
    BY DEF IteratorsDeliver
  <2>1. Hashed
    BY <1>1 DEF IInv, NoIterator
  <2>2. Typed /\ Delivered
    BY <1>1, <2>1 DEF IInv
  <2>3. \A i \in Used : ~(i < iter.at) => i >= iter.at
    BY <2>2 DEF Typed, Used
  <2>4. \A i \in Used : ~(i < iter.at) => Identity(cells[i]) \notin iter.seen
    BY <2>2, <2>3 DEF Delivered
  <2>5. ASSUME ~iter.removed
        PROVE  iter.seen = {Identity(cells[i]) : i \in {j \in Used : j < iter.at}}
    <3>1. ASSUME NEW x \in iter.seen PROVE \E i \in {j \in Used : j < iter.at} : x = Identity(cells[i])
      BY <2>2, <2>4, <3>1 DEF Delivered
    <3>2. \A i \in {j \in Used : j < iter.at} : Identity(cells[i]) \in iter.seen
      BY <2>2, <2>5 DEF Delivered
    <3> QED
      BY <3>1, <3>2
  <2> QED
    BY <2>4, <2>5
<1> QED
  BY <1>1, Invariance, PTL

\* A list of linked entities stays one list of all of them at any length, and after
\* a sort the backward references mirror the forward ones (sort_linked_entities).
THEOREM LinksStayAList == Spec => []LinksAgree
<1>1. ASSUME LinkedInvariant PROVE LinksAgree
  <2> SUFFICES ASSUME kind = "linked"
               PROVE  /\ Len(Order) = size
                      /\ \A e \in 1 .. size : \E i \in 1 .. size : Order[i] = e
                      /\ result.op = "sort" =>
                            \A i \in 1 .. size : link.prev[Order[i]] = IF i = 1 THEN 0 ELSE Order[i - 1]
    BY DEF LinksAgree
  <2>1. PICK v : LinksTyped /\ Ordering(v)
    BY <1>1 DEF LinkedInvariant
  <2>2. Order = v /\ Len(v) = size
    BY <2>1, OrderingFacts
  <2>3. \A e \in 1 .. size : \E i \in 1 .. size : v[i] = e
    BY <2>1 DEF Ordering
  <2>4. result.op = "sort" => \A i \in 1 .. size : link.prev[v[i]] = IF i = 1 THEN 0 ELSE v[i - 1]
    BY <2>1 DEF Ordering, Mirrors
  <2> QED
    BY <2>2, <2>3, <2>4
<1> QED
  BY <1>1, LinkedAlways, PTL

\* At any capacity and length, whichever the container, every operation does what
\* the collection of values it stands for does to the values it was given when it was
\* called, elements of the container that it moves included: lists, sets, maps, and the
\* stable merge sort of linked entities. Insert is the exception (InsertsGivenValue): it
\* must not be given an element of its own array.
THEOREM ContainersRefine ==
  ASSUME ~AliasedInserts
  PROVE  Spec => ImplementsCollection
<1>1. Spec => []IInv
  BY Invariance
<1>2. Spec => []ListInvariant
  <2>1. ListInvariant /\ [Next]_vars => ListInvariant'
    BY ListNext
  <2> QED
    BY <2>1, ListInit, PTL DEF Spec
<1>3. ASSUME IInv, ListInvariant, LinkedInvariant, [Next]_vars
      PROVE  [Abstract!Next]_(Abstract!vars)
  <2>1. Hashed => AbstractStep
    BY <1>3, StepRefines
  <2>2. kind = "list" => AbstractStep
    BY <1>3, ListNext
  <2>3. kind = "linked" => AbstractStep
    BY <1>3, LinkedNext
  <2>4. AbstractStep
    BY <1>3, <2>1, <2>2, <2>3 DEF IInv, Hashed
  <2> QED
    BY <2>4 DEF AbstractStep
<1> QED
  BY <1>1, <1>2, <1>3, LinkedAlways, PTL DEF Spec, ImplementsCollection
=============================================================================
