-------------------------- MODULE AllocationProofs --------------------------
(***************************************************************************)
(* Proofs about the placement of temporaries, the liveness analysis,       *)
(* coalescing (at the end) and allocation as a whole, for any program, any *)
(* number of blocks and temporaries, any sizes and any size of the         *)
(* temporary block: placement keeps apart what interferes, the worklists   *)
(* reach the least solution of the liveness equations, and what is placed  *)
(* apart is what the analysis found live together.                         *)
(*                                                                         *)
(* IInv is the inductive invariant of placement alone, AnalysisInv that of *)
(* the analysis.  While a worklist runs, what is recorded lies below every *)
(* solution, and a block whose equation does not hold yet is on the list;  *)
(* when the list is empty the record is itself a solution, hence the least *)
(* one.                                                                    *)
(*                                                                         *)
(* That an allocated program shows what the program shows, however far it  *)
(* runs, is a simulation.  Matches relates the two executions: what is     *)
(* needed at a point of the program is in its slots, if it has a value.    *)
(* What is needed is a table (Sound) that has its source in liveness: of   *)
(* the program as it came if temporaries were merged, of the merged program*)
(* if it was packed, of both for what is needed if both happened.          *)
(***************************************************************************)
EXTENDS Allocation, Coalesce, TLAPS, WellFoundedInduction, FiniteSetTheorems

-----------------------------------------------------------------------------
(* Induction over the natural numbers, from their well-foundedness.        *)
LEMMA NaturalInduction ==
  ASSUME NEW S \in SUBSET Nat, 0 \in S, \A n \in S : n + 1 \in S
  PROVE  S = Nat
<1> SUFFICES ASSUME Nat \ S # {} PROVE FALSE
  OBVIOUS
<1> DEFINE R == OpToRel(<, Nat)
<1>1. IsWellFoundedOn(R, Nat)
  BY NatLessThanWellFounded
<1>2. \A p, q \in Nat : p < q => <<p, q>> \in R
  BY DEF OpToRel
<1> HIDE DEF R
<1>3. PICK m \in Nat \ S : \A p \in Nat \ S : ~ (<<p, m>> \in R)
  BY <1>1, WFMin
<1>4. m # 0 /\ m - 1 \in Nat /\ m - 1 < m
  OBVIOUS
<1>5. <<m - 1, m>> \in R
  BY <1>2, <1>4
<1>6. m - 1 \in S
  BY <1>3, <1>4, <1>5
<1>7. (m - 1) + 1 \in S
  BY <1>6
<1> QED
  BY <1>7

(* A function may be defined by what it is at 0 and by how each value      *)
(* follows from the one before it.                                         *)
Follows(g, n, X, a, F) ==
  g \in [0..n -> X] /\ g[0] = a /\ \A i \in 1..n : g[i] = F[i][g[i - 1]]

LEMMA Recursion ==
  ASSUME NEW n \in Nat, NEW X, NEW a \in X, NEW F \in [1..n -> [X -> X]]
  PROVE  \E g : Follows(g, n, X, a, F)
<1> DEFINE Upto(g, m) == g \in [0..m -> X] /\ g[0] = a /\ \A i \in 1..m : g[i] = F[i][g[i - 1]]
           S == {m \in Nat : m <= n => \E g : Upto(g, m)}
<1>1. 0 \in S
  <2>1. Upto([i \in 0..0 |-> a], 0)
    OBVIOUS
  <2> QED
    BY <2>1
<1>2. ASSUME NEW m \in S PROVE m + 1 \in S
  <2>1. m \in Nat /\ m + 1 \in Nat
    OBVIOUS
  <2> SUFFICES m + 1 <= n => \E g : Upto(g, m + 1)
    <3> HIDE DEF Upto
    <3> QED
      BY <2>1
  <2> HAVE m + 1 <= n
  <2>2. PICK g : Upto(g, m)
    <3>1. m <= n
      BY <2>1
    <3> QED
      BY <3>1
  <2> DEFINE h == [i \in 0..(m + 1) |-> IF i = m + 1 THEN F[m + 1][g[m]] ELSE g[i]]
  <2>3. g[m] \in X /\ m + 1 \in 1..n /\ F[m + 1][g[m]] \in X
    <3>1. g \in [0..m -> X] /\ m \in 0..m
      BY <2>1, <2>2
    <3>2. m + 1 \in 1..n
      BY <2>1
    <3> QED
      BY <3>1, <3>2
  <2>4. h \in [0..(m + 1) -> X]
    <3>1. ASSUME NEW i \in 0..(m + 1), i # m + 1 PROVE g[i] \in X
      <4>1. i \in 0..m
        BY <2>1, <3>1
      <4> QED
        BY <2>2, <4>1
    <3> QED
      BY <2>3, <3>1
  <2>5. h[0] = a
    BY <2>1, <2>2
  <2>6. ASSUME NEW i \in 1..(m + 1) PROVE h[i] = F[i][h[i - 1]]
    <3>1. CASE i = m + 1
      <4>1. h[i] = F[m + 1][g[m]]
        BY <2>1, <3>1
      <4>2. h[i - 1] = g[m]
        BY <2>1, <3>1
      <4> QED
        BY <3>1, <4>1, <4>2
    <3>2. CASE i # m + 1
      <4>1. i \in 1..m /\ i - 1 \in 0..m /\ i - 1 # m + 1 /\ i \in 0..m
        BY <2>1, <3>2
      <4>2. h[i] = g[i] /\ h[i - 1] = g[i - 1]
        BY <2>1, <3>2, <4>1
      <4> QED
        BY <2>2, <4>1, <4>2
    <3> QED
      BY <3>1, <3>2
  <2> HIDE DEF h
  <2>7. Upto(h, m + 1)
    BY <2>4, <2>5, <2>6
  <2> QED
    BY <2>7
<1>3. S = Nat
  <2> HIDE DEF S
  <2>1. S \in SUBSET Nat
    BY DEF S
  <2> QED
    BY <1>1, <1>2, <2>1, NaturalInduction
<1>4. PICK g : Upto(g, n)
  BY <1>3
<1> QED
  BY <1>4 DEF Follows

-----------------------------------------------------------------------------
(* Sums over a finite set, and what they bound.                            *)

(* f sums the weights w over each subset of S, in the order of CHOOSE.     *)
SumsUp(f, S, w) ==
  f = [s \in SUBSET S |-> IF s = {} THEN 0
                          ELSE w[CHOOSE x \in s : TRUE] + f[s \ {CHOOSE x \in s : TRUE}]]

LEMMA PickedFacts ==
  ASSUME NEW S, NEW s \in SUBSET S, s # {}, IsFiniteSet(S)
  PROVE  /\ (CHOOSE x \in s : TRUE) \in s /\ (CHOOSE x \in s : TRUE) \in S
         /\ s \ {CHOOSE x \in s : TRUE} \in SUBSET S
         /\ Cardinality(s) \in Nat \ {0}
         /\ Cardinality(s \ {CHOOSE x \in s : TRUE}) = Cardinality(s) - 1
<1> DEFINE c == CHOOSE x \in s : TRUE
<1>1. c \in s
  OBVIOUS
<1>2. IsFiniteSet(s)
  BY FS_Subset
<1> HIDE DEF c
<1>3. Cardinality(s \ {c}) = Cardinality(s) - 1
  BY <1>1, <1>2, FS_RemoveElement
<1>4. Cardinality(s) \in Nat /\ Cardinality(s) # 0
  BY <1>2, FS_CardinalityType, FS_EmptySet
<1> QED
  BY <1>1, <1>3, <1>4 DEF c

(* There is such an f: after as many rounds as S has elements nothing      *)
(* changes.                                                                *)
LEMMA SumsExist ==
  ASSUME NEW S, IsFiniteSet(S), NEW w \in [S -> Nat]
  PROVE  \E f : SumsUp(f, S, w)
<1> DEFINE m == Cardinality(S)
           X == [SUBSET S -> Nat]
           Round(g) == [s \in SUBSET S |-> IF s = {} THEN 0
                          ELSE w[CHOOSE x \in s : TRUE] + g[s \ {CHOOSE x \in s : TRUE}]]
           F == [i \in 1..(m + 1) |-> [g \in X |-> Round(g)]]
           a == [s \in SUBSET S |-> 0]
<1>1. m \in Nat /\ m + 1 \in Nat
  BY FS_CardinalityType
<1>2. \A s \in SUBSET S : Cardinality(s) \in Nat /\ Cardinality(s) <= m
  BY FS_Subset, FS_CardinalityType
<1>3. a \in X
  OBVIOUS
<1>4. ASSUME NEW g \in X PROVE Round(g) \in X
  <2> SUFFICES ASSUME NEW s \in SUBSET S, s # {}
               PROVE  w[CHOOSE x \in s : TRUE] + g[s \ {CHOOSE x \in s : TRUE}] \in Nat
    OBVIOUS
  <2> DEFINE c == CHOOSE x \in s : TRUE
  <2>1. c \in S /\ s \ {c} \in SUBSET S
    BY PickedFacts
  <2> HIDE DEF c
  <2>2. w[c] \in Nat /\ g[s \ {c}] \in Nat
    BY <2>1
  <2> QED
    BY <2>2 DEF c
<1>5. F \in [1..(m + 1) -> [X -> X]]
  BY <1>4
<1> HIDE DEF m, X, Round, F, a
<1>6. PICK g : Follows(g, m + 1, X, a, F)
  BY <1>1, <1>3, <1>5, Recursion
<1>7. g \in [0..(m + 1) -> X] /\ \A i \in 1..(m + 1) : g[i] = Round(g[i - 1])
  <2>1. ASSUME NEW i \in 1..(m + 1) PROVE g[i] = Round(g[i - 1])
    <3>1. i - 1 \in 0..(m + 1)
      BY <1>1
    <3>2. g[i - 1] \in X
      BY <1>6, <3>1 DEF Follows
    <3> QED
      BY <1>6, <3>2 DEF Follows, F
  <2> QED
    BY <1>6, <2>1 DEF Follows
<1> DEFINE K == {i \in Nat : i <= m => \A s \in SUBSET S : Cardinality(s) <= i => g[i + 1][s] = g[i][s]}
<1>8. ASSUME NEW i \in 1..(m + 1), NEW s \in SUBSET S, s # {}
      PROVE  g[i][s] = w[CHOOSE x \in s : TRUE] + g[i - 1][s \ {CHOOSE x \in s : TRUE}]
  BY <1>7, <1>8 DEF Round
<1>9. \A i \in 1..(m + 1) : g[i][{}] = 0
  BY <1>7 DEF Round
<1>10. g[0][{}] = 0
  BY <1>6 DEF Follows, a
<1>11. 0 \in K
  <2> SUFFICES ASSUME NEW s \in SUBSET S, Cardinality(s) <= 0 PROVE g[0 + 1][s] = g[0][s]
    OBVIOUS
  <2>1. s = {}
    BY <1>2, FS_Subset, FS_EmptySet
  <2>2. 1 \in 1..(m + 1)
    BY <1>1
  <2> QED
    BY <2>1, <2>2, <1>9, <1>10
<1>12. ASSUME NEW i \in K PROVE i + 1 \in K
  <2> SUFFICES ASSUME i + 1 <= m, NEW s \in SUBSET S, Cardinality(s) <= i + 1
               PROVE  g[(i + 1) + 1][s] = g[i + 1][s]
    OBVIOUS
  <2>1. i \in Nat /\ i + 1 \in 1..(m + 1) /\ (i + 1) + 1 \in 1..(m + 1) /\ i <= m
        /\ (i + 1) - 1 = i /\ ((i + 1) + 1) - 1 = i + 1
    BY <1>1
  <2>2. CASE s = {}
    BY <2>1, <2>2, <1>9
  <2>3. CASE s # {}
    <3> DEFINE c == CHOOSE x \in s : TRUE
    <3>1. s \ {c} \in SUBSET S /\ Cardinality(s \ {c}) = Cardinality(s) - 1 /\ Cardinality(s) \in Nat
      BY <2>3, PickedFacts
    <3>4. \A j \in 1..(m + 1) : g[j][s] = w[c] + g[j - 1][s \ {c}]
      BY <2>3, <1>8
    <3> HIDE DEF c
    <3>2. g[(i + 1) + 1][s] = w[c] + g[i + 1][s \ {c}] /\ g[i + 1][s] = w[c] + g[i][s \ {c}]
      <4>1. g[(i + 1) + 1][s] = w[c] + g[((i + 1) + 1) - 1][s \ {c}]
        BY <3>4, <2>1
      <4>2. g[i + 1][s] = w[c] + g[(i + 1) - 1][s \ {c}]
        BY <3>4, <2>1
      <4> QED
        BY <4>1, <4>2, <2>1
    <3>3. g[i + 1][s \ {c}] = g[i][s \ {c}]
      BY <2>1, <3>1
    <3> QED
      BY <3>2, <3>3
  <2> QED
    BY <2>2, <2>3
<1>13. m \in K
  <2> HIDE DEF K
  <2>1. K \in SUBSET Nat
    BY DEF K
  <2> QED
    BY <1>1, <1>11, <1>12, <2>1, NaturalInduction
<1>14. \A s \in SUBSET S : g[m + 1][s] = g[m][s]
  BY <1>1, <1>2, <1>13
<1>15. m + 1 \in 1..(m + 1) /\ (m + 1) - 1 = m /\ m \in 0..(m + 1) /\ m + 1 \in 0..(m + 1)
  BY <1>1
<1>16. g[m + 1] = Round(g[m]) /\ g[m] \in X /\ g[m + 1] \in X
  BY <1>7, <1>15
<1>17. g[m] = Round(g[m])
  BY <1>14, <1>16 DEF X
<1> QED
  BY <1>17 DEF SumsUp, Round

(* The sum bounds how many elements the sets A[t] have in all, when w      *)
(* bounds each.                                                            *)
LEMMA SumsBound ==
  ASSUME NEW S, IsFiniteSet(S), NEW w \in [S -> Nat], NEW f, SumsUp(f, S, w),
         NEW A, \A t \in S : IsFiniteSet(A[t]) /\ Cardinality(A[t]) <= w[t]
  PROVE  /\ f[S] \in Nat /\ IsFiniteSet(UNION {A[t] : t \in S})
         /\ Cardinality(UNION {A[t] : t \in S}) <= f[S]
<1> DEFINE Bounded(s) == /\ f[s] \in Nat /\ IsFiniteSet(UNION {A[t] : t \in s})
                         /\ Cardinality(UNION {A[t] : t \in s}) <= f[s]
           K == {i \in Nat : \A s \in SUBSET S : Cardinality(s) = i => Bounded(s)}
<1>1. 0 \in K
  <2> SUFFICES ASSUME NEW s \in SUBSET S, Cardinality(s) = 0 PROVE Bounded(s)
    OBVIOUS
  <2>1. s = {}
    BY FS_Subset, FS_EmptySet
  <2>2. UNION {A[t] : t \in s} = {}
    BY <2>1
  <2>3. f[s] = 0
    BY <2>1 DEF SumsUp
  <2>4. IsFiniteSet({}) /\ Cardinality({}) = 0
    BY FS_EmptySet
  <2> QED
    BY <2>2, <2>3, <2>4
<1>2. ASSUME NEW i \in K PROVE i + 1 \in K
  <2>1. i \in Nat /\ i + 1 \in Nat /\ i + 1 # 0 /\ \A s \in SUBSET S : Cardinality(s) = i => Bounded(s)
    <3> HIDE DEF Bounded
    <3> QED
      OBVIOUS
  <2> SUFFICES ASSUME NEW s \in SUBSET S, Cardinality(s) = i + 1 PROVE Bounded(s)
    <3> HIDE DEF Bounded
    <3> QED
      BY <2>1
  <2>2. s # {}
    <3>1. Cardinality({}) = 0
      BY FS_EmptySet
    <3> QED
      BY ONLY <2>1, <3>1, Cardinality(s) = i + 1
  <2> DEFINE c == CHOOSE x \in s : TRUE
             r == s \ {c}
  <2>3. c \in s /\ c \in S /\ r \in SUBSET S /\ Cardinality(r) = Cardinality(s) - 1
    BY <2>2, PickedFacts
  <2>4. f[s] = w[c] + f[r]
    BY <2>2 DEF SumsUp
  <2> HIDE DEF c
  <2>5. s = r \cup {c}
    BY <2>3
  <2> HIDE DEF r
  <2>6. Bounded(r)
    <3>1. Cardinality(r) = i
      BY <2>1, <2>3
    <3> HIDE DEF Bounded
    <3> QED
      BY <2>1, <2>3, <3>1
  <2> DEFINE U == UNION {A[t] : t \in r}
  <2>7. UNION {A[t] : t \in s} = U \cup A[c]
    BY <2>5
  <2>8. IsFiniteSet(U) /\ Cardinality(U) <= f[r] /\ f[r] \in Nat
    BY <2>6
  <2>9. IsFiniteSet(A[c]) /\ Cardinality(A[c]) <= w[c] /\ w[c] \in Nat
    BY <2>3
  <2> HIDE DEF U
  <2>10. /\ IsFiniteSet(U \cup A[c])
         /\ Cardinality(U \cup A[c]) = Cardinality(U) + Cardinality(A[c]) - Cardinality(U \cap A[c])
    BY <2>8, <2>9, FS_Union
  <2>11. Cardinality(U \cap A[c]) \in Nat /\ Cardinality(U) \in Nat /\ Cardinality(A[c]) \in Nat
    BY <2>8, <2>9, FS_Intersection, FS_CardinalityType
  <2>12. Cardinality(U \cup A[c]) <= w[c] + f[r]
    BY <2>8, <2>9, <2>10, <2>11
  <2>13. f[s] \in Nat
    BY <2>4, <2>8, <2>9
  <2> HIDE DEF U
  <2>14. IsFiniteSet(UNION {A[t] : t \in s}) /\ Cardinality(UNION {A[t] : t \in s}) <= w[c] + f[r]
    BY ONLY <2>7, <2>10, <2>12
  <2> QED
    BY ONLY <2>4, <2>13, <2>14
<1>3. K = Nat
  <2> HIDE DEF K
  <2>1. K \in SUBSET Nat
    BY DEF K
  <2> QED
    BY <1>1, <1>2, <2>1, NaturalInduction
<1>4. Cardinality(S) \in Nat
  BY FS_CardinalityType
<1>5. Bounded(S)
  <2>1. \A i \in Nat : \A s \in SUBSET S : Cardinality(s) = i => Bounded(s)
    BY <1>3
  <2> HIDE DEF Bounded
  <2> QED
    BY <1>4, <2>1
<1> QED
  BY <1>5

-----------------------------------------------------------------------------
(* The invariant.                                                          *)

TodoIsUnplaced == \A t \in todo : offset[t] = Unallocated
\* Bump has filled the block up to index, and nothing beyond.
BumpIsTight ==
  mode = "bump" => /\ \A t \in Placed : offset[t] + size[t] <= index
                   /\ \A p \in 0..(index - 1) : \E u \in Placed : p \in Slots(u)
NothingPlacedYet == mode = "try_bump" => Placed = {} /\ index = 0

IInv == /\ TypeOK /\ Symmetric(adj) /\ TodoIsUnplaced
        /\ NoOverlap /\ InBlock /\ NoHoles /\ BumpIsTight /\ NothingPlacedYet

(* The tables are well formed and empty when allocate_func starts.         *)
LEMMA InitEstablishes == Init => IInv
<1> SUFFICES ASSUME Init PROVE IInv
  OBVIOUS
<1> USE DEF Init
<1>1. size \in [Temps -> Nat] /\ adj \in [Temps -> SUBSET Temps] /\ Symmetric(adj)
  BY SizesAssumption, GraphsAssumption DEF Symmetric
<1>2. Placed = {}
  BY DEF Placed, Unallocated
<1>3. TypeOK
  <2>1. mode \in {"bump", "packing", "try_bump"}
    BY StrategiesAssumption
  <2>2. offset \in [Temps -> 0..TempSize \cup {Unallocated}]
    OBVIOUS
  <2>3. index \in 0..TempSize
    BY TempSizeAssumption
  <2> QED
    BY <1>1, <2>1, <2>2, <2>3 DEF TypeOK
<1>4. TodoIsUnplaced
  BY DEF TodoIsUnplaced, Sized
<1>5. NoOverlap /\ InBlock /\ NoHoles
  BY <1>2 DEF NoOverlap, InBlock, NoHoles
<1>6. BumpIsTight
  BY <1>2 DEF BumpIsTight
<1> QED
  BY <1>1, <1>2, <1>3, <1>4, <1>5, <1>6 DEF IInv, NothingPlacedYet

(* What placing t at o does to the set of placed temporaries and to their  *)
(* slots (temp_offset[t] = offset).                                        *)
LEMMA Placing ==
  ASSUME TypeOK, NEW t \in todo, NEW o \in 0..TempSize, offset[t] = Unallocated,
         offset' = [offset EXCEPT ![t] = o], UNCHANGED size
  PROVE  /\ Placed' = Placed \cup {t}
         /\ t \notin Placed
         /\ Slots(t)' = o..(o + size[t] - 1)
         /\ \A u \in Placed : Slots(u)' = Slots(u) /\ offset'[u] = offset[u] /\ u # t
         /\ offset'[t] = o
         /\ t \in Temps /\ size[t] \in Nat /\ size[t] > 0
<1>1. t \in Temps /\ size[t] \in Nat /\ size[t] > 0
  BY DEF TypeOK, Sized
<1>2. offset'[t] = o /\ \A u \in Temps : u # t => offset'[u] = offset[u]
  BY <1>1 DEF TypeOK
<1>3. o # Unallocated
  BY TempSizeAssumption DEF Unallocated
<1>4. t \notin Placed /\ Placed' = Placed \cup {t}
  BY <1>1, <1>2, <1>3 DEF Placed
<1>5. \A u \in Placed : u \in Temps /\ u # t
  BY <1>4 DEF Placed
<1>6. Slots(t)' = o..(o + size[t] - 1)
  BY <1>2 DEF Slots
<1>7. \A u \in Placed : Slots(u)' = Slots(u)
  BY <1>2, <1>5 DEF Slots
<1> QED
  BY <1>1, <1>2, <1>4, <1>5, <1>6, <1>7

(* A slot below a first fit belongs to a placed temporary: otherwise, no   *)
(* temporary lying above an uncovered slot, that slot would be a fit.      *)
LEMMA FirstFitLeavesNoHole ==
  ASSUME TypeOK, NoHoles, NEW t \in todo, NEW o \in Fits(t), Chosen(t, o),
         NEW p \in 0..(o - 1)
  PROVE  \E u \in Placed : p \in Slots(u)
<1> SUFFICES ASSUME \A u \in Placed : p \notin Slots(u) PROVE FALSE
  OBVIOUS
<1>1. t \in Temps /\ size[t] \in Nat /\ size[t] > 0 /\ o \in 0..TempSize /\ o + size[t] <= TempSize
  BY DEF TypeOK, Sized, Fits
<1>2. \A u \in Placed : offset[u] \in 0..TempSize /\ size[u] \in Nat
  BY DEF TypeOK, Placed
<1>3. \A u \in Placed : offset[u] <= p
  <2> SUFFICES ASSUME NEW u \in Placed, ~ (offset[u] <= p) PROVE FALSE
    OBVIOUS
  <2>1. p \in 0..(offset[u] - 1)
    BY <1>1, <1>2, TempSizeAssumption
  <2> QED
    BY <2>1 DEF NoHoles
<1>4. \A u \in Placed : offset[u] + size[u] <= p
  BY <1>1, <1>2, <1>3, TempSizeAssumption DEF Slots
<1>5. \A q \in p..(p + size[t] - 1) : q \notin Taken(t)
  BY <1>1, <1>2, <1>4, TempSizeAssumption DEF Taken, Slots
<1>6. p \in Fits(t)
  BY <1>1, <1>5, TempSizeAssumption DEF Fits
<1> QED
  BY <1>1, <1>6, TempSizeAssumption DEF Chosen

(* Deciding for bump or packing (allocate_func, ALLOC_TRY_BUMP).           *)
LEMMA TryBumpPreserves == IInv /\ TryBump => IInv'
<1> SUFFICES ASSUME IInv, TryBump PROVE IInv'
  OBVIOUS
<1> USE DEF TryBump, IInv
<1>1. Placed = {} /\ Placed' = {} /\ index' = 0 /\ mode' \in {"bump", "packing"}
  BY DEF NothingPlacedYet, Placed
<1>2. TypeOK'
  BY <1>1 DEF TypeOK, Sized
<1>3. Symmetric(adj)' /\ TodoIsUnplaced'
  BY DEF Symmetric, TodoIsUnplaced
<1>4. NoOverlap' /\ InBlock' /\ NoHoles'
  BY <1>1 DEF NoOverlap, InBlock, NoHoles
<1>5. BumpIsTight'
  BY <1>1 DEF BumpIsTight
<1> QED
  BY <1>1, <1>2, <1>3, <1>4, <1>5 DEF NothingPlacedYet

(* Giving up changes no placement ("Temporary memory limit exceeded").     *)
LEMMA ExceedPreserves == IInv /\ Exceed /\ UNCHANGED <<size, adj, mode>> => IInv'
<1> SUFFICES ASSUME IInv, Exceed, UNCHANGED <<size, adj, mode>> PROVE IInv'
  OBVIOUS
<1> USE DEF Exceed, IInv
<1>1. Placed' = Placed /\ \A t \in Temps : Slots(t)' = Slots(t)
  BY DEF Placed, Slots
<1>2. TypeOK' /\ Symmetric(adj)' /\ TodoIsUnplaced'
  BY DEF TypeOK, Sized, Symmetric, TodoIsUnplaced
<1>3. Placed \subseteq Temps
  BY DEF Placed
<1>4. NoOverlap'
  BY <1>1, <1>3 DEF NoOverlap
<1>5. InBlock' /\ NoHoles'
  BY <1>1, <1>3 DEF InBlock, NoHoles
<1>6. BumpIsTight' /\ NothingPlacedYet'
  BY <1>1, <1>3 DEF BumpIsTight, NothingPlacedYet
<1> QED
  BY <1>2, <1>4, <1>5, <1>6

(* One temporary placed by bump.                                           *)
LEMMA BumpPreserves == ASSUME IInv, NEW t \in todo, Bump(t) PROVE IInv'
<1>1. CASE ~ BumpFits(t)
  BY <1>1, ExceedPreserves DEF Bump
<1>2. CASE BumpFits(t)
  <2> USE DEF IInv
  <2>1. /\ mode = "bump" /\ mode' = "bump" /\ size' = size /\ adj' = adj /\ exceeded' = exceeded
        /\ offset' = [offset EXCEPT ![t] = index] /\ index' = index + size[t] /\ todo' = todo \ {t}
    BY <1>2 DEF Bump, BumpFits
  <2>2. index \in 0..TempSize /\ offset[t] = Unallocated
    BY DEF TypeOK, TodoIsUnplaced
  <2>3. /\ Placed' = Placed \cup {t} /\ t \notin Placed /\ offset'[t] = index
        /\ Slots(t)' = index..(index + size[t] - 1)
        /\ \A u \in Placed : Slots(u)' = Slots(u) /\ offset'[u] = offset[u] /\ u # t
        /\ t \in Temps /\ size[t] \in Nat /\ size[t] > 0
    BY <2>1, <2>2, Placing
  <2>4. index + size[t] \in 0..TempSize
    BY <1>2, <2>2, <2>3, TempSizeAssumption DEF BumpFits
  <2>5. \A u \in Placed : offset[u] \in 0..TempSize /\ size[u] \in Nat /\ u \in Temps
    BY DEF TypeOK, Placed
  <2>6. TypeOK'
    <3>1. offset' \in [Temps -> 0..TempSize \cup {Unallocated}]
      BY <2>1, <2>2 DEF TypeOK
    <3> QED
      BY <2>1, <2>4, <3>1 DEF TypeOK, Sized
  <2>7. Symmetric(adj)' /\ NothingPlacedYet'
    BY <2>1 DEF Symmetric, NothingPlacedYet
  <2>8. TodoIsUnplaced'
    <3> SUFFICES ASSUME NEW u \in todo \ {t} PROVE offset'[u] = Unallocated
      BY <2>1 DEF TodoIsUnplaced
    <3> QED
      BY <2>1 DEF TodoIsUnplaced, TypeOK, Sized
  <2>9. \A u \in Placed : offset[u] + size[u] <= index
    BY <2>1 DEF BumpIsTight
  <2>10. \A u \in Placed : Slots(u) \cap (index..(index + size[t] - 1)) = {}
    BY <2>2, <2>3, <2>5, <2>9, TempSizeAssumption DEF Slots
  <2>11. NoOverlap'
    <3> SUFFICES ASSUME NEW u \in Placed \cup {t}, NEW v \in Placed \cup {t}, u # v
                 PROVE  Slots(u)' \cap Slots(v)' = {}
      BY <2>3 DEF NoOverlap
    <3>1. CASE u \in Placed /\ v \in Placed
      BY <3>1, <2>1, <2>3 DEF NoOverlap
    <3>2. CASE u = t /\ v \in Placed
      BY <3>2, <2>3, <2>10
    <3>3. CASE v = t /\ u \in Placed
      BY <3>3, <2>3, <2>10
    <3> QED
      BY <3>1, <3>2, <3>3
  <2>12. InBlock'
    <3>1. index..(index + size[t] - 1) \subseteq 0..(TempSize - 1)
      BY <2>2, <2>3, <2>4, TempSizeAssumption
    <3> QED
      BY <3>1, <2>3 DEF InBlock
  <2>13. \A p \in 0..(index + size[t] - 1) : \E u \in Placed' : p \in Slots(u)'
    <3> SUFFICES ASSUME NEW p \in 0..(index + size[t] - 1) PROVE \E u \in Placed' : p \in Slots(u)'
      OBVIOUS
    <3>1. CASE p \in 0..(index - 1)
      BY <3>1, <2>1, <2>3 DEF BumpIsTight
    <3>2. CASE p \in index..(index + size[t] - 1)
      BY <3>2, <2>3
    <3> QED
      BY <3>1, <3>2, <2>2, <2>3, TempSizeAssumption
  <2>14. NoHoles'
    <3> SUFFICES ASSUME NEW u \in Placed', NEW p \in 0..(offset'[u] - 1)
                 PROVE  \E v \in Placed' : p \in Slots(v)'
      BY DEF NoHoles
    <3>1. offset'[u] \in 0..TempSize /\ offset'[u] <= index
      BY <2>2, <2>3, <2>5, <2>9, TempSizeAssumption
    <3>2. p \in 0..(index + size[t] - 1)
      BY <3>1, <2>2, <2>3, TempSizeAssumption
    <3> QED
      BY <3>2, <2>13
  <2>15. BumpIsTight'
    <3>1. \A u \in Placed' : offset'[u] + size'[u] <= index'
      BY <2>1, <2>2, <2>3, <2>5, <2>9, TempSizeAssumption
    <3>2. \A p \in 0..(index' - 1) : \E u \in Placed' : p \in Slots(u)'
      <4> SUFFICES ASSUME NEW p \in 0..(index' - 1) PROVE \E u \in Placed' : p \in Slots(u)'
        OBVIOUS
      <4>1. p \in 0..(index + size[t] - 1)
        BY <2>1, <2>2, <2>3, TempSizeAssumption
      <4> QED
        BY <4>1, <2>13
    <3> QED
      BY ONLY <3>1, <3>2 DEF BumpIsTight
  <2> QED
    BY <2>6, <2>7, <2>8, <2>11, <2>12, <2>14, <2>15
<1> QED
  BY <1>1, <1>2

(* One temporary placed by packing.                                        *)
LEMMA PackPreserves == ASSUME IInv, NEW t \in todo, Pack(t) PROVE IInv'
<1>1. CASE Fits(t) = {} /\ Exceed
  BY <1>1, ExceedPreserves DEF Pack
<1>2. ASSUME NEW o \in Fits(t), Chosen(t, o), offset' = [offset EXCEPT ![t] = o],
             todo' = todo \ {t}, UNCHANGED <<index, exceeded>>
      PROVE  IInv'
  <2> USE DEF IInv
  <2>1. mode = "packing" /\ mode' = "packing" /\ size' = size /\ adj' = adj
    BY DEF Pack
  <2>2. o \in 0..TempSize /\ o + size[t] <= TempSize
    BY DEF Fits
  <2>3. offset[t] = Unallocated
    BY DEF TodoIsUnplaced
  <2>4. /\ Placed' = Placed \cup {t} /\ t \notin Placed /\ offset'[t] = o
        /\ Slots(t)' = o..(o + size[t] - 1)
        /\ \A u \in Placed : Slots(u)' = Slots(u) /\ offset'[u] = offset[u] /\ u # t
        /\ t \in Temps /\ size[t] \in Nat /\ size[t] > 0
    BY <1>2, <2>1, <2>2, <2>3, Placing
  <2>5. TypeOK'
    <3>1. offset' \in [Temps -> 0..TempSize \cup {Unallocated}]
      BY <1>2, <2>2 DEF TypeOK
    <3> QED
      BY <1>2, <2>1, <3>1 DEF TypeOK, Sized
  <2>6. Symmetric(adj)' /\ NothingPlacedYet' /\ BumpIsTight'
    BY <2>1 DEF Symmetric, NothingPlacedYet, BumpIsTight
  <2>7. TodoIsUnplaced'
    <3> SUFFICES ASSUME NEW u \in todo \ {t} PROVE offset'[u] = Unallocated
      BY <1>2 DEF TodoIsUnplaced
    <3> QED
      BY <1>2 DEF TodoIsUnplaced, TypeOK, Sized
  <2>8. \A u \in Placed : u \in adj[t] => Slots(u) \cap (o..(o + size[t] - 1)) = {}
    <3> SUFFICES ASSUME NEW u \in Placed, u \in adj[t], NEW p \in o..(o + size[t] - 1), p \in Slots(u)
                 PROVE  FALSE
      OBVIOUS
    <3>1. p \in Taken(t)
      BY <2>4 DEF Taken
    <3> QED
      BY <3>1 DEF Fits
  <2>9. NoOverlap'
    <3> SUFFICES ASSUME NEW u \in Placed \cup {t}, NEW v \in Placed \cup {t}, u # v, v \in adj[u]
                 PROVE  Slots(u)' \cap Slots(v)' = {}
      BY <2>1, <2>4 DEF NoOverlap
    <3>1. u \in Temps /\ u \in adj[v]
      BY <2>4 DEF Symmetric, Placed
    <3>2. CASE u \in Placed /\ v \in Placed
      BY <3>2, <2>4 DEF NoOverlap
    <3>3. CASE u = t
      <4>1. v \in Placed
        BY <3>3
      <4> QED
        BY <4>1, <3>3, <2>4, <2>8
    <3>4. CASE v = t
      <4>1. u \in Placed
        BY <3>4
      <4> QED
        BY <4>1, <3>1, <3>4, <2>4, <2>8
    <3> QED
      BY <3>2, <3>3, <3>4
  <2>10. InBlock'
    <3>1. o..(o + size[t] - 1) \subseteq 0..(TempSize - 1)
      BY <2>2, <2>4, TempSizeAssumption
    <3> QED
      BY <3>1, <2>1, <2>4 DEF InBlock
  <2>11. NoHoles'
    <3> SUFFICES ASSUME NEW u \in Placed', NEW p \in 0..(offset'[u] - 1)
                 PROVE  \E v \in Placed : p \in Slots(v)
      BY <2>4 DEF NoHoles
    <3>1. CASE u = t
      BY <3>1, <1>2, <2>4, FirstFitLeavesNoHole
    <3>2. CASE u \in Placed
      BY <3>2, <2>4 DEF NoHoles
    <3> QED
      BY <3>1, <3>2, <2>4
  <2> QED
    BY <2>5, <2>6, <2>7, <2>9, <2>10, <2>11
<1> QED
  BY <1>1, <1>2 DEF Pack

(* Every step keeps the invariant.                                         *)
LEMMA NextPreserves == IInv /\ [Next]_vars => IInv'
<1> SUFFICES ASSUME IInv, [Next]_vars PROVE IInv'
  OBVIOUS
<1>1. CASE TryBump
  BY <1>1, TryBumpPreserves
<1>2. ASSUME NEW t \in todo, Bump(t) PROVE IInv'
  BY <1>2, BumpPreserves
<1>3. ASSUME NEW t \in todo, Pack(t) PROVE IInv'
  BY <1>3, PackPreserves
<1>4. CASE UNCHANGED vars
  <2> USE <1>4 DEF vars, IInv
  <2>1. Placed' = Placed /\ Placed \subseteq Temps /\ \A t \in Temps : Slots(t)' = Slots(t)
    BY DEF Placed, Slots
  <2>2. TypeOK' /\ Symmetric(adj)' /\ TodoIsUnplaced'
    BY DEF TypeOK, Sized, Symmetric, TodoIsUnplaced
  <2>3. NoOverlap'
    BY <2>1 DEF NoOverlap
  <2>4. InBlock' /\ NoHoles'
    BY <2>1 DEF InBlock, NoHoles
  <2>5. BumpIsTight' /\ NothingPlacedYet'
    BY <2>1 DEF BumpIsTight, NothingPlacedYet
  <2> QED
    BY <2>2, <2>3, <2>4, <2>5
<1> QED
  BY <1>1, <1>2, <1>3, <1>4 DEF Next

LEMMA InvariantHolds == Spec => []IInv
<1>1. Init => IInv
  BY InitEstablishes
<1>2. IInv /\ [Next]_vars => IInv'
  BY NextPreserves
<1> QED
  BY <1>1, <1>2, PTL DEF Spec

(* The tables of the allocator stay well typed.                            *)
THEOREM TypeCorrect == Spec => []TypeOK
<1>1. IInv => TypeOK
  BY DEF IInv
<1> QED
  BY <1>1, InvariantHolds, PTL

(* For any interference, temporaries that interfere never share a slot.    *)
THEOREM PlacementIsSafe == Spec => []NoOverlap
<1>1. IInv => NoOverlap
  BY DEF IInv
<1> QED
  BY <1>1, InvariantHolds, PTL

(* No slot outside the temporary block is ever given away.                 *)
THEOREM PlacementIsInBlock == Spec => []InBlock
<1>1. IInv => InBlock
  BY DEF IInv
<1> QED
  BY <1>1, InvariantHolds, PTL

(* For any sizes and interference, first fit leaves no slot unused below a *)
(* used one.                                                               *)
THEOREM FirstFitIsCompact == Spec => []NoHoles
<1>1. IInv => NoHoles
  BY DEF IInv
<1> QED
  BY <1>1, InvariantHolds, PTL
-----------------------------------------------------------------------------
(* Packing never asks for more memory than bump.                           *)

OnlyTempsWithSlots == Placed \subseteq Sized
Frugal == OnlyTempsWithSlots /\ NeverWorseThanBump

(* What Needed adds up.                                                    *)
LEMMA NeededIs ==
  ASSUME size \in [Temps -> Nat]
  PROVE  \E f : SumsUp(f, Sized, [t \in Sized |-> size[t]]) /\ Needed = f[Sized]
<1> DEFINE w == [t \in Sized |-> size[t]]
           Sums(f) == f = [s \in SUBSET Sized |->
                             IF s = {} THEN 0
                             ELSE size[CHOOSE x \in s : TRUE] + f[s \ {CHOOSE x \in s : TRUE}]]
           total == CHOOSE f : Sums(f)
<1>1. Needed = total[Sized]
  BY DEF Needed, MapThenSumSet, MapThenFoldSet
<1>2. IsFiniteSet(Sized) /\ w \in [Sized -> Nat]
  BY TempsAssumption, FS_Subset DEF Sized
<1> HIDE DEF w
<1>3. PICK f : SumsUp(f, Sized, w)
  BY <1>2, SumsExist
<1>4. ASSUME NEW g PROVE SumsUp(g, Sized, w) <=> Sums(g)
  <2>1. ASSUME NEW s \in SUBSET Sized, s # {} PROVE w[CHOOSE x \in s : TRUE] = size[CHOOSE x \in s : TRUE]
    <3>1. (CHOOSE x \in s : TRUE) \in Sized
      BY <1>2, <2>1, PickedFacts
    <3> QED
      BY <3>1 DEF w
  <2> QED
    BY <2>1 DEF SumsUp
<1>5. Sums(total)
  <2>1. Sums(f)
    BY <1>3, <1>4
  <2> HIDE DEF Sums
  <2> QED
    BY <2>1
<1> HIDE DEF total
<1>6. SumsUp(total, Sized, w)
  BY <1>4, <1>5
<1> QED
  BY <1>1, <1>6 DEF w

(* What the placed temporaries cover without a gap, and one more beside    *)
(* them, is no more than is needed in all.                                 *)
LEMMA CoveredIsNeeded ==
  ASSUME TypeOK, Placed \subseteq Sized, NEW t \in Sized \ Placed, NEW m \in Nat,
         \A p \in 0..(m - 1) : \E u \in Placed : p \in Slots(u)
  PROVE  Needed \in Nat /\ m + size[t] <= Needed
<1> DEFINE w == [u \in Sized |-> size[u]]
           A == [u \in Sized |-> IF u = t THEN m..(m + size[t] - 1) ELSE IF u \in Placed THEN Slots(u) ELSE {}]
<1>1. IsFiniteSet(Sized) /\ w \in [Sized -> Nat] /\ size[t] \in Nat
  BY TempsAssumption, FS_Subset DEF Sized, TypeOK
<1>2. PICK f : SumsUp(f, Sized, w) /\ Needed = f[Sized]
  BY NeededIs DEF TypeOK
<1>3. ASSUME NEW u \in Sized PROVE IsFiniteSet(A[u]) /\ Cardinality(A[u]) <= w[u]
  <2>0. size[u] \in Nat /\ w[u] = size[u]
    BY DEF Sized, TypeOK
  <2>1. CASE u = t
    <3>1. A[u] = m..(m + size[t] - 1)
      BY <2>1
    <3>2. m \in Int /\ m + size[t] - 1 \in Int
      BY <1>1
    <3>3. IsFiniteSet(A[u]) /\ Cardinality(A[u]) = IF m > m + size[t] - 1 THEN 0 ELSE (m + size[t] - 1) - m + 1
      BY <3>1, <3>2, FS_Interval
    <3>4. w[u] = size[t]
      BY <2>0, <2>1
    <3> HIDE DEF A, w
    <3>5. Cardinality(A[u]) <= size[t]
      BY ONLY <1>1, <3>3, m \in Nat
    <3> QED
      BY ONLY <3>3, <3>4, <3>5
  <2>2. CASE u # t /\ u \in Placed
    <3>1. A[u] = offset[u]..(offset[u] + size[u] - 1)
      BY <2>2 DEF Slots
    <3>2. offset[u] \in Int /\ offset[u] + size[u] - 1 \in Int
      BY <2>0, <2>2, TempSizeAssumption DEF TypeOK, Placed
    <3>3. /\ IsFiniteSet(A[u])
          /\ Cardinality(A[u]) = IF offset[u] > offset[u] + size[u] - 1 THEN 0
                                 ELSE (offset[u] + size[u] - 1) - offset[u] + 1
      BY <3>1, <3>2, FS_Interval
    <3> HIDE DEF A
    <3> QED
      BY <2>0, <3>2, <3>3
  <2>3. CASE u # t /\ u \notin Placed
    <3>1. A[u] = {}
      BY <2>3
    <3>2. IsFiniteSet({}) /\ Cardinality({}) = 0
      BY FS_EmptySet
    <3>3. IsFiniteSet(A[u]) /\ Cardinality(A[u]) = 0
      BY ONLY <3>1, <3>2
    <3> HIDE DEF A, w
    <3> QED
      BY ONLY <2>0, <3>3
  <2> QED
    BY <2>1, <2>2, <2>3
<1> DEFINE U == UNION {A[u] : u \in Sized}
<1>4. 0..(m + size[t] - 1) \subseteq U
  <2> SUFFICES ASSUME NEW p \in 0..(m + size[t] - 1) PROVE \E u \in Sized : p \in A[u]
    OBVIOUS
  <2>1. CASE p \in 0..(m - 1)
    <3>1. PICK u \in Placed : p \in Slots(u)
      BY <2>1
    <3>2. A[u] = Slots(u) /\ u \in Sized
      <4>1. u # t /\ u \in Sized
        OBVIOUS
      <4> QED
        BY <4>1
    <3> QED
      BY <3>1, <3>2
  <2>2. CASE p \in m..(m + size[t] - 1)
    <3>1. A[t] = m..(m + size[t] - 1)
      OBVIOUS
    <3> QED
      BY <2>2, <3>1
  <2> QED
    BY <1>1, <2>1, <2>2
<1> HIDE DEF A, w
<1>5. f[Sized] \in Nat /\ IsFiniteSet(U) /\ Cardinality(U) <= f[Sized]
  BY <1>1, <1>2, <1>3, SumsBound
<1> HIDE DEF U
<1>6. Cardinality(0..(m + size[t] - 1)) <= Cardinality(U)
  BY <1>4, <1>5, FS_Subset
<1>7. Cardinality(0..(m + size[t] - 1)) = IF 0 > m + size[t] - 1 THEN 0 ELSE (m + size[t] - 1) - 0 + 1
  <2>1. m + size[t] - 1 \in Int
    BY <1>1
  <2> QED
    BY <2>1, FS_Interval
<1>8. Cardinality(U) \in Nat
  BY <1>5, FS_CardinalityType
<1> QED
  BY <1>1, <1>2, <1>5, <1>6, <1>7, <1>8

(* Giving up: all the slots packing tried are covered, or bump's index     *)
(* plus the size passes the end.                                           *)
LEMMA GivingUpIsDue ==
  ASSUME IInv, OnlyTempsWithSlots, NEW t \in todo,
         (mode = "bump" /\ ~ BumpFits(t)) \/ (mode = "packing" /\ Fits(t) = {})
  PROVE  Needed \in Nat /\ Needed > TempSize
<1> USE TempSizeAssumption DEF IInv
<1>1. t \in Sized \ Placed /\ t \in Temps /\ size[t] \in Nat /\ Placed \subseteq Sized
  BY DEF TypeOK, TodoIsUnplaced, Placed, OnlyTempsWithSlots, Sized
<1>2. CASE mode = "bump" /\ ~ BumpFits(t)
  <2>1. index \in Nat /\ \A p \in 0..(index - 1) : \E u \in Placed : p \in Slots(u)
    BY <1>2 DEF BumpIsTight, TypeOK
  <2>2. Needed \in Nat /\ index + size[t] <= Needed
    BY <1>1, <2>1, CoveredIsNeeded
  <2> QED
    BY <1>1, <1>2, <2>1, <2>2 DEF BumpFits
<1>3. CASE mode = "packing" /\ Fits(t) = {}
  <2>1. CASE size[t] > TempSize
    <3>1. Needed \in Nat /\ 0 + size[t] <= Needed
      BY <1>1, CoveredIsNeeded
    <3> QED
      BY <1>1, <2>1, <3>1
  <2>2. CASE size[t] <= TempSize
    <3> DEFINE o == TempSize - size[t]
    <3>1. o \in 0..TempSize /\ o + size[t] = TempSize /\ o + 1 \in Nat
      BY <1>1, <2>2
    <3>2. PICK p \in o..(o + size[t] - 1) : p \in Taken(t)
      BY <1>3, <3>1 DEF Fits
    <3>3. PICK u \in Placed : p \in Slots(u)
      BY <3>2 DEF Taken
    <3>4. offset[u] \in 0..TempSize /\ size[u] \in Nat
      BY DEF TypeOK, Placed
    <3>5. ASSUME NEW q \in 0..((o + 1) - 1) PROVE \E v \in Placed : q \in Slots(v)
      <4>1. CASE q < offset[u]
        <5>1. q \in 0..(offset[u] - 1)
          BY <3>1, <3>4, <4>1
        <5> QED
          BY <5>1 DEF NoHoles
      <4>2. CASE q >= offset[u]
        <5>1. q \in Slots(u)
          BY <1>1, <3>1, <3>2, <3>3, <3>4, <4>2 DEF Slots
        <5> QED
          BY <5>1
      <4> QED
        BY <3>1, <3>4, <4>1, <4>2
    <3> HIDE DEF o
    <3>6. Needed \in Nat /\ (o + 1) + size[t] <= Needed
      BY <1>1, <3>1, <3>5, CoveredIsNeeded
    <3> QED
      BY <1>1, <3>1, <3>6
  <2> QED
    BY <1>1, <2>1, <2>2
<1> QED
  BY <1>2, <1>3

(* As long as no size changes, what is needed stays the same.              *)
LEMMA NeededKept == size' = size => Needed' = Needed /\ Sized' = Sized
BY DEF Needed, Sized, MapThenSumSet, MapThenFoldSet

LEMMA FrugalInit == Init => Frugal
<1> SUFFICES ASSUME Init PROVE Frugal
  OBVIOUS
<1>1. Placed = {} /\ exceeded = FALSE
  BY DEF Init, Placed
<1> QED
  BY <1>1 DEF Frugal, OnlyTempsWithSlots, NeverWorseThanBump

LEMMA FrugalStep == IInv /\ Frugal /\ [Next]_vars => Frugal'
<1> SUFFICES ASSUME IInv, Frugal, [Next]_vars PROVE Frugal'
  OBVIOUS
<1> USE DEF Frugal
<1>1. size' = size /\ Needed' = Needed /\ Sized' = Sized
  <2>1. size' = size
    BY DEF Next, TryBump, Bump, Pack, vars
  <2> QED
    BY <2>1, NeededKept
<1>2. CASE UNCHANGED <<offset, exceeded>>
  BY <1>1, <1>2 DEF OnlyTempsWithSlots, NeverWorseThanBump, Placed
<1>3. ASSUME NEW t \in todo, NEW o, offset' = [offset EXCEPT ![t] = o], exceeded' = exceeded
      PROVE  Frugal'
  <2>1. t \in Sized /\ t \in Temps /\ offset \in [Temps -> 0..TempSize \cup {Unallocated}]
    BY DEF IInv, TypeOK, Sized
  <2>2. Placed' \subseteq Placed \cup {t}
    BY <1>3, <2>1 DEF Placed
  <2>3. OnlyTempsWithSlots'
    BY <1>1, <2>1, <2>2 DEF OnlyTempsWithSlots
  <2> QED
    BY <1>1, <1>3, <2>3 DEF NeverWorseThanBump
<1>4. ASSUME NEW t \in todo, Exceed,
             (mode = "bump" /\ ~ BumpFits(t)) \/ (mode = "packing" /\ Fits(t) = {})
      PROVE  Frugal'
  <2>1. Needed \in Nat /\ Needed > TempSize
    BY <1>4, GivingUpIsDue
  <2>2. offset' = offset
    BY <1>4 DEF Exceed
  <2> QED
    BY <1>1, <2>1, <2>2, TempSizeAssumption DEF OnlyTempsWithSlots, NeverWorseThanBump, Placed
<1>5. CASE TryBump
  BY <1>2, <1>5 DEF TryBump
<1>6. ASSUME NEW t \in todo, Bump(t) PROVE Frugal'
  BY <1>3, <1>4, <1>6 DEF Bump
<1>7. ASSUME NEW t \in todo, Pack(t) PROVE Frugal'
  BY <1>3, <1>4, <1>7 DEF Pack
<1>8. CASE UNCHANGED vars
  BY <1>2, <1>8 DEF vars
<1> QED
  BY <1>5, <1>6, <1>7, <1>8 DEF Next

(* Whatever the strategy, allocation gives up only when the temporaries    *)
(* would not fit side by side ("Temporary memory limit exceeded").         *)
THEOREM PackingIsNeverWorse == Spec => []NeverWorseThanBump
<1>1. Init => Frugal
  BY FrugalInit
<1>2. IInv /\ Frugal /\ [Next]_vars => Frugal'
  BY FrugalStep
<1>3. Frugal => NeverWorseThanBump
  BY DEF Frugal
<1> QED
  BY <1>1, <1>2, <1>3, InvariantHolds, PTL DEF Spec

-----------------------------------------------------------------------------
(* What a block does to liveness.                                          *)

CodeOK == code \in [Blocks -> Seq(Statements)]

LEMMA StatementType ==
  ASSUME CodeOK, NEW b \in Blocks, NEW i \in 1..Len(code[b])
  PROVE  /\ code[b][i] \in Statements /\ Len(code[b]) \in Nat
         /\ Uses(code[b][i]) \subseteq Temps /\ IndexUse(code[b][i].to) \subseteq Temps
<1>1. code[b] \in Seq(Statements) /\ code[b][i] \in Statements
  BY DEF CodeOK
<1> QED
  BY <1>1 DEF Uses, IndexUse, Statements, Places

LEMMA LiveBeforeType ==
  ASSUME CodeOK, NEW b \in Blocks, NEW i \in 1..Len(code[b]), NEW live \in SUBSET Temps
  PROVE  LiveBefore(b, i, live) \in SUBSET Temps
BY StatementType DEF LiveBefore

(* LiveAfters is the table that its recursion describes.                   *)
LEMMA LiveAftersIs ==
  ASSUME CodeOK, NEW b \in Blocks, NEW out \in SUBSET Temps
  PROVE  /\ LiveAfters(b, out) \in [0..Len(code[b]) -> SUBSET Temps]
         /\ LiveAfters(b, out)[Len(code[b])] = LiveAtEnd(b, out)
         /\ \A i \in 1..Len(code[b]) :
              LiveAfters(b, out)[i - 1] = LiveBefore(b, i, LiveAfters(b, out)[i])
<1> DEFINE n == Len(code[b])
           X == SUBSET Temps
           F == [k \in 1..n |-> [live \in X |-> LiveBefore(b, n + 1 - k, live)]]
           Is(f) == f = [i \in 0..n |-> IF i = n THEN LiveAtEnd(b, out) ELSE LiveBefore(b, i + 1, f[i + 1])]
<1>1. n \in Nat
  BY DEF CodeOK
<1>2. LiveAtEnd(b, out) \in X
  BY DEF LiveAtEnd
<1>3. F \in [1..n -> [X -> X]]
  <2> SUFFICES ASSUME NEW k \in 1..n, NEW live \in X PROVE LiveBefore(b, n + 1 - k, live) \in X
    OBVIOUS
  <2>1. n + 1 - k \in 1..n
    BY <1>1
  <2> QED
    BY <2>1, LiveBeforeType
<1> HIDE DEF n, X
<1> HIDE DEF F
<1>4. PICK g \in [0..n -> X] : g[0] = LiveAtEnd(b, out) /\ \A k \in 1..n : g[k] = F[k][g[k - 1]]
  <2>1. PICK g : Follows(g, n, X, LiveAtEnd(b, out), F)
    BY <1>1, <1>2, <1>3, Recursion
  <2> QED
    BY <2>1 DEF Follows
<1> DEFINE f == [i \in 0..n |-> g[n - i]]
<1>5. f \in [0..n -> X] /\ f[n] = LiveAtEnd(b, out)
  BY <1>1, <1>4
<1>6. ASSUME NEW i \in 0..n, i # n PROVE f[i] = LiveBefore(b, i + 1, f[i + 1])
  <2>1. n - i \in 1..n /\ (n - i) - 1 = n - (i + 1) /\ i + 1 \in 0..n /\ n + 1 - (n - i) = i + 1
    BY <1>1, <1>6
  <2>2. g[n - (i + 1)] \in X
    BY <1>1, <1>4, <2>1
  <2>3. g[n - i] = F[n - i][g[n - (i + 1)]]
    BY <1>4, <2>1
  <2>4. F[n - i][g[n - (i + 1)]] = LiveBefore(b, n + 1 - (n - i), g[n - (i + 1)])
    BY <2>1, <2>2 DEF F
  <2> QED
    BY <2>1, <2>3, <2>4
<1> HIDE DEF f
<1>7. Is(f)
  <2>1. f = [i \in 0..n |-> f[i]]
    BY <1>5
  <2> QED
    BY <1>1, <1>5, <1>6, <2>1
<1>8. LiveAfters(b, out) = CHOOSE h : Is(h)
  BY DEF LiveAfters, n
<1>9. Is(LiveAfters(b, out))
  <2> HIDE DEF Is
  <2> QED
    BY <1>7, <1>8
<1> DEFINE L == LiveAfters(b, out)
<1> HIDE DEF L
<1>10. L = [i \in 0..n |-> IF i = n THEN LiveAtEnd(b, out) ELSE LiveBefore(b, i + 1, L[i + 1])]
  BY <1>9 DEF L
<1>11. L[n] = LiveAtEnd(b, out) /\ \A i \in 1..n : L[i - 1] = LiveBefore(b, i, L[i])
  <2>1. ASSUME NEW i \in 1..n PROVE L[i - 1] = LiveBefore(b, i, L[i])
    <3>1. i - 1 \in 0..n /\ i - 1 # n /\ (i - 1) + 1 = i
      BY <1>1
    <3> QED
      BY <1>10, <3>1
  <2>2. L[n] = LiveAtEnd(b, out)
    BY <1>1, <1>10
  <2> QED
    BY <2>1, <2>2
<1> DEFINE S == {k \in Nat : k <= n => L[n - k] \in X}
<1>12. S = Nat
  <2>1. 0 \in S
    BY <1>1, <1>2, <1>11
  <2>2. ASSUME NEW k \in S PROVE k + 1 \in S
    <3>1. k \in Nat /\ k + 1 \in Nat
      OBVIOUS
    <3>2. ASSUME k + 1 <= n PROVE L[n - (k + 1)] \in X
      <4>1. n - k \in 1..n /\ (n - k) - 1 = n - (k + 1) /\ k <= n
        BY <1>1, <3>1, <3>2
      <4>2. L[n - k] \in X
        BY <3>1, <4>1
      <4>3. L[(n - k) - 1] = LiveBefore(b, n - k, L[n - k])
        BY <1>11, <4>1
      <4> QED
        BY <4>1, <4>2, <4>3, LiveBeforeType DEF n, X
    <3> QED
      BY <3>1, <3>2
  <2> HIDE DEF S
  <2>3. S \in SUBSET Nat
    BY DEF S
  <2> QED
    BY <2>1, <2>2, <2>3, NaturalInduction
<1>13. \A i \in 0..n : L[i] \in X
  <2> TAKE i \in 0..n
  <2>1. n - i \in Nat /\ n - i <= n /\ n - (n - i) = i
    BY <1>1
  <2>2. n - i \in S
    BY <1>12, <2>1
  <2> QED
    BY <2>1, <2>2
<1>14. L \in [0..n -> X]
  <2>1. L = [i \in 0..n |-> L[i]]
    BY <1>10
  <2> QED
    BY <1>13, <2>1
<1> QED
  BY <1>11, <1>14 DEF L, n, X

(* More live after a block, more live before it.                           *)
LEMMA LiveAtStartMonotone ==
  ASSUME CodeOK, NEW b \in Blocks, NEW out \in SUBSET Temps, NEW more \in SUBSET Temps, out \subseteq more
  PROVE  LiveAtStart(b, out) \subseteq LiveAtStart(b, more)
<1> DEFINE n == Len(code[b])
           L == LiveAfters(b, out)
           M == LiveAfters(b, more)
           S == {k \in Nat : k <= n => L[n - k] \subseteq M[n - k]}
<1>1. n \in Nat
  BY DEF CodeOK
<1>2. /\ L \in [0..n -> SUBSET Temps] /\ L[n] = LiveAtEnd(b, out)
      /\ \A i \in 1..n : L[i - 1] = LiveBefore(b, i, L[i])
  BY LiveAftersIs
<1>3. /\ M \in [0..n -> SUBSET Temps] /\ M[n] = LiveAtEnd(b, more)
      /\ \A i \in 1..n : M[i - 1] = LiveBefore(b, i, M[i])
  BY LiveAftersIs
<1> HIDE DEF n, L, M
<1>4. 0 \in S
  BY <1>1, <1>2, <1>3 DEF LiveAtEnd
<1>5. ASSUME NEW k \in S PROVE k + 1 \in S
  <2>1. k \in Nat /\ k + 1 \in Nat
    OBVIOUS
  <2>2. ASSUME k + 1 <= n PROVE L[n - (k + 1)] \subseteq M[n - (k + 1)]
    <3>1. n - k \in 1..n /\ (n - k) - 1 = n - (k + 1) /\ k <= n
      BY <1>1, <2>1, <2>2
    <3>2. L[n - k] \subseteq M[n - k]
      BY <2>1, <3>1
    <3>3. LiveBefore(b, n - k, L[n - k]) \subseteq LiveBefore(b, n - k, M[n - k])
      BY <3>2 DEF LiveBefore, Skipped, Killed
    <3> QED
      BY <1>2, <1>3, <3>1, <3>3
  <2> QED
    BY <2>1, <2>2
<1>6. S = Nat
  <2> HIDE DEF S
  <2>1. S \in SUBSET Nat
    BY DEF S
  <2> QED
    BY <1>4, <1>5, <2>1, NaturalInduction
<1>7. L[n - n] \subseteq M[n - n]
  <2>1. n \in S
    BY <1>1, <1>6
  <2> QED
    BY <1>1, <2>1
<1> QED
  BY <1>1, <1>7 DEF LiveAtStart, L, M
-----------------------------------------------------------------------------
(* The worklist.                                                           *)

Distinct(s) == \A i, j \in DOMAIN s : s[i] = s[j] => i = j

LEMMA AppendFacts ==
  ASSUME NEW S, NEW s \in Seq(S), NEW x \in S
  PROVE  /\ Append(s, x) \in Seq(S) /\ ToSet(Append(s, x)) = ToSet(s) \cup {x}
         /\ Distinct(s) /\ x \notin ToSet(s) => Distinct(Append(s, x))
<1> DEFINE a == Append(s, x)
<1>1. /\ a \in Seq(S) /\ Len(a) = Len(s) + 1 /\ Len(s) \in Nat
      /\ a[Len(s) + 1] = x /\ \A i \in 1..Len(s) : a[i] = s[i]
      /\ DOMAIN a = 1..(Len(s) + 1) /\ DOMAIN s = 1..Len(s)
  OBVIOUS
<1> HIDE DEF a
<1>2. \A i \in DOMAIN a : i \in DOMAIN s \/ i = Len(s) + 1
  BY <1>1
<1>3. ToSet(a) = ToSet(s) \cup {x}
  <2>1. ToSet(a) \subseteq ToSet(s) \cup {x}
    BY <1>1, <1>2 DEF ToSet
  <2>2. ToSet(s) \subseteq ToSet(a)
    <3> SUFFICES ASSUME NEW i \in DOMAIN s PROVE s[i] \in ToSet(a)
      BY DEF ToSet
    <3>1. i \in DOMAIN a /\ a[i] = s[i]
      BY <1>1
    <3> QED
      BY <3>1 DEF ToSet
  <2>3. x \in ToSet(a)
    <3>1. Len(s) + 1 \in DOMAIN a
      BY <1>1
    <3> QED
      BY <1>1, <3>1 DEF ToSet
  <2> QED
    BY <2>1, <2>2, <2>3
<1>4. ASSUME Distinct(s), x \notin ToSet(s) PROVE Distinct(a)
  <2>1. \A i \in DOMAIN s : s[i] # x
    BY <1>4 DEF ToSet
  <2> SUFFICES ASSUME NEW i \in DOMAIN a, NEW j \in DOMAIN a, a[i] = a[j] PROVE i = j
    BY DEF Distinct
  <2>2. CASE i \in DOMAIN s /\ j \in DOMAIN s
    BY <1>1, <1>4, <2>2 DEF Distinct
  <2> QED
    BY <1>1, <1>2, <2>1, <2>2
<1> QED
  BY <1>1, <1>3, <1>4 DEF a

(* What the worklist holds after blocks were pushed; none is there twice.  *)
LEMMA PushedHolds ==
  ASSUME NEW st \in Seq(Blocks), NEW bs \in Seq(Blocks), NEW changed
  PROVE  /\ Pushed(st, bs, changed) \in Seq(Blocks)
         /\ ToSet(Pushed(st, bs, changed)) = ToSet(st) \cup (ToSet(bs) \cap changed)
         /\ Distinct(st) => Distinct(Pushed(st, bs, changed))
<1> DEFINE n == Len(bs)
           X == Seq(Blocks)
           after(s, i) == IF bs[i] \in changed \ ToSet(s) THEN Append(s, bs[i]) ELSE s
           F == [i \in 1..n |-> [s \in X |-> after(s, i)]]
           Is(f) == f = [i \in 0..n |->
                           IF i = 0 THEN st
                           ELSE LET before == f[i - 1]
                                IN  IF bs[i] \in changed \ ToSet(before) THEN Append(before, bs[i]) ELSE before]
<1>1. n \in Nat /\ st \in X /\ \A i \in 1..n : bs[i] \in Blocks
  OBVIOUS
<1>2. F \in [1..n -> [X -> X]]
  <2> SUFFICES ASSUME NEW i \in 1..n, NEW s \in X PROVE after(s, i) \in X
    OBVIOUS
  <2> QED
    BY <1>1, AppendFacts
<1> HIDE DEF n, X, F
<1>3. PICK g : Follows(g, n, X, st, F)
  BY <1>1, <1>2, Recursion
<1>4. g \in [0..n -> X] /\ g[0] = st
  BY <1>3 DEF Follows
<1>5. ASSUME NEW i \in 1..n PROVE i - 1 \in 0..n /\ g[i - 1] \in X /\ g[i] = after(g[i - 1], i)
  <2>1. i - 1 \in 0..n
    BY <1>1
  <2>2. g[i] = F[i][g[i - 1]]
    BY <1>3 DEF Follows
  <2> QED
    BY <1>4, <2>1, <2>2 DEF F
<1>6. Is(g)
  <2> HIDE DEF after
  <2>1. \A i \in 0..n : g[i] = IF i = 0 THEN st ELSE after(g[i - 1], i)
    <3>1. \A i \in 0..n : i # 0 => i \in 1..n
      BY <1>1
    <3> QED
      BY <1>4, <1>5, <3>1
  <2>2. g = [i \in 0..n |-> IF i = 0 THEN st ELSE after(g[i - 1], i)]
    BY <1>4, <2>1
  <2> QED
    BY <2>2 DEF after
<1> DEFINE p == CHOOSE f : Is(f)
<1>7. Pushed(st, bs, changed) = p[n]
  BY DEF Pushed, n
<1>8. Is(p)
  <2> HIDE DEF Is
  <2> QED
    BY <1>6
<1> HIDE DEF p
<1>9. p[0] = st /\ \A i \in 1..n : p[i] = after(p[i - 1], i)
  <2>1. p = [i \in 0..n |-> IF i = 0 THEN st ELSE after(p[i - 1], i)]
    BY <1>8
  <2> HIDE DEF after, Is
  <2>2. 0 \in 0..n /\ \A i \in 1..n : i \in 0..n /\ i # 0
    BY <1>1
  <2> QED
    BY <2>1, <2>2
<1> HIDE DEF Is
<1> DEFINE Good(i) == /\ p[i] \in X /\ ToSet(p[i]) = ToSet(st) \cup ({bs[k] : k \in 1..i} \cap changed)
                      /\ Distinct(st) => Distinct(p[i])
           S == {i \in Nat : i <= n => Good(i)}
<1>10. 0 \in S
  BY <1>1, <1>9
<1>11. ASSUME NEW i \in S PROVE i + 1 \in S
  <2>1. i \in Nat /\ i + 1 \in Nat
    OBVIOUS
  <2>2. ASSUME i + 1 <= n PROVE Good(i + 1)
    <3>1. Good(i) /\ i + 1 \in 1..n /\ (i + 1) - 1 = i
      BY <1>1, <2>1, <2>2
    <3>2. p[i + 1] = after(p[i], i + 1) /\ bs[i + 1] \in Blocks
      BY <1>1, <1>9, <3>1
    <3>3. {bs[k] : k \in 1..(i + 1)} = {bs[k] : k \in 1..i} \cup {bs[i + 1]}
      BY <2>1
    <3>4. CASE bs[i + 1] \in changed \ ToSet(p[i])
      <4>1. p[i + 1] = Append(p[i], bs[i + 1])
        BY <3>2, <3>4
      <4> QED
        BY <3>1, <3>2, <3>3, <3>4, <4>1, AppendFacts DEF X
    <3>5. CASE bs[i + 1] \notin changed \ ToSet(p[i])
      <4>1. p[i + 1] = p[i]
        BY <3>2, <3>5
      <4> QED
        BY <3>1, <3>3, <3>5, <4>1
    <3> QED
      BY <3>4, <3>5
  <2> HIDE DEF Good
  <2> QED
    BY <2>1, <2>2
<1>12. Good(n)
  <2> HIDE DEF Good
  <2>1. S \in SUBSET Nat
    OBVIOUS
  <2> HIDE DEF S
  <2>2. S = Nat
    BY <1>10, <1>11, <2>1, NaturalInduction
  <2> QED
    BY <1>1, <2>2 DEF S
<1>13. ToSet(bs) = {bs[k] : k \in 1..n}
  BY DEF ToSet, n
<1> QED
  BY <1>7, <1>12, <1>13 DEF X

(* The worklist without its top.                                           *)
LEMMA FrontFacts ==
  ASSUME NEW S, NEW s \in Seq(S), s # <<>>
  PROVE  /\ Last(s) \in S /\ Last(s) \in ToSet(s) /\ Front(s) \in Seq(S)
         /\ ToSet(s) = ToSet(Front(s)) \cup {Last(s)}
         /\ Distinct(s) => Distinct(Front(s)) /\ Last(s) \notin ToSet(Front(s))
<1> DEFINE n == Len(s)
           f == Front(s)
<1>1. n \in Nat /\ n >= 1 /\ DOMAIN s = 1..n /\ Last(s) = s[n] /\ n \in DOMAIN s
  BY DEF Last
<1>2. f \in Seq(S) /\ DOMAIN f = 1..(n - 1) /\ \A i \in 1..(n - 1) : f[i] = s[i]
  BY <1>1 DEF Front
<1> HIDE DEF n, f
<1>3. \A i \in DOMAIN s : i \in DOMAIN f \/ i = n
  BY <1>1, <1>2
<1>4. \A i \in DOMAIN f : i \in DOMAIN s /\ i # n /\ f[i] = s[i]
  BY <1>1, <1>2
<1>5. ToSet(s) = ToSet(f) \cup {s[n]}
  BY <1>1, <1>3, <1>4 DEF ToSet
<1>6. ASSUME Distinct(s) PROVE Distinct(f) /\ s[n] \notin ToSet(f)
  BY <1>1, <1>4, <1>6 DEF Distinct, ToSet
<1>7. s[n] \in S
  BY <1>1
<1> QED
  BY <1>1, <1>2, <1>5, <1>6, <1>7 DEF f
(* The tables of liveness depend on nothing but the program and what the   *)
(* forward pass has found.                                                 *)
LEMMA LiveAftersSame ==
  ASSUME UNCHANGED <<code, init, defsOut, size>>
  PROVE  \A b, out : LiveAfters(b, out)' = LiveAfters(b, out)
<1> TAKE b, out
<1>1. Written' = Written /\ LiveAtEnd(b, out)' = LiveAtEnd(b, out)
  BY DEF Written, LiveAtEnd, IsArray
<1>2. \A i, live : LiveBefore(b, i, live)' = LiveBefore(b, i, live)
  BY DEF LiveBefore, Skipped, Killed, IsArray
<1> QED
  BY <1>1, <1>2 DEF LiveAfters
-----------------------------------------------------------------------------
(* The invariant.                                                          *)

Typed ==
  /\ succs \in [Blocks -> Seq(Blocks)] /\ given \in [Blocks -> Seq(Statements)] /\ CodeOK
  /\ \A b \in Blocks : /\ Len(code[b]) = Len(given[b])
                       /\ Fitting(code[b], size) /\ Fitting(given[b], size)
  /\ phase \in {"begin", "decide", "forward", "backward", "place", "run", "rejected"}
  /\ merge \in BOOLEAN
  /\ stack \in Seq(Blocks) /\ Distinct(stack) /\ visited \subseteq Blocks
  /\ defsIn \in [Blocks -> SUBSET Temps] /\ defsOut \in [Blocks -> SUBSET Temps]
  /\ init \subseteq Roots
  /\ liveIn \in [Blocks -> SUBSET Temps] /\ liveOut \in [Blocks -> SUBSET Temps]
  /\ rootLive \in [Roots -> SUBSET Temps]

\* A temporary is placed once it is no longer to be done.
RestIsPlaced == \A t \in Sized \ todo : offset[t] # Unallocated

\* Nothing is placed before the phase of placement, which has its strategy.
PhasesInOrder ==
  /\ phase \notin {"place", "run"} => todo = Sized /\ Placed = {} /\ index = 0 /\ ~ exceeded
  /\ phase \in {"place", "run"} => mode \in {"bump", "packing"}
  /\ merge => code = given /\ phase \in {"begin", "forward", "backward", "rejected"}
  /\ ~ merge => phase # "begin" /\ (phase \in {"forward", "backward"} => mode = "packing")
  /\ phase \in {"begin", "decide"} =>
       stack = <<>> /\ visited = {} /\ init = {} /\ defsIn = Blank /\ defsOut = Blank
  /\ phase \in {"begin", "decide", "forward"} => liveOut = Blank

\* The arrays of b follow from those before it.
ArraysOf(b) ==
  /\ defsOut[b] = DefsAfter(b, Len(code[b]), defsIn[b])
  /\ \A i \in DOMAIN code[b] : <<b, i>> \in init <=> i \in FirstWrites(b, defsIn[b])

\* The forward pass: who has been visited has told its successors, who are
\* visited too or will be.
ForwardInv ==
  phase = "forward" =>
    /\ 1 \in visited \cup ToSet(stack)
    /\ \A b \in visited : \A c \in ToSet(succs[b]) :
         c \in visited \cup ToSet(stack) /\ defsOut[b] \subseteq defsIn[c]
    /\ \A b \in visited \ ToSet(stack) : ArraysOf(b)

\* What it ends with: a set of blocks that no way from the entry leaves.
Reached(V) ==
  /\ 1 \in V
  /\ \A b \in V : ArraysOf(b) /\ \A c \in ToSet(succs[b]) : c \in V /\ defsOut[b] \subseteq defsIn[c]
Analysed == phase = "backward" \/ (phase \in {"place", "run"} /\ mode = "packing")
ReachedInv == Analysed => \E V \in SUBSET Blocks : Reached(V)

\* The backward pass: a block that is not on the worklist has its tables, and
\* its predecessors know.
LivesOf(b) ==
  /\ liveIn[b] = LiveAtStart(b, liveOut[b])
  /\ \A i \in DOMAIN code[b] : rootLive[<<b, i>>] = LiveAfters(b, liveOut[b])[i]
  /\ \A u \in Preds(b) : liveIn[b] \subseteq liveOut[u]
BackwardInv ==
  Analysed => /\ \A b \in Blocks \ ToSet(stack) : LivesOf(b)
              /\ phase # "backward" => stack = <<>>

\* Nothing is live that is not live in every solution.
LeastInv ==
  phase \in {"forward", "backward"} =>
    \A S \in SUBSET (Blocks \X Temps) : Solves(S) => \A b \in Blocks : liveOut[b] \subseteq LiveAt(S, b)

AnalysisInv ==
  Typed /\ IInv /\ RestIsPlaced /\ PhasesInOrder /\ ForwardInv /\ ReachedInv /\ BackwardInv /\ LeastInv

-----------------------------------------------------------------------------
LEMMA RootsAre ==
  ASSUME NEW b \in Blocks, NEW i \in DOMAIN code[b]
  PROVE  <<b, i>> \in Roots
BY DEF Roots

LEMMA RootIs ==
  ASSUME NEW r \in Roots
  PROVE  r[1] \in Blocks /\ r[2] \in DOMAIN code[r[1]] /\ r = <<r[1], r[2]>>
<1>1. PICK b \in Blocks : r \in {b} \X DOMAIN code[b]
  BY DEF Roots
<1> QED
  BY <1>1

(* As the tables are when allocate_func starts.                            *)
LEMMA AllocInitEstablishes == AllocInit => AnalysisInv
<1> SUFFICES ASSUME AllocInit PROVE AnalysisInv
  OBVIOUS
<1> USE DEF AllocInit
<1>1. PICK s \in Setups : mode = s.mode /\ size = s.size /\ merge = s.merge
  OBVIOUS
<1>2. size \in Sizes /\ mode \in Strategies /\ merge \in BOOLEAN
  BY <1>1, SetupsAssumption
<1>3. size \in [Temps -> Nat]
  BY <1>2, SizesAssumption
<1>4. code \in [Blocks -> Seq(Statements)] /\ \A b \in Blocks : Fitting(code[b], size)
  BY <1>1, CodesAssumption
<1>5. ToSet(stack) = {} /\ Distinct(stack) /\ stack \in Seq(Blocks)
  BY DEF ToSet, Distinct
<1>6. Typed
  BY <1>2, <1>4, <1>5, FlowsAssumption DEF Typed, CodeOK, Blank
<1>7. IInv
  <2>1. Symmetric(adj) /\ adj \in [Temps -> SUBSET Temps]
    BY DEF Symmetric
  <2>2. Placed = {}
    BY DEF Placed, Unallocated
  <2>3. mode \in {"bump", "packing", "try_bump"} /\ index \in 0..TempSize
    BY <1>2, StrategiesAssumption, TempSizeAssumption
  <2>4. TypeOK
    BY <1>3, <2>1, <2>3 DEF TypeOK
  <2>5. TodoIsUnplaced /\ NoOverlap /\ InBlock /\ NoHoles /\ BumpIsTight /\ NothingPlacedYet
    BY <2>2 DEF TodoIsUnplaced, Sized, NoOverlap, InBlock, NoHoles, BumpIsTight, NothingPlacedYet
  <2> QED
    BY <2>1, <2>4, <2>5 DEF IInv
<1>8. RestIsPlaced /\ PhasesInOrder
  BY DEF RestIsPlaced, PhasesInOrder, Placed, Unallocated
<1>9. ForwardInv /\ ReachedInv /\ BackwardInv /\ LeastInv
  BY DEF ForwardInv, ReachedInv, BackwardInv, Analysed, LeastInv
<1> QED
  BY <1>6, <1>7, <1>8, <1>9 DEF AnalysisInv

(* A step that leaves the placement alone keeps what is known of it.       *)
LEMMA PlacementKept ==
  ASSUME IInv, RestIsPlaced, UNCHANGED placement
  PROVE  IInv' /\ RestIsPlaced' /\ Placed' = Placed /\ Sized' = Sized
<1>1. IInv'
  BY NextPreserves DEF placement
<1> QED
  BY <1>1 DEF RestIsPlaced, Placed, Sized, placement, vars

(* The analysis starts (a program that cannot end is refused).             *)
LEMMA AnalyzePreserves ==
  ASSUME AnalysisInv, phase \in {"begin", "decide"}, phase = "decide" => mode = "packing", Analyze,
         UNCHANGED <<given, merge, succs, code, visited, defsIn, defsOut, init, liveIn, liveOut, rootLive,
                     placement>>
  PROVE  AnalysisInv'
<1> USE DEF AnalysisInv
<1>1. IInv' /\ RestIsPlaced' /\ Placed' = Placed /\ Sized' = Sized
  BY PlacementKept
<1>2. size' = size /\ mode' = mode /\ todo' = todo /\ index' = index /\ exceeded' = exceeded
  BY DEF placement, vars
<1>3. /\ phase' \in {"forward", "rejected"} /\ stack' \in {<<>>, <<1>>}
      /\ phase' = "forward" => stack' = <<1>>
  BY DEF Analyze, PhasesInOrder
<1>4. stack' \in Seq(Blocks) /\ Distinct(stack') /\ (stack' = <<1>> => ToSet(stack') = {1})
  <2>1. <<>> \in Seq(Blocks) /\ Distinct(<<>>)
    BY DEF Distinct
  <2>2. 1 \in Blocks /\ <<1>> \in Seq(Blocks) /\ Len(<<1>>) = 1 /\ <<1>>[1] = 1 /\ <<>> # <<1>>
    BY BlocksAssumption DEF Blocks
  <2>3. Distinct(<<1>>) /\ ToSet(<<1>>) = {1}
    <3>1. DOMAIN <<1>> = {1}
      BY <2>2
    <3> QED
      BY <2>2, <3>1 DEF Distinct, ToSet
  <2> QED
    BY <1>3, <2>1, <2>2, <2>3
<1>5. Typed'
  BY <1>2, <1>3, <1>4 DEF Typed, CodeOK, Roots
<1>6. PhasesInOrder'
  BY <1>1, <1>2, <1>3 DEF PhasesInOrder
<1>7. ForwardInv'
  BY <1>3, <1>4 DEF ForwardInv, PhasesInOrder
<1>8. ReachedInv' /\ BackwardInv'
  BY <1>3 DEF ReachedInv, BackwardInv, Analysed
<1>9. LeastInv'
  BY <1>6 DEF LeastInv, PhasesInOrder, Blank
<1> QED
  BY <1>1, <1>5, <1>6, <1>7, <1>8, <1>9
LEMMA BeginPreserves == AnalysisInv /\ Begin => AnalysisInv'
<1> SUFFICES ASSUME AnalysisInv, Begin PROVE AnalysisInv'
  OBVIOUS
<1> QED
  BY AnalyzePreserves DEF Begin

(* The strategy is settled (allocate_func).                                *)
LEMMA DecidePreserves == AnalysisInv /\ Decide => AnalysisInv'
<1> SUFFICES ASSUME AnalysisInv, Decide PROVE AnalysisInv'
  OBVIOUS
<1> USE DEF AnalysisInv
<1>1. /\ phase = "decide"
      /\ UNCHANGED <<given, merge, succs, code, visited, defsIn, defsOut, init, liveIn, liveOut, rootLive, run>>
  BY DEF Decide
<1>2. CASE mode = "try_bump" /\ TryBump /\ UNCHANGED <<phase, stack>>
  <2>1. IInv'
    BY <1>2, TryBumpPreserves
  <2>2. UNCHANGED <<size, todo, index, offset, exceeded>>
    BY <1>2 DEF TryBump
  <2>3. Placed' = Placed /\ Sized' = Sized
    BY <2>2 DEF Placed, Sized
  <2>4. Typed' /\ RestIsPlaced'
    BY <1>1, <1>2, <2>2, <2>3 DEF Typed, CodeOK, Roots, RestIsPlaced
  <2>5. PhasesInOrder'
    BY <1>1, <1>2, <2>2, <2>3 DEF PhasesInOrder
  <2>6. ForwardInv' /\ ReachedInv' /\ BackwardInv' /\ LeastInv'
    BY <1>1, <1>2 DEF ForwardInv, ReachedInv, BackwardInv, Analysed, LeastInv
  <2> QED
    BY <2>1, <2>4, <2>5, <2>6
<1>3. CASE mode = "bump" /\ phase' = "place" /\ UNCHANGED <<stack, placement>>
  <2>1. IInv' /\ RestIsPlaced' /\ Placed' = Placed /\ Sized' = Sized
    BY <1>3, PlacementKept
  <2>2. mode' = mode /\ size' = size
    BY <1>3 DEF placement, vars
  <2>3. Typed'
    BY <1>1, <1>3, <2>2 DEF Typed, CodeOK, Roots
  <2>4. PhasesInOrder'
    BY <1>1, <1>3, <2>1, <2>2 DEF PhasesInOrder
  <2>5. ForwardInv' /\ ReachedInv' /\ BackwardInv' /\ LeastInv'
    BY <1>3, <2>2 DEF ForwardInv, ReachedInv, BackwardInv, Analysed, LeastInv
  <2> QED
    BY <2>1, <2>3, <2>4, <2>5
<1>4. CASE mode = "packing" /\ Analyze /\ UNCHANGED placement
  BY <1>1, <1>4, AnalyzePreserves
<1> QED
  BY <1>2, <1>3, <1>4 DEF Decide

(* One block of the forward pass.                                          *)
LEMMA ForwardVisitPreserves == AnalysisInv /\ ForwardVisit => AnalysisInv'
<1> SUFFICES ASSUME AnalysisInv, ForwardVisit PROVE AnalysisInv'
  OBVIOUS
<1> USE DEF AnalysisInv
<1> DEFINE b == Last(stack)
           acc == DefsAfter(b, Len(code[b]), defsIn[b])
<1>1. /\ phase = "forward" /\ phase' = "forward" /\ stack # <<>>
      /\ init' = {r \in init : r[1] # b} \cup ({b} \X FirstWrites(b, defsIn[b]))
      /\ UNCHANGED <<given, merge, succs, code, liveIn, liveOut, rootLive, placement, run>>
  BY DEF ForwardVisit
<1>2. IInv' /\ RestIsPlaced' /\ Placed' = Placed /\ Sized' = Sized /\ size' = size /\ mode' = mode
      /\ todo' = todo /\ index' = index /\ exceeded' = exceeded
  BY <1>1, PlacementKept DEF placement, vars
<1>3. /\ b \in Blocks /\ Front(stack) \in Seq(Blocks) /\ Distinct(Front(stack))
      /\ ToSet(stack) = ToSet(Front(stack)) \cup {b} /\ b \notin ToSet(Front(stack))
  BY <1>1, FrontFacts DEF Typed
<1>4. acc \subseteq Temps /\ defsIn[b] \subseteq acc
  BY <1>3 DEF DefsAfter, Typed
<1>5. FirstWrites(b, defsIn[b]) \subseteq DOMAIN code[b]
  BY DEF FirstWrites
<1> HIDE DEF b, acc
<1>6. init' \subseteq Roots' /\ Roots' = Roots
  <2>1. Roots' = Roots
    BY <1>1 DEF Roots
  <2>2. {b} \X FirstWrites(b, defsIn[b]) \subseteq Roots
    BY <1>3, <1>5 DEF Roots
  <2> QED
    BY <1>1, <2>1, <2>2 DEF Typed
<1>7. \A d \in Blocks : \A i \in DOMAIN code[d] :
        <<d, i>> \in init' <=> IF d = b THEN i \in FirstWrites(b, defsIn[b]) ELSE <<d, i>> \in init
  BY <1>1
<1>8. \A d, i, s : DefsAfter(d, i, s)' = DefsAfter(d, i, s)
  BY <1>1, <1>2 DEF DefsAfter, IsArray
<1>9. \A d, s : FirstWrites(d, s)' = FirstWrites(d, s)
  BY <1>1, <1>2, <1>8 DEF FirstWrites, IsArray
<1>10. PhasesInOrder'
  BY <1>1, <1>2 DEF PhasesInOrder
<1>11. ReachedInv' /\ BackwardInv'
  BY <1>1 DEF ReachedInv, BackwardInv, Analysed
<1>12. LeastInv'
  BY <1>10, <1>1 DEF LeastInv, PhasesInOrder, Blank
<1>13. CASE /\ b \notin visited \/ acc # defsOut[b]
            /\ visited' = visited \cup {b}
            /\ defsOut' = [defsOut EXCEPT ![b] = acc]
            /\ defsIn' = [s \in Blocks |-> IF s \in ToSet(succs[b]) THEN defsIn[s] \cup acc ELSE defsIn[s]]
            /\ stack' = Pushed(Front(stack), succs[b], Blocks)
  <2>1. succs[b] \in Seq(Blocks) /\ ToSet(succs[b]) \subseteq Blocks
    BY <1>3 DEF Typed, ToSet
  <2>2. /\ stack' \in Seq(Blocks) /\ Distinct(stack')
        /\ ToSet(stack') = ToSet(Front(stack)) \cup ToSet(succs[b])
    BY <1>3, <1>13, <2>1, PushedHolds
  <2>3. Typed'
    BY <1>1, <1>2, <1>3, <1>4, <1>6, <1>13, <2>2 DEF Typed, CodeOK
  <2>4. ForwardInv'
    <3>1. 1 \in visited' \cup ToSet(stack')
      BY <1>1, <1>3, <1>13, <2>2 DEF ForwardInv
    <3>2. ASSUME NEW d \in visited', NEW c \in ToSet(succs'[d])
          PROVE  c \in visited' \cup ToSet(stack') /\ defsOut'[d] \subseteq defsIn'[c]
      <4>1. d \in Blocks /\ succs' = succs
        BY <1>1, <1>3, <1>13 DEF Typed
      <4>2. c \in Blocks
        BY <4>1 DEF Typed, ToSet
      <4>3. defsIn[c] \subseteq defsIn'[c]
        BY <1>13, <4>2
      <4>4. CASE d = b
        <5>1. c \in ToSet(succs[b])
          BY <4>1, <4>4
        <5>2. defsOut'[b] = acc
          BY <1>3, <1>13 DEF Typed
        <5>3. acc \subseteq defsIn'[c]
          BY <1>13, <4>2, <5>1
        <5> QED
          BY <2>2, <4>4, <5>1, <5>2, <5>3
      <4>5. CASE d # b
        <5>1. d \in visited /\ c \in ToSet(succs[d])
          BY <1>13, <4>1, <4>5
        <5>2. c \in visited \cup ToSet(stack) /\ defsOut[d] \subseteq defsIn[c]
          BY <1>1, <5>1 DEF ForwardInv
        <5>3. defsOut'[d] = defsOut[d]
          BY <1>13, <4>1, <4>5 DEF Typed
        <5> QED
          BY <1>3, <1>13, <2>2, <4>3, <5>2, <5>3
      <4> QED
        BY <4>4, <4>5
    <3>3. ASSUME NEW d \in visited' \ ToSet(stack') PROVE ArraysOf(d)'
      <4>1. d \in Blocks /\ d \notin ToSet(succs[b]) /\ defsIn'[d] = defsIn[d] /\ code' = code
        BY <1>1, <1>3, <1>13, <2>2 DEF Typed
      <4>2. CASE d = b
        <5>1. defsOut'[b] = acc /\ acc = DefsAfter(b, Len(code[b]), defsIn[b])
          BY <1>3, <1>13 DEF Typed, acc
        <5> QED
          BY <1>7, <1>8, <1>9, <4>1, <4>2, <5>1 DEF ArraysOf
      <4>3. CASE d # b
        <5>1. ArraysOf(d)
          BY <1>1, <1>3, <1>13, <2>2, <4>3 DEF ForwardInv
        <5>2. defsOut'[d] = defsOut[d]
          BY <1>13, <4>1, <4>3 DEF Typed
        <5> QED
          BY <1>7, <1>8, <1>9, <4>1, <4>3, <5>1, <5>2 DEF ArraysOf
      <4> QED
        BY <4>2, <4>3
    <3> QED
      BY <3>1, <3>2, <3>3 DEF ForwardInv
  <2> QED
    BY <1>2, <1>10, <1>11, <1>12, <2>3, <2>4
<1>14. CASE b \in visited /\ acc = defsOut[b] /\ stack' = Front(stack) /\ UNCHANGED <<visited, defsIn, defsOut>>
  <2>1. Typed'
    BY <1>1, <1>2, <1>3, <1>6, <1>14 DEF Typed, CodeOK
  <2>2. ForwardInv'
    <3>1. 1 \in visited' \cup ToSet(stack')
      BY <1>1, <1>3, <1>14 DEF ForwardInv
    <3>2. \A d \in visited' : \A c \in ToSet(succs'[d]) :
            c \in visited' \cup ToSet(stack') /\ defsOut'[d] \subseteq defsIn'[c]
      BY <1>1, <1>3, <1>14 DEF ForwardInv
    <3>3. ASSUME NEW d \in visited' \ ToSet(stack') PROVE ArraysOf(d)'
      <4>1. d \in Blocks /\ code' = code /\ defsIn' = defsIn /\ defsOut' = defsOut
        BY <1>1, <1>14 DEF Typed
      <4>2. CASE d = b
        <5>1. defsOut[b] = DefsAfter(b, Len(code[b]), defsIn[b])
          BY <1>14 DEF acc
        <5> QED
          BY <1>7, <1>8, <1>9, <4>1, <4>2, <5>1 DEF ArraysOf
      <4>3. CASE d # b
        <5>1. ArraysOf(d)
          BY <1>1, <1>3, <1>14, <4>3 DEF ForwardInv
        <5> QED
          BY <1>7, <1>8, <1>9, <4>1, <4>3, <5>1 DEF ArraysOf
      <4> QED
        BY <4>2, <4>3
    <3> QED
      BY <3>1, <3>2, <3>3 DEF ForwardInv
  <2> QED
    BY <1>2, <1>10, <1>11, <1>12, <2>1, <2>2
<1> QED
  BY <1>13, <1>14 DEF ForwardVisit, b, acc
(* What the passes have found stays found while their tables are kept.     *)
LEMMA ReachedKept ==
  ASSUME UNCHANGED <<succs, code, defsIn, defsOut, init, size>>
  PROVE  \A V : Reached(V) => Reached(V)'
<1>1. \A d, i, s : DefsAfter(d, i, s)' = DefsAfter(d, i, s)
  BY DEF DefsAfter, IsArray
<1>2. \A d, s : FirstWrites(d, s)' = FirstWrites(d, s)
  BY <1>1 DEF FirstWrites, IsArray
<1> QED
  BY <1>1, <1>2 DEF Reached, ArraysOf

LEMMA LivesKept ==
  ASSUME UNCHANGED <<succs, code, defsOut, init, size, liveIn, liveOut, rootLive>>
  PROVE  \A b : LivesOf(b) => LivesOf(b)'
BY LiveAftersSame DEF LivesOf, LiveAtStart, Preds

LEMMA SolvesSame ==
  ASSUME UNCHANGED <<succs, code, defsOut, init, size>>
  PROVE  \A S : Solves(S)' = Solves(S)
BY LiveAftersSame DEF Solves, LiveAtStart

LEMMA AllBlocksFacts ==
  /\ [b \in Blocks |-> b] \in Seq(Blocks) /\ Distinct([b \in Blocks |-> b])
  /\ ToSet([b \in Blocks |-> b]) = Blocks
<1> DEFINE s == [b \in Blocks |-> b]
<1>1. N \in Nat /\ Blocks = 1..N
  BY BlocksAssumption DEF Blocks
<1>2. s \in Seq(Blocks)
  BY <1>1
<1>3. DOMAIN s = Blocks /\ \A b \in Blocks : s[b] = b
  OBVIOUS
<1> HIDE DEF s
<1>4. Distinct(s) /\ ToSet(s) = Blocks
  BY <1>3 DEF Distinct, ToSet
<1> QED
  BY <1>2, <1>4 DEF s

(* The backward pass starts with every block.                              *)
LEMMA ForwardDonePreserves == AnalysisInv /\ ForwardDone => AnalysisInv'
<1> SUFFICES ASSUME AnalysisInv, ForwardDone PROVE AnalysisInv'
  OBVIOUS
<1> USE DEF AnalysisInv
<1>1. /\ phase = "forward" /\ stack = <<>> /\ phase' = "backward" /\ visited' = {}
      /\ stack' = [b \in Blocks |-> b]
      /\ UNCHANGED <<given, merge, succs, code, defsIn, defsOut, init, liveIn, liveOut, rootLive, placement, run>>
  BY DEF ForwardDone
<1>2. IInv' /\ RestIsPlaced' /\ Placed' = Placed /\ Sized' = Sized /\ size' = size /\ mode' = mode
      /\ todo' = todo /\ index' = index /\ exceeded' = exceeded
  BY <1>1, PlacementKept DEF placement, vars
<1>3. stack' \in Seq(Blocks) /\ Distinct(stack') /\ ToSet(stack') = Blocks
  BY <1>1, AllBlocksFacts
<1>4. Typed'
  BY <1>1, <1>2, <1>3 DEF Typed, CodeOK, Roots
<1>5. PhasesInOrder'
  BY <1>1, <1>2 DEF PhasesInOrder
<1>6. ReachedInv'
  <2>1. Reached(visited)
    <3>1. ToSet(stack) = {}
      BY <1>1 DEF ToSet
    <3> QED
      BY <1>1, <3>1 DEF ForwardInv, Reached
  <2>2. \E V \in SUBSET Blocks : Reached(V)
    BY <2>1 DEF Typed
  <2>3. \E V \in SUBSET Blocks : Reached(V)'
    BY <1>1, <1>2, <2>2, ReachedKept
  <2> QED
    BY <2>3 DEF ReachedInv
<1>7. ForwardInv' /\ BackwardInv'
  BY <1>1, <1>3 DEF ForwardInv, BackwardInv, Analysed
<1>8. LeastInv'
  <2>1. \A S : Solves(S)' = Solves(S)
    BY <1>1, <1>2, SolvesSame
  <2> QED
    BY <1>1, <2>1 DEF LeastInv
<1> QED
  BY <1>2, <1>4, <1>5, <1>6, <1>7, <1>8

(* One block of the backward pass.                                         *)
LEMMA BackwardVisitPreserves == AnalysisInv /\ BackwardVisit => AnalysisInv'
<1> SUFFICES ASSUME AnalysisInv, BackwardVisit PROVE AnalysisInv'
  OBVIOUS
<1> USE DEF AnalysisInv
<1> DEFINE b == Last(stack)
           lives == LiveAfters(b, liveOut[b])
           live == LiveAtStart(b, liveOut[b])
           again == Grown(b, live)
<1>1. /\ phase = "backward" /\ phase' = "backward" /\ stack # <<>>
      /\ rootLive' = [r \in Roots |-> IF r[1] = b THEN lives[r[2]] ELSE rootLive[r]]
      /\ liveIn' = [liveIn EXCEPT ![b] = live]
      /\ liveOut' = [u \in Blocks |-> IF u \in Preds(b) THEN liveOut[u] \cup live ELSE liveOut[u]]
      /\ visited' = visited \cup again
      /\ stack' = Pushed(Front(stack), [u \in Blocks |-> u], again)
      /\ UNCHANGED <<given, merge, succs, code, defsIn, defsOut, init, placement, run>>
  BY DEF BackwardVisit, LiveAtStart
<1>2. IInv' /\ RestIsPlaced' /\ Placed' = Placed /\ Sized' = Sized /\ size' = size /\ mode' = mode
      /\ todo' = todo /\ index' = index /\ exceeded' = exceeded
  BY <1>1, PlacementKept DEF placement, vars
<1>3. /\ b \in Blocks /\ Front(stack) \in Seq(Blocks) /\ Distinct(Front(stack))
      /\ ToSet(stack) = ToSet(Front(stack)) \cup {b} /\ b \notin ToSet(Front(stack))
  BY <1>1, FrontFacts DEF Typed
<1>4. liveOut[b] \in SUBSET Temps /\ CodeOK /\ Len(code[b]) \in Nat
  BY <1>3 DEF Typed, CodeOK
<1>5. lives \in [0..Len(code[b]) -> SUBSET Temps] /\ live \in SUBSET Temps /\ lives[0] = live
  <2>1. lives \in [0..Len(code[b]) -> SUBSET Temps]
    BY <1>3, <1>4, LiveAftersIs
  <2> QED
    BY <1>4, <2>1 DEF LiveAtStart
<1>6. again \subseteq Blocks /\ \A u \in Preds(b) \ again : live \subseteq liveOut[u]
  BY DEF Grown, Preds
<1>7. \A u, d : LiveAfters(u, d)' = LiveAfters(u, d) /\ LiveAtStart(u, d)' = LiveAtStart(u, d)
  BY <1>1, <1>2, LiveAftersSame DEF LiveAtStart
<1>8. Roots' = Roots /\ \A u : Preds(u)' = Preds(u)
  BY <1>1 DEF Roots, Preds
<1>9. /\ stack' \in Seq(Blocks) /\ Distinct(stack') /\ ToSet(stack') = ToSet(Front(stack)) \cup again
  <2> DEFINE all == [u \in Blocks |-> u]
  <2>1. all \in Seq(Blocks) /\ ToSet(all) \cap again = again
    BY <1>6, AllBlocksFacts
  <2>2. stack' = Pushed(Front(stack), all, again)
    BY <1>1
  <2> HIDE DEF all, b, again, live, lives
  <2> QED
    BY <1>3, <2>1, <2>2, PushedHolds
<1>10. \A u \in Blocks : liveOut[u] \subseteq liveOut'[u] /\ (u \in Preds(b) => live \subseteq liveOut'[u])
  BY <1>1
<1>11. \A u \in Blocks \ again : liveOut'[u] = liveOut[u]
  BY <1>1, <1>6
<1>12. Typed'
  <2>1. rootLive' \in [Roots -> SUBSET Temps]
    <3> SUFFICES ASSUME NEW r \in Roots, r[1] = b PROVE lives[r[2]] \in SUBSET Temps
      BY <1>1 DEF Typed
    <3>1. r[2] \in 0..Len(code[b])
      BY <1>3, RootIs DEF Typed, CodeOK
    <3> QED
      BY <1>5, <3>1
  <2>2. liveIn' \in [Blocks -> SUBSET Temps] /\ liveOut' \in [Blocks -> SUBSET Temps]
    BY <1>1, <1>5 DEF Typed
  <2> HIDE DEF b, lives, live, again
  <2> QED
    BY <1>1, <1>2, <1>6, <1>8, <1>9, <2>1, <2>2 DEF Typed, CodeOK
<1>13. PhasesInOrder' /\ ForwardInv'
  BY <1>1, <1>2 DEF PhasesInOrder, ForwardInv
<1>14. ReachedInv'
  <2>1. PICK V \in SUBSET Blocks : Reached(V)
    BY <1>1 DEF ReachedInv, Analysed
  <2>2. Reached(V)'
    BY <1>1, <1>2, <2>1, ReachedKept
  <2> QED
    BY <2>2 DEF ReachedInv
<1> HIDE DEF b, lives, live, again
<1>15. BackwardInv'
  <2> SUFFICES ASSUME NEW d \in Blocks \ ToSet(stack') PROVE LivesOf(d)'
    BY <1>1 DEF BackwardInv
  <2>1. liveOut'[d] = liveOut[d] /\ d \notin again /\ code' = code
    BY <1>1, <1>9, <1>11
  <2>2. \A u \in Preds(d) : u \in Blocks
    BY DEF Preds
  <2>3. CASE d = b
    <3>1. liveIn'[d] = LiveAtStart(d, liveOut[d])
      BY <1>1, <1>3, <2>3 DEF Typed, live
    <3>2. \A i \in DOMAIN code[d] : rootLive'[<<d, i>>] = LiveAfters(d, liveOut[d])[i]
      BY <1>1, <1>3, <2>3, RootsAre DEF lives
    <3>3. \A u \in Preds(d) : liveIn'[d] \subseteq liveOut'[u]
      BY <1>1, <1>3, <1>10, <2>2, <2>3 DEF Typed
    <3> QED
      BY <1>7, <1>8, <2>1, <3>1, <3>2, <3>3 DEF LivesOf
  <2>4. CASE d # b
    <3>1. LivesOf(d)
      BY <1>1, <1>3, <1>9, <2>4 DEF BackwardInv, Analysed
    <3>2. liveIn'[d] = liveIn[d]
      BY <1>1, <2>4 DEF Typed
    <3>3. \A i \in DOMAIN code[d] : rootLive'[<<d, i>>] = rootLive[<<d, i>>]
      BY <1>1, <2>4, RootsAre
    <3>4. \A u \in Preds(d) : liveIn'[d] \subseteq liveOut'[u]
      BY <1>10, <2>2, <3>1, <3>2 DEF LivesOf
    <3> QED
      BY <1>1, <1>7, <1>8, <2>1, <3>1, <3>2, <3>3, <3>4 DEF LivesOf
  <2> QED
    BY <2>3, <2>4
<1>16. LeastInv'
  <2> SUFFICES ASSUME NEW S \in SUBSET (Blocks \X Temps), Solves(S)', NEW u \in Blocks
               PROVE  liveOut'[u] \subseteq LiveAt(S, u)
    BY DEF LeastInv
  <2>1. Solves(S)
    BY <1>1, <1>2, SolvesSame
  <2>2. \A d \in Blocks : liveOut[d] \subseteq LiveAt(S, d)
    BY <1>1, <2>1 DEF LeastInv
  <2>3. CASE u \in Preds(b)
    <3>1. b \in ToSet(succs[u])
      BY <2>3 DEF Preds
    <3>2. LiveAtStart(b, LiveAt(S, b)) \subseteq LiveAt(S, u)
      BY <2>1, <3>1 DEF Solves
    <3>3. live \subseteq LiveAtStart(b, LiveAt(S, b))
      <4>1. LiveAt(S, b) \in SUBSET Temps
        BY DEF LiveAt
      <4> QED
        BY <1>3, <1>4, <2>2, <4>1, LiveAtStartMonotone DEF live
    <3> QED
      BY <1>1, <2>2, <3>2, <3>3
  <2>4. CASE u \notin Preds(b)
    BY <1>1, <2>2, <2>4
  <2> QED
    BY <2>3, <2>4
<1> QED
  BY <1>2, <1>12, <1>13, <1>14, <1>15, <1>16
(* Interference is what liveness says; placement may begin (_pack).        *)
LEMMA BackwardDonePreserves == AnalysisInv /\ BackwardDone => AnalysisInv'
<1> SUFFICES ASSUME AnalysisInv, BackwardDone PROVE AnalysisInv'
  OBVIOUS
<1> USE DEF AnalysisInv
<1>1. /\ phase = "backward" /\ stack = <<>> /\ ~ merge /\ phase' = "place"
      /\ adj' = [t \in Temps |-> {u \in Sized \ {t} : t \in Sized /\ Interferes(t, u)}]
      /\ UNCHANGED <<given, merge, succs, code, analysis, size, mode, todo, index, offset, exceeded, run>>
  BY DEF BackwardDone
<1>2. Placed = {} /\ Placed' = {} /\ mode = "packing" /\ Sized' = Sized
  BY <1>1 DEF PhasesInOrder, Placed, Sized
<1>3. Symmetric(adj')
  BY <1>1 DEF Symmetric, Interferes, Sized
<1>4. TypeOK'
  <2>1. adj' \in [Temps -> SUBSET Temps]
    BY <1>1 DEF Sized
  <2> QED
    BY <1>1, <1>2, <2>1 DEF IInv, TypeOK
<1>5. IInv'
  <2>1. NoOverlap' /\ InBlock' /\ NoHoles'
    BY <1>2 DEF NoOverlap, InBlock, NoHoles
  <2>2. TodoIsUnplaced' /\ BumpIsTight' /\ NothingPlacedYet'
    BY <1>1, <1>2 DEF IInv, TodoIsUnplaced, BumpIsTight, NothingPlacedYet
  <2> QED
    BY <1>3, <1>4, <2>1, <2>2 DEF IInv, Symmetric
<1>6. Typed' /\ RestIsPlaced' /\ PhasesInOrder'
  BY <1>1, <1>2 DEF Typed, CodeOK, Roots, RestIsPlaced, PhasesInOrder, analysis
<1>7. ForwardInv' /\ LeastInv'
  BY <1>1 DEF ForwardInv, LeastInv
<1>8. ReachedInv'
  <2>1. PICK V \in SUBSET Blocks : Reached(V)
    BY <1>1 DEF ReachedInv, Analysed
  <2>2. Reached(V)'
    BY <1>1, <2>1, ReachedKept DEF analysis
  <2> QED
    BY <2>2 DEF ReachedInv
<1>9. BackwardInv'
  <2>1. \A b \in Blocks \ ToSet(stack) : LivesOf(b)
    BY <1>1 DEF BackwardInv, Analysed
  <2>2. \A b \in Blocks \ ToSet(stack) : LivesOf(b)'
    BY <1>1, <2>1, LivesKept DEF analysis
  <2> QED
    BY <1>1, <2>2 DEF BackwardInv, analysis
<1> QED
  BY <1>5, <1>6, <1>7, <1>8, <1>9

(* Renaming gives statements again that fit the sizes.                     *)
LEMMA RenamedFits ==
  ASSUME size \in [Temps -> Nat], NEW c \in [Scalars -> Scalars], NEW s \in Statements,
         \A p \in {s.to, s.from} : (p.temp # None => size[p.temp] > 0) /\ (p.by # None => size[p.by] = 1)
  PROVE  /\ Renamed(c, s) \in Statements
         /\ \A p \in {Renamed(c, s).to, Renamed(c, s).from} :
              (p.temp # None => size[p.temp] > 0) /\ (p.by # None => size[p.by] = 1)
<1> DEFINE name(t) == IF t \in Scalars THEN c[t] ELSE t
           place(p) == [p EXCEPT !.temp = name(@), !.by = name(@)]
           t == [s EXCEPT !.to = place(@), !.from = place(@)]
           void == [to |-> NoPlace, op |-> "get", from |-> NoPlace]
           Fits1(p) == (p.temp # None => size[p.temp] > 0) /\ (p.by # None => size[p.by] = 1)
<1>1. \A u \in Temps \cup {None} : name(u) \in Temps \cup {None}
  BY DEF Scalars
<1>2. \A u \in Temps \cup {None} : u # None /\ size[u] > 0 => size[name(u)] > 0
  BY DEF Scalars
<1>3. \A u \in Temps \cup {None} : u # None /\ size[u] = 1 => size[name(u)] = 1
  BY DEF Scalars
<1>4. None \notin Temps
  BY TempsAssumption DEF None
<1>5. \A u \in Temps \cup {None} : name(u) # None => u # None
  BY <1>4 DEF Scalars
<1> HIDE DEF name
<1>6. ASSUME NEW p \in Places, Fits1(p) PROVE place(p) \in Places /\ Fits1(place(p))
  <2>1. /\ place(p) = [temp |-> name(p.temp), at |-> p.at, by |-> name(p.by)]
        /\ p.temp \in Temps \cup {None} /\ p.by \in Temps \cup {None} /\ p.at \in Nat
    <3> DEFINE x == name(p.temp)
               y == name(p.by)
    <3> HIDE DEF x, y
    <3>1. place(p) = [p EXCEPT !.temp = x, !.by = y]
      BY DEF x, y
    <3>2. [p EXCEPT !.temp = x, !.by = y] = [temp |-> x, at |-> p.at, by |-> y]
      <4> DEFINE e == [p EXCEPT !.temp = x, !.by = y]
      <4>1. DOMAIN p = {"temp", "at", "by"}
        BY DEF Places
      <4>2. e = [f \in {"temp", "at", "by"} |-> e[f]] /\ e.temp = x /\ e.by = y /\ e.at = p.at
        BY <4>1
      <4> HIDE DEF e
      <4>3. e = [temp |-> x, at |-> p.at, by |-> y]
        BY <4>2
      <4> QED
        BY <4>3 DEF e
    <3> QED
      BY <3>1, <3>2 DEF Places, x, y
  <2>2. place(p) \in Places
    BY <1>1, <2>1 DEF Places
  <2>3. place(p).temp = name(p.temp) /\ place(p).by = name(p.by)
    BY <2>1
  <2> HIDE DEF place
  <2> QED
    BY <1>2, <1>3, <1>5, <1>6, <2>1, <2>2, <2>3
<1>7. s.to \in Places /\ s.from \in Places /\ Fits1(s.to) /\ Fits1(s.from)
  BY DEF Statements
<1>8. NoPlace \in Places /\ Fits1(NoPlace)
  BY DEF NoPlace, Place, Places
<1>9. Renamed(c, s) \in {void, t}
  BY DEF Renamed, name
<1> HIDE DEF place
<1>10. t \in Statements /\ t.to = place(s.to) /\ t.from = place(s.from)
  BY <1>6, <1>7 DEF Statements
<1>11. void \in Statements /\ void.to = NoPlace /\ void.from = NoPlace
  BY <1>8 DEF Statements
<1> HIDE DEF t, void, Fits1
<1>12. \A p \in {Renamed(c, s).to, Renamed(c, s).from} : Fits1(p)
  BY <1>6, <1>7, <1>8, <1>9, <1>10, <1>11
<1> QED
  BY <1>9, <1>10, <1>11, <1>12 DEF Fits1

(* Coalescing renames, and the analysis starts from nothing again.         *)
LEMMA MergePreserves == AnalysisInv /\ Merge => AnalysisInv'
<1> SUFFICES ASSUME AnalysisInv, Merge PROVE AnalysisInv'
  OBVIOUS
<1> USE DEF AnalysisInv
<1>1. /\ phase = "backward" /\ stack = <<>> /\ merge /\ phase' = "decide" /\ merge' = FALSE
      /\ stack' = <<>> /\ visited' = {} /\ init' = {}
      /\ defsIn' = Blank /\ defsOut' = Blank /\ liveIn' = Blank /\ liveOut' = Blank
      /\ rootLive' = [r \in Roots |-> {}]
      /\ UNCHANGED <<given, succs, placement, run>>
  BY DEF Merge
<1>2. IInv' /\ RestIsPlaced' /\ Placed' = Placed /\ Sized' = Sized /\ size' = size /\ mode' = mode
      /\ todo' = todo /\ index' = index /\ exceeded' = exceeded
  BY <1>1, PlacementKept DEF placement, vars
<1>3. PICK c \in Canonicals : code' = [b \in Blocks |-> [i \in DOMAIN code[b] |-> Renamed(c, code[b][i])]]
  BY DEF Merge
<1>4. c \in [Scalars -> Scalars]
  BY DEF Canonicals
<1>5. size \in [Temps -> Nat]
  BY DEF IInv, TypeOK
<1>6. ASSUME NEW b \in Blocks PROVE code'[b] \in Seq(Statements) /\ Len(code'[b]) = Len(code[b]) /\ Fitting(code'[b], size)
  <2>1. code[b] \in Seq(Statements) /\ Fitting(code[b], size) /\ code'[b] = [i \in DOMAIN code[b] |-> Renamed(c, code[b][i])]
    BY <1>3 DEF Typed, CodeOK
  <2>2. DOMAIN code[b] = 1..Len(code[b]) /\ Len(code[b]) \in Nat
    BY <2>1
  <2>3. ASSUME NEW i \in DOMAIN code[b]
        PROVE  /\ Renamed(c, code[b][i]) \in Statements
               /\ \A p \in {Renamed(c, code[b][i]).to, Renamed(c, code[b][i]).from} :
                    (p.temp # None => size[p.temp] > 0) /\ (p.by # None => size[p.by] = 1)
    <3>1. code[b][i] \in Statements
      BY <2>1
    <3>2. \A p \in {code[b][i].to, code[b][i].from} :
            (p.temp # None => size[p.temp] > 0) /\ (p.by # None => size[p.by] = 1)
      BY <2>1 DEF Fitting
    <3> QED
      BY <1>4, <1>5, <3>1, <3>2, RenamedFits
  <2>4. code'[b] \in Seq(Statements) /\ Len(code'[b]) = Len(code[b])
    BY <2>1, <2>2, <2>3
  <2>5. DOMAIN code'[b] = DOMAIN code[b] /\ \A i \in DOMAIN code[b] : code'[b][i] = Renamed(c, code[b][i])
    BY <2>1
  <2>6. Fitting(code'[b], size)
    BY <2>3, <2>5 DEF Fitting
  <2> QED
    BY <2>4, <2>6
<1>7. code' \in [Blocks -> Seq(Statements)]
  BY <1>3, <1>6
<1>8. Roots' = Roots
  <2>1. \A b \in Blocks : DOMAIN code'[b] = DOMAIN code[b]
    BY <1>3
  <2> QED
    BY <2>1 DEF Roots
<1>9. Typed'
  <2>1. stack' \in Seq(Blocks) /\ Distinct(stack')
    BY <1>1 DEF Distinct
  <2>2. Blank \in [Blocks -> SUBSET Temps] /\ rootLive' \in [Roots -> SUBSET Temps]
    BY <1>1 DEF Blank
  <2> QED
    BY <1>1, <1>2, <1>6, <1>7, <1>8, <2>1, <2>2 DEF Typed, CodeOK
<1>10. PhasesInOrder'
  BY <1>1, <1>2 DEF PhasesInOrder, Blank
<1>11. ForwardInv' /\ ReachedInv' /\ BackwardInv' /\ LeastInv'
  BY <1>1 DEF ForwardInv, ReachedInv, BackwardInv, Analysed, LeastInv
<1> QED
  BY <1>2, <1>9, <1>10, <1>11

(* Placement and execution leave the analysis alone.                       *)
LEMMA TablesKept ==
  ASSUME AnalysisInv, phase \in {"place", "run"}, phase' \in {"place", "run"},
         UNCHANGED <<given, merge, succs, code, analysis, size, mode>>
  PROVE  Typed' /\ PhasesInOrder' /\ ForwardInv' /\ ReachedInv' /\ BackwardInv' /\ LeastInv'
<1> USE DEF AnalysisInv
<1>1. Typed' /\ PhasesInOrder'
  BY DEF Typed, CodeOK, Roots, PhasesInOrder, analysis
<1>2. ForwardInv' /\ LeastInv'
  BY DEF ForwardInv, LeastInv
<1>3. Analysed' => Analysed
  BY DEF Analysed
<1>4. ReachedInv'
  <2> SUFFICES ASSUME Analysed PROVE \E V \in SUBSET Blocks : Reached(V)'
    BY <1>3 DEF ReachedInv
  <2>1. PICK V \in SUBSET Blocks : Reached(V)
    BY DEF ReachedInv
  <2> QED
    BY <2>1, ReachedKept DEF analysis
<1>5. BackwardInv'
  <2> SUFFICES ASSUME Analysed PROVE stack' = <<>> /\ \A b \in Blocks \ ToSet(stack') : LivesOf(b)'
    BY <1>3 DEF BackwardInv
  <2> QED
    BY LivesKept DEF BackwardInv, analysis
<1> QED
  BY <1>1, <1>2, <1>4, <1>5

(* One temporary gets its slots.                                           *)
LEMMA PlaceTempPreserves == AnalysisInv /\ PlaceTemp => AnalysisInv'
<1> SUFFICES ASSUME AnalysisInv, PlaceTemp PROVE AnalysisInv'
  OBVIOUS
<1>1. /\ phase = "place" /\ phase' = "place"
      /\ UNCHANGED <<given, merge, succs, code, analysis, run>>
  BY DEF PlaceTemp
<1>2. PICK t \in todo : Bump(t) \/ Pack(t)
  BY DEF PlaceTemp
<1>3. IInv'
  BY <1>2, BumpPreserves, PackPreserves DEF AnalysisInv
<1>4. size' = size /\ mode' = mode
  BY <1>2 DEF Bump, Pack
<1>5. RestIsPlaced'
  <2> SUFFICES ASSUME NEW u \in Sized \ todo' PROVE offset'[u] # Unallocated
    BY <1>4 DEF RestIsPlaced, Sized
  <2>1. CASE UNCHANGED <<todo, offset>>
    BY <2>1 DEF AnalysisInv, RestIsPlaced
  <2>2. CASE \E o \in 0..TempSize : offset' = [offset EXCEPT ![t] = o] /\ todo' = todo \ {t}
    BY <2>2, TempSizeAssumption DEF AnalysisInv, RestIsPlaced, IInv, TypeOK, Unallocated, Sized
  <2>3. index \in 0..TempSize /\ \A o \in Fits(t) : o \in 0..TempSize
    BY DEF AnalysisInv, IInv, TypeOK, Fits
  <2> QED
    BY <1>2, <2>1, <2>2, <2>3 DEF Bump, Pack, Exceed
<1> QED
  BY <1>1, <1>3, <1>4, <1>5, TablesKept DEF AnalysisInv

(* The program starts and runs.                                            *)
LEMMA RunningPreserves == AnalysisInv /\ (Enter \/ Run) => AnalysisInv'
<1> SUFFICES ASSUME AnalysisInv, Enter \/ Run PROVE AnalysisInv'
  OBVIOUS
<1>1. /\ phase \in {"place", "run"} /\ phase' \in {"place", "run"}
      /\ UNCHANGED <<given, merge, succs, code, analysis, placement>>
  BY DEF Enter, Run
<1>2. IInv' /\ RestIsPlaced'
  BY <1>1, PlacementKept DEF AnalysisInv
<1> QED
  BY <1>1, <1>2, TablesKept DEF AnalysisInv, placement, vars

LEMMA StutterPreserves == AnalysisInv /\ UNCHANGED allocation => AnalysisInv'
<1> SUFFICES ASSUME AnalysisInv, UNCHANGED allocation PROVE AnalysisInv'
  OBVIOUS
<1> USE DEF AnalysisInv
<1>1. UNCHANGED <<given, succs, code, phase, merge, analysis, placement, run>>
  BY DEF allocation
<1>2. IInv' /\ RestIsPlaced' /\ Placed' = Placed /\ Sized' = Sized /\ size' = size /\ mode' = mode
      /\ todo' = todo /\ index' = index /\ exceeded' = exceeded
  BY <1>1, PlacementKept DEF placement, vars
<1>3. UNCHANGED <<stack, visited, defsIn, defsOut, init, liveIn, liveOut, rootLive>>
  BY <1>1 DEF analysis
<1>4. Typed' /\ PhasesInOrder'
  BY <1>1, <1>2, <1>3 DEF Typed, CodeOK, Roots, PhasesInOrder
<1>5. ForwardInv'
  <2>1. \A d, i, s : DefsAfter(d, i, s)' = DefsAfter(d, i, s)
    BY <1>1, <1>2 DEF DefsAfter, IsArray
  <2>2. \A d, s : FirstWrites(d, s)' = FirstWrites(d, s)
    BY <1>1, <1>2, <2>1 DEF FirstWrites, IsArray
  <2> QED
    BY <1>1, <1>3, <2>1, <2>2 DEF ForwardInv, ArraysOf
<1>6. ReachedInv'
  <2> SUFFICES ASSUME Analysed PROVE \E V \in SUBSET Blocks : Reached(V)'
    BY <1>1, <1>2 DEF ReachedInv, Analysed
  <2>1. PICK V \in SUBSET Blocks : Reached(V)
    BY DEF ReachedInv
  <2> QED
    BY <1>1, <1>2, <1>3, <2>1, ReachedKept
<1>7. BackwardInv'
  BY <1>1, <1>2, <1>3, LivesKept DEF BackwardInv, Analysed
<1>8. LeastInv'
  BY <1>1, <1>2, <1>3, SolvesSame DEF LeastInv
<1> QED
  BY <1>2, <1>4, <1>5, <1>6, <1>7, <1>8

LEMMA AllocNextPreserves == AnalysisInv /\ [AllocNext]_allocation => AnalysisInv'
BY BeginPreserves, DecidePreserves, ForwardVisitPreserves, ForwardDonePreserves, BackwardVisitPreserves,
   BackwardDonePreserves, MergePreserves, PlaceTempPreserves, RunningPreserves, StutterPreserves DEF AllocNext

LEMMA AnalysisInvHolds == AllocSpec => []AnalysisInv
<1>1. AllocInit => AnalysisInv
  BY AllocInitEstablishes
<1>2. AnalysisInv /\ [AllocNext]_allocation => AnalysisInv'
  BY AllocNextPreserves
<1> QED
  BY <1>1, <1>2, PTL DEF AllocSpec
-----------------------------------------------------------------------------
(* Results.                                                                *)

\* For any program and whatever is merged, the worklist of compute_liveness
\* ends with the least solution of the liveness equations.
THEOREM AnalysisIsLeast == AllocSpec => []LivenessIsLeast
<1>1. AnalysisInv => LivenessIsLeast
  <2> SUFFICES ASSUME AnalysisInv, phase = "backward", stack = <<>>
               PROVE  LET solution == UNION {{b} \X liveOut[b] : b \in Blocks} IN
                      /\ Solves(solution) /\ \A S \in SUBSET solution : Solves(S) => S = solution
                      /\ \A b \in Blocks : LET lives == LiveAfters(b, liveOut[b]) IN
                           lives[0] = liveIn[b] /\ \A i \in DOMAIN code[b] : rootLive[<<b, i>>] = lives[i]
    BY DEF LivenessIsLeast
  <2> DEFINE solution == UNION {{b} \X liveOut[b] : b \in Blocks}
  <2>1. \A b \in Blocks : LivesOf(b)
    <3>1. ToSet(stack) = {}
      BY DEF ToSet
    <3> QED
      BY <3>1 DEF AnalysisInv, BackwardInv, Analysed
  <2>2. \A b \in Blocks : liveOut[b] \subseteq Temps /\ LiveAt(solution, b) = liveOut[b]
    BY DEF AnalysisInv, Typed, LiveAt
  <2>3. solution \subseteq Blocks \X Temps
    <3> SUFFICES ASSUME NEW b \in Blocks PROVE {b} \X liveOut[b] \subseteq Blocks \X Temps
      OBVIOUS
    <3> QED
      BY <2>2
  <2> HIDE DEF solution
  <2>4. Solves(solution)
    <3> SUFFICES ASSUME NEW b \in Blocks, NEW c \in ToSet(succs[b])
                 PROVE  LiveAtStart(c, LiveAt(solution, c)) \subseteq LiveAt(solution, b)
      BY DEF Solves
    <3>1. c \in Blocks /\ b \in Preds(c)
      BY DEF AnalysisInv, Typed, ToSet, Preds
    <3> QED
      BY <2>1, <2>2, <3>1 DEF LivesOf
  <2>5. ASSUME NEW S \in SUBSET solution, Solves(S) PROVE S = solution
    <3>1. \A b \in Blocks : liveOut[b] \subseteq LiveAt(S, b)
      <4>1. S \in SUBSET (Blocks \X Temps)
        BY <2>3
      <4> QED
        BY <2>5, <4>1 DEF AnalysisInv, LeastInv
    <3>2. solution \subseteq S
      BY <3>1 DEF solution, LiveAt
    <3> QED
      BY <3>2
  <2>6. \A b \in Blocks : LiveAfters(b, liveOut[b])[0] = liveIn[b]
                          /\ \A i \in DOMAIN code[b] : rootLive[<<b, i>>] = LiveAfters(b, liveOut[b])[i]
    BY <2>1 DEF LivesOf, LiveAtStart
  <2> QED
    BY <2>4, <2>5, <2>6 DEF solution
<1> QED
  BY <1>1, AnalysisInvHolds, PTL

\* Temporaries of a program that are live together after a store, as that
\* analysis finds them, never share a slot (_pack, and _bump for all of them).
THEOREM AllocatedApart == AllocSpec => []NoOverlap
<1>1. AnalysisInv => NoOverlap
  BY DEF AnalysisInv, IInv
<1> QED
  BY <1>1, AnalysisInvHolds, PTL
LEMMA AllocFrugal == AnalysisInv /\ Frugal /\ [AllocNext]_allocation => Frugal'
<1> SUFFICES ASSUME AnalysisInv, Frugal, [AllocNext]_allocation PROVE Frugal'
  OBVIOUS
<1>1. CASE UNCHANGED placement
  BY <1>1, FrugalStep DEF AnalysisInv, placement
<1>2. CASE PlaceTemp
  BY <1>2, FrugalStep DEF AnalysisInv, PlaceTemp, Next
<1>3. ASSUME phase \notin {"place", "run"}, UNCHANGED <<offset, exceeded>> PROVE Frugal'
  <2>1. Placed = {} /\ ~ exceeded
    BY <1>3 DEF AnalysisInv, PhasesInOrder
  <2>2. Placed' = {} /\ ~ exceeded'
    BY <1>3, <2>1 DEF Placed
  <2> QED
    BY <2>2 DEF Frugal, OnlyTempsWithSlots, NeverWorseThanBump
<1>4. CASE Decide
  BY <1>1, <1>3, <1>4 DEF Decide, TryBump, Analyze
<1>5. CASE BackwardDone
  BY <1>3, <1>5 DEF BackwardDone
<1>6. CASE Begin \/ ForwardVisit \/ ForwardDone \/ BackwardVisit \/ Merge \/ Enter \/ Run
  <2>1. UNCHANGED placement
    BY <1>6 DEF Begin, Analyze, ForwardVisit, ForwardDone, BackwardVisit, Merge, Enter, Run
  <2> QED
    BY <1>1, <2>1
<1>7. CASE UNCHANGED allocation
  BY <1>1, <1>7 DEF allocation
<1> QED
  BY <1>2, <1>4, <1>5, <1>6, <1>7 DEF AllocNext

(* A program is refused for want of memory only when its temporaries would *)
(* not fit side by side, whatever liveness makes of it.                    *)
THEOREM AllocationIsNeverWorse == AllocSpec => []NeverWorseThanBump
<1>1. AllocInit => Frugal
  <2> SUFFICES ASSUME AllocInit PROVE Frugal
    OBVIOUS
  <2>1. Placed = {} /\ exceeded = FALSE
    BY DEF AllocInit, Placed
  <2> QED
    BY <2>1 DEF Frugal, OnlyTempsWithSlots, NeverWorseThanBump
<1>2. AnalysisInv /\ Frugal /\ [AllocNext]_allocation => Frugal'
  BY AllocFrugal
<1>3. Frugal => NeverWorseThanBump
  BY DEF Frugal
<1> QED
  BY <1>1, <1>2, <1>3, AnalysisInvHolds, PTL DEF AllocSpec

-----------------------------------------------------------------------------
(* Runs of the program and of the allocated one.                           *)

\* What a place and a statement are called if c names the temporaries.
NameOf(c, t) == IF t = None THEN None ELSE c[t]
CalledPlace(c, p) == [temp |-> NameOf(c, p.temp), at |-> p.at, by |-> NameOf(c, p.by)]
Called(c, s) == [to |-> CalledPlace(c, s.to), op |-> s.op, from |-> CalledPlace(c, s.from)]

\* The store of statement i of b is still there.
Kept(b, i) == Stores(code[b][i]) /\ ~ Dead(b, i)

\* A copy within a web needs no store.
WithinWeb(c, s) ==
  /\ s.op = "get" /\ s.from.temp # None /\ c[s.from.temp] = c[s.to.temp]
  /\ (s.from = s.to /\ s.to.by = None) \/ (size[s.from.temp] = 1 /\ size[s.to.temp] = 1)

\* What is needed before a statement, for what is needed after it; and what is
\* undefined: arrays that nothing has been stored to.
StatementCovered(s, before, after, unset, unsetAfter) ==
  /\ HasEffect(s) \/ s.to.temp \in after => Uses(s) \cup IndexUse(s.to) \subseteq before
  /\ after \ {s.to.temp} \subseteq before
  /\ s.to.temp \in after /\ IsArray(s.to.temp) => s.to.temp \in before \cup unset
  /\ unsetAfter \subseteq unset \ {s.to.temp}

\* need and unset say it of the start of each block and after each statement.
\* No way from the entry leaves the blocks V.
Tables == [Blocks -> [Nat -> SUBSET Temps]]
Flowing(cd, V, need, unset) ==
  /\ 1 \in V
  /\ \A b \in V : \A d \in ToSet(succs[b]) :
       /\ d \in V /\ need[d][0] \subseteq need[b][Len(cd[b])] \cup unset[b][Len(cd[b])]
       /\ unset[d][0] \subseteq unset[b][Len(cd[b])]

WrittenIn(cd) == {t \in Temps : IsArray(t) /\ \E b \in Blocks : \E i \in DOMAIN cd[b] : cd[b][i].to.temp = t}

Covers(cd, V, need, unset) ==
  /\ Flowing(cd, V, need, unset)
  /\ \A b \in V : \A i \in DOMAIN cd[b] :
       StatementCovered(cd[b][i], need[b][i - 1], need[b][i], unset[b][i - 1], unset[b][i])
  /\ \A b \in V : \A i \in 0..Len(cd[b]) : unset[b][i] \subseteq WrittenIn(cd)

\* A statement of the program as it came, of which the allocated program has
\* kept the store, under new names, or does not need it; the statement
\* overwrites nothing that is needed.
StatementSound(b, i, c, before, after, unset, unsetAfter) ==
  LET g == given[b][i]
      s == code[b][i]
  IN  /\ Kept(b, i) \/ HasEffect(g) => s = Called(c, g)
      /\ HasEffect(g) \/ (Kept(b, i) /\ g.to.temp \in after) => Uses(g) \cup IndexUse(g.to) \subseteq before
      /\ g.to.temp \in after /\ ~ Kept(b, i) => g.from.temp \in before /\ WithinWeb(c, g)
      /\ after \ {g.to.temp} \subseteq before
      /\ g.to.temp \in after /\ IsArray(g.to.temp) => g.to.temp \in before \cup unset
      /\ unsetAfter \subseteq unset \ {g.to.temp}
      /\ Kept(b, i) => \A u \in after \ {g.to.temp} : Slots(c[u]) \cap Slots(c[g.to.temp]) = {}

\* A name has the size of what is called so, and only scalars are renamed.
Names == {c \in [Temps -> Temps] : \A t \in Temps : size[c[t]] = size[t] /\ (size[t] # 1 => c[t] = t)}

Sound(V, need, unset, c) ==
  /\ Flowing(given, V, need, unset) /\ unset[1][0] \subseteq Written
  /\ \A b \in V : \A i \in DOMAIN given[b] :
       StatementSound(b, i, c, need[b][i - 1], need[b][i], unset[b][i - 1], unset[b][i])

\* Whatever is needed is undefined or in its slots.
Matches(r, need, unset, c) ==
  /\ \A t \in need : \A k \in Cells(t) : r.source[t][k] \in {Undefined, r.memory[offset[c[t]] + k]}
  /\ \A t \in unset : \A k \in Cells(t) : r.source[t][k] = Undefined

Runs ==
  {r \in [block : Blocks \cup {None}, steps : 0..MaxSteps,
          source : [Temps -> UNION {[Cells(t) -> Int] : t \in Temps}],
          memory : [0..(TempSize - 1) -> Int], same : BOOLEAN] :
     \A t \in Temps : r.source[t] \in [Cells(t) -> Int]}

Allocated == AnalysisInv /\ todo = {} /\ ~ exceeded

-----------------------------------------------------------------------------
(* Cells.                                                                  *)

LEMMA CellOfIsACell ==
  ASSUME NEW p \in Places, p.temp # None, size \in [Temps -> Nat], size[p.temp] > 0, NEW v \in Int
  PROVE  CellOf(p, v) \in Cells(p.temp) /\ p.temp \in Temps
<1>1. p.temp \in Temps /\ p.at \in Nat
  BY DEF Places
<1>2. ASSUME NEW a \in Int PROVE a % size[p.temp] \in 0..(size[p.temp] - 1)
  BY <1>1
<1> QED
  BY <1>1, <1>2 DEF CellOf, Cells

(* A temporary with slots has been given some, inside the block.           *)
LEMMA PlacedSlots ==
  ASSUME Allocated, NEW t \in Temps, size[t] > 0
  PROVE  t \in Placed /\ offset[t] \in 0..TempSize /\ \A k \in Cells(t) : offset[t] + k \in 0..(TempSize - 1) /\ offset[t] + k \in Slots(t)
<1> USE DEF Allocated, AnalysisInv
<1>1. t \in Placed
  BY DEF RestIsPlaced, Sized, Placed
<1>2. offset[t] \in 0..TempSize /\ size[t] \in Nat
  BY <1>1 DEF IInv, TypeOK, Placed
<1>3. Slots(t) \subseteq 0..(TempSize - 1)
  BY <1>1 DEF IInv, InBlock
<1>4. \A k \in Cells(t) : offset[t] + k \in Slots(t)
  BY <1>2, TempSizeAssumption DEF Cells, Slots
<1> QED
  BY <1>1, <1>2, <1>3, <1>4

LEMMA PlaceFits ==
  ASSUME AnalysisInv, NEW b \in Blocks, NEW i \in DOMAIN given[b]
  PROVE  /\ given[b][i] \in Statements /\ code[b][i] \in Statements
         /\ i \in DOMAIN code[b] /\ DOMAIN code[b] = DOMAIN given[b] /\ i \in Nat /\ i - 1 \in Nat
         /\ \A p \in {given[b][i].to, given[b][i].from, code[b][i].to, code[b][i].from} :
              /\ p \in Places /\ (p.temp # None => size[p.temp] > 0 /\ p.temp \in Temps)
              /\ (p.by # None => size[p.by] = 1 /\ p.by \in Temps)
<1>1. given[b] \in Seq(Statements) /\ code[b] \in Seq(Statements) /\ Len(code[b]) = Len(given[b])
  BY DEF AnalysisInv, Typed, CodeOK
<1>2. Fitting(given[b], size) /\ Fitting(code[b], size)
  BY DEF AnalysisInv, Typed
<1>3. i \in DOMAIN code[b] /\ DOMAIN code[b] = DOMAIN given[b] /\ i \in Nat /\ i - 1 \in Nat
  BY <1>1
<1>4. given[b][i] \in Statements /\ code[b][i] \in Statements
  BY <1>1, <1>3
<1> QED
  BY <1>2, <1>3, <1>4 DEF Fitting, Statements, Places
-----------------------------------------------------------------------------
(* One statement.                                                          *)

Stored(r, g, i, read) == IF g.op = "get" THEN read ELSE Fresh(r, i)
SourceAfter(r, b, i) ==
  LET g == given[b][i] IN
  IF Stores(g) THEN [r.source EXCEPT ![g.to.temp][SourceCell(r, g.to)] = Stored(r, g, i, SourceRead(r, g.from))]
  ELSE r.source
MemoryAfter(r, b, i) ==
  LET s == code[b][i] IN
  IF Kept(b, i) THEN [r.memory EXCEPT ![MemorySlot(r, s.to)] = Stored(r, given[b][i], i, MemoryRead(r, s.from))]
  ELSE r.memory
SameAfter(r, b, i) ==
  r.same /\ (HasEffect(given[b][i]) =>
    /\ SourceRead(r, given[b][i].from) \in {Undefined, MemoryRead(r, code[b][i].from)}
    /\ ~ Dead(b, i) \/ KeepsEffect(b, i))

LEMMA RunStatementIs ==
  ASSUME NEW r \in Runs, NEW b, NEW i
  PROVE  RunStatement(r, b, i) = [block |-> r.block, steps |-> r.steps, source |-> SourceAfter(r, b, i),
                                  memory |-> MemoryAfter(r, b, i), same |-> SameAfter(r, b, i)]
<1> DEFINE S == SourceAfter(r, b, i)
           M == MemoryAfter(r, b, i)
           O == SameAfter(r, b, i)
<1>1. RunStatement(r, b, i) = [r EXCEPT !.source = S, !.memory = M, !.same = O]
  BY DEF RunStatement, SourceAfter, MemoryAfter, SameAfter, Stored, Kept
<1> HIDE DEF S, M, O
<1> DEFINE e == [r EXCEPT !.source = S, !.memory = M, !.same = O]
<1>2. DOMAIN r = {"block", "steps", "source", "memory", "same"}
  BY DEF Runs
<1>3. /\ e = [f \in {"block", "steps", "source", "memory", "same"} |-> e[f]]
      /\ e.block = r.block /\ e.steps = r.steps /\ e.source = S /\ e.memory = M /\ e.same = O
  BY <1>2
<1> HIDE DEF e
<1>4. e = [block |-> r.block, steps |-> r.steps, source |-> S, memory |-> M, same |-> O]
  BY <1>3
<1> QED
  BY <1>1, <1>4 DEF e, S, M, O

LEMMA RunsAre ==
  ASSUME NEW r \in Runs
  PROVE  /\ r.block \in Blocks \cup {None} /\ r.steps \in 0..MaxSteps
         /\ DOMAIN r.source = Temps /\ r.memory \in [0..(TempSize - 1) -> Int] /\ r.same \in BOOLEAN
         /\ \A t \in Temps : r.source[t] \in [Cells(t) -> Int]
         /\ r.source = [t \in Temps |-> r.source[t]]
BY DEF Runs
\* A place that fits the sizes.
Proper(p) ==
  /\ p \in Places /\ (p.temp # None => size[p.temp] > 0 /\ p.temp \in Temps)
  /\ (p.by # None => size[p.by] = 1 /\ p.by \in Temps)

LEMMA SourceTyped ==
  ASSUME size \in [Temps -> Nat], NEW r \in Runs, NEW p, Proper(p)
  PROVE  SourceRead(r, p) \in Int /\ (p.temp # None => SourceCell(r, p) \in Cells(p.temp))
<1>1. p.by # None => r.source[p.by][0] \in Int
  <2> SUFFICES ASSUME p.by # None PROVE r.source[p.by][0] \in Int
    OBVIOUS
  <2>1. 0 \in Cells(p.by) /\ p.by \in Temps
    BY DEF Proper, Cells
  <2> QED
    BY <2>1, RunsAre
<1>2. p.temp # None => SourceCell(r, p) \in Cells(p.temp)
  <2> SUFFICES ASSUME p.temp # None PROVE SourceCell(r, p) \in Cells(p.temp)
    OBVIOUS
  <2> DEFINE v == IF p.by = None THEN 0 ELSE r.source[p.by][0]
  <2>1. v \in Int
    BY <1>1
  <2> HIDE DEF v
  <2>2. CellOf(p, v) \in Cells(p.temp)
    BY <2>1, CellOfIsACell DEF Proper
  <2> QED
    BY <2>2 DEF SourceCell, v
<1>3. p.temp # None => r.source[p.temp][SourceCell(r, p)] \in Int
  BY <1>2, RunsAre DEF Proper
<1> QED
  BY <1>2, <1>3 DEF SourceRead, Padding

LEMMA MemoryTyped ==
  ASSUME Allocated, NEW r \in Runs, NEW p, Proper(p)
  PROVE  /\ MemoryRead(r, p) \in Int
         /\ p.temp # None => MemorySlot(r, p) \in 0..(TempSize - 1) /\ MemorySlot(r, p) \in Slots(p.temp)
<1>0. size \in [Temps -> Nat]
  BY DEF Allocated, AnalysisInv, IInv, TypeOK
<1>1. p.by # None => r.memory[offset[p.by]] \in Int
  <2> SUFFICES ASSUME p.by # None PROVE r.memory[offset[p.by]] \in Int
    OBVIOUS
  <2>1. 0 \in Cells(p.by) /\ p.by \in Temps /\ size[p.by] > 0
    BY DEF Proper, Cells
  <2>2. offset[p.by] + 0 \in 0..(TempSize - 1) /\ offset[p.by] \in 0..TempSize
    BY <2>1, PlacedSlots
  <2>3. offset[p.by] \in 0..(TempSize - 1)
    BY <2>2, TempSizeAssumption
  <2> QED
    BY <2>3, RunsAre
<1>2. p.temp # None => MemorySlot(r, p) \in 0..(TempSize - 1) /\ MemorySlot(r, p) \in Slots(p.temp)
  <2> SUFFICES ASSUME p.temp # None PROVE MemorySlot(r, p) \in 0..(TempSize - 1) /\ MemorySlot(r, p) \in Slots(p.temp)
    OBVIOUS
  <2> DEFINE v == IF p.by = None THEN 0 ELSE r.memory[offset[p.by]]
  <2>1. v \in Int
    BY <1>1
  <2> HIDE DEF v
  <2>2. CellOf(p, v) \in Cells(p.temp) /\ p.temp \in Temps /\ size[p.temp] > 0
    BY <1>0, <2>1, CellOfIsACell DEF Proper
  <2>3. offset[p.temp] + CellOf(p, v) \in 0..(TempSize - 1) /\ offset[p.temp] + CellOf(p, v) \in Slots(p.temp)
    BY <2>2, PlacedSlots
  <2> QED
    BY <2>3 DEF MemorySlot, v
<1>3. p.temp # None => r.memory[MemorySlot(r, p)] \in Int
  BY <1>2, RunsAre
<1> QED
  BY <1>2, <1>3 DEF MemoryRead, Padding

(* A statement leaves two executions of the same shape.                    *)
LEMMA StatementTyped ==
  ASSUME Allocated, NEW r \in Runs, NEW b \in Blocks, NEW i \in DOMAIN given[b]
  PROVE  RunStatement(r, b, i) \in Runs
<1> DEFINE g == given[b][i]
           s == code[b][i]
           q == RunStatement(r, b, i)
<1>1. Proper(g.to) /\ Proper(g.from) /\ Proper(s.to) /\ Proper(s.from) /\ i \in Nat
  BY PlaceFits DEF Allocated, Proper
<1>0. size \in [Temps -> Nat]
  BY DEF Allocated, AnalysisInv, IInv, TypeOK
<1> HIDE DEF g, s
<1>2. Fresh(r, i) \in Int
  <2>1. \A x, y, z \in Int : x * y + z + 1 \in Int
    OBVIOUS
  <2>2. MaxSteps \in Nat /\ i \in Nat
    BY <1>1, BlocksAssumption
  <2>3. r.steps \in 0..MaxSteps
    BY RunsAre
  <2> QED
    BY <2>1, <2>2, <2>3 DEF Fresh
<1>3. Stored(r, g, i, SourceRead(r, g.from)) \in Int /\ Stored(r, g, i, MemoryRead(r, s.from)) \in Int
  BY <1>0, <1>1, <1>2, SourceTyped, MemoryTyped DEF Stored
<1>4. DOMAIN SourceAfter(r, b, i) = Temps /\ \A t \in Temps : SourceAfter(r, b, i)[t] \in [Cells(t) -> Int]
  <2>1. CASE ~ Stores(g)
    BY <2>1, RunsAre DEF SourceAfter, g
  <2>2. CASE Stores(g)
    <3>1. g.to.temp \in Temps /\ SourceCell(r, g.to) \in Cells(g.to.temp)
      BY <1>0, <1>1, <2>2, SourceTyped DEF Stores, Proper
    <3> DEFINE v == Stored(r, g, i, SourceRead(r, g.from))
               k == SourceCell(r, g.to)
               u == g.to.temp
    <3>2. v \in Int /\ u \in Temps /\ k \in Cells(u)
      BY <1>3, <3>1
    <3>3. SourceAfter(r, b, i) = [r.source EXCEPT ![u][k] = v]
      BY <2>2 DEF SourceAfter, g
    <3> HIDE DEF v, k, u
    <3>4. SourceAfter(r, b, i)[u] = [r.source[u] EXCEPT ![k] = v]
      BY <3>2, <3>3, RunsAre
    <3>5. [r.source[u] EXCEPT ![k] = v] \in [Cells(u) -> Int]
      BY <3>2, RunsAre
    <3>6. \A t \in Temps : t # u => SourceAfter(r, b, i)[t] = r.source[t]
      BY <3>2, <3>3, RunsAre
    <3>7. DOMAIN SourceAfter(r, b, i) = Temps
      BY <3>3, RunsAre
    <3> QED
      BY <3>4, <3>5, <3>6, <3>7, RunsAre
  <2> QED
    BY <2>1, <2>2
<1>5. MemoryAfter(r, b, i) \in [0..(TempSize - 1) -> Int]
  <2>1. CASE ~ Kept(b, i)
    BY <2>1, RunsAre DEF MemoryAfter
  <2>2. CASE Kept(b, i)
    <3>1. MemorySlot(r, s.to) \in 0..(TempSize - 1)
      BY <1>1, <2>2, MemoryTyped DEF Kept, Stores, s
    <3>2. MemoryAfter(r, b, i) = [r.memory EXCEPT ![MemorySlot(r, s.to)] = Stored(r, g, i, MemoryRead(r, s.from))]
      BY <2>2 DEF MemoryAfter, g, s
    <3> QED
      BY <1>3, <3>1, <3>2, RunsAre
  <2> QED
    BY <2>1, <2>2
<1>6. SameAfter(r, b, i) \in BOOLEAN
  BY RunsAre DEF SameAfter
<1>7. q = [block |-> r.block, steps |-> r.steps, source |-> SourceAfter(r, b, i),
           memory |-> MemoryAfter(r, b, i), same |-> SameAfter(r, b, i)]
  BY RunStatementIs
<1>8. SourceAfter(r, b, i) \in [Temps -> UNION {[Cells(t) -> Int] : t \in Temps}]
  <2> DEFINE S == SourceAfter(r, b, i)
  <2> HIDE DEF S
  <2>1. S = [t \in Temps |-> S[t]]
    BY RunsAre DEF SourceAfter, S
  <2> QED
    BY <1>4, <2>1 DEF S
<1> DEFINE S == SourceAfter(r, b, i)
           M == MemoryAfter(r, b, i)
           O == SameAfter(r, b, i)
           new == [block |-> r.block, steps |-> r.steps, source |-> S, memory |-> M, same |-> O]
<1>9. /\ S \in [Temps -> UNION {[Cells(t) -> Int] : t \in Temps}] /\ \A t \in Temps : S[t] \in [Cells(t) -> Int]
      /\ M \in [0..(TempSize - 1) -> Int] /\ O \in BOOLEAN
  BY <1>4, <1>5, <1>6, <1>8
<1> HIDE DEF S, M, O
<1>10. new \in Runs
  BY <1>9, RunsAre DEF Runs
<1> QED
  BY <1>7, <1>10 DEF S, M, O
(* A place and what it is called are the same cell, if what is needed to    *)
(* find it is there.                                                       *)
LEMMA SameCell ==
  ASSUME Allocated, NEW r \in Runs, NEW c \in Names, NEW p, Proper(p), p.temp # None,
         NEW need \in SUBSET Temps, NEW unset \in SUBSET Temps, Matches(r, need, unset, c),
         p.by # None => p.by \in need /\ r.source[p.by][0] # Undefined
  PROVE  /\ MemorySlot(r, CalledPlace(c, p)) = offset[c[p.temp]] + SourceCell(r, p)
         /\ CalledPlace(c, p).temp = c[p.temp]
<1>1. c \in [Temps -> Temps] /\ None \notin Temps
  BY TempsAssumption DEF Names, None
<1>2. /\ CalledPlace(c, p).temp = c[p.temp] /\ CalledPlace(c, p).at = p.at
      /\ CalledPlace(c, p).by = NameOf(c, p.by)
  BY DEF CalledPlace, NameOf
<1>3. size[c[p.temp]] = size[p.temp]
  BY DEF Names, Proper
<1>4. CASE p.by = None
  <2>1. CalledPlace(c, p).by = None
    BY <1>2, <1>4 DEF NameOf
  <2> QED
    BY <1>2, <1>3, <1>4, <2>1 DEF MemorySlot, SourceCell, CellOf
<1>5. CASE p.by # None
  <2>1. p.by \in Temps /\ 0 \in Cells(p.by)
    BY <1>5 DEF Proper, Cells
  <2>2. CalledPlace(c, p).by = c[p.by] /\ c[p.by] # None /\ c[p.by] \in Temps
    BY <1>1, <1>2, <1>5, <2>1 DEF NameOf
  <2>3. r.source[p.by][0] = r.memory[offset[c[p.by]] + 0]
    BY <1>5, <2>1 DEF Matches
  <2>4. size[c[p.by]] = 1
    BY <2>1, <1>5 DEF Names, Proper
  <2>5. offset[c[p.by]] \in 0..TempSize
    BY <2>2, <2>4, PlacedSlots
  <2>6. offset[c[p.by]] + 0 = offset[c[p.by]]
    BY <2>5, TempSizeAssumption
  <2> QED
    BY <1>2, <1>3, <1>5, <2>2, <2>3, <2>6 DEF MemorySlot, SourceCell, CellOf
<1> QED
  BY <1>2, <1>4, <1>5
LEMMA SameRead ==
  ASSUME Allocated, NEW r \in Runs, NEW c \in Names, NEW p, Proper(p),
         NEW need \in SUBSET Temps, NEW unset \in SUBSET Temps, Matches(r, need, unset, c),
         p.temp # None => p.temp \in need,
         p.by # None => p.by \in need /\ r.source[p.by][0] # Undefined
  PROVE  SourceRead(r, p) \in {Undefined, MemoryRead(r, CalledPlace(c, p))}
<1>1. c \in [Temps -> Temps] /\ None \notin Temps
  BY TempsAssumption DEF Names, None
<1>2. CASE p.temp = None
  <2>1. CalledPlace(c, p).temp = None
    BY <1>2 DEF CalledPlace, NameOf
  <2> QED
    BY <1>2, <2>1 DEF SourceRead, MemoryRead
<1>3. CASE p.temp # None
  <2>1. /\ MemorySlot(r, CalledPlace(c, p)) = offset[c[p.temp]] + SourceCell(r, p)
        /\ CalledPlace(c, p).temp = c[p.temp]
    BY <1>3, SameCell
  <2>2. SourceCell(r, p) \in Cells(p.temp)
    BY <1>3, SourceTyped DEF Allocated, AnalysisInv, IInv, TypeOK
  <2>3. c[p.temp] # None /\ p.temp \in need
    BY <1>1, <1>3 DEF Proper
  <2>4. r.source[p.temp][SourceCell(r, p)] \in {Undefined, r.memory[offset[c[p.temp]] + SourceCell(r, p)]}
    BY <2>2, <2>3 DEF Matches
  <2> QED
    BY <1>3, <2>1, <2>3, <2>4 DEF SourceRead, MemoryRead
<1> QED
  BY <1>2, <1>3
(* What a statement changes: one cell on either side.                      *)
LEMMA SourceChanges ==
  ASSUME size \in [Temps -> Nat], NEW r \in Runs, NEW b \in Blocks, NEW i, Proper(given[b][i].to),
         NEW t \in Temps, NEW k \in Cells(t)
  PROVE  LET g == given[b][i] IN
         SourceAfter(r, b, i)[t][k] = IF Stores(g) /\ t = g.to.temp /\ k = SourceCell(r, g.to)
                                      THEN Stored(r, g, i, SourceRead(r, g.from)) ELSE r.source[t][k]
<1> DEFINE g == given[b][i]
           u == g.to.temp
           j == SourceCell(r, g.to)
           v == Stored(r, g, i, SourceRead(r, g.from))
           S == SourceAfter(r, b, i)
<1>1. CASE ~ Stores(g)
  BY <1>1 DEF SourceAfter
<1>2. CASE Stores(g)
  <2>1. S = [r.source EXCEPT ![u][j] = v]
    BY <1>2 DEF SourceAfter
  <2>2. u \in Temps /\ j \in Cells(u)
    BY <1>2, SourceTyped DEF Stores, Proper
  <2>3. DOMAIN r.source = Temps /\ r.source[u] \in [Cells(u) -> Int]
    BY <2>2, RunsAre
  <2> HIDE DEF S, u, j, v
  <2>4. S[u] = [r.source[u] EXCEPT ![j] = v] /\ (t # u => S[t] = r.source[t])
    BY <2>1, <2>2, <2>3
  <2>5. S[t][k] = IF t = u /\ k = j THEN v ELSE r.source[t][k]
    BY <2>2, <2>3, <2>4
  <2> QED
    BY <1>2, <2>5 DEF S, u, j, v
<1> QED
  BY <1>1, <1>2

LEMMA MemoryChanges ==
  ASSUME NEW r \in Runs, NEW b \in Blocks, NEW i, NEW p \in 0..(TempSize - 1)
  PROVE  MemoryAfter(r, b, i)[p] =
           IF Kept(b, i) /\ p = MemorySlot(r, code[b][i].to)
           THEN Stored(r, given[b][i], i, MemoryRead(r, code[b][i].from)) ELSE r.memory[p]
<1> DEFINE q == MemorySlot(r, code[b][i].to)
           v == Stored(r, given[b][i], i, MemoryRead(r, code[b][i].from))
<1>1. MemoryAfter(r, b, i) = IF Kept(b, i) THEN [r.memory EXCEPT ![q] = v] ELSE r.memory
  BY DEF MemoryAfter
<1>2. r.memory \in [0..(TempSize - 1) -> Int]
  BY RunsAre
<1> HIDE DEF q, v
<1> QED
  BY <1>1, <1>2 DEF q, v

(* Both executions of a statement show the same and stay in step.          *)
LEMMA StatementMatches ==
  ASSUME Allocated, NEW r \in Runs, NEW b \in Blocks, NEW i \in DOMAIN given[b], NEW c \in Names,
         NEW before \in SUBSET Temps, NEW after \in SUBSET Temps,
         NEW unset \in SUBSET Temps, NEW unsetAfter \in SUBSET Temps,
         StatementSound(b, i, c, before, after, unset, unsetAfter),
         Matches(r, before, unset, c), Defined(r, given[b][i])
  PROVE  /\ Matches(RunStatement(r, b, i), after, unsetAfter, c)
         /\ r.same => RunStatement(r, b, i).same
<1> DEFINE g == given[b][i]
           s == code[b][i]
           q == RunStatement(r, b, i)
           S == SourceAfter(r, b, i)
           M == MemoryAfter(r, b, i)
           j == SourceCell(r, g.to)
           u == g.to.temp
<1>1. Proper(g.to) /\ Proper(g.from) /\ Proper(s.to) /\ Proper(s.from) /\ s \in Statements /\ g \in Statements
  BY PlaceFits DEF Allocated, Proper
<1>2. size \in [Temps -> Nat] /\ None \notin Temps /\ c \in [Temps -> Temps]
  BY TempsAssumption DEF Allocated, AnalysisInv, IInv, TypeOK, None, Names
<1>3. q.source = S /\ q.memory = M /\ q.same = SameAfter(r, b, i)
  BY RunStatementIs
<1>4. /\ Kept(b, i) \/ HasEffect(g) => s = Called(c, g)
      /\ HasEffect(g) \/ (Kept(b, i) /\ u \in after) => Uses(g) \cup IndexUse(g.to) \subseteq before
      /\ u \in after /\ ~ Kept(b, i) => g.from.temp \in before /\ WithinWeb(c, g)
      /\ after \ {u} \subseteq before
      /\ u \in after /\ IsArray(u) => u \in before \cup unset
      /\ unsetAfter \subseteq unset \ {u}
      /\ Kept(b, i) => \A t \in after \ {u} : Slots(c[t]) \cap Slots(c[u]) = {}
  BY DEF StatementSound
<1>5. ASSUME Uses(g) \cup IndexUse(g.to) \subseteq before
      PROVE  /\ SourceRead(r, g.from) \in {Undefined, MemoryRead(r, CalledPlace(c, g.from))}
             /\ g.to.by # None => g.to.by \in before /\ r.source[g.to.by][0] # Undefined
  <2>1. /\ g.from.temp # None => g.from.temp \in before
        /\ g.from.by # None => g.from.by \in before /\ r.source[g.from.by][0] # Undefined
        /\ g.to.by # None => g.to.by \in before /\ r.source[g.to.by][0] # Undefined
    BY <1>5 DEF Uses, IndexUse, Defined
  <2> HIDE DEF g
  <2> QED
    BY <1>1, <2>1, SameRead
<1>6. Called(c, g).to = CalledPlace(c, g.to) /\ Called(c, g).from = CalledPlace(c, g.from) /\ Called(c, g).op = g.op
  BY DEF Called
<1>7. r.same => q.same
  <2> SUFFICES ASSUME r.same, HasEffect(g)
               PROVE  /\ SourceRead(r, g.from) \in {Undefined, MemoryRead(r, s.from)}
                      /\ KeepsEffect(b, i)
    BY <1>3 DEF SameAfter
  <2> QED
    BY <1>4, <1>5, <1>6 DEF HasEffect, KeepsEffect
<1>8. ASSUME NEW t \in Temps, NEW k \in Cells(t)
      PROVE  S[t][k] = IF Stores(g) /\ t = u /\ k = j THEN Stored(r, g, i, SourceRead(r, g.from)) ELSE r.source[t][k]
  BY <1>1, <1>2, SourceChanges
<1>9. ASSUME NEW p \in 0..(TempSize - 1)
      PROVE  M[p] = IF Kept(b, i) /\ p = MemorySlot(r, s.to)
                    THEN Stored(r, g, i, MemoryRead(r, s.from)) ELSE r.memory[p]
  BY MemoryChanges
<1>10. ASSUME NEW t \in Temps, NEW k \in Cells(t)
       PROVE  /\ offset[c[t]] + k \in 0..(TempSize - 1) /\ offset[c[t]] + k \in Slots(c[t])
              /\ offset[c[t]] \in 0..TempSize /\ k \in Nat /\ c[t] \in Temps
  <2>1. c[t] \in Temps /\ size[c[t]] = size[t] /\ size[t] > 0 /\ k \in Cells(c[t]) /\ k \in Nat
    BY <1>2 DEF Names, Cells
  <2> QED
    BY <2>1, PlacedSlots
<1>11. \A t \in unsetAfter : \A k \in Cells(t) : S[t][k] = Undefined
  BY <1>4, <1>8 DEF Matches
<1> HIDE DEF g, s, S, M, q
<1>12. ASSUME NEW t \in after, NEW k \in Cells(t) PROVE S[t][k] \in {Undefined, M[offset[c[t]] + k]}
  <2>0. t \in Temps /\ t # None
    BY <1>2
  <2> DEFINE p == offset[c[t]] + k
  <2>1. CASE t # u
    <3>1. t \in before /\ S[t][k] = r.source[t][k]
      BY <1>4, <1>8, <2>0, <2>1
    <3>2. r.source[t][k] \in {Undefined, r.memory[p]}
      BY <3>1 DEF Matches
    <3>3. M[p] = r.memory[p]
      <4>1. p \in 0..(TempSize - 1) /\ p \in Slots(c[t])
        BY <1>10, <2>0
      <4>2. ASSUME Kept(b, i) PROVE p # MemorySlot(r, s.to)
        <5>1. s.to.temp # None /\ s = Called(c, g)
          BY <1>4, <4>2 DEF Kept, Stores, s
        <5>2. s.to.temp = c[u]
          BY <1>6, <5>1 DEF CalledPlace, NameOf, u
        <5>3. MemorySlot(r, s.to) \in Slots(c[u])
          BY <1>1, <5>1, <5>2, MemoryTyped
        <5> QED
          BY <1>4, <2>1, <4>1, <4>2, <5>3
      <4> QED
        BY <1>9, <4>1, <4>2
    <3> QED
      BY <3>1, <3>2, <3>3
  <2>2. CASE t = u /\ Kept(b, i)
    <3>1. s = Called(c, g) /\ Uses(g) \cup IndexUse(g.to) \subseteq before /\ Stores(g)
      BY <1>4, <2>0, <2>2 DEF Stores, u
    <3>2. MemorySlot(r, s.to) = offset[c[u]] + j
      <4>1. g.to.temp # None
        BY <3>1 DEF Stores
      <4>2. g.to.by # None => g.to.by \in before /\ r.source[g.to.by][0] # Undefined
        BY <1>5, <3>1
      <4>3. MemorySlot(r, CalledPlace(c, g.to)) = offset[c[g.to.temp]] + SourceCell(r, g.to)
        BY <1>1, <4>1, <4>2, SameCell
      <4> QED
        BY <1>6, <3>1, <4>3
    <3>3. j \in Cells(u)
      BY <1>1, <1>2, <3>1, SourceTyped DEF Stores
    <3>4. CASE k = j
      <4>1. S[t][k] = Stored(r, g, i, SourceRead(r, g.from))
        BY <1>8, <2>0, <2>2, <3>1, <3>4
      <4>2. M[p] = Stored(r, g, i, MemoryRead(r, s.from))
        BY <1>9, <1>10, <2>0, <2>2, <3>2, <3>4
      <4>3. SourceRead(r, g.from) \in {Undefined, MemoryRead(r, s.from)}
        BY <1>5, <1>6, <3>1
      <4> QED
        BY <4>1, <4>2, <4>3 DEF Stored
    <3>5. CASE k # j
      <4>1. S[t][k] = r.source[t][k]
        BY <1>8, <2>0, <3>5
      <4>2. M[p] = r.memory[p]
        <5>1. p # MemorySlot(r, s.to)
          BY <1>10, <2>0, <2>2, <3>2, <3>3, <3>5, TempSizeAssumption DEF Cells
        <5> QED
          BY <1>9, <1>10, <2>0, <5>1
      <4>3. IsArray(u)
        BY <1>2, <2>0, <2>2, <3>3, <3>5 DEF IsArray, Cells
      <4> QED
        BY <1>4, <2>2, <4>1, <4>2, <4>3 DEF Matches
    <3> QED
      BY <3>4, <3>5
  <2>3. CASE t = u /\ ~ Kept(b, i)
    <3>1. g.from.temp \in before /\ WithinWeb(c, g) /\ Stores(g)
      BY <1>4, <2>0, <2>3 DEF Stores, u
    <3>2. M[p] = r.memory[p]
      BY <1>9, <1>10, <2>0, <2>3
    <3>3. g.op = "get" /\ g.from.temp # None /\ c[g.from.temp] = c[u]
      BY <3>1 DEF WithinWeb, u
    <3>4. Stored(r, g, i, SourceRead(r, g.from)) = r.source[g.from.temp][SourceCell(r, g.from)]
      BY <3>3 DEF Stored, SourceRead
    <3>5. CASE g.from = g.to
      <4>1. S[t][k] = r.source[t][k]
        BY <1>8, <2>0, <2>3, <3>4, <3>5
      <4>2. t \in before
        BY <2>3, <3>1, <3>5
      <4> QED
        BY <3>2, <4>1, <4>2 DEF Matches
    <3>6. CASE size[g.from.temp] = 1 /\ size[u] = 1
      <4>1. j \in Cells(u) /\ SourceCell(r, g.from) \in Cells(g.from.temp)
        BY <1>1, <1>2, <3>1, <3>3, SourceTyped DEF Stores
      <4>2. k = 0 /\ j = 0 /\ SourceCell(r, g.from) = 0 /\ 0 \in Cells(g.from.temp)
        BY <2>3, <3>6, <4>1 DEF Cells
      <4>3. S[t][k] = r.source[g.from.temp][0]
        BY <1>8, <2>0, <2>3, <3>1, <3>4, <4>2
      <4>4. r.source[g.from.temp][0] \in {Undefined, r.memory[offset[c[g.from.temp]] + 0]}
        BY <3>1, <4>2 DEF Matches
      <4> QED
        BY <2>3, <3>2, <3>3, <4>2, <4>3, <4>4
    <3> QED
      BY <3>1, <3>5, <3>6 DEF WithinWeb, u
  <2> QED
    BY <2>1, <2>2, <2>3
<1> QED
  BY <1>3, <1>7, <1>11, <1>12 DEF Matches, q
-----------------------------------------------------------------------------
(* One block.                                                              *)

\* A statement of a program that may be undefined.
Step(q, b, i) ==
  IF q.block = None THEN q
  ELSE IF Defined(q, given[b][i]) THEN RunStatement(q, b, i) ELSE [q EXCEPT !.block = None]

LEMMA StoppedRun ==
  ASSUME NEW q \in Runs
  PROVE  LET e == [q EXCEPT !.block = None] IN e \in Runs /\ e.block = None /\ e.steps = q.steps /\ e.same = q.same
<1> DEFINE e == [q EXCEPT !.block = None]
<1>1. e = [block |-> None, steps |-> q.steps, source |-> q.source, memory |-> q.memory, same |-> q.same]
  <2>1. DOMAIN q = {"block", "steps", "source", "memory", "same"}
    BY DEF Runs
  <2>2. /\ e = [f \in {"block", "steps", "source", "memory", "same"} |-> e[f]]
        /\ e.block = None /\ e.steps = q.steps /\ e.source = q.source /\ e.memory = q.memory /\ e.same = q.same
    BY <2>1
  <2> HIDE DEF e
  <2> QED
    BY <2>2
<1>2. e \in Runs
  <2> HIDE DEF e
  <2> QED
    BY <1>1 DEF Runs
<1> QED
  BY <1>1, <1>2

LEMMA StepTyped ==
  ASSUME Allocated, NEW b \in Blocks, NEW i \in DOMAIN given[b], NEW q \in Runs
  PROVE  Step(q, b, i) \in Runs
BY StatementTyped, StoppedRun DEF Step

(* What every statement keeps, the block keeps.                            *)
LEMMA BlockInduction ==
  ASSUME Allocated, NEW b \in Blocks, NEW r \in Runs,
         NEW P \in [0..Len(code[b]) -> SUBSET Runs], r \in P[0],
         \A i \in 1..Len(code[b]) : \A q \in P[i - 1] : Step(q, b, i) \in P[i]
  PROVE  RunBlock(r, b) \subseteq P[Len(code[b])]
<1> DEFINE n == Len(code[b])
           X == SUBSET Runs
           F == [i \in 1..n |-> [Q \in X |-> {Step(q, b, i) : q \in Q}]]
           Is(f) == f = [i \in 0..n |-> IF i = 0 THEN {r} ELSE {Step(q, b, i) : q \in f[i - 1]}]
<1>1. n \in Nat /\ DOMAIN given[b] = 1..n
  BY DEF Allocated, AnalysisInv, Typed, CodeOK
<1>2. F \in [1..n -> [X -> X]]
  BY <1>1, StepTyped
<1>3. {r} \in X
  OBVIOUS
<1> HIDE DEF n, X, F
<1>4. PICK g \in [0..n -> X] : g[0] = {r} /\ \A i \in 1..n : g[i] = F[i][g[i - 1]]
  <2>1. PICK g : Follows(g, n, X, {r}, F)
    BY <1>1, <1>2, <1>3, Recursion
  <2> QED
    BY <2>1 DEF Follows
<1>5. ASSUME NEW i \in 1..n PROVE g[i] = {Step(q, b, i) : q \in g[i - 1]}
  <2>1. g[i - 1] \in X
    <3>1. i - 1 \in 0..n
      BY <1>1
    <3> QED
      BY <1>4, <3>1
  <2> QED
    BY <1>4, <2>1 DEF F
<1>6. Is(g)
  <2>1. g = [i \in 0..n |-> g[i]]
    BY <1>4
  <2>2. ASSUME NEW i \in 0..n PROVE g[i] = IF i = 0 THEN {r} ELSE {Step(q, b, i) : q \in g[i - 1]}
    <3>1. i # 0 => i \in 1..n
      BY <1>1
    <3> QED
      BY <1>4, <1>5, <3>1
  <2> QED
    BY <2>1, <2>2
<1> DEFINE h == CHOOSE f : Is(f)
<1>7. Is(h)
  <2> HIDE DEF Is
  <2> QED
    BY <1>6
<1>8. RunBlock(r, b) = h[n]
  BY DEF RunBlock, Step, n
<1> HIDE DEF h
<1>9. h[0] = {r} /\ \A i \in 1..n : h[i] = {Step(q, b, i) : q \in h[i - 1]}
  <2>1. 0 \in 0..n /\ \A i \in 1..n : i \in 0..n /\ i # 0
    BY <1>1
  <2> QED
    BY <1>7, <2>1
<1> DEFINE S == {m \in Nat : m <= n => h[m] \subseteq P[m]}
<1>10. S = Nat
  <2>1. 0 \in S
    BY <1>9
  <2>2. ASSUME NEW m \in S PROVE m + 1 \in S
    <3>1. m \in Nat /\ m + 1 \in Nat
      OBVIOUS
    <3>2. ASSUME m + 1 <= n PROVE h[m + 1] \subseteq P[m + 1]
      <4>1. m <= n /\ m + 1 \in 1..n /\ (m + 1) - 1 = m
        BY <1>1, <3>1, <3>2
      <4>2. h[m] \subseteq P[m]
        BY <3>1, <4>1
      <4>3. h[m + 1] = {Step(q, b, m + 1) : q \in h[m]}
        BY <1>9, <4>1
      <4>4. \A q \in P[m] : Step(q, b, m + 1) \in P[m + 1]
        BY <4>1 DEF n
      <4> QED
        BY <4>2, <4>3, <4>4
    <3> QED
      BY <3>1, <3>2
  <2> HIDE DEF S
  <2>3. S \in SUBSET Nat
    BY DEF S
  <2> QED
    BY <2>1, <2>2, <2>3, NaturalInduction
<1>11. h[n] \subseteq P[n]
  <2>1. n \in S
    BY <1>1, <1>10
  <2> QED
    BY <1>1, <2>1
<1> QED
  BY <1>8, <1>11 DEF n
LEMMA BlockMatches ==
  ASSUME Allocated, NEW b \in Blocks, NEW r \in Runs, r.block = b, r.same, NEW c \in Names,
         NEW need \in Tables, NEW unset \in Tables,
         \A i \in DOMAIN given[b] :
           StatementSound(b, i, c, need[b][i - 1], need[b][i], unset[b][i - 1], unset[b][i]),
         Matches(r, need[b][0], unset[b][0], c)
  PROVE  \A q \in RunBlock(r, b) :
           /\ q \in Runs /\ q.steps = r.steps /\ q.same
           /\ q.block # None =>
                q.block = b /\ Matches(q, need[b][Len(given[b])], unset[b][Len(given[b])], c)
<1> DEFINE n == Len(code[b])
           Good(q, i) == /\ q.steps = r.steps /\ q.same
                         /\ q.block # None => q.block = b /\ Matches(q, need[b][i], unset[b][i], c)
           P == [i \in 0..n |-> {q \in Runs : Good(q, i)}]
<1>1. n \in Nat /\ DOMAIN given[b] = 1..n /\ Len(given[b]) = n
  BY DEF Allocated, AnalysisInv, Typed, CodeOK
<1>2. r \in P[0]
  BY <1>1
<1>3. ASSUME NEW i \in 1..n, NEW q \in Runs, Good(q, i - 1) PROVE Step(q, b, i) \in Runs /\ Good(Step(q, b, i), i)
  <2>1. i \in DOMAIN given[b] /\ i \in Nat /\ i - 1 \in Nat
    BY <1>1
  <2>2. Step(q, b, i) \in Runs
    BY <2>1, StepTyped
  <2>3. CASE q.block = None
    BY <1>3, <2>3, <2>2 DEF Step
  <2>4. CASE q.block # None /\ ~ Defined(q, given[b][i])
    BY <1>3, <2>2, <2>4, StoppedRun DEF Step
  <2>5. CASE q.block # None /\ Defined(q, given[b][i])
    <3>1. Step(q, b, i) = RunStatement(q, b, i)
      BY <2>5 DEF Step
    <3>2. /\ need[b][i - 1] \in SUBSET Temps /\ need[b][i] \in SUBSET Temps
          /\ unset[b][i - 1] \in SUBSET Temps /\ unset[b][i] \in SUBSET Temps
      BY <2>1 DEF Tables
    <3>3. Matches(q, need[b][i - 1], unset[b][i - 1], c) /\ q.block = b /\ q.same /\ q.steps = r.steps
      BY <1>3, <2>5
    <3>4. Matches(RunStatement(q, b, i), need[b][i], unset[b][i], c) /\ RunStatement(q, b, i).same
      BY <2>1, <2>5, <3>2, <3>3, StatementMatches
    <3>5. RunStatement(q, b, i).block = b /\ RunStatement(q, b, i).steps = r.steps
      BY <3>3, RunStatementIs
    <3> QED
      BY <2>2, <3>1, <3>4, <3>5
  <2> QED
    BY <2>3, <2>4, <2>5
<1> HIDE DEF Good
<1>4. \A i \in 1..n : \A q \in P[i - 1] : Step(q, b, i) \in P[i]
  <2> SUFFICES ASSUME NEW i \in 1..n, NEW q \in P[i - 1] PROVE Step(q, b, i) \in P[i]
    OBVIOUS
  <2>1. i - 1 \in 0..n /\ i \in 0..n
    BY <1>1
  <2>2. q \in Runs /\ Good(q, i - 1)
    BY <2>1
  <2> QED
    BY <1>3, <2>1, <2>2
<1>5. P \in [0..n -> SUBSET Runs]
  OBVIOUS
<1>6. n \in 0..n
  BY <1>1
<1> HIDE DEF P
<1>7. RunBlock(r, b) \subseteq P[n]
  BY <1>2, <1>4, <1>5, BlockInduction
<1>8. \A q \in P[n] : q \in Runs /\ Good(q, n)
  BY <1>6 DEF P
<1> QED
  BY <1>1, <1>7, <1>8 DEF Good
-----------------------------------------------------------------------------
(* The program.                                                            *)

RunInv ==
  phase = "run" =>
    /\ Allocated /\ run \in Runs /\ run.same
    /\ \E V \in SUBSET Blocks, need \in Tables, unset \in Tables, c \in Names :
         /\ Sound(V, need, unset, c)
         /\ run.block # None =>
              run.block \in V /\ Matches(run, need[run.block][0], unset[run.block][0], c)

(* Control passes to a block where what is needed is still in its slots.   *)
LEMMA MatchesAtEdge ==
  ASSUME NEW V \in SUBSET Blocks, NEW need \in Tables, NEW unset \in Tables, NEW c,
         Flowing(given, V, need, unset), NEW b \in V, NEW d \in ToSet(succs[b]), NEW r,
         Matches(r, need[b][Len(given[b])], unset[b][Len(given[b])], c)
  PROVE  d \in V /\ Matches(r, need[d][0], unset[d][0], c)
<1>1. /\ d \in V /\ need[d][0] \subseteq need[b][Len(given[b])] \cup unset[b][Len(given[b])]
      /\ unset[d][0] \subseteq unset[b][Len(given[b])]
  BY DEF Flowing
<1> QED
  BY <1>1 DEF Matches

LEMMA RunKeepsRunInv == RunInv /\ AnalysisInv' /\ Run => RunInv'
<1> SUFFICES ASSUME RunInv, AnalysisInv', Run PROVE RunInv'
  OBVIOUS
<1>1. /\ phase = "run" /\ phase' = "run" /\ run.block # None /\ run.steps < MaxSteps
      /\ UNCHANGED <<given, merge, succs, code, analysis, placement>>
  BY DEF Run
<1>2. UNCHANGED <<given, succs, code, rootLive, size, adj, mode, todo, index, offset, exceeded>>
  BY <1>1 DEF analysis, placement, vars
<1>3. PICK V \in SUBSET Blocks, need \in Tables, unset \in Tables, c \in Names :
         /\ Sound(V, need, unset, c)
         /\ run.block \in V /\ Matches(run, need[run.block][0], unset[run.block][0], c)
  BY <1>1 DEF RunInv
<1>4. Allocated /\ run \in Runs /\ run.same
  BY <1>1 DEF RunInv
<1>5. PICK r \in RunBlock(run, run.block) :
        LET next == IF r.block = None \/ succs[r.block] = <<>> THEN {None} ELSE ToSet(succs[r.block])
        IN  \E b \in next : run' = [r EXCEPT !.block = b, !.steps = @ + 1]
  BY DEF Run
<1>6. PICK d \in IF r.block = None \/ succs[r.block] = <<>> THEN {None} ELSE ToSet(succs[r.block]) :
        run' = [r EXCEPT !.block = d, !.steps = @ + 1]
  BY <1>5
<1>7. /\ r \in Runs /\ r.steps = run.steps /\ r.same
      /\ r.block # None =>
           r.block = run.block /\ Matches(r, need[run.block][Len(given[run.block])], unset[run.block][Len(given[run.block])], c)
  <2>1. /\ \A i \in DOMAIN given[run.block] :
             StatementSound(run.block, i, c, need[run.block][i - 1], need[run.block][i],
                            unset[run.block][i - 1], unset[run.block][i])
    BY <1>3 DEF Sound
  <2> QED
    BY <1>3, <1>4, <1>5, <2>1, BlockMatches
<1>8. d = None \/ (r.block # None /\ d \in ToSet(succs[run.block]))
  BY <1>6, <1>7
<1>9. succs \in [Blocks -> Seq(Blocks)]
  BY <1>4 DEF Allocated, AnalysisInv, Typed
<1>10. d # None => d \in V /\ d \in Blocks /\ Matches(r, need[d][0], unset[d][0], c)
  <2> SUFFICES ASSUME d # None PROVE d \in V /\ Matches(r, need[d][0], unset[d][0], c)
    OBVIOUS
  <2>1. Flowing(given, V, need, unset)
    BY <1>3 DEF Sound
  <2> QED
    BY <1>3, <1>7, <1>8, <2>1, MatchesAtEdge
<1>11. run' = [block |-> d, steps |-> r.steps + 1, source |-> r.source, memory |-> r.memory, same |-> r.same]
  <2> DEFINE e == [r EXCEPT !.block = d, !.steps = @ + 1]
  <2>1. DOMAIN r = {"block", "steps", "source", "memory", "same"}
    BY <1>7 DEF Runs
  <2>2. /\ e = [f \in {"block", "steps", "source", "memory", "same"} |-> e[f]]
        /\ e.block = d /\ e.steps = r.steps + 1 /\ e.source = r.source /\ e.memory = r.memory /\ e.same = r.same
    BY <2>1
  <2>3. run' = e
    BY <1>6
  <2> HIDE DEF e
  <2> QED
    BY <2>2, <2>3
<1>12. /\ run'.block = d /\ run'.steps = r.steps + 1 /\ run'.source = r.source /\ run'.memory = r.memory
       /\ run'.same = r.same
  BY <1>11
<1>13. run' \in Runs'
  <2>1. r.steps + 1 \in 0..MaxSteps
    BY <1>1, <1>7, BlocksAssumption DEF Runs
  <2>2. d \in Blocks \cup {None}
    BY <1>10
  <2>3. run' \in Runs
    BY <1>7, <1>11, <2>1, <2>2 DEF Runs
  <2> QED
    BY <1>2, <2>3 DEF Runs, Cells
<1>14. Allocated'
  BY <1>2, <1>4 DEF Allocated
<1>15. Sound(V, need, unset, c)' /\ c \in Names'
  <2>1. Written' = Written
    BY <1>2 DEF Written, IsArray
  <2>2. \A b, i, bef, aft, u, v : StatementSound(b, i, c, bef, aft, u, v)' = StatementSound(b, i, c, bef, aft, u, v)
    BY <1>2 DEF StatementSound, Kept, Dead, WithinWeb, IsArray, Slots
  <2> QED
    BY <1>2, <1>3, <2>1, <2>2 DEF Sound, Flowing, Names
<1>16. run'.block # None => run'.block \in V /\ Matches(run, need[run.block][0], unset[run.block][0], c)'
  <2> SUFFICES ASSUME d # None PROVE d \in V /\ Matches(run, need[run.block][0], unset[run.block][0], c)'
    BY <1>12
  <2>1. Matches(r, need[d][0], unset[d][0], c)
    BY <1>10
  <2> QED
    BY <1>2, <1>10, <1>12, <2>1 DEF Matches, Cells
<1> QED
  <2>1. run'.same
    BY <1>7, <1>12
  <2> QED
    BY <1>3, <1>13, <1>14, <1>15, <1>16, <2>1 DEF RunInv
-----------------------------------------------------------------------------
(* What is needed, as liveness has it.                                     *)

NeedTable == [b \in Blocks |-> [i \in Nat |-> IF i \in 0..Len(code[b]) THEN LiveAfters(b, liveOut[b])[i] ELSE {}]]
UnsetTable == [b \in Blocks |-> [i \in Nat |-> IF i \in 0..Len(code[b]) THEN Written \ DefsAfter(b, i, defsIn[b]) ELSE {}]]

LEMMA LivenessTables ==
  ASSUME AnalysisInv
  PROVE  /\ NeedTable \in Tables /\ UnsetTable \in Tables /\ WrittenIn(code) = Written
         /\ \A b \in Blocks : \A i \in 0..Len(code[b]) :
              /\ NeedTable[b][i] = LiveAfters(b, liveOut[b])[i]
              /\ UnsetTable[b][i] = Written \ DefsAfter(b, i, defsIn[b])
<1> USE DEF AnalysisInv, Typed
<1>1. ASSUME NEW b \in Blocks
      PROVE  /\ Len(code[b]) \in Nat /\ code[b] \in Seq(Statements)
             /\ LiveAfters(b, liveOut[b]) \in [0..Len(code[b]) -> SUBSET Temps]
  BY LiveAftersIs DEF CodeOK
<1>2. Written \subseteq Temps
  BY DEF Written
<1>3. WrittenIn(code) = Written
  <2> SUFFICES ASSUME NEW t \in Temps, NEW b \in Blocks
               PROVE  (\E s \in ToSet(code[b]) : s.to.temp = t) <=> (\E i \in DOMAIN code[b] : code[b][i].to.temp = t)
    BY DEF WrittenIn, Written
  <2> QED
    BY DEF ToSet
<1>4. NeedTable \in Tables
  BY <1>1 DEF NeedTable, Tables
<1>5. UnsetTable \in Tables
  BY <1>2 DEF UnsetTable, Tables
<1>6. \A b \in Blocks : \A i \in 0..Len(code[b]) : i \in Nat
  BY <1>1
<1> QED
  BY <1>3, <1>4, <1>5, <1>6 DEF NeedTable, UnsetTable

LEMMA ArraysAfterStatement ==
  ASSUME NEW b \in Blocks, CodeOK, NEW i \in DOMAIN code[b], NEW acc
  PROVE  LET t == code[b][i].to.temp IN
         /\ DefsAfter(b, i - 1, acc) \subseteq DefsAfter(b, i, acc)
         /\ t \in Temps /\ IsArray(t) => t \in DefsAfter(b, i, acc)
<1>1. i \in Nat /\ i - 1 \in Int /\ i \in 1..i
  BY DEF CodeOK
<1>2. \A k \in 1..(i - 1) : k \in 1..i
  BY <1>1
<1> QED
  BY <1>1, <1>2 DEF DefsAfter

(* The program is covered by its own liveness.                             *)
LEMMA LivenessCovers ==
  ASSUME AnalysisInv, Analysed, stack = <<>>
  PROVE  \E V \in SUBSET Blocks : Covers(code, V, NeedTable, UnsetTable)
<1> USE DEF AnalysisInv, Typed
<1>1. PICK V \in SUBSET Blocks : Reached(V)
  BY DEF ReachedInv
<1>2. \A b \in Blocks : LivesOf(b)
  <2>1. ToSet(stack) = {}
    BY DEF ToSet
  <2> QED
    BY <2>1 DEF BackwardInv
<1>3. ASSUME NEW b \in V
      PROVE  /\ Len(code[b]) \in Nat /\ code[b] \in Seq(Statements) /\ DOMAIN code[b] = 1..Len(code[b])
             /\ LiveAfters(b, liveOut[b]) \in [0..Len(code[b]) -> SUBSET Temps]
             /\ LiveAfters(b, liveOut[b])[Len(code[b])] = LiveAtEnd(b, liveOut[b])
             /\ \A i \in 1..Len(code[b]) :
                  LiveAfters(b, liveOut[b])[i - 1] = LiveBefore(b, i, LiveAfters(b, liveOut[b])[i])
  BY LiveAftersIs DEF CodeOK
<1>4. Flowing(code, V, NeedTable, UnsetTable)
  <2> SUFFICES ASSUME NEW b \in V, NEW d \in ToSet(succs[b])
               PROVE  /\ d \in V /\ NeedTable[d][0] \subseteq NeedTable[b][Len(code[b])] \cup UnsetTable[b][Len(code[b])]
                      /\ UnsetTable[d][0] \subseteq UnsetTable[b][Len(code[b])]
    BY <1>1 DEF Flowing, Reached
  <2>1. d \in V /\ defsOut[b] \subseteq defsIn[d] /\ d \in Blocks
    BY <1>1 DEF Reached
  <2>2. b \in Preds(d)
    BY DEF Preds
  <2>3. NeedTable[d][0] = liveIn[d] /\ liveIn[d] \subseteq liveOut[b]
    <3>1. 0 \in 0..Len(code[d])
      BY <1>3, <2>1
    <3> QED
      BY <1>2, <2>1, <2>2, <3>1, LivenessTables DEF LivesOf, LiveAtStart
  <2>4. Len(code[b]) \in 0..Len(code[b]) /\ 0 \in 0..Len(code[d])
    BY <1>3, <2>1
  <2>5. NeedTable[b][Len(code[b])] = liveOut[b] \ (Written \ defsOut[b])
    BY <1>3, <2>4, LivenessTables DEF LiveAtEnd
  <2>6. UnsetTable[b][Len(code[b])] = Written \ defsOut[b]
    <3>1. UnsetTable[b][Len(code[b])] = Written \ DefsAfter(b, Len(code[b]), defsIn[b])
      BY <2>4, LivenessTables
    <3>2. defsOut[b] = DefsAfter(b, Len(code[b]), defsIn[b])
      BY <1>1 DEF Reached, ArraysOf
    <3> QED
      BY <3>1, <3>2
  <2>7. UnsetTable[d][0] = Written \ DefsAfter(d, 0, defsIn[d])
    BY <2>1, <2>4, LivenessTables
  <2>8. defsIn[d] \subseteq DefsAfter(d, 0, defsIn[d])
    BY DEF DefsAfter
  <2> QED
    BY <2>1, <2>3, <2>5, <2>6, <2>7, <2>8
<1>5. ASSUME NEW b \in V, NEW i \in DOMAIN code[b]
      PROVE  StatementCovered(code[b][i], NeedTable[b][i - 1], NeedTable[b][i], UnsetTable[b][i - 1], UnsetTable[b][i])
  <2> DEFINE s == code[b][i]
             t == s.to.temp
             live == LiveAfters(b, liveOut[b])[i]
             A == DefsAfter(b, i - 1, defsIn[b])
             B == DefsAfter(b, i, defsIn[b])
  <2>1. i \in 0..Len(code[b]) /\ i - 1 \in 0..Len(code[b]) /\ i \in 1..Len(code[b])
    BY <1>3
  <2>2. /\ NeedTable[b][i] = live /\ NeedTable[b][i - 1] = LiveBefore(b, i, live)
        /\ UnsetTable[b][i] = Written \ B /\ UnsetTable[b][i - 1] = Written \ A
    BY <1>3, <2>1, LivenessTables
  <2>3. live \subseteq Temps /\ None \notin Temps
    BY <1>3, <2>1, TempsAssumption DEF None
  <2>4. t \in Temps /\ IsArray(t) => t \in Written
    BY <2>1 DEF Written, ToSet
  <2>5. A \subseteq B /\ (t \in Temps /\ IsArray(t) => t \in B)
    BY ArraysAfterStatement
  <2>6. Written \ B \subseteq (Written \ A) \ {t}
    BY <2>5 DEF Written
  <2>7. CASE Skipped(s, live)
    BY <2>2, <2>3, <2>6, <2>7 DEF Skipped, LiveBefore, StatementCovered, Stores
  <2>8. CASE ~ Skipped(s, live)
    <3>1. LiveBefore(b, i, live) = (live \ Killed(b, i)) \cup IndexUse(s.to) \cup Uses(s)
      BY <2>8 DEF LiveBefore
    <3>2. Killed(b, i) \subseteq {t}
      BY DEF Killed
    <3>3. ASSUME t \in live, IsArray(t), t \in Killed(b, i) PROVE t \in Written \ A
      <4>1. <<b, i>> \in init
        BY <3>3 DEF Killed
      <4>2. i \in FirstWrites(b, defsIn[b])
        BY <1>1, <4>1 DEF Reached, ArraysOf
      <4> QED
        BY <2>3, <2>4, <3>3, <4>2 DEF FirstWrites
    <3> QED
      BY <2>2, <2>6, <3>1, <3>2, <3>3 DEF StatementCovered
  <2> QED
    BY <2>7, <2>8
<1>6. \A b \in V : \A i \in 0..Len(code[b]) : UnsetTable[b][i] \subseteq WrittenIn(code)
  BY LivenessTables
<1> QED
  BY <1>4, <1>5, <1>6 DEF Covers
-----------------------------------------------------------------------------
(* What merging does.                                                      *)

\* Merging renames a statement; a copy within a web goes.
Becomes(c, g, s) ==
  \/ s = Called(c, g)
  \/ IsCopy(g) /\ c[g.to.temp] = c[g.from.temp] /\ ~ Stores(s) /\ ~ HasEffect(s)

\* What is needed after a store is not called like its target.
Unclashed(g, c, after) == Stores(g) => \A u \in after \ {g.to.temp} : c[u] # c[g.to.temp]

NamesInv ==
  ~ merge =>
    \E V \in SUBSET Blocks, need \in Tables, unset \in Tables, c \in Names :
      /\ Covers(given, V, need, unset)
      /\ \A b \in Blocks : \A i \in DOMAIN given[b] : Becomes(c, given[b][i], code[b][i])
      /\ \A b \in V : \A i \in DOMAIN given[b] : Unclashed(given[b][i], c, need[b][i])

LEMMA SameNames ==
  ASSUME NEW c, NEW g \in Statements, c \in [Temps -> Temps], \A t \in Temps : c[t] = t
  PROVE  Called(c, g) = g
<1>1. \A t \in Temps \cup {None} : NameOf(c, t) = t
  BY DEF NameOf
<1>2. ASSUME NEW p \in Places PROVE CalledPlace(c, p) = p
  <2>1. CalledPlace(c, p) = [temp |-> p.temp, at |-> p.at, by |-> p.by]
    BY <1>1 DEF CalledPlace, Places
  <2> QED
    BY <2>1 DEF Places
<1>3. CalledPlace(c, g.to) = g.to /\ CalledPlace(c, g.from) = g.from
  BY <1>2 DEF Statements
<1>4. Called(c, g) = [to |-> g.to, op |-> g.op, from |-> g.from]
  BY <1>3 DEF Called
<1> QED
  BY <1>4 DEF Statements

(* Every program is covered if everything is needed.                       *)
LEMMA AllNeeded ==
  ASSUME AnalysisInv
  PROVE  \E need \in Tables, unset \in Tables :
           /\ Covers(code, Blocks, need, unset)
           /\ \A b \in Blocks : \A i \in 0..Len(code[b]) : unset[b][i] = {}
<1> DEFINE need == [b \in Blocks |-> [i \in Nat |-> Temps]]
           unset == [b \in Blocks |-> [i \in Nat |-> {}]]
<1>1. succs \in [Blocks -> Seq(Blocks)] /\ code \in [Blocks -> Seq(Statements)]
  BY DEF AnalysisInv, Typed, CodeOK
<1>2. need \in Tables /\ unset \in Tables
  BY DEF Tables
<1>3. \A b \in Blocks : \A i \in 0..Len(code[b]) : i \in Nat /\ need[b][i] = Temps /\ unset[b][i] = {}
  BY <1>1
<1>4. \A b \in Blocks : Len(code[b]) \in Nat /\ DOMAIN code[b] = 1..Len(code[b]) /\ 0 \in 0..Len(code[b])
  BY <1>1
<1>5. ASSUME NEW b \in Blocks, NEW i \in DOMAIN code[b]
      PROVE  /\ Uses(code[b][i]) \cup IndexUse(code[b][i].to) \subseteq Temps
             /\ i \in 0..Len(code[b]) /\ i - 1 \in 0..Len(code[b])
  BY <1>1, <1>4, StatementType DEF AnalysisInv, Typed
<1> HIDE DEF need, unset
<1>6. 1 \in Blocks
  BY BlocksAssumption DEF Blocks
<1>7. Flowing(code, Blocks, need, unset)
  <2> SUFFICES ASSUME NEW b \in Blocks, NEW d \in ToSet(succs[b])
               PROVE  /\ d \in Blocks /\ need[d][0] \subseteq need[b][Len(code[b])] \cup unset[b][Len(code[b])]
                      /\ unset[d][0] \subseteq unset[b][Len(code[b])]
    BY <1>6 DEF Flowing
  <2>1. d \in Blocks
    BY <1>1 DEF ToSet
  <2>2. Len(code[b]) \in 0..Len(code[b])
    BY <1>4
  <2> QED
    BY <1>3, <1>4, <2>1, <2>2
<1>8. ASSUME NEW b \in Blocks, NEW i \in DOMAIN code[b]
      PROVE  StatementCovered(code[b][i], need[b][i - 1], need[b][i], unset[b][i - 1], unset[b][i])
  <2>1. need[b][i - 1] = Temps /\ need[b][i] = Temps /\ unset[b][i - 1] = {} /\ unset[b][i] = {}
    BY <1>3, <1>5
  <2> QED
    BY <1>5, <2>1 DEF StatementCovered
<1>9. Covers(code, Blocks, need, unset)
  BY <1>3, <1>7, <1>8 DEF Covers
<1> QED
  BY <1>2, <1>3, <1>9

(* Without merging everything has its own name; all may be needed.         *)
LEMMA InitNames == AllocInit /\ AnalysisInv => NamesInv
<1> SUFFICES ASSUME AllocInit, AnalysisInv PROVE NamesInv
  OBVIOUS
<1> DEFINE c == [t \in Temps |-> t]
<1>1. given = code /\ code \in [Blocks -> Seq(Statements)]
  BY DEF AllocInit, AnalysisInv, Typed, CodeOK
<1>2. PICK need \in Tables, unset \in Tables : Covers(code, Blocks, need, unset)
  BY AllNeeded
<1>3. c \in Names /\ c \in [Temps -> Temps] /\ \A t \in Temps : c[t] = t
  BY DEF Names
<1> HIDE DEF c
<1>4. ASSUME NEW b \in Blocks, NEW i \in DOMAIN given[b]
      PROVE  Becomes(c, given[b][i], code[b][i]) /\ Unclashed(given[b][i], c, need[b][i])
  <2>1. given[b][i] \in Statements /\ need[b][i] \subseteq Temps
    BY <1>1 DEF Tables
  <2>2. Called(c, given[b][i]) = given[b][i]
    BY <1>3, <2>1, SameNames
  <2>3. given[b][i].to.temp # None => given[b][i].to.temp \in Temps
    BY <2>1 DEF Statements, Places
  <2> QED
    BY <1>1, <1>3, <2>1, <2>2, <2>3 DEF Becomes, Unclashed, Stores
<1> QED
  BY <1>1, <1>2, <1>3, <1>4 DEF NamesInv

LEMMA NamesKept ==
  ASSUME NamesInv, UNCHANGED <<given, succs, code, size, merge>>
  PROVE  NamesInv'
<1> SUFFICES ASSUME ~ merge PROVE NamesInv'
  BY DEF NamesInv
<1>1. PICK V \in SUBSET Blocks, need \in Tables, unset \in Tables, c \in Names :
        /\ Covers(given, V, need, unset)
        /\ \A b \in Blocks : \A i \in DOMAIN given[b] : Becomes(c, given[b][i], code[b][i])
        /\ \A b \in V : \A i \in DOMAIN given[b] : Unclashed(given[b][i], c, need[b][i])
  BY DEF NamesInv
<1>2. Covers(given, V, need, unset)'
  <2>1. \A s, bef, aft, u, v : StatementCovered(s, bef, aft, u, v)' = StatementCovered(s, bef, aft, u, v)
    BY DEF StatementCovered, IsArray
  <2>2. WrittenIn(given)' = WrittenIn(given)
    BY DEF WrittenIn, IsArray
  <2> QED
    BY <1>1, <2>1, <2>2 DEF Covers, Flowing
<1>3. c \in Names'
  BY <1>1 DEF Names
<1>4. \A b \in Blocks : \A i \in DOMAIN given[b] : Becomes(c, given[b][i], code[b][i])'
  BY <1>1 DEF Becomes, IsCopy, Scalars
<1> QED
  BY <1>1, <1>2, <1>3, <1>4 DEF NamesInv
\* The names coalescing gives, of all temporaries.
Everywhere(c) == [t \in Temps |-> IF t \in Scalars THEN c[t] ELSE t]

LEMMA EverywhereNames ==
  ASSUME size \in [Temps -> Nat], NEW c \in [Scalars -> Scalars]
  PROVE  Everywhere(c) \in Names
BY DEF Everywhere, Names, Scalars

LEMMA RenamedBecomes ==
  ASSUME size \in [Temps -> Nat], NEW c \in [Scalars -> Scalars], NEW g \in Statements
  PROVE  Becomes(Everywhere(c), g, Renamed(c, g))
<1> DEFINE name(t) == IF t \in Scalars THEN c[t] ELSE t
           place(p) == [p EXCEPT !.temp = name(@), !.by = name(@)]
           s == [g EXCEPT !.to = place(@), !.from = place(@)]
           e == Everywhere(c)
<1>1. None \notin Temps /\ Scalars \subseteq Temps
  BY TempsAssumption DEF None, Scalars
<1>2. \A t \in Temps \cup {None} : name(t) = NameOf(e, t)
  BY <1>1 DEF NameOf, Everywhere
<1>3. ASSUME NEW p \in Places PROVE place(p) = CalledPlace(e, p)
  <2> DEFINE x == name(p.temp)
             y == name(p.by)
             f == [p EXCEPT !.temp = x, !.by = y]
  <2>1. DOMAIN p = {"temp", "at", "by"} /\ p.temp \in Temps \cup {None} /\ p.by \in Temps \cup {None}
    BY DEF Places
  <2>2. place(p) = f /\ x = NameOf(e, p.temp) /\ y = NameOf(e, p.by)
    BY <1>2, <2>1
  <2> HIDE DEF x, y, name
  <2>3. f = [k \in {"temp", "at", "by"} |-> f[k]] /\ f.temp = x /\ f.at = p.at /\ f.by = y
    BY <2>1
  <2> HIDE DEF f, place, e
  <2>4. f = [temp |-> x, at |-> p.at, by |-> y]
    BY <2>3
  <2> QED
    BY <2>2, <2>4 DEF CalledPlace
<1>4. g.to \in Places /\ g.from \in Places /\ DOMAIN g = {"to", "op", "from"}
  BY DEF Statements
<1> HIDE DEF name
<1>5. s = Called(e, g)
  <2> DEFINE x == place(g.to)
             y == place(g.from)
             f == [g EXCEPT !.to = x, !.from = y]
  <2>1. s = f
    OBVIOUS
  <2>2. x = CalledPlace(e, g.to) /\ y = CalledPlace(e, g.from)
    BY <1>3, <1>4
  <2> HIDE DEF x, y, place
  <2>3. f = [k \in {"to", "op", "from"} |-> f[k]] /\ f.to = x /\ f.op = g.op /\ f.from = y
    BY <1>4
  <2> HIDE DEF f, e
  <2>4. f = [to |-> x, op |-> g.op, from |-> y]
    BY <2>3
  <2> QED
    BY <2>1, <2>2, <2>4 DEF Called
<1>6. Renamed(c, g) = IF IsCopy(g) /\ s.to.temp = s.from.temp
                      THEN [to |-> NoPlace, op |-> "get", from |-> NoPlace] ELSE s
  BY DEF Renamed, name
<1> HIDE DEF s, e, place
<1>7. CASE IsCopy(g) /\ s.to.temp = s.from.temp
  <2>1. g.to.temp \in Temps /\ g.from.temp \in Temps
    BY <1>1, <1>7 DEF IsCopy
  <2>2. s.to.temp = e[g.to.temp] /\ s.from.temp = e[g.from.temp]
    BY <1>1, <1>5, <2>1 DEF Called, CalledPlace, NameOf
  <2>3. ~ Stores(Renamed(c, g)) /\ ~ HasEffect(Renamed(c, g))
    BY <1>6, <1>7 DEF Stores, HasEffect, NoPlace, Place
  <2> QED
    BY <1>7, <2>2, <2>3 DEF Becomes, e
<1> QED
  BY <1>5, <1>6, <1>7 DEF Becomes, e

(* Webs hold what does not interfere, so coalescing keeps apart what is     *)
(* needed after a store and the target of the store.                       *)
LEMMA MergeUnclashed ==
  ASSUME AnalysisInv, NEW c \in Canonicals, NEW b \in Blocks, NEW i \in DOMAIN code[b],
         Stores(code[b][i]), NEW u \in rootLive[<<b, i>>] \ {code[b][i].to.temp}
  PROVE  Everywhere(c)[u] # Everywhere(c)[code[b][i].to.temp]
<1> DEFINE t == code[b][i].to.temp
<1>1. t \in Temps /\ u \in Temps /\ u # t
  <2>1. code[b][i] \in Statements /\ <<b, i>> \in Roots
    BY RootsAre DEF AnalysisInv, Typed, CodeOK
  <2>2. rootLive[<<b, i>>] \subseteq Temps
    BY <2>1 DEF AnalysisInv, Typed
  <2> QED
    BY <2>1, <2>2 DEF Statements, Places, Stores
<1>2. c \in [Scalars -> Scalars]
  BY DEF Canonicals
<1>3. CASE t \in Scalars /\ u \in Scalars
  <2>1. {t, u} \subseteq HeldAt(b, i)
    BY DEF HeldAt
  <2>2. u \in Clashes(t)
    <3>1. <<b, i>> \in Roots /\ Stores(code[<<b, i>>[1]][<<b, i>>[2]]) /\ {t, u} \subseteq HeldAt(<<b, i>>[1], <<b, i>>[2])
      BY <2>1, RootsAre
    <3> QED
      BY <1>1, <1>3, <3>1 DEF Clashes
  <2>3. {v \in Scalars : c[v] = c[t]} \cap Clashes(t) = {}
    BY <1>3 DEF Canonicals
  <2>4. c[u] # c[t]
    BY <1>3, <2>2, <2>3
  <2> QED
    BY <1>1, <1>3, <2>4 DEF Everywhere
<1>4. CASE t \notin Scalars \/ u \notin Scalars
  BY <1>1, <1>2, <1>4 DEF Everywhere, Scalars
<1> QED
  BY <1>3, <1>4

LEMMA MergeNames == AnalysisInv /\ AnalysisInv' /\ Merge => NamesInv'
<1> SUFFICES ASSUME AnalysisInv, AnalysisInv', Merge PROVE NamesInv'
  OBVIOUS
<1>1. /\ phase = "backward" /\ stack = <<>> /\ merge
      /\ UNCHANGED <<given, succs, size>>
  BY DEF Merge, placement, vars
<1>2. code = given
  BY <1>1 DEF AnalysisInv, PhasesInOrder
<1>3. PICK c \in Canonicals : code' = [b \in Blocks |-> [i \in DOMAIN code[b] |-> Renamed(c, code[b][i])]]
  BY DEF Merge
<1>4. c \in [Scalars -> Scalars] /\ size \in [Temps -> Nat]
  BY DEF Canonicals, AnalysisInv, IInv, TypeOK
<1> DEFINE e == Everywhere(c)
<1>5. e \in Names
  BY <1>4, EverywhereNames
<1>6. PICK V \in SUBSET Blocks : Covers(code, V, NeedTable, UnsetTable)
  BY <1>1, LivenessCovers DEF Analysed
<1>7. NeedTable \in Tables /\ UnsetTable \in Tables
  BY LivenessTables
<1>8. ASSUME NEW b \in Blocks, NEW i \in DOMAIN given[b] PROVE Becomes(e, given[b][i], code'[b][i])
  <2>1. code[b] \in Seq(Statements) /\ code[b][i] \in Statements /\ code'[b][i] = Renamed(c, code[b][i])
    BY <1>2, <1>3 DEF AnalysisInv, Typed, CodeOK
  <2> QED
    BY <1>2, <1>4, <2>1, RenamedBecomes
<1>9. ASSUME NEW b \in V, NEW i \in DOMAIN given[b] PROVE Unclashed(given[b][i], e, NeedTable[b][i])
  <2>1. LivesOf(b) /\ i \in 0..Len(code[b])
    <3>1. ToSet(stack) = {}
      BY <1>1 DEF ToSet
    <3>2. code[b] \in Seq(Statements)
      BY DEF AnalysisInv, Typed, CodeOK
    <3> QED
      BY <1>1, <1>2, <3>1, <3>2 DEF AnalysisInv, BackwardInv, Analysed
  <2>2. NeedTable[b][i] = rootLive[<<b, i>>]
    BY <1>2, <2>1, LivenessTables DEF LivesOf
  <2> QED
    BY <1>2, <2>2, MergeUnclashed DEF Unclashed
<1>10. PICK need \in Tables, unset \in Tables, names \in Names :
          /\ Covers(given, V, need, unset)
          /\ \A b \in Blocks : \A i \in DOMAIN given[b] : Becomes(names, given[b][i], code'[b][i])
          /\ \A b \in V : \A i \in DOMAIN given[b] : Unclashed(given[b][i], names, need[b][i])
  <2> HIDE DEF e
  <2> QED
    BY <1>2, <1>5, <1>6, <1>7, <1>8, <1>9
<1>12. Covers(given, V, need, unset)'
  <2>1. \A s, bef, aft, u, v : StatementCovered(s, bef, aft, u, v)' = StatementCovered(s, bef, aft, u, v)
    BY <1>1 DEF StatementCovered, IsArray
  <2>2. WrittenIn(given)' = WrittenIn(given)
    BY <1>1 DEF WrittenIn, IsArray
  <2> QED
    BY <1>1, <1>10, <2>1, <2>2 DEF Covers, Flowing
<1> QED
  <2>1. \A b \in Blocks : \A i \in DOMAIN given[b] : Becomes(names, given[b][i], code[b][i])'
    BY <1>1, <1>10 DEF Becomes, IsCopy, Scalars
  <2>2. names \in Names'
    BY <1>1, <1>10 DEF Names
  <2> QED
    BY <1>1, <1>10, <1>12, <2>1, <2>2 DEF NamesInv
-----------------------------------------------------------------------------
(* The merged program as it was placed.                                    *)

\* A store whose target is needed is kept, unless it changes nothing, and what
\* is kept overwrites nothing that is needed.
KeptSound(b, i, live) ==
  LET s == code[b][i] IN
  /\ s.to.temp \in live => Kept(b, i) \/ (s.op = "get" /\ s.from = s.to /\ s.to.by = None)
  /\ Kept(b, i) => \A u \in live \ {s.to.temp} : Slots(u) \cap Slots(s.to.temp) = {}

(* The needs of the program as it came and of the merged one, together.    *)
BothCovered(b, i, c, A, AA, UA, UAA, B, BB, UB, UBB, before, after) ==
  /\ A \in SUBSET Temps /\ AA \in SUBSET Temps /\ UA \in SUBSET Temps /\ UAA \in SUBSET Temps
  /\ B \in SUBSET Temps /\ BB \in SUBSET Temps /\ UB \in SUBSET Temps /\ UBB \in SUBSET Temps
  /\ StatementCovered(given[b][i], A, AA, UA, UAA) /\ StatementCovered(code[b][i], B, BB, UB, UBB)
  /\ \A t \in UBB : IsArray(t)
  /\ Becomes(c, given[b][i], code[b][i]) /\ Unclashed(given[b][i], c, AA) /\ KeptSound(b, i, BB)
  /\ before = {t \in A : c[t] \in B} /\ after = {t \in AA : c[t] \in BB}

LEMMA StatementTogether ==
  ASSUME Allocated, NEW b \in Blocks, NEW i \in DOMAIN given[b], NEW c \in Names,
         NEW A, NEW AA, NEW UA, NEW UAA, NEW B, NEW BB, NEW UB, NEW UBB, NEW before, NEW after,
         BothCovered(b, i, c, A, AA, UA, UAA, B, BB, UB, UBB, before, after)
  PROVE  StatementSound(b, i, c, before, after, UA \cup UB, UAA \cup UBB)
<1> DEFINE g == given[b][i]
           s == code[b][i]
           t == g.to.temp
           f == g.from.temp
<1> USE DEF BothCovered
<1>1. Proper(g.to) /\ Proper(g.from) /\ Proper(s.to) /\ Proper(s.from) /\ s \in Statements /\ g \in Statements
  BY PlaceFits DEF Allocated, Proper
<1>2. size \in [Temps -> Nat] /\ None \notin Temps /\ c \in [Temps -> Temps]
  BY TempsAssumption DEF Allocated, AnalysisInv, IInv, TypeOK, None, Names
<1>3. \A x \in Temps : size[c[x]] = size[x] /\ (size[x] # 1 => c[x] = x) /\ c[x] # None
  BY <1>2 DEF Names
<1>4. ASSUME s = Called(c, g) PROVE StatementSound(b, i, c, before, after, UA \cup UB, UAA \cup UBB)
  <2>1. /\ s.to = CalledPlace(c, g.to) /\ s.from = CalledPlace(c, g.from) /\ s.op = g.op
        /\ s.to.temp = NameOf(c, t) /\ s.to.by = NameOf(c, g.to.by) /\ s.to.at = g.to.at
        /\ s.from.temp = NameOf(c, f) /\ s.from.by = NameOf(c, g.from.by) /\ s.from.at = g.from.at
    BY <1>4 DEF Called, CalledPlace
  <2>2. t # None => t \in Temps /\ s.to.temp = c[t]
    BY <1>1, <2>1 DEF Proper, NameOf
  <2>3. t = None => s.to.temp = None
    BY <2>1 DEF NameOf
  <2>4. ASSUME HasEffect(g) \/ t \in after
        PROVE  Uses(g) \cup IndexUse(g.to) \subseteq before
    <3>1. Uses(g) \cup IndexUse(g.to) \subseteq A
      BY <2>4 DEF StatementCovered
    <3>2. HasEffect(s) \/ s.to.temp \in BB
      BY <1>2, <2>1, <2>2, <2>4 DEF HasEffect
    <3>3. Uses(s) \cup IndexUse(s.to) \subseteq B
      BY <3>2 DEF StatementCovered
    <3>4. \A x \in Uses(g) \cup IndexUse(g.to) : c[x] \in Uses(s) \cup IndexUse(s.to)
      BY <1>1, <1>3, <2>1 DEF Uses, IndexUse, NameOf, Proper
    <3> QED
      BY <3>1, <3>3, <3>4
  <2>5. ASSUME t \in after, ~ Kept(b, i) PROVE f \in before /\ WithinWeb(c, g)
    <3>1. t \in Temps /\ s.to.temp = c[t] /\ c[t] \in BB
      BY <1>2, <2>2, <2>5
    <3>2. s.op = "get" /\ s.from = s.to /\ s.to.by = None
      BY <2>5, <3>1 DEF KeptSound
    <3>3. f # None /\ f \in Temps /\ c[f] = c[t]
      BY <1>1, <1>3, <2>1, <3>1, <3>2 DEF NameOf, Proper
    <3>4. f \in before
      BY <2>4, <2>5, <3>3 DEF Uses
    <3>5. CASE size[t] = 1
      BY <1>3, <2>1, <3>1, <3>2, <3>3, <3>4, <3>5 DEF WithinWeb
    <3>6. CASE size[t] # 1
      <4>1. f = t
        BY <1>3, <3>1, <3>3, <3>6
      <4>2. g.to.by = None /\ g.from.by = None /\ g.from.at = g.to.at
        BY <1>1, <1>3, <2>1, <3>2 DEF NameOf, Proper
      <4>3. g.from = g.to
        <5>1. g.from \in Places /\ g.to \in Places
          BY <1>1 DEF Proper
        <5> QED
          BY <4>1, <4>2, <5>1 DEF Places
      <4> QED
        BY <2>1, <3>2, <3>3, <3>4, <4>2, <4>3 DEF WithinWeb
    <3> QED
      BY <3>5, <3>6
  <2>6. ASSUME NEW x \in after \ {t} PROVE c[x] # s.to.temp
    <3>1. x \in Temps /\ c[x] # None
      BY <1>3
    <3> QED
      BY <2>2, <2>3, <3>1 DEF Unclashed, Stores
  <2>7. after \ {t} \subseteq before
    BY <2>6 DEF StatementCovered
  <2>8. t \in after /\ IsArray(t) => t \in before \cup (UA \cup UB)
    <3> SUFFICES ASSUME t \in after, IsArray(t) PROVE t \in before \cup (UA \cup UB)
      OBVIOUS
    <3>1. t \in Temps /\ c[t] = t /\ s.to.temp = t
      BY <1>2, <1>3, <2>2 DEF IsArray
    <3> QED
      BY <3>1 DEF StatementCovered
  <2>9. UAA \cup UBB \subseteq (UA \cup UB) \ {t}
    <3>1. t \notin UBB
      <4> SUFFICES ASSUME t \in UBB PROVE FALSE
        OBVIOUS
      <4>1. t \in Temps /\ c[t] = t /\ s.to.temp = t
        BY <1>2, <1>3, <2>2 DEF IsArray
      <4> QED
        BY <4>1 DEF StatementCovered
    <3> QED
      BY <3>1 DEF StatementCovered
  <2>10. ASSUME Kept(b, i), NEW x \in after \ {t} PROVE Slots(c[x]) \cap Slots(c[t]) = {}
    <3>1. s.to.temp # None
      BY <2>10 DEF Kept, Stores
    <3>2. t # None /\ s.to.temp = c[t]
      BY <2>2, <2>3, <3>1
    <3>3. c[x] \in BB \ {s.to.temp}
      BY <2>6
    <3> QED
      BY <2>10, <3>2, <3>3 DEF KeptSound
  <2> QED
    BY <1>4, <2>4, <2>5, <2>7, <2>8, <2>9, <2>10 DEF StatementSound
<1>5. ASSUME IsCopy(g), c[g.to.temp] = c[g.from.temp], ~ Stores(s), ~ HasEffect(s)
      PROVE  StatementSound(b, i, c, before, after, UA \cup UB, UAA \cup UBB)
  <2>1. /\ t \in Temps /\ f \in Temps /\ size[t] = 1 /\ size[f] = 1 /\ ~ IsArray(t) /\ ~ HasEffect(g)
        /\ g.op = "get" /\ ~ Kept(b, i) /\ s.to.temp = None /\ f # None
    BY <1>2, <1>5 DEF IsCopy, Scalars, IsArray, HasEffect, Kept, Stores
  <2>2. BB \subseteq B
    BY <1>2, <2>1 DEF StatementCovered
  <2>3. t \in after => f \in before /\ WithinWeb(c, g)
    <3> SUFFICES ASSUME t \in after PROVE f \in before /\ WithinWeb(c, g)
      OBVIOUS
    <3>1. f \in A
      BY <2>1 DEF StatementCovered, Uses
    <3> QED
      BY <1>5, <2>1, <2>2, <3>1 DEF WithinWeb
  <2>4. after \ {t} \subseteq before
    BY <2>2 DEF StatementCovered
  <2>5. UAA \cup UBB \subseteq (UA \cup UB) \ {t}
    BY <2>1 DEF StatementCovered
  <2> QED
    BY <2>1, <2>3, <2>4, <2>5 DEF StatementSound
<1> QED
  BY <1>4, <1>5 DEF Becomes
\* Packing has the interference of the analysis.
InterferenceInv ==
  phase \in {"place", "run"} /\ mode = "packing" =>
    \A t, u \in Sized : t # u /\ Interferes(t, u) => u \in adj[t]

LEMMA PlacedApart ==
  ASSUME Allocated, NEW t \in Temps, NEW u \in Temps, t # u, size[t] > 0, mode = "bump" \/ (size[u] > 0 => u \in adj[t])
  PROVE  Slots(u) \cap Slots(t) = {}
<1>1. size[u] \in Nat /\ NoOverlap
  BY DEF Allocated, AnalysisInv, IInv, TypeOK
<1>2. CASE size[u] > 0
  BY <1>1, <1>2, PlacedSlots DEF NoOverlap
<1>3. CASE size[u] = 0
  <2>1. offset[u] \in Int
    BY TempSizeAssumption DEF Allocated, AnalysisInv, IInv, TypeOK, Unallocated
  <2> QED
    BY <1>3, <2>1 DEF Slots
<1> QED
  BY <1>1, <1>2, <1>3

(* The merged program keeps what it needs: with packing what is live, with  *)
(* bump everything.                                                        *)
LEMMA PlacementIsSound ==
  ASSUME Allocated, InterferenceInv, phase = "place"
  PROVE  \E V \in SUBSET Blocks, need \in Tables, unset \in Tables :
           /\ Covers(code, V, need, unset)
           /\ \A b \in V : \A i \in DOMAIN code[b] : KeptSound(b, i, need[b][i])
<1>1. mode \in {"bump", "packing"} /\ (mode = "packing" => Analysed /\ stack = <<>>)
  BY DEF Allocated, AnalysisInv, PhasesInOrder, BackwardInv, Analysed
<1>2. size \in [Temps -> Nat] /\ None \notin Temps
  BY TempsAssumption DEF Allocated, AnalysisInv, IInv, TypeOK, None
<1>3. ASSUME NEW b \in Blocks, NEW i \in DOMAIN code[b]
      PROVE  /\ code[b][i] \in Statements /\ i \in 0..Len(code[b])
             /\ Stores(code[b][i]) => code[b][i].to.temp \in Temps /\ size[code[b][i].to.temp] > 0
  <2>1. code[b] \in Seq(Statements) /\ Fitting(code[b], size)
    BY DEF Allocated, AnalysisInv, Typed, CodeOK
  <2>2. code[b][i] \in Statements /\ i \in 0..Len(code[b])
    BY <2>1
  <2>3. \A p \in {code[b][i].to, code[b][i].from} : p.temp # None => size[p.temp] > 0
    BY <2>1 DEF Fitting
  <2> QED
    BY <2>2, <2>3 DEF Stores, Statements, Places
<1>4. CASE mode = "bump"
  <2>1. ASSUME NEW b \in Blocks, NEW i \in DOMAIN code[b], NEW live \in SUBSET Temps PROVE KeptSound(b, i, live)
    <3>1. code[b][i].to.temp \in live => Kept(b, i)
      BY <1>2, <1>4 DEF Kept, Dead, Stores
    <3>2. ASSUME Kept(b, i), NEW u \in live \ {code[b][i].to.temp} PROVE Slots(u) \cap Slots(code[b][i].to.temp) = {}
      BY <1>3, <1>4, <3>2, PlacedApart DEF Kept
    <3> QED
      BY <3>1, <3>2 DEF KeptSound
  <2>2. PICK need \in Tables, unset \in Tables : Covers(code, Blocks, need, unset)
    BY AllNeeded DEF Allocated
  <2>3. \A b \in Blocks : \A i \in DOMAIN code[b] : need[b][i] \in SUBSET Temps
    <3>1. \A b \in Blocks : \A i \in DOMAIN code[b] : i \in Nat
      BY DEF Allocated, AnalysisInv, Typed, CodeOK
    <3> QED
      BY <3>1 DEF Tables
  <2> QED
    BY <2>1, <2>2, <2>3
<1>5. CASE mode = "packing"
  <2>1. PICK V \in SUBSET Blocks : Covers(code, V, NeedTable, UnsetTable)
    BY <1>1, <1>5, LivenessCovers DEF Allocated
  <2>2. ASSUME NEW b \in Blocks, NEW i \in DOMAIN code[b] PROVE KeptSound(b, i, NeedTable[b][i])
    <3> DEFINE s == code[b][i]
               t == s.to.temp
               live == rootLive[<<b, i>>]
    <3>1. LivesOf(b)
      <4>1. ToSet(stack) = {}
        BY <1>1, <1>5 DEF ToSet
      <4> QED
        BY <1>1, <1>5, <4>1 DEF Allocated, AnalysisInv, BackwardInv
    <3>2. NeedTable[b][i] = live /\ live \subseteq Temps
      <4>1. NeedTable[b][i] = live
        BY <1>3, <3>1, LivenessTables DEF Allocated, LivesOf
      <4>2. <<b, i>> \in Roots
        BY RootsAre
      <4> QED
        BY <4>1, <4>2 DEF Allocated, AnalysisInv, Typed
    <3>3. t \in live => Kept(b, i) \/ (s.op = "get" /\ s.from = s.to /\ s.to.by = None)
      BY <1>2, <3>2 DEF Kept, Dead, Stores
    <3>4. ASSUME Kept(b, i), NEW u \in live \ {t} PROVE Slots(u) \cap Slots(t) = {}
      <4>1. t \in live /\ Stores(s)
        BY <1>5, <3>4 DEF Kept, Dead
      <4>2. Interferes(t, u)
        <5>1. <<b, i>> \in Roots /\ {t, u} \subseteq rootLive[<<b, i>>] /\ Stores(code[<<b, i>>[1]][<<b, i>>[2]])
          BY <4>1, RootsAre
        <5> QED
          BY <5>1 DEF Interferes
      <4>3. t \in Temps /\ u \in Temps /\ t # u /\ size[t] > 0
        BY <1>3, <3>2, <4>1
      <4>4. size[u] > 0 => u \in adj[t]
        BY <1>5, <4>2, <4>3 DEF InterferenceInv, Sized
      <4> QED
        BY <4>3, <4>4, PlacedApart
    <3> QED
      BY <3>2, <3>3, <3>4 DEF KeptSound
  <2>3. NeedTable \in Tables /\ UnsetTable \in Tables
    BY LivenessTables DEF Allocated
  <2> QED
    BY <2>1, <2>2, <2>3
<1> QED
  BY <1>1, <1>4, <1>5
(* Both together: what the program needs of its temporaries, under the     *)
(* names that are needed of the merged one.                                *)
LEMMA ProgramIsSound ==
  ASSUME Allocated, InterferenceInv, NamesInv, phase = "place"
  PROVE  \E V \in SUBSET Blocks, need \in Tables, unset \in Tables, c \in Names : Sound(V, need, unset, c)
<1> USE DEF Allocated
<1>1. ~ merge
  BY DEF AnalysisInv, PhasesInOrder
<1>2. PICK V1 \in SUBSET Blocks, A \in Tables, UA \in Tables, c \in Names :
        /\ Covers(given, V1, A, UA)
        /\ \A b \in Blocks : \A i \in DOMAIN given[b] : Becomes(c, given[b][i], code[b][i])
        /\ \A b \in V1 : \A i \in DOMAIN given[b] : Unclashed(given[b][i], c, A[b][i])
  BY <1>1 DEF NamesInv
<1>3. PICK V2 \in SUBSET Blocks, B \in Tables, UB \in Tables :
        /\ Covers(code, V2, B, UB)
        /\ \A b \in V2 : \A i \in DOMAIN code[b] : KeptSound(b, i, B[b][i])
  BY PlacementIsSound
<1> DEFINE V == V1 \cap V2
           need == [b \in Blocks |-> [i \in Nat |-> {t \in A[b][i] : c[t] \in B[b][i]}]]
           unset == [b \in Blocks |-> [i \in Nat |-> UA[b][i] \cup UB[b][i]]]
<1>4. \A b \in Blocks : \A i \in Nat :
        /\ A[b][i] \subseteq Temps /\ B[b][i] \subseteq Temps /\ UA[b][i] \subseteq Temps /\ UB[b][i] \subseteq Temps
        /\ need[b][i] = {t \in A[b][i] : c[t] \in B[b][i]} /\ unset[b][i] = UA[b][i] \cup UB[b][i]
  BY DEF Tables
<1>5. need \in Tables /\ unset \in Tables
  <2>1. \A b \in Blocks : \A i \in Nat : need[b][i] \in SUBSET Temps /\ unset[b][i] \in SUBSET Temps
    BY <1>4
  <2> QED
    BY <1>4 DEF Tables
<1> HIDE DEF need, unset
<1>6. ASSUME NEW b \in Blocks
      PROVE  /\ Len(given[b]) \in Nat /\ Len(code[b]) = Len(given[b]) /\ DOMAIN given[b] = 1..Len(given[b])
             /\ DOMAIN code[b] = DOMAIN given[b] /\ given[b] \in Seq(Statements) /\ code[b] \in Seq(Statements)
  BY DEF AnalysisInv, Typed, CodeOK
<1>7. \A x \in Temps : size[x] \in Nat /\ size[c[x]] = size[x] /\ (size[x] # 1 => c[x] = x) /\ c[x] \in Temps
  BY DEF AnalysisInv, IInv, TypeOK, Names
<1>8. \A b \in V1 : \A i \in 0..Len(given[b]) : \A t \in UA[b][i] : t \in WrittenIn(given) /\ IsArray(t)
  BY <1>2 DEF Covers, WrittenIn
<1>9. \A b \in V2 : \A i \in 0..Len(code[b]) : \A t \in UB[b][i] : t \in WrittenIn(code) /\ IsArray(t)
  BY <1>3 DEF Covers, WrittenIn
<1>10. WrittenIn(given) \subseteq Written /\ WrittenIn(code) \subseteq Written
  <2>1. WrittenIn(code) = Written
    BY LivenessTables
  <2>2. ASSUME NEW t \in Temps, IsArray(t), NEW b \in Blocks, NEW i \in DOMAIN given[b], given[b][i].to.temp = t
        PROVE  code[b][i].to.temp = t
    <3>1. c[t] = t /\ t \notin Scalars /\ t # None
      BY <1>7, <2>2, TempsAssumption DEF IsArray, Scalars, None
    <3>2. code[b][i] = Called(c, given[b][i])
      BY <1>2, <2>2, <3>1 DEF Becomes, IsCopy
    <3> QED
      BY <2>2, <3>1, <3>2 DEF Called, CalledPlace, NameOf
  <2>3. WrittenIn(given) \subseteq WrittenIn(code)
    BY <1>6, <2>2 DEF WrittenIn
  <2> QED
    BY <2>1, <2>3
<1>11. Flowing(given, V, need, unset)
  <2>1. 1 \in V
    BY <1>2, <1>3 DEF Covers, Flowing
  <2> SUFFICES ASSUME NEW b \in V, NEW d \in ToSet(succs[b])
               PROVE  /\ d \in V /\ need[d][0] \subseteq need[b][Len(given[b])] \cup unset[b][Len(given[b])]
                      /\ unset[d][0] \subseteq unset[b][Len(given[b])]
    BY <2>1 DEF Flowing
  <2> DEFINE n == Len(given[b])
  <2>2. /\ d \in V1 /\ A[d][0] \subseteq A[b][n] \cup UA[b][n] /\ UA[d][0] \subseteq UA[b][n]
    BY <1>2 DEF Covers, Flowing
  <2>3. /\ d \in V2 /\ B[d][0] \subseteq B[b][n] \cup UB[b][n] /\ UB[d][0] \subseteq UB[b][n]
    BY <1>3, <1>6 DEF Covers, Flowing
  <2>4. n \in Nat /\ 0 \in Nat /\ b \in Blocks /\ d \in Blocks
    BY <1>6, <2>2
  <2>5. unset[d][0] \subseteq unset[b][n]
    BY <1>4, <2>2, <2>3, <2>4
  <2>6. ASSUME NEW t \in A[d][0], c[t] \in B[d][0] PROVE t \in need[b][n] \cup unset[b][n]
    <3>1. t \in Temps
      BY <1>4, <2>4
    <3>2. CASE t \in UA[b][n]
      BY <1>4, <2>4, <3>2
    <3>3. CASE t \in A[b][n] /\ c[t] \in B[b][n]
      BY <1>4, <2>4, <3>3
    <3>4. CASE c[t] \in UB[b][n]
      <4>1. IsArray(c[t])
        <5>1. n \in 0..Len(code[b])
          BY <1>6, <2>4
        <5> QED
          BY <1>9, <3>4, <5>1
      <4>2. c[t] = t
        BY <1>7, <3>1, <4>1 DEF IsArray
      <4> QED
        BY <1>4, <2>4, <3>4, <4>2
    <3> QED
      BY <2>2, <2>3, <2>6, <3>2, <3>3, <3>4
  <2>7. need[d][0] = {t \in A[d][0] : c[t] \in B[d][0]}
    BY <1>4, <2>4
  <2> QED
    BY <2>2, <2>3, <2>5, <2>6, <2>7
<1>12. unset[1][0] \subseteq Written
  <2>1. 1 \in V1 /\ 1 \in V2 /\ 1 \in Blocks
    BY <1>2, <1>3 DEF Covers, Flowing
  <2>2. 0 \in 0..Len(given[1]) /\ 0 \in 0..Len(code[1])
    BY <1>6, <2>1
  <2> QED
    BY <1>4, <1>8, <1>9, <1>10, <2>1, <2>2
<1>13. ASSUME NEW b \in V, NEW i \in DOMAIN given[b]
       PROVE  StatementSound(b, i, c, need[b][i - 1], need[b][i], unset[b][i - 1], unset[b][i])
  <2>1. i \in Nat /\ i - 1 \in Nat /\ i \in DOMAIN code[b] /\ i \in 0..Len(code[b]) /\ b \in Blocks
    BY <1>6
  <2>2. StatementCovered(given[b][i], A[b][i - 1], A[b][i], UA[b][i - 1], UA[b][i])
    BY <1>2 DEF Covers
  <2>3. StatementCovered(code[b][i], B[b][i - 1], B[b][i], UB[b][i - 1], UB[b][i]) /\ KeptSound(b, i, B[b][i])
    BY <1>3, <2>1 DEF Covers
  <2>4. Becomes(c, given[b][i], code[b][i]) /\ Unclashed(given[b][i], c, A[b][i])
    BY <1>2, <2>1
  <2>5. \A t \in UB[b][i] : IsArray(t)
    BY <1>9, <2>1
  <2>6. /\ A[b][i - 1] \in SUBSET Temps /\ A[b][i] \in SUBSET Temps /\ UA[b][i - 1] \in SUBSET Temps /\ UA[b][i] \in SUBSET Temps
        /\ B[b][i - 1] \in SUBSET Temps /\ B[b][i] \in SUBSET Temps /\ UB[b][i - 1] \in SUBSET Temps /\ UB[b][i] \in SUBSET Temps
    BY <1>4, <2>1
  <2>7. /\ need[b][i - 1] = {t \in A[b][i - 1] : c[t] \in B[b][i - 1]}
        /\ need[b][i] = {t \in A[b][i] : c[t] \in B[b][i]}
    BY <1>4, <2>1
  <2>8. StatementSound(b, i, c, need[b][i - 1], need[b][i], UA[b][i - 1] \cup UB[b][i - 1], UA[b][i] \cup UB[b][i])
    <3>1. BothCovered(b, i, c, A[b][i - 1], A[b][i], UA[b][i - 1], UA[b][i],
                      B[b][i - 1], B[b][i], UB[b][i - 1], UB[b][i], need[b][i - 1], need[b][i])
      BY <2>2, <2>3, <2>4, <2>5, <2>6, <2>7 DEF BothCovered
    <3> QED
      BY <2>1, <3>1, StatementTogether
  <2> QED
    BY <1>4, <2>1, <2>8
<1>14. Sound(V, need, unset, c)
  BY <1>11, <1>12, <1>13 DEF Sound
<1> QED
  BY <1>5, <1>14
(* Both executions start alike: what is written is undefined, the rest as  *)
(* the block is.                                                           *)
LEMMA EnterEstablishes == AnalysisInv /\ NamesInv /\ InterferenceInv /\ Enter => RunInv'
<1> SUFFICES ASSUME AnalysisInv, NamesInv, InterferenceInv, Enter PROVE RunInv'
  OBVIOUS
<1>1. /\ phase = "place" /\ todo = {} /\ ~ exceeded
      /\ UNCHANGED <<given, merge, succs, code, analysis, placement>>
  BY DEF Enter
<1>2. UNCHANGED <<given, succs, code, stack, visited, defsIn, defsOut, init, liveIn, liveOut, rootLive,
                  size, adj, mode, todo, index, offset, exceeded>>
  BY <1>1 DEF analysis, placement, vars
<1>3. Allocated
  BY <1>1 DEF Allocated
<1>4. PICK V \in SUBSET Blocks, need \in Tables, unset \in Tables, c \in Names : Sound(V, need, unset, c)
  BY <1>1, <1>3, ProgramIsSound
<1> DEFINE S == [t \in Temps |-> [k \in Cells(t) |-> IF t \in Written THEN Undefined ELSE Padding]]
           M == [p \in 0..(TempSize - 1) |-> Padding]
<1>5. run' = [block |-> 1, steps |-> 0, source |-> S, memory |-> M, same |-> TRUE]
  <2> DEFINE e == [Idle EXCEPT !.block = 1, !.source = S, !.memory = M]
  <2>1. run' = e
    BY DEF Enter
  <2> HIDE DEF S, M
  <2>2. /\ e = [f \in {"block", "steps", "source", "memory", "same"} |-> e[f]]
        /\ e.block = 1 /\ e.steps = 0 /\ e.source = S /\ e.memory = M /\ e.same = TRUE
    BY DEF Idle
  <2> HIDE DEF e
  <2>3. e = [block |-> 1, steps |-> 0, source |-> S, memory |-> M, same |-> TRUE]
    BY <2>2
  <2> QED
    BY <2>1, <2>3
<1>6. 1 \in V /\ 1 \in Blocks /\ unset[1][0] \subseteq Written /\ need[1][0] \subseteq Temps /\ c \in [Temps -> Temps]
      /\ \A t \in Temps : size[c[t]] = size[t]
  BY <1>4, BlocksAssumption DEF Sound, Flowing, Blocks, Tables, Names
<1>7. Written \subseteq Temps
  BY DEF Written
<1>8. run' \in Runs
  <2>1. \A t \in Temps : S[t] \in [Cells(t) -> Int]
    BY DEF Undefined, Padding
  <2>2. M \in [0..(TempSize - 1) -> Int]
    BY DEF Padding
  <2>3. S \in [Temps -> UNION {[Cells(t) -> Int] : t \in Temps}]
    BY <2>1
  <2> HIDE DEF S, M
  <2>4. 0 \in 0..MaxSteps
    BY BlocksAssumption
  <2> QED
    BY <1>5, <1>6, <2>1, <2>2, <2>3, <2>4 DEF Runs
<1>9. Matches(run', need[1][0], unset[1][0], c)
  <2>1. ASSUME NEW t \in unset[1][0], NEW k \in Cells(t) PROVE S[t][k] = Undefined
    BY <1>6, <1>7, <2>1
  <2>2. ASSUME NEW t \in need[1][0], NEW k \in Cells(t) PROVE S[t][k] \in {Undefined, M[offset[c[t]] + k]}
    <3>1. c[t] \in Temps /\ t \in Temps /\ k \in Cells(c[t]) /\ size[c[t]] > 0
      <4>1. t \in Temps /\ c[t] \in Temps /\ size[c[t]] = size[t]
        BY <1>6
      <4>2. size[t] \in Nat
        BY <4>1 DEF AnalysisInv, IInv, TypeOK
      <4> QED
        BY <2>2, <4>1, <4>2 DEF Cells
    <3>2. offset[c[t]] + k \in 0..(TempSize - 1)
      BY <1>3, <3>1, PlacedSlots
    <3> QED
      BY <2>2, <3>1, <3>2
  <2> HIDE DEF S, M
  <2> QED
    BY <1>5, <2>1, <2>2 DEF Matches
<1>10. Allocated' /\ run' \in Runs'
  <2>1. AnalysisInv'
    BY RunningPreserves
  <2> QED
    BY <1>2, <1>3, <1>8, <2>1 DEF Allocated, Runs, Cells
<1>11. Sound(V, need, unset, c)' /\ c \in Names'
  <2>1. Written' = Written
    BY <1>2 DEF Written, IsArray
  <2>2. \A b, i, bef, aft, u, v : StatementSound(b, i, c, bef, aft, u, v)' = StatementSound(b, i, c, bef, aft, u, v)
    BY <1>2 DEF StatementSound, Kept, Dead, WithinWeb, IsArray, Slots
  <2> QED
    BY <1>2, <1>4, <2>1, <2>2 DEF Sound, Flowing, Names
<1>12. Matches(run, need[run.block][0], unset[run.block][0], c)'
  <2>1. run'.block = 1
    BY <1>5
  <2> QED
    BY <1>2, <1>9, <2>1 DEF Matches, Cells
<1> HIDE DEF S, M
<1>13. run'.block = 1 /\ run'.same = TRUE
  BY <1>5
<1> QED
  BY <1>4, <1>6, <1>10, <1>11, <1>12, <1>13 DEF RunInv

-----------------------------------------------------------------------------
(* The invariant.                                                          *)

ExecutionInv == AnalysisInv /\ NamesInv /\ InterferenceInv /\ RunInv

LEMMA InterferencePreserved == AnalysisInv /\ InterferenceInv /\ [AllocNext]_allocation => InterferenceInv'
<1> SUFFICES ASSUME AnalysisInv, InterferenceInv, [AllocNext]_allocation,
                    phase' \in {"place", "run"}, mode' = "packing"
             PROVE  \A t, u \in Sized' : t # u /\ Interferes(t, u)' => u \in adj'[t]
  BY DEF InterferenceInv
<1>1. CASE BackwardDone
  <2>1. /\ adj' = [t \in Temps |-> {u \in Sized \ {t} : t \in Sized /\ Interferes(t, u)}]
        /\ UNCHANGED <<code, analysis, size>>
    BY <1>1 DEF BackwardDone
  <2>2. Sized' = Sized /\ Sized \subseteq Temps
    BY <2>1 DEF Sized
  <2>3. \A t, u : Interferes(t, u)' = Interferes(t, u)
    BY <2>1 DEF Interferes, Roots, analysis
  <2> QED
    BY <2>1, <2>2, <2>3
<1>2. CASE UNCHANGED <<code, rootLive, size, mode, adj>> /\ phase \in {"place", "run"}
  BY <1>2 DEF InterferenceInv, Interferes, Roots, Sized
<1>3. CASE PlaceTemp
  <2>1. UNCHANGED <<code, rootLive, size, mode, adj>> /\ phase = "place"
    BY <1>3 DEF PlaceTemp, analysis, Bump, Pack
  <2> QED
    BY <1>2, <2>1
<1>4. CASE Enter \/ Run \/ UNCHANGED allocation
  <2>1. UNCHANGED <<code, rootLive, size, mode, adj>>
    BY <1>4 DEF Enter, Run, allocation, analysis, placement, vars
  <2>2. phase \in {"place", "run"}
    BY <1>4 DEF Enter, Run, allocation
  <2> QED
    BY <1>2, <2>1, <2>2
<1>5. CASE Decide
  <2>1. phase = "decide" /\ (mode = "try_bump" => phase' = phase) /\ (mode = "packing" => phase' \in {"forward", "rejected"})
    BY <1>5 DEF Decide, Analyze
  <2>2. mode = "bump" => mode' = "bump"
    BY <1>5 DEF Decide, placement, vars
  <2>3. mode \in {"bump", "packing", "try_bump"}
    BY DEF AnalysisInv, IInv, TypeOK
  <2> QED
    BY <2>1, <2>2, <2>3
<1>6. CASE Begin \/ ForwardVisit \/ ForwardDone \/ BackwardVisit \/ Merge
  BY <1>6 DEF Begin, Analyze, ForwardVisit, ForwardDone, BackwardVisit, Merge
<1> QED
  BY <1>1, <1>3, <1>4, <1>5, <1>6 DEF AllocNext

LEMMA NamesPreserved == AnalysisInv /\ AnalysisInv' /\ NamesInv /\ [AllocNext]_allocation => NamesInv'
<1> SUFFICES ASSUME AnalysisInv, AnalysisInv', NamesInv, [AllocNext]_allocation PROVE NamesInv'
  OBVIOUS
<1>1. CASE Merge
  BY <1>1, MergeNames
<1>2. CASE Begin \/ Decide \/ ForwardVisit \/ ForwardDone \/ BackwardVisit \/ BackwardDone \/ PlaceTemp
  <2>1. UNCHANGED <<given, succs, code, size, merge>>
    BY <1>2 DEF Begin, Decide, ForwardVisit, ForwardDone, BackwardVisit, BackwardDone, PlaceTemp,
                TryBump, Bump, Pack, placement, vars
  <2> QED
    BY <2>1, NamesKept
<1>3. CASE Enter \/ Run \/ UNCHANGED allocation
  <2>1. UNCHANGED <<given, succs, code, size, merge>>
    BY <1>3 DEF Enter, Run, allocation, placement, vars
  <2> QED
    BY <2>1, NamesKept
<1> QED
  BY <1>1, <1>2, <1>3 DEF AllocNext

LEMMA RunPreserved ==
  AnalysisInv /\ AnalysisInv' /\ NamesInv /\ InterferenceInv /\ RunInv /\ [AllocNext]_allocation => RunInv'
<1> SUFFICES ASSUME AnalysisInv, AnalysisInv', NamesInv, InterferenceInv, RunInv, [AllocNext]_allocation
             PROVE  RunInv'
  OBVIOUS
<1>1. CASE Enter
  BY <1>1, EnterEstablishes
<1>2. CASE Run
  BY <1>2, RunKeepsRunInv
<1>3. CASE UNCHANGED allocation
  <2>1. UNCHANGED <<given, succs, code, phase, rootLive, size, mode, offset, todo, exceeded, run>>
    BY <1>3 DEF allocation, analysis, placement, vars
  <2> SUFFICES ASSUME phase = "run" PROVE RunInv'
    BY <2>1 DEF RunInv
  <2>2. PICK V \in SUBSET Blocks, need \in Tables, unset \in Tables, c \in Names :
          /\ Sound(V, need, unset, c)
          /\ run.block # None => run.block \in V /\ Matches(run, need[run.block][0], unset[run.block][0], c)
    BY DEF RunInv
  <2>3. Sound(V, need, unset, c)' /\ c \in Names'
    <3>1. Written' = Written
      BY <2>1 DEF Written, IsArray
    <3>2. \A b, i, bef, aft, u, v : StatementSound(b, i, c, bef, aft, u, v)' = StatementSound(b, i, c, bef, aft, u, v)
      BY <2>1 DEF StatementSound, Kept, Dead, WithinWeb, IsArray, Slots
    <3> QED
      BY <2>1, <2>2, <3>1, <3>2 DEF Sound, Flowing, Names
  <2>4. Allocated' /\ run' \in Runs' /\ run'.same
    BY <2>1 DEF RunInv, Allocated, Runs, Cells
  <2>5. run'.block # None => run'.block \in V /\ Matches(run, need[run.block][0], unset[run.block][0], c)'
    BY <2>1, <2>2 DEF Matches, Cells
  <2> QED
    BY <2>2, <2>3, <2>4, <2>5 DEF RunInv
<1>4. CASE AllocNext /\ ~ Enter /\ ~ Run
  <2>1. phase' # "run"
    BY <1>4 DEF AllocNext, Begin, Decide, Analyze, ForwardVisit, ForwardDone, BackwardVisit, BackwardDone,
                Merge, PlaceTemp, TryBump
  <2> QED
    BY <2>1 DEF RunInv
<1> QED
  BY <1>1, <1>2, <1>3, <1>4

LEMMA ExecutionInvHolds == AllocSpec => []ExecutionInv
<1>1. AllocInit => ExecutionInv
  <2> SUFFICES ASSUME AllocInit PROVE ExecutionInv
    OBVIOUS
  <2>1. AnalysisInv
    BY AllocInitEstablishes
  <2>2. phase \notin {"place", "run"}
    BY DEF AllocInit
  <2> QED
    BY <2>1, <2>2, InitNames DEF ExecutionInv, InterferenceInv, RunInv
<1>2. ExecutionInv /\ [AllocNext]_allocation => ExecutionInv'
  BY AllocNextPreserves, NamesPreserved, InterferencePreserved, RunPreserved DEF ExecutionInv
<1> QED
  BY <1>1, <1>2, PTL DEF AllocSpec
-----------------------------------------------------------------------------
(* Results.                                                                *)

\* For any program, any sizes, any strategy and whatever is merged, however
\* far the program runs: what it shows of its temporaries, the allocated
\* program shows too, and no call is lost with the store of its result.
THEOREM AllocationIsTransparent == AllocSpec => []SameObservations
<1>1. ExecutionInv => SameObservations
  BY DEF ExecutionInv, RunInv, SameObservations
<1> QED
  BY <1>1, ExecutionInvHolds, PTL
(* Nothing runs before the program was entered.                            *)
IdleInv == phase # "run" => run = Idle

LEMMA IdlePreserved == AnalysisInv /\ IdleInv /\ [AllocNext]_allocation => IdleInv'
<1> SUFFICES ASSUME IdleInv, [AllocNext]_allocation PROVE IdleInv'
  OBVIOUS
<1>1. CASE AllocNext /\ ~ Enter /\ ~ Run
  BY <1>1 DEF AllocNext, Begin, Decide, ForwardVisit, ForwardDone, BackwardVisit, BackwardDone, Merge, PlaceTemp,
              Analyze, IdleInv
<1>2. CASE Enter \/ Run
  BY <1>2 DEF Enter, Run, IdleInv
<1>3. CASE UNCHANGED allocation
  BY <1>3 DEF allocation, IdleInv
<1> QED
  BY <1>1, <1>2, <1>3

(* A worklist without repetitions is no longer than there are blocks.      *)
LEMMA WorklistIsShort ==
  ASSUME NEW s \in Seq(Blocks), Distinct(s)
  PROVE  Len(s) <= N
<1>1. s \in [1..Len(s) -> Blocks] /\ Len(s) \in Nat /\ DOMAIN s = 1..Len(s)
  OBVIOUS
<1>2. s \in Injection(1..Len(s), Blocks)
  BY <1>1 DEF Distinct, Injection, IsInjective
<1>3. IsFiniteSet(Blocks) /\ Cardinality(Blocks) = N
  BY BlocksAssumption, FS_Interval DEF Blocks
<1>4. Cardinality(1..Len(s)) <= Cardinality(Blocks)
  BY <1>2, <1>3, FS_Injection
<1>5. Cardinality(1..Len(s)) = Len(s)
  <2> DEFINE n == Len(s)
  <2>1. n \in Nat
    BY <1>1
  <2> HIDE DEF n
  <2>2. Cardinality(1..n) = IF 1 > n THEN 0 ELSE n - 1 + 1
    BY <2>1, FS_Interval
  <2> QED
    BY <2>1, <2>2 DEF n
<1> QED
  BY <1>3, <1>4, <1>5

\* The tables of liveness and allocation are well typed, and the worklist
\* never outgrows its buffer of one entry per block, for any program.
THEOREM AllocTypeCorrect == AllocSpec => []AllocTypeOK
<1>1. AllocSpec => []IdleInv
  <2>1. AllocInit => IdleInv
    BY DEF AllocInit, IdleInv
  <2>2. AnalysisInv /\ IdleInv /\ [AllocNext]_allocation => IdleInv'
    BY IdlePreserved
  <2> QED
    BY <2>1, <2>2, AnalysisInvHolds, PTL DEF AllocSpec
<1>2. ExecutionInv /\ IdleInv => AllocTypeOK
  <2> SUFFICES ASSUME ExecutionInv, IdleInv PROVE AllocTypeOK
    OBVIOUS
  <2>1. Typed /\ TypeOK
    BY DEF ExecutionInv, AnalysisInv, IInv
  <2>2. Len(stack) <= N
    BY <2>1, WorklistIsShort DEF Typed
  <2>3. run.block \in Blocks \cup {None} /\ run.steps \in 0..MaxSteps
    <3>1. CASE phase = "run"
      <4>1. run \in Runs
        BY <3>1 DEF ExecutionInv, RunInv
      <4> QED
        BY <4>1, RunsAre
    <3>2. CASE phase # "run"
      BY <3>2, BlocksAssumption DEF IdleInv, Idle
    <3> QED
      BY <3>1, <3>2
  <2> QED
    BY <2>1, <2>2, <2>3 DEF Typed, AllocTypeOK
<1> QED
  BY <1>1, <1>2, ExecutionInvHolds, PTL
-----------------------------------------------------------------------------
(***************************************************************************)
(* Coalescing: for any interference and any copies, in any order,          *)
(* temporaries that interfere never share a slot, and a copy is kept only  *)
(* if its webs interfere.                                                  *)
(*                                                                         *)
(* The invariant is that the neighbours of an endpoint are exactly the     *)
(* endpoints of the webs that clash with its own.  It makes the test of    *)
(* one source against the neighbours of one target a test of two webs, so  *)
(* no web ever clashes with itself; and the neighbours of the two          *)
(* endpoints of a pair are those of their whole webs, so nothing is lost   *)
(* when the extras of the other members are dropped.                       *)
(***************************************************************************)
\* No web has two members that interfere.
NoInnerClash == \A t \in Endpoints : ~ Clash(t, t)

\* Generations are given out in ascending order.
GenerationsAscend == \A d \in Endpoints : wgen[d] <= gen /\ xgen[d] <= gen

\* The least member of a web is one of its members.
LeastIsMember == \A d \in Endpoints : root[root[d]] = root[d] /\ root[wmin[root[d]]] = root[d]

WebsInv ==
  /\ CoalesceTypeOK
  /\ GenerationsAscend
  /\ LeastIsMember
  /\ NeighboursExact
  /\ NoInnerClash
  /\ NoCopyKeptInVain

-----------------------------------------------------------------------------

\* The endpoints are temporaries.
LEMMA EndpointsAreTemps == CoalesceTypeOK => Endpoints \subseteq Temps
BY DEF CoalesceTypeOK, Endpoints

\* Initially every endpoint is a web of its own.
LEMMA WebsInitially == CoalesceInit => WebsInv
<1> SUFFICES ASSUME CoalesceInit PROVE WebsInv
  OBVIOUS
<1>1. inter \in Graphs /\ pairs \subseteq Copies
  BY DEF CoalesceInit
<1>2. /\ inter \in [Temps -> SUBSET Temps] /\ Symmetric(inter)
      /\ pairs \subseteq Temps \X Temps
  BY <1>1, GraphsAssumption DEF Copies
<1>3. Endpoints \subseteq Temps
  BY <1>2 DEF Endpoints
<1>4. CoalesceTypeOK
  BY <1>2, <1>3 DEF CoalesceTypeOK, CoalesceInit
<1>5. GenerationsAscend /\ LeastIsMember
  BY DEF GenerationsAscend, LeastIsMember, CoalesceInit
<1>6. \A t, s \in Endpoints : Clash(t, s) <=> s \in inter[t]
  BY DEF Clash, CoalesceInit
<1>7. NeighboursExact
  BY <1>6 DEF NeighboursExact, Neighbours, Extras, CoalesceInit
<1>8. NoInnerClash
  BY <1>2, <1>3, <1>6 DEF NoInnerClash, Symmetric
<1>9. NoCopyKeptInVain
  BY DEF NoCopyKeptInVain, CoalesceInit
<1>10. QED
  BY <1>4, <1>5, <1>7, <1>8, <1>9 DEF WebsInv

\* Two webs clash whichever is named first, and whatever members name them.
LEMMA ClashOfWebs ==
  ASSUME CoalesceTypeOK, NEW t \in Endpoints, NEW s \in Endpoints
  PROVE  /\ Clash(t, s) => Clash(s, t)
         /\ \A u \in Endpoints : root[u] = root[t] => (Clash(u, s) <=> Clash(t, s))
BY EndpointsAreTemps DEF Clash, CoalesceTypeOK, Symmetric

\* A merge of two webs.
LEMMA MergeKeeps ==
  ASSUME WebsInv, NEW p \in left, left' = left \ {p}, MergePair(p[1], p[2]), UNCHANGED <<inter, pairs>>
  PROVE  WebsInv'
<1> DEFINE t == p[1]
           s == p[2]
           w == Survivor(t, s)
           o == Absorbed(t, s)
           b == MergedBase(t, s)
           web == Members(root[t]) \cup Members(root[s])
<1> USE DEF WebsInv
<1>1. t \in Endpoints /\ s \in Endpoints /\ Endpoints' = Endpoints
  BY DEF Endpoints, CoalesceTypeOK
<1>2. /\ MayMerge(t, s)
      /\ root' = [d \in Endpoints |-> IF d \in web THEN w ELSE root[d]]
      /\ members' = IF w = o THEN members ELSE [members EXCEPT ![w] = @ + members[o]]
      /\ wmin' = [wmin EXCEPT ![w] = IF wmin[o] < @ THEN wmin[o] ELSE @]
      /\ base' = [base EXCEPT ![w] = b]
      /\ gen' = gen + 1
      /\ wgen' = [wgen EXCEPT ![w] = gen + 1]
      /\ extra' = [d \in Endpoints |->
           IF d \notin b THEN extra[d]
           ELSE web \cup IF xgen[d] = wgen'[root'[d]] THEN extra[d] ELSE {}]
      /\ xgen' = [d \in Endpoints |-> IF d \in b THEN wgen'[root'[d]] ELSE xgen[d]]
  BY DEF MergePair
<1>3. /\ w \in Endpoints /\ o \in Endpoints
      /\ {w, o} = {root[t], root[s]}
      /\ root[w] = w /\ root[o] = o
  BY <1>1 DEF Survivor, Absorbed, CoalesceTypeOK, LeastIsMember
<1>4. /\ web \subseteq Endpoints
      /\ \A d \in Endpoints : d \in web <=> root[d] = root[t] \/ root[d] = root[s]
      /\ w \in web /\ t \in web /\ s \in web
  BY <1>1, <1>3 DEF Members
<1>5. /\ \A d \in web : root'[d] = w
      /\ \A d \in Endpoints \ web : root'[d] = root[d] /\ root[d] # w /\ root[d] # o
  BY <1>2, <1>3, <1>4
<1>6. ~ Clash(t, s) /\ ~ Clash(s, t) /\ ~ Clash(t, t) /\ ~ Clash(s, s)
  BY <1>1, <1>2, ClashOfWebs DEF MayMerge, NeighboursExact, NoInnerClash
<1>7. \A d \in Endpoints : d \in b <=> Clash(t, d) \/ Clash(s, d)
  <2>1. b \subseteq Endpoints
    BY <1>1 DEF MergedBase, Neighbours, Extras, CoalesceTypeOK
  <2>2. b = Neighbours(t) \cup Neighbours(s)
    BY DEF MergedBase
  <2>3. ASSUME NEW d \in Endpoints
        PROVE  (d \in Neighbours(t) <=> Clash(t, d)) /\ (d \in Neighbours(s) <=> Clash(s, d))
    <3> HIDE DEF t, s
    <3>1. QED
      BY <1>1 DEF NeighboursExact
  <2>4. QED
    BY <2>2, <2>3
<1>8. b \subseteq Endpoints /\ b \cap web = {}
  <2>1. b \subseteq Endpoints
    BY <1>1 DEF MergedBase, Neighbours, Extras, CoalesceTypeOK
  <2>2. ASSUME NEW d \in web, d \in b PROVE FALSE
    <3>1. Clash(t, d) \/ Clash(s, d)
      BY <1>4, <1>7, <2>2
    <3>2. Clash(d, t) \/ Clash(d, s)
      BY <1>1, <1>4, <3>1, ClashOfWebs
    <3>3. CASE root[d] = root[t]
      BY <1>1, <1>4, <1>6, <3>2, <3>3, ClashOfWebs
    <3>4. CASE root[d] = root[s]
      BY <1>1, <1>4, <1>6, <3>2, <3>4, ClashOfWebs
    <3>5. QED
      BY <1>4, <3>3, <3>4
  <2>3. QED
    BY <2>1, <2>2
<1>9. /\ \A d \in Endpoints \ {w} : base'[d] = base[d] /\ wgen'[d] = wgen[d]
      /\ base'[w] = b /\ wgen'[w] = gen + 1
  BY <1>2, <1>3 DEF CoalesceTypeOK
<1>10. CoalesceTypeOK'
  <2>1. root' \in [Endpoints -> Endpoints]
    BY <1>2, <1>3 DEF CoalesceTypeOK
  <2>2. members' \in [Endpoints -> Nat] /\ wmin' \in [Endpoints -> Endpoints]
    <3>1. members[w] + members[o] \in Nat
      BY <1>3 DEF CoalesceTypeOK
    <3>2. members' \in [Endpoints -> Nat]
      <4>1. CASE w = o
        BY <1>2, <4>1 DEF CoalesceTypeOK
      <4>2. CASE w # o
        BY <1>2, <1>3, <3>1, <4>2 DEF CoalesceTypeOK
      <4>3. QED
        BY <4>1, <4>2
    <3>3. wmin' \in [Endpoints -> Endpoints]
      <4>1. wmin[o] \in Endpoints /\ wmin[w] \in Endpoints
        BY <1>3 DEF CoalesceTypeOK
      <4>2. (IF wmin[o] < wmin[w] THEN wmin[o] ELSE wmin[w]) \in Endpoints
        BY <4>1
      <4>3. QED
        BY <1>2, <1>3, <4>2 DEF CoalesceTypeOK
    <3>4. QED
      BY <3>2, <3>3
  <2>3. base' \in [Endpoints -> SUBSET Endpoints]
    BY <1>2, <1>8 DEF CoalesceTypeOK
  <2>4. wgen' \in [Endpoints -> Nat] /\ gen' \in Nat
    <3>1. gen + 1 \in Nat
      BY DEF CoalesceTypeOK
    <3>2. QED
      BY <1>2, <3>1 DEF CoalesceTypeOK
  <2>5. xgen' \in [Endpoints -> Nat]
    <3>1. \A d \in Endpoints : wgen'[root'[d]] \in Nat
      BY <2>1, <2>4
    <3>2. \A d \in Endpoints : xgen[d] \in Nat
      BY DEF CoalesceTypeOK
    <3>3. QED
      BY <1>2, <3>1, <3>2
  <2>6. extra' \in [Endpoints -> SUBSET Endpoints]
    BY <1>2, <1>4 DEF CoalesceTypeOK
  <2>7. QED
    BY <1>1, <2>1, <2>2, <2>3, <2>4, <2>5, <2>6 DEF CoalesceTypeOK
<1>11. GenerationsAscend'
  <2>1. \A d \in Endpoints : wgen'[d] <= gen'
    BY <1>2, <1>9 DEF GenerationsAscend, CoalesceTypeOK
  <2>2. \A d \in Endpoints : xgen'[d] <= gen'
    BY <1>2, <1>10, <2>1 DEF GenerationsAscend, CoalesceTypeOK
  <2>3. QED
    BY <1>1, <2>1, <2>2 DEF GenerationsAscend
<1>12. LeastIsMember'
  <2>1. ASSUME NEW d \in Endpoints PROVE root'[root'[d]] = root'[d] /\ root'[wmin'[root'[d]]] = root'[d]
    <3>1. CASE d \in web
      <4>1. wmin'[w] \in {wmin[w], wmin[o]}
        BY <1>2, <1>3 DEF CoalesceTypeOK
      <4>2. root[wmin[w]] = w /\ root[wmin[o]] = o /\ wmin[w] \in Endpoints /\ wmin[o] \in Endpoints
        BY <1>3 DEF LeastIsMember, CoalesceTypeOK
      <4>3. wmin'[w] \in web
        BY <1>3, <1>4, <4>1, <4>2
      <4>4. QED
        BY <1>4, <1>5, <3>1, <4>3
    <3>2. CASE d \notin web
      <4>1. root'[d] = root[d] /\ root[d] # w /\ root[d] # o /\ root[d] \in Endpoints
        BY <1>5, <3>2 DEF CoalesceTypeOK
      <4>2. wmin'[root[d]] = wmin[root[d]] /\ wmin[root[d]] \in Endpoints
        BY <1>2, <4>1 DEF CoalesceTypeOK
      <4>3. root[root[d]] = root[d] /\ root[wmin[root[d]]] = root[d]
        BY DEF LeastIsMember
      <4>4. root[d] \notin web /\ wmin[root[d]] \notin web
        BY <1>4, <3>2, <4>1, <4>2, <4>3
      <4>5. QED
        BY <1>5, <4>1, <4>2, <4>3, <4>4
    <3>3. QED
      BY <3>1, <3>2
  <2>2. QED
    BY <1>1, <2>1 DEF LeastIsMember
\* What clashes after the merge.
<1>13. ASSUME NEW d \in Endpoints, NEW e \in Endpoints
       PROVE  /\ d \notin web /\ e \notin web => (Clash(d, e)' <=> Clash(d, e))
              /\ d \in web /\ e \notin web => (Clash(d, e)' <=> Clash(t, e) \/ Clash(s, e))
              /\ d \notin web /\ e \in web => (Clash(d, e)' <=> Clash(d, t) \/ Clash(d, s))
              /\ d \in web /\ e \in web => ~ Clash(d, e)'
  <2>1. Clash(d, e)' <=> \E x, y \in Endpoints : root'[x] = root'[d] /\ root'[y] = root'[e] /\ y \in inter[x]
    BY <1>1 DEF Clash
  <2>2. \A x, y \in Endpoints : x \notin web => (root'[y] = root'[x] <=> root[y] = root[x])
    BY <1>4, <1>5
  <2>3. \A x, y \in Endpoints : x \in web => (root'[y] = root'[x] <=> y \in web)
    BY <1>5
  <2>4. CASE d \notin web /\ e \notin web
    BY <2>1, <2>2, <2>4 DEF Clash
  <2>5. CASE d \in web /\ e \notin web
    BY <1>4, <2>1, <2>2, <2>3, <2>5 DEF Clash
  <2>6. CASE d \notin web /\ e \in web
    BY <1>4, <2>1, <2>2, <2>3, <2>6 DEF Clash
  <2>7. CASE d \in web /\ e \in web
    BY <1>4, <1>6, <2>1, <2>3, <2>7 DEF Clash
  <2>8. QED
    BY <2>4, <2>5, <2>6, <2>7
\* What an endpoint knows after the merge.
<1>14. ASSUME NEW d \in Endpoints
       PROVE  /\ d \in web => Neighbours(d)' = b
              /\ d \notin web /\ d \in b => Neighbours(d)' = Neighbours(d) \cup web
              /\ d \notin web /\ d \notin b => Neighbours(d)' = Neighbours(d)
  <2>1. Neighbours(d)' = base'[root'[d]] \cup (IF xgen'[d] = wgen'[root'[d]] THEN extra'[d] ELSE {})
    BY DEF Neighbours, Extras
  <2>2. CASE d \in web
    <3>1. d \notin b /\ xgen'[d] = xgen[d]
      BY <1>2, <1>8, <2>2
    <3>2. xgen'[d] # wgen'[root'[d]]
      BY <1>5, <1>9, <2>2, <3>1 DEF GenerationsAscend, CoalesceTypeOK
    <3>3. QED
      BY <1>5, <1>9, <2>1, <2>2, <3>2
  <2>3. CASE d \notin web
    <3>1. root'[d] = root[d] /\ base'[root[d]] = base[root[d]] /\ wgen'[root[d]] = wgen[root[d]]
      BY <1>5, <1>9, <2>3 DEF CoalesceTypeOK
    <3>2. CASE d \in b
      <4>1. extra'[d] = web \cup Extras(d) /\ xgen'[d] = wgen'[root'[d]]
        BY <1>2, <3>1, <3>2 DEF Extras
      <4>2. QED
        BY <2>1, <2>3, <3>1, <3>2, <4>1 DEF Neighbours
    <3>3. CASE d \notin b
      <4>1. extra'[d] = extra[d] /\ xgen'[d] = xgen[d]
        BY <1>2, <3>3
      <4>2. QED
        BY <2>1, <2>3, <3>1, <3>3, <4>1 DEF Neighbours, Extras
    <3>4. QED
      BY <3>2, <3>3
  <2>4. QED
    BY <2>2, <2>3
<1>15. NeighboursExact'
  <2> SUFFICES ASSUME NEW d \in Endpoints, NEW e \in Endpoints
               PROVE  e \in Neighbours(d)' <=> Clash(d, e)'
    BY <1>1 DEF NeighboursExact
  <2>1. CASE d \in web /\ e \in web
    BY <1>8, <1>13, <1>14, <2>1
  <2>2. CASE d \in web /\ e \notin web
    BY <1>7, <1>13, <1>14, <2>2
  <2>3. CASE d \notin web /\ e \notin web
    BY <1>13, <1>14, <2>3 DEF NeighboursExact
  <2>4. CASE d \notin web /\ e \in web
    <3>1. d \in b <=> Clash(d, t) \/ Clash(d, s)
      BY <1>1, <1>7, ClashOfWebs
    <3>2. e \in Neighbours(d) => Clash(d, t) \/ Clash(d, s)
      <4>1. SUFFICES ASSUME Clash(d, e) PROVE Clash(d, t) \/ Clash(d, s)
        BY DEF NeighboursExact
      <4>2. root[e] = root[t] \/ root[e] = root[s]
        BY <1>4, <2>4
      <4>3. QED
        BY <4>1, <4>2 DEF Clash
    <3>3. QED
      BY <1>13, <1>14, <2>4, <3>1, <3>2
  <2>5. QED
    BY <2>1, <2>2, <2>3, <2>4
<1>16. NoInnerClash'
  <2> SUFFICES ASSUME NEW d \in Endpoints PROVE ~ Clash(d, d)'
    BY <1>1 DEF NoInnerClash
  <2>1. QED
    BY <1>13 DEF NoInnerClash
<1>17. NoCopyKeptInVain'
  <2> SUFFICES ASSUME NEW q \in pairs \ left'
               PROVE  root'[q[1]] = root'[q[2]] \/ Clash(q[1], q[2])'
    BY DEF NoCopyKeptInVain
  <2>1. q[1] \in Endpoints /\ q[2] \in Endpoints
    BY DEF Endpoints
  <2>2. CASE q = p
    BY <1>4, <1>5, <2>2
  <2>3. CASE q # p
    <3>1. root[q[1]] = root[q[2]] \/ Clash(q[1], q[2])
      BY <2>3 DEF NoCopyKeptInVain
    <3>2. root[q[1]] = root[q[2]] => root'[q[1]] = root'[q[2]]
      BY <1>4, <1>5, <2>1
    <3>3. Clash(q[1], q[2]) => Clash(q[1], q[2])'
      <4>1. \A x, y \in Endpoints : root[x] = root[y] => root'[x] = root'[y]
        BY <1>4, <1>5
      <4>2. QED
        BY <1>1, <2>1, <4>1 DEF Clash
    <3>4. QED
      BY <3>1, <3>2, <3>3
  <2>4. QED
    BY <2>2, <2>3
<1>18. QED
  BY <1>10, <1>11, <1>12, <1>15, <1>16, <1>17

\* A pair that is refused.
LEMMA RefuseKeeps ==
  ASSUME WebsInv, NEW p \in left, left' = left \ {p}, Refuse(p[1], p[2]), UNCHANGED <<inter, pairs>>
  PROVE  WebsInv'
<1> USE DEF WebsInv
<1>1. Endpoints' = Endpoints /\ p[1] \in Endpoints /\ p[2] \in Endpoints
  BY DEF Endpoints, CoalesceTypeOK
<1>2. UNCHANGED <<root, members, wmin, base, extra, wgen, xgen, gen, inter, pairs>>
  BY DEF Refuse
<1>3. CoalesceTypeOK' /\ GenerationsAscend' /\ LeastIsMember'
  BY <1>1, <1>2 DEF CoalesceTypeOK, GenerationsAscend, LeastIsMember
<1>4. \A d, e \in Endpoints : Clash(d, e)' <=> Clash(d, e)
  BY <1>1, <1>2 DEF Clash
<1>5. NeighboursExact' /\ NoInnerClash'
  BY <1>1, <1>2, <1>4 DEF NeighboursExact, NoInnerClash, Neighbours, Extras
<1>6. Clash(p[1], p[2])
  BY <1>1 DEF Refuse, MayMerge, NeighboursExact
<1>7. NoCopyKeptInVain'
  <2> SUFFICES ASSUME NEW q \in pairs \ left'
               PROVE  root[q[1]] = root[q[2]] \/ Clash(q[1], q[2])'
    BY <1>2 DEF NoCopyKeptInVain
  <2>1. q[1] \in Endpoints /\ q[2] \in Endpoints
    BY DEF Endpoints
  <2>2. QED
    BY <1>4, <1>6, <2>1 DEF NoCopyKeptInVain
<1>8. QED
  BY <1>3, <1>5, <1>7

\* The invariant holds in every reachable state.
THEOREM Invariant == CoalesceSpec => []WebsInv
<1>1. WebsInv /\ [CoalesceNext]_webVars => WebsInv'
  <2> SUFFICES ASSUME WebsInv, [CoalesceNext]_webVars PROVE WebsInv'
    OBVIOUS
  <2>1. CASE CoalesceNext
    <3>1. PICK p \in left : /\ left' = left \ {p}
                            /\ MergePair(p[1], p[2]) \/ Refuse(p[1], p[2])
                            /\ UNCHANGED <<inter, pairs>>
      BY <2>1 DEF CoalesceNext
    <3>2. CASE MergePair(p[1], p[2])
      BY <3>1, <3>2, MergeKeeps
    <3>3. CASE Refuse(p[1], p[2])
      BY <3>1, <3>3, RefuseKeeps
    <3>4. QED
      BY <3>1, <3>2, <3>3
  <2>2. CASE UNCHANGED webVars
    <3> USE DEF WebsInv
    <3>1. Endpoints' = Endpoints /\ UNCHANGED <<inter, pairs, left, root, members, wmin, base, extra, wgen, xgen, gen>>
      BY <2>2 DEF webVars, Endpoints
    <3>2. CoalesceTypeOK' /\ GenerationsAscend' /\ LeastIsMember'
      BY <3>1 DEF CoalesceTypeOK, GenerationsAscend, LeastIsMember
    <3>3. \A d, e \in Endpoints : Clash(d, e)' <=> Clash(d, e)
      BY <3>1 DEF Clash
    <3>4. NeighboursExact' /\ NoInnerClash'
      BY <3>1, <3>3 DEF NeighboursExact, NoInnerClash, Neighbours, Extras
    <3>5. \A q \in pairs : q[1] \in Endpoints /\ q[2] \in Endpoints
      BY DEF Endpoints
    <3>6. NoCopyKeptInVain'
      BY <3>1, <3>3, <3>5 DEF NoCopyKeptInVain
    <3>7. QED
      BY <3>2, <3>4, <3>6
  <2>3. QED
    BY <2>1, <2>2
<1>2. QED
  BY <1>1, WebsInitially, PTL DEF CoalesceSpec

\* Every reachable state is well typed.
THEOREM WebsTypeCorrect == CoalesceSpec => []CoalesceTypeOK
BY Invariant, PTL DEF WebsInv

\* The neighbours kept for an endpoint are those of its whole web.
THEOREM NeighboursAreExact == CoalesceSpec => []NeighboursExact
BY Invariant, PTL DEF WebsInv

\* A copy stays only between webs that interfere.
THEOREM CopiesAreNeeded == CoalesceSpec => []NoCopyKeptInVain
BY Invariant, PTL DEF WebsInv

\* Temporaries that interfere never share a slot.
THEOREM SlotsAreAlwaysSafe == CoalesceSpec => []SlotsAreSafe
<1>1. WebsInv => SlotsAreSafe
  <2> SUFFICES ASSUME WebsInv, NEW t \in Temps, NEW u \in inter[t], Canonical(t) = Canonical(u)
               PROVE  FALSE
    BY DEF SlotsAreSafe
  <2>1. u \in Temps /\ u # t
    BY DEF WebsInv, CoalesceTypeOK, Symmetric
  <2>2. ASSUME NEW d \in Endpoints PROVE Canonical(d) \in Endpoints /\ root[Canonical(d)] = root[d]
    BY DEF WebsInv, CoalesceTypeOK, LeastIsMember, Canonical
  <2>3. CASE t \in Endpoints /\ u \in Endpoints
    <3>1. root[t] = root[u]
      BY <2>2, <2>3
    <3>2. Clash(t, t)
      BY <2>3, <3>1 DEF Clash
    <3>3. QED
      BY <2>3, <3>2 DEF WebsInv, NoInnerClash
  <2>4. CASE t \notin Endpoints \/ u \notin Endpoints
    BY <2>1, <2>2, <2>4 DEF Canonical
  <2>5. QED
    BY <2>3, <2>4
<1>2. QED
  BY <1>1, Invariant, PTL
=============================================================================
