---------------------------- MODULE StreamsProofs ----------------------------
(***************************************************************************)
(* Proofs about streams, for any declarations (sonolus/script/stream.py):  *)
(* what was written is read back, and iterators deliver what there is.     *)
(*                                                                         *)
(* Each number that is written has a place, a stream of the engine and a   *)
(* key, of its own, since a declared stream begins where the one before it *)
(* ends (Laid).  An iterator has delivered what lies on its side up to its *)
(* current key (Position).                                                 *)
(***************************************************************************)
EXTENDS Streams, SequenceTheorems, WellFoundedInduction, TLAPS

-----------------------------------------------------------------------------
(* Numbers.                                                                *)

\* A set of numbers has a least one.
LEMMA LeastNatural ==
  ASSUME NEW S \in SUBSET Nat, S # {}
  PROVE  \E m \in S : \A n \in S : m <= n
<1> DEFINE R == OpToRel(<, Nat)
<1>1. IsWellFoundedOn(R, Nat)
  BY NatLessThanWellFounded
<1>2. \A p, q \in Nat : p < q => <<p, q>> \in R
  BY DEF OpToRel
<1> HIDE DEF R
<1>3. PICK m \in S : \A p \in S : ~ (<<p, m>> \in R)
  BY <1>1, WFMin
<1>4. \A n \in S : ~ (n < m)
  BY <1>2, <1>3
<1> QED
  BY <1>4

\* A set of times that is not empty has a first and a last one.
LEMMA FirstAndLast ==
  ASSUME NEW N \in Nat, NEW S \in SUBSET (-N .. N), S # {}
  PROVE  /\ Min(S) \in S /\ \A k \in S : Min(S) <= k
         /\ Max(S) \in S /\ \A k \in S : k <= Max(S)
<1>1. \E m \in S : \A k \in S : m <= k
  <2> DEFINE T == {k + N : k \in S}
  <2>1. T \in SUBSET Nat /\ T # {}
    OBVIOUS
  <2>2. PICK t \in T : \A u \in T : t <= u
    BY <2>1, LeastNatural
  <2>3. PICK m \in S : t = m + N
    BY <2>2
  <2>4. \A k \in S : m + N <= k + N
    BY <2>2, <2>3
  <2> QED
    BY <2>4
<1>2. \E m \in S : \A k \in S : k <= m
  <2> DEFINE T == {N - k : k \in S}
  <2>1. T \in SUBSET Nat /\ T # {}
    OBVIOUS
  <2>2. PICK t \in T : \A u \in T : t <= u
    BY <2>1, LeastNatural
  <2>3. PICK m \in S : t = N - m
    BY <2>2
  <2>4. \A k \in S : N - m <= N - k
    BY <2>2, <2>3
  <2> QED
    BY <2>4
<1> QED
  BY <1>1, <1>2 DEF Min, Max

\* What holds of the first number of a range, and of each number if it holds of
\* the one before, holds of all.
LEMMA OneByOne ==
  ASSUME NEW a \in Int, NEW b \in Int, NEW T, a \in T,
         \A n \in a + 1 .. b : n - 1 \in T => n \in T
  PROVE  a .. b \subseteq T
<1> SUFFICES ASSUME ~ (a .. b \subseteq T) PROVE FALSE
  OBVIOUS
<1> DEFINE U == {n - a : n \in (a .. b) \ T}
<1>1. U \in SUBSET Nat /\ U # {}
  OBVIOUS
<1>2. PICK u \in U : \A v \in U : u <= v
  BY <1>1, LeastNatural
<1>3. PICK n \in (a .. b) \ T : u = n - a
  BY <1>2
<1>4. n \in a + 1 .. b /\ n - 1 \in a .. b
  BY <1>3
<1>5. n - 1 \notin T => n - 1 - a \in U
  BY <1>4
<1> HIDE DEF U
<1>6. n - 1 \in T
  BY <1>2, <1>3, <1>4, <1>5
<1> QED
  BY <1>3, <1>4, <1>6

LEMMA OneByOneFromOne ==
  ASSUME NEW b \in Nat, NEW T, b # 0 => 1 \in T,
         \A n \in 1 .. b : n # 1 /\ n - 1 \in T => n \in T
  PROVE  1 .. b \subseteq T
<1>1. CASE b = 0
  BY <1>1
<1>2. CASE b # 0
  <2>1. \A n \in 1 + 1 .. b : n - 1 \in T => n \in T
    OBVIOUS
  <2>2. 1 \in Int /\ b \in Int /\ 1 \in T
    BY <1>2
  <2> QED
    BY <2>1, <2>2, OneByOne
<1> QED
  BY <1>1, <1>2

Stepwise(f, a, b, first, step) == \A n \in a .. b : f[n] = IF n = a THEN first ELSE step[<<n, f[n - 1]>>]

\* A function on a range may be defined by its first value, and each other one
\* from the value before.
LEMMA StepByStep ==
  ASSUME NEW a \in Int, NEW b \in Int, NEW V, NEW first \in V, NEW step \in [(a .. b) \X V -> V]
  PROVE  \E f \in [a .. b -> V] : Stepwise(f, a, b, first, step)
<1> USE DEF Stepwise
<1> DEFINE Upto(f, m) == Stepwise(f, a, m, first, step)
           T == {m \in a .. b : \E f \in [a .. b -> V] : Upto(f, m)}
<1>1. CASE a > b
  <2>1. a .. b = {}
    BY <1>1
  <2> DEFINE f == [n \in a .. b |-> first]
  <2>2. f \in [a .. b -> V]
    OBVIOUS
  <2> QED
    BY <2>1, <2>2
<1>2. CASE a <= b
  <2>1. a \in T
    <3> DEFINE f == [n \in a .. b |-> first]
    <3>1. f \in [a .. b -> V] /\ a \in a .. b /\ f[a] = first
      BY <1>2
    <3>2. \A n \in a .. a : n = a
      OBVIOUS
    <3> HIDE DEF f
    <3>3. Upto(f, a)
      BY <3>1, <3>2
    <3> QED
      BY <3>1, <3>3
  <2>2. ASSUME NEW m \in a + 1 .. b, m - 1 \in T PROVE m \in T
    <3>1. PICK g \in [a .. b -> V] : Upto(g, m - 1)
      BY <2>2
    <3>2. m \in a .. b /\ m - 1 \in a .. b /\ m # a
      BY <2>2
    <3>3. PICK v : v = step[<<m, g[m - 1]>>]
      OBVIOUS
    <3>4. v \in V
      BY <3>2, <3>3
    <3> DEFINE f == [n \in a .. b |-> IF n = m THEN v ELSE g[n]]
    <3>5. f \in [a .. b -> V] /\ f[m] = v /\ \A n \in a .. m - 1 : f[n] = g[n]
      BY <3>2, <3>4
    <3> HIDE DEF f
    <3>6. ASSUME NEW n \in a .. m PROVE f[n] = IF n = a THEN first ELSE step[<<n, f[n - 1]>>]
      <4>1. CASE n = m
        <5>1. f[m - 1] = g[m - 1]
          BY <3>2, <3>5
        <5> QED
          BY <3>2, <3>3, <3>5, <4>1, <5>1
      <4>2. CASE n # m
        <5>1. n \in a .. m - 1 /\ (n # a => n - 1 \in a .. m - 1)
          BY <3>2, <4>2
        <5> QED
          BY <3>1, <3>5, <5>1
      <4> QED
        BY <4>1, <4>2
    <3> QED
      BY <3>2, <3>5, <3>6
  <2>3. b \in T
    <3> HIDE DEF T
    <3>1. a .. b \subseteq T
      BY <2>1, <2>2, OneByOne
    <3> QED
      BY <1>2, <3>1
  <2>4. PICK f \in [a .. b -> V] : Upto(f, b)
    BY <2>3
  <2> QED
    BY <2>4
<1> QED
  BY <1>1, <1>2
-----------------------------------------------------------------------------
(* Where fields lie.                                                       *)

Laid ==
  /\ fields \in Seq(Fields) /\ offsets = OffsetsOf(fields)
  /\ \A i \in DOMAIN fields : offsets[i] + BackingSize(fields[i]) - 1 <= MaxStream

LEMMA Products ==
  ASSUME NEW a \in Nat, NEW j \in Nat, NEW k \in Nat
  PROVE  /\ a * j \in Nat /\ a * k \in Nat
         /\ j < k => a * j + a <= a * k
<1>1. a * j \in Nat /\ a * k \in Nat
  OBVIOUS
<1>2. ASSUME j < k PROVE a * j + a <= a * k
  <2>1. PICK d : d = k - (j + 1)
    OBVIOUS
  <2>2. d \in Nat /\ k = j + 1 + d
    BY <1>2, <2>1
  <2>3. a * d \in Nat /\ a * (j + 1 + d) = a * j + a + a * d
    BY <2>2
  <2> QED
    BY <1>1, <2>2, <2>3
<1> QED
  BY <1>1, <1>2

LEMMA FieldFacts ==
  ASSUME NEW f \in Fields
  PROVE  /\ f.kind \in {"stream", "group", "data"} /\ f.size \in Nat /\ f.count \in Nat
         /\ Larger(1, f.size) \in Nat /\ Larger(1, f.size) >= 1 /\ Larger(1, f.size) >= f.size
         /\ BackingSize(f) \in Nat
         /\ f.kind = "data" => BackingSize(f) = 1
         /\ f.kind # "data" => BackingSize(f) = Larger(1, f.size) * f.count
<1>1. f.kind \in {"stream", "group", "data"} /\ f.size \in Nat /\ f.count \in Nat
  BY DEF Fields
<1>2. Larger(1, f.size) \in Nat /\ Larger(1, f.size) >= 1 /\ Larger(1, f.size) >= f.size
  BY <1>1 DEF Larger
<1>3. Larger(1, f.size) * f.count \in Nat
  BY <1>1, <1>2, Products
<1>4. /\ f.kind = "data" => BackingSize(f) = 1
      /\ f.kind # "data" => BackingSize(f) = Larger(1, f.size) * f.count
  BY DEF BackingSize
<1>5. BackingSize(f) \in Nat
  BY <1>3, <1>4
<1> QED
  BY <1>1, <1>2, <1>4, <1>5

LEMMA OffsetsAre ==
  ASSUME NEW fs \in Seq(Fields)
  PROVE  /\ \A i \in 1 .. Len(fs) : OffsetsOf(fs)[i] = IF i = 1 THEN 1 ELSE OffsetsOf(fs)[i - 1] + BackingSize(fs[i - 1])
         /\ \A i \in 1 .. Len(fs) : OffsetsOf(fs)[i] \in Nat \ {0}
<1> DEFINE Is(f) == f = [i \in 1 .. Len(fs) |-> IF i = 1 THEN 1 ELSE f[i - 1] + BackingSize(fs[i - 1])]
           step == [p \in (1 .. Len(fs)) \X Int |-> IF p[1] = 1 THEN 1 ELSE p[2] + BackingSize(fs[p[1] - 1])]
           g == CHOOSE f : Is(f)
<1>1. Len(fs) \in Nat /\ \A i \in 1 .. Len(fs) : fs[i] \in Fields /\ BackingSize(fs[i]) \in Nat
  BY FieldFacts
<1>2. \A i \in 1 .. Len(fs) : i # 1 => i - 1 \in 1 .. Len(fs)
  BY <1>1
<1>3. \E f : Is(f)
  <2>1. step \in [(1 .. Len(fs)) \X Int -> Int]
    <3> SUFFICES ASSUME NEW p \in (1 .. Len(fs)) \X Int PROVE (IF p[1] = 1 THEN 1 ELSE p[2] + BackingSize(fs[p[1] - 1])) \in Int
      OBVIOUS
    <3>1. p[1] \in 1 .. Len(fs) /\ p[2] \in Int
      OBVIOUS
    <3> QED
      BY <1>1, <1>2, <3>1
  <2>2. PICK f \in [1 .. Len(fs) -> Int] : \A i \in 1 .. Len(fs) : f[i] = IF i = 1 THEN 1 ELSE step[<<i, f[i - 1]>>]
    <3>1. 1 \in Int /\ Len(fs) \in Int
      BY <1>1
    <3>2. 1 \in Int
      OBVIOUS
    <3>3. \E f \in [1 .. Len(fs) -> Int] : Stepwise(f, 1, Len(fs), 1, step)
      <4> HIDE DEF step
      <4> QED
        BY <2>1, <3>1, <3>2, StepByStep
    <3> HIDE DEF step
    <3> QED
      BY <3>3 DEF Stepwise
  <2>4. ASSUME NEW i \in 1 .. Len(fs) PROVE f[i] = IF i = 1 THEN 1 ELSE f[i - 1] + BackingSize(fs[i - 1])
    <3>1. f[i] = IF i = 1 THEN 1 ELSE step[<<i, f[i - 1]>>]
      BY <2>2
    <3>2. i # 1 => f[i - 1] \in Int
      BY <1>2
    <3>3. i # 1 => step[<<i, f[i - 1]>>] = f[i - 1] + BackingSize(fs[i - 1])
      BY <3>2
    <3> QED
      BY <3>1, <3>3
  <2>5. DOMAIN f = 1 .. Len(fs) /\ f = [i \in 1 .. Len(fs) |-> f[i]]
    BY <2>2
  <2>6. Is(f)
    BY <2>4, <2>5
  <2> QED
    BY <2>6
<1>4. Is(g)
  BY <1>3
<1>5. OffsetsOf(fs) = g
  BY DEF OffsetsOf
<1> HIDE DEF g
<1>6. \A i \in 1 .. Len(fs) : g[i] = IF i = 1 THEN 1 ELSE g[i - 1] + BackingSize(fs[i - 1])
  BY <1>4
<1> DEFINE T == {i \in Int : g[i] \in Nat \ {0}}
<1>7. 1 .. Len(fs) \subseteq T
  <2>1. 1 \in 1 .. Len(fs) => 1 \in T
    BY <1>6
  <2>2. ASSUME NEW i \in 1 .. Len(fs), i # 1, i - 1 \in T PROVE i \in T
    <3>1. i - 1 \in 1 .. Len(fs)
      BY <1>1, <2>2
    <3>2. g[i] = g[i - 1] + BackingSize(fs[i - 1])
      BY <1>6, <2>2
    <3> QED
      BY <1>1, <2>2, <3>1, <3>2
  <2>3. Len(fs) # 0 => 1 \in T
    BY <1>1, <2>1
  <2> HIDE DEF T
  <2> QED
    BY <1>1, <2>2, <2>3, OneByOneFromOne
<1> QED
  BY <1>5, <1>6, <1>7
\* A field ends before the next ones begin.
LEMMA LaidFacts ==
  ASSUME Laid
  PROVE  /\ Len(fields) \in Nat /\ DOMAIN fields = 1 .. Len(fields)
         /\ \A i \in DOMAIN fields : fields[i] \in Fields /\ offsets[i] \in Nat \ {0} /\ BackingSize(fields[i]) \in Nat
         /\ \A i, k \in DOMAIN fields : i < k => offsets[i] + BackingSize(fields[i]) <= offsets[k]
<1>1. Len(fields) \in Nat /\ DOMAIN fields = 1 .. Len(fields) /\ \A i \in 1 .. Len(fields) : fields[i] \in Fields
  BY DEF Laid
<1>2. \A i \in 1 .. Len(fields) : BackingSize(fields[i]) \in Nat
  BY <1>1, FieldFacts
<1>3. /\ \A i \in 1 .. Len(fields) : offsets[i] = IF i = 1 THEN 1 ELSE offsets[i - 1] + BackingSize(fields[i - 1])
      /\ \A i \in 1 .. Len(fields) : offsets[i] \in Nat \ {0}
  BY OffsetsAre DEF Laid
<1>4. ASSUME NEW i \in 1 .. Len(fields), NEW k \in 1 .. Len(fields), i < k
      PROVE  offsets[i] + BackingSize(fields[i]) <= offsets[k]
  <2> DEFINE T == {n \in Int : n \in 1 .. Len(fields) /\ offsets[i] + BackingSize(fields[i]) <= offsets[n]}
  <2>1. i + 1 \in Int /\ Len(fields) \in Int
    BY <1>1
  <2>2. i + 1 \in T
    <3>1. i + 1 \in 1 .. Len(fields) /\ i + 1 # 1 /\ (i + 1) - 1 = i
      BY <1>1, <1>4
    <3>2. offsets[i + 1] = offsets[i] + BackingSize(fields[i])
      BY <1>3, <3>1
    <3>3. offsets[i] + BackingSize(fields[i]) <= offsets[i + 1]
      BY <1>2, <1>3, <3>2
    <3> QED
      BY <3>1, <3>3
  <2>3. ASSUME NEW n \in i + 1 + 1 .. Len(fields), n - 1 \in T PROVE n \in T
    <3>1. n \in 1 .. Len(fields) /\ n # 1 /\ n - 1 \in 1 .. Len(fields)
      BY <1>1, <2>3
    <3>2. offsets[n] = offsets[n - 1] + BackingSize(fields[n - 1])
      BY <1>3, <3>1
    <3>3. offsets[i] + BackingSize(fields[i]) <= offsets[n - 1]
      BY <2>3
    <3>4. BackingSize(fields[n - 1]) \in Nat /\ offsets[n - 1] \in Nat /\ offsets[i] + BackingSize(fields[i]) \in Nat
      BY <1>2, <1>3, <3>1
    <3>5. offsets[i] + BackingSize(fields[i]) <= offsets[n]
      BY <3>2, <3>3, <3>4
    <3> QED
      BY <3>1, <3>5
  <2>4. k \in i + 1 .. Len(fields)
    BY <1>1, <1>4
  <2>5. i + 1 .. Len(fields) \subseteq T
    <3> HIDE DEF T
    <3> QED
      BY <2>1, <2>2, <2>3, OneByOne
  <2>6. k \in T
    BY <2>4, <2>5
  <2> QED
    BY <2>6
<1> QED
  BY <1>1, <1>2, <1>3, <1>4

-----------------------------------------------------------------------------
(* The numbers that may be written: field, stream of a group, number of    *)
(* the element and key.                                                    *)

Places ==
  {w \in (DOMAIN fields) \X Nat \X Nat \X Int :
     IF fields[w[1]].kind = "data" THEN w[2] = 0 /\ w[3] \in 1 .. fields[w[1]].size /\ w[4] = 2 * (w[3] - 1)
     ELSE w[2] \in 0 .. fields[w[1]].count - 1 /\ w[3] \in 1 .. Larger(1, fields[w[1]].size) /\ w[4] \in Times}
\* The stream of the engine.
IdOf(w) == IF fields[w[1]].kind = "data" THEN offsets[w[1]] ELSE StreamOf(w[1], w[2]) + w[3] - 1

\* The numbers of an element lie within its field.
LEMMA SlotRange ==
  ASSUME Laid, NEW i \in DOMAIN fields, fields[i].kind # "data",
         NEW j \in 0 .. fields[i].count - 1, NEW c \in 1 .. Larger(1, fields[i].size)
  PROVE  /\ StreamOf(i, j) + c - 1 \in Nat /\ offsets[i] <= StreamOf(i, j) + c - 1
         /\ StreamOf(i, j) + c - 1 < offsets[i] + BackingSize(fields[i])
         /\ StreamOf(i, j) \in Nat
<1>1. PICK f, width, base, last, start : /\ f = fields[i] /\ width = Larger(1, f.size) /\ base = width * j
                                         /\ last = width * f.count /\ start = offsets[i]
  OBVIOUS
<1>2. f \in Fields /\ start \in Nat
  BY <1>1, LaidFacts
<1>3. f.count \in Nat /\ width \in Nat /\ BackingSize(f) = last
  BY <1>1, <1>2, FieldFacts
<1>4. j \in Nat /\ j < f.count /\ c \in Nat /\ c >= 1 /\ c <= width
  BY <1>1, <1>3
<1>5. base \in Nat /\ last \in Nat /\ base + width <= last
  BY <1>1, <1>3, <1>4, Products
<1>6. StreamOf(i, j) = base + start
  BY <1>1 DEF StreamOf
<1>7. base + start + c - 1 \in Nat /\ start <= base + start + c - 1 /\ base + start + c - 1 < start + last /\ base + start \in Nat
  BY <1>2, <1>3, <1>4, <1>5
<1> QED
  BY <1>1, <1>3, <1>6, <1>7

\* A stream of the engine belongs to one field.
LEMMA OneField ==
  ASSUME Laid, NEW i \in DOMAIN fields, NEW k \in DOMAIN fields, NEW n \in Int,
         offsets[i] <= n, n < offsets[i] + BackingSize(fields[i]), offsets[k] <= n, n < offsets[k] + BackingSize(fields[k])
  PROVE  i = k
<1>1. \A x, y \in DOMAIN fields : x < y => offsets[x] + BackingSize(fields[x]) <= offsets[y]
  BY LaidFacts
<1>2. \A x \in DOMAIN fields : x \in Int /\ offsets[x] \in Nat /\ BackingSize(fields[x]) \in Nat
  BY LaidFacts
<1>3. ~ (i < k) /\ ~ (k < i)
  BY <1>1, <1>2
<1> QED
  BY <1>2, <1>3

LEMMA PlaceFacts ==
  ASSUME Laid, NEW w \in Places
  PROVE  /\ w = <<w[1], w[2], w[3], w[4]>> /\ w[1] \in DOMAIN fields /\ w[2] \in Nat /\ w[3] \in Nat \ {0} /\ w[4] \in Int
         /\ IdOf(w) \in Nat /\ offsets[w[1]] <= IdOf(w) /\ IdOf(w) < offsets[w[1]] + BackingSize(fields[w[1]])
         /\ IdOf(w) \in Backing
<1>1. /\ w = <<w[1], w[2], w[3], w[4]>> /\ w[1] \in DOMAIN fields /\ w[2] \in Nat /\ w[3] \in Nat /\ w[4] \in Int
      /\ fields[w[1]].kind = "data" => w[2] = 0 /\ w[3] \in 1 .. fields[w[1]].size
      /\ fields[w[1]].kind # "data" => w[2] \in 0 .. fields[w[1]].count - 1 /\ w[3] \in 1 .. Larger(1, fields[w[1]].size)
  BY DEF Places
<1>2. PICK f : f = fields[w[1]]
  OBVIOUS
<1>3. f \in Fields /\ offsets[w[1]] \in Nat \ {0} /\ BackingSize(f) \in Nat
  BY <1>1, <1>2, LaidFacts
<1>4. f.size \in Nat /\ f.count \in Nat /\ Larger(1, f.size) \in Nat /\ Larger(1, f.size) >= 1
  BY <1>3, FieldFacts
<1>5. w[3] >= 1
  BY <1>1, <1>2, <1>4
<1>6. IdOf(w) \in Nat /\ offsets[w[1]] <= IdOf(w) /\ IdOf(w) < offsets[w[1]] + BackingSize(fields[w[1]])
  <2>1. CASE f.kind = "data"
    <3>1. IdOf(w) = offsets[w[1]] /\ BackingSize(f) = 1
      BY <1>2, <1>3, <2>1, FieldFacts DEF IdOf
    <3> QED
      BY <1>2, <1>3, <3>1
  <2>2. CASE f.kind # "data"
    <3>1. IdOf(w) = StreamOf(w[1], w[2]) + w[3] - 1
      BY <1>2, <2>2 DEF IdOf
    <3> QED
      BY <1>1, <1>2, <2>2, <3>1, SlotRange
  <2> QED
    BY <2>1, <2>2
<1>7. IdOf(w) \in Backing
  <2>1. offsets[w[1]] + BackingSize(f) - 1 <= MaxStream /\ MaxStream \in Nat
    BY <1>1, <1>2, DeclarationsAssumption DEF Laid
  <2> QED
    BY <1>2, <1>3, <1>6, <2>1 DEF Backing
<1> QED
  BY <1>1, <1>5, <1>6, <1>7

\* No two numbers share a stream and a key.
LEMMA PlacesApart ==
  ASSUME Laid, NEW v \in Places, NEW w \in Places, IdOf(v) = IdOf(w)
  PROVE  v[1] = w[1] /\ (v[4] = w[4] => v = w)
<1>1. v[1] = w[1]
  <2>1. \A x \in Places : /\ x[1] \in DOMAIN fields
                          /\ IdOf(x) \in Nat /\ offsets[x[1]] <= IdOf(x) /\ IdOf(x) < offsets[x[1]] + BackingSize(fields[x[1]])
    BY PlaceFacts
  <2>2. PICK n : n = IdOf(v)
    OBVIOUS
  <2>3. /\ n \in Int /\ v[1] \in DOMAIN fields /\ offsets[v[1]] <= n /\ n < offsets[v[1]] + BackingSize(fields[v[1]])
        /\ w[1] \in DOMAIN fields /\ offsets[w[1]] <= n /\ n < offsets[w[1]] + BackingSize(fields[w[1]])
    BY <2>1, <2>2
  <2> QED
    BY <2>3, OneField
<1>2. ASSUME v[4] = w[4] PROVE v = w
  <2>1. PICK i, f : i = v[1] /\ f = fields[i]
    OBVIOUS
  <2>2. f \in Fields /\ offsets[i] \in Nat
    BY <2>1, PlaceFacts, LaidFacts
  <2>3. /\ v = <<i, v[2], v[3], v[4]>> /\ v[2] \in Nat /\ v[3] \in Nat
        /\ w = <<i, w[2], w[3], v[4]>> /\ w[2] \in Nat /\ w[3] \in Nat
    <3>1. v = <<v[1], v[2], v[3], v[4]>> /\ w = <<w[1], w[2], w[3], w[4]>>
      BY PlaceFacts
    <3>2. v[2] \in Nat /\ v[3] \in Nat /\ w[2] \in Nat /\ w[3] \in Nat
      BY PlaceFacts
    <3> QED
      BY <1>1, <1>2, <2>1, <3>1, <3>2
  <2>4. CASE f.kind = "data"
    <3>1. v[2] = 0 /\ v[4] = 2 * (v[3] - 1) /\ w[2] = 0 /\ w[4] = 2 * (w[3] - 1)
      BY <1>1, <2>1, <2>4 DEF Places
    <3>2. v[3] = w[3]
      BY <1>2, <2>3, <3>1
    <3> QED
      BY <2>3, <3>1, <3>2
  <2>5. CASE f.kind # "data"
    <3>1. PICK width : width = Larger(1, f.size)
      OBVIOUS
    <3>2. width \in Nat
      BY <2>2, <3>1, FieldFacts
    <3>3. v[3] >= 1 /\ v[3] <= width /\ w[3] >= 1 /\ w[3] <= width
      BY <1>1, <2>1, <2>5, <3>1, <3>2 DEF Places
    <3>4. IdOf(v) = width * v[2] + offsets[i] + v[3] - 1 /\ IdOf(w) = width * w[2] + offsets[i] + w[3] - 1
      BY <1>1, <2>1, <2>5, <3>1 DEF IdOf, StreamOf
    <3>5. PICK a, b : a = width * v[2] /\ b = width * w[2]
      OBVIOUS
    <3>6. a \in Nat /\ b \in Nat /\ (v[2] < w[2] => a + width <= b) /\ (w[2] < v[2] => b + width <= a)
      BY <2>3, <3>2, <3>5, Products
    <3>7. a + offsets[i] + v[3] - 1 = b + offsets[i] + w[3] - 1
      BY <3>4, <3>5
    <3>8. v[2] = w[2]
      BY <2>2, <2>3, <3>2, <3>3, <3>6, <3>7
    <3>9. v[3] = w[3]
      BY <2>2, <2>3, <3>5, <3>6, <3>7, <3>8
    <3> QED
      BY <2>3, <3>8, <3>9
  <2> QED
    BY <2>4, <2>5
<1> QED
  BY <1>1, <1>2
-----------------------------------------------------------------------------
(* Writing.                                                                *)

Values == UNION {[S -> Nat] : S \in SUBSET Int}

LEMMA UpdateFacts ==
  ASSUME NEW f \in Values, NEW key \in Int, NEW value \in Nat, NEW g, g = Update(f, key, value)
  PROVE  /\ g \in Values
         /\ \A k : k \in DOMAIN g <=> k \in DOMAIN f \/ k = key
         /\ g[key] = value
         /\ \A k \in DOMAIN f : k # key => g[k] = f[k]
<1>1. PICK S \in SUBSET Int : f \in [S -> Nat]
  BY DEF Values
<1>2. DOMAIN f = S /\ S \cup {key} \in SUBSET Int
  BY <1>1
<1>3. g \in [S \cup {key} -> Nat]
  BY <1>1, <1>2 DEF Update
<1> QED
  BY <1>2, <1>3 DEF Update, Values

LEMMA ValuesAre ==
  ASSUME NEW f \in Values
  PROVE  DOMAIN f \subseteq Int /\ \A k \in DOMAIN f : f[k] \in Nat
BY DEF Values

\* What was written stands where it belongs, and nothing else.
Recorded ==
  /\ streams \in [Backing -> Values]
  /\ DOMAIN said \subseteq Places
  /\ \A w \in DOMAIN said : w[4] \in Keys(IdOf(w)) /\ streams[IdOf(w)][w[4]] = said[w]
  /\ \A s \in Slots : Keys(StreamOf(s[1], s[2])) \subseteq Written(s[1], s[2])

LEMMA SlotFacts ==
  ASSUME Laid, NEW s \in Slots
  PROVE  /\ s = <<s[1], s[2]>> /\ s[1] \in DOMAIN fields /\ fields[s[1]].kind # "data"
         /\ s[2] \in 0 .. fields[s[1]].count - 1 /\ s[2] \in Nat
         /\ fields[s[1]].size \in Nat /\ Larger(1, fields[s[1]].size) \in Nat
         /\ 1 \in 1 .. Larger(1, fields[s[1]].size) /\ fields[s[1]].size <= Larger(1, fields[s[1]].size)
         /\ StreamOf(s[1], s[2]) \in Nat /\ StreamOf(s[1], s[2]) \in Backing
<1>1. PICK i \in {n \in DOMAIN fields : fields[n].kind # "data"} : s \in {i} \X (0 .. fields[i].count - 1)
  BY DEF Slots
<1>2. s = <<s[1], s[2]>> /\ s[1] = i /\ s[2] \in 0 .. fields[i].count - 1
  BY <1>1
<1>3. i \in DOMAIN fields /\ fields[i].kind # "data" /\ fields[i] \in Fields
  BY <1>1, LaidFacts
<1>4. /\ fields[i].count \in Nat /\ fields[i].size \in Nat /\ Larger(1, fields[i].size) \in Nat
      /\ Larger(1, fields[i].size) >= 1 /\ Larger(1, fields[i].size) >= fields[i].size
  BY <1>3, FieldFacts
<1>5. 1 \in 1 .. Larger(1, fields[i].size) /\ fields[i].size <= Larger(1, fields[i].size) /\ s[2] \in Nat
  BY <1>2, <1>4
<1>6. PICK id : id = StreamOf(i, s[2])
  OBVIOUS
<1>7. id \in Nat /\ offsets[i] <= id + 1 - 1 /\ id + 1 - 1 < offsets[i] + BackingSize(fields[i])
  BY <1>2, <1>3, <1>5, <1>6, SlotRange
<1>8. id \in Backing
  <2>1. offsets[i] + BackingSize(fields[i]) - 1 <= MaxStream /\ MaxStream \in Nat
    BY <1>3, DeclarationsAssumption DEF Laid
  <2>2. offsets[i] \in Nat \ {0} /\ BackingSize(fields[i]) \in Nat
    BY <1>3, LaidFacts
  <2> QED
    BY <1>7, <2>1, <2>2 DEF Backing
<1> QED
  BY <1>2, <1>3, <1>4, <1>5, <1>6, <1>7, <1>8

LEMMA TimesAre ==
  /\ Times \subseteq Int /\ Infinity \in Int /\ -Infinity \in Int
  /\ \A t \in Times : -Infinity < t /\ t < Infinity
BY TimesAssumption DEF Infinity

LEMMA SlotPlaces ==
  ASSUME Laid, NEW s \in Slots, NEW c \in 1 .. Larger(1, fields[s[1]].size), NEW key \in Times
  PROVE  <<s[1], s[2], c, key>> \in Places /\ IdOf(<<s[1], s[2], c, key>>) = StreamOf(s[1], s[2]) + c - 1
<1>1. c \in Nat /\ key \in Int /\ s[1] \in DOMAIN fields /\ s[2] \in Nat
  BY SlotFacts, TimesAre
<1>2. fields[s[1]].kind # "data" /\ s[2] \in 0 .. fields[s[1]].count - 1
  BY SlotFacts
<1> QED
  BY <1>1, <1>2 DEF Places, IdOf

LEMMA FieldsStay ==
  ASSUME fields' = fields, offsets' = offsets
  PROVE  /\ Laid' = Laid /\ Places' = Places /\ Slots' = Slots
         /\ \A w : IdOf(w)' = IdOf(w)
         /\ \A i, j : StreamOf(i, j)' = StreamOf(i, j)
BY DEF Laid, Places, Slots, IdOf, StreamOf

\* A step that writes the numbers New, and says so, and leaves the others.
LEMMA Recording ==
  ASSUME Laid, Recorded, fields' = fields, offsets' = offsets, NEW New \in SUBSET Places,
         streams' \in [Backing -> Values], DOMAIN said' = DOMAIN said \cup New,
         \A w \in New : w[4] \in DOMAIN streams'[IdOf(w)] /\ streams'[IdOf(w)][w[4]] = said'[w],
         \A w \in DOMAIN said \ New : /\ said'[w] = said[w]
                                      /\ w[4] \in DOMAIN streams'[IdOf(w)] /\ streams'[IdOf(w)][w[4]] = streams[IdOf(w)][w[4]],
         \A s \in Slots : \A k \in DOMAIN streams'[StreamOf(s[1], s[2])] :
           k \in DOMAIN streams[StreamOf(s[1], s[2])] \/ <<s[1], s[2], 1, k>> \in New
  PROVE  Recorded'
<1>1. DOMAIN said' \subseteq Places
  BY DEF Recorded
<1>2. ASSUME NEW w \in DOMAIN said' PROVE w[4] \in DOMAIN streams'[IdOf(w)] /\ streams'[IdOf(w)][w[4]] = said'[w]
  <2>1. CASE w \in New
    BY <2>1
  <2>2. CASE w \notin New
    <3>1. w \in DOMAIN said \ New
      BY <2>2
    <3>2. streams[IdOf(w)][w[4]] = said[w]
      BY <3>1 DEF Recorded
    <3> QED
      BY <3>1, <3>2
  <2> QED
    BY <2>1, <2>2
<1>3. ASSUME NEW s \in Slots, NEW k \in DOMAIN streams'[StreamOf(s[1], s[2])]
      PROVE  k \in {w[4] : w \in {v \in DOMAIN said' : v[1] = s[1] /\ v[2] = s[2] /\ v[3] = 1}}
  <2>1. CASE k \in DOMAIN streams[StreamOf(s[1], s[2])]
    <3>1. k \in Written(s[1], s[2])
      BY <2>1 DEF Recorded, Keys
    <3> QED
      BY <3>1 DEF Written
  <2>2. CASE <<s[1], s[2], 1, k>> \in New
    <3>1. PICK w : w = <<s[1], s[2], 1, k>>
      OBVIOUS
    <3>2. w \in DOMAIN said' /\ w[1] = s[1] /\ w[2] = s[2] /\ w[3] = 1 /\ w[4] = k
      BY <2>2, <3>1
    <3> QED
      BY <3>2
  <2> QED
    BY <2>1, <2>2
<1>4. /\ Places' = Places /\ Slots' = Slots /\ \A w : IdOf(w)' = IdOf(w)
      /\ \A i, j : StreamOf(i, j)' = StreamOf(i, j)
  BY FieldsStay
<1> QED
  BY <1>1, <1>2, <1>3, <1>4 DEF Recorded, Keys, Written, Backing
\* The streams R have another number at a key.
Updated(new, old, R, key, val) == new = [n \in Backing |-> IF n \in R THEN Update(old[n], key, val[n]) ELSE old[n]]

LEMMA UpdatesAt ==
  ASSUME NEW old \in [Backing -> Values], NEW R, NEW key \in Int, NEW val \in [R -> Nat],
         NEW new, Updated(new, old, R, key, val)
  PROVE  /\ new \in [Backing -> Values]
         /\ \A n \in Backing : n \in R => key \in DOMAIN new[n] /\ new[n][key] = val[n]
         /\ \A n \in Backing : \A k \in DOMAIN old[n] :
              n \notin R \/ k # key => k \in DOMAIN new[n] /\ new[n][k] = old[n][k]
         /\ \A n \in Backing : \A k \in DOMAIN new[n] : k \in DOMAIN old[n] \/ (n \in R /\ k = key)
<1>1. \A n \in Backing : n \in R => old[n] \in Values /\ val[n] \in Nat /\ new[n] = Update(old[n], key, val[n])
  BY DEF Updated
<1>2. \A n \in Backing : n \notin R => old[n] \in Values /\ new[n] = old[n]
  BY DEF Updated
<1>3. ASSUME NEW n \in Backing, n \in R
      PROVE  /\ new[n] \in Values
             /\ \A k : k \in DOMAIN new[n] <=> k \in DOMAIN old[n] \/ k = key
             /\ new[n][key] = val[n]
             /\ \A k \in DOMAIN old[n] : k # key => new[n][k] = old[n][k]
  <2>1. PICK f, g, value : f = old[n] /\ g = new[n] /\ value = val[n]
    OBVIOUS
  <2>2. f \in Values /\ value \in Nat /\ g = Update(f, key, value)
    BY <1>1, <1>3, <2>1
  <2>3. /\ g \in Values
        /\ \A k : k \in DOMAIN g <=> k \in DOMAIN f \/ k = key
        /\ g[key] = value
        /\ \A k \in DOMAIN f : k # key => g[k] = f[k]
    BY <2>2, UpdateFacts
  <2> QED
    BY <2>1, <2>3
<1>4. new \in [Backing -> Values]
  <2>1. \A n \in Backing : new[n] \in Values
    BY <1>2, <1>3
  <2> QED
    BY <2>1 DEF Updated
<1> QED
  BY <1>2, <1>3, <1>4

\* Numbers of one element, those of the streams a .. b, are written at a key.
NumbersAt(s, key, id, a, b) == {<<s[1], s[2], n - id + 1, key>> : n \in a .. b}
Writes(s, key, id, a, b, val) ==
  /\ Updated(streams', streams, a .. b, key, val)
  /\ DOMAIN said' = DOMAIN said \cup NumbersAt(s, key, id, a, b)
  /\ \A n \in a .. b : said'[<<s[1], s[2], n - id + 1, key>>] = val[n]
  /\ \A w \in DOMAIN said \ NumbersAt(s, key, id, a, b) : said'[w] = said[w]

LEMMA WriteElement ==
  ASSUME Laid, Recorded, fields' = fields, offsets' = offsets, NEW s \in Slots, NEW key \in Times,
         NEW a \in Int, NEW b \in Int, NEW id, id = StreamOf(s[1], s[2]),
         id <= a, b <= id + Larger(1, fields[s[1]].size) - 1, NEW val \in [a .. b -> Nat],
         Writes(s, key, id, a, b, val)
  PROVE  Recorded'
<1> DEFINE New == {<<s[1], s[2], n - id + 1, key>> : n \in a .. b}
<1>0. /\ Updated(streams', streams, a .. b, key, val) /\ DOMAIN said' = DOMAIN said \cup New
      /\ \A n \in a .. b : said'[<<s[1], s[2], n - id + 1, key>>] = val[n]
      /\ \A w \in DOMAIN said \ New : said'[w] = said[w]
  BY DEF Writes, NumbersAt
<1>1. id \in Nat /\ key \in Int
  BY SlotFacts, TimesAre
<1>2. \A n \in a .. b : n - id + 1 \in 1 .. Larger(1, fields[s[1]].size)
  BY <1>1, SlotFacts
<1>3. \A n \in a .. b : /\ <<s[1], s[2], n - id + 1, key>> \in Places
                        /\ IdOf(<<s[1], s[2], n - id + 1, key>>) = id + (n - id + 1) - 1
  BY <1>2, SlotPlaces
<1>4. \A n \in a .. b : IdOf(<<s[1], s[2], n - id + 1, key>>) = n
  <2> SUFFICES ASSUME NEW n \in a .. b PROVE IdOf(<<s[1], s[2], n - id + 1, key>>) = n
    OBVIOUS
  <2>1. id + (n - id + 1) - 1 = n
    BY <1>1
  <2> QED
    BY <1>3, <2>1
<1>5. streams \in [Backing -> Values]
  BY DEF Recorded
<1>6. /\ streams' \in [Backing -> Values]
      /\ \A n \in Backing : n \in a .. b => key \in DOMAIN streams'[n] /\ streams'[n][key] = val[n]
      /\ \A n \in Backing : \A k \in DOMAIN streams[n] :
           n \notin a .. b \/ k # key => k \in DOMAIN streams'[n] /\ streams'[n][k] = streams[n][k]
      /\ \A n \in Backing : \A k \in DOMAIN streams'[n] : k \in DOMAIN streams[n] \/ (n \in a .. b /\ k = key)
  BY <1>0, <1>1, <1>5, UpdatesAt
<1>7. New \in SUBSET Places
  BY <1>3
\* Whatever is written lands in its own stream.
<1>8. ASSUME NEW w \in New PROVE w[4] \in DOMAIN streams'[IdOf(w)] /\ streams'[IdOf(w)][w[4]] = said'[w]
  <2>1. PICK n \in a .. b : w = <<s[1], s[2], n - id + 1, key>>
    BY <1>8
  <2>2. IdOf(w) = n /\ n \in Backing /\ w[4] = key /\ said'[w] = val[n]
    BY <1>0, <1>3, <1>4, <2>1, PlaceFacts
  <2> QED
    BY <1>6, <2>2
\* No other number does.
<1>9. ASSUME NEW w \in Places, w \notin New, w[4] \in DOMAIN streams[IdOf(w)]
      PROVE  w[4] \in DOMAIN streams'[IdOf(w)] /\ streams'[IdOf(w)][w[4]] = streams[IdOf(w)][w[4]]
  <2>1. IdOf(w) \in Backing
    BY PlaceFacts
  <2>2. CASE IdOf(w) \in a .. b
    <3>1. PICK n, v : n = IdOf(w) /\ v = <<s[1], s[2], n - id + 1, key>>
      OBVIOUS
    <3>2. n \in a .. b /\ v \in Places /\ IdOf(v) = IdOf(w) /\ v \in New /\ v[4] = key
      BY <1>3, <1>4, <2>2, <3>1
    <3>3. w[4] # key
      BY <1>9, <3>2, PlacesApart
    <3> QED
      BY <1>6, <1>9, <2>1, <3>3
  <2>3. CASE IdOf(w) \notin a .. b
    BY <1>6, <1>9, <2>1, <2>3
  <2> QED
    BY <2>2, <2>3
<1>10. ASSUME NEW w \in DOMAIN said \ New
       PROVE  /\ said'[w] = said[w]
              /\ w[4] \in DOMAIN streams'[IdOf(w)] /\ streams'[IdOf(w)][w[4]] = streams[IdOf(w)][w[4]]
  <2>1. w \in Places /\ w \notin New /\ w[4] \in DOMAIN streams[IdOf(w)]
    BY DEF Recorded, Keys
  <2> QED
    BY <1>0, <1>9, <2>1
<1>11. ASSUME NEW t \in Slots, NEW k \in DOMAIN streams'[StreamOf(t[1], t[2])]
       PROVE  k \in DOMAIN streams[StreamOf(t[1], t[2])] \/ <<t[1], t[2], 1, k>> \in New
  <2>1. PICK n : n = StreamOf(t[1], t[2])
    OBVIOUS
  <2>2. n \in Backing
    BY <2>1, SlotFacts
  <2>3. CASE n \in a .. b
    <3>2. k \in DOMAIN streams[n] \/ k = key
      BY <1>6, <1>11, <2>1, <2>2
    <3>3. ASSUME k = key PROVE <<t[1], t[2], 1, k>> \in New
      <4>1. 1 \in 1 .. Larger(1, fields[t[1]].size)
        BY SlotFacts
      <4>2. <<t[1], t[2], 1, key>> \in Places /\ IdOf(<<t[1], t[2], 1, key>>) = n + 1 - 1
        BY <2>1, <4>1, SlotPlaces
      <4>3. n + 1 - 1 = n
        BY <2>3
      <4>4. PICK v, w : v = <<s[1], s[2], n - id + 1, key>> /\ w = <<t[1], t[2], 1, key>>
        OBVIOUS
      <4>5. v \in Places /\ w \in Places /\ IdOf(v) = IdOf(w) /\ v[4] = w[4] /\ v \in New
        BY <1>3, <1>4, <2>3, <4>2, <4>3, <4>4
      <4>6. v = w
        BY <4>5, PlacesApart
      <4> QED
        BY <3>3, <4>4, <4>5, <4>6
    <3> QED
      BY <2>1, <3>2, <3>3
  <2>4. CASE n \notin a .. b
    BY <1>6, <1>11, <2>1, <2>2, <2>4
  <2> QED
    BY <2>3, <2>4
<1> HIDE DEF New
<1> QED
  BY <1>0, <1>6, <1>7, <1>8, <1>10, <1>11, Recording

LEMMA NumberFacts ==
  ASSUME left \in Nat, NEW c \in Nat
  PROVE  Number(c) \in Nat
BY DEF Number
LEMMA ElementRecords ==
  ASSUME Laid, Recorded, left \in Nat, fields' = fields, offsets' = offsets,
         NEW s \in Slots, NEW key \in Times, SetElement(s[1], s[2], key)
  PROVE  Recorded'
<1>1. PICK i, j, id, size, width : /\ i = s[1] /\ j = s[2] /\ id = StreamOf(i, j)
                                   /\ size = fields[i].size /\ width = Larger(1, size)
  OBVIOUS
<1>2. /\ id \in Nat /\ size \in Nat /\ width \in Nat /\ size <= width /\ s = <<i, j>> /\ key \in Int /\ id \in Backing
      /\ size = 0 => width = 1
      /\ size # 0 => width = size
  <2>1. /\ id \in Nat /\ size \in Nat /\ width \in Nat /\ size <= width /\ s = <<i, j>> /\ key \in Int /\ id \in Backing
    BY <1>1, SlotFacts, TimesAre
  <2>2. (size = 0 => width = 1) /\ (size # 0 => width = size)
    BY <1>1, <2>1 DEF Larger
  <2> QED
    BY <2>1, <2>2
<1>3. PICK a, b : a = id /\ b = id + width - 1
  OBVIOUS
<1>4. a \in Int /\ b \in Int /\ id <= a /\ b <= id + width - 1
  <2>1. a \in Int /\ b \in Int
    BY <1>2, <1>3
  <2> QED
    BY <1>3, <2>1
<1> DEFINE val == [n \in a .. b |-> IF size = 0 THEN 0 ELSE Number(n - id + 1)]
           New == {<<i, j, n - id + 1, key>> : n \in a .. b}
<1>5. val \in [a .. b -> Nat]
  <2>1. \A n \in a .. b : n - id + 1 \in Nat
    BY <1>2, <1>3
  <2>2. \A n \in a .. b : Number(n - id + 1) \in Nat
    BY <2>1, NumberFacts
  <2> QED
    BY <2>2
<1>6. New = {<<i, j, c, key>> : c \in 1 .. width}
  <2>1. \A n \in a .. b : n - id + 1 \in 1 .. width
    BY <1>2, <1>3
  <2>2. \A c \in 1 .. width : id + c - 1 \in a .. b /\ (id + c - 1) - id + 1 = c
    BY <1>2, <1>3
  <2>3. ASSUME NEW w \in New PROVE w \in {<<i, j, c, key>> : c \in 1 .. width}
    BY <2>1
  <2>4. ASSUME NEW c \in 1 .. width PROVE <<i, j, c, key>> \in New
    <3>1. <<i, j, (id + c - 1) - id + 1, key>> \in New
      BY <2>2
    <3> QED
      BY <2>2, <3>1
  <2> QED
    BY <2>3, <2>4
<1>7. /\ streams' = IF size = 0 THEN StreamSet(streams, id, key, 0)
                    ELSE [n \in Backing |-> IF n \in id .. id + size - 1 THEN Update(streams[n], key, Number(n - id + 1)) ELSE streams[n]]
      /\ said' = [w \in DOMAIN said \cup {<<i, j, c, key>> : c \in 1 .. width} |->
                    IF w[1] = i /\ w[2] = j /\ w[4] = key THEN IF size = 0 THEN 0 ELSE Number(w[3]) ELSE said[w]]
  BY <1>1 DEF SetElement
<1>8. streams \in [Backing -> Values]
  BY DEF Recorded
<1>9. Updated(streams', streams, a .. b, key, val)
  <2>1. CASE size = 0
    <3>1. \A n \in Backing : n \in a .. b <=> n = id
      BY <1>2, <1>3, <2>1 DEF Backing
    <3>2. a .. b = {id}
      BY <1>2, <1>3, <2>1
    <3>3. val[id] = 0
      BY <2>1, <3>2
    <3>4. streams' = [n \in Backing |-> IF n = id THEN Update(streams[n], key, 0) ELSE streams[n]]
      BY <1>7, <1>8, <2>1 DEF StreamSet
    <3>5. streams' = [n \in Backing |-> IF n \in a .. b THEN Update(streams[n], key, val[n]) ELSE streams[n]]
      <4> HIDE DEF val
      <4> QED
        BY <3>1, <3>3, <3>4
    <3> QED
      BY <3>5 DEF Updated
  <2>2. CASE size # 0
    <3>1. a .. b = id .. id + size - 1
      BY <1>2, <1>3, <2>2
    <3>2. \A n \in a .. b : val[n] = Number(n - id + 1)
      BY <2>2
    <3>3. streams' = [n \in Backing |-> IF n \in a .. b THEN Update(streams[n], key, Number(n - id + 1)) ELSE streams[n]]
      BY <1>7, <2>2, <3>1
    <3>4. streams' = [n \in Backing |-> IF n \in a .. b THEN Update(streams[n], key, val[n]) ELSE streams[n]]
      <4> HIDE DEF val
      <4> QED
        BY <3>2, <3>3
    <3> QED
      BY <3>4 DEF Updated
  <2> QED
    BY <2>1, <2>2
<1>10. DOMAIN said' = DOMAIN said \cup New
  BY <1>6, <1>7
<1>11. ASSUME NEW n \in a .. b PROVE said'[<<i, j, n - id + 1, key>>] = val[n]
  <2>1. PICK w : w = <<i, j, n - id + 1, key>>
    OBVIOUS
  <2>2. w \in New /\ w[1] = i /\ w[2] = j /\ w[3] = n - id + 1 /\ w[4] = key
    BY <2>1
  <2>3. said'[w] = IF size = 0 THEN 0 ELSE Number(w[3])
    <3> HIDE DEF New
    <3> QED
      BY <1>6, <1>7, <2>2
  <2> QED
    BY <2>1, <2>2, <2>3
<1>12. ASSUME NEW w \in DOMAIN said \ New PROVE said'[w] = said[w]
  <2>1. ~ (w[1] = i /\ w[2] = j /\ w[4] = key)
    <3> SUFFICES ASSUME w[1] = i, w[2] = j, w[4] = key PROVE FALSE
      OBVIOUS
    <3>1. w \in Places /\ w = <<w[1], w[2], w[3], w[4]>>
      BY PlaceFacts DEF Recorded
    <3>2. fields[i].kind # "data"
      BY <1>1, SlotFacts
    <3>3. w[3] \in 1 .. width
      BY <1>1, <3>1, <3>2 DEF Places
    <3>4. w = <<i, j, w[3], key>>
      BY <3>1
    <3>5. w \in New
      <4> HIDE DEF New
      <4> QED
        BY <1>6, <3>3, <3>4
    <3> QED
      BY <3>5
  <2> QED
    BY <1>7, <2>1
<1> HIDE DEF val, New
<1> QED
  <2>1. id <= a /\ b <= id + Larger(1, fields[s[1]].size) - 1 /\ id = StreamOf(s[1], s[2])
    BY <1>1, <1>4
  <2>2. New = NumbersAt(s, key, id, a, b)
    BY <1>1 DEF New, NumbersAt
  <2>3. Writes(s, key, id, a, b, val)
    BY <1>1, <1>9, <1>10, <1>11, <1>12, <2>2 DEF Writes
  <2> QED
    BY <1>4, <1>5, <2>1, <2>3, WriteElement

LEMMA ComponentRecords ==
  ASSUME Laid, Recorded, left \in Nat, fields' = fields, offsets' = offsets,
         NEW s \in Slots, NEW key \in Times, NEW c \in 1 .. fields[s[1]].size, SetComponent(s[1], s[2], c, key)
  PROVE  Recorded'
<1>1. PICK i, j, id, width, a : /\ i = s[1] /\ j = s[2] /\ id = StreamOf(i, j)
                                /\ width = Larger(1, fields[i].size) /\ a = id + c - 1
  OBVIOUS
<1>2. id \in Nat /\ width \in Nat /\ c \in Nat /\ c >= 1 /\ c <= width /\ s = <<i, j>> /\ key \in Int /\ fields[i].size \in Nat /\ fields[i].size <= width
  <2>1. id \in Nat /\ width \in Nat /\ s = <<i, j>> /\ key \in Int /\ fields[i].size \in Nat /\ fields[i].size <= width
    BY <1>1, SlotFacts, TimesAre
  <2> QED
    BY <1>1, <2>1
<1>3. a \in Int /\ id <= a /\ a <= id + width - 1 /\ a .. a = {a} /\ a - id + 1 = c
  BY <1>1, <1>2
<1> DEFINE val == [n \in a .. a |-> Number(c)]
           New == {<<i, j, n - id + 1, key>> : n \in a .. a}
<1>4. Number(c) \in Nat
  BY <1>2, NumberFacts
<1>5. val \in [a .. a -> Nat] /\ val[a] = Number(c)
  BY <1>3, <1>4
<1>6. New = {<<i, j, c, key>>}
  BY <1>3
<1>7. streams' = StreamSet(streams, a, key, Number(c)) /\ said' = Update(said, <<i, j, c, key>>, Number(c))
  BY <1>1 DEF SetComponent
<1>8. streams \in [Backing -> Values]
  BY DEF Recorded
<1>9. Updated(streams', streams, a .. a, key, val)
  <2>1. streams' = [n \in Backing |-> IF n = a THEN Update(streams[n], key, Number(c)) ELSE streams[n]]
    BY <1>7, <1>8 DEF StreamSet
  <2>2. \A n : n \in a .. a <=> n = a
    BY <1>3
  <2>3. streams' = [n \in Backing |-> IF n \in a .. a THEN Update(streams[n], key, val[n]) ELSE streams[n]]
    <3> HIDE DEF val
    <3> QED
      BY <1>5, <2>1, <2>2
  <2> QED
    BY <2>3 DEF Updated
<1>10. DOMAIN said' = DOMAIN said \cup New /\ said'[<<i, j, c, key>>] = Number(c)
  BY <1>6, <1>7 DEF Update
<1>11. ASSUME NEW n \in a .. a PROVE said'[<<i, j, n - id + 1, key>>] = val[n]
  <2>1. n = a
    BY <1>3
  <2> HIDE DEF val
  <2> QED
    BY <1>3, <1>5, <1>10, <2>1
<1>12. ASSUME NEW w \in DOMAIN said \ New PROVE said'[w] = said[w]
  BY <1>6, <1>7 DEF Update
<1> HIDE DEF val, New
<1> QED
  <2>1. id <= a /\ a <= id + Larger(1, fields[s[1]].size) - 1 /\ id = StreamOf(s[1], s[2]) /\ a \in Int
    BY <1>1, <1>3
  <2>2. New = NumbersAt(s, key, id, a, a)
    BY <1>1 DEF New, NumbersAt
  <2>3. Writes(s, key, id, a, a, val)
    BY <1>1, <1>9, <1>10, <1>11, <1>12, <2>2 DEF Writes
  <2> QED
    BY <1>5, <2>1, <2>3, WriteElement
LEMMA SparseFacts ==
  ASSUME NEW f \in Values, NEW index \in Int, NEW value \in Nat, NEW g, g = Sparse(f, index, value)
  PROVE  /\ g \in Values
         /\ index \in DOMAIN g /\ g[index] = value
         /\ \A k \in DOMAIN f : k # index - 1 /\ k # index /\ k # index + 1 => k \in DOMAIN g /\ g[k] = f[k]
<1>1. PICK p, q : p = Update(f, index, value) /\ q = Update(p, index - 1, 0)
  OBVIOUS
<1>2. g = Update(q, index + 1, 0)
  BY <1>1 DEF Sparse
<1>3. index - 1 \in Int /\ index + 1 \in Int /\ 0 \in Nat /\ index # index - 1 /\ index # index + 1
  OBVIOUS
<1>4. /\ p \in Values /\ index \in DOMAIN p /\ p[index] = value
      /\ \A k \in DOMAIN f : k # index => k \in DOMAIN p /\ p[k] = f[k]
  BY <1>1, UpdateFacts
<1>5. q \in Values /\ \A k \in DOMAIN p : k # index - 1 => k \in DOMAIN q /\ q[k] = p[k]
  BY <1>1, <1>3, <1>4, UpdateFacts
<1>6. g \in Values /\ \A k \in DOMAIN q : k # index + 1 => k \in DOMAIN g /\ g[k] = q[k]
  BY <1>2, <1>3, <1>5, UpdateFacts
<1>7. index \in DOMAIN g /\ g[index] = value
  BY <1>3, <1>4, <1>5, <1>6
<1> QED
  BY <1>4, <1>5, <1>6, <1>7

\* The zeros around a number of a data field are between its numbers.
LEMMA DataStreamFacts ==
  ASSUME left \in Nat, NEW i, fields[i].size \in Nat, streams[offsets[i]] \in Values
  PROVE  /\ DataStream(i) \in Values
         /\ \A c \in 1 .. fields[i].size : 2 * (c - 1) \in DOMAIN DataStream(i) /\ DataStream(i)[2 * (c - 1)] = Number(c)
         /\ fields[i].size = 0 => DataStream(i) = streams[offsets[i]]
<1>1. PICK size, first : size = fields[i].size /\ first = streams[offsets[i]]
  OBVIOUS
<1>2. size \in Nat /\ first \in Values /\ size \in Int /\ 0 \in Int
  BY <1>1
<1> DEFINE Is(f) == f = [c \in 0 .. size |-> IF c = 0 THEN first ELSE Sparse(f[c - 1], 2 * (c - 1), Number(c))]
           step == [p \in (0 .. size) \X Values |-> IF p[1] = 0 THEN p[2] ELSE Sparse(p[2], 2 * (p[1] - 1), Number(p[1]))]
           g == CHOOSE f : Is(f)
<1>3. \E f \in [0 .. size -> Values] : Is(f)
  <2>1. step \in [(0 .. size) \X Values -> Values]
    <3> SUFFICES ASSUME NEW p \in (0 .. size) \X Values
                 PROVE  (IF p[1] = 0 THEN p[2] ELSE Sparse(p[2], 2 * (p[1] - 1), Number(p[1]))) \in Values
      OBVIOUS
    <3>1. PICK c, f : c = p[1] /\ f = p[2]
      OBVIOUS
    <3>2. c \in Nat /\ f \in Values /\ 2 * (c - 1) \in Int
      BY <1>2, <3>1
    <3>3. Number(c) \in Nat
      BY <3>2, NumberFacts
    <3>4. Sparse(f, 2 * (c - 1), Number(c)) \in Values
      BY <3>2, <3>3, SparseFacts
    <3> QED
      BY <3>1, <3>2, <3>4
  <2>2. PICK f \in [0 .. size -> Values] : Stepwise(f, 0, size, first, step)
    <3> HIDE DEF step
    <3> QED
      BY <1>2, <2>1, StepByStep
  <2>3. ASSUME NEW c \in 0 .. size
        PROVE  f[c] = IF c = 0 THEN first ELSE Sparse(f[c - 1], 2 * (c - 1), Number(c))
    <3>1. f[c] = IF c = 0 THEN first ELSE step[<<c, f[c - 1]>>]
      <4> HIDE DEF step
      <4> QED
        BY <2>2 DEF Stepwise
    <3>2. CASE c = 0
      BY <3>1, <3>2
    <3>3. CASE c # 0
      <4>1. f[c - 1] \in Values
        BY <1>2, <3>3
      <4>2. step[<<c, f[c - 1]>>] = Sparse(f[c - 1], 2 * (c - 1), Number(c))
        BY <3>3, <4>1
      <4> QED
        BY <3>1, <3>3, <4>2
    <3> QED
      BY <3>2, <3>3
  <2>4. f = [c \in 0 .. size |-> f[c]]
    OBVIOUS
  <2>5. Is(f)
    BY <2>3, <2>4
  <2> QED
    BY <2>5
<1>4. Is(g)
  BY <1>3
<1>5. DataStream(i) = g[size]
  BY <1>1 DEF DataStream
<1> HIDE DEF g
<1>6. \A c \in 0 .. size : g[c] = IF c = 0 THEN first ELSE Sparse(g[c - 1], 2 * (c - 1), Number(c))
  BY <1>4
<1> DEFINE Good(n) == g[n] \in Values /\ \A c \in 1 .. n : 2 * (c - 1) \in DOMAIN g[n] /\ g[n][2 * (c - 1)] = Number(c)
           T == {n \in Int : Good(n)}
<1>7. 0 .. size \subseteq T
  <2>1. 0 \in T
    <3>1. g[0] = first /\ 1 .. 0 = {}
      BY <1>2, <1>6
    <3> QED
      BY <1>2, <3>1
  <2>2. ASSUME NEW n \in 0 + 1 .. size, n - 1 \in T PROVE n \in T
    <3>1. PICK f, h : f = g[n - 1] /\ h = g[n]
      OBVIOUS
    <3>2. /\ f \in Values
          /\ \A c \in 1 .. n - 1 : 2 * (c - 1) \in DOMAIN f /\ f[2 * (c - 1)] = Number(c)
      BY <2>2, <3>1
    <3>3. n \in Nat /\ 2 * (n - 1) \in Int /\ n \in 0 .. size /\ n # 0 /\ n \in Int
      BY <1>2
    <3>4. h = Sparse(f, 2 * (n - 1), Number(n))
      BY <1>6, <3>1, <3>3
    <3>5. Number(n) \in Nat
      BY <3>3, NumberFacts
    <3>6. PICK index, value : index = 2 * (n - 1) /\ value = Number(n)
      OBVIOUS
    <3>7. /\ h \in Values /\ index \in DOMAIN h /\ h[index] = value
          /\ \A k \in DOMAIN f : k # index - 1 /\ k # index /\ k # index + 1 => k \in DOMAIN h /\ h[k] = f[k]
      BY <3>2, <3>3, <3>4, <3>5, <3>6, SparseFacts
    <3>8. ASSUME NEW c \in 1 .. n PROVE 2 * (c - 1) \in DOMAIN h /\ h[2 * (c - 1)] = Number(c)
      <4>1. CASE c = n
        BY <3>6, <3>7, <4>1
      <4>2. CASE c # n
        <5>1. c \in 1 .. n - 1
          BY <3>3, <4>2
        <5>2. 2 * (c - 1) # index - 1 /\ 2 * (c - 1) # index /\ 2 * (c - 1) # index + 1
          BY <3>3, <3>6, <5>1
        <5> QED
          BY <3>2, <3>7, <5>1, <5>2
      <4> QED
        BY <4>1, <4>2
    <3>9. Good(n)
      BY <3>1, <3>7, <3>8
    <3> QED
      BY <3>3, <3>9
  <2> HIDE DEF T
  <2> QED
    BY <1>2, <2>1, <2>2, OneByOne
<1>8. Good(size) /\ (size = 0 => g[size] = first)
  BY <1>2, <1>6, <1>7
<1> QED
  BY <1>1, <1>5, <1>8

LEMMA DataRecords ==
  ASSUME Laid, Recorded, left \in Nat, fields' = fields, offsets' = offsets,
         NEW i \in DOMAIN fields, fields[i].kind = "data", SetData(i)
  PROVE  Recorded'
<1>1. PICK size, id, f : size = fields[i].size /\ id = offsets[i] /\ f = DataStream(i)
  OBVIOUS
<1>2. fields[i] \in Fields /\ id \in Nat \ {0} /\ size \in Nat /\ BackingSize(fields[i]) = 1
  BY <1>1, LaidFacts, FieldFacts
<1>3. id \in Backing
  <2>1. id + BackingSize(fields[i]) - 1 <= MaxStream /\ MaxStream \in Nat
    BY <1>1, DeclarationsAssumption DEF Laid
  <2> QED
    BY <1>2, <2>1 DEF Backing
<1>4. streams \in [Backing -> Values]
  BY DEF Recorded
<1>5. /\ f \in Values
      /\ \A c \in 1 .. size : 2 * (c - 1) \in DOMAIN f /\ f[2 * (c - 1)] = Number(c)
      /\ size = 0 => f = streams[id]
  BY <1>1, <1>2, <1>3, <1>4, DataStreamFacts
<1>6. streams' = [streams EXCEPT ![id] = f]
  BY <1>1 DEF SetData
<1>7. streams' \in [Backing -> Values] /\ streams'[id] = f /\ \A n \in Backing : n # id => streams'[n] = streams[n]
  BY <1>3, <1>4, <1>5, <1>6
<1> DEFINE New == {<<i, 0, c, 2 * (c - 1)>> : c \in 1 .. size}
<1>8. said' = [w \in DOMAIN said \cup New |-> IF w[1] = i THEN Number(w[3]) ELSE said[w]]
  BY <1>1 DEF SetData
<1>9. ASSUME NEW w \in New
      PROVE  w \in Places /\ IdOf(w) = id /\ w[1] = i /\ w[4] \in DOMAIN streams'[IdOf(w)] /\ streams'[IdOf(w)][w[4]] = said'[w]
  <2>1. PICK c \in 1 .. size : w = <<i, 0, c, 2 * (c - 1)>>
    BY <1>9
  <2>2. w[1] = i /\ w[2] = 0 /\ w[3] = c /\ w[4] = 2 * (c - 1)
    BY <2>1
  <2>3. c \in Nat /\ 2 * (c - 1) \in Int
    BY <1>2
  <2>4. w \in (DOMAIN fields) \X Nat \X Nat \X Int
    BY <2>1, <2>3
  <2>5. w \in Places /\ IdOf(w) = id
    BY <1>1, <2>2, <2>4 DEF Places, IdOf
  <2>6. said'[w] = Number(c)
    <3> HIDE DEF New
    <3> QED
      BY <1>8, <1>9, <2>2
  <2> QED
    BY <1>5, <1>7, <2>2, <2>5, <2>6
\* All numbers of the field are written.
<1>10. ASSUME NEW w \in Places, w[1] = i PROVE w \in New
  <2>1. w = <<w[1], w[2], w[3], w[4]>>
    BY PlaceFacts
  <2>2. w[2] = 0 /\ w[3] \in 1 .. size /\ w[4] = 2 * (w[3] - 1)
    BY <1>1, <1>10 DEF Places
  <2>3. w = <<i, 0, w[3], 2 * (w[3] - 1)>>
    BY <1>10, <2>1, <2>2
  <2> QED
    BY <2>2, <2>3
<1>11. ASSUME NEW w \in Places, w[1] # i PROVE IdOf(w) # id
  <2> SUFFICES ASSUME IdOf(w) = id PROVE FALSE
    OBVIOUS
  <2>1. w[1] \in DOMAIN fields /\ offsets[w[1]] <= id /\ id < offsets[w[1]] + BackingSize(fields[w[1]])
    BY PlaceFacts
  <2>2. id \in Int /\ offsets[i] <= id /\ id < offsets[i] + BackingSize(fields[i])
    BY <1>1, <1>2
  <2> QED
    BY <1>11, <2>1, <2>2, OneField
<1>12. ASSUME NEW w \in DOMAIN said \ New
       PROVE  /\ said'[w] = said[w]
              /\ w[4] \in DOMAIN streams'[IdOf(w)] /\ streams'[IdOf(w)][w[4]] = streams[IdOf(w)][w[4]]
  <2>1. w \in Places /\ w[1] # i /\ w[4] \in DOMAIN streams[IdOf(w)] /\ w \notin New
    BY <1>10 DEF Recorded, Keys
  <2>2. streams'[IdOf(w)] = streams[IdOf(w)]
    BY <1>7, <1>11, <2>1, PlaceFacts
  <2>3. said'[w] = said[w]
    <3> HIDE DEF New
    <3> QED
      BY <1>8, <2>1
  <2> QED
    BY <2>1, <2>2, <2>3
<1>13. ASSUME NEW s \in Slots, NEW k \in DOMAIN streams'[StreamOf(s[1], s[2])]
       PROVE  k \in DOMAIN streams[StreamOf(s[1], s[2])]
  <2>1. PICK n : n = StreamOf(s[1], s[2])
    OBVIOUS
  <2>2. n \in Nat /\ n \in Backing /\ s[1] \in DOMAIN fields /\ fields[s[1]].kind # "data" /\ s[2] \in 0 .. fields[s[1]].count - 1
        /\ 1 \in 1 .. Larger(1, fields[s[1]].size)
    BY <2>1, SlotFacts
  <2>3. offsets[s[1]] <= n + 1 - 1 /\ n + 1 - 1 < offsets[s[1]] + BackingSize(fields[s[1]])
    BY <2>1, <2>2, SlotRange
  <2>4. n # id
    <3> SUFFICES ASSUME n = id PROVE FALSE
      OBVIOUS
    <3>1. offsets[s[1]] \in Nat /\ BackingSize(fields[s[1]]) \in Nat
      BY <2>2, LaidFacts
    <3>2. offsets[s[1]] <= n /\ n < offsets[s[1]] + BackingSize(fields[s[1]])
      BY <2>2, <2>3, <3>1
    <3>3. offsets[i] <= n /\ n < offsets[i] + BackingSize(fields[i]) /\ n \in Int
      BY <1>1, <1>2
    <3>4. s[1] = i
      BY <2>2, <3>2, <3>3, OneField
    <3> QED
      BY <2>2, <3>4
  <2>5. streams'[n] = streams[n]
    BY <1>7, <2>2, <2>4
  <2> QED
    BY <1>13, <2>1, <2>5
<1>14. New \in SUBSET Places /\ DOMAIN said' = DOMAIN said \cup New
  BY <1>8, <1>9
<1> HIDE DEF New
<1> QED
  BY <1>7, <1>9, <1>12, <1>13, <1>14, Recording
LEMMA PlayRecords ==
  ASSUME Laid, Recorded, left \in Nat, Play
  PROVE  Recorded'
<1>1. fields' = fields /\ offsets' = offsets
  BY DEF Play
<1>2. ASSUME NEW s \in Slots, NEW key \in Times, SetElement(s[1], s[2], key) PROVE Recorded'
  BY <1>1, <1>2, ElementRecords
<1>3. ASSUME NEW s \in Slots, NEW key \in Times, NEW c \in 1 .. fields[s[1]].size, SetComponent(s[1], s[2], c, key)
      PROVE  Recorded'
  BY <1>1, <1>3, ComponentRecords
<1>4. ASSUME NEW i \in DOMAIN fields, fields[i].kind = "data", SetData(i) PROVE Recorded'
  BY <1>1, <1>4, DataRecords
<1> QED
  BY <1>2, <1>3, <1>4 DEF Play

-----------------------------------------------------------------------------
(* Reading.                                                                *)

LEMMA GetValueAtKey ==
  ASSUME NEW id, NEW key \in Keys(id)
  PROVE  GetValue(id, key) = <<streams[id][key], 1>>
BY DEF GetValue, Has

\* What the streams hold is what was written.
LEMMA RecordedKeepsApart ==
  ASSUME Laid, Recorded
  PROVE  StreamsKeepApart
<1> SUFFICES ASSUME NEW w \in DOMAIN said
             PROVE  IF fields[w[1]].kind = "data" THEN GetValue(offsets[w[1]], w[4]) = <<said[w], 1>>
                    ELSE GetValue(StreamOf(w[1], w[2]) + w[3] - 1, w[4]) = <<said[w], 1>>
  BY DEF StreamsKeepApart
<1>1. w[4] \in Keys(IdOf(w)) /\ streams[IdOf(w)][w[4]] = said[w]
  BY DEF Recorded
<1>2. GetValue(IdOf(w), w[4]) = <<said[w], 1>>
  BY <1>1, GetValueAtKey
<1> QED
  BY <1>2 DEF IdOf

\* The keys of a stream are those that were written, which are times.
LEMMA KeysAre ==
  ASSUME Laid, Recorded, NEW s \in Slots
  PROVE  /\ Keys(StreamOf(s[1], s[2])) = Written(s[1], s[2])
         /\ Keys(StreamOf(s[1], s[2])) \subseteq Times
<1>1. PICK id : id = StreamOf(s[1], s[2])
  OBVIOUS
<1>2. fields[s[1]].kind # "data" /\ id \in Nat
  BY <1>1, SlotFacts
<1>3. ASSUME NEW k \in Written(s[1], s[2]) PROVE k \in Keys(id) /\ k \in Times
  <2>1. PICK w \in DOMAIN said : w[1] = s[1] /\ w[2] = s[2] /\ w[3] = 1 /\ w[4] = k
    BY <1>3 DEF Written
  <2>2. w \in Places /\ k \in Keys(IdOf(w))
    BY <2>1 DEF Recorded
  <2>3. IdOf(w) = id + 1 - 1 /\ id + 1 - 1 = id
    BY <1>1, <1>2, <2>1 DEF IdOf
  <2>4. k \in Times
    BY <1>2, <2>1, <2>2 DEF Places
  <2> QED
    BY <2>2, <2>3, <2>4
<1>4. Keys(id) \subseteq Written(s[1], s[2])
  BY <1>1 DEF Recorded
<1> QED
  BY <1>1, <1>3, <1>4

LEMMA NextKeyFacts ==
  ASSUME NEW id, Keys(id) \subseteq Times, NEW key \in Int
  PROVE  /\ NextKey(id, key) \in Int
         /\ \/ NextKey(id, key) = key /\ \A k \in Keys(id) : k <= key
            \/ /\ NextKey(id, key) \in Keys(id) /\ key < NextKey(id, key)
               /\ \A k \in Keys(id) : key < k => NextKey(id, key) <= k
<1>1. Keys(id) \subseteq Int
  BY TimesAre
<1>2. CASE \E k \in Keys(id) : k > key
  <2> DEFINE S == {k \in Keys(id) : k > key}
  <2>1. NextKey(id, key) = Min(S)
    BY <1>2 DEF NextKey
  <2>2. Infinity \in Nat /\ S \in SUBSET (-Infinity .. Infinity) /\ S # {}
    <3>1. \A t \in Times : t \in -Infinity .. Infinity
      BY TimesAssumption DEF Infinity
    <3>2. Infinity \in Nat
      BY DEF Infinity
    <3> QED
      BY <1>2, <3>1, <3>2
  <2>3. Min(S) \in S /\ \A k \in S : Min(S) <= k
    BY <2>2, FirstAndLast
  <2> QED
    BY <1>1, <2>1, <2>3
<1>3. CASE ~ \E k \in Keys(id) : k > key
  <2>1. NextKey(id, key) = key
    BY <1>3 DEF NextKey
  <2>2. \A k \in Keys(id) : k <= key
    BY <1>1, <1>3
  <2> QED
    BY <2>1, <2>2
<1> QED
  BY <1>2, <1>3

LEMMA PreviousKeyFacts ==
  ASSUME NEW id, Keys(id) \subseteq Times, NEW key \in Int
  PROVE  /\ PreviousKey(id, key) \in Int
         /\ \/ PreviousKey(id, key) = key /\ \A k \in Keys(id) : key <= k
            \/ /\ PreviousKey(id, key) \in Keys(id) /\ PreviousKey(id, key) < key
               /\ \A k \in Keys(id) : k < key => k <= PreviousKey(id, key)
<1>1. Keys(id) \subseteq Int
  BY TimesAre
<1>2. CASE \E k \in Keys(id) : k < key
  <2> DEFINE S == {k \in Keys(id) : k < key}
  <2>1. PreviousKey(id, key) = Max(S)
    BY <1>2 DEF PreviousKey
  <2>2. Infinity \in Nat /\ S \in SUBSET (-Infinity .. Infinity) /\ S # {}
    <3>1. \A t \in Times : t \in -Infinity .. Infinity
      BY TimesAssumption DEF Infinity
    <3>2. Infinity \in Nat
      BY DEF Infinity
    <3> QED
      BY <1>2, <3>1, <3>2
  <2>3. Max(S) \in S /\ \A k \in S : k <= Max(S)
    BY <2>2, FirstAndLast
  <2> QED
    BY <1>1, <2>1, <2>3
<1>3. CASE ~ \E k \in Keys(id) : k < key
  <2>1. PreviousKey(id, key) = key
    BY <1>3 DEF PreviousKey
  <2>2. \A k \in Keys(id) : key <= k
    BY <1>1, <1>3
  <2> QED
    BY <2>1, <2>2
<1> QED
  BY <1>2, <1>3

LEMMA AppendFacts ==
  ASSUME NEW S, NEW s \in Seq(S), NEW x
  PROVE  /\ Append(s, x) \in Seq(S \cup {x})
         /\ Len(s) \in Nat /\ DOMAIN s = 1 .. Len(s) /\ DOMAIN Append(s, x) = 1 .. Len(s) + 1
         /\ \A n \in DOMAIN s : Append(s, x)[n] = s[n]
         /\ Append(s, x)[Len(s) + 1] = x
<1>1. PICK T : T = S \cup {x}
  OBVIOUS
<1>2. s \in Seq(T) /\ x \in T
  BY <1>1, SeqDef
<1>3. /\ Append(s, x) \in Seq(T) /\ Len(Append(s, x)) = Len(s) + 1
      /\ \A n \in 1 .. Len(s) : Append(s, x)[n] = s[n]
      /\ Append(s, x)[Len(s) + 1] = x
  BY <1>2, AppendProperties
<1> QED
  BY <1>1, <1>2, <1>3
(* An iterator over the keys K that is at cur, and has delivered G.        *)

Steps == {"asc", "desc", "bounded"}
Precedes(step, k, l) == IF step = "desc" THEN k > l ELSE k < l
WantedBy(step, start, end, k) ==
  /\ step = "asc" => start <= k
  /\ step = "desc" => k <= start
  /\ step = "bounded" => start < k /\ k <= end
\* A bounded iterator may deliver the key it starts from.
AllowedBy(step, start, end, k) == WantedBy(step, start, end, k) \/ (step = "bounded" /\ k = start /\ k <= end)
Progress(step, start, end, cur, K, G) ==
  /\ \A k \in K : WantedBy(step, start, end, k) /\ (Precedes(step, k, cur) \/ cur \notin K) => k \in G
  /\ \A k \in G : k \in K /\ AllowedBy(step, start, end, k) /\ Precedes(step, k, cur)
  /\ cur \in K => IF step = "desc" THEN cur <= start ELSE start <= cur

LEMMA ProgressAsc ==
  ASSUME NEW id, Keys(id) \subseteq Times, NEW start \in Int, NEW end
  PROVE  /\ NextKeyInclusive(id, start) \in Int
         /\ Progress("asc", start, end, NextKeyInclusive(id, start), Keys(id), {})
<1>1. PICK K, cur : K = Keys(id) /\ cur = NextKeyInclusive(id, start)
  OBVIOUS
<1>2. K \subseteq Int
  BY <1>1, TimesAre
<1>3. CASE start \in K
  <2>1. cur = start
    BY <1>1, <1>3 DEF NextKeyInclusive, Has
  <2> QED
    BY <1>1, <1>2, <1>3, <2>1 DEF Progress, WantedBy, Precedes
<1>4. CASE start \notin K
  <2>1. cur = NextKey(id, start)
    BY <1>1, <1>4 DEF NextKeyInclusive, Has
  <2>2. /\ cur \in Int
        /\ \/ cur = start /\ \A k \in K : k <= start
           \/ cur \in K /\ start < cur /\ \A k \in K : start < k => cur <= k
    BY <1>1, <2>1, NextKeyFacts
  <2>3. \A k \in K : k # start /\ k \in Int
    BY <1>2, <1>4
  <2>4. Progress("asc", start, end, cur, K, {})
    BY <1>4, <2>2, <2>3 DEF Progress, WantedBy, Precedes
  <2> QED
    BY <1>1, <2>2, <2>4
<1> QED
  BY <1>3, <1>4

LEMMA ProgressDesc ==
  ASSUME NEW id, Keys(id) \subseteq Times, NEW start \in Int, NEW end
  PROVE  /\ PreviousKeyInclusive(id, start) \in Int
         /\ Progress("desc", start, end, PreviousKeyInclusive(id, start), Keys(id), {})
<1>1. PICK K, cur : K = Keys(id) /\ cur = PreviousKeyInclusive(id, start)
  OBVIOUS
<1>2. K \subseteq Int
  BY <1>1, TimesAre
<1>3. CASE start \in K
  <2>1. cur = start
    BY <1>1, <1>3 DEF PreviousKeyInclusive, Has
  <2> QED
    BY <1>1, <1>2, <1>3, <2>1 DEF Progress, WantedBy, Precedes
<1>4. CASE start \notin K
  <2>1. cur = PreviousKey(id, start)
    BY <1>1, <1>4 DEF PreviousKeyInclusive, Has
  <2>2. /\ cur \in Int
        /\ \/ cur = start /\ \A k \in K : start <= k
           \/ cur \in K /\ cur < start /\ \A k \in K : k < start => k <= cur
    BY <1>1, <2>1, PreviousKeyFacts
  <2>3. \A k \in K : k # start /\ k \in Int
    BY <1>2, <1>4
  <2>4. Progress("desc", start, end, cur, K, {})
    BY <1>4, <2>2, <2>3 DEF Progress, WantedBy, Precedes
  <2> QED
    BY <1>1, <2>2, <2>4
<1> QED
  BY <1>3, <1>4

LEMMA ProgressBounded ==
  ASSUME NEW id, Keys(id) \subseteq Times, NEW start \in Int, NEW end \in Int
  PROVE  /\ NextKey(id, start) \in Int
         /\ Progress("bounded", start, end, NextKey(id, start), Keys(id), {})
<1>1. PICK K, cur : K = Keys(id) /\ cur = NextKey(id, start)
  OBVIOUS
<1>2. K \subseteq Int
  BY <1>1, TimesAre
<1>3. /\ cur \in Int
      /\ \/ cur = start /\ \A k \in K : k <= start
         \/ cur \in K /\ start < cur /\ \A k \in K : start < k => cur <= k
  BY <1>1, NextKeyFacts
<1>4. Progress("bounded", start, end, cur, K, {})
  BY <1>2, <1>3 DEF Progress, WantedBy, Precedes
<1> QED
  BY <1>1, <1>3, <1>4

\* An iterator goes on to the next key of its side, or beyond all.
LEMMA ProgressGoesOn ==
  ASSUME NEW step \in Steps, NEW start \in Int, NEW end \in Int, NEW cur \in Int, NEW next \in Int,
         NEW K \in SUBSET Int, NEW G, Progress(step, start, end, cur, K, G),
         cur \in K, step = "bounded" => cur <= end, Precedes(step, cur, next),
         \A k \in K : Precedes(step, cur, k) => next \in K /\ ~ Precedes(step, k, next)
  PROVE  Progress(step, start, end, next, K, G \cup {cur})
<1>1. ASSUME NEW k \in K, WantedBy(step, start, end, k), Precedes(step, k, next) \/ next \notin K
      PROVE  k \in G \cup {cur}
  <2>1. ~ Precedes(step, cur, k)
    BY <1>1
  <2>2. k = cur \/ Precedes(step, k, cur)
    BY <2>1 DEF Precedes
  <2> QED
    BY <1>1, <2>2 DEF Progress
<1>2. ASSUME NEW k \in G \cup {cur} PROVE k \in K /\ AllowedBy(step, start, end, k) /\ Precedes(step, k, next)
  <2>1. CASE k \in G
    <3>1. k \in K /\ AllowedBy(step, start, end, k) /\ Precedes(step, k, cur)
      BY <2>1 DEF Progress
    <3>2. Precedes(step, k, next)
      <4>1. k \in Int
        BY <3>1
      <4> QED
        BY <3>1, <4>1 DEF Precedes
    <3> QED
      BY <3>1, <3>2
  <2>2. CASE k = cur
    <3>1. IF step = "desc" THEN cur <= start ELSE start <= cur
      BY DEF Progress
    <3>2. AllowedBy(step, start, end, cur)
      BY <3>1 DEF AllowedBy, WantedBy, Steps
    <3> QED
      BY <2>2, <3>2
  <2> QED
    BY <1>2, <2>1, <2>2
<1>3. ASSUME next \in K PROVE IF step = "desc" THEN next <= start ELSE start <= next
  <2>1. IF step = "desc" THEN cur <= start ELSE start <= cur
    BY DEF Progress
  <2> QED
    BY <2>1 DEF Precedes
<1> QED
  BY <1>1, <1>2, <1>3 DEF Progress

LEMMA NextOnes ==
  ASSUME NEW id, Keys(id) \subseteq Times, NEW key \in Keys(id), NEW step \in Steps, NEW next,
         next = IF step = "desc" THEN PreviousKeyOrDefault(id, key) ELSE NextKeyOrDefault(id, key)
  PROVE  /\ next \in Int /\ Precedes(step, key, next)
         /\ \A k \in Keys(id) : Precedes(step, key, k) => next \in Keys(id) /\ ~ Precedes(step, k, next)
<1>1. PICK K : K = Keys(id)
  OBVIOUS
<1>2. K \subseteq Int /\ key \in Int /\ key < Infinity /\ -Infinity < key /\ Infinity \in Int /\ -Infinity \in Int
  <2>1. key \in Times /\ K \subseteq Times
    BY <1>1
  <2> QED
    BY <2>1, TimesAre
<1>3. CASE step = "desc"
  <2>1. PICK p : p = PreviousKey(id, key)
    OBVIOUS
  <2>2. /\ p \in Int
        /\ \/ p = key /\ \A k \in K : key <= k
           \/ p \in K /\ p < key /\ \A k \in K : k < key => k <= p
    BY <1>1, <1>2, <2>1, PreviousKeyFacts
  <2>3. next = IF p < key THEN p ELSE -Infinity
    BY <1>3, <2>1 DEF PreviousKeyOrDefault
  <2> QED
    BY <1>1, <1>2, <1>3, <2>2, <2>3 DEF Precedes
<1>4. CASE step # "desc"
  <2>1. PICK p : p = NextKey(id, key)
    OBVIOUS
  <2>2. /\ p \in Int
        /\ \/ p = key /\ \A k \in K : k <= key
           \/ p \in K /\ key < p /\ \A k \in K : key < k => p <= k
    BY <1>1, <1>2, <2>1, NextKeyFacts
  <2>3. next = IF p > key THEN p ELSE Infinity
    BY <1>4, <2>1 DEF NextKeyOrDefault
  <2> QED
    BY <1>1, <1>2, <1>4, <2>2, <2>3 DEF Precedes
<1> QED
  BY <1>3, <1>4
-----------------------------------------------------------------------------
(* The invariant.                                                          *)

At == StreamOf(items.at[1], items.at[2])
Position ==
  items.step # "none" =>
    /\ items.step \in Steps /\ mode = "watch" /\ items.at \in Slots
    /\ items.start \in Int /\ items.current_key \in Int /\ items.end_key \in Int
    /\ \E S : items.got \in Seq(S)
    /\ Progress(items.step, items.start, items.end_key, items.current_key, Keys(At), Got)
    /\ \A m, n \in DOMAIN items.got : m < n => Precedes(items.step, items.got[m].key, items.got[n].key)
    /\ \A n \in DOMAIN items.got : items.got[n].element = ItemAt(items.at[1], items.at[2], items.got[n].key)
    /\ items.over => ~ Delivers(At)
ItemsForm ==
  /\ items = [step |-> items.step, at |-> items.at, start |-> items.start, current_key |-> items.current_key,
              end_key |-> items.end_key, got |-> items.got, over |-> items.over]
  /\ items.over \in BOOLEAN
  /\ items.step = "none" => items.over

Inv ==
  /\ Laid /\ left \in Nat /\ mode \in {"play", "watch"}
  /\ Recorded
  /\ ItemsForm /\ Position

LEMMA InitialInv == StreamsInit => Inv
<1> SUFFICES ASSUME StreamsInit PROVE Inv
  OBVIOUS
<1>1. PICK d \in Declarations : fields = d.fields /\ left = d.writes /\ offsets = OffsetsOf(d.fields)
  BY DEF StreamsInit, Declare
<1>2. d.fields \in Seq(Fields) /\ d.writes \in Nat
      /\ \A i \in DOMAIN d.fields : OffsetsOf(d.fields)[i] + BackingSize(d.fields[i]) - 1 <= MaxStream
  BY DeclarationsAssumption
<1>3. Laid /\ left \in Nat
  BY <1>1, <1>2 DEF Laid
<1>4. Recorded
  <2>1. streams = [id \in Backing |-> <<>>] /\ said = <<>>
    BY DEF StreamsInit
  <2>2. <<>> \in Values
    <3>1. <<>> \in [{} -> Nat]
      OBVIOUS
    <3> QED
      BY <3>1 DEF Values
  <2>3. DOMAIN said = {}
    BY <2>1
  <2>4. streams \in [Backing -> Values]
    BY <2>1, <2>2
  <2>5. ASSUME NEW s \in Slots PROVE Keys(StreamOf(s[1], s[2])) = {}
    <3>1. StreamOf(s[1], s[2]) \in Backing
      BY <1>3, SlotFacts
    <3> QED
      BY <2>1, <3>1 DEF Keys
  <2> QED
    BY <2>3, <2>4, <2>5 DEF Recorded
<1>5. items = NoItems
  BY DEF StreamsInit
<1>6. ItemsForm /\ Position
  BY <1>5 DEF ItemsForm, Position, NoItems
<1>7. mode \in {"play", "watch"}
  BY DEF StreamsInit
<1> QED
  BY <1>3, <1>4, <1>6, <1>7 DEF Inv

LEMMA StreamsStay ==
  ASSUME fields' = fields, offsets' = offsets, streams' = streams
  PROVE  /\ \A id : Keys(id)' = Keys(id)
         /\ \A id, key : GetValue(id, key)' = GetValue(id, key)
         /\ \A i, j : StreamOf(i, j)' = StreamOf(i, j)
         /\ \A i, j, key : ItemAt(i, j, key)' = ItemAt(i, j, key)
         /\ said' = said => Recorded' = Recorded
<1>1. \A id : Keys(id)' = Keys(id)
  BY DEF Keys
<1>2. \A id, key : Has(id, key)' = Has(id, key) /\ NextKey(id, key)' = NextKey(id, key) /\ PreviousKey(id, key)' = PreviousKey(id, key)
  BY <1>1 DEF Has, NextKey, PreviousKey
<1>3. ASSUME NEW id, NEW key PROVE GetValue(id, key)' = GetValue(id, key)
  BY <1>1, <1>2 DEF GetValue
<1>4. Places' = Places /\ Slots' = Slots /\ (\A w : IdOf(w)' = IdOf(w)) /\ \A i, j : StreamOf(i, j)' = StreamOf(i, j)
  BY FieldsStay
<1>5. ASSUME said' = said PROVE Recorded' = Recorded
  <2>1. \A i, j : Written(i, j)' = Written(i, j)
    BY <1>5 DEF Written
  <2> QED
    BY <1>1, <1>4, <1>5, <2>1 DEF Recorded, Backing
<1>6. ASSUME NEW i, NEW j, NEW key PROVE ItemAt(i, j, key)' = ItemAt(i, j, key)
  BY <1>3, <1>4 DEF ItemAt
<1> QED
  BY <1>1, <1>3, <1>4, <1>5, <1>6

LEMMA ItemsStay ==
  ASSUME fields' = fields, offsets' = offsets, streams' = streams, items' = items, mode' = mode, Position, ItemsForm
  PROVE  Position' /\ ItemsForm'
<1>1. /\ \A id : Keys(id)' = Keys(id)
      /\ \A i, j, key : ItemAt(i, j, key)' = ItemAt(i, j, key)
      /\ At' = At /\ Got' = Got /\ Slots' = Slots
      /\ \A id : Delivers(id)' = Delivers(id)
  BY StreamsStay, FieldsStay DEF At, Got, Delivers, Has
<1>2. Position'
  BY <1>1 DEF Position
<1>3. ItemsForm'
  BY DEF ItemsForm
<1> QED
  BY <1>2, <1>3

LEMMA StartedPosition ==
  ASSUME Laid, fields' = fields, offsets' = offsets, streams' = streams, mode' = "watch",
         NEW s \in Slots, NEW step \in Steps, NEW start \in Int, NEW first \in Int, NEW end \in Int,
         Progress(step, start, end, first, Keys(StreamOf(s[1], s[2])), {}),
         Started(step, s[1], s[2], start, first, end)
  PROVE  Position' /\ ItemsForm'
<1>1. items' = [step |-> step, at |-> <<s[1], s[2]>>, start |-> start, current_key |-> first, end_key |-> end, got |-> <<>>, over |-> FALSE]
  BY DEF Started
<1>2. /\ items'.step = step /\ items'.at = <<s[1], s[2]>> /\ items'.start = start /\ items'.current_key = first
      /\ items'.end_key = end /\ items'.got = <<>> /\ items'.over = FALSE
  BY <1>1
<1>3. items'.at = s /\ step # "none"
  BY <1>2, SlotFacts DEF Steps
<1>4. ItemsForm'
  BY <1>1, <1>3 DEF ItemsForm
<1>5. Slots' = Slots /\ At' = StreamOf(s[1], s[2]) /\ Keys(At)' = Keys(StreamOf(s[1], s[2]))
  BY <1>2, <1>3, FieldsStay, StreamsStay DEF At, Keys
<1>6. Got' = {} /\ DOMAIN items'.got = {}
  BY <1>2 DEF Got
<1>7. items'.got \in Seq(Int)
  BY <1>2, EmptySeq
<1> QED
  BY <1>2, <1>3, <1>4, <1>5, <1>6, <1>7 DEF Position

LEMMA IteratePosition ==
  ASSUME Inv, Iterate
  PROVE  Position' /\ ItemsForm'
<1>1. Laid /\ Recorded /\ fields' = fields /\ offsets' = offsets /\ streams' = streams /\ mode' = "watch"
  BY DEF Inv, Iterate
<1>2. \A t \in Times \cup {t + 1 : t \in Times} : t \in Int
  BY TimesAre
<1>3. Infinity \in Int /\ -Infinity \in Int /\ "asc" \in Steps /\ "desc" \in Steps /\ "bounded" \in Steps
  BY TimesAre DEF Steps
<1>4. \A s \in Slots : Keys(StreamOf(s[1], s[2])) \subseteq Times
  BY <1>1, KeysAre
<1>5. ASSUME NEW s \in Slots, NEW start \in Int, IterFrom(s[1], s[2], start) PROVE Position' /\ ItemsForm'
  <2>1. PICK id, first : id = StreamOf(s[1], s[2]) /\ first = NextKeyInclusive(id, start)
    OBVIOUS
  <2>2. first \in Int /\ Progress("asc", start, Infinity, first, Keys(id), {})
    BY <1>4, <2>1, ProgressAsc
  <2>3. Started("asc", s[1], s[2], start, first, Infinity)
    BY <1>5, <2>1 DEF IterFrom
  <2> QED
    BY <1>1, <1>3, <2>1, <2>2, <2>3, StartedPosition
<1>6. ASSUME NEW s \in Slots, NEW start \in Int, IterFromDesc(s[1], s[2], start) PROVE Position' /\ ItemsForm'
  <2>1. PICK id, first : id = StreamOf(s[1], s[2]) /\ first = PreviousKeyInclusive(id, start)
    OBVIOUS
  <2>2. first \in Int /\ Progress("desc", start, -Infinity, first, Keys(id), {})
    BY <1>4, <2>1, ProgressDesc
  <2>3. Started("desc", s[1], s[2], start, first, -Infinity)
    BY <1>6, <2>1 DEF IterFromDesc
  <2> QED
    BY <1>1, <1>3, <2>1, <2>2, <2>3, StartedPosition
<1>7. ASSUME NEW s \in Slots, NEW prev \in Int, NEW time \in Int, IterSincePreviousFrame(s[1], s[2], prev, time)
      PROVE  Position' /\ ItemsForm'
  <2>1. PICK id, first : id = StreamOf(s[1], s[2]) /\ first = NextKey(id, prev)
    OBVIOUS
  <2>2. first \in Int /\ Progress("bounded", prev, time, first, Keys(id), {})
    BY <1>4, <2>1, ProgressBounded
  <2>3. Started("bounded", s[1], s[2], prev, first, time)
    BY <1>7, <2>1 DEF IterSincePreviousFrame
  <2> QED
    BY <1>1, <1>3, <2>1, <2>2, <2>3, StartedPosition
<1> QED
  BY <1>2, <1>5, <1>6, <1>7 DEF Iterate
LEMMA IterNextPosition ==
  ASSUME Inv, IterNext
  PROVE  Position' /\ ItemsForm'
<1>1. /\ Laid /\ Recorded /\ ItemsForm /\ Position /\ fields' = fields /\ offsets' = offsets /\ streams' = streams
      /\ mode = "watch" /\ mode' = "watch" /\ ~ items.over
  BY DEF Inv, IterNext
<1>2. PICK step, at, start, cur, end, got, K :
        /\ step = items.step /\ at = items.at /\ start = items.start /\ cur = items.current_key /\ end = items.end_key /\ got = items.got
        /\ K = Keys(At)
  OBVIOUS
<1>3. items.step # "none"
  BY <1>1 DEF ItemsForm
<1>4. /\ step \in Steps /\ at \in Slots /\ start \in Int /\ cur \in Int /\ end \in Int
      /\ Progress(step, start, end, cur, K, Got)
      /\ \A m, n \in DOMAIN got : m < n => Precedes(step, got[m].key, got[n].key)
      /\ \A n \in DOMAIN got : got[n].element = ItemAt(at[1], at[2], got[n].key)
  BY <1>1, <1>2, <1>3 DEF Position
<1>5. PICK S : got \in Seq(S)
  BY <1>1, <1>2, <1>3 DEF Position
<1>6. K \subseteq Times /\ K \in SUBSET Int
  <2>1. K \subseteq Times
    BY <1>1, <1>2, <1>4, KeysAre DEF At
  <2> QED
    BY <2>1, TimesAre
<1>7. /\ items = [step |-> step, at |-> at, start |-> start, current_key |-> cur, end_key |-> end, got |-> got, over |-> FALSE]
  BY <1>1, <1>2 DEF ItemsForm
<1>8. /\ \A id : Keys(id)' = Keys(id)
      /\ \A i, j, key : ItemAt(i, j, key)' = ItemAt(i, j, key)
      /\ \A i, j : StreamOf(i, j)' = StreamOf(i, j)
      /\ Slots' = Slots
  BY <1>1, StreamsStay, FieldsStay
<1>9. CASE Delivers(At)
  <2>1. PICK next : next = IF step = "desc" THEN PreviousKeyOrDefault(At, cur) ELSE NextKeyOrDefault(At, cur)
    OBVIOUS
  <2>2. PICK x : x = [key |-> cur, element |-> ItemAt(at[1], at[2], cur)]
    OBVIOUS
  <2>3. items' = [items EXCEPT !.got = Append(@, x), !.current_key = next]
    BY <1>2, <1>9, <2>1, <2>2 DEF IterNext, At
  <2>4. PICK more : more = Append(got, x)
    OBVIOUS
  <2>5. items' = [step |-> step, at |-> at, start |-> start, current_key |-> next, end_key |-> end, got |-> more, over |-> FALSE]
    BY <1>7, <2>3, <2>4
  <2>6. /\ items'.step = step /\ items'.at = at /\ items'.start = start /\ items'.current_key = next
        /\ items'.end_key = end /\ items'.got = more /\ items'.over = FALSE
    BY <2>5
  <2>7. /\ more \in Seq(S \cup {x})
        /\ Len(got) \in Nat /\ DOMAIN got = 1 .. Len(got) /\ DOMAIN more = 1 .. Len(got) + 1
        /\ \A n \in DOMAIN got : more[n] = got[n]
        /\ more[Len(got) + 1] = x
    BY <1>5, <2>4, AppendFacts
  <2>8. PICK len : len = Len(got)
    OBVIOUS
  <2>9. /\ len \in Nat /\ DOMAIN got = 1 .. len /\ DOMAIN more = 1 .. len + 1
        /\ \A n \in 1 .. len : more[n] = got[n]
        /\ more[len + 1] = x
    BY <2>7, <2>8
  <2>10. cur \in K /\ (step = "bounded" => cur <= end)
    BY <1>2, <1>9 DEF Delivers, Has
  <2>11. /\ next \in Int /\ Precedes(step, cur, next)
         /\ \A k \in K : Precedes(step, cur, k) => next \in K /\ ~ Precedes(step, k, next)
    BY <1>2, <1>4, <1>6, <2>1, <2>10, NextOnes
  <2>12. Progress(step, start, end, next, K, Got \cup {cur})
    BY <1>4, <1>6, <2>10, <2>11, ProgressGoesOn
  <2>13. At' = At /\ Keys(At)' = K /\ Steps' = Steps
    BY <1>2, <1>8, <2>6 DEF At, Keys, StreamOf
  <2>14. Got' = Got \cup {cur}
    <3>1. Got' = {more[n].key : n \in 1 .. len + 1}
      BY <2>6, <2>9 DEF Got
    <3>2. Got = {got[n].key : n \in 1 .. len}
      BY <1>2, <2>9 DEF Got
    <3>3. x.key = cur
      BY <2>2
    <3>4. \A n \in 1 .. len + 1 : n \in 1 .. len \/ n = len + 1
      BY <2>9
    <3>5. \A n \in 1 .. len : n \in 1 .. len + 1
      BY <2>9
    <3>6. len + 1 \in 1 .. len + 1
      BY <2>9
    <3> QED
      BY <2>9, <3>1, <3>2, <3>3, <3>4, <3>5, <3>6
  <2>15. ASSUME NEW m \in 1 .. len + 1, NEW n \in 1 .. len + 1, m < n PROVE Precedes(step, more[m].key, more[n].key)
    <3>1. m \in 1 .. len
      BY <2>9, <2>15
    <3>2. CASE n \in 1 .. len
      BY <1>4, <2>9, <2>15, <3>1, <3>2
    <3>3. CASE n \notin 1 .. len
      <4>1. n = len + 1
        BY <2>9, <3>3
      <4>2. more[n].key = cur /\ more[m].key = got[m].key
        BY <2>2, <2>9, <3>1, <4>1
      <4>3. got[m].key \in Got
        BY <1>2, <2>9, <3>1 DEF Got
      <4>4. Precedes(step, got[m].key, cur)
        BY <1>4, <4>3 DEF Progress
      <4> QED
        BY <4>2, <4>4
    <3> QED
      BY <3>2, <3>3
  <2>16. ASSUME NEW n \in 1 .. len + 1 PROVE more[n].element = ItemAt(at[1], at[2], more[n].key)
    <3>1. CASE n \in 1 .. len
      BY <1>4, <2>9, <3>1
    <3>2. CASE n \notin 1 .. len
      <4>1. n = len + 1
        BY <2>9, <3>2
      <4> QED
        BY <2>2, <2>9, <4>1
    <3> QED
      BY <3>1, <3>2
  <2>17. ItemsForm'
    BY <1>2, <1>3, <2>5, <2>6 DEF ItemsForm
  <2>18. \A n \in 1 .. len + 1 : more[n].element = ItemAt(at[1], at[2], more[n].key)'
    BY <1>8, <2>16
  <2>19. \A n \in DOMAIN items'.got : items'.got[n].element = ItemAt(items.at[1], items.at[2], items.got[n].key)'
    BY <2>6, <2>9, <2>18
  <2>20. \A m, n \in DOMAIN items'.got : m < n => Precedes(items'.step, items'.got[m].key, items'.got[n].key)
    BY <2>6, <2>9, <2>15
  <2>21. Progress(items'.step, items'.start, items'.end_key, items'.current_key, Keys(At)', Got')
    BY <2>6, <2>12, <2>13, <2>14
  <2>22. \E T : items'.got \in Seq(T)
    BY <2>6, <2>7
  <2>23. items'.step \in Steps /\ mode' = "watch" /\ items'.at \in Slots' /\ items'.start \in Int /\ items'.current_key \in Int /\ items'.end_key \in Int
    BY <1>1, <1>4, <1>8, <2>6, <2>11
  <2> QED
    BY <2>6, <2>17, <2>19, <2>20, <2>21, <2>22, <2>23 DEF Position
<1>10. CASE ~ Delivers(At)
  <2>1. items' = [items EXCEPT !.over = TRUE]
    BY <1>2, <1>10 DEF IterNext, At
  <2>2. items' = [step |-> step, at |-> at, start |-> start, current_key |-> cur, end_key |-> end, got |-> got, over |-> TRUE]
    BY <1>7, <2>1
  <2>3. /\ items'.step = step /\ items'.at = at /\ items'.start = start /\ items'.current_key = cur
        /\ items'.end_key = end /\ items'.got = got /\ items'.over = TRUE
    BY <2>2
  <2>4. At' = At /\ Keys(At)' = K /\ Got' = Got
    BY <1>2, <1>8, <2>3 DEF At, Got, Keys, StreamOf
  <2>5. Delivers(At)' = Delivers(At)
    BY <1>2, <2>3, <2>4 DEF Delivers, Has
  <2>6. ItemsForm'
    BY <2>2, <2>3 DEF ItemsForm
  <2>10. \A n \in DOMAIN got : got[n].element = ItemAt(at[1], at[2], got[n].key)'
    BY <1>4, <1>8
  <2>7. \A n \in DOMAIN items'.got : items'.got[n].element = ItemAt(items.at[1], items.at[2], items.got[n].key)'
    BY <2>3, <2>10
  <2>8. items'.got \in Seq(S)
    BY <1>5, <2>3
  <2>9. Progress(items'.step, items'.start, items'.end_key, items'.current_key, Keys(At)', Got')
    BY <1>4, <2>3, <2>4
  <2> QED
    BY <1>1, <1>4, <1>8, <1>10, <2>3, <2>5, <2>6, <2>7, <2>8, <2>9 DEF Position
<1> QED
  BY <1>9, <1>10
LEMMA NextInv == Inv /\ [StreamsNext]_streamVars => Inv'
<1> SUFFICES ASSUME Inv, [StreamsNext]_streamVars PROVE Inv'
  OBVIOUS
<1>1. Laid /\ left \in Nat /\ mode \in {"play", "watch"} /\ Recorded /\ ItemsForm /\ Position
  BY DEF Inv
<1>2. fields' = fields /\ offsets' = offsets /\ Laid' = Laid
  BY FieldsStay DEF StreamsNext, Play, Replay, Iterate, IterNext, streamVars
<1>3. left' \in Nat /\ mode' \in {"play", "watch"}
  BY <1>1 DEF StreamsNext, Play, Replay, Iterate, IterNext, streamVars
<1>4. CASE Play
  <2>1. mode = "play" /\ mode' = mode /\ items' = items
    BY <1>4 DEF Play
  <2>2. items.step = "none"
    BY <1>1, <2>1 DEF Position
  <2>3. Position' /\ ItemsForm'
    BY <1>1, <2>1, <2>2 DEF Position, ItemsForm
  <2>4. Recorded'
    BY <1>1, <1>4, PlayRecords
  <2> QED
    BY <1>1, <1>2, <1>3, <2>3, <2>4 DEF Inv
<1>5. CASE Replay
  <2>1. items.step = "none" /\ items' = items /\ streams' = streams /\ said' = said
    BY <1>1, <1>5 DEF Replay, Position
  <2>2. Position' /\ ItemsForm'
    BY <1>1, <2>1 DEF Position, ItemsForm
  <2>3. Recorded'
    BY <1>1, <1>2, <2>1, StreamsStay
  <2> QED
    BY <1>1, <1>2, <1>3, <2>2, <2>3 DEF Inv
<1>6. CASE Iterate
  <2>1. streams' = streams /\ said' = said
    BY <1>6 DEF Iterate
  <2>2. Recorded'
    BY <1>1, <1>2, <2>1, StreamsStay
  <2>3. Position' /\ ItemsForm'
    BY <1>6, IteratePosition
  <2> QED
    BY <1>1, <1>2, <1>3, <2>2, <2>3 DEF Inv
<1>7. CASE IterNext
  <2>1. streams' = streams /\ said' = said
    BY <1>7 DEF IterNext
  <2>2. Recorded'
    BY <1>1, <1>2, <2>1, StreamsStay
  <2>3. Position' /\ ItemsForm'
    BY <1>7, IterNextPosition
  <2> QED
    BY <1>1, <1>2, <1>3, <2>2, <2>3 DEF Inv
<1>8. CASE UNCHANGED streamVars
  <2>1. streams' = streams /\ said' = said /\ items' = items /\ mode' = mode
    BY <1>8 DEF streamVars
  <2>2. Recorded'
    BY <1>1, <1>2, <2>1, StreamsStay
  <2>3. Position' /\ ItemsForm'
    BY <1>1, <1>2, <2>1, ItemsStay
  <2> QED
    BY <1>1, <1>2, <1>3, <2>2, <2>3 DEF Inv
<1> QED
  BY <1>4, <1>5, <1>6, <1>7, <1>8 DEF StreamsNext

LEMMA InvIsTyped == Inv => StreamsTypeOK
<1> SUFFICES ASSUME Inv PROVE StreamsTypeOK
  OBVIOUS
<1>1. Laid /\ left \in Nat /\ mode \in {"play", "watch"} /\ streams \in [Backing -> Values] /\ items.over \in BOOLEAN
  BY DEF Inv, Recorded, ItemsForm
<1>2. ASSUME NEW i \in DOMAIN fields PROVE offsets[i] \in Nat \ {0} /\ offsets[i] + BackingSize(fields[i]) - 1 \in 0 .. MaxStream
  <2>1. offsets[i] \in Nat \ {0} /\ BackingSize(fields[i]) \in Nat
    BY <1>1, LaidFacts
  <2>2. offsets[i] + BackingSize(fields[i]) - 1 <= MaxStream /\ MaxStream \in Nat
    BY <1>1, DeclarationsAssumption DEF Laid
  <2> QED
    BY <2>1, <2>2
<1>3. ASSUME NEW id \in Backing, NEW k \in Keys(id) PROVE k \in Int /\ streams[id][k] \in Nat
  <2>1. streams[id] \in Values
    BY <1>1
  <2> QED
    BY <2>1, ValuesAre DEF Keys
<1>4. DOMAIN streams = Backing
  BY <1>1
<1> QED
  BY <1>1, <1>2, <1>3, <1>4 DEF StreamsTypeOK

LEMMA InvDelivers == Inv => IteratorsDeliverAll
<1> SUFFICES ASSUME Inv, items.step # "none" PROVE IteratorsDeliverAll
  BY DEF IteratorsDeliverAll
<1>1. Laid /\ Recorded
  BY DEF Inv
<1>2. PICK step, at, start, cur, end, got, K :
        /\ step = items.step /\ at = items.at /\ start = items.start /\ cur = items.current_key /\ end = items.end_key /\ got = items.got
        /\ K = Keys(At)
  OBVIOUS
<1>3. /\ step \in Steps /\ at \in Slots /\ start \in Int /\ cur \in Int /\ end \in Int
      /\ Progress(step, start, end, cur, K, Got)
      /\ \A m, n \in DOMAIN got : m < n => Precedes(step, got[m].key, got[n].key)
      /\ \A n \in DOMAIN got : got[n].element = ItemAt(at[1], at[2], got[n].key)
      /\ items.over => ~ Delivers(At)
  BY <1>2 DEF Inv, Position
<1>4. K = Written(at[1], at[2]) /\ K \in SUBSET Int
  <2>1. K = Written(at[1], at[2]) /\ K \subseteq Times
    BY <1>1, <1>2, <1>3, KeysAre DEF At
  <2> QED
    BY <2>1, TimesAre
<1>5. \A k : k \in Due <=> k \in K /\ WantedBy(step, start, end, k)
  BY <1>2, <1>3, <1>4 DEF Due, WantedBy, Steps
<1>6. \A k, l : Before(k, l) <=> Precedes(step, k, l)
  BY <1>2 DEF Before, Precedes
<1>7. GotElements
  <2> SUFFICES ASSUME NEW n \in DOMAIN got, NEW c \in 1 .. fields[at[1]].size, NEW w, w = <<at[1], at[2], c, got[n].key>>, w \in DOMAIN said
               PROVE  got[n].element[c] = <<said[w], 1>>
    BY <1>2 DEF GotElements
  <2>1. w \in Places /\ w[4] \in Keys(IdOf(w)) /\ streams[IdOf(w)][w[4]] = said[w]
    BY <1>1 DEF Recorded
  <2>2. w[1] = at[1] /\ w[2] = at[2] /\ w[3] = c /\ w[4] = got[n].key
    OBVIOUS
  <2>3. IdOf(w) = StreamOf(at[1], at[2]) + c - 1
    BY <1>1, <1>3, <2>2, SlotFacts DEF IdOf
  <2>4. GetValue(IdOf(w), w[4]) = <<said[w], 1>>
    BY <2>1, GetValueAtKey
  <2>5. got[n].element[c] = GetValue(StreamOf(at[1], at[2]) + c - 1, got[n].key)
    BY <1>3 DEF ItemAt
  <2> QED
    BY <2>2, <2>3, <2>4, <2>5
<1>8. \A m, n \in DOMAIN items.got : m < n => Before(items.got[m].key, items.got[n].key)
  BY <1>2, <1>3, <1>6
<1>9. IF items.step = "bounded" THEN Got \ {items.start} \subseteq Due ELSE Got \subseteq Due
  <2>1. \A k \in Got : k \in K /\ AllowedBy(step, start, end, k)
    BY <1>3 DEF Progress
  <2> QED
    BY <1>2, <1>5, <2>1 DEF AllowedBy
<1>10. ASSUME NEW k \in Due, items.over \/ \E l \in Got : Before(k, l) PROVE k \in Got
  <2>1. k \in K /\ WantedBy(step, start, end, k) /\ k \in Int
    BY <1>4, <1>5
  <2>2. Precedes(step, k, cur) \/ cur \notin K
    <3>1. ASSUME NEW l \in Got, Before(k, l) PROVE Precedes(step, k, cur)
      <4>1. l \in K /\ l \in Int /\ Precedes(step, l, cur)
        BY <1>3, <1>4 DEF Progress
      <4>2. Precedes(step, k, l)
        BY <1>6, <3>1
      <4> QED
        BY <1>3, <2>1, <4>1, <4>2 DEF Precedes
    <3>2. ASSUME items.over, cur \in K PROVE Precedes(step, k, cur)
      <4>1. step = "bounded" /\ ~ (cur <= end)
        BY <1>2, <1>3, <3>2 DEF Delivers, Has
      <4>2. k <= end
        BY <2>1, <4>1 DEF WantedBy
      <4> QED
        BY <1>3, <2>1, <4>1, <4>2 DEF Precedes
    <3> QED
      BY <1>10, <3>1, <3>2
  <2> QED
    BY <1>3, <2>1, <2>2 DEF Progress
<1> QED
  BY <1>7, <1>8, <1>9, <1>10 DEF IteratorsDeliverAll

LEMMA StreamsInv == StreamsSpec => []Inv
<1>1. StreamsInit => Inv
  BY InitialInv
<1>2. Inv /\ [StreamsNext]_streamVars => Inv'
  BY NextInv
<1> QED
  BY <1>1, <1>2, PTL DEF StreamsSpec

-----------------------------------------------------------------------------
\* Declared streams lie within those of the engine, and hold numbers under keys.
THEOREM StreamsTypeCorrect == StreamsSpec => []StreamsTypeOK
BY StreamsInv, InvIsTyped, PTL

\* Whatever is declared and written, each number is read back where it was
\* written, and iterators deliver every key on their side once, in order, with
\* its element, before they end: see stream.py.
THEOREM WhatIsStreamedIsDelivered == StreamsSpec => []StreamsDeliver
<1>1. Inv => StreamsDeliver
  BY InvDelivers, RecordedKeepsApart DEF Inv, StreamsDeliver
<1> QED
  BY <1>1, StreamsInv, PTL
=============================================================================
