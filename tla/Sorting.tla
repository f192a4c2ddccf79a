------------------------------- MODULE Sorting -------------------------------
(***************************************************************************)
(* The sorting and searching algorithms of the runtime library, written as *)
(* functions of the array or the list they work on:                        *)
(*   - ArrayLike.sort: insertion sort, or heap sort for long arrays without*)
(*     a key (script/array_like.py);                                       *)
(*   - sort_linked_entities: bottom-up merge sort of a list of entities    *)
(*     (script/containers.py);                                             *)
(*   - FrozenNumSet: search in a sorted array.                             *)
(* An array is a function from 0 .. n - 1; loops are recursive functions.  *)
(***************************************************************************)
EXTENDS Integers, Sequences, FiniteSets

CONSTANT Entries,      \* the elements: records with the fields key and val
         MaxLength,    \* the length of the longest array or list
         HeapFrom,     \* the length from which heap sort is used (15 in the code)
         SearchFrom    \* the length from which FrozenNumSet searches by halving (16 in the code)

\* Elements are compared as numbers are.
ASSUME SortingAssumption ==
    /\ MaxLength \in Nat /\ HeapFrom \in Nat
    /\ \A e \in Entries : e.key \in Int /\ e.val \in Int

Arrays == UNION {[0 .. n - 1 -> Entries] : n \in 0 .. MaxLength}

\* An order: by the key function, or of the elements themselves; reverse or not.
Orders == [keyed: BOOLEAN, reverse: BOOLEAN]

Greater(how, x, y) ==
    \/ x.key > y.key
    \/ (~how.keyed /\ x.key = y.key /\ x.val > y.val)

SwapUnchecked(a, i, j) == [a EXCEPT ![i] = a[j], ![j] = a[i]]

(***************************************************************************)
(* Arrays. A loop goes through states: the array and a position of it, or  *)
(* one beside it.                                                          *)
(***************************************************************************)
Positions == -1 .. MaxLength + 1
Loops == [array: Arrays, at: Positions]
Loop(a, i) == [array |-> a, at |-> i]
Size(a) == Cardinality(DOMAIN a)

\* Element j sinks towards the start while it is out of order.
OutOfOrder(how, x, y) == IF how.reverse THEN Greater(how, y, x) ELSE Greater(how, x, y)
Sinks(how, a, j) == j \in DOMAIN a \ {0} /\ OutOfOrder(how, a[j - 1], a[j])
Sinking(how) ==
    LET sink[l \in Loops] ==
            IF Sinks(how, l.array, l.at)
            THEN sink[Loop(SwapUnchecked(l.array, l.at - 1, l.at), l.at - 1)]
            ELSE l.array
    IN  sink
Sink(how, a, j) == Sinking(how)[Loop(a, j)]

Inserting(how) ==
    LET insert[l \in Loops] ==
            IF l.at \in DOMAIN l.array THEN insert[Loop(Sink(how, l.array, l.at), l.at + 1)] ELSE l.array
    IN  insert
InsertionSort(how, a) == Inserting(how)[Loop(a, 1)]

\* The larger of a node of the heap and its two children; reverse turns the order around.
Preferred(how, a, end, best, child) ==
    IF child \in DOMAIN a /\ child < end /\ Greater(how, a[child], a[best]) # how.reverse THEN child ELSE best
Largest(how, a, end, index) == Preferred(how, a, end, Preferred(how, a, end, index, 2 * index + 1), 2 * index + 2)
Sifting(how, end) ==
    LET sift[l \in Loops] ==
            LET largest == Largest(how, l.array, end, l.at)
            IN  IF l.at \in DOMAIN l.array /\ largest # l.at
                THEN sift[Loop(SwapUnchecked(l.array, l.at, largest), largest)]
                ELSE l.array
    IN  sift
Heapify(how, a, end, index) == Sifting(how, end)[Loop(a, index)]

Heaping(how) ==
    LET heap[l \in Loops] ==
            IF l.at < 0 THEN l.array ELSE heap[Loop(Heapify(how, l.array, Size(l.array), l.at), l.at - 1)]
    IN  heap
Unheaping(how) ==
    LET unheap[l \in Loops] ==
            IF l.at \in DOMAIN l.array \ {0}
            THEN unheap[Loop(Heapify(how, SwapUnchecked(l.array, 0, l.at), l.at, 0), l.at - 1)]
            ELSE l.array
    IN  unheap
HeapSort(how, a) ==
    LET heap == Heaping(how)[Loop(a, Size(a) \div 2 - 1)] IN Unheaping(how)[Loop(heap, Size(a) - 1)]

\* Heap sort is not stable, so it is used only without a key.
Sort(how, a) == IF how.keyed \/ Size(a) < HeapFrom THEN InsertionSort(how, a) ELSE HeapSort(how, a)

\* The search of FrozenNumSet: a is sorted by key.
Windows == [left: 0 .. MaxLength + 1, right: -1 .. MaxLength]
Window(left, right) == [left |-> left, right |-> right]
Searching(a, k) ==
    LET search[w \in Windows] ==
            LET mid == (w.left + w.right) \div 2
            IN  IF w.left > w.right THEN FALSE
                ELSE IF a[mid].key = k THEN TRUE
                ELSE IF a[mid].key < k THEN search[Window(mid + 1, w.right)]
                ELSE search[Window(w.left, mid - 1)]
    IN  search
HalvingSearch(a, k) == Searching(a, k)[Window(0, Size(a) - 1)]
Search(a, k) == IF Size(a) < SearchFrom THEN \E x \in DOMAIN a : a[x].key = k ELSE HalvingSearch(a, k)

(***************************************************************************)
(* Linked lists of entities. An entity is an index from 1, 0 is no entity  *)
(* (an entity of index 0 cannot be in a list: is_present asks for index >  *)
(* 0); next is the array of their references to the next entity.           *)
(***************************************************************************)
Entities == 1 .. MaxLength
References == 0 .. MaxLength
Links == [Entities -> References]

\* The entities of a list in their order. No list has more than MaxLength: a walk that goes
\* on goes in a circle, and is cut off one entity later.
Walks == [at: References, met: Seq(Entities)]
Further(next, w) == [at |-> next[w.at], met |-> Append(w.met, w.at)]
Walking(next) ==
    LET walk[w \in Walks] ==
            IF w.at = 0 \/ Len(w.met) > MaxLength THEN w.met ELSE walk[Further(next, w)]
    IN  walk
Walk(next, node) == Walking(next)[[at |-> node, met |-> <<>>]]

\* The last entity of the first n of a list, and the last of all.
Leads == [at: References, n: 0 .. MaxLength]
Lead(node, n) == [at |-> node, n |-> n]
Going(next) ==
    LET go[l \in Leads] ==
            IF l.n <= 1 \/ l.at = 0 \/ next[l.at] = 0 THEN l.at ELSE go[Lead(next[l.at], l.n - 1)]
    IN  go
NthOf(next, node, n) == Going(next)[Lead(node, n)]
LastOf(next, node) == NthOf(next, node, MaxLength)

\* A merge: the links, the list built so far, what is left of both lists, and how many
\* entities may still be taken from them, which bounds the loop.
Merges == [next: Links, head: References, tail: References, left: References, right: References, most: 0 .. MaxLength]

Attach(m, node) ==
    [m EXCEPT !.next = IF m.head = 0 THEN @ ELSE [@ EXCEPT ![m.tail] = node],
              !.head = IF m.head = 0 THEN node ELSE @,
              !.tail = node,
              !.most = @ - 1]

\* The left list goes first when the keys are equal, and what remains of a list is appended.
TakesLeft(key, m) == m.right = 0 \/ (m.left # 0 /\ key[m.left] <= key[m.right])
LeftTaken(a) == [a EXCEPT !.left = a.next[@]]
RightTaken(a) == [a EXCEPT !.right = a.next[@]]
Taken(key, m) == IF TakesLeft(key, m) THEN LeftTaken(Attach(m, m.left)) ELSE RightTaken(Attach(m, m.right))
Ended(m) == [m EXCEPT !.next = IF m.tail = 0 THEN @ ELSE [@ EXCEPT ![m.tail] = 0]]
Merging(key) ==
    LET merge[m \in Merges] ==
            IF m.left = 0 /\ m.right = 0 THEN Ended(m)
            ELSE IF m.most = 0 THEN m
            ELSE merge[Taken(key, m)]
    IN  merge
Merged(key, next, left, right) ==
    Merging(key)[[next |-> next, head |-> 0, tail |-> 0, left |-> left, right |-> right, most |-> MaxLength]]

\* One pass over a list: pairs of sublists of a size are cut out, merged and appended to the
\* new list; the last sublist may have no second.
Passes == [next: Links, current: References, head: References, tail: References, most: 0 .. MaxLength]
Cut(next, node, size) == [next EXCEPT ![NthOf(next, node, size)] = 0]
Behind(next, node, size) == next[NthOf(next, node, size)]

Unpaired(size, p) == Behind(p.next, p.current, size) = 0
Attached(p) == [p EXCEPT !.next = [@ EXCEPT ![p.tail] = p.current], !.current = 0]
Appended(p, head, next, current) ==
    [next |-> next, current |-> current, head |-> IF p.head = 0 THEN head ELSE p.head,
     tail |-> LastOf(next, head), most |-> p.most - 1]
Joined(p, m, current) ==
    Appended(p, m.head, IF p.head = 0 THEN m.next ELSE [m.next EXCEPT ![p.tail] = m.head], current)
PairedWith(key, size, p, cut, right) ==
    Joined(p, Merged(key, Cut(cut, right, size), p.current, right), Behind(cut, right, size))
Paired(key, size, p) ==
    PairedWith(key, size, p, Cut(p.next, p.current, size), Behind(p.next, p.current, size))
Passing(key, size) ==
    LET pass[p \in Passes] ==
            IF p.current = 0 \/ p.most = 0 THEN p
            ELSE IF Unpaired(size, p) THEN Attached(p)
            ELSE pass[Paired(key, size, p)]
    IN  pass

\* The size of the sublists doubles from pass to pass.
Sorts == [next: Links, head: References, size: 1 .. 2 * MaxLength + 1]
Resorted(p, size) == [next |-> p.next, head |-> p.head, size |-> 2 * size]
PassStart(s) == [next |-> s.next, current |-> s.head, head |-> 0, tail |-> 0, most |-> MaxLength]
Doubled(key, s) == Resorted(Passing(key, s.size)[PassStart(s)], s.size)
Doubling(key, length) ==
    LET sort[s \in Sorts] == IF s.size >= length THEN s ELSE sort[Doubled(key, s)]
    IN  sort
SortLinked(key, next, head) ==
    Doubling(key, Len(Walk(next, head)))[[next |-> next, head |-> head, size |-> 1]]

\* Mutant: the backward reference of the new head is not reset.
MutantBackward(order, prev) ==
    LET place(e) == CHOOSE i \in DOMAIN order : order[i] = e
    IN  [e \in Entities |-> IF \E i \in DOMAIN order : i > 1 /\ order[i] = e THEN order[place(e) - 1] ELSE prev[e]]

\* The backward references along an order; those of other entities stay.
Backward(order, prev) ==
    LET place(e) == CHOOSE i \in DOMAIN order : order[i] = e
    IN  [e \in Entities |-> IF \E i \in DOMAIN order : order[i] = e
                            THEN IF place(e) = 1 THEN 0 ELSE order[place(e) - 1]
                            ELSE prev[e]]

\* The sort sets the backward references along the new order.
Mirrored(sorted, prev) ==
    [head |-> sorted.head, next |-> sorted.next, prev |-> Backward(Walk(sorted.next, sorted.head), prev)]
SortLinkedEntities(key, next, prev, head) == Mirrored(SortLinked(key, next, head), prev)
=============================================================================
