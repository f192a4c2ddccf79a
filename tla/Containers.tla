----------------------------- MODULE Containers -----------------------------
(***************************************************************************)
(* VarArray, ArraySet, ArrayMap and lists of linked entities               *)
(* (script/containers.py, script/array_like.py): containers of fixed       *)
(* capacity over an array whose cells are handed out by reference. An      *)
(* operation given an element of the container itself is given the cell,   *)
(* not the value, and reads it when the code does.                         *)
(*                                                                         *)
(* The cells past the size keep what they held. A failed assertion (a full *)
(* array, an index out of range, a missing key) ends the callback, so the  *)
(* operation has no step then.                                             *)
(***************************************************************************)
EXTENDS Sorting

CONSTANTS EntryKeys,        \* the keys of the entries
          NoEntry,          \* no entry: what cells hold before their first use
          AliasedInserts    \* whether insert may be given an element of its own array

ASSUME EntriesAssumption == Entries = [key : EntryKeys, val : {e.val : e \in Entries}]

\* Model bounds, both MaxLength: the capacity of the containers and the entities of a list.
Cells == 0 .. MaxLength - 1

VARIABLES
    kind,     \* which container the behaviour is about
    cells,    \* _array: the entries; for a linked list the values of the entities
    size,     \* _size; for a linked list its length
    iter,     \* an iterator: [at, seen, removed], at = -1 when there is none
    link,     \* the references between entities: [head, next, prev]
    result    \* the last operation, what it was given when it was called and what it returned

vars == <<kind, cells, size, iter, link, result>>

Used == 0 .. size - 1
Returns(op, at, given, entry, n) ==
    result' = [op |-> op, at |-> at, given |-> given, entry |-> entry, n |-> n]
NoIterator == [at |-> -1, seen |-> {}, removed |-> FALSE]

\* An argument is a value or an element of the container; Read is its value in an array.
Arguments == [cell: {-1}, entry: Entries] \union [cell: Used, entry: {NoEntry}]
Read(array, arg) == IF arg.cell >= 0 THEN array[arg.cell] ELSE arg.entry

\* ArrayLike.index: the first position of a value, -1 if there is none.
Index(e) ==
    IF \E i \in Used : cells[i] = e
    THEN CHOOSE i \in Used : cells[i] = e /\ \A j \in 0 .. i - 1 : cells[j] # e
    ELSE -1
KeyIndex(k) == IF \E i \in Used : cells[i].key = k THEN CHOOSE i \in Used : cells[i].key = k ELSE -1
GetPositiveIndex(i) == IF i < 0 THEN i + size ELSE i
Content == [i \in Used |-> cells[i]]
WithContent(array) == [i \in Cells |-> IF i \in DOMAIN array THEN array[i] ELSE cells[i]]

Init ==
    /\ kind \in {"list", "set", "map", "linked"}
    /\ iter = NoIterator
    /\ result = [op |-> "new", at |-> <<>>, given |-> NoEntry, entry |-> NoEntry, n |-> 0]
    /\ IF kind = "linked"
       THEN /\ size \in 0 .. MaxLength
            /\ cells \in [Cells -> Entries]
            /\ link = [head |-> IF size = 0 THEN 0 ELSE 1,
                       next |-> [e \in Entities |-> IF e < size THEN e + 1 ELSE 0],
                       prev |-> [e \in Entities |-> 0]]
       ELSE /\ size = 0
            /\ cells = [i \in Cells |-> NoEntry]
            /\ link = [head |-> 0, next |-> [e \in Entities |-> 0], prev |-> [e \in Entities |-> 0]]

(***************************************************************************)
(* VarArray.                                                               *)
(***************************************************************************)
AppendItem(arg) ==
    /\ size < MaxLength
    /\ cells' = [cells EXCEPT ![size] = Read(cells, arg)]
    /\ size' = size + 1
    /\ Returns("append", <<>>, Read(cells, arg), NoEntry, 0)

\* Mutant: the loop that makes room runs upwards and smears one element over the rest.
MutantInsert(i, arg) ==
    LET at == GetPositiveIndex(i)
        shifted == [c \in Cells |-> IF at < c /\ c <= size THEN cells[at] ELSE cells[c]]
    IN  /\ size < MaxLength
        /\ size' = size + 1
        /\ cells' = [shifted EXCEPT ![at] = Read(shifted, arg)]
        /\ Returns("insert", <<i>>, Read(cells, arg), NoEntry, 0)

\* Elements move up one by one from the end; only then is the value copied.
Insert(i, arg) ==
    LET at == GetPositiveIndex(i)
        shifted == [c \in Cells |-> IF at < c /\ c <= size THEN cells[c - 1] ELSE cells[c]]
    IN  /\ size < MaxLength
        /\ size' = size + 1
        /\ cells' = [shifted EXCEPT ![at] = Read(shifted, arg)]
        /\ Returns("insert", <<i>>, Read(cells, arg), NoEntry, 0)

Without(at) == [c \in Cells |-> IF at <= c /\ c < size - 1 THEN cells[c + 1] ELSE cells[c]]
\* Mutant: what is returned is the cell, not a copy of the element that was in it.
MutantPop(i) ==
    LET at == GetPositiveIndex(i)
    IN  /\ Returns("pop", <<i>>, NoEntry, Without(at)[at], 0)
        /\ size' = size - 1
        /\ cells' = Without(at)

Pop(i) ==
    LET at == GetPositiveIndex(i)
    IN  /\ Returns("pop", <<i>>, NoEntry, cells[at], 0)
        /\ size' = size - 1
        /\ cells' = Without(at)

Remove(arg) ==
    LET at == Index(Read(cells, arg))
    IN  IF at < 0 THEN Returns("remove", <<>>, Read(cells, arg), NoEntry, 0) /\ UNCHANGED <<cells, size>>
        ELSE Returns("remove", <<>>, Read(cells, arg), NoEntry, 1) /\ size' = size - 1 /\ cells' = Without(at)

SetItem(i, arg) ==
    /\ cells' = [cells EXCEPT ![GetPositiveIndex(i)] = Read(cells, arg)]
    /\ Returns("set", <<i>>, Read(cells, arg), NoEntry, 0)
    /\ UNCHANGED size

\* An array extended by itself, or by its reversed view.
Extend(reversed) ==
    /\ size + size <= MaxLength
    /\ cells' = [c \in Cells |-> IF c \in size .. size + size - 1
                                 THEN cells[IF reversed THEN size - 1 - (c - size) ELSE c - size]
                                 ELSE cells[c]]
    /\ size' = size + size
    /\ Returns(IF reversed THEN "extend reversed" ELSE "extend", <<>>, NoEntry, NoEntry, 0)

Clear ==
    /\ size' = 0
    /\ Returns("clear", <<>>, NoEntry, NoEntry, 0)
    /\ UNCHANGED cells

Swap(i, j) ==
    /\ cells' = SwapUnchecked(cells, i, j)
    /\ Returns("swap", <<i, j>>, NoEntry, NoEntry, 0)
    /\ UNCHANGED size

\* reverse swaps from both ends towards the middle.
ReverseAll ==
    /\ cells' = [c \in Cells |-> IF c \in Used THEN cells[size - 1 - c] ELSE cells[c]]
    /\ Returns("reverse", <<>>, NoEntry, NoEntry, 0)
    /\ UNCHANGED size

SortName(how) ==
    IF how.keyed THEN IF how.reverse THEN "sort by key reverse" ELSE "sort by key"
    ELSE IF how.reverse THEN "sort reverse" ELSE "sort"
SortItems(how) ==
    /\ cells' = WithContent(Sort(how, Content))
    /\ Returns(SortName(how), <<>>, NoEntry, NoEntry, 0)
    /\ UNCHANGED size

IndexOf(arg) ==
    /\ Returns("index", <<>>, Read(cells, arg), NoEntry, Index(Read(cells, arg)))
    /\ UNCHANGED <<cells, size>>

\* A FrozenNumSet holds what sort left.
FrozenContains(k) ==
    /\ \A i \in Used : i > 0 => cells[i - 1].key <= cells[i].key
    /\ Returns("search", <<k>>, NoEntry, NoEntry, IF Search(Content, k) THEN 1 ELSE 0)
    /\ UNCHANGED <<cells, size>>

VarArray ==
    /\ kind = "list"
    /\ \/ \E arg \in Arguments : AppendItem(arg) \/ Remove(arg) \/ IndexOf(arg)
       \/ \E i \in -size .. size, arg \in Arguments : (AliasedInserts \/ arg.cell < 0) /\ Insert(i, arg)
       \/ \E i \in -size .. size - 1 : Pop(i)
       \/ \E i \in -size .. size - 1, arg \in Arguments : SetItem(i, arg)
       \/ \E reversed \in BOOLEAN : Extend(reversed)
       \/ \E i, j \in Used : Swap(i, j)
       \/ Clear \/ ReverseAll
       \/ \E how \in Orders : SortItems(how)
       \/ \E k \in EntryKeys : FrozenContains(k)
    /\ UNCHANGED <<iter, link>>

(***************************************************************************)
(* ArraySet, ArrayMap and their iterators. A removal moves the last entry  *)
(* into the hole; iterators only keep a position.                          *)
(***************************************************************************)
\* What an iterator has delivered is known by its element, or by its key in a map.
Identity(e) == IF kind = "map" THEN [e EXCEPT !.val = 0] ELSE e

RemoveSwapping(at) ==
    /\ size' = size - 1
    /\ cells' = IF at < size - 1 THEN [cells EXCEPT ![at] = cells[size - 1]] ELSE cells
    /\ iter' = [iter EXCEPT !.seen = @ \ {Identity(cells[at])}, !.removed = TRUE]

SetAdd(arg) ==
    IF size >= MaxLength \/ Index(Read(cells, arg)) >= 0
    THEN Returns("add", <<>>, Read(cells, arg), NoEntry, 0) /\ UNCHANGED <<cells, size, iter>>
    ELSE /\ cells' = [cells EXCEPT ![size] = Read(cells, arg)]
         /\ size' = size + 1
         /\ Returns("add", <<>>, Read(cells, arg), NoEntry, 1)
         /\ UNCHANGED iter

SetRemove(arg) ==
    LET at == Index(Read(cells, arg))
    IN  IF at < 0 THEN Returns("discard", <<>>, Read(cells, arg), NoEntry, 0) /\ UNCHANGED <<cells, size, iter>>
        ELSE Returns("discard", <<>>, Read(cells, arg), NoEntry, 1) /\ RemoveSwapping(at)

\* An entry that is there is written in place, another is appended.
PutItem(k, arg) ==
    LET at == KeyIndex(k)
        entry == [key |-> k, val |-> Read(cells, arg).val]
    IN  /\ IF at >= 0 THEN cells' = [cells EXCEPT ![at].val = entry.val] /\ size' = size
           ELSE /\ size < MaxLength
                /\ cells' = [cells EXCEPT ![size] = entry]
                /\ size' = size + 1
        /\ Returns("put", <<k>>, Read(cells, arg), NoEntry, 0)
        /\ UNCHANGED iter

GetItem(k) ==
    /\ KeyIndex(k) >= 0
    /\ Returns("get", <<k>>, NoEntry, cells[KeyIndex(k)], 0)
    /\ UNCHANGED <<cells, size, iter>>
MapPop(k) == KeyIndex(k) >= 0 /\ Returns("take", <<k>>, NoEntry, cells[KeyIndex(k)], 0) /\ RemoveSwapping(KeyIndex(k))
DelItem(k) == KeyIndex(k) >= 0 /\ Returns("delete", <<k>>, NoEntry, NoEntry, 0) /\ RemoveSwapping(KeyIndex(k))

ClearIterated == Clear /\ iter' = [iter EXCEPT !.seen = {}, !.removed = TRUE]

\* A for loop over the container makes an iterator; next delivers the entry at its position.
StartIteration ==
    /\ iter' = [at |-> 0, seen |-> {}, removed |-> FALSE]
    /\ UNCHANGED <<cells, size, result>>

\* Mutant: the bound is off by one and a cell past the end is delivered.
MutantNextEntry ==
    /\ iter.at >= 0 /\ iter.at <= size /\ iter.at < MaxLength
    /\ iter' = [iter EXCEPT !.at = @ + 1, !.seen = @ \union {Identity(cells[iter.at])}]
    /\ UNCHANGED <<cells, size, result>>

NextEntry ==
    /\ iter.at >= 0 /\ iter.at < size
    /\ iter' = [iter EXCEPT !.at = @ + 1, !.seen = @ \union {Identity(cells[iter.at])}]
    /\ UNCHANGED <<cells, size, result>>

ArraySet ==
    /\ kind = "set"
    /\ \/ \E arg \in Arguments : SetAdd(arg) \/ SetRemove(arg)
       \/ ClearIterated \/ StartIteration \/ NextEntry
    /\ UNCHANGED link

ArrayMap ==
    /\ kind = "map"
    /\ \/ \E k \in EntryKeys, arg \in Arguments : PutItem(k, arg)
       \/ \E k \in EntryKeys : GetItem(k) \/ MapPop(k) \/ DelItem(k)
       \/ ClearIterated \/ StartIteration \/ NextEntry
    /\ UNCHANGED link

(***************************************************************************)
(* Linked entities.                                                        *)
(***************************************************************************)
EntityKeys == [e \in Entities |-> cells[e - 1].key]

WriteEntity(e, entry) ==
    /\ cells' = [cells EXCEPT ![e - 1] = entry]
    /\ Returns("set", <<>>, entry, NoEntry, 0)
    /\ UNCHANGED link

SortList ==
    /\ link' = SortLinkedEntities(EntityKeys, link.next, link.prev, link.head)
    /\ Returns("sort", <<>>, NoEntry, NoEntry, 0)
    /\ UNCHANGED cells

LinkedList ==
    /\ kind = "linked"
    /\ SortList \/ \E e \in 1 .. size, entry \in Entries : WriteEntity(e, entry)
    /\ UNCHANGED <<size, iter>>

Next == kind' = kind /\ (VarArray \/ ArraySet \/ ArrayMap \/ LinkedList)
Spec == Init /\ [][Next]_vars

(***************************************************************************)
(* Properties.                                                             *)
(***************************************************************************)
\* The state is well typed and never larger than its capacity.
TypeOK ==
    /\ kind \in {"list", "set", "map", "linked"}
    /\ cells \in [Cells -> Entries \union {NoEntry}]
    /\ size \in 0 .. MaxLength
    /\ iter.at \in -1 .. MaxLength /\ iter.removed \in BOOLEAN
    /\ link.head \in References /\ link.next \in Links /\ link.prev \in Links

\* The containers over their cells behave as the collections of values they stand for: what is
\* stored or removed is what the argument was when the operation was called, also when it is an
\* element of the container that the operation moves, when removals swap entries, and whichever
\* algorithm sorts. Except if insert is given an element of its own array (InsertsGivenValue).
Order == IF kind = "linked" THEN Walk(link.next, link.head) ELSE <<>>
Values ==
    CASE kind = "list" -> [i \in 1 .. size |-> cells[i - 1]]
      [] kind = "linked" -> [i \in 1 .. Len(Order) |-> cells[Order[i] - 1]]
      [] OTHER -> {cells[i] : i \in Used}
Abstract == INSTANCE Collection WITH content <- Values
ImplementsCollection == [][Abstract!Next]_(Abstract!vars)

\* An iterator never delivers an element twice, whatever is added and removed meanwhile, and
\* as long as nothing was removed it has delivered exactly the elements it has passed.
IteratorsDeliver ==
    iter.at >= 0 =>
        LET passed == {i \in Used : i < iter.at}
        IN  /\ \A i \in Used \ passed : Identity(cells[i]) \notin iter.seen
            /\ ~iter.removed => iter.seen = {Identity(cells[i]) : i \in passed}

\* The list keeps all of its entities whatever it is sorted from, and after a sort the
\* backward references mirror the forward ones.
LinksAgree ==
    kind = "linked" =>
        /\ Len(Order) = size
        /\ \A e \in 1 .. size : \E i \in 1 .. size : Order[i] = e
        /\ result.op = "sort" =>
              \A i \in 1 .. size : link.prev[Order[i]] = IF i = 1 THEN 0 ELSE Order[i - 1]

\* The docstring of insert: "Insert a copy of the given value at the given index." What the
\* index holds afterwards is what the argument was when insert was called.
InsertsGivenValue ==
    [][kind = "list" /\ result'.op = "insert" =>
          cells'[GetPositiveIndex(result'.at[1])] = result'.given]_vars
=============================================================================
