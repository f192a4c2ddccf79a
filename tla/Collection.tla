----------------------------- MODULE Collection -----------------------------
(***************************************************************************)
(* What the containers promise: a list, a set, a map and a sorted list of  *)
(* entities as values, without storage. Every operation is a relation      *)
(* between the content before and after it, what it was given when it was  *)
(* called, and what it returns.                                            *)
(***************************************************************************)
EXTENDS Integers, Sequences, FiniteSets, SequencesExt

CONSTANTS Entries, EntryKeys, MaxLength, NoEntry

VARIABLES kind,        \* "list", "set", "map" or "linked"
          content,     \* a sequence of entries (list, linked) or a set of entries (set, map)
          result       \* the last operation, the positions or the key and the entry it was
                       \* given, and the entry and the number it returned: [op, at, given, entry, n]
vars == <<kind, content, result>>

Returns(op, at, given, entry, n) ==
    result' = [op |-> op, at |-> at, given |-> given, entry |-> entry, n |-> n]
Truth(b) == IF b THEN 1 ELSE 0
Positions == 1 .. Len(content)
\* Indices count from the start or, negative, from the end.
Indices == -Len(content) .. Len(content) - 1
Position(i) == IF i < 0 THEN i + Len(content) + 1 ELSE i + 1
First(e) == CHOOSE i \in Positions : content[i] = e /\ \A j \in 1 .. i - 1 : content[j] # e
\* In order by key, or of the elements themselves; ascending or descending.
Before(keyed, x, y) == x.key < y.key \/ (~keyed /\ x.key = y.key /\ x.val < y.val)
InOrder(s, keyed, reverse) ==
    \A i, j \in DOMAIN s : i < j => IF reverse THEN ~Before(keyed, s[i], s[j]) ELSE ~Before(keyed, s[j], s[i])
\* The elements of s in another order; if stably, those of one key keep theirs.
Rearranged(s, t, stably) ==
    \E p \in Bijection(DOMAIN s, DOMAIN s) :
       /\ t = [i \in DOMAIN s |-> s[p[i]]]
       /\ stably => \A i, j \in DOMAIN s : i < j /\ t[i].key = t[j].key => p[i] < p[j]

List ==
    /\ kind = "list"
    /\ \/ \E i \in Indices, e \in Entries :
             Returns("set", <<i>>, e, NoEntry, 0) /\ content' = [content EXCEPT ![Position(i)] = e]
       \/ \E e \in Entries :
             Returns("append", <<>>, e, NoEntry, 0) /\ Len(content) < MaxLength /\ content' = Append(content, e)
       \/ \E i \in Indices :
             Returns("pop", <<i>>, NoEntry, content[Position(i)], 0) /\ content' = RemoveAt(content, Position(i))
       \/ \E i \in Indices \union {Len(content)}, e \in Entries :
             /\ Returns("insert", <<i>>, e, NoEntry, 0)
             /\ Len(content) < MaxLength
             /\ content' = InsertAt(content, Position(i), e)
       \/ \E e \in Entries :
             IF e \in ToSet(content)
             THEN Returns("remove", <<>>, e, NoEntry, 1) /\ content' = RemoveAt(content, First(e))
             ELSE Returns("remove", <<>>, e, NoEntry, 0) /\ content' = content
       \/ Returns("clear", <<>>, NoEntry, NoEntry, 0) /\ content' = <<>>
       \/ /\ \/ Returns("extend", <<>>, NoEntry, NoEntry, 0) /\ content' = content \o content
             \/ Returns("extend reversed", <<>>, NoEntry, NoEntry, 0) /\ content' = content \o Reverse(content)
          /\ Len(content') <= MaxLength
       \/ \E i, j \in Positions :
             /\ Returns("swap", <<i - 1, j - 1>>, NoEntry, NoEntry, 0)
             /\ content' = [content EXCEPT ![i] = content[j], ![j] = content[i]]
       \/ Returns("reverse", <<>>, NoEntry, NoEntry, 0) /\ content' = Reverse(content)
       \/ \E e \in Entries :
             /\ Returns("index", <<>>, e, NoEntry, IF e \in ToSet(content) THEN First(e) - 1 ELSE -1)
             /\ content' = content
       \/ \E k \in EntryKeys :
             /\ InOrder(content, TRUE, FALSE)
             /\ Returns("search", <<k>>, NoEntry, NoEntry, Truth(\E i \in Positions : content[i].key = k))
             /\ content' = content

Sort ==
    /\ kind = "list"
    /\ \/ Returns("sort", <<>>, NoEntry, NoEntry, 0) /\ InOrder(content', FALSE, FALSE) /\ Rearranged(content, content', FALSE)
       \/ Returns("sort reverse", <<>>, NoEntry, NoEntry, 0) /\ InOrder(content', FALSE, TRUE) /\ Rearranged(content, content', FALSE)
       \/ Returns("sort by key", <<>>, NoEntry, NoEntry, 0) /\ InOrder(content', TRUE, FALSE) /\ Rearranged(content, content', TRUE)
       \/ Returns("sort by key reverse", <<>>, NoEntry, NoEntry, 0) /\ InOrder(content', TRUE, TRUE) /\ Rearranged(content, content', TRUE)

Set ==
    /\ kind = "set"
    /\ \/ \E e \in Entries :
             IF e \in content \/ Cardinality(content) = MaxLength
             THEN Returns("add", <<>>, e, NoEntry, 0) /\ content' = content
             ELSE Returns("add", <<>>, e, NoEntry, 1) /\ content' = content \union {e}
       \/ \E e \in Entries :
             Returns("discard", <<>>, e, NoEntry, Truth(e \in content)) /\ content' = content \ {e}
       \/ Returns("clear", <<>>, NoEntry, NoEntry, 0) /\ content' = {}

\* A key and an entry that has the value: the entry put is of that key.
Map ==
    /\ kind = "map"
    /\ \/ \E k \in EntryKeys, e \in Entries :
             /\ Returns("put", <<k>>, e, NoEntry, 0)
             /\ content' = {x \in content : x.key # k} \union {[key |-> k, val |-> e.val]}
             /\ Cardinality(content') <= MaxLength
       \/ \E x \in content : Returns("take", <<x.key>>, NoEntry, x, 0) /\ content' = content \ {x}
       \/ \E x \in content : Returns("delete", <<x.key>>, NoEntry, NoEntry, 0) /\ content' = content \ {x}
       \/ \E x \in content : Returns("get", <<x.key>>, NoEntry, x, 0) /\ content' = content
       \/ Returns("clear", <<>>, NoEntry, NoEntry, 0) /\ content' = {}

\* An entity of the list is written, or the list sorted by key, stably.
Linked ==
    /\ kind = "linked"
    /\ \/ \E i \in Positions, e \in Entries :
             Returns("set", <<>>, e, NoEntry, 0) /\ content' = [content EXCEPT ![i] = e]
       \/ Returns("sort", <<>>, NoEntry, NoEntry, 0) /\ InOrder(content', TRUE, FALSE) /\ Rearranged(content, content', TRUE)

Next == kind' = kind /\ (List \/ Sort \/ Set \/ Map \/ Linked)
Spec == content \in {<<>>, {}} /\ [][Next]_vars
=============================================================================
