------------------------------- MODULE Streams -------------------------------
(***************************************************************************)
(* Streams (script/stream.py): what a callback writes into streams while   *)
(* the level is played and reads back, frame by frame, while its replay is *)
(* watched.  A declared stream is spread over numbered streams of the      *)
(* engine, one for each number of an element.                              *)
(*                                                                         *)
(* Keys are counted in halves, since data fields also write between whole  *)
(* keys.  The engine's streams are modelled from their use: the next and   *)
(* the previous key, and values interpolated between keys.                 *)
(***************************************************************************)
EXTENDS Integers, Sequences, FiniteSetsExt

CONSTANTS Declarations,   \* [fields, writes]: what may be declared, and how many writes a replay holds
          Times,          \* the times at which frames are drawn and values are written, in halves
          MaxStream       \* bound: the streams of the engine

VARIABLES
    fields,     \* the class attributes: [kind, size, count], a size in numbers
    offsets,    \* _StreamField.offset of each
    mode,       \* "play" or "watch"
    streams,    \* the engine's: id -> (key -> value)
    left,       \* writes still to be made
    items,      \* an iterator: [step, at, start, current_key, end_key, got, over], step = "none" before the first
    said        \* the values written, by field, stream of a group, number of the element and key

streamVars == <<fields, offsets, mode, streams, left, items, said>>

Infinity == 1000
Update(f, key, value) == [k \in DOMAIN f \cup {key} |-> IF k = key THEN value ELSE f[k]]
Larger(a, b) == IF a > b THEN a ELSE b

(* Declaration.                                                             *)

Fields == [kind : {"stream", "group", "data"}, size : Nat, count : Nat]
BackingSize(field) == IF field.kind = "data" THEN 1 ELSE Larger(1, field.size) * field.count

\* Offset 0 is never given.
OffsetsOf(fs) ==
    LET offset[i \in 1 .. Len(fs)] == IF i = 1 THEN 1 ELSE offset[i - 1] + BackingSize(fs[i - 1])
    IN  offset
Backing == 1 .. MaxStream

\* Declarations fit into the engine's streams, and Infinity is beyond all times.
ASSUME DeclarationsAssumption ==
    /\ MaxStream \in Nat
    /\ \A d \in Declarations :
         /\ d.fields \in Seq(Fields) /\ d.writes \in Nat
         /\ \A i \in DOMAIN d.fields : OffsetsOf(d.fields)[i] + BackingSize(d.fields[i]) - 1 <= MaxStream
ASSUME TimesAssumption == Times \subseteq 1 - Infinity .. Infinity - 1

(* The engine.                                                              *)

Keys(id) == DOMAIN streams[id]
Has(id, key) == key \in Keys(id)
NextKey(id, key) == IF \E k \in Keys(id) : k > key THEN Min({k \in Keys(id) : k > key}) ELSE key
PreviousKey(id, key) == IF \E k \in Keys(id) : k < key THEN Max({k \in Keys(id) : k < key}) ELSE key

\* A value as a fraction <<n, d>>; outside of the keys, that of the nearest.
GetValue(id, key) ==
    IF Keys(id) = {} THEN <<0, 1>>
    ELSE LET l == IF Has(id, key) THEN key ELSE PreviousKey(id, key)
             r == IF Has(id, key) THEN key ELSE NextKey(id, key)
         IN  IF ~Has(id, l) THEN <<streams[id][r], 1>>
             ELSE IF ~Has(id, r) \/ l = r THEN <<streams[id][l], 1>>
             ELSE <<streams[id][l] * (r - key) + streams[id][r] * (key - l), r - l>>
StreamSet(s, id, key, value) == [s EXCEPT ![id] = Update(s[id], key, value)]

(* Play: everything is written, nothing read.                               *)

\* Mutant: the streams of a group follow one another without regard to their size.
MutantStreamOf(i, j) == offsets[i] + j
StreamOf(i, j) == Larger(1, fields[i].size) * j + offsets[i]   \* Stream[T](offset)

\* Every write of a run writes other numbers.
Number(c) == 10 * left + c
Slots == UNION {{i} \X (0 .. fields[i].count - 1) : i \in {n \in DOMAIN fields : fields[n].kind # "data"}}

\* The element as a whole; one of no numbers still leaves its key.
SetElement(i, j, key) ==
    LET id == StreamOf(i, j)
        size == fields[i].size
    IN  /\ streams' = IF size = 0 THEN StreamSet(streams, id, key, 0)
                      ELSE [n \in Backing |-> IF n \in id .. id + size - 1 THEN Update(streams[n], key, Number(n - id + 1)) ELSE streams[n]]
        /\ said' = [w \in DOMAIN said \cup {<<i, j, c, key>> : c \in 1 .. Larger(1, size)} |->
                      IF w[1] = i /\ w[2] = j /\ w[4] = key THEN IF size = 0 THEN 0 ELSE Number(w[3]) ELSE said[w]]

\* One number of the element at a key, by an assignment to its attribute.
SetComponent(i, j, c, key) ==
    /\ streams' = StreamSet(streams, StreamOf(i, j) + c - 1, key, Number(c))
    /\ said' = Update(said, <<i, j, c, key>>, Number(c))

\* Mutant: the zeros around a number are written where its neighbours are.
MutantSparse(f, index, value) == Update(Update(Update(f, index, value), index - 2, 0), index + 2, 0)
Sparse(f, index, value) == Update(Update(Update(f, index, value), index - 1, 0), index + 1, 0)
DataStream(i) ==
    LET upTo[c \in 0 .. fields[i].size] ==
          IF c = 0 THEN streams[offsets[i]] ELSE Sparse(upTo[c - 1], 2 * (c - 1), Number(c))
    IN  upTo[fields[i].size]
SetData(i) ==
    /\ streams' = [streams EXCEPT ![offsets[i]] = DataStream(i)]
    /\ said' = [w \in DOMAIN said \cup {<<i, 0, c, 2 * (c - 1)>> : c \in 1 .. fields[i].size} |->
                  IF w[1] = i THEN Number(w[3]) ELSE said[w]]

NoItems == [step |-> "none", at |-> <<1, 0>>, start |-> 0, current_key |-> 0, end_key |-> 0, got |-> <<>>, over |-> TRUE]
Declare(fs, n) ==
    /\ fields = fs /\ left = n
    /\ offsets = OffsetsOf(fs)

StreamsInit ==
    /\ \E d \in Declarations : Declare(d.fields, d.writes)
    /\ mode = "play"
    /\ streams = [id \in Backing |-> <<>>]
    /\ items = NoItems
    /\ said = <<>>

Play ==
    /\ mode = "play" /\ left > 0
    /\ left' = left - 1
    /\ \/ \E s \in Slots, key \in Times :
            \/ SetElement(s[1], s[2], key)
            \/ \E c \in 1 .. fields[s[1]].size : fields[s[1]].size > 1 /\ SetComponent(s[1], s[2], c, key)
       \/ \E i \in DOMAIN fields : fields[i].kind = "data" /\ SetData(i)
    /\ UNCHANGED <<fields, offsets, mode, items>>

Replay ==
    /\ mode = "play"
    /\ mode' = "watch"
    /\ UNCHANGED <<fields, offsets, streams, left, items, said>>

(* Watch: iterators over one stream.                                        *)

NextKeyOrDefault(id, key) == IF NextKey(id, key) > key THEN NextKey(id, key) ELSE Infinity
PreviousKeyOrDefault(id, key) == IF PreviousKey(id, key) < key THEN PreviousKey(id, key) ELSE -Infinity
NextKeyInclusive(id, key) == IF Has(id, key) THEN key ELSE NextKey(id, key)
PreviousKeyInclusive(id, key) == IF Has(id, key) THEN key ELSE PreviousKey(id, key)

Started(step, i, j, start, first, end) ==
    items' = [step |-> step, at |-> <<i, j>>, start |-> start, current_key |-> first, end_key |-> end, got |-> <<>>, over |-> FALSE]
IterFrom(i, j, start) == Started("asc", i, j, start, NextKeyInclusive(StreamOf(i, j), start), Infinity)
IterFromDesc(i, j, start) == Started("desc", i, j, start, PreviousKeyInclusive(StreamOf(i, j), start), -Infinity)
IterSincePreviousFrame(i, j, prev_time, time) ==
    Started("bounded", i, j, prev_time, NextKey(StreamOf(i, j), prev_time), time)

\* Frames may be drawn in any order: the player seeks.
Iterate ==
    /\ mode = "watch" /\ items.step = "none"
    /\ \E s \in Slots :
         \/ \E start \in Times \cup {t + 1 : t \in Times} : IterFrom(s[1], s[2], start) \/ IterFromDesc(s[1], s[2], start)
         \/ \E prev_time, time \in Times \cup {t + 1 : t \in Times} : IterSincePreviousFrame(s[1], s[2], prev_time, time)
    /\ UNCHANGED <<fields, offsets, mode, streams, left, said>>

\* The element at a key, stream[key].
ItemAt(i, j, key) == [c \in 1 .. fields[i].size |-> GetValue(StreamOf(i, j) + c - 1, key)]
\* Mutant: a bounded iterator does not look at its bound.
MutantDelivers(id) == Has(id, items.current_key)
Delivers(id) == Has(id, items.current_key) /\ (items.step = "bounded" => items.current_key <= items.end_key)
IterNext ==
    /\ mode = "watch" /\ ~items.over
    /\ LET id == StreamOf(items.at[1], items.at[2])
           key == items.current_key
       IN  items' = IF Delivers(id)
                   THEN [items EXCEPT !.got = Append(@, [key |-> key, element |-> ItemAt(items.at[1], items.at[2], key)]),
                                     !.current_key = IF items.step = "desc" THEN PreviousKeyOrDefault(id, key)
                                                     ELSE NextKeyOrDefault(id, key)]
                   ELSE [items EXCEPT !.over = TRUE]
    /\ UNCHANGED <<fields, offsets, mode, streams, left, said>>

StreamsNext == Play \/ Replay \/ Iterate \/ IterNext
StreamsSpec == StreamsInit /\ [][StreamsNext]_streamVars
-----------------------------------------------------------------------------
StreamsTypeOK ==
    /\ mode \in {"play", "watch"}
    /\ left \in Nat
    /\ \A i \in DOMAIN fields : offsets[i] \in Nat \ {0} /\ offsets[i] + BackingSize(fields[i]) - 1 \in 0 .. MaxStream
    /\ DOMAIN streams = Backing
    /\ \A id \in Backing : \A k \in Keys(id) : k \in Int /\ streams[id][k] \in Nat
    /\ items.over \in BOOLEAN

(* What was written is read back: no declared stream, stream of a group or  *)
(* number of an element shares memory with another, whatever is declared    *)
(* around it, and the zeros around the numbers of a data field leave its    *)
(* other numbers alone.                                                     *)
StreamsKeepApart ==
    \A w \in DOMAIN said :
        LET field == fields[w[1]]
        IN  IF field.kind = "data" THEN GetValue(offsets[w[1]], w[4]) = <<said[w], 1>>
            ELSE GetValue(StreamOf(w[1], w[2]) + w[3] - 1, w[4]) = <<said[w], 1>>

\* The keys of a declared stream: where its first number was written.
Written(i, j) == {w[4] : w \in {v \in DOMAIN said : v[1] = i /\ v[2] = j /\ v[3] = 1}}
Due ==
    LET keys == Written(items.at[1], items.at[2])
    IN  CASE items.step = "asc"     -> {k \in keys : k >= items.start}
          [] items.step = "desc"    -> {k \in keys : k <= items.start}
          [] items.step = "bounded" -> {k \in keys : items.start < k /\ k <= items.end_key}
Got == {items.got[n].key : n \in DOMAIN items.got}
Before(k, l) == IF items.step = "desc" THEN k > l ELSE k < l
\* The elements are those of the keys.
GotElements ==
    \A n \in DOMAIN items.got, c \in 1 .. fields[items.at[1]].size :
        LET w == <<items.at[1], items.at[2], c, items.got[n].key>>
        IN  w \in DOMAIN said => items.got[n].element[c] = <<said[w], 1>>

(* Iterators from a key deliver every key on their side once, in order,     *)
(* with its element, and end; those over a frame miss no key in it.         *)
IteratorsDeliverAll ==
    items.step # "none" =>
        /\ GotElements
        /\ \A m, n \in DOMAIN items.got : m < n => Before(items.got[m].key, items.got[n].key)
        /\ IF items.step = "bounded" THEN Got \ {items.start} \subseteq Due ELSE Got \subseteq Due
        /\ \A k \in Due : items.over \/ (\E l \in Got : Before(k, l)) => k \in Got

\* What was streamed is replayed: see stream.py.
StreamsDeliver == StreamsKeepApart /\ IteratorsDeliverAll

(* "items in the stream occurring after the time of the previous frame and  *)
(* up to and including the current time" (iter_items_since_previous_frame). *)
FramesDeliverOnce == items.step = "bounded" /\ items.over => Got = Due
=============================================================================
