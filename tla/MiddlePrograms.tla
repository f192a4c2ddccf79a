---------------------------- MODULE MiddlePrograms ----------------------------
(* Programs for the middle end: of three blocks with every control flow     *)
(* graph, and of five with the graphs that make SSA construction hard; and  *)
(* small ones in SSA form.                                                  *)
EXTENDS Integers, SequencesExt, FiniteSetsExt

(* For SSA construction.                                                    *)

Def(t) == [op |-> "def", to |-> t, from |-> t]
Use(t) == [op |-> "use", to |-> t, from |-> t]
Copy(t, f) == [op |-> "copy", to |-> t, from |-> f]

ThreeTemps == {"x", "y", "z"}
Swap == <<Copy("z", "x"), Copy("x", "y"), Copy("y", "z"), Use("y")>>
Codes == {<<>>, <<Def("x")>>, <<Use("x")>>, <<Use("x"), Def("x")>>, Swap}

OneTemp == {"x"}
OneTempCodes == {<<>>, <<Def("x")>>, <<Use("x")>>, <<Use("x"), Def("x")>>}

\* Reverse postorder of a depth-first search that takes successors in order.
RECURSIVE Visit(_, _, _)
Visit(g, b, acc) ==
  IF b \in acc.open THEN acc
  ELSE LET a == FoldLeft(LAMBDA x, s : Visit(g, s, x), [acc EXCEPT !.open = @ \cup {b}], g[b])
       IN  [a EXCEPT !.closed = <<b>> \o @]
IsOrdered(g, n) == Visit(g, 1, [open |-> {}, closed |-> <<>>]).closed = [i \in 1..n |-> i]

Targets(S) == {<<>>} \cup {<<a>> : a \in S} \cup {<<a, b>> : a \in S, b \in S}

\* Every graph of three blocks whose entry has no predecessor.
ThreeBlocks == {g \in [1..3 -> Targets(2..3)] : IsOrdered(g, 3)}

\* Graphs of two blocks whose entry is the head of a loop.
EntryLoops == {g \in [1..2 -> Targets(1..2)] : IsOrdered(g, 2)}

\* A loop in a loop; a loop with two exits and a continue; a branch inside a
\* loop; a loop entered in two places, twice; loops that are never left;
\* a loop that may be skipped, with the join behind it before its last block.
HardGraphs == {g \in
  { << <<2>>, <<5, 3>>, <<4, 3>>, <<2>>, <<>> >>,
    << <<2>>, <<5, 3>>, <<5, 4>>, <<3, 2>>, <<>> >>,
    << <<2>>, <<4, 3>>, <<5>>, <<5>>, <<2>> >>,
    << <<2, 4>>, <<5, 3>>, <<4, 2>>, <<2>>, <<>> >>,
    << <<2, 3>>, <<5, 3>>, <<4, 2>>, <<3, 2>>, <<>> >>,
    << <<2>>, <<3, 2>>, <<5, 4>>, <<3>>, <<2>> >>,
    << <<2, 3>>, <<5, 3>>, <<4>>, <<>>, <<2>> >> } : IsOrdered(g, 5)}

\* The first block writes, or swaps what was not written; in the larger graphs
\* what is written is read before.
ThreeBlockPrograms == [succs : ThreeBlocks, code : {c \in [1..3 -> Codes] : c[1] \in {<<Def("x")>>, Swap}}]
HardPrograms == [succs : HardGraphs, code : {c \in [1..5 -> OneTempCodes] : /\ c[1] \in {<<>>, <<Def("x")>>}
                                                                    /\ \A b \in 2..5 : c[b] # <<Def("x")>>}]
EasyAndHardPrograms == ThreeBlockPrograms \cup HardPrograms
EntryLoopPrograms == [succs : EntryLoops, code : [1..2 -> OneTempCodes]]

(* In SSA form.                                                             *)

Always == -1   \* the condition of the unconditional edge
I(op, val, args, b) == [op |-> op, val |-> val, args |-> args, b |-> b]
K(n, b) == I("const", n, <<>>, b)
Some(ops, args, b) == {I(op, 0, args, b) : op \in ops}

\* All programs with these edges, instructions and tests: slots holds the
\* choices for each instruction.
Fill(slots) == FoldLeft(LAMBDA seqs, slot : {Append(s, i) : s \in seqs, i \in slot}, {<<>>}, slots)
Of(edges, slots, tests) ==
  {[edge |-> [e \in DOMAIN edges |-> [src |-> edges[e][1], dst |-> edges[e][2], when |-> edges[e][3]]],
    code |-> [b \in DOMAIN t |-> SelectSeq([k \in DOMAIN s |-> k], LAMBDA k : s[k].b = b)],
    ins  |-> [v \in DOMAIN s |-> [op |-> s[v].op, val |-> s[v].val, args |-> s[v].args]],
    test |-> t] : s \in Fill(slots), t \in tests}
Phi(args, b) == I("phi", 0, args, b)

\* A branch and a join.
Joined == Of(<< <<1, 2, 0>>, <<1, 3, Always>>, <<2, 3, Always>> >>,
  << {I("load", 1, <<>>, 1), K(0, 1)}, {K(1, 1)},
     Some({"equal", "or", "mul", "sub"}, <<1, 2>>, 1),
     Some({"not"}, <<3>>, 1),
     Some({"not", "neg"}, <<4>>, 1) \cup {I("draw", 1, <<>>, 1)},
     {I("call", 1, <<4>>, 2)} \cup Some({"add"}, <<2, 4>>, 2),
     {Phi(2 :> 2 @@ 3 :> x, 3) : x \in {1, 2, 6}},
     Some({"max"}, <<7, 7>>, 3) \cup Some({"add"}, <<2, 4>>, 3),
     {I("store", 1, <<x>>, 3) : x \in {5, 8}} >>,
  {<<t, 0, 0>> : t \in {3, 5}})

\* A loop that counts, with values that do not change in it.
Counting == Of(<< <<1, 2, Always>>, <<2, 3, Always>>, <<2, 5, 0>>, <<3, 4, 1>>, <<3, 2, Always>>, <<4, 2, Always>> >>,
  << {I("load", 1, <<>>, 1), K(0, 1)}, {K(1, 1)}, {I("given", 0, <<>>, 1), K(2, 1)},
     {Phi(1 :> 1 @@ 5 :> 6 @@ 6 :> 6, 2)},
     Some({"less"}, <<4, 3>>, 2), Some({"add"}, <<4, 2>>, 2),
     {I("fixed", 1, <<3>>, 2), I("fixed", 1, <<4>>, 3)} \cup Some({"mul"}, <<3, 3>>, 3),
     Some({"add"}, <<7, 3>>, 3) \cup {I("draw", 1, <<7>>, 3)},
     {I("fixed", 1, <<3>>, 4), I("load", 1, <<3>>, 4)},
     {I("store", 1, <<x>>, 4) : x \in {6, 9}}, {I("call", 1, <<9>>, 4)}, {I("call", 2, <<4>>, 5)} >>,
  {<<0, 5, t, 0, 0>> : t \in {4, 8}})

\* A loop in a loop that is entered on two edges.
Nested == Of(<< <<1, 2, 0>>, <<1, 3, Always>>, <<2, 3, Always>>, <<3, 4, Always>>, <<4, 4, 1>>, <<4, 3, Always>>, <<4, 5, 2>> >>,
  << {I("load", 1, <<>>, 1)}, {K(1, 1)}, {I("given", 0, <<>>, 2)},
     {Phi(2 :> 1 @@ 3 :> 3 @@ 6 :> x, 3) : x \in {4, 8}},
     {I("fixed", 1, <<1>>, 3), I("fixed", 1, <<4>>, 3)},
     {Phi(4 :> x @@ 5 :> 8, 4) : x \in {2, 4}},
     {I("fixed", 2, <<4>>, 4), I("fixed", 2, <<5>>, 4)},
     Some({"add"}, <<6, 2>>, 4), {I("call", 3, <<7>>, 4)}, {I("fixed", 2, <<8>>, 4), I("call", 4, <<5>>, 4)} >>,
  {<<1, 0, 0, t, 0>> : t \in {8, 10}})

\* Comparisons of one value with one number after another.
Chain(middle) == Of(<< <<1, 4, Always>>, <<1, 2, 0>>, <<2, 4, Always>>, <<2, 3, 0>>, <<3, 4, Always>> >>,
  << {I("load", 1, <<>>, 1)}, {K(1, 1)}, {K(2, 1), K(3, 1)}, Some({"equal"}, <<1, 2>>, 1) \cup Some({"equal"}, <<2, 1>>, 1),
     {K(2, 2), K(1, 2)}, Some({"equal"}, <<1, 5>>, 2), middle,
     {I("call", 4, <<1>>, 3), I("store", 4, <<1>>, 3)} \cup Some({"add"}, <<1, 6>>, 3),
     {Phi(1 :> 2 @@ 3 :> x @@ 5 :> y, 4) : x \in {2, 3, 5}, y \in {2, 7}}, {I("store", 1, <<9>>, 4)} >>,
  {<<4, 6, 0, 0>>})
\* The same with a second way to the later comparison.
Shared == Of(<< <<1, 2, 0>>, <<1, 3, Always>>, <<2, 4, 0>>, <<2, 5, Always>>, <<3, 4, Always>>, <<4, 6, 0>>, <<4, 5, Always>>, <<6, 5, Always>> >>,
  << {I("load", 1, <<>>, 1)}, {I("given", 0, <<>>, 1)}, {K(1, 1)}, {K(2, 1)}, Some({"equal"}, <<1, 3>>, 2), {I("call", 1, <<>>, 3)} \cup Some({"undef"}, <<>>, 3),
     Some({"equal"}, <<1, 4>>, 4) \cup Some({"equal"}, <<4, 1>>, 4), {I("call", 2, <<1>>, 6)},
     {Phi(4 :> 3 @@ 7 :> x @@ 8 :> 1, 5) : x \in {1, 3, 4}}, {I("store", 1, <<9>>, 5)} >>,
  {<<2, 5, 0, 7, 0, 0>>})
Silent == {K(3, 2), I("draw", 1, <<>>, 2), I("store", 2, <<1>>, 2)}

\* A value of a few numbers decides between three cases.
Cases == Of(<< <<1, 2, 0>>, <<1, 3, Always>>, <<2, 3, Always>>, <<3, 4, 1>>, <<3, 5, 2>>, <<4, 5, Always>> >>,
  << {I("load", 1, <<>>, 1)}, {K(1, 1)}, {K(2, 1)}, {K(3, 2), K(1, 2)},
     {Phi(2 :> x @@ 3 :> y, 3) : x \in {2, 3}, y \in {2, 3, 4}},
     {I("call", 1, <<5>>, 4)}, {Phi(5 :> 5 @@ 6 :> x, 5) : x \in {5, 6}}, {I("store", 1, <<7>>, 5)} >>,
  {<<1, 0, 5, 0, 0>>})

\* Nothing is computed from a statement.
Valid(p) == \A v \in DOMAIN p.ins : \A a \in Range(p.ins[v].args) : p.ins[a].op # "store"
MCPrograms == {p \in Joined \cup Counting \cup Nested \cup Chain(Silent) \cup Shared \cup Cases : Valid(p)}
EffectPrograms == Chain({I("call", 2, <<1>>, 2)})
MCInputs == {<<0, 0>>, <<1, 1>>, <<2, 0>>}
=============================================================================
