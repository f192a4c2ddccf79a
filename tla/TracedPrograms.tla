--------------------------- MODULE TracedPrograms ---------------------------
(* Small callbacks for the front end.                                       *)
EXTENDS Sequences, SequencesExt

MCNameOrder == <<"a", "b", "g", "r", "x">>

C(n) == <<"const", n>>
N(x) == <<"name", x>>
Inc(x) == <<"next", x>>
In == <<"input">>
Let(x, e) == <<"let", x, e>>
Write(e) == <<"log", e>>

\* The bodies with one of the choices of each slot, and the programs with one
\* of the choices for each body.
Fill(slots) == FoldLeft(LAMBDA seqs, slot : {s \o c : s \in seqs, c \in slot}, {<<>>}, slots)
Of(bodies) == FoldLeft(LAMBDA ps, bs : {Append(p, b) : p \in ps, b \in bs}, {<<>>}, bodies)
Only(s) == {<<s>>}
Lets(x, es) == {<<Let(x, e)>> : e \in es}
Empty == {<<>>}

\* A loop whose names are exchanged, with the ways out of it.
Swaps == Of(<<
  Fill(<<Only(Let("a", C(1))), Only(Let("b", In)), Only(<<"while", In, 2, 3>>), Only(Write(N("a"))), Only(<<"return", N("b")>>)>>),
  Fill(<<Lets("x", {N("a"), Inc("a")}), Lets("a", {N("b"), Inc("b")}), Only(<<"if", N("b"), 4, 5>>), Lets("b", {N("x"), C(3)})>>),
  Only(Write(N("b"))),
  {<< <<"break">> >>, << <<"continue">> >>, << <<"return", N("a")>> >>, <<Let("a", C(5)), <<"continue">> >>},
  Empty \cup Only(Let("a", C(7))) >>)

\* A loop in an unrolled one.
Unrolling == Of(<<
  Fill(<<Only(Let("a", C(0))), Only(Let("b", In)), Only(<<"for", "x", <<1, 2>>, 2, 7>>), Only(Write(N("a"))), Only(<<"return", N("b")>>)>>),
  Fill(<<Lets("b", {N("x"), In}), Only(<<"while", N("b"), 3, 4>>), Lets("a", {Inc("a"), N("b")})>>),
  Fill(<<Only(<<"if", In, 5, 6>>), Lets("b", {N("a"), C(0)})>>),
  {<<>>, << <<"break">> >>, << <<"continue">> >>},
  {<< <<"break">> >>, << <<"continue">> >>, << <<"return", N("b")>> >>},
  Only(Let("a", Inc("a"))),
  Empty >>)

\* A loop that ends by break only, one that never runs, and branches that
\* are known while compiling.
Endless == Of(<<
  Fill(<<Only(Let("a", C(0))), Only(Let("b", C(0))), Only(<<"while", C(1), 2, 5>>), Only(<<"while", N("b"), 3, 4>>), Only(<<"return", N("a")>>)>>),
  Fill(<<Only(Let("a", Inc("a"))), Only(<<"if", In, 3, 6>>), {<<Let("b", N("a"))>>, << <<"if", C(0), 3, 5>> >>}>>),
  {<< <<"break">> >>},
  Only(Write(N("b"))),
  Only(Write(C(4))),
  Empty \cup Only(<<"continue">>) >>)

\* Functions that return from a loop, and records that outlive them.
Calls == Of(<<
  Fill(<<Only(Let("a", In)), Only(Let("r", <<"box", N("a")>>)), Only(<<"call", "x", 2>>), {<< <<"put", "r", e>> >> : e \in {N("x"), Inc("a")}},
         Only(Let("b", <<"field", "r">>)), Only(<<"put", "r", C(5)>>), Only(Write(<<"field", "r">>)), Only(Write(N("b"))), Only(Write(N("x")))>>),
  Fill(<<Lets("a", {C(3), In}), Only(<<"while", In, 3, 4>>), Only(<<"return", N("a")>>)>>),
  Fill(<<Only(<<"if", In, 5, 6>>), Only(Let("a", Inc("a")))>>),
  Empty \cup Only(<<"return", C(9)>>),
  {<< <<"return", N("a")>> >>, << <<"break">> >>, << <<"continue">> >>},
  Empty >>)

\* A function that returns nothing, called in a loop: its places are reused.
Reuse == Of(<<
  Fill(<<Only(Let("a", In)), Only(<<"while", In, 2, 3>>), Only(Write(N("a")))>>),
  Fill(<<Only(<<"call", "x", 4>>), Only(Let("b", Inc("a"))), Only(<<"call", "r", 4>>), Lets("a", {N("b"), N("a")})>>),
  Empty,
  {<<Let("x", In), Write(Inc("x"))>>, <<Let("x", In), <<"if", N("x"), 5, 3>>, Write(C(8))>>},
  Only(<<"return", <<>> >>) >>)

\* A generator, taken from once and then looped over.
Generators == Of(<<
  Fill(<<Only(<<"gen", "g", 2>>), Only(Let("a", C(0))), {<<>>, << <<"next", "b", "g">>, Write(N("b"))>>},
         Only(<<"forin", "x", "g", 3, 4>>), Only(Write(N("a")))>>),
  Fill(<<Only(Let("a", In)), Only(<<"yield", N("a")>>), Only(<<"while", In, 5, 4>>), {<<>>, << <<"yield", C(6)>> >>}>>),
  Fill(<<Only(Write(N("x"))), Lets("a", {N("x"), Inc("a")}), {<<>>, << <<"if", N("x"), 6, 7>> >>}>>),
  Empty \cup Only(Write(C(8))),
  Fill(<<Only(Let("a", Inc("a"))), Only(<<"yield", N("a")>>)>>),
  {<< <<"break">> >>, << <<"continue">> >>},
  Only(Let("a", C(7))) >>)

\* A match with alternatives, a guard and a capture.
Case(numbers, capture, guard, body) == [numbers |-> numbers, capture |-> capture, guard |-> guard, body |-> body]
Matches == Of(<<
  Fill(<<Lets("a", {In, C(1)}), Only(Let("b", In)),
         {<< <<"match", Inc("a"), <<Case(n, "", C(1), 2), Case(<<2>>, "", N("b"), 3), Case(<<>>, "x", g, 4), Case(<<>>, "r", C(1), 5)>> >> >> :
            n \in {<<1>>, <<3, 1>>, <<2, 1>>}, g \in {C(1), N("b"), C(0)}},
         Only(<<"return", N("b")>>)>>),
  Only(Let("b", C(5))) \cup Only(<<"return", C(2)>>),
  Only(Let("b", Inc("b"))),
  Only(Write(N("x"))),
  Only(Let("b", N("r"))) >>)

\* Operators that evaluate one operand or the other.
Shorts == Of(<<
  Fill(<<Lets("a", {In, C(0), C(1)}), Only(Let("b", In)),
         Lets("x", {<<"and", N("a"), In>>, <<"or", N("a"), In>>, <<"ifexp", N("a"), In, N("b")>>, <<"ifexp", N("b"), Inc("a"), N("a")>>, <<"or", In, N("b")>>}),
         Only(Let("b", Inc("b"))), Only(Write(N("x"))), Only(<<"return", N("b")>>)>>),
  Empty >>)

\* A name that is bound on every path that goes on.
Guards == Of(<<
  Fill(<<Only(Let("a", In)), Only(<<"if", N("a"), 2, 3>>), Only(Write(N("b"))), Only(<<"return", N("b")>>)>>),
  Only(Let("b", C(1))), Only(Let("b", Inc("a"))) \cup Only(<<"return", N("a")>>) >>)

\* References where contexts meet: some are refused.
References == Of(<<
  Fill(<<Only(Let("r", <<"box", C(1)>>)), Only(Let("a", In)),
         {<< <<"if", N("a"), 2, 3>>, Write(<<"field", "r">>) >>, << <<"if", N("a"), 4, 3>>, Write(N("x"))>>, << <<"while", In, 5, 3>> >>}>>),
  {<<Let("r", <<"box", C(2)>>)>>, << <<"put", "r", C(2)>> >>},
  Empty,
  Only(Let("x", C(1))),
  {<<Write(<<"field", "r">>), Let("r", <<"box", C(2)>>)>>, <<Let("r", <<"box", C(2)>>), Write(<<"field", "r">>)>>} >>)

\* A reference bound anew in a loop and read after it only.
MCStale == Of(<<
  Fill(<<Only(Let("r", <<"box", C(1)>>)), Only(<<"while", In, 2, 3>>), Only(Write(<<"field", "r">>))>>),
  Only(Let("r", <<"box", C(2)>>)) \cup Only(<<"put", "r", C(2)>>),
  Empty >>)

MCPrograms == Swaps \cup Unrolling \cup Endless \cup Calls \cup Reuse \cup Generators \cup Matches \cup Shorts \cup Guards \cup References
=============================================================================
