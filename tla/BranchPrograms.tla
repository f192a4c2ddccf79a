---------------------------- MODULE BranchPrograms ----------------------------
(* Small programs with branches for the if-conversion.                      *)
EXTENDS Integers, FiniteSets, Sequences, SequencesExt

Always == -1
I(op, val, args, b) == [op |-> op, fun |-> "none", val |-> val, args |-> args, block |-> b, must |-> FALSE]
F(funs, args, b) == {[I("pure", 0, args, b) EXCEPT !.fun = f] : f \in funs}
K(n, b) == {I("const", n, <<>>, b)}
Op(op, n, args, b) == {I(op, n, args, b)}
Phi(choices, b) == {I("phi", 0, args, b) : args \in choices}

\* The programs of one flow: edges of each block, choices for each instruction.
Fill(slots) ==
  FoldLeft(LAMBDA seqs, slot : {Append(s, i) : s \in seqs, i \in slot}, {<<>>}, slots)
Of(folds, flow, whens, slots, tests) ==
  {[mode |-> "lower", fold |-> f, succs |-> flow, when |-> w, ins |-> s, test |-> t] :
     f \in folds, w \in whens, s \in Fill(slots), t \in tests}

\* A branch with a block on one way or on both.
Diamond ==
  Of({2, 9}, << <<2, 3>>, <<4>>, <<4>>, <<>> >>, {<< <<c, Always>>, <<Always>>, <<Always>>, <<>> >> : c \in {0, 1}},
  << Op("load", 1, <<>>, 1), K(2, 1), F({"less", "sum"}, <<1, 2>>, 1),
     F({"inverse"}, <<1>>, 2) \cup F({"sum"}, <<1, 2>>, 2),
     F({"sum"}, <<4, 4>>, 2) \cup F({"sum"}, <<4, 2>>, 2) \cup Op("load", 2, <<4>>, 2),
     F({"inverse"}, <<3>>, 3) \cup Op("draw", 3, <<>>, 3) \cup K(5, 3),
     Phi({<<5, 2>>, <<5, 6>>, <<4, 3>>}, 4),
     Op("call", 4, <<3>>, 4), Op("store", 5, <<7>>, 4), F({"sum"}, <<7, 2>>, 4), Op("store", 6, <<10>>, 4) >>,
  {<<t, 0, 0, 0>> : t \in {1, 3}})

\* A condition of two parts: the inner branch is converted first.
TwoParts ==
  Of({2, 9}, << <<2, 4>>, <<3, 4>>, <<4>>, <<>> >>, {<< <<a, Always>>, <<1 - a, Always>>, <<Always>>, <<>> >> : a \in {0, 1}},
  << Op("load", 1, <<>>, 1), K(1, 1), F({"less"}, <<2, 1>>, 1),
     F({"inverse"}, <<1>>, 2) \cup F({"less"}, <<1, 2>>, 2),
     F({"equal", "sum"}, <<4, 2>>, 2),
     F({"inverse"}, <<1>>, 3) \cup F({"sum"}, <<1, 2>>, 3),
     Phi({<<3, 5, 6>>, <<2, 2, 6>>, <<3, 2, 1>>}, 4), Phi({<<2, 1, 2>>, <<2, 2, 6>>}, 4),
     Op("call", 1, <<7>>, 4), Op("store", 2, <<8>>, 4) >>,
  {<<3, t, 0, 0>> : t \in {4, 5}})

\* A loop with a branch in it that leads back at once; it is entered from a
\* block that LICM added.
Loop ==
  Of({2, 9}, << <<5>>, <<3, 6>>, <<4, 2>>, <<2>>, <<2>>, <<>> >>,
  {<< <<Always>>, <<Always, 0>>, <<c, Always>>, <<Always>>, <<Always>>, <<>> >> : c \in {0, 2}},
  << Op("load", 1, <<>>, 1) \cup K(0, 1), K(1, 1), K(4, 1),
     Phi({<<7, 9, 1>>}, 2), Phi({<<x, y, 2>> : x \in {4, 5}, y \in {2, 5, 10}}, 2), F({"less"}, <<4, 3>>, 2),
     F({"sum"}, <<4, 2>>, 3), Op("load", 2, <<>>, 3) \cup Op("call", 2, <<5>>, 3),
     F({"sum"}, <<4, 3>>, 4), F({"inverse"}, <<8>>, 4) \cup F({"sum"}, <<7, 5>>, 4),
     Op("store", 5, <<5>>, 6) >>,
  {<<0, 6, t, 0, 0, 0>> : t \in {4, 8}})

MCBranchings == Diamond \cup TwoParts \cup Loop
=============================================================================
