--------------------------- MODULE ArenaPrograms ---------------------------
(* Programs that exercise every shape of tree, place and edge the arena     *)
(* holds, and functions in SSA form as their builder leaves them.           *)
EXTENDS Integers, TLC, Functions, FiniteSetsExt, SequencesExt

Const(n) == [k |-> "const", n |-> n]
Op(op, args) == [k |-> op, args |-> args]
At(base, index, off) == [k |-> "place", base |-> base, index |-> index, off |-> off, exact |-> FALSE]
Get(place) == [k |-> "get", place |-> place]
Put(place, value) == [k |-> "set", place |-> place, value |-> value]

\* Block 1 may be written, 2 and 3 not, 3 is not one the mode names.
MCMembers == (1 :> [writable |-> TRUE, named |-> TRUE]) @@ (2 :> [writable |-> FALSE, named |-> TRUE])
               @@ (3 :> [writable |-> FALSE, named |-> FALSE])
Half == 50

Scalar(name) == At(<<"temp", <<name>>, 1>>, Const(0), 0)
Array(index, off) == At(<<"temp", <<"array">>, 3>>, index, off)
Named(m, index, off) == At(<<"block", m, "enum">>, index, off)
X == Get(Scalar("x"))
Log(v) == Op("DebugLog", <<v>>)

Values == {Const(Half), Get(Array(X, 1)), Get(Named(2, Const(4), 1)), Get(Named(2, Const(Half), 1)),
           Get(At(<<"block", 3, "raw">>, X, 0)), Get(At(<<"value", Op("Add", <<X, Const(1)>>)>>, Const(2), 0)),
           Op("Random", <<Const(0), X>>), Op("Add", <<X, Const(3), Get(Scalar("y"))>>),
           Op("Negate", <<Op("Mod", <<X, Get(Named(1, X, 0)), Const(4), X>>)>>)}
Targets == {Scalar("x"), Scalar("y"), Array(Const(1), 1), Array(Op("Add", <<X, X>>), 0), Named(1, X, 2),
            At(<<"value", Get(Scalar("y"))>>, Op("Add", <<X, Const(1)>>), 1)}
Statements == {Put(t, v) : t \in Targets, v \in Values} \cup {Log(v) : v \in Values \ {Op("Random", <<Const(0), X>>)}}

Block(stmts, test, edges) == [stmts |-> stmts, test |-> test, out |-> edges]
Case(n, b) == <<<<n>>, b>>
Rest(b) == <<<<>>, b>>

Alone(blocks) == [b \in DOMAIN blocks |-> <<b>>]

\* One block after another, merged in every way.
Line(s, t) ==
  {[blocks |-> << Block(<<Put(Scalar("y"), Get(Named(1, Const(0), 0))), s>>, Const(0), {Rest(2)}),
                  Block(<<t>>, Op("Less", <<X, Const(1)>>), {Rest(3)}),
                  Block(<<Log(Get(Scalar("y"))), Log(Get(Array(Const(1), 1)))>>, Const(0), {}) >>,
    chains |-> c] : c \in {1 :> <<1, 2, 3>>, (1 :> <<1>>) @@ (2 :> <<2, 3>>), (1 :> <<1, 2>>) @@ (3 :> <<3>>)}}

\* A switch whose cases rejoin, and a loop; blocks are not in their order.
Switch(s) ==
  LET blocks == << Block(<<s>>, X, {Case(2, 4), Case(0, 3), Rest(2)}),
                   Block(<<Put(Scalar("x"), Const(1))>>, Const(0), {Rest(5)}),
                   Block(<<>>, Op("Add", <<X, X, X>>), {Case(1, 1), Case(Half, 5)}),
                   Block(<<Log(X)>>, Const(0), {Rest(2)}),
                   Block(<<Log(Get(Named(1, X, 0)))>>, Const(0), {}) >>
  IN  {[blocks |-> blocks, chains |-> Alone(blocks)]}

MCSources == UNION {Line(s, t) : s \in Statements, t \in {Put(Scalar("x"), v) : v \in Values}}
               \cup UNION {Switch(s) : s \in Statements}

-----------------------------------------------------------------------------
(* Functions in SSA form.                                                   *)

NoPlace == [base |-> <<"none">>, index |-> 0, off |-> 0, flags |-> {}]
Flags(op) == CASE op = "const" -> {"pure", "int"} [] op = "get" -> {"pinned"}
               [] op = "set" -> {"effect", "pinned", "root"} [] op = "DebugLog" -> {"pinned", "effect", "root"}
               [] op \in {"phi", "undef"} -> {} [] OTHER -> {"pure"}
I(op, args, b) == [op |-> op, flags |-> Flags(op), args |-> args, at |-> NoPlace, n |-> 0, block |-> b]
K(n, b) == [I("const", <<>>, b) EXCEPT !.n = n]
M(op, args, base, index, b) ==
  [I(op, args, b) EXCEPT !.at = [base |-> base, index |-> index, off |-> 1, flags |-> {"writable"}]]
Memory == <<"block", 1, "raw">>
Edge(s, d, on) == [src |-> s, dst |-> d, on |-> on]

\* A branch that rejoins: phis of both sides, one of them standing for
\* another value, the values of a block in any order of their numbers.
Joins ==
  {[ins |-> << M("get", <<>>, Memory, 0, 1), K(20, 1), I("Add", <<1, 2>>, 2), I("phi", <<1, x>>, 3), I("phi", <<2, y>>, 3),
               I("phi", <<1, 1>>, 3), I("Less", <<1, 6>>, 1), M("set", <<4>>, <<"value", 5>>, z, 3),
               I("DebugLog", <<6>>, 3), I("Negate", <<3>>, 2), I("undef", <<>>, 1) >>,
    phis |-> << <<>>, <<>>, <<6, 5, 4>> >>, values |-> << <<2, 1, 7>>, <<3, 10>>, <<8, 9>> >>,
    dead |-> {6} \cup ({10} \ {y}), to |-> 6 :> 1, undef |-> 11, test |-> <<7, 0, 0>>, edges |-> edges] :
     x \in {1, 3, 11}, y \in {2, 10}, z \in {0, 1, 4},
     edges \in {<<Edge(1, 3, <<1>>), Edge(1, 2, <<>>), Edge(2, 3, <<>>)>>}}

\* A loop whose phis change places; its last block has a test of its own.
Loops ==
  {[ins |-> << K(1, 1), K(2, 1), I("phi", <<1, p>>, 2), I("phi", <<2, q>>, 2), I("Less", <<3, 4>>, 2),
               I("Negate", <<2>>, 2), M("get", <<>>, Memory, 4, 3), I("DebugLog", <<4>>, 3), I("Add", <<6, u>>, 3),
               M("set", <<9>>, Memory, 3, 3), I("Add", <<3, 4>>, 3) >>,
    phis |-> << <<>>, <<3, 4>>, <<>> >>, values |-> << <<1, 2>>, <<5, 6>>, <<7, 8, 9, 11, 10>> >>,
    dead |-> {}, to |-> <<>>, undef |-> 0, test |-> <<0, 5, t>>,
    edges |-> <<Edge(1, 2, <<>>), Edge(2, 3, on), Edge(3, 2, <<1>>)>>] :
     p \in {4, 6, 9}, q \in {3, 11}, u \in {1, 4, 7}, t \in {3, 7, 9}, on \in {<<0>>}}

\* A block that is its own loop, entered in two ways.
SelfLoops ==
  {[ins |-> << K(1, 1), M("get", <<>>, Memory, 0, 1), I("phi", <<1, x, y>>, 3), I("phi", <<2, 2, z>>, 3),
               I("Less", <<3, 4>>, 3), I("Add", <<w, 2>>, 3), I("DebugLog", <<6>>, 3), I("Negate", <<2>>, 2) >>,
    phis |-> << <<>>, <<>>, <<3, 4>> >>, values |-> << <<1, 2>>, <<8>>, <<5, 6, 7>> >>,
    dead |-> {}, to |-> <<>>, undef |-> 0, test |-> <<2, 0, 5>>,
    edges |-> <<Edge(1, 3, <<0>>), Edge(1, 2, <<>>), Edge(2, 3, <<>>), Edge(3, 3, <<1>>)>>] :
     x \in {1, 8}, y \in {4, 6}, z \in {3, 5}, w \in {1, 2, 4}}

MCGraphs == Joins \cup Loops \cup SelfLoops
=============================================================================
