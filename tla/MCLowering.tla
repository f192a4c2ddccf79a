----------------------------- MODULE MCLowering -----------------------------
(* The parallel copy, if-conversion, the lowering from SSA form, the        *)
(* emission of nodes and the arena, and the console of the server, one of   *)
(* them at a time: part says which.  The variables of the others keep one   *)
(* value.                                                                   *)
EXTENDS ParallelCopy, CommandLoop, Trees, FiniteSetsExt, SequencesExt

VARIABLES
  part,                                       \* what is checked
  job, plan, path,                            \* of Lower
  callback, blocks, phase, top, table, loop,  \* of Emission
  given, stage, arena, order, out, runs,      \* of Arena
  origin, now, step, decided, pair            \* of IfConversion

lowering == <<job, plan, path>>
emission == <<callback, blocks, phase, top, table, loop>>
carriage == <<given, stage, arena, order, out, runs>>
branching == <<origin, now, step, decided, pair>>
others == <<vars, lowering, emission, carriage, branching>>
parts == <<part, others, loopVars>>

(* Small programs in SSA form over the flows that make leaving it hard.     *)

I(op, args, b) == [op |-> op, args |-> args, block |-> b, must |-> FALSE]
C(ops, args, b) == {I(op, args, b) : op \in ops}

\* The programs of one flow: slots holds the choices for each instruction.
Fill(slots) ==
  FoldLeft(LAMBDA seqs, slot : {Append(s, i) : s \in seqs, i \in slot}, {<<>>}, slots)
Of(modes, flow, slots, tests) ==
  {[mode |-> m[1], fold |-> m[2], succs |-> flow, ins |-> s, test |-> t] :
     m \in modes, s \in Fill(slots), t \in tests}

Deep == <<"lower", 9>>
Flat == <<"lower", 2>>
Naive == <<"unssa", 9>>

\* Straight line: reads and effects in one block, chains of operations.
Straight == Of({Deep, Flat, Naive}, << <<2>>, <<>> >>,
  << C({"load", "given", "call", "draw"}, <<>>, 1),
     C({"pure", "fixed", "load"}, <<1>>, 1),
     C({"store", "call"}, <<1>>, 1) \cup C({"pure"}, <<1, 2>>, 1),
     C({"pure"}, <<2>>, 1) \cup C({"pure"}, <<2, 2>>, 1) \cup C({"store"}, <<2>>, 1),
     C({"store"}, <<2>>, 2) \cup C({"pure"}, <<1>>, 2) >>,
  {<<t, 0>> : t \in {0, 2}})

\* A block that is its own loop.
SelfLoop == Of({Deep, Flat, Naive}, << <<2>>, <<2, 3>>, <<>> >>,
  << C({"load", "given", "call"}, <<>>, 1),
     C({"pure", "fixed"}, <<1>>, 1),
     {I("phi", <<2, x>>, 2) : x \in {2, 4, 5}},
     C({"pure", "load"}, <<3>>, 2) \cup C({"pure"}, <<1, 2>>, 2),
     C({"pure"}, <<4>>, 2) \cup C({"pure", "call"}, <<3>>, 2),
     UNION {C({"store"}, <<x>>, 3) : x \in {2, 3, 4}} >>,
  {<<0, t, 0>> : t \in {3, 4, 5}})

\* A loop whose last block has one successor and a test that may end the program.
TestedLatch == Of({Deep, Naive}, << <<2>>, <<3>>, <<2>> >>,
  << C({"const", "given", "undef"}, <<>>, 1),
     {I("phi", <<1, x>>, 2) : x \in {4, 5}},
     {I("phi", <<1, x>>, 2) : x \in {2, 3, 4}},
     C({"pure", "store"}, <<2>>, 2) \cup C({"load"}, <<3>>, 2),
     C({"pure"}, <<3>>, 3) \cup C({"load"}, <<>>, 3) >>,
  {<<0, 0, t>> : t \in {0, 2, 5}})

\* A branch that rejoins along a critical edge, and two edges to one block.
Join(flow) == Of({Deep, Naive}, flow,
  << C({"load", "given", "undef"}, <<>>, 1),
     C({"pure", "load"}, <<1>>, 1),
     C({"pure"}, <<2>>, 2) \cup C({"store"}, <<1>>, 2),
     {I("phi", <<x, y>>, 3) : x \in {1, 2}, y \in {1, 2}},
     C({"pure"}, <<4, 2>>, 3) \cup C({"load"}, <<1>>, 3),
     UNION {C({"store"}, <<x>>, 3) : x \in {4, 5}} >>,
  {<<t, 0, 0>> : t \in {1, 2}})
Branches == Join(<< <<2, 3>>, <<3>>, <<>> >>) \cup
            {j \in Join(<< <<2>>, <<3, 3>>, <<>> >>) : j.ins[4].args[1] = j.ins[4].args[2]}

\* A loop in a loop, with values of the outer one used in the inner one.
Nested == Of({Deep, Flat}, << <<2>>, <<3>>, <<3, 4>>, <<2>> >>,
  << C({"load", "given"}, <<>>, 1),
     {I("phi", <<1, x>>, 2) : x \in {1, 3, 6}},
     C({"pure"}, <<2>>, 2) \cup C({"pure"}, <<1, 1>>, 2) \cup C({"fixed"}, <<>>, 2),
     C({"pure", "load"}, <<3>>, 3) \cup C({"pure"}, <<3, 3>>, 3),
     C({"pure"}, <<4>>, 3) \cup C({"store"}, <<3>>, 3),
     C({"pure"}, <<3>>, 4) \cup C({"pure"}, <<4>>, 4) >>,
  {<<0, 0, 4, t>> : t \in {0, 6}})

MCJobs == {j \in Straight \cup SelfLoop \cup TestedLatch \cup Branches \cup Nested :
  \A i \in DOMAIN j.ins : ToSet(j.ins[i].args) \cap {a \in DOMAIN j.ins : j.ins[a].op = "store"} = {}
                          /\ \A b \in DOMAIN j.test : j.test[b] = 0 \/ j.ins[j.test[b]].op # "store"}
-----------------------------------------------------------------------------
(* Callbacks with all kinds of switches, and with all kinds of accesses.    *)

Edge(c, b) == [on |-> c, to |-> b]
Block(stmts, test, edges) == [stmts |-> stmts, test |-> test, edges |-> edges]
Log(x) == Node("DebugLog", <<x>>)
Random == Node("Random", <<>>)

\* The cases of a switch in ascending order; case k goes to block 2, 3 or 4.
Ascending(cases) == SetToSortSeq(cases, <)
Fork(cases, turn, default) ==
  [i \in DOMAIN Ascending(cases) |-> Edge(Ascending(cases)[i], ((i + turn) % 3) + 2)] \o default

Switches ==
  {<<Block(<<>>, IF cases = {} THEN Const(0) ELSE Random, Fork(cases, turn, default)),
     Block(<<>>, Const(0), <<>>),
     Block(<<Log(Const(One))>>, Const(0), <<>>),
     Block(IF turn = 0 THEN <<>> ELSE <<Log(Const(Infinity))>>, Const(0), <<Edge(Default, 1)>>)>> :
    cases \in UNION {kSubset(k, {-2, 0, 1, 2, 4, 6, 10, 14}) : k \in 0..4} \cup {{0, Infinity}, {Infinity}},
    turn \in {0, 1}, default \in {<<>>} \cup {<<Edge(Default, b)>> : b \in 2..4}}

\* Cells of a block, some of them found through an index or a pointer; an index
\* may be a product of factors that are not whole.
Cell(k) == Place(k * One, <<Const(20)>>)
Var(k) == Node("Get", <<Cell(k)>>)
Indices == {Var(0), Var(1), Node("Add", <<Var(0), Var(1)>>), Node("Multiply", <<Var(1), Const(4)>>),
            Node("Multiply", <<Var(0), Var(1)>>), Node("Multiply", <<Node("Multiply", <<Var(0), Var(0)>>), Var(1)>>),
            Node("Multiply", <<Random, Const(4)>>), Node("Multiply", <<Const(4), Var(7)>>),
            Node("Multiply", <<Var(7), Var(0)>>), Node("Multiply", <<Var(0), Var(1), Var(0)>>),
            Node("Add", <<Random, Const(4)>>)}
Places == {Cell(2)} \cup {Place(offset, <<block, i>>) :
             offset \in {0, 2}, block \in {Const(20), Var(3)}, i \in Indices}
Addends == {Const(2), Const(1), Random, Node("Add", <<Const(2), Var(2)>>)}
Updated(p, q) ==
  UNION {{Node("Set", <<p, Node(f, <<Node("Get", <<q>>), w>>)>>) : w \in Addends} :
         f \in {"Add", "Subtract", "Multiply"}}
  \cup {Node("Set", <<p, Node("Add", <<Random, Node("Get", <<q>>)>>)>>)}

Accesses ==
  {<<Block(<<s, Log(Node("Add", <<Node("Add", <<Var(2), Var(4)>>), Node("Add", <<Var(2), Var(2)>>)>>))>>,
           Const(0), <<Edge(Default, 2)>>),
     Block(<<Node("Break", <<Const(One), Var(5)>>)>>, Const(0), <<>>)>> :
    s \in UNION {Updated(p, q) : p \in Places, q \in {Cell(2), Cell(4)}} \cup UNION {Updated(p, p) : p \in Places}}

MCCallbacks == Switches \cup Accesses
Numbers == {-2, 0, 1, 2, 3, 6, 14}
Filled == [c \in {10} \X (0..7) |->
  CASE c[2] = 0 -> 2 [] c[2] = 1 -> 4 [] c[2] = 2 -> 6 [] c[2] = 3 -> 20 [] c[2] = 7 -> 3 [] OTHER -> 2 * c[2]]
         @@ [c \in {<<3000, 1>>, <<3000, 2>>} |-> IF c[2] = 1 THEN Infinity ELSE - Infinity]
-----------------------------------------------------------------------------
L == INSTANCE Lower WITH Jobs <- MCJobs, MaxSteps <- 5, run <- path
E == INSTANCE Emission WITH Callbacks <- MCCallbacks, Draws <- Numbers, Memory <- Filled, MaxBlocks <- 4,
                            source <- callback, root <- top, run <- loop
P == INSTANCE ArenaPrograms
A == INSTANCE Arena WITH TreePrograms <- P!MCSources, Graphs <- P!MCGraphs, Members <- P!MCMembers,
                         FirstOdd <- P!Half, MaxChoices <- 3
B == INSTANCE BranchPrograms
V == INSTANCE IfConversion WITH Branchings <- B!MCBranchings, ArmBudget <- 8, Memories <- 0..2, Patience <- 16, stage <- step

-----------------------------------------------------------------------------
None == <<>>
NoCopy ==
  /\ request = None /\ pred = None /\ loc = None /\ toDo = {} /\ ready = {} /\ used = {}
  /\ mem = [c \in Cells |-> c]
NoLowering == job = None /\ plan = None /\ path = None
NoEmission == callback = None /\ blocks = None /\ phase = None /\ top = None /\ table = None /\ loop = None
NoCarriage == given = None /\ stage = None /\ arena = None /\ order = None /\ out = None /\ runs = None

NoBranching == origin = None /\ now = None /\ step = None /\ decided = None /\ pair = None

\* In the other parts the console has not started.
PartsInit ==
  /\ LoopInit
  /\ \/ part = "copy" /\ Init /\ NoLowering /\ NoEmission /\ NoCarriage /\ NoBranching
     \/ part = "lower" /\ L!Init /\ NoCopy /\ NoEmission /\ NoCarriage /\ NoBranching
     \/ part = "emit" /\ E!Init /\ NoCopy /\ NoLowering /\ NoCarriage /\ NoBranching
     \/ part = "arena" /\ A!Init /\ NoCopy /\ NoLowering /\ NoEmission /\ NoBranching
     \/ part = "convert" /\ V!Init /\ NoCopy /\ NoLowering /\ NoEmission /\ NoCarriage
     \/ part = "console" /\ NoCopy /\ NoLowering /\ NoEmission /\ NoCarriage /\ NoBranching

CopyStep == part = "copy" /\ Next /\ UNCHANGED <<lowering, emission, carriage, branching>>
LowerStep == part = "lower" /\ L!Next /\ UNCHANGED <<vars, emission, carriage, branching>>
EmitStep == part = "emit" /\ E!Next /\ UNCHANGED <<vars, lowering, carriage, branching>>
ArenaStep == part = "arena" /\ A!Next /\ UNCHANGED <<vars, lowering, emission, branching>>
ConvertStep == part = "convert" /\ V!Next /\ UNCHANGED <<vars, lowering, emission, carriage>>
PassStep == (CopyStep \/ LowerStep \/ EmitStep \/ ArenaStep \/ ConvertStep) /\ UNCHANGED <<part, loopVars>>
Console(taken) == part = "console" /\ taken /\ UNCHANGED <<part, others>>

PartsNext == PassStep \/ Console(LoopNext)
PartsSpec == PartsInit /\ [][PartsNext]_parts
\* With the fairness of CommandLoop.
FairSpec ==
  PartsSpec /\ WF_parts(Console(InputThread)) /\ WF_parts(Console(MainThread)) /\ WF_parts(Console(HttpStop))

\* Every variable has its type, each part in its module.
AllTypesOK ==
  /\ TypeOK /\ LoopTypeOK
  /\ part = "lower" => L!TypeOK
  /\ part = "emit" => E!TypeOK
  /\ part = "arena" => A!TypeOK
  /\ part = "convert" => V!TypeOK

\* A program and its lowered form show the same: see Lower (_Lower, _UnSSA).
SameEffects == part = "lower" => L!SameEffects

\* Trees stay within the cap, folding puts no work into loops, and copies take a
\* temporary for a pure cycle only: see Lower (_Lower._analyze) and ParallelCopy
\* (_seq_parallel_copies).
CostsAreBounded ==
  /\ part = "lower" => L!TreesAreBounded /\ L!LoopsStayCheap
  /\ part = "copy" => FreshForPureCyclesOnly

\* A callback and its nodes do the same, and the table of nodes stands for
\* the tree: see Emission (emit.pyx, lower.pyx, interpret.py, node.py).
SameExecution == part = "emit" => E!SameExecution /\ E!TableIsTheTree

\* What a comment says of strided accesses and does not hold: see Emission.
ShiftedIsPlain == part = "emit" => E!ShiftedIsPlain

\* Branches that become expressions do the same, and compute under their
\* condition only what the branch guarded: see IfConversion (_IfConv).
SelectsAreGuarded == part = "convert" => V!SelectsAreGuarded /\ V!MustFoldsAreSingle /\ V!TreesStayBounded

\* A program stays well formed in the arena, is the same when it comes out,
\* and what is marked as fixed is: see Arena (ir.pyx, midend.pyx).
ArenaIsExact == part = "arena" => A!Verified /\ A!SameRuns /\ A!FixedStaysFixed
=============================================================================
