------------------------------ MODULE MCMiddle ------------------------------
(* The cleanup of control flow graphs, SSA construction and the middle end, *)
(* one of them at a time: part says which.  The variables of the others     *)
(* keep one value.                                                          *)
EXTENDS CfgCleanup, TLC

(* Cleanup of programs of three and four blocks.                            *)

Exit == <<>>
Jump(b) == Default :> b
Fork(b, c) == (0 :> b) @@ (Default :> c)
TwoCases(b, c) == (0 :> b) @@ (1 :> c)

\* A block: its statements, its test, its edges.
Ends == [stmts : {0, 2}, test : {Varying}, succs : {Exit}]
Jumping(S) == [stmts : {0, 1}, test : {Varying}, succs : {Jump(b) : b \in S}]
Forking(S) == [stmts : {0, 1}, test : {Varying}, succs : {Fork(b, c) : b, c \in S}]
Constant(S) == [stmts : {0}, test : {0}, succs : {Fork(b, c) : b, c \in S}]
               \cup [stmts : {0}, test : {2}, succs : {Fork(3, 2), TwoCases(2, 3)}]
AnyBlock(S) == Ends \cup Jumping(S) \cup Forking(S) \cup Constant(S)

\* Only the first block has two edges to one block.
Apart(blocks) == {b \in blocks : b.succs \notin {Fork(2, 2), Fork(3, 3)}}

Program(f) == [stmts |-> [b \in DOMAIN f |-> f[b].stmts], test |-> [b \in DOMAIN f |-> f[b].test],
               succs |-> [b \in DOMAIN f |-> f[b].succs]]

ThreeBlocks == {Program(<<a, b, c>>) : a \in AnyBlock({2, 3}), b \in Apart(AnyBlock({2, 3})),
                                       c \in Apart(AnyBlock({2, 3}) \ Constant({2, 3}))}

\* Loops back to the entry, a loop with two exits, a diamond in a loop, a
\* switch whose arms are forwarders to one another.
FourFlows == {
  << Jump(2), Fork(3, 4), Jump(1), Exit >>,
  << Fork(2, 4), Fork(3, 4), Jump(1), Exit >>,
  << Jump(2), Fork(3, 4), Fork(2, 4), Exit >>,
  << Fork(2, 3), Jump(4), Jump(4), Fork(1, 4) >>,
  << TwoCases(2, 3), Jump(3), Jump(4), Jump(2) >>,
  << Fork(2, 3), Jump(4), Jump(4), Exit >> }
FourBlocks == [stmts : [1..4 -> 0..2], test : {[b \in 1..4 |-> Varying]}, succs : FourFlows]

CleanupPrograms == ThreeBlocks \cup FourBlocks
CleanupValues == 0..2

VARIABLES
  part,                                               \* what is checked
  succs, code, ssa, next, trace,                      \* of SSABuild
  program, form, ext, stage, again, altered, run      \* of Midend

building == <<succs, code, ssa, next, trace>>
midend == <<program, form, ext, stage, again, altered, run>>

P == INSTANCE MiddlePrograms
B == INSTANCE SSABuild WITH Temps <- P!ThreeTemps, Programs <- P!EasyAndHardPrograms, MoreSteps <- 2
M == INSTANCE Midend WITH Programs <- P!MCPrograms, Inputs <- P!MCInputs, SetLimit <- 2, MaxSteps <- 12,
       source <- program, graph <- form, pass <- stage, changed <- altered
\* Programs whose entry block is the head of a loop, and chains of comparisons
\* with a call between them.
BE == INSTANCE SSABuild WITH Temps <- P!OneTemp, Programs <- P!EntryLoopPrograms, MoreSteps <- 3
ME == INSTANCE Midend WITH Programs <- P!EffectPrograms, Inputs <- P!MCInputs, SetLimit <- 2, MaxSteps <- 12,
       source <- program, graph <- form, pass <- stage, changed <- altered
-----------------------------------------------------------------------------
None == <<>>
NoCleanup ==
  /\ source = None /\ phiSafe = FALSE /\ graph = None /\ pass = "none" /\ block = 1 /\ changed = FALSE /\ rounds = 0
  /\ at = Ended /\ pos = TheEnd
NoBuilding == succs = None /\ code = None /\ ssa = None /\ next = 0 /\ trace = None
NoMidend == program = None /\ form = None /\ ext = None /\ stage = None /\ again = None /\ altered = None /\ run = None

MiddleInit ==
  \/ part = "cleanup" /\ Init /\ NoBuilding /\ NoMidend
  \/ part = "build" /\ B!Init /\ NoCleanup /\ NoMidend
  \/ part = "midend" /\ M!Init /\ NoCleanup /\ NoBuilding

CleanupStep == part = "cleanup" /\ Next /\ UNCHANGED <<part, building, midend>>
BuildStep == part = "build" /\ B!Next /\ UNCHANGED <<part, vars, midend>>
MidendStep == part = "midend" /\ M!Next /\ UNCHANGED <<part, vars, building>>

MiddleNext == CleanupStep \/ BuildStep \/ MidendStep
MiddleSpec == MiddleInit /\ [][MiddleNext]_<<part, vars, building, midend>> /\ WF_<<part, vars, building, midend>>(CleanupStep)

\* Every variable has its type, each part in its module.
\* Midend includes SSA form, which its passes keep.
AllTypesOK ==
  /\ part = "cleanup" => TypeOK
  /\ part = "build" => B!TypeOK
  /\ part = "midend" => M!TypeOK /\ M!WellFormed

\* Programs and their SSA form do the same: see SSABuild (_SSABuilder).
SameMeaning == part = "build" => B!SameMeaning

\* A phi has an operand for every edge into its block, and none is kept without
\* need: see SSABuild (_seal and _try_remove_trivial).
PhisOnlyWhereWritesMeet == part = "build" => B!PhisMatchEdges /\ B!PhisOnlyWhereWritesMeet

\* A program and its optimized form do the same: see Midend (midend_standard).
SameBehaviour == part = "midend" => M!SameEffects

\* Cleanup ends, and neither of program and result runs ahead of the other: see
\* CfgCleanup (_Cleaner.run).
CleanedUp == part = "cleanup" => AlwaysRejoins
-----------------------------------------------------------------------------
(* What comments of the code say and the code does not do.                  *)

EntrySpec ==
  /\ part = "build" /\ BE!Init /\ NoCleanup /\ NoMidend
  /\ [][part = "build" /\ BE!Next /\ UNCHANGED <<part, vars, midend>>]_<<part, vars, building, midend>>

EffectsSpec ==
  /\ part = "midend" /\ ME!Init /\ NoCleanup /\ NoBuilding
  /\ [][part = "midend" /\ ME!Next /\ UNCHANGED <<part, vars, building>>]_<<part, vars, building, midend>>

\* "A read of a never-written scalar yields the shared OPX_UNDEF value"
\* (midend.pyx:1053), also if the entry block is the head of a loop.
UndefWhenUnwritten == part = "build" => BE!UndefWhenUnwritten

\* "every side-effecting instruction (side effects are never deletable)" is kept
\* (midend.pyx:3373), also by switch rewriting.
EffectsAreKept == part = "midend" => ME!SameEffects
=============================================================================
