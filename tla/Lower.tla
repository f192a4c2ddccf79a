------------------------------- MODULE Lower -------------------------------
(***************************************************************************)
(* Leaving SSA form: _Lower of sonolus/backend/_opt/lower.pyx (mode        *)
(* "lower"), and the naive variant kept for debugging, _UnSSA of           *)
(* sonolus/backend/_opt/midend.pyx (mode "unssa").                         *)
(*                                                                         *)
(* Every value is decided on once, in ascending order: it is dropped, or   *)
(* kept in a temporary ("temp"), or folded into the expressions that use   *)
(* it, once or several times ("fold").  Phis become temporaries that are   *)
(* copied to on the edges, at the end of the block before or in a block    *)
(* that splits the edge.                                                   *)
(*                                                                         *)
(* Afterwards the program is run twice in step, in SSA form and lowered.   *)
(* The copies of an edge happen together here: their order is the subject  *)
(* of module ParallelCopy.                                                 *)
(*                                                                         *)
(* Operations are reduced to what the decisions see of them:               *)
(*   const, undef, phi   as in the arena                                   *)
(*   given               a read the runtime knows before it starts         *)
(*   fixed               a read of a real block the callback cannot write  *)
(*   load                any other read of memory                          *)
(*   pure                an operation without effect and without state     *)
(*   draw                not pure, without effect (Random)                 *)
(*   call                an effect that returns a value                    *)
(*   store               an effect that is a statement                     *)
(* The operand of a read, if it has one, is its index.                     *)
(*                                                                         *)
(* Values marked with must (FLAG_MUST_FOLD) come from if-conversion, see   *)
(* module IfConversion.                                                    *)
(*                                                                         *)
(* Left out: _ssa_undef, which is always empty (midend.pyx:1352); dynamic  *)
(* block references, that are a second index; the flattening of sums and   *)
(* the dropping of neutral operands in _emit_op.                           *)
(***************************************************************************)
EXTENDS Naturals, FiniteSetsExt, SequencesExt

CONSTANTS
  Jobs,     \* records [mode, fold, succs, ins, test]: the mode, the cap on the
            \* depth of folded trees (_MAX_FOLD_DEPTH), the successors of each
            \* block in edge order, the instructions in order, and the value
            \* each block tests (0: none)
  MaxSteps  \* bound on the blocks executed

VARIABLES
  job,   \* what is lowered, and how
  plan,  \* the decisions made: records [how, depth, inlinable, rtc, cost]
  run    \* the two executions

vars == <<job, plan, run>>

Blocks == DOMAIN job.succs
Ids == DOMAIN job.ins
Op(v) == job.ins[v].op
Args(v) == job.ins[v].args
BlockOf(v) == job.ins[v].block
In(b) == {v \in Ids : BlockOf(v) = b}
Phis(b) == {v \in In(b) : Op(v) = "phi"}

Leaf(v) == Op(v) \in {"phi", "const", "undef"}
HasEffect(v) == Op(v) \in {"call", "store"}
Reads == {"given", "fixed", "load"}

-----------------------------------------------------------------------------
(* Uses of a value: <<user, operand>> by an instruction, <<0, block>> by    *)
(* the test of a block.  Edges are pairs <<block, k>>.                     *)

Edges == UNION {{b} \X DOMAIN job.succs[b] : b \in Blocks}
Target(e) == job.succs[e[1]][e[2]]

\* The edges into b, in the order of the operands of its phis.
Incoming(b) ==
  SetToSortSeq({e \in Edges : Target(e) = b}, LAMBDA x, y : x[1] < y[1] \/ (x[1] = y[1] /\ x[2] < y[2]))
EdgePos(e) == CHOOSE k \in DOMAIN Incoming(Target(e)) : Incoming(Target(e))[k] = e

Uses(v) ==
  UNION {{<<i, k>> : k \in {j \in DOMAIN Args(i) : Args(i)[j] = v}} : i \in Ids}
    \cup {<<0, b>> : b \in {c \in Blocks : job.test[c] = v}}

PhiUse(u) == u[1] # 0 /\ Op(u[1]) = "phi"
UsedByPhi(v) == \E u \in Uses(v) : PhiUse(u)
TheUse(v) == CHOOSE u \in Uses(v) : TRUE
UseBlock(u) ==
  IF u[1] = 0 THEN u[2] ELSE IF PhiUse(u) THEN Incoming(BlockOf(u[1]))[u[2]][1] ELSE BlockOf(u[1])

-----------------------------------------------------------------------------
(* Natural loops.                                                          *)

\* The blocks on paths of the edges E that start in S and avoid block x.
Reached(E, S, x) ==
  LET grown[T \in SUBSET Blocks] ==
        LET U == T \cup ({e[2] : e \in {f \in E : f[1] \in T}} \ {x}) IN IF U = T THEN T ELSE grown[U]
  IN  grown[S]

Forward == {<<e[1], Target(e)>> : e \in Edges}
Backward == {<<Target(e), e[1]>> : e \in Edges}

Dominates(a, b) == a = b \/ a = 1 \/ b \notin Reached(Forward, {1}, a)
BackEdges == {e \in Edges : Dominates(Target(e), e[1])}
Headers == {Target(e) : e \in BackEdges}

\* The body of the loop headed by h: all that reaches its back edges.
LoopBody(h) == {h} \cup Reached(Backward, {e[1] : e \in {f \in BackEdges : Target(f) = h}} \ {h}, h)
LoopDepth(h) == Cardinality({g \in Headers : h \in LoopBody(g)})

\* The innermost loop around block u does not contain block d.
CrossesLoop(d, u) ==
  \E h \in Headers :
    /\ u \in LoopBody(h) /\ d \notin LoopBody(h)
    /\ \A g \in Headers : u \in LoopBody(g) => LoopDepth(g) <= LoopDepth(h)

-----------------------------------------------------------------------------
(* The decision on value v, which looks at those on its operands.          *)

InTemp(v) == plan[v].how = "temp"

\* Known before the program runs: such a tree is never kept in a temporary.
RuntimeConst(v) ==
  \/ Op(v) \in {"const", "given"}
  \/ /\ Op(v) = "pure"
     /\ \A a \in ToSet(Args(v)) : Op(a) \notin {"phi", "undef"} /\ ~ InTemp(a) /\ plan[a].rtc

Stable(a) == Leaf(a) \/ plan[a].how \in {"temp", "drop"} \/ plan[a].inlinable

\* The value may be computed again wherever it is used.
Inlinable(v) ==
  Op(v) \in {"const", "given", "fixed", "pure"} /\ \A a \in ToSet(Args(v)) : Stable(a)

OperandCost(a) ==
  IF Op(a) = "const" THEN 1 ELSE IF Op(a) \in {"undef", "phi"} \/ InTemp(a) THEN 3 ELSE plan[a].cost

ScalarGetCost == 3
TreeCost(v) ==
  LET operands == FoldLeft(LAMBDA sum, a : sum + OperandCost(a), 0, Args(v)) IN
  IF RuntimeConst(v) THEN 1
  ELSE CASE Op(v) \in Reads -> 2 + (IF Args(v) = <<>> THEN 1 ELSE operands)
         [] Op(v) = "pure"  -> 1 + operands
         [] OTHER           -> ScalarGetCost

\* No effect between v and its use, in the same block.
NoEffectBetween(v, u) ==
  /\ ~ PhiUse(u)
  /\ ~ \E i \in In(BlockOf(v)) : HasEffect(i) /\ i > v /\ (u[1] # 0 => i < u[1])

\* A read of memory may move to its use if nothing happens on the way.
FoldsInPlace(v) ==
  /\ Op(v) \in Reads \cup {"pure"}
  /\ UseBlock(TheUse(v)) = BlockOf(v) /\ NoEffectBetween(v, TheUse(v))

\* A value used once is folded, unless into a loop it is outside of; a value
\* used several times if that is cheap.
FoldsWhenSafe(v) ==
  LET single == Cardinality(Uses(v)) = 1 IN
  IF Inlinable(v)
  THEN IF single THEN ~ CrossesLoop(BlockOf(v), UseBlock(TheUse(v)))
       ELSE TreeCost(v) < ScalarGetCost + 1
  ELSE single /\ FoldsInPlace(v)

\* The depth of the tree of v, seen from a value that folds it.
Depth(v) == 1 + Max({0} \cup {plan[a].depth : a \in ToSet(Args(v))})

\* Mutant: the depth of a tree known to the runtime is not counted.
MutantDecision(v) ==
  LET how == IF Leaf(v) \/ Op(v) = "store" THEN "own"
             ELSE IF Uses(v) = {} /\ ~ HasEffect(v) THEN "drop"
             ELSE IF HasEffect(v) \/ Depth(v) > job.fold THEN "temp"
             ELSE IF RuntimeConst(v) \/ (~ UsedByPhi(v) /\ FoldsWhenSafe(v)) THEN "fold"
             ELSE "temp"
  IN  [how |-> how, depth |-> IF how = "fold" /\ ~ RuntimeConst(v) THEN Depth(v) ELSE 1,
       inlinable |-> Inlinable(v), rtc |-> RuntimeConst(v), cost |-> TreeCost(v)]

\* What becomes of v.  A value that must be folded is; then the cap on the
\* depth comes before all rules but the one on effects; an operand of a phi
\* must be a temporary, or known to the runtime.
Decision(v) ==
  LET how == IF Leaf(v) \/ Op(v) = "store" THEN "own"
             ELSE IF job.ins[v].must THEN "fold"
             ELSE IF Uses(v) = {} /\ ~ HasEffect(v) THEN "drop"
             ELSE IF HasEffect(v) \/ Depth(v) > job.fold THEN "temp"
             ELSE IF RuntimeConst(v) \/ (~ UsedByPhi(v) /\ FoldsWhenSafe(v)) THEN "fold"
             ELSE "temp"
  IN  [how |-> how, depth |-> IF how = "fold" THEN Depth(v) ELSE 1,
       inlinable |-> Inlinable(v), rtc |-> RuntimeConst(v), cost |-> TreeCost(v)]

\* The naive variant folds pure operations used once, in their own block.
NaiveDecision(v) ==
  LET single == Cardinality(Uses(v)) = 1 /\ ~ UsedByPhi(v) /\ UseBlock(TheUse(v)) = BlockOf(v)
      how == IF Leaf(v) \/ Op(v) = "store" THEN "own"
             ELSE IF Uses(v) = {} /\ ~ HasEffect(v) THEN "drop"
             ELSE IF Op(v) = "pure" /\ single THEN "fold" ELSE "temp"
  IN  [how |-> how, depth |-> 1, inlinable |-> FALSE, rtc |-> FALSE, cost |-> 0]

-----------------------------------------------------------------------------
(* The copies of phis.                                                     *)

Succs(b) == ToSet(job.succs[b])

\* Mutant: a block with a single successor never needs a split.
MutantSplit(e) == Phis(Target(e)) # {} /\ Cardinality(Succs(e[1])) > 1

\* The edge gets a block of its own for its copies.
Split(e) ==
  /\ Phis(Target(e)) # {}
  /\ Cardinality(Succs(e[1])) > 1 \/ Target(e) = e[1] \/ job.test[e[1]] # 0

\* The copies are made at the end of block b, on behalf of its first edge.
CopiesAtEnd(b) ==
  job.test[b] = 0 /\ \E d \in Succs(b) : Succs(b) = {d} /\ d # b /\ Phis(d) # {}

\* The naive variant keeps the phis that are never used.
Copied(b) == {p \in Phis(b) : job.mode = "unssa" \/ Uses(p) # {}}

-----------------------------------------------------------------------------
(* Execution.  A value is a term over the reads and effects it came from;  *)
(* those of memory are named by the number of effects before them.         *)

Unwritten == <<"unwritten">>
Effects(b) == {v \in In(b) : HasEffect(v)}

\* What the operation of v yields at position p, from its operands.
Apply(v, p, operands, r) ==
  LET clock == r.clock + Cardinality({i \in Effects(r.at) : i < p}) IN
  CASE Op(v) \in {"load", "call"} -> <<Op(v), clock>> \o operands
    [] Op(v) = "draw"             -> <<"draw", v, r.steps>>
    [] OTHER                      -> <<Op(v)>> \o operands

\* The values of all operands at all positions of the block that runs, when
\* the values in kept have a temporary and temp holds what those had before.
Evaluated(kept, temp, r) ==
  LET value[v \in Ids, p \in 1..(Len(job.ins) + 1)] ==
        CASE Op(v) = "const" -> <<"const", v>>
          [] Op(v) = "undef" -> <<"undef">>
          [] Op(v) = "phi" \/ (v \in kept /\ (BlockOf(v) # r.at \/ v >= p)) -> temp[v]
          [] OTHER -> LET q == IF v \in kept THEN v ELSE p
                      IN  Apply(v, q, [k \in DOMAIN Args(v) |-> value[Args(v)[k], q]], r)
  IN  value

\* Block r.at: what its temporaries hold afterwards, and what it shows.
Executed(kept, temp, r) ==
  LET value == Evaluated(kept, temp, r)
      last == Len(job.ins) + 1
      shown(v) == [k \in DOMAIN Args(v) |-> value[Args(v)[k], v]]
      order == SetToSortSeq(Effects(r.at), LAMBDA x, y : x < y)
  IN  [temp |-> [v \in Ids |-> IF v \in kept /\ BlockOf(v) = r.at /\ ~ Leaf(v)
                               THEN Apply(v, v, shown(v), r) ELSE temp[v]],
       shows |-> [k \in DOMAIN order |-> <<order[k], shown(order[k])>>]
                   \o (IF job.test[r.at] = 0 THEN <<>> ELSE << <<0, value[job.test[r.at], last]>> >>)]

Values == {v \in Ids : ~ Leaf(v)}
Kept == {v \in Ids : plan[v].how = "temp"}

\* The copies to the phis in P for edge e, out of the values in kept.  What is
\* not kept is a constant or a tree known to the runtime, or cannot be copied.
Copy(P, e, kept, temp, r) ==
  LET value == Evaluated(kept, temp, [r EXCEPT !.at = 0])
      from(a) == IF Op(a) \in {"const", "undef"} \/ (a \notin kept /\ plan[a].rtc)
                 THEN value[a, 1] ELSE temp[a]
  IN  [v \in Ids |-> IF v \in P THEN from(Args(v)[EdgePos(e)]) ELSE temp[v]]

LoweredCopy(e, temp, r) == Copy(Copied(Target(e)), e, Kept, temp, r)

\* Both programs execute block b.
RunBlock(b, r) ==
  LET at == [r EXCEPT !.at = b, !.steps = @ + 1]
      ssa == Executed(Values, r.ssa, at)
      low == Executed(Kept, r.low, at)
  IN  [at EXCEPT !.ssa = ssa.temp, !.shows = <<ssa.shows, low.shows>>,
                 !.low = IF CopiesAtEnd(b) THEN LoweredCopy(<<b, 1>>, low.temp, at) ELSE low.temp,
                 !.clock = @ + Cardinality(Effects(b))]

\* Both programs take edge e.
Take(e, r) ==
  [r EXCEPT !.ssa = Copy(Phis(Target(e)), e, Values, @, r),
            !.low = IF Split(e) THEN LoweredCopy(e, @, r) ELSE @]

-----------------------------------------------------------------------------
Init ==
  /\ job \in Jobs
  /\ plan = <<>>
  /\ LET fresh == [v \in Ids |-> Unwritten]
     IN  run = [at |-> 0, steps |-> 0, clock |-> 0, ssa |-> fresh, low |-> fresh, shows |-> << <<>>, <<>> >>]

Decide ==
  /\ Len(plan) < Len(job.ins)
  /\ LET v == Len(plan) + 1
     IN  plan' = Append(plan, IF job.mode = "lower" THEN Decision(v) ELSE NaiveDecision(v))
  /\ UNCHANGED <<job, run>>

Decided == Len(plan) = Len(job.ins)

Enter ==
  /\ Decided /\ run.at = 0
  /\ run' = RunBlock(1, run)
  /\ UNCHANGED <<job, plan>>

Branch ==
  /\ run.at # 0 /\ run.steps < MaxSteps
  /\ \E k \in DOMAIN job.succs[run.at] :
       LET e == <<run.at, k>> IN run' = RunBlock(Target(e), Take(e, run))
  /\ UNCHANGED <<job, plan>>

Next == Decide \/ Enter \/ Branch

Spec == Init /\ [][Next]_vars

-----------------------------------------------------------------------------
(* Properties                                                              *)

\* Every variable has its type; folded trees seen from their users stay within the cap.
TypeOK ==
  /\ job.mode \in {"lower", "unssa"} /\ Len(plan) \in 0..Len(job.ins)
  /\ \A v \in DOMAIN plan :
       /\ plan[v].how \in {"own", "drop", "temp", "fold"} /\ plan[v].depth \in 1..job.fold
       /\ plan[v].inlinable \in BOOLEAN /\ plan[v].rtc \in BOOLEAN /\ plan[v].cost \in Nat
  /\ run.at \in Blocks \cup {0} /\ run.steps \in 0..MaxSteps
  /\ DOMAIN run.ssa = Ids /\ DOMAIN run.low = Ids

\* Lowering keeps what a program shows: along every path each effect and each
\* test gets the operands it got in SSA form, read from memory at a moment
\* when it held the same, and from no temporary that was not yet written or
\* was already overwritten by the copies for the next iteration.
SameEffects == run.shows[1] = run.shows[2]

\* The trees that are emitted, whatever their kind, are no deeper than the cap
\* and the operation at their root: all recursive walks over them are bounded.
TreesAreBounded ==
  Decided /\ job.mode = "lower" =>
    LET folded(a) == plan[a].how = "fold"
        height[v \in Ids] == 1 + Max({0} \cup {IF folded(a) THEN height[a] ELSE 1 : a \in ToSet(Args(v))})
    IN  \A v \in Ids : Op(v) # "phi" => height[v] <= job.fold + 1

\* The values computed each time block b runs: in it, or folded into it.
ComputedFor(v) ==
  LET more[S \in SUBSET Ids] ==
        LET T == S \cup {a \in Ids : plan[a].how = "fold" /\ \E i \in S : a \in ToSet(Args(i))}
        IN  IF T = S THEN S ELSE more[T]
  IN  more[{v} \ {i \in Ids : Op(i) = "phi"}]

\* Folding never moves work into a loop: what a loop computes although it is
\* defined outside of it is known to the runtime or no dearer than the read of
\* a temporary, also when it arrives there inside of another tree.
LoopsStayCheap ==
  Decided /\ job.mode = "lower" =>
    \A v \in {i \in Ids : plan[i].how \in {"own", "temp"}} :
      \A a \in ComputedFor(v) :
        CrossesLoop(BlockOf(a), BlockOf(v)) => plan[a].rtc \/ plan[a].cost <= ScalarGetCost
=============================================================================
