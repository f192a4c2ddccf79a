----------------------------- MODULE SSABuild ------------------------------
(***************************************************************************)
(* SSA construction, _SSABuilder of sonolus/backend/_opt/midend.pyx.       *)
(*                                                                         *)
(* Blocks are filled in reverse postorder.  A temporary that is read in a  *)
(* block that does not define it is looked for in the predecessors; a      *)
(* block with a predecessor still to be filled gets an incomplete phi,     *)
(* whose operands are found when the last predecessor is done (the block   *)
(* is sealed).  A phi with at most one operand besides itself is replaced  *)
(* by it, which may make the phis that use it trivial in turn.             *)
(*                                                                         *)
(* When the blocks are filled the program is run twice in step, once on    *)
(* its temporaries and once on the values that replaced them.              *)
(*                                                                         *)
(* Expressions are reduced to what construction sees of them: "def" writes *)
(* a computed value to a temporary, "use" reads one (as an argument or as  *)
(* the test of a block), "copy" does both.                                 *)
(***************************************************************************)
EXTENDS Naturals, SequencesExt

CONSTANTS
  Temps,     \* size-1 scalar temporaries
  Programs,  \* records [succs, code]: the successors of each block, in edge
             \* order, and its operations
  MoreSteps  \* bound: a run executes N + MoreSteps blocks

VARIABLES
  succs,  \* the control flow graph
  code,   \* the operations of each block
  ssa,    \* the builder
  next,   \* next block to fill
  trace   \* the two executions

vars == <<succs, code, ssa, next, trace>>

N == Len(succs)
Blocks == 1..N

\* The edges into b, in the order of the phi operands: their sources.
Incoming(b) ==
  FlattenSeq([u \in Blocks |-> SelectSeq([k \in DOMAIN succs[u] |-> IF succs[u][k] = b THEN u ELSE 0],
                                         LAMBDA x : x # 0)])
Preds(b) == ToSet(Incoming(b))

-----------------------------------------------------------------------------
(* The builder.  Values are numbered in the order of their creation.       *)

NewVal(s, op, b, t) ==
  [s EXCEPT !.val = Append(@, [op |-> op, block |-> b, temp |-> t, args |-> <<>>, dead |-> FALSE])]

\* The shared value of a temporary that was never written.
GetUndef(s) ==
  IF s.undef # 0 THEN s
  ELSE [NewVal(s, "undef", 1, "none") EXCEPT !.undef = Len(s.val) + 1]

RECURSIVE Resolve(_, _)
Resolve(s, v) == IF v \in DOMAIN s.subst THEN Resolve(s, s.subst[v]) ELSE v

Write(s, t, bs, v) ==
  [s EXCEPT !.curDef = [k \in {<<t, b>> : b \in bs} |-> v] @@ @]

UsersOf(s, v) == IF v \in DOMAIN s.users THEN s.users[v] ELSE {}
AddUsers(s, v, us) == [s EXCEPT !.users = (v :> (UsersOf(s, v) \cup us)) @@ @]

\* Mutant: the undefined value is not an operand like the others.
MutantMerged(s, p) == ({Resolve(s, o) : o \in ToSet(s.val[p].args)} \ {p}) \ {s.undef}

\* What a phi merges: its operands, without itself.
Merged(s, p) == {Resolve(s, o) : o \in ToSet(s.val[p].args)} \ {p}

\* Mutant: a phi that is replaced is not marked dead.
RECURSIVE MutantKeepsPhi(_, _)
MutantKeepsPhi(s, worklist) ==
  IF worklist = {} THEN s
  ELSE LET p == CHOOSE p \in worklist : TRUE
           s0 == IF Merged(s, p) = {} THEN GetUndef(s) ELSE s
           same == IF Merged(s, p) = {} THEN s0.undef ELSE CHOOSE v \in Merged(s, p) : TRUE
       IN  IF Cardinality(Merged(s, p)) > 1 THEN s
           ELSE AddUsers([s0 EXCEPT !.subst = (p :> same) @@ @], same, UsersOf(s, p) \ {p})

\* Mutant: the users of a phi that goes away are not looked at again.
RECURSIVE MutantTryRemoveTrivial(_, _)
MutantTryRemoveTrivial(s, worklist) ==
  IF worklist = {} THEN s
  ELSE LET p == CHOOSE p \in worklist : TRUE
           s0 == IF Merged(s, p) = {} THEN GetUndef(s) ELSE s
           same == IF Merged(s, p) = {} THEN s0.undef ELSE CHOOSE v \in Merged(s, p) : TRUE
       IN  IF s.val[p].dead \/ Cardinality(Merged(s, p)) > 1 THEN s
           ELSE AddUsers([s0 EXCEPT !.subst = (p :> same) @@ @, !.val[p].dead = TRUE],
                         same, UsersOf(s, p) \ {p})

\* A phi that merges at most one value is replaced by it, and its users are
\* looked at again.  The undefined value counts as an operand like any other.
RECURSIVE TryRemoveTrivial(_, _)
TryRemoveTrivial(s, worklist) ==
  IF worklist = {} THEN s
  ELSE LET p == CHOOSE p \in worklist : TRUE
           rest == worklist \ {p}
           s0 == IF Merged(s, p) = {} THEN GetUndef(s) ELSE s
           same == IF Merged(s, p) = {} THEN s0.undef ELSE CHOOSE v \in Merged(s, p) : TRUE
           us == UsersOf(s, p) \ {p}
       IN  IF s.val[p].dead \/ Cardinality(Merged(s, p)) > 1 THEN TryRemoveTrivial(s, rest)
           ELSE TryRemoveTrivial(
                  AddUsers([s0 EXCEPT !.subst = (p :> same) @@ @, !.val[p].dead = TRUE], same, us),
                  rest \cup {u \in us : ~ s.val[u].dead})

\* The operands of a phi are in: its users are registered, and it may go.
Complete(s, phi, ops) ==
  LET s1 == [s EXCEPT !.val[phi].args = ops]
      s2 == FoldLeft(LAMBDA r, o : AddUsers(r, Resolve(s1, o), {phi}), s1, ops)
  IN  TryRemoveTrivial(s2, {phi})

\* Reading t at the end of b.  chain holds the blocks with a single
\* predecessor that have been passed on the way.
RECURSIVE ReadVariable(_, _, _, _), Operands(_, _, _, _)
ReadVariable(s, t, b, chain) ==
  LET result(r, v) == [s |-> Write(r, t, ToSet(chain), v), v |-> v] IN
  IF <<t, b>> \in DOMAIN s.curDef THEN result(s, Resolve(s, s.curDef[<<t, b>>]))
  ELSE IF ~ s.sealed[b]
  THEN LET s1 == NewVal(s, "phi", b, t)
           phi == Len(s1.val)
       IN  result([Write(s1, t, {b}, phi) EXCEPT !.incomplete[b] = (t :> phi) @@ @], phi)
  ELSE IF Incoming(b) = <<>> THEN LET s1 == GetUndef(s) IN result(Write(s1, t, {b}, s1.undef), s1.undef)
  ELSE IF Len(Incoming(b)) = 1
  THEN IF b \in ToSet(chain) THEN result([s EXCEPT !.lost = TRUE], 0)
       ELSE ReadVariable(s, t, Incoming(b)[1], Append(chain, b))
  ELSE LET s1 == NewVal(s, "phi", b, t)
           phi == Len(s1.val)
           r == Operands(Write(s1, t, {b}, phi), t, Incoming(b), <<>>)
           s2 == Complete(r.s, phi, r.ops)
           v == Resolve(s2, phi)
       IN  result(Write(s2, t, {b}, v), v)

\* The operands of a phi for t, one for each edge.
Operands(s, t, preds, ops) ==
  IF Len(ops) = Len(preds) THEN [s |-> s, ops |-> ops]
  ELSE LET r == ReadVariable(s, t, preds[Len(ops) + 1], <<>>) IN Operands(r.s, t, preds, Append(ops, r.v))

\* All predecessors of b are filled: its incomplete phis get their operands.
Seal(s, b) ==
  LET fill(r, phi) == LET o == Operands(r, r.val[phi].temp, Incoming(b), <<>>) IN Complete(o.s, phi, o.ops)
  IN  FoldSet(LAMBDA phi, r : fill(r, phi), [s EXCEPT !.sealed[b] = TRUE, !.incomplete[b] = <<>>],
              {s.incomplete[b][t] : t \in DOMAIN s.incomplete[b]})

\* One operation of b.  refs keeps the value it defines or reads.
FillOp(s, b, o) ==
  LET r == IF o.op = "def" THEN LET s1 == NewVal(s, "def", b, o.to) IN [s |-> s1, v |-> Len(s1.val)]
           ELSE ReadVariable(s, o.from, b, <<>>)
      s2 == IF o.op = "use" THEN r.s ELSE Write(r.s, o.to, {b}, r.v)
  IN  [s2 EXCEPT !.refs[b] = Append(@, r.v)]

\* A block is filled, then the successors that waited for it alone are sealed.
FillBlock(s, b) ==
  LET s1 == FoldLeft(LAMBDA r, o : FillOp(r, b, o), s, code[b])
  IN  FoldSet(LAMBDA x, r : Seal(r, x), s1,
              {x \in ToSet(succs[b]) : ~ s1.sealed[x] /\ \A p \in Preds(x) : p <= b})

-----------------------------------------------------------------------------
(* Building.                                                               *)

Idle == [at |-> 0, steps |-> 0, temp |-> [t \in Temps |-> 0], env |-> <<>>, seen |-> <<>>]

Init ==
  /\ \E p \in Programs : succs = p.succs /\ code = p.code
  /\ ssa = [val |-> <<>>, subst |-> <<>>, users |-> <<>>, curDef |-> <<>>, undef |-> 0,
            sealed |-> [b \in Blocks |-> Preds(b) = {}],
            incomplete |-> [b \in Blocks |-> <<>>], refs |-> [b \in Blocks |-> <<>>], lost |-> FALSE]
  /\ next = 1
  /\ trace = Idle

Fill ==
  /\ next <= N
  /\ ssa' = FillBlock(ssa, next)
  /\ next' = next + 1
  /\ UNCHANGED <<succs, code, trace>>

Built == next = N + 1

-----------------------------------------------------------------------------
(* Running.  The outcome of a computation is named by the moment it ran;   *)
(* 0 is what a temporary holds that was never written, and what the        *)
(* undefined value stands for.                                             *)

Missing == 9999

\* The value number v, as the second execution knows it.
Known(env, v) ==
  LET r == Resolve(ssa, v) IN
  IF r = ssa.undef THEN 0 ELSE IF r \in DOMAIN env THEN env[r] ELSE Missing

\* The position among the operands of b of the k-th edge of u.
EdgeIndex(u, k) ==
  Cardinality({e \in {<<x, j>> : x \in 1..u, j \in 1..2} :
     /\ e[2] \in DOMAIN succs[e[1]] /\ succs[e[1]][e[2]] = succs[u][k]
     /\ e[1] < u \/ e[2] <= k})

\* The phis of b take the values their operands had on the edge, together.
EnterEdge(env, b, i) ==
  LET phis == {p \in DOMAIN ssa.val : ssa.val[p].op = "phi" /\ ssa.val[p].block = b /\ ~ ssa.val[p].dead}
  IN  [p \in phis |-> Known(env, ssa.val[p].args[i])] @@ env

\* The i-th operation of block b on both sides.
RunOp(r, b, i) ==
  LET o == code[b][i]
      v == ssa.refs[b][i]
      outcome == 10 * r.steps + i
  IN  CASE o.op = "def"  -> [r EXCEPT !.temp[o.to] = outcome, !.env = (v :> outcome) @@ @]
        [] o.op = "use"  -> [r EXCEPT !.seen = Append(@, <<r.temp[o.from], Known(r.env, v)>>)]
        [] o.op = "copy" -> [r EXCEPT !.temp[o.to] = r.temp[o.from]]

RunBlock(r, b) ==
  FoldLeft(LAMBDA x, i : RunOp(x, b, i), [r EXCEPT !.at = b, !.steps = @ + 1, !.seen = <<>>],
           [i \in DOMAIN code[b] |-> i])

Enter ==
  /\ Built /\ ~ ssa.lost /\ trace.at = 0
  /\ trace' = RunBlock(trace, 1)
  /\ UNCHANGED <<succs, code, ssa, next>>

Branch ==
  /\ trace.at # 0 /\ trace.steps < (N + MoreSteps)
  /\ \E k \in DOMAIN succs[trace.at] :
       LET b == succs[trace.at][k]
           e == [trace EXCEPT !.env = EnterEdge(@, b, EdgeIndex(trace.at, k))]
       IN  trace' = RunBlock(e, b)
  /\ UNCHANGED <<succs, code, ssa, next>>

Next == Fill \/ Enter \/ Branch

Spec == Init /\ [][Next]_vars

-----------------------------------------------------------------------------
(* Properties                                                              *)

Values == DOMAIN ssa.val
LivePhis == {p \in Values : ssa.val[p].op = "phi" /\ ~ ssa.val[p].dead}

\* Every variable has its type; a value is replaced by another one.
TypeOK ==
  /\ DOMAIN succs = Blocks /\ DOMAIN code = Blocks /\ next \in 1..(N + 1)
  /\ DOMAIN ssa.subst = {v \in Values : ssa.val[v].dead}
  /\ \A v \in DOMAIN ssa.subst : ssa.subst[v] \in Values \ {v}
  /\ \A k \in DOMAIN ssa.curDef : k \in Temps \X Blocks /\ ssa.curDef[k] \in Values
  /\ \A v \in DOMAIN ssa.users : ssa.users[v] \subseteq Values
  /\ trace.at \in 0..N /\ trace.steps \in 0..(N + MoreSteps)

\* Along every path, the values of SSA form agree with the temporaries they
\* replace: an operand is the definition that reached the use, of the same
\* iteration, and the undefined value exactly when there was none.
SameMeaning == \A i \in DOMAIN trace.seen : trace.seen[i][1] = trace.seen[i][2]

\* When the last block is filled every phi has an operand for each edge into
\* its block: nothing stays incomplete, whatever the order of the loops.
PhisMatchEdges ==
  Built => /\ \A b \in Blocks : ssa.sealed[b] /\ DOMAIN ssa.incomplete[b] = {}
           /\ \A p \in LivePhis : Len(ssa.val[p].args) = Len(Incoming(ssa.val[p].block))

\* Blocks reached from S without passing through x.
RECURSIVE ReachAvoiding(_, _)
ReachAvoiding(S, x) ==
  LET T == S \cup (UNION {ToSet(succs[b]) : b \in S} \ {x}) IN IF T = S THEN S ELSE ReachAvoiding(T, x)
Dominates(x, y) == x = y \/ x = 1 \/ y \notin ReachAvoiding({1}, x)
Reducible == \A u \in Blocks : \A v \in ToSet(succs[u]) : v <= u => Dominates(v, u)

\* The writes of t that may be the last when b ends (<<0, 0>>: none yet).
RECURSIVE OriginsFrom(_)
OriginsFrom(f) ==
  LET writes(b, t) == {i \in DOMAIN code[b] : code[b][i].op # "use" /\ code[b][i].to = t}
      g == [b \in Blocks |-> [t \in Temps |->
              IF writes(b, t) # {} THEN {<<b, CHOOSE i \in writes(b, t) : \A j \in writes(b, t) : j <= i>>}
              ELSE (IF b = 1 THEN {<<0, 0>>} ELSE {}) \cup UNION {f[p][t] : p \in Preds(b)}]]
  IN  IF g = f THEN f ELSE OriginsFrom(g)
Origins == OriginsFrom([b \in Blocks |-> [t \in Temps |-> {}]])

\* In a reducible graph phis are placed only where different writes meet.
PhisOnlyWhereWritesMeet ==
  Built /\ Reducible =>
    LET origins == Origins IN
    \A p \in LivePhis :
      Cardinality(UNION {origins[b][ssa.val[p].temp] : b \in Preds(ssa.val[p].block)}) >= 2

\* A read of a temporary that was never written yields the undefined value.
UndefWhenUnwritten ==
  ~ ssa.lost /\ \A i \in DOMAIN trace.seen : trace.seen[i][1] = 0 => trace.seen[i][2] = 0
=============================================================================
