----------------------------- MODULE IfConversion -----------------------------
(***************************************************************************)
(* Branches become conditional expressions: _IfConv and _if_convert_run of *)
(* sonolus/backend/_opt/lower.pyx, followed by the decisions of _Lower     *)
(* (module Lower) on what is computed where.  Then the program and its     *)
(* result run on the same inputs.                                          *)
(*                                                                         *)
(* A block that branches in two ways to one join, each way directly or     *)
(* through a block of its own that only computes, takes over what those    *)
(* blocks compute, and chooses with one If per phi of the join.  The       *)
(* result must compute such values inside of the If only: it folds them    *)
(* (FLAG_MUST_FOLD), whatever their cost.                                  *)
(*                                                                         *)
(* Programs are those of module Lower, with the condition of each edge,    *)
(* when, and in an instruction the number val and the flag must.  The      *)
(* operations that compute are "pure" there; fun says which one it is:     *)
(*   sum, less, equal   of two numbers                                     *)
(*   inverse            of a number that is not zero                       *)
(*   if                 the conditional expression                         *)
(*                                                                         *)
(* Left out: values whose cost is looked up before it is known             *)
(* (rtc_memo), which only makes fewer conversions; sharing of places in    *)
(* the new arena; _ssa_undef, which is always empty.                       *)
(***************************************************************************)
EXTENDS Integers, FiniteSetsExt, SequencesExt

CONSTANTS
  Branchings,  \* the programs converted
  ArmBudget,   \* IFCONV_ARM_BUDGET
  Memories,    \* what the memory holds at first
  Patience     \* bound on the blocks executed

VARIABLES
  origin,   \* the program
  now,      \* what it is now
  stage,    \* "convert", "lower", "run"
  decided,  \* the decisions on values, see Lower
  pair      \* the two executions: records [at, env, memory, clock, shown, failed]

vars == <<origin, now, stage, decided, pair>>

L == INSTANCE Lower WITH Jobs <- Branchings, MaxSteps <- Patience, job <- now, plan <- decided, run <- pair

Otherwise == -1  \* the condition of the unconditional edge

-----------------------------------------------------------------------------
(* What is converted.                                                      *)

Count(v) == Cardinality(L!Uses(v))

\* Known before the program runs, found within n steps.
Rtc(v) ==
  LET known[u \in L!Ids, n \in 0..now.fold] ==
        /\ n > 0
        /\ \/ L!Op(u) \in {"const", "given"}
           \/ L!Op(u) = "pure" /\ \A a \in ToSet(L!Args(u)) : known[a, n - 1]
  IN  known[v, now.fold]

\* What it costs to compute v on the way through the blocks in arm.
ArmCost(v, arm) ==
  LET cost[u \in L!Ids] ==
        IF Rtc(u) \/ L!Op(u) = "const" THEN 1
        ELSE IF L!BlockOf(u) \notin arm THEN 3
        ELSE 1 + FoldLeft(LAMBDA sum, a : sum + cost[a], 0, L!Args(u))
  IN  cost[v]

ArmLegalOp(v) == L!Op(v) = "pure"

\* Block s does nothing but compute what is used once, on the only way from
\* p, over e, to its only successor.
IsArm(s, p, e) ==
  /\ s # p
  /\ L!Incoming(s) = <<e>>
  /\ Len(now.succs[s]) = 1 /\ now.when[s][1] = Otherwise
  /\ L!Phis(s) = {}
  /\ \A v \in L!In(s) : L!Op(v) = "const" \/ (ArmLegalOp(v) /\ Count(v) <= 1)

\* The way from p over e: the blocks on it, and the edge into the join.
Side(e, p) ==
  LET s == L!Target(e)
  IN  IF IsArm(s, p, e) THEN [arm |-> {s}, last |-> <<s, 1>>] ELSE [arm |-> {}, last |-> e]

TwoWay(p) ==
  /\ now.test[p] # 0 /\ Len(now.succs[p]) = 2
  /\ \E k \in 1..2 : now.when[p][k] # Otherwise /\ now.when[p][3 - k] = Otherwise

\* The branch at p: the way taken if the test holds, and the other one.  The
\* test is for the number of the case, or for a number that is not 0.
Branch(p) ==
  LET k == CHOOSE k \in 1..2 : now.when[p][k] # Otherwise
      case == Side(<<p, k>>, p)
      other == Side(<<p, 3 - k>>, p)
      holds == now.when[p][k] # 0
  IN  [head |-> p, case |-> now.when[p][k], join |-> L!Target(case.last), other |-> L!Target(other.last),
       yes |-> IF holds THEN case ELSE other, no |-> IF holds THEN other ELSE case, arms |-> case.arm \cup other.arm]

\* What phi gets over the last edge of a way.
Given(phi, side) == L!Args(phi)[L!EdgePos(side.last)]

\* Branch c may be converted.
Converts(c) ==
  /\ c.join = c.other /\ c.join # c.head
  /\ {c.head, c.join} \cap c.arms = {} /\ c.yes.arm \cap c.no.arm = {}
  /\ \A phi \in L!Phis(c.join) : \A side \in {c.yes, c.no} : ArmCost(Given(phi, side), side.arm) <= ArmBudget

\* The branches converted together have no block in common; the first in the
\* order of the blocks wins.
Plan ==
  LET claims(c) == {c.head, c.join} \cup c.arms
      free(plan, c) == Converts(c) /\ \A d \in plan : claims(c) \cap claims(d) = {}
      take(plan, p) == plan \cup {c \in {Branch(q) : q \in {r \in {p} : TwoWay(r)}} : free(plan, c)}
  IN  FoldLeft(take, {}, [b \in L!Blocks |-> b])

-----------------------------------------------------------------------------
(* The program with the conversions in plan.  Its instructions have names  *)
(* first: <<"old", v>>, <<"case", p>> and <<"eq", p>> for a head p that    *)
(* compares, <<"sel", phi>>.                                               *)

Ascending(S) == SelectSeq([n \in 1..Max(S \cup {0}) |-> n], LAMBDA n : n \in S)
Named(tag, S) == LET s == Ascending(S) IN [k \in DOMAIN s |-> <<tag, s[k]>>]

\* The branch at b, and the one that joins at b: none or one of plan.
At(plan, b) == {c \in plan : c.head = b}
Joining(plan, b) == {c \in plan : c.join = b}

\* The blocks that are kept, and the edges out of each, with the edge they were.
Shape(plan) ==
  LET kept == Ascending(L!Blocks \ UNION {c.arms : c \in plan})
      same(b) == [n \in DOMAIN now.succs[b] |-> [was |-> {<<b, n>>}, to |-> now.succs[b][n], when |-> now.when[b][n]]]
      one(c) == <<[was |-> {}, to |-> c.join, when |-> Otherwise]>>
  IN  [kept |-> kept,
       out |-> [k \in DOMAIN kept |-> IF At(plan, kept[k]) = {} THEN same(kept[k])
                                       ELSE one(CHOOSE c \in At(plan, kept[k]) : TRUE)]]

\* The edges into block b afterwards, in order.
Into(shape, b) == SelectSeq(FlattenSeq(shape.out), LAMBDA e : e.to = b)

\* The phis that only have their If left.
Collapsed(plan, shape) ==
  {v \in UNION {L!Phis(c.join) : c \in plan} : Len(Into(shape, L!BlockOf(v))) = 1}

\* The instructions of the program, with the place of their block.
Layout(plan, shape) ==
  LET adds(c) ==
        FlattenSeq([k \in 1..2 |-> Named("old", UNION {L!In(a) : a \in <<c.yes.arm, c.no.arm>>[k]})])
          \o (IF c.case = 0 THEN <<>> ELSE << <<"case", c.head>>, <<"eq", c.head>> >>)
          \o Named("sel", L!Phis(c.join))
      names(b) == Named("old", L!In(b) \ Collapsed(plan, shape))
                    \o FlattenSeq([k \in 1..Cardinality(At(plan, b)) |-> adds(CHOOSE c \in At(plan, b) : TRUE)])
  IN  FlattenSeq([k \in DOMAIN shape.kept |-> LET s == names(shape.kept[k]) IN [n \in DOMAIN s |-> <<s[n], k>>]])

\* Mutant: what an arm computes is not marked.
MutantMust(plan, v) == now.ins[v].must

\* The value of v must be folded: it is from an arm, or was from one before.
Must(plan, v) ==
  now.ins[v].must \/ (L!Op(v) = "pure" /\ Count(v) = 1 /\ \E c \in plan : L!BlockOf(v) \in c.arms)

\* The operands of phi v for the edges that are left: from a converted branch
\* comes its If.  sub gives the values their names.
PhiOperands(v, shape, sub) ==
  LET edges == Into(shape, L!BlockOf(v))
      from(e) == L!Args(v)[L!EdgePos(CHOOSE x \in e.was : TRUE)]
  IN  [k \in DOMAIN edges |-> IF edges[k].was = {} THEN [name |-> <<"sel", v>>] ELSE [name |-> sub[from(edges[k])]]]

\* The instruction called name; its operands are names yet.
Instruction(name, plan, shape, sub) ==
  LET made(fun, args) == [op |-> "pure", fun |-> fun, val |-> 0, args |-> [k \in DOMAIN args |-> [name |-> args[k]]], must |-> FALSE]
      v == name[2]
      c == CHOOSE c \in Joining(plan, L!BlockOf(v)) : TRUE
      old == [op |-> L!Op(v), fun |-> now.ins[v].fun, val |-> now.ins[v].val, must |-> Must(plan, v),
              args |-> IF L!Op(v) = "phi" THEN PhiOperands(v, shape, sub)
                       ELSE [k \in DOMAIN L!Args(v) |-> [name |-> sub[L!Args(v)[k]]]]]
      test == IF c.case = 0 THEN sub[now.test[c.head]] ELSE <<"eq", c.head>>
  IN  CASE name[1] = "old"  -> old
        [] name[1] = "case" -> [op |-> "const", fun |-> "none", args |-> <<>>, must |-> FALSE,
                                val |-> (CHOOSE d \in At(plan, v) : TRUE).case]
        [] name[1] = "eq"   -> made("equal", <<sub[now.test[v]], <<"case", v>> >>)
        [] name[1] = "sel"  -> made("if", <<test, sub[Given(v, c.yes)], sub[Given(v, c.no)]>>)

\* The program the parts make.
Assembled(plan, shape, rows, sub) ==
  LET index(name) == CHOOSE n \in DOMAIN rows : rows[n][1] = name
      place(b) == CHOOSE k \in DOMAIN shape.kept : shape.kept[k] = b
      instr(n) == LET i == Instruction(rows[n][1], plan, shape, sub)
                  IN  [op |-> i.op, fun |-> i.fun, val |-> i.val, must |-> i.must, block |-> rows[n][2],
                       args |-> [k \in DOMAIN i.args |-> index(i.args[k].name)]]
  IN  [now EXCEPT !.succs = [k \in DOMAIN shape.kept |-> [n \in DOMAIN shape.out[k] |-> place(shape.out[k][n].to)]],
                  !.when = [k \in DOMAIN shape.kept |-> [n \in DOMAIN shape.out[k] |-> shape.out[k][n].when]],
                  !.ins = [n \in DOMAIN rows |-> instr(n)],
                  !.test = [k \in DOMAIN shape.kept |->
                              IF now.test[shape.kept[k]] = 0 \/ At(plan, shape.kept[k]) # {} THEN 0
                              ELSE index(sub[now.test[shape.kept[k]]])]]

\* The names values have afterwards: a collapsed phi is its If.
Names(plan, shape) ==
  [v \in L!Ids |-> IF v \in Collapsed(plan, shape) THEN <<"sel", v>> ELSE <<"old", v>>]

Built(plan) ==
  CHOOSE g \in {Assembled(plan, shape, Layout(plan, shape), Names(plan, shape)) : shape \in {Shape(plan)}} : TRUE
-----------------------------------------------------------------------------
(* Execution of program g; what is in K is computed where it stands and    *)
(* kept in env, anything else where it is used.                            *)

Failure == -1000

Compute(i, a) ==
  CASE i.fun = "sum"     -> a[1] + a[2]
    [] i.fun = "less"    -> IF a[1] < a[2] THEN 1 ELSE 0
    [] i.fun = "equal"   -> IF a[1] = a[2] THEN 1 ELSE 0
    [] i.fun = "inverse" -> IF a[1] = 0 THEN Failure ELSE 7 - a[1]

\* What v gives when it is computed in state r, together with the values it uses.
Tree(g, K, r, v) ==
  LET tree[u \in DOMAIN g.ins] ==
        LET i == g.ins[u]
            operand(k) == IF g.ins[i.args[k]].op = "phi" \/ i.args[k] \in K THEN r.env[i.args[k]] ELSE tree[i.args[k]]
            \* Operands are computed in order, and one that fails ends it all.
            failing == \E k \in DOMAIN i.args : operand(k) = Failure
        IN  CASE i.op = "const" -> i.val
              [] i.op = "load" -> IF i.args # <<>> /\ operand(1) \notin 0..3 THEN Failure ELSE r.memory
              [] i.op \in {"given", "fixed"} -> i.val
              [] i.op \in {"draw", "call"} -> (i.val + r.clock) % 3
              [] i.op = "store" -> operand(1)
              [] i.op = "pure" /\ i.fun = "if" ->
                   IF operand(1) = Failure THEN Failure ELSE IF operand(1) # 0 THEN operand(2) ELSE operand(3)
              [] OTHER -> IF failing THEN Failure ELSE Compute(i, [k \in DOMAIN i.args |-> operand(k)])
  IN  IF g.ins[v].op = "phi" THEN r.env[v] ELSE tree[v]

Kept(g, K, r, v) == IF v \in K \/ g.ins[v].op = "phi" THEN r.env[v] ELSE Tree(g, K, r, v)

\* Instruction v in its place: effects and draws advance the clock.
Perform(g, K, r, v) ==
  LET i == g.ins[v]
      x == Tree(g, K, r, v)
      put == [r EXCEPT !.env[v] = x, !.failed = @ \/ x = Failure]
      args == [k \in DOMAIN i.args |-> Kept(g, K, r, i.args[k])]
      acts == [put EXCEPT !.clock = @ + 1, !.failed = @ \/ Failure \in ToSet(args),
                          !.shown = Append(@, <<i.val>> \o args)]
  IN  IF r.failed \/ (v \notin K /\ i.op # "store") \/ i.op = "phi" THEN r
      ELSE CASE i.op = "store" -> [acts EXCEPT !.memory = x]
             [] i.op = "call"  -> [acts EXCEPT !.memory = 1 - @]
             [] i.op = "draw"  -> [put EXCEPT !.clock = @ + 1]
             [] OTHER -> put

\* The edge taken out of block b, none at the end.
Taken(g, b, n) ==
  LET on(w) == {k \in DOMAIN g.succs[b] : g.when[b][k] = w}
  IN  IF g.test[b] # 0 /\ on(n) # {} THEN on(n) ELSE on(Otherwise)

OneBlock(g, K, r) ==
  LET b == r.at
      code == Ascending({v \in DOMAIN g.ins : g.ins[v].block = b})
      done == FoldLeft(LAMBDA q, v : CHOOSE x \in {Perform(g, K, y, v) : y \in {q}} : TRUE, r, code)
      tested == IF g.test[b] = 0 THEN 0 ELSE Kept(g, K, done, g.test[b])
      ways == Taken(g, b, tested)
      k == CHOOSE k \in ways : TRUE
      to == g.succs[b][k]
      \* The edges into that block before this one.
      pos == 1 + Cardinality({e \in UNION {{c} \X DOMAIN g.succs[c] : c \in DOMAIN g.succs} :
                                g.succs[e[1]][e[2]] = to /\ (e[1] < b \/ (e[1] = b /\ e[2] < k))})
      phis == {v \in DOMAIN g.ins : g.ins[v].op = "phi" /\ g.ins[v].block = to}
      copied == [done EXCEPT !.at = to,
                   !.env = [v \in DOMAIN @ |-> IF v \in phis THEN Kept(g, K, done, g.ins[v].args[pos]) ELSE @[v]]]
  IN  IF r.at = 0 THEN r
      ELSE IF done.failed \/ tested = Failure THEN [done EXCEPT !.at = 0, !.failed = TRUE]
      ELSE IF ways = {} THEN [done EXCEPT !.at = 0]
      ELSE IF \E v \in phis : copied.env[v] = Failure THEN [copied EXCEPT !.at = 0, !.failed = TRUE]
      ELSE copied

Execution(g, K, m) ==
  FoldLeft(LAMBDA r, n : CHOOSE x \in {OneBlock(g, K, y) : y \in {r}} : TRUE,
           [at |-> 1, env |-> [v \in DOMAIN g.ins |-> 0], memory |-> m, clock |-> 0, shown |-> <<>>, failed |-> FALSE],
           [n \in 1..Patience |-> n])
-----------------------------------------------------------------------------
NotRun == <<>>
Init == origin \in Branchings /\ now = origin /\ stage = "convert" /\ decided = <<>> /\ pair = NotRun

\* One batch of conversions (_if_convert_once).
Convert ==
  /\ stage = "convert"
  /\ \E plan \in {Plan} : plan # {} /\ now' = Built(plan)
  /\ UNCHANGED <<origin, stage, decided, pair>>

ConvertsNothing ==
  /\ stage = "convert" /\ Plan = {}
  /\ stage' = "lower"
  /\ UNCHANGED <<origin, now, decided, pair>>

Treeify == stage = "lower" /\ L!Decide /\ UNCHANGED <<origin, stage>>

Run ==
  /\ stage = "lower" /\ L!Decided
  /\ stage' = "run"
  /\ \E m \in Memories :
       pair' = <<Execution(origin, DOMAIN origin.ins, m), Execution(now, {v \in L!Ids : decided[v].how = "temp"}, m)>>
  /\ UNCHANGED <<origin, now, decided>>

Next == Convert \/ ConvertsNothing \/ Treeify \/ Run

Spec == Init /\ [][Next]_vars

-----------------------------------------------------------------------------
(* Properties                                                              *)

TypeOK ==
  /\ stage \in {"convert", "lower", "run"}
  /\ DOMAIN now.test = L!Blocks /\ DOMAIN now.when = L!Blocks
  /\ \A b \in L!Blocks : DOMAIN now.when[b] = DOMAIN now.succs[b] /\ ToSet(now.succs[b]) \subseteq L!Blocks
  /\ \A v \in L!Ids : ToSet(L!Args(v)) \subseteq L!Ids /\ L!BlockOf(v) \in L!Blocks
  /\ Len(decided) \in 0..Len(now.ins)

\* The converted program shows what the program shows, and nothing fails that
\* did not: a value that a branch guards is computed under its If only, and
\* at a moment when it gives the same.
SelectsAreGuarded ==
  stage = "run" /\ pair[1].at = 0 /\ ~ pair[1].failed =>
    pair[2].at = 0 /\ ~ pair[2].failed /\ pair[2].shown = pair[1].shown

\* What lowering asserts of the values it must fold (lower.pyx:1075): they
\* have one use, also after later conversions, and it is not by a phi.
MustFoldsAreSingle ==
  stage # "run" => \A v \in L!Ids : now.ins[v].must => Count(v) = 1 /\ ~ L!UsedByPhi(v)

\* Folding without regard to the cap stays within the cap and the budget.
TreesStayBounded ==
  stage = "run" =>
    LET folded(a) == decided[a].how = "fold"
        height[v \in L!Ids] == 1 + Max({0} \cup {IF folded(a) THEN height[a] ELSE 1 : a \in ToSet(L!Args(v))})
    IN  \A v \in L!Ids : L!Op(v) # "phi" => height[v] <= now.fold + ArmBudget + 1
=============================================================================
