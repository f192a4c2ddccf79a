------------------------------ MODULE Emission -----------------------------
(***************************************************************************)
(* From the allocated control flow graph to the node table of an engine:   *)
(* _normalize_switch and fuse_rmw of sonolus/backend/_opt/lower.pyx, the   *)
(* emitter of sonolus/backend/_opt/emit.pyx, OutputNodeGenerator of        *)
(* sonolus/build/node.py; and the interpreter that says what the nodes     *)
(* mean, sonolus/backend/interpret.py.                                     *)
(*                                                                         *)
(* Each pass over a callback is one step.  Then the callback is run twice  *)
(* in step, block by block: the graph it came from, and the emitted jump   *)
(* loop, unfolded from the table.  Both draw the same numbers.             *)
(*                                                                         *)
(* An expression is a tree of nodes [f, v, args].  A place is the node     *)
(* "Place" of a block, perhaps an index, and the offset v; it is the first *)
(* argument of Get, Set and the fused operations.  Once emitted these have *)
(* the block and the address instead; with three components of the address *)
(* (offset, index, stride) they are what the code calls GetShifted and so  *)
(* on.  Numbers are counted in halves, so that some are not integral.      *)
(*                                                                         *)
(* Left out: the identity of interned nodes; 5 and 5.0, that the table     *)
(* does not tell apart; NaN; limits on the magnitude of cases; two edges   *)
(* with one case; operations that only compute something else.             *)
(***************************************************************************)
EXTENDS Trees, FiniteSetsExt, SequencesExt

CONSTANTS
  Callbacks,  \* callbacks tried: sequences of blocks [stmts, test, edges], an
              \* edge being [on, to], cases ascending and the default last
  Draws,      \* what Random may return
  Memory,     \* the memory at the start: a function from <<block, index>>
  MaxBlocks   \* bound on the blocks executed

VARIABLES
  source,  \* the callback as it came
  blocks,  \* the callback as it is
  phase,   \* what is done next
  root,    \* the emitted node
  table,   \* the nodes of the engine, in order
  run      \* the two executions: [at, pc, graph, engine, count]

vars == <<source, blocks, phase, root, table, run>>

Rom == 3000 * One
Integral(x) == x % One = 0

OnPlace(node) == node.args # <<>> /\ node.args[1].f = "Place"

Cases(edges) == {edges[i].on : i \in DOMAIN edges} \ {Default}
Target(edges, on) == (CHOOSE e \in ToSet(edges) : e.on = on).to
HasDefault(edges) == \E e \in ToSet(edges) : e.on = Default

-----------------------------------------------------------------------------
(* lower.pyx: switches over evenly spaced cases, and updates in place      *)

\* The greatest number that divides all of S.
Gcd(S) == Max({g \in 1..Max(S) : \A n \in S : n % g = 0})

Stride(cases) == Gcd({c - Min(cases) : c \in cases \ {Min(cases)}})
Span(cases) == (Max(cases) - Min(cases)) \div Stride(cases) + 1

\* A table of this span is no bigger than the list of cases and targets.
Dense(span, cases) == span <= 2 * Cardinality(cases)

Normalizable(edges) ==
  LET cases == Cases(edges)
  IN  /\ Cardinality(cases) + (IF HasDefault(edges) THEN 1 ELSE 0) >= 3
      /\ \A c \in cases : Integral(c)
      /\ Dense(Span(cases), cases)
      /\ ~ (Min(cases) = 0 /\ Stride(cases) = One)


\* Cases and test of a switch, moved to 0, 1, 2 and so on.
Normalized(block) ==
  LET low == Min(Cases(block.edges))
      step == Stride(Cases(block.edges))
      shifted == IF low = 0 THEN block.test ELSE Node("Subtract", <<block.test, Const(low)>>)
  IN  [block EXCEPT
         !.edges = [i \in DOMAIN @ |->
           IF @[i].on = Default THEN @[i] ELSE [@[i] EXCEPT !.on = One * ((@ - low) \div step)]],
         !.test = IF step = One THEN shifted ELSE Node("Divide", <<shifted, Const(step)>>)]

NormalizeSwitch ==
  /\ phase = "normalize" /\ phase' = "fuse"
  /\ blocks' = [b \in DOMAIN blocks |->
       IF Normalizable(blocks[b].edges) THEN Normalized(blocks[b]) ELSE blocks[b]]
  /\ UNCHANGED <<source, root, table, run>>

RECURSIVE Impure(_)
Impure(node) == node.f \in {"Random", "DebugLog"} \/ \E a \in ToSet(node.args) : Impure(a)

\* Structurally the same place, by _places_equal and _values_equal.
SamePlace(p, q) == p = q /\ ~ Impure(p)

Fusible == [Add |-> "SetAdd", Subtract |-> "SetSubtract", Multiply |-> "SetMultiply"]

\* Set(p, Get(p) + w) and the like become one operation.
Fused(s) ==
  IF /\ s.f = "Set"
     /\ s.args[2].f \in DOMAIN Fusible /\ Len(s.args[2].args) = 2
     /\ s.args[2].args[1].f = "Get" /\ SamePlace(s.args[2].args[1].args[1], s.args[1])
  THEN LET w == s.args[2].args[2] IN
       CASE s.args[2].f = "Add" /\ w = Const(One) -> Node("IncrementPost", <<s.args[1]>>)
         [] s.args[2].f = "Subtract" /\ w = Const(One) -> Node("DecrementPost", <<s.args[1]>>)
         [] OTHER -> Node(Fusible[s.args[2].f], <<s.args[1], w>>)
  ELSE s

\* A read that the rest of the update shares with it is not fused; which
\* instructions are shared is not part of the trees, so either may happen.
FuseRmw ==
  /\ phase = "fuse" /\ phase' = "emit"
  /\ \/ blocks' = [b \in DOMAIN blocks |-> [blocks[b] EXCEPT !.stmts = [i \in DOMAIN @ |-> Fused(@[i])]]]
     \/ UNCHANGED blocks
  /\ UNCHANGED <<source, root, table, run>>

-----------------------------------------------------------------------------
(* emit.pyx: values, places and statements                                 *)

\* Infinities are read from the engine ROM.
Numeric(n) ==
  IF n \in {Infinity, - Infinity}
  THEN Node("Get", <<Const(Rom), Const(IF n > 0 THEN One ELSE 2 * One)>>)
  ELSE Const(n)

\* Sums of sums and the like become one, on the left only.
Flattened(f, args) ==
  IF f \in {"Add", "Multiply"} /\ args[1].f = f
  THEN Node(f, args[1].args \o Tail(args)) ELSE Node(f, args)

\* Mutant: a product is taken for the index, and the offset is forgotten.
MutantShifted(offset, args) == <<Const(0)>> \o args
\* Offset, index and stride.
Shifted(offset, args) == <<Numeric(offset)>> \o args

Strided(index) == index.f = "Multiply" /\ Len(index.args) = 2

RECURSIVE Value(_)
Address(p) ==
  IF Len(p.args) = 1 THEN <<Numeric(p.v)>>
  ELSE LET index == p.args[2] IN
       CASE Strided(index) -> Shifted(p.v, <<Value(index.args[1]), Value(index.args[2])>>)
         [] ~ Strided(index) /\ index.f # "Add" /\ p.v # 0 -> Shifted(p.v, <<Value(index), Const(One)>>)
         [] index.f = "Add" /\ p.v # 0 -> <<Flattened("Add", <<Value(index), Numeric(p.v)>>)>>
         [] ~ Strided(index) /\ p.v = 0 -> <<Value(index)>>

Values(args) == [k \in DOMAIN args |-> Value(args[k])]
Value(node) ==
  CASE node.f = "Const" -> Numeric(node.v)
    [] OnPlace(node) ->
         Node(node.f, <<Value(node.args[1].args[1])>> \o Address(node.args[1]) \o Values(Tail(node.args)))
    [] OTHER -> Flattened(node.f, Values(node.args))

-----------------------------------------------------------------------------
(* emit.pyx: blocks                                                        *)

Entering(g, b) == {e \in UNION {{<<a, i>> : i \in DOMAIN g[a].edges} : a \in DOMAIN g} :
                     g[e[1]].edges[e[2]].to = b}

\* Empty last blocks with several ways in; these go to the end instead.
Elided(g) ==
  {b \in DOMAIN g \ {1} : g[b].edges = <<>> /\ g[b].stmts = <<>> /\ Cardinality(Entering(g, b)) >= 2}

\* Where the jump loop ends.
ExitIndex(g) == Len(g) - Cardinality(Elided(g))

\* Where a block comes in the jump loop.
IndexOf(g, b) == IF b \in Elided(g) THEN ExitIndex(g) ELSE Cardinality(1..(b - 1) \ Elided(g))

Goto(g, b) == Const(One * IndexOf(g, b))

Targets(g, edges, otherwise) ==
  [i \in 1..(Max(Cases(edges)) \div One + 1) |->
     IF One * (i - 1) \in Cases(edges) THEN Goto(g, Target(edges, One * (i - 1))) ELSE otherwise]

\* The list of cases and targets, any case will do.
Listed(g, block, otherwise) ==
  LET edges == SelectSeq(block.edges, LAMBDA e : e.on # Default)
  IN  Node("SwitchWithDefault",
        <<Value(block.test)>>
        \o FlattenSeq([i \in DOMAIN edges |-> <<Const(edges[i].on), Goto(g, edges[i].to)>>])
        \o <<otherwise>>)

Switch(g, block, otherwise) ==
  LET cases == Cases(block.edges)
  IN  IF /\ cases # {} /\ Min(cases) = 0 /\ \A c \in cases : Integral(c)
         /\ Dense(Max(cases) \div One + 1, cases)
      THEN Node("SwitchIntegerWithDefault",
             <<Value(block.test)>> \o Targets(g, block.edges, otherwise) \o <<otherwise>>)
      ELSE Listed(g, block, otherwise)

Otherwise(g, edges) ==
  IF HasDefault(edges) THEN Goto(g, Target(edges, Default)) ELSE Const(One * ExitIndex(g))

Terminator(g, block) ==
  LET cases == Cases(block.edges)
      otherwise == Otherwise(g, block.edges)
      only == CHOOSE c \in cases : TRUE
  IN  CASE cases = {} -> otherwise
        [] HasDefault(block.edges) /\ cases = {0} ->
             Node("If", <<Value(block.test), otherwise, Goto(g, Target(block.edges, 0))>>)
        [] HasDefault(block.edges) /\ Cardinality(cases) = 1 /\ cases # {0} ->
             Node("If", <<Node("Equal", <<Value(block.test), Numeric(only)>>),
                          Goto(g, Target(block.edges, only)), otherwise>>)
        [] OTHER -> Switch(g, block, otherwise)

EmittedBlock(g, b) == Node("Execute", Append(Values(g[b].stmts), Terminator(g, g[b])))

Emitted(g) ==
  LET kept == SelectSeq([b \in DOMAIN g |-> b], LAMBDA b : b \notin Elided(g))
  IN  Node("Block", <<Node("JumpLoop", Append([i \in DOMAIN kept |-> EmittedBlock(g, kept[i])], Const(0)))>>)

Emit ==
  /\ phase = "emit" /\ phase' = "register"
  /\ root' = Emitted(blocks)
  /\ UNCHANGED <<source, blocks, table, run>>

-----------------------------------------------------------------------------
(* build/node.py: each node once, after its arguments                      *)

Find(t, entry) == SelectInSeq(t, LAMBDA e : e = entry)

Appended(t, entry) == [t |-> Append(t, entry), at |-> Len(t) + 1]

\* The table with a node, and where the node is.
RECURSIVE Added(_, _)
Added(t, node) ==
  CHOOSE r \in
    {LET entry == [node EXCEPT !.args = a.args]
     IN  IF Find(a.t, entry) # 0 THEN [t |-> a.t, at |-> Find(a.t, entry)] ELSE Appended(a.t, entry) :
     a \in {FoldLeft(LAMBDA acc, arg :
                       CHOOSE n \in {[t |-> q.t, args |-> Append(acc.args, q.at)] : q \in {Added(acc.t, arg)}} : TRUE,
                     [t |-> t, args |-> <<>>], node.args)}} : TRUE

Register ==
  /\ phase = "register" /\ phase' = "run"
  /\ table' = Added(<<>>, root).t
  /\ UNCHANGED <<source, blocks, root, run>>

RECURSIVE Unfolded(_, _)
Unfolded(t, i) == [t[i] EXCEPT !.args = [k \in DOMAIN @ |-> Unfolded(t, @[k])]]

-----------------------------------------------------------------------------
(* interpret.py.  A state is [mem, draws, out, val, end]: end is "" as     *)
(* long as it runs, "break" after a result and "error" after an assertion; *)
(* "factor" after the assertion of a strided access that a plain one to    *)
(* the same cell does not make.                                            *)

Read(m, c) == IF c \in DOMAIN m.mem THEN m.mem[c] ELSE - One
Stored(m, c, x) == [m EXCEPT !.mem = [d \in DOMAIN @ \cup {c} |-> IF d = c THEN x ELSE @[d]], !.val = x]
Reduced(op(_, _), xs) == FoldLeft(op, Head(xs), Tail(xs))
\* An inexact quotient is some number that is not integral.
Quotient(x, y) == IF (x * One) % y = 0 THEN (x * One) \div y ELSE 1 + One * (x \div y)

Updates == [SetAdd |-> "Add", SetSubtract |-> "Subtract", SetMultiply |-> "Multiply"]
Operands(f) == IF f \in {"Get", "IncrementPost", "DecrementPost"} THEN 0 ELSE 1

Computed(f, xs) ==
  CASE f = "Add" -> Reduced(LAMBDA x, y : x + y, xs)
    [] f = "Subtract" -> Reduced(LAMBDA x, y : x - y, xs)
    [] f = "Multiply" -> Reduced(LAMBDA x, y : (x * y) \div One, xs)
    [] f = "Divide" -> Reduced(Quotient, xs)
    [] f = "Equal" -> IF xs[1] = xs[2] THEN One ELSE 0

\* Access of the cell that the first numbers are the address of.  Each of them
\* has to be whole, the index and the stride too and not only their product.
Access(f, xs, m) ==
  LET n == Len(xs) - Operands(f)
      index == IF n = 2 THEN xs[2] ELSE xs[2] + Computed("Multiply", <<xs[3], xs[4]>>)
      cell == <<xs[1] \div One, index \div One>>
  IN  IF ~ Integral(xs[1]) \/ ~ Integral(index) \/ index < 0 THEN [m EXCEPT !.end = "error"]
      ELSE IF \E i \in 1..n : ~ Integral(xs[i]) THEN [m EXCEPT !.end = "factor"]
      ELSE CASE f = "Get" -> [m EXCEPT !.val = Read(m, cell)]
             [] f = "Set" -> Stored(m, cell, Last(xs))
             [] f = "IncrementPost" -> Stored(m, cell, Read(m, cell) + One)
             [] f = "DecrementPost" -> Stored(m, cell, Read(m, cell) - One)
             [] f \in DOMAIN Updates -> Stored(m, cell, Computed(Updates[f], <<Read(m, cell), Last(xs)>>))

Apply(f, xs, m) ==
  CASE f = "Random" -> [m EXCEPT !.val = Head(m.draws), !.draws = Tail(@)]
    [] f = "DebugLog" -> [m EXCEPT !.out = Append(@, xs[1]), !.val = 0]
    [] f = "Break" -> [m EXCEPT !.end = "break", !.val = xs[2]]
    [] f \in {"Get", "Set", "IncrementPost", "DecrementPost"} \cup DOMAIN Updates -> Access(f, xs, m)
    [] OTHER -> [m EXCEPT !.val = Computed(f, xs)]

RECURSIVE Interpreted(_, _)
\* The arguments of a node, from left to right.
Arguments(args, m) ==
  FoldLeft(LAMBDA acc, arg :
             IF acc.m.end # "" THEN acc
             ELSE CHOOSE n \in {[m |-> q, xs |-> Append(acc.xs, q.val)] : q \in {Interpreted(arg, acc.m)}} : TRUE,
           [m |-> m, xs |-> <<>>], args)

\* The branch a switch or a condition takes.
Branch(node, x) ==
  LET args == node.args
      n == Len(args)
  IN  CASE node.f = "If" -> args[IF x # 0 THEN 2 ELSE 3]
        [] node.f = "SwitchIntegerWithDefault" ->
             IF 0 <= x /\ x < One * (n - 2) /\ Integral(x) THEN args[x \div One + 2] ELSE args[n]
        [] node.f = "SwitchWithDefault" ->
             LET same == {i \in 1..((n - 2) \div 2) : args[2 * i].v = x}
             IN  IF same = {} THEN args[n] ELSE args[2 * Min(same) + 1]

Branching == {"If", "SwitchIntegerWithDefault", "SwitchWithDefault"}

Interpreted(node, m) ==
  CASE m.end # "" -> m
    [] m.end = "" /\ node.f = "Const" -> [m EXCEPT !.val = node.v]
    [] m.end = "" /\ node.f \in Branching ->
         CHOOSE r \in {IF q.end = "" THEN Interpreted(Branch(node, q.val), q) ELSE q :
                       q \in {Interpreted(node.args[1], m)}} : TRUE
    [] m.end = "" /\ node.f \notin Branching \cup {"Const"} ->
         CHOOSE r \in {IF a.m.end # "" THEN a.m
                       ELSE IF node.f = "Execute" THEN a.m ELSE Apply(node.f, a.xs, a.m) :
                       a \in {Arguments(node.args, m)}} : TRUE

-----------------------------------------------------------------------------
(* The two executions                                                      *)

\* What a place means: the cell at the index plus the offset.
RECURSIVE Plain(_)
Plain(node) ==
  IF OnPlace(node)
  THEN LET p == node.args[1]
           offset == Const(p.v)
           index == IF Len(p.args) = 1 THEN offset
                    ELSE IF p.v = 0 THEN Plain(p.args[2])
                    ELSE Node("Add", <<Plain(p.args[2]), offset>>)
       IN  Node(node.f, <<Plain(p.args[1]), index>> \o [k \in 1..(Len(node.args) - 1) |-> Plain(node.args[k + 1])])
  ELSE [node EXCEPT !.args = [k \in DOMAIN @ |-> Plain(@[k])]]

RECURSIVE Randoms(_)
Randoms(node) ==
  (IF node.f = "Random" THEN 1 ELSE 0) + FoldLeft(LAMBDA n, a : n + Randoms(a), 0, node.args)

Start == [mem |-> Memory, draws |-> <<>>, out |-> <<>>, val |-> 0, end |-> ""]
Done == 0

\* The next block of the graph: the edge with this case, the default, or none.
Followed(edges, x) ==
  IF x \in Cases(edges) THEN Target(edges, x)
  ELSE IF HasDefault(edges) THEN Target(edges, Default) ELSE Done

\* A block of the graph with these draws.
GraphBlock(block, m, draws) ==
  LET body == Node("Execute", Append([i \in DOMAIN block.stmts |-> Plain(block.stmts[i])], Plain(block.test)))
  IN  Interpreted(body, [m EXCEPT !.draws = draws])

Init ==
  /\ source \in Callbacks /\ blocks = source
  /\ phase = "normalize"
  /\ root = Const(0) /\ table = <<>>
  /\ run = [at |-> 1, pc |-> 0, graph |-> Start, engine |-> Start, count |-> 0]

JumpLoop == Unfolded(table, Len(table)).args[1].args

\* One block of the graph and one round of the jump loop.
Step ==
  /\ phase = "run" /\ run.at # Done /\ run.count < MaxBlocks
  /\ run.graph.end = "" /\ run.engine.end = ""
  /\ \E draws \in [1..Randoms(Node("Execute", Append(source[run.at].stmts, source[run.at].test))) -> Draws] :
     \E g \in {GraphBlock(source[run.at], run.graph, draws)} :
     \E e \in {Interpreted(JumpLoop[run.pc + 1], [run.engine EXCEPT !.draws = draws])} :
       run' = [at |-> IF g.end = "" THEN Followed(source[run.at].edges, g.val) ELSE Done,
               pc |-> IF e.end = "" /\ run.pc + 1 < Len(JumpLoop) THEN e.val \div One ELSE run.pc,
               graph |-> g, engine |-> e, count |-> run.count + 1]
  /\ UNCHANGED <<source, blocks, phase, root, table>>

Next == NormalizeSwitch \/ FuseRmw \/ Emit \/ Register \/ Step

Spec == Init /\ [][Next]_vars

-----------------------------------------------------------------------------
(* Properties                                                              *)

\* The passes and the executions keep their shape.
TypeOK ==
  /\ phase \in {"normalize", "fuse", "emit", "register", "run"}
  /\ Len(blocks) = Len(source)
  /\ run.at \in DOMAIN source \cup {Done} /\ run.pc \in 0..Len(source)
  /\ run.graph.end \in {"", "break", "error"} /\ run.engine.end \in {"", "break", "error", "factor"}
  /\ \A i \in DOMAIN table : ToSet(table[i].args) \subseteq 1..(i - 1)

\* The engine does what the callback said: the same memory, log, draws and
\* result after each block, an error where it has one, and the jump loop is at
\* the block's place; up to a strided access whose index or stride is not whole
\* although their product is (ShiftedIsPlain).
SameExecution ==
  LET g == run.graph
      e == run.engine
  IN  e.end # "factor" =>
        /\ e.end = g.end /\ e.mem = g.mem /\ e.out = g.out
        /\ g.end # "error" => e.draws = g.draws
        /\ g.end = "break" => e.val = g.val
        /\ phase = "run" /\ g.end = "" =>
             run.pc = IF run.at = Done THEN ExitIndex(source) ELSE IndexOf(source, run.at)

\* The table holds the emitted tree, each node of it once, and the root last.
TableIsTheTree ==
  table # <<>> => Unfolded(table, Len(table)) = root /\ IsInjective(table)

-----------------------------------------------------------------------------
(* What a comment of the code says and the code does not do.               *)

\* "{Get,Set}Shifted(block, offset, index, stride) == {get,set}(block, offset +
\* index*stride)" (emit.pyx): a block that runs does so in the engine too.
ShiftedIsPlain == run.graph.end # "error" => run.engine.end \notin {"error", "factor"}
=============================================================================
