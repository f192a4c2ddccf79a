------------------------------ MODULE Tracing ------------------------------
(***************************************************************************)
(* The front end: the visitor walks over the syntax tree of a callback     *)
(* once and emits the blocks of a control flow graph as it goes.  A context *)
(* is a block that is being filled together with the scope that holds      *)
(* where it ends; numbers known while compiling stay numbers, the others    *)
(* live in places.  Where contexts meet a number gets a place of its own   *)
(* and every one of them writes it; a reference cannot be merged.           *)
(*                                                                         *)
(* Then the source runs as Python runs it, and after it the blocks run on   *)
(* the same input.  todo is what is left of the recursion of the visitor.   *)
(***************************************************************************)
EXTENDS Integers, Sequences, FiniteSets, SequencesExt, Functions

CONSTANTS NameOrder,   \* the names a program may use
          Programs,    \* sequences of bodies; the first is the callback
          MaxInputs,   \* the unknown numbers a run may read
          MaxBlocks    \* the blocks a run may execute

VARIABLES program, todo, trace, code, python, machine, phase
vars == <<program, todo, trace, code, python, machine, phase>>

Names == ToSet(NameOrder)
Returned == "$return"
Yielded == "$yield"
Result == "$result"
Scoped == Names \cup {Returned, Yielded, Result}
ScopedOrder == NameOrder \o <<Returned, Yielded, Result>>
Rank(x) == CHOOSE i \in DOMAIN ScopedOrder : ScopedOrder[i] = x

\* Bindings: 0 is empty, Conflict is several at once, others are numbers of
\* bindings.  Default is the edge taken when no other one fits.
Conflict == -1
Default == -1
NoScope == [x \in Scoped |-> 0]
NoFrame == [heads |-> <<>>, continues |-> <<>>, breaks |-> <<>>, returns |-> <<>>, yields |-> <<>>, resumes |-> <<>>]

\* Values while compiling.  A number known to the compiler carries an identity.
Nothing == <<"none">>
Unbound == <<"unbound">>
At(p) == <<"at", p>>
Kind(v) == IF v[1] = "at" THEN "num" ELSE v[1]
Known(v) == v[1] = "num"

----------------------------------------------------------------------------
(* Contexts.                                                               *)

Context(scope, live) == [scope |-> scope, stmts |-> <<>>, test |-> <<"num", 0, 0>>, out |-> <<>>, live |-> live, loop |-> NoScope]
Ctx(g) == g.ctxs[g.cur]
Live(g) == Ctx(g).live
Fail(g) == [g EXCEPT !.error = TRUE]
Emit(g, c, s) == IF g.ctxs[c].live THEN [g EXCEPT !.ctxs[c].stmts = Append(@, s)] ELSE g
Put(g, s) == Emit(g, g.cur, s)
\* Appends a context; cond is the condition of the edge from c to it.
Disconnected(g, scope, live) == [g EXCEPT !.ctxs = Append(@, Context(scope, live)), !.cur = Len(g.ctxs) + 1]
Link(g, c, cond, d) == [g EXCEPT !.ctxs[c].out = (cond :> d) @@ @, !.twice = @ \/ cond \in DOMAIN g.ctxs[c].out]
BranchScoped(g, c, cond, scope) == Link(Disconnected(g, scope, g.ctxs[c].live), c, cond, Len(g.ctxs) + 1)
Branch(g, c, cond) == BranchScoped(g, c, cond, g.ctxs[c].scope)
IntoDead(g, c) == Disconnected(g, g.ctxs[c].scope, FALSE)

\* A value in a new place.
Stored(g, ir) == [g |-> Put([g EXCEPT !.places = @ + 1], <<"set", g.places + 1, ir>>), v |-> At(g.places + 1)]
Number(g, n) == [g |-> [g EXCEPT !.ids = @ + 1], v |-> <<"num", n, g.ids + 1>>]

\* Mutant: the name stays bound to the old value.
MutantBind(g, c, x, v) ==
  IF g.ctxs[c].scope[x] > 0 THEN [g EXCEPT !.binds[g.ctxs[c].scope[x]].value = v]
  ELSE [g EXCEPT !.binds = Append(@, [value |-> v, reads |-> 0]), !.ctxs[c].scope[x] = Len(g.binds) + 1]

Bind(g, c, x, v) ==
  [g EXCEPT !.binds = Append(@, [value |-> v, reads |-> 0]), !.ctxs[c].scope[x] = Len(g.binds) + 1]

ReadName(g, x) ==
  LET b == Ctx(g).scope[x]
  IN  IF b < 1 THEN [g |-> Fail(g), v |-> Nothing]
      ELSE [g |-> [g EXCEPT !.binds[b].reads = @ + 1], v |-> g.binds[b].value]

TheOnly(S) == CHOOSE v \in S : TRUE

\* What the scopes of the contexts cs become in the context t that follows
\* them.
ApplyMerge(g, t, cs) ==
  LET incoming == ToSet(cs)
      Sources(x) == {g.ctxs[c].scope[x] : c \in incoming}
      Source(c, x) == g.binds[g.ctxs[c].scope[x]]
      Values(x) == {Source(c, x).value : c \in incoming}
      same == {x \in Scoped : Cardinality(Sources(x)) = 1}
      bound == {x \in Scoped \ same : \A b \in Sources(x) : b > 0}
      equal == {x \in bound : Cardinality(Values(x)) = 1}
      joined == {x \in bound \ equal : {Kind(v) : v \in Values(x)} = {"num"}}
      Place(x) == g.places + Rank(x)
      order == SelectSeq(ScopedOrder, LAMBDA x : x \in joined)
      Sets(c) == [i \in DOMAIN order |-> <<"set", Place(order[i]), Source(c, order[i]).value>>]
      base == Len(g.binds)
      New(x) == IF x \in joined THEN At(Place(x)) ELSE IF x \in equal THEN TheOnly(Values(x)) ELSE Nothing
      read == {g.ctxs[c].scope[x] : c \in incoming, x \in joined}
  IN  [g EXCEPT
        !.places = @ + Len(ScopedOrder),
        !.binds = [b \in DOMAIN @ |-> [@[b] EXCEPT !.reads = @ + IF b \in read THEN 1 ELSE 0]]
                    \o [i \in DOMAIN ScopedOrder |-> [value |-> New(ScopedOrder[i]), reads |-> 0]],
        !.ctxs = [c \in DOMAIN @ |->
           IF c \in incoming THEN [@[c] EXCEPT !.stmts = @ \o Sets(c)]
           ELSE IF c = t THEN [@[c] EXCEPT !.scope = [x \in Scoped |->
                  IF x \in same THEN TheOnly(Sources(x))
                  ELSE IF x \in equal \cup joined THEN base + Rank(x) ELSE Conflict]]
           ELSE @[c]]]

\* Mutant: what is bound on a path that has ended counts as well.
MutantMeet(g, cs) ==
  LET live == SelectSeq(cs, LAMBDA c : g.ctxs[c].live)
  IN  IF live = <<>> THEN IntoDead(g, cs[1])
      ELSE IF Len(cs) = 1 THEN [g EXCEPT !.cur = cs[1]]
      ELSE LET t == Len(g.ctxs) + 1
               m == ApplyMerge(Disconnected(g, NoScope, TRUE), t, cs)
           IN  [m EXCEPT !.ctxs = [c \in DOMAIN @ |-> IF c \in ToSet(live) THEN [@[c] EXCEPT !.out = (Default :> t)] ELSE @[c]]]

\* The context that follows all of cs.
Meet(g, cs) ==
  LET live == SelectSeq(cs, LAMBDA c : g.ctxs[c].live)
  IN  IF live = <<>> THEN IntoDead(g, cs[1])
      ELSE IF Len(live) = 1 THEN [g EXCEPT !.cur = live[1], !.twice = @ \/ g.ctxs[live[1]].out # <<>>]
      ELSE LET t == Len(g.ctxs) + 1
               m == ApplyMerge(Disconnected(g, NoScope, TRUE), t, live)
           IN  [m EXCEPT !.ctxs = [c \in DOMAIN @ |-> IF c \in ToSet(live) THEN [@[c] EXCEPT !.out = (Default :> t)] ELSE @[c]],
                         !.twice = @ \/ \E c \in ToSet(live) : g.ctxs[c].out # <<>>]

\* The header of a loop: a number the loop writes gets a place that holds it
\* on every way into the header.
PrepareLoopHeader(g, writes) ==
  LET scope == Ctx(g).scope
      merged == {x \in writes : scope[x] > 0}
      Value(x) == g.binds[scope[x]].value
      numbers == {x \in merged : Kind(Value(x)) = "num"}
      Place(x) == g.places + Rank(x)
      order == SelectSeq(ScopedOrder, LAMBDA x : x \in numbers)
      base == Len(g.binds)
      filled == [g EXCEPT !.places = @ + Len(ScopedOrder),
                          !.ctxs[g.cur].stmts = @ \o [i \in DOMAIN order |-> <<"set", Place(order[i]), Value(order[i])>>],
                          !.binds = @ \o [i \in DOMAIN ScopedOrder |->
                             [value |-> LET x == ScopedOrder[i]
                                        IN  IF x \in numbers THEN At(Place(x)) ELSE IF x \in merged THEN Value(x) ELSE Nothing,
                              reads |-> 0]]]
      h == Branch(filled, g.cur, Default)
  IN  [h EXCEPT !.ctxs[h.cur].scope = [x \in Scoped |-> IF x \in merged THEN base + Rank(x) ELSE scope[x]],
                !.ctxs[h.cur].loop = [x \in Scoped |-> IF x \in merged THEN base + Rank(x) ELSE 0]]

\* The way back: every number is read before any of them is written.  A
\* reference that was bound anew is refused if the one of the header was read.
BranchToLoopHeader(g, h) ==
  IF ~Live(g) THEN g
  ELSE LET scope == Ctx(g).scope
           loop == {x \in Scoped : g.ctxs[h].loop[x] > 0}
           Header(x) == g.binds[g.ctxs[h].loop[x]]
           Value(x) == g.binds[scope[x]].value
           numbers == {x \in loop : Kind(Header(x).value) = "num"}
           Copy(x) == IF Known(Value(x)) THEN Value(x) ELSE At(g.places + Rank(x))
           order == SelectSeq(ScopedOrder, LAMBDA x : x \in numbers)
           unknown == SelectSeq(order, LAMBDA x : ~Known(Value(x)))
           reads == [i \in DOMAIN unknown |-> <<"set", Copy(unknown[i])[2], Value(unknown[i])>>]
           writes == [i \in DOMAIN order |-> <<"set", Header(order[i]).value[2], Copy(order[i])>>]
           rejected == \/ \E x \in loop : scope[x] < 1
                       \/ \E x \in numbers : Kind(Value(x)) # "num"
                       \/ \E x \in loop \ numbers : Value(x) # Header(x).value /\ Header(x).reads > 0
       IN  IF rejected THEN Fail(g)
           ELSE Link([g EXCEPT !.places = @ + Len(ScopedOrder), !.ctxs[g.cur].stmts = @ \o reads \o writes,
                               !.binds = [b \in DOMAIN @ |-> [@[b] EXCEPT !.reads = @ + IF \E x \in loop : scope[x] = b THEN 1 ELSE 0]],
                               !.twice = @ \/ Ctx(g).out # <<>>],
                     g.cur, Default, h)

----------------------------------------------------------------------------
(* Expressions.                                                            *)

\* A constant, a name, a name plus one, an unknown number, a field of a record.
Simple(g, e) ==
  CASE e[1] = "const" -> Number(g, e[2])
    [] e[1] = "input" -> Stored(g, <<"input">>)
    [] e[1] = "name" -> ReadName(g, e[2])
    [] e[1] = "next" -> LET r == ReadName(g, e[2])
                        IN  IF Known(r.v) THEN Number(r.g, r.v[2] + 1)
                            ELSE IF Kind(r.v) = "num" THEN Stored(r.g, <<"plus", r.v>>) ELSE [r EXCEPT !.g = Fail(@)]
    [] e[1] = "field" -> LET r == ReadName(g, e[2])
                         IN  IF Kind(r.v) = "box" THEN Stored(r.g, At(r.v[2])) ELSE [r EXCEPT !.g = Fail(@)]

\* The value of one of two expressions, each in the branch of its own.
BindResult(r) == Bind(r.g, r.g.cur, Result, r.v)
Chosen(g, test, whenTrue, whenFalse) ==
  LET one == BindResult(Simple(Branch([g EXCEPT !.ctxs[g.cur].test = test], g.cur, Default), whenTrue))
      two == BindResult(Simple(Branch(one, g.cur, 0), whenFalse))
  IN  ReadName(Meet(two, <<one.cur, two.cur>>), Result)

\* The second operand, when l is the first.
Either(l, e) ==
  LET saved == Bind(l.g, l.g.cur, Result, l.v)
  IN  IF l.g.error \/ Kind(l.v) # "num" THEN [l EXCEPT !.g = Fail(@)]
      ELSE IF Known(l.v)
           THEN CASE e[1] = "and" -> IF l.v[2] # 0 THEN Simple(l.g, e[3]) ELSE l
                  [] e[1] = "or" -> IF l.v[2] # 0 THEN l ELSE Simple(l.g, e[3])
                  [] OTHER -> Simple(l.g, IF l.v[2] # 0 THEN e[3] ELSE e[4])
           ELSE Chosen(saved, l.v, IF e[1] = "or" THEN <<"name", Result>> ELSE e[3],
                       CASE e[1] = "and" -> <<"const", 0>> [] e[1] = "or" -> e[3] [] OTHER -> e[4])
Short(g, e) == Either(Simple(g, e[2]), e)

\* A new record takes a copy of the number.
Boxed(r) == IF Kind(r.v) = "num" THEN [Stored(r.g, r.v) EXCEPT !.v = <<"box", @[2]>>] ELSE [r EXCEPT !.g = Fail(@)]
Box(g, e) == Boxed(Simple(g, e[2]))

Evaluate(g, e) ==
  CASE e[1] \in {"and", "or", "ifexp"} -> Short(g, e)
    [] e[1] = "box" -> Box(g, e)
    [] OTHER -> Simple(g, e)

\* The names a statement or a body writes, as far as scan_writes sees them.
\* A capture of a match is no name in the syntax tree.
StatementWrites(s) == IF s[1] \in {"let", "gen", "call", "next", "for", "forin"} THEN {s[2]} ELSE {}
Inside(s) ==
  CASE s[1] \in {"if", "while"} -> {s[3], s[4]}
    [] s[1] \in {"for", "forin"} -> {s[4], s[5]}
    [] s[1] = "match" -> {s[3][i].body : i \in DOMAIN s[3]}
    [] OTHER -> {}
Writes(p, bodies) ==
  LET W[b \in DOMAIN p] == UNION {StatementWrites(p[b][i]) \cup UNION {W[d] : d \in Inside(p[b][i])} : i \in DOMAIN p[b]}
  IN  UNION {W[b] : b \in bodies}

----------------------------------------------------------------------------
(* The visitor.  A task is the rest of a body, or what follows it.         *)

Init ==
  /\ program \in Programs
  /\ phase = "trace"
  /\ trace = [ctxs |-> <<Context(NoScope, TRUE)>>, binds |-> <<>>, places |-> 0, ids |-> 0, cur |-> 1, gens |-> <<>>,
              frame |-> NoFrame, generating |-> FALSE, error |-> FALSE, twice |-> FALSE]
  /\ todo = << <<"call", "", 1>> >>
  /\ code = <<>> /\ python = <<>> /\ machine = <<>>

Unstarted == UNCHANGED <<program, code, python, machine, phase>>
Body(b) == <<"body", b, 1>>
Task == Head(todo)
Statement == program[Task[2]][Task[3]]

\* The visitor is at a statement of this kind: what is left after it is Rest.
Visits(kind) ==
  /\ phase = "trace" /\ ~trace.error /\ todo # <<>> /\ Task[1] = "body"
  /\ Live(trace) /\ Task[3] <= Len(program[Task[2]]) /\ Statement[1] = kind
Finishes(task) == phase = "trace" /\ ~trace.error /\ todo # <<>> /\ Task[1] = task
Rest == <<[Task EXCEPT ![3] = @ + 1]>> \o Tail(todo)
Goes(g, tasks) == trace' = g /\ todo' = tasks /\ Unstarted

\* Statements after the context has died are not visited.
EndBody ==
  /\ Finishes("body")
  /\ ~Live(trace) \/ Task[3] > Len(program[Task[2]])
  /\ Goes(trace, Tail(todo))

VisitAssign ==
  /\ Visits("let")
  /\ \E r \in {Evaluate(trace, Statement[3])} : Goes(Bind(r.g, r.g.cur, Statement[2], r.v), Rest)

\* A field is written in place.
SetField ==
  /\ Visits("put")
  /\ LET r == ReadName(trace, Statement[2])
         v == Simple(r.g, Statement[3])
     IN  Goes(IF Kind(r.v) = "box" THEN Put(v.g, <<"set", r.v[2], v.v>>) ELSE Fail(r.g), Rest)

Log ==
  /\ Visits("log")
  /\ \E r \in {Evaluate(trace, Statement[2])} :
       Goes(IF Kind(r.v) = "num" THEN Put(r.g, <<"log", r.v>>) ELSE Fail(r.g), Rest)

\* Two branches on the test v, the first of them current.
TwoWays(g, v) ==
  LET yes == Branch([g EXCEPT !.ctxs[g.cur].test = v], g.cur, Default)
  IN  [Branch(yes, g.cur, 0) EXCEPT !.cur = yes.cur]

VisitIf ==
  /\ Visits("if")
  /\ \E r \in {Evaluate(trace, Statement[2])} : \E g \in {TwoWays(r.g, r.v)} :
       IF r.g.error \/ Kind(r.v) # "num" THEN Goes(Fail(r.g), Rest)
       ELSE IF Known(r.v) THEN Goes(r.g, <<Body(IF r.v[2] # 0 THEN Statement[3] ELSE Statement[4])>> \o Rest)
       ELSE Goes(g, <<Body(Statement[3]), <<"else", g.cur + 1, Statement[4]>> >> \o Rest)

Orelse ==
  /\ Finishes("else")
  /\ Goes([trace EXCEPT !.cur = Task[2]], <<Body(Task[3]), <<"meet", <<trace.cur>> >> >> \o Tail(todo))

Rejoin ==
  /\ Finishes("meet")
  /\ Goes(Meet(trace, Append(Task[2], trace.cur)), Tail(todo))

\* An unrolled loop has no header: what continues it is collected.
Unrolled == 0
EnterLoop(g, header) ==
  [g EXCEPT !.frame.heads = Append(@, header), !.frame.continues = Append(@, <<>>), !.frame.breaks = Append(@, <<>>)]
LeaveLoop(g) == [g EXCEPT !.frame.heads = Front(@), !.frame.continues = Front(@), !.frame.breaks = Front(@)]
Breaks(g) == Last(g.frame.breaks)

\* The loop with the header h, whose test is r.
Looping(h, r) ==
  LET g == TwoWays(r.g, r.v)
  IN  IF r.g.error \/ Kind(r.v) # "num" THEN Goes(Fail(r.g), Rest)
      ELSE IF Known(r.v) /\ r.v[2] = 0 THEN Goes(LeaveLoop(r.g), <<Body(Statement[4])>> \o Rest)
      ELSE IF Known(r.v) THEN Goes(Branch(r.g, r.g.cur, Default), <<Body(Statement[3]), <<"forever", h.cur>> >> \o Rest)
      ELSE Goes(g, <<Body(Statement[3]), <<"loop", h.cur, g.cur + 1, Statement[4]>> >> \o Rest)

VisitWhile ==
  /\ Visits("while")
  /\ \E h \in {PrepareLoopHeader(trace, Writes(program, {Statement[3], Statement[4]}))} :
     \E r \in {Simple(EnterLoop(h, h.cur), Statement[2])} : Looping(h, r)

\* The end of the body of a loop, and of its else clause.
EndLoop ==
  /\ Finishes("loop")
  /\ \E g \in {BranchToLoopHeader(trace, Task[2])} :
       Goes([LeaveLoop(g) EXCEPT !.cur = Task[3]], <<Body(Task[4]), <<"after", Breaks(g)>> >> \o Tail(todo))
AfterLoop ==
  /\ Finishes("after")
  /\ Goes(Meet(trace, <<trace.cur>> \o Task[2]), Tail(todo))
EndForever ==
  /\ Finishes("forever")
  /\ \E g \in {BranchToLoopHeader(trace, Task[2])} : \E dead \in {IntoDead(g, g.cur)} :
       Goes(Meet(LeaveLoop(dead), <<dead.cur>> \o Breaks(dead)), Tail(todo))

\* A loop over a tuple is unrolled.
VisitForTuple ==
  /\ Visits("for")
  /\ Goes(trace, << <<"each", Statement[3], Statement[2], Statement[4], <<>> >> >> \o Rest)
NextElement ==
  /\ Finishes("each") /\ Task[2] # <<>>
  /\ LET g == EnterLoop(Branch(trace, trace.cur, Default), Unrolled)
         n == Number(g, Head(Task[2]))
     IN  Goes(Bind(n.g, n.g.cur, Task[3], n.v), <<Body(Task[4]), <<"element", [Task EXCEPT ![2] = Tail(@)]>> >> \o Tail(todo))
EndElement ==
  /\ Finishes("element")
  /\ LET g == LeaveLoop(Meet(trace, Append(Last(trace.frame.continues), trace.cur)))
     IN  Goes(g, <<[Task[2] EXCEPT ![5] = @ \o Breaks(trace)]>> \o Tail(todo))
EndTuple ==
  /\ Finishes("each") /\ Task[2] = <<>>
  /\ Goes(IF Task[5] = <<>> THEN trace ELSE Meet(trace, Append(Task[5], trace.cur)), Tail(todo))

VisitBreak ==
  /\ Visits("break")
  /\ LET d == Len(trace.frame.breaks)
     IN  Goes(IntoDead([trace EXCEPT !.frame.breaks[d] = Append(@, trace.cur)], trace.cur), Rest)
VisitContinue ==
  /\ Visits("continue")
  /\ LET d == Len(trace.frame.heads)
         h == Last(trace.frame.heads)
         g == IF h # Unrolled THEN BranchToLoopHeader(trace, h) ELSE [trace EXCEPT !.frame.continues[d] = Append(@, trace.cur)]
     IN  Goes(IntoDead(g, trace.cur), Rest)
VisitReturn ==
  /\ Visits("return")
  /\ \E r \in {IF Statement[2] = <<>> THEN [g |-> trace, v |-> Nothing] ELSE Evaluate(trace, Statement[2])} :
     \E g \in {Bind(r.g, r.g.cur, Returned, r.v)} :
       Goes(IntoDead([g EXCEPT !.frame.returns = Append(@, g.cur)], g.cur), Rest)

----------------------------------------------------------------------------
(* Functions are inlined: a visitor of its own, a scope of its own.        *)

Enter(g, generating) ==
  LET start == BranchScoped(g, g.cur, Default, NoScope)
  IN  Bind([start EXCEPT !.frame = NoFrame, !.generating = @ \/ generating], start.cur, Returned, Nothing)
Suspended(g, name) == [before |-> g.cur, frame |-> g.frame, places |-> g.places, generating |-> g.generating, name |-> name]

VisitCall ==
  /\ Visits("call")
  /\ Goes(Enter(trace, FALSE), <<Body(Statement[3]), <<"called", Suspended(trace, Statement[2])>> >> \o Rest)

AfterCall(g, call, places) ==
  BranchScoped([g EXCEPT !.places = places, !.frame = call.frame, !.generating = call.generating],
               g.cur, Default, g.ctxs[call.before].scope)

\* The places of a function that returns nothing are free again, unless a
\* generator may still need them.
EndCall ==
  /\ Finishes("called")
  /\ LET call == Task[2]
     IN  \E r \in {ReadName(Meet(trace, Append(trace.frame.returns, trace.cur)), Returned)} :
         \E g \in {AfterCall(r.g, call, IF r.v = Nothing /\ ~trace.generating THEN call.places ELSE r.g.places)} :
           Goes(IF r.g.error THEN Fail(trace) ELSE IF call.name \in Names THEN Bind(g, g.cur, call.name, r.v) ELSE g, Tail(todo))

\* The callback itself: its number ends it.
StartCallback ==
  /\ Finishes("call")
  /\ Goes(Enter(trace, FALSE), <<Body(Task[3]), <<"callback", Suspended(trace, Task[2])>> >>)
EndCallback ==
  /\ Finishes("callback")
  /\ \E r \in {ReadName(Meet(trace, Append(trace.frame.returns, trace.cur)), Returned)} :
     \E g \in {BranchScoped(r.g, r.g.cur, Default, NoScope)} :
       Goes(IF r.g.error THEN Fail(trace) ELSE IF Kind(r.v) = "num" THEN Put(g, <<"log", r.v>>) ELSE g, <<>>)

----------------------------------------------------------------------------
(* Generators: a machine whose state says where the next call resumes.     *)

VisitGenerator ==
  /\ Visits("gen")
  /\ Goes(Enter(trace, TRUE), <<Body(Statement[3]), <<"generated", Suspended(trace, Statement[2]), Len(trace.ctxs) + 1>> >> \o Rest)

\* Mutant: the context where the next step resumes is not there.
MutantVisitYield ==
  /\ Visits("yield")
  /\ \E r \in {Evaluate(trace, Statement[2])} : \E g \in {Bind(r.g, r.g.cur, Yielded, r.v)} :
       Goes([g EXCEPT !.frame.yields = Append(@, g.cur), !.frame.resumes = Append(@, Len(g.ctxs) + 9)], Rest)

VisitYield ==
  /\ Visits("yield")
  /\ LET r == Evaluate(trace, Statement[2])
         g == Bind(r.g, r.g.cur, Yielded, r.v)
     IN  Goes([Disconnected(g, Ctx(g).scope, Live(g)) EXCEPT !.frame.yields = Append(@, g.cur), !.frame.resumes = Append(@, Len(g.ctxs) + 1)], Rest)

\* One context after each yield, which notes where to resume.
Between(g, state) ==
  LET yields == g.frame.yields
      n == Len(g.ctxs)
  IN  [g EXCEPT !.ctxs = [c \in DOMAIN @ |-> IF c \in ToSet(yields) THEN [@[c] EXCEPT !.out = (Default :> n + CHOOSE i \in DOMAIN yields : yields[i] = c)] ELSE @[c]]
                           \o [i \in DOMAIN yields |-> [Context(g.ctxs[yields[i]].scope, g.ctxs[yields[i]].live)
                                 EXCEPT !.stmts = IF g.ctxs[yields[i]].live THEN << <<"set", state, <<"num", i, 0>> >> >> ELSE <<>>]],
                !.twice = @ \/ \E c \in ToSet(yields) : g.ctxs[c].out # <<>>]

\* The entry of the machine goes to the start of the body or to where the
\* last step ended; the places are state, present and again.
Entered(g, back, state, call, start) ==
  LET before == g.ctxs[call.before]
      reset == Emit(Emit(g, call.before, <<"set", state, <<"num", 0, 0>> >>), back, <<"set", state + 1, <<"num", 0, 0>> >>)
      entry == Len(g.ctxs) + 1
      resumes == g.frame.resumes
  IN  [Disconnected([reset EXCEPT !.ctxs[call.before].out = <<>>], NoScope, before.live) EXCEPT
         !.ctxs[entry].test = At(state),
         !.ctxs[entry].out = [i \in 0..Len(resumes) |-> IF i = 0 THEN start ELSE resumes[i]] @@ (Default :> back)]
\* All the yields meet.
AllYields(g, entry, live) ==
  LET n == Len(g.frame.resumes)
  IN  IF n = 0 THEN Disconnected(g, NoScope, live) ELSE Meet(g, [i \in 1..n |-> entry + i])
\* The generator g.cur ends with, once it is met with the way that ends it.
Machined(g, call, entry, state, value) ==
  [g EXCEPT !.ctxs[g.cur].test = At(state + 2), !.cur = call.before, !.frame = call.frame, !.generating = call.generating,
            !.gens = Append(@, [entry |-> entry, exit |-> g.cur, again |-> state + 2, calls |-> 0,
                                present |-> IF value > 0 THEN At(state + 1) ELSE <<"num", 0, 0>>,
                                value |-> IF value > 0 THEN g.binds[value].value ELSE Nothing])]

EndGenerator ==
  /\ Finishes("generated")
  /\ LET call == Task[2]
         state == trace.places + 1
         live == trace.ctxs[call.before].live
     IN  \E r \in {ReadName(Meet([trace EXCEPT !.places = @ + 3], Append(trace.frame.returns, trace.cur)), Returned)} :
         \E entered \in {Entered(r.g, r.g.cur, state, call, Task[3])} :
         \E yielded \in {AllYields(Between(entered, state), entered.cur, live)} :
         \E value \in {yielded.ctxs[yielded.cur].scope[Yielded]} :
         \E exit \in {Meet(IF value > 0 THEN Put(yielded, <<"set", state + 1, <<"num", 1, 0>> >>) ELSE yielded, <<yielded.cur, r.g.cur>>)} :
         \E m \in {Machined(exit, call, entered.cur, state, value)} :
           Goes(IF r.g.error \/ r.v # Nothing \/ value = Conflict THEN Fail(trace)
                ELSE Bind(m, m.cur, call.name, <<"gen", Len(m.gens)>>), Tail(todo))

\* A call of next jumps into the machine, which knows by again where to return.
Resume(g, k) ==
  LET n == g.gens[k].calls
      c == g.cur
      after == Disconnected(Put(g, <<"set", g.gens[k].again, <<"num", n, 0>> >>), Ctx(g).scope, Live(g))
  IN  [Link(Link(after, c, Default, g.gens[k].entry), g.gens[k].exit, n, after.cur) EXCEPT !.gens[k].calls = @ + 1]

VisitNext ==
  /\ Visits("next")
  /\ \E r \in {ReadName(trace, Statement[3])} : LET g == Resume(r.g, r.v[2]) IN
       Goes(IF Kind(r.v) = "gen" /\ r.g.gens[r.v[2]].value # Nothing THEN Bind(g, g.cur, Statement[2], g.gens[r.v[2]].value) ELSE Fail(r.g), Rest)

\* The loop over the generator k, resumed in g.
LoopingOver(g, header, k) ==
  LET t == TwoWays(g, g.gens[k].present)
  IN  IF Known(g.gens[k].present) THEN Goes(LeaveLoop(g), <<Body(Statement[5])>> \o Rest)
      ELSE Goes(Bind(t, t.cur, Statement[2], g.gens[k].value),
                <<Body(Statement[4]), <<"loop", header, t.cur + 1, Statement[5]>> >> \o Rest)

VisitFor ==
  /\ Visits("forin")
  /\ \E r \in {ReadName(trace, Statement[3])} :
     \E h \in {PrepareLoopHeader(r.g, Writes(program, {Statement[4], Statement[5]}) \cup {Statement[2]})} :
       IF Kind(r.v) # "gen" THEN Goes(Fail(r.g), Rest)
       ELSE \E g \in {Resume(EnterLoop(h, h.cur), r.v[2])} : LoopingOver(g, h.cur, r.v[2])

----------------------------------------------------------------------------
(* Match: a case is a set of numbers or a capture, a guard, and a body.     *)

VisitMatch ==
  /\ Visits("match")
  /\ LET r == Simple(trace, Statement[2])
     IN  Goes(IF Kind(r.v) = "num" THEN r.g ELSE Fail(r.g), << <<"cases", r.v, Statement[3], <<>> >> >> \o Rest)

\* The contexts where a pattern of numbers fits, and the one where none does.
RECURSIVE Alternatives(_, _, _, _)
Alternatives(g, v, numbers, fits) ==
  IF numbers = <<>> \/ ~Live(g) THEN [g |-> g, fits |-> fits]
  ELSE IF Known(v)
       THEN IF v[2] = Head(numbers) THEN Alternatives(IntoDead(g, g.cur), v, Tail(numbers), Append(fits, g.cur))
            ELSE Alternatives(g, v, Tail(numbers), fits)
       ELSE LET t == Stored(g, <<"equal", v, Head(numbers)>>)
                yes == Branch([t.g EXCEPT !.ctxs[g.cur].test = t.v], g.cur, Default)
                no == Branch(yes, g.cur, 0)
            IN  Alternatives(no, v, Tail(numbers), Append(fits, yes.cur))

\* Where the pattern fits and where it does not.
Pattern(g, v, case) ==
  IF case.capture \in Names
  THEN LET b == Bind(g, g.cur, case.capture, v)
           d == IntoDead(b, b.cur)
       IN  [g |-> d, fits |-> b.cur, fails |-> d.cur]
  ELSE LET a == Alternatives(g, v, case.numbers, <<>>)
           dead == IntoDead(a.g, a.g.cur)
           m == IF a.fits = <<>> THEN dead ELSE Meet(a.g, a.fits)
       IN  [g |-> m, fits |-> m.cur, fails |-> a.g.cur]

VisitCase ==
  /\ Finishes("cases") /\ Task[3] # <<>> /\ Live(trace)
  /\ LET case == Head(Task[3])
         left == [Task EXCEPT ![3] = Tail(@)]
     IN  \E t \in {Pattern(trace, Task[2], case)} :
         \E guard \in {Simple([t.g EXCEPT !.cur = t.fits], case.guard)} :
         \E two \in {TwoWays(guard.g, guard.v)} :
         \E fails \in {Meet(two, <<t.fails, two.cur + 1>>)} :
           IF ~t.g.ctxs[t.fits].live THEN Goes([t.g EXCEPT !.cur = t.fails], <<left>> \o Tail(todo))
           ELSE IF Known(guard.v) /\ guard.v[2] # 0 THEN Goes(guard.g, <<Body(case.body), <<"case", left, t.fails>> >> \o Tail(todo))
           ELSE IF Known(guard.v) THEN Goes(Meet(guard.g, <<t.fits, t.fails>>), <<left>> \o Tail(todo))
           ELSE Goes([fails EXCEPT !.cur = two.cur], <<Body(case.body), <<"case", left, fails.cur>> >> \o Tail(todo))
EndCase ==
  /\ Finishes("case")
  /\ Goes([trace EXCEPT !.cur = Task[3]], <<[Task[2] EXCEPT ![4] = Append(@, trace.cur)]>> \o Tail(todo))
EndMatch ==
  /\ Finishes("cases") /\ (Task[3] = <<>> \/ ~Live(trace))
  /\ Goes(Meet(trace, Append(Task[4], trace.cur)), Tail(todo))

----------------------------------------------------------------------------
(* The end of the visitor.                                                 *)

\* The message of an error names the place in the source; no code is made.
Reject ==
  /\ phase = "trace" /\ trace.error
  /\ phase' = "rejected"
  /\ UNCHANGED <<program, todo, trace, code, python, machine>>

NoNames == [x \in Names |-> Unbound]
ContextToCfg ==
  /\ phase = "trace" /\ ~trace.error /\ todo = <<>>
  /\ phase' = "python"
  /\ code' = [c \in DOMAIN trace.ctxs |-> [stmts |-> trace.ctxs[c].stmts, test |-> trace.ctxs[c].test, out |-> trace.ctxs[c].out]]
  /\ \E inputs \in [1..MaxInputs -> {0, 1}] :
       /\ python' = [stack |-> << <<"body", 1, 1>>, <<"callback">> >>, env |-> NoNames, heap |-> <<>>, gens |-> <<>>,
                     log |-> <<>>, inputs |-> inputs, used |-> 0, status |-> "runs"]
       /\ machine' = [block |-> 1, cells |-> <<>>, log |-> <<>>, used |-> 0, blocks |-> 0, status |-> "runs"]
  /\ UNCHANGED <<program, todo, trace>>

----------------------------------------------------------------------------
(* What Python does with the source.  The stack holds what is left to do.   *)

Raise(p) == [p EXCEPT !.status = "raised"]
PySimple(p, e) ==
  LET held == p.env[e[2]]
      No == [p |-> Raise(p), v |-> Nothing]
  IN  CASE e[1] = "const" -> [p |-> p, v |-> <<"num", e[2]>>]
        [] e[1] = "input" -> IF p.used = MaxInputs THEN [p |-> [p EXCEPT !.status = "starved"], v |-> Nothing]
                             ELSE [p |-> [p EXCEPT !.used = @ + 1], v |-> <<"num", p.inputs[p.used + 1]>>]
        [] e[1] = "name" -> IF held = Unbound THEN No ELSE [p |-> p, v |-> held]
        [] e[1] = "next" -> IF held[1] # "num" THEN No ELSE [p |-> p, v |-> <<"num", held[2] + 1>>]
        [] e[1] = "field" -> IF held[1] # "box" THEN No ELSE [p |-> p, v |-> <<"num", p.heap[held[2]]>>]
PyEvaluate(p, e) ==
  LET l == PySimple(p, e[2])
      t == l.v # <<"num", 0>>
  IN  CASE e[1] = "and" -> IF l.p.status = "runs" /\ t THEN PySimple(l.p, e[3]) ELSE l
        [] e[1] = "or" -> IF l.p.status = "runs" /\ ~t THEN PySimple(l.p, e[3]) ELSE l
        [] e[1] = "ifexp" -> IF l.p.status = "runs" THEN PySimple(l.p, IF t THEN e[3] ELSE e[4]) ELSE l
        [] e[1] = "box" -> IF l.p.status # "runs" THEN l ELSE IF l.v[1] # "num" THEN [l EXCEPT !.p = Raise(@)] ELSE [l EXCEPT !.p.heap = Append(@, l.v[2]), !.v = <<"box", Len(l.p.heap) + 1>>]
        [] OTHER -> PySimple(p, e)

Push(p, frames) == [p EXCEPT !.stack = frames \o @]
\* The first frame of one of these kinds, where a jump lands.
Landing(p, kinds) == CHOOSE i \in DOMAIN p.stack : p.stack[i][1] \in kinds /\ \A j \in 1..i-1 : p.stack[j][1] \notin kinds
Loops == {"while", "each", "forin"}
Drop(p, n) == [p EXCEPT !.stack = SubSeq(@, n + 1, Len(@))]

\* The generator k is resumed for the statement s, or has ended.
Exhausted(p, s) == IF s[1] = "next" THEN Raise(p) ELSE Push(p, <<Body(s[5])>>)
PyResume(p, s, k) ==
  LET gen == p.gens[k]
  IN  IF gen.over THEN Exhausted(p, s)
      ELSE Push([p EXCEPT !.env = gen.env], gen.stack \o << <<"resumed", k, s, p.env>> >>)
PyYield(p, v) ==
  LET i == Landing(p, {"resumed"})
      f == p.stack[i]
      q == Drop([p EXCEPT !.gens[f[2]] = [stack |-> SubSeq(p.stack, 1, i - 1), env |-> p.env, over |-> FALSE],
                          !.env = (f[3][2] :> v) @@ f[4]], i)
  IN  IF f[3][1] = "next" THEN q ELSE Push(q, <<Body(f[3][4]), <<"forin", f[3], f[2]>> >>)
PyReturn(p, v) ==
  LET i == Landing(p, {"called", "resumed", "callback"})
      f == p.stack[i]
      q == Drop(p, i)
  IN  CASE f[1] = "called" -> [q EXCEPT !.env = (f[2] :> v) @@ f[3]]
        [] f[1] = "resumed" -> Exhausted([q EXCEPT !.gens[f[2]].over = TRUE, !.env = f[4]], f[3])
        [] OTHER -> [q EXCEPT !.log = IF v[1] = "num" THEN Append(@, v[2]) ELSE @, !.status = "done"]

\* A capture stays bound when the guard fails.
PyCase(p, cases, v) ==
  IF cases = <<>> THEN p
  ELSE LET c == Head(cases)
           bound == IF c.capture \in Names THEN [p EXCEPT !.env[c.capture] = v] ELSE p
           r == PySimple(bound, c.guard)
           later == << <<"cases", Tail(cases), v>> >>
       IN  IF c.capture \notin Names /\ v[2] \notin ToSet(c.numbers) THEN Push(p, later)
           ELSE IF r.p.status # "runs" THEN r.p
           ELSE IF r.v = <<"num", 0>> THEN Push(r.p, later) ELSE Push(r.p, <<Body(c.body)>>)

PyStatement(p, s) ==
  LET e == IF s[1] \in {"let", "put"} THEN s[3] ELSE s[2]
      r == PyEvaluate(p, e)
      named == p.env[s[3]]
  IN  CASE s[1] = "break" -> Drop(p, Landing(p, Loops))
        [] s[1] = "continue" -> Drop(p, Landing(p, Loops) - 1)
        [] s[1] = "while" -> Push(p, << <<"while", s>> >>)
        [] s[1] = "for" -> Push(p, << <<"each", s, s[3]>> >>)
        [] s[1] = "call" -> Push([p EXCEPT !.env = NoNames], <<Body(s[3]), <<"called", s[2], p.env>> >>)
        [] s[1] = "gen" -> [p EXCEPT !.gens = Append(@, [stack |-> <<Body(s[3])>>, env |-> NoNames, over |-> FALSE]),
                                     !.env[s[2]] = <<"gen", Len(p.gens) + 1>>]
        [] s[1] = "next" -> IF named[1] # "gen" THEN Raise(p) ELSE PyResume(p, s, named[2])
        [] s[1] = "forin" -> IF named[1] # "gen" THEN Raise(p) ELSE Push(p, << <<"forin", s, named[2]>> >>)
        [] s[1] = "return" /\ e = <<>> -> PyReturn(p, Nothing)
        [] OTHER -> IF r.p.status # "runs" THEN r.p
                    ELSE CASE s[1] = "let" -> [r.p EXCEPT !.env[s[2]] = r.v]
                           [] s[1] = "put" -> IF p.env[s[2]][1] # "box" THEN Raise(p) ELSE [r.p EXCEPT !.heap[p.env[s[2]][2]] = r.v[2]]
                           [] s[1] = "log" -> IF r.v[1] # "num" THEN Raise(p) ELSE [r.p EXCEPT !.log = Append(@, r.v[2])]
                           [] s[1] = "if" -> Push(r.p, <<Body(IF r.v # <<"num", 0>> THEN s[3] ELSE s[4])>>)
                           [] s[1] = "yield" -> PyYield(r.p, r.v)
                           [] s[1] = "return" -> PyReturn(r.p, r.v)
                           [] s[1] = "match" -> Push(r.p, << <<"cases", s[3], r.v>> >>)

\* One step: of a body, of a loop, of a match, or the end of a function.
PyStep(p) ==
  LET f == Head(p.stack)
      q == Drop(p, 1)
      r == PySimple(q, IF f[1] = "while" THEN f[2][2] ELSE <<"const", 0>>)
  IN  CASE f[1] = "body" -> IF f[3] > Len(program[f[2]]) THEN q
                            ELSE PyStatement(Push(q, <<[f EXCEPT ![3] = @ + 1]>>), program[f[2]][f[3]])
        [] f[1] = "while" -> IF r.p.status # "runs" THEN r.p
                             ELSE Push(r.p, IF r.v # <<"num", 0>> THEN <<Body(f[2][3]), f>> ELSE <<Body(f[2][4])>>)
        [] f[1] = "each" -> IF f[3] = <<>> THEN Push(q, <<Body(f[2][5])>>)
                            ELSE Push([q EXCEPT !.env[f[2][2]] = <<"num", Head(f[3])>>], <<Body(f[2][4]), [f EXCEPT ![3] = Tail(@)]>>)
        [] f[1] = "forin" -> PyResume(q, f[2], f[3])
        [] f[1] = "cases" -> PyCase(q, f[2], f[3])
        [] OTHER -> PyReturn(p, Nothing)

RunPython ==
  /\ phase = "python"
  /\ python' = PyStep(python)
  /\ phase' = IF python'.status = "runs" THEN phase ELSE "machine"
  /\ UNCHANGED <<program, todo, trace, code, machine>>

----------------------------------------------------------------------------
(* What the engine does with the blocks.  A place that was never written     *)
(* holds anything.                                                          *)

Garbage == 99
ValueOf(m, v) == IF v[1] = "num" THEN v[2] ELSE IF v[2] \in DOMAIN m.cells THEN m.cells[v[2]] ELSE Garbage
Computed(m, ir) ==
  CASE ir[1] = "plus" -> ValueOf(m, ir[2]) + 1
    [] ir[1] = "equal" -> IF ValueOf(m, ir[2]) = ir[3] THEN 1 ELSE 0
    [] ir[1] = "input" -> python.inputs[m.used + 1]
    [] OTHER -> ValueOf(m, ir)
RunStatement(m, s) ==
  IF s[1] = "log" THEN [m EXCEPT !.log = Append(@, ValueOf(m, s[2]))]
  ELSE IF s[3] = <<"input">> /\ m.used = MaxInputs THEN [m EXCEPT !.status = "starved"]
  ELSE [m EXCEPT !.cells = (s[2] :> Computed(m, s[3])) @@ @, !.used = IF s[3] = <<"input">> THEN @ + 1 ELSE @]
RunBlock(m) ==
  LET Ran[i \in 0..Len(code[m.block].stmts)] ==
        IF i = 0 THEN m ELSE CHOOSE q \in {IF p.status # "runs" THEN p ELSE RunStatement(p, code[m.block].stmts[i]) : p \in {Ran[i-1]}} : TRUE
      after == Ran[Len(code[m.block].stmts)]
      t == ValueOf(after, code[m.block].test)
      out == code[m.block].out
      taken == IF t \in DOMAIN out THEN t ELSE Default
  IN  IF after.status # "runs" THEN after
      ELSE IF taken \notin DOMAIN out THEN [after EXCEPT !.status = "done"]
      ELSE [after EXCEPT !.block = out[taken], !.blocks = @ + 1]

RunMachine ==
  /\ phase = "machine" /\ python.status # "raised"
  /\ machine.status = "runs" /\ machine.blocks < MaxBlocks
  /\ machine' = RunBlock(machine)
  /\ UNCHANGED <<program, todo, trace, code, python, phase>>

Visit ==
  \/ VisitAssign \/ SetField \/ Log \/ VisitIf \/ VisitWhile \/ VisitForTuple \/ VisitBreak \/ VisitContinue \/ VisitReturn
  \/ VisitCall \/ VisitGenerator \/ VisitYield \/ VisitNext \/ VisitFor \/ VisitMatch
Finish ==
  \/ EndBody \/ Orelse \/ Rejoin \/ EndLoop \/ AfterLoop \/ EndForever \/ NextElement \/ EndElement \/ EndTuple
  \/ StartCallback \/ EndCall \/ EndCallback \/ EndGenerator \/ VisitCase \/ EndCase \/ EndMatch
Next == Visit \/ Finish \/ Reject \/ ContextToCfg \/ RunPython \/ RunMachine
Spec == Init /\ [][Next]_vars

----------------------------------------------------------------------------
(* Properties.                                                             *)

\* The contexts, bindings and places of the visitor name each other.
TypeOK ==
  /\ phase \in {"trace", "rejected", "python", "machine"}
  /\ trace.cur \in DOMAIN trace.ctxs
  /\ \A c \in DOMAIN trace.ctxs :
       /\ \A x \in Scoped : trace.ctxs[c].scope[x] \in -1..Len(trace.binds) /\ trace.ctxs[c].loop[x] \in 0..Len(trace.binds)
       /\ \A w \in DOMAIN trace.ctxs[c].out : trace.ctxs[c].out[w] \in DOMAIN trace.ctxs
  /\ \A b \in DOMAIN trace.binds : Kind(trace.binds[b].value) \in {"num", "box", "gen", "none"}

\* A callback that compiles shows what Python shows, in the same order and on
\* the same input, and ends when Python ends: with the values of names at
\* joins, at loop headers, after calls, across the steps of a generator
\* (visitor.py and context.py as a whole).
SameLog ==
  phase = "machine" /\ python.status # "raised" =>
    /\ IsPrefix(machine.log, python.log)
    /\ machine.status # "runs" => machine.status = python.status /\ machine.log = python.log /\ machine.used = python.used
    /\ machine.blocks < MaxBlocks

UsesReference(s) ==
  \/ s[1] \in {"gen", "next", "forin", "put"}
  \/ s[1] = "let" /\ s[3][1] = "box"

\* A callback that only computes with numbers, all assigned before they are
\* used and returned on every path, is never refused, whatever its control
\* flow: merging may fail for references only (Scope.apply_merge,
\* Context.branch_to_loop_header).
NumbersAlwaysCompile ==
  phase = "rejected" => \/ Last(program[1])[1] # "return"
                        \/ \E b \in DOMAIN program : \E i \in DOMAIN program[b] : UsesReference(program[b][i])

\* No context is left twice on the same condition (the assertions of
\* Context.branch, meet and branch_to_loop_header).
LeftOnce == ~trace.twice
=============================================================================
