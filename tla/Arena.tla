------------------------------- MODULE Arena -------------------------------
(***************************************************************************)
(* The arena of the optimizer (Func of sonolus/backend/_opt/ir.pyx) and    *)
(* all that carries programs into it, through it and out of it: marshal    *)
(* in, the rebuild at the end of the CFG cleanup, the three rebuilders of  *)
(* the SSA passes (_compact, _build_compacted, _emit_from_model), the      *)
(* naive way out of SSA (_UnSSA), and marshal out.  Each of them numbers   *)
(* all values anew: nothing it refers to may be lost, doubled or mixed up. *)
(*                                                                         *)
(* A program of the front end is a sequence of blocks [stmts, test, out]   *)
(* of trees, "out" the set of edges <<on, block>>, where on is <<n>> for   *)
(* case n and <<>> for the rest.  In an arena an instruction names its     *)
(* operands by number, and edges are in order:                             *)
(*   ins     sequence of [op, flags, args, at, n, block]                   *)
(*   blocks  sequence of [first, count, phis, test]                        *)
(*   edges   sequence of [src, dst, on]                                    *)
(* Pools of constants, places and temporaries are left out: an instruction *)
(* holds what it would find there.  An opmap or a list of operands of a    *)
(* phi is a function of edges.                                             *)
(*                                                                         *)
(* Left out: the buffers and their growth, the limits of 16 and 32 bits on *)
(* counts and offsets, the fused operations, that appear after allocation, *)
(* and _ssa_undef, which stays empty (midend.pyx:1352).                    *)
(***************************************************************************)
EXTENDS Integers, TLC, FiniteSetsExt, SequencesExt

CONSTANTS
  TreePrograms, \* programs of the front end: [blocks, chains], where chains maps
                \* each block to the blocks the cleanup merged it with, in order
  Graphs,     \* functions as the SSA builder leaves them
  Members,    \* the blocks of memory the mode knows: id |-> [writable, named]
  FirstOdd,   \* the numbers from this one on are not integers
  MaxChoices  \* bound on the choices a program makes

VARIABLES
  given,   \* what is carried: [kind, program]
  stage,   \* how far it came
  arena,   \* the arena it is in
  order,   \* the blocks still to be marshalled
  out,     \* the program of trees that came out
  runs     \* both executed in step

carried == <<given, stage, arena, order, out, runs>>

Fold(op(_, _), base, s) == FoldLeft(LAMBDA w, x : CHOOSE r \in {op(y, x) : y \in {w}} : TRUE, base, s)

-----------------------------------------------------------------------------
(* Trees                                                                    *)

Const(n) == [k |-> "const", n |-> n]
Op(op, args) == [k |-> op, args |-> args]
At(base, index, off) == [k |-> "place", base |-> base, index |-> index, off |-> off, exact |-> FALSE]
Get(place) == [k |-> "get", place |-> place]
Put(place, value) == [k |-> "set", place |-> place, value |-> value]

Effects == {"StreamSet", "DebugLog"}
Draws == {"Random", "RandomInteger"}
Impure == Effects \cup Draws
LeftFolds == {"Add", "Multiply", "Mod", "Rem"}
Integral(n) == n < FirstOdd

\* The flags of an instruction.
FlagsOf(op) ==
  IF op \in Effects THEN {"pinned", "effect"} ELSE IF op \in Draws THEN {"pinned"} ELSE {"pure"}
RootSet == {"effect", "pinned", "root"}
Flagged(n) == {"pure"} \cup (IF Integral(n) THEN {"int"} ELSE {})

NoPlace == [base |-> <<"none">>, index |-> 0, off |-> 0, flags |-> {}]
Ins(op, flags, args, at, n, b) == [op |-> op, flags |-> flags, args |-> args, at |-> at, n |-> n, block |-> b]

\* Whether the callback may write the block of memory m.
Writable(m) == m \notin DOMAIN Members \/ Members[m].writable

\* What the optimizer is told about a place: base as in the tree, index 0 if
\* the address is known.
PlaceFlags(base, index) ==
  IF base[1] # "block" THEN {"writable"}
  ELSE IF base[3] = "pointer" THEN {}
  ELSE (IF Writable(base[2]) THEN {"writable"} ELSE {})
         \cup (IF base[3] = "enum" THEN {"enum"} ELSE {})
         \cup (IF index = 0 /\ ~ Writable(base[2]) /\ Members[base[2]].named THEN {"known"} ELSE {})

-----------------------------------------------------------------------------
(* Marshal in.  Code(t, n, b) is the code of a tree that follows number n.  *)

\* Mutant: any constant index is taken for an integer.
MutantFixed(p) == ~ p.exact /\ p.index.k = "const"

\* The pointer and the index that make a place; an integer is no index but is
\* added to the offset.
Fixed(p) == ~ p.exact /\ p.index.k = "const" /\ Integral(p.index.n)
Addressed(p) == (IF p.base[1] = "value" THEN <<p.base[2]>> ELSE <<>>) \o (IF Fixed(p) THEN <<>> ELSE <<p.index>>)

\* What is computed first.  An operation of many operands is done from the
\* left; a store has its value before its place.
OperandsOf(t) ==
  CASE t.k = "const" -> <<>>
    [] t.k = "get"   -> Addressed(t.place)
    [] t.k = "place" -> Addressed(t)
    [] t.k = "set"   -> <<t.value>> \o Addressed(t.place)
    [] t.k \in LeftFolds /\ Len(t.args) > 2 -> <<Op(t.k, Front(t.args)), Last(t.args)>>
    [] OTHER -> t.args

\* The place p where ids are the values it is made from.
Located(p, ids) ==
  LET base == IF p.base[1] = "value" THEN <<"value", Head(ids)>> ELSE p.base
      index == IF Fixed(p) THEN 0 ELSE Last(ids)
  IN  [base |-> base, index |-> index, flags |-> PlaceFlags(base, index),
       off |-> p.off + (IF Fixed(p) THEN p.index.n ELSE 0)]

\* The last instruction for a tree, given the values of its operands.
Topmost(t, ids, b) ==
  CASE t.k = "const" -> Ins("const", Flagged(t.n), <<>>, NoPlace, t.n, b)
    [] t.k = "get"   -> Ins("get", {"pinned"}, <<>>, Located(t.place, ids), 0, b)
    [] t.k = "place" -> Ins("get", {"pinned"}, <<>>, Located(t, ids), 0, b)
    [] t.k = "set"   -> Ins("set", RootSet, <<ids[1]>>, Located(t.place, Tail(ids)), 0, b)
    [] OTHER         -> Ins(t.k, FlagsOf(t.k), ids, NoPlace, 0, b)

RECURSIVE Code(_, _, _)
Code(t, n, b) ==
  LET c == Fold(LAMBDA w, u : LET all == w.code \o Code(u, n + Len(w.code), b)
                              IN  [code |-> all, ids |-> Append(w.ids, n + Len(all))],
                [code |-> <<>>, ids |-> <<>>], OperandsOf(t))
  IN  Append(c.code, Topmost(t, c.ids, b))

\* A statement is a root.
Rooted(code) == [code EXCEPT ![Len(code)].flags = @ \cup {"root"}]

-----------------------------------------------------------------------------
(* Edges, and the order of blocks: reverse postorder from block 1, where    *)
(* cases come in ascending order and the rest last.                         *)

Before(x, y) == x # <<>> /\ (y = <<>> \/ x[1] < y[1])
Sorted(edges) == SetToSortSeq(edges, LAMBDA e, f : Before(e[1], f[1]))
Targets(edges) == [k \in DOMAIN edges |-> edges[k][2]]

RECURSIVE Visit(_, _, _)
Visit(succs, w, b) ==
  LET done == Fold(LAMBDA v, d : IF d \in v.seen THEN v ELSE Visit(succs, v, d),
                   [w EXCEPT !.seen = @ \cup {b}], succs[b])
  IN  [done EXCEPT !.post = Append(@, b)]

Rpo(succs) == Reverse(Visit(succs, [seen |-> {}, post |-> <<>>], 1).post)
Position(s, x) == CHOOSE k \in DOMAIN s : s[k] = x

RpoOfSource(blocks) == Rpo([b \in DOMAIN blocks |-> Targets(Sorted(blocks[b].out))])

\* The slice of the arena that belongs to block b.
In(a, b) == [k \in 1..a.blocks[b].count |-> a.blocks[b].first + k - 1]
Slice(a, b) == ToSet(In(a, b))
OutOf(a, b) == SelectSeq([e \in DOMAIN a.edges |-> e], LAMBDA e : a.edges[e].src = b)
Into(a, b) == SelectSeq([e \in DOMAIN a.edges |-> e], LAMBDA e : a.edges[e].dst = b)

Nothing == [ins |-> <<>>, blocks |-> <<>>, edges |-> <<>>, ssa |-> FALSE]

\* Block b of the arena gets statements, a test (none: <<>>) and edges.
AddBlock(a, stmts, test, edges) ==
  LET b == Len(a.blocks) + 1
      n == Len(a.ins)
      body == Fold(LAMBDA w, s : w \o Rooted(Code(s, n + Len(w), b)), <<>>, stmts)
      code == IF test = <<>> THEN body ELSE body \o Code(test[1], n + Len(body), b)
  IN  [a EXCEPT !.ins = @ \o code,
                !.blocks = Append(@, [first |-> n + 1, count |-> Len(code), phis |-> 0,
                                      test |-> IF test = <<>> THEN 0 ELSE n + Len(code)]),
                !.edges = @ \o [k \in DOMAIN edges |-> [src |-> b, dst |-> edges[k][2], on |-> edges[k][1]]]]

-----------------------------------------------------------------------------
(* Marshal out.                                                             *)

RECURSIVE TreeOf(_, _, _)

\* Scalars and arrays are named anew, in the order in which they are touched.
Touched(a) ==
  LET used == SelectSeq(a.ins, LAMBDA i : i.op \in {"get", "set"} /\ i.at.base[1] = "temp")
  IN  Fold(LAMBDA names, i : IF i.at.base \in ToSet(names) THEN names ELSE Append(names, i.at.base), <<>>, used)

\* The place of an instruction as a tree; names says what temporaries are called.
PlaceOf(a, names, at) ==
  LET base == CASE at.base[1] = "temp"  -> names[at.base]
                [] at.base[1] = "block" -> <<"block", at.base[2], IF "enum" \in at.flags THEN "enum" ELSE "raw">>
                [] at.base[1] = "value" -> <<"value", TreeOf(a, names, at.base[2])>>
  IN  IF at.index = 0 THEN At(base, Const(at.off), 0) ELSE At(base, TreeOf(a, names, at.index), at.off)

TreeOf(a, names, v) ==
  LET i == a.ins[v] IN
  CASE i.op = "const" -> Const(i.n)
    [] i.op = "get"   -> Get(PlaceOf(a, names, i.at))
    [] OTHER          -> Op(i.op, [k \in DOMAIN i.args |-> TreeOf(a, names, i.args[k])])

StatementOf(a, names, v) ==
  LET i == a.ins[v] IN
  IF i.op = "set" THEN Put(PlaceOf(a, names, i.at), TreeOf(a, names, i.args[1])) ELSE TreeOf(a, names, v)

Roots(a, b) == SelectSeq(In(a, b), LAMBDA v : "root" \in a.ins[v].flags)

Named(a) ==
  [t \in ToSet(Touched(a)) |-> <<"temp", <<"v", Position(Touched(a), t)>>, t[3]>>]

Exported(a) ==
  LET names == Named(a) IN
  [b \in DOMAIN a.blocks |->
     [stmts |-> [k \in DOMAIN Roots(a, b) |-> StatementOf(a, names, Roots(a, b)[k])],
      test |-> IF a.blocks[b].test = 0 THEN Const(0) ELSE TreeOf(a, names, a.blocks[b].test),
      out |-> {<<a.edges[e].on, a.edges[e].dst>> : e \in ToSet(OutOf(a, b))}]]

-----------------------------------------------------------------------------
(* The rebuild after the cleanup: the trees of merged blocks one after the  *)
(* other, the test of the last one if it is still needed.                   *)

\* Trees are copied from arena to arena under their old names.
Kept(a) == [t \in ToSet(Touched(a)) |-> t]

HeadOf(chains, b) == CHOOSE h \in DOMAIN chains : b \in ToSet(chains[h])

Rebuilt(a, chains) ==
  LET last(h) == chains[h][Len(chains[h])]
      edges(h) == {<<a.edges[e].on, HeadOf(chains, a.edges[e].dst)>> : e \in ToSet(OutOf(a, last(h)))}
      rpo == Rpo([h \in DOMAIN chains |-> Targets(Sorted(edges(h)))])
      stmts(h) == FlattenSeq([k \in DOMAIN chains[h] |->
                    [r \in DOMAIN Roots(a, chains[h][k]) |-> StatementOf(a, Kept(a), Roots(a, chains[h][k])[r])]])
      tested(h) == (\E e \in edges(h) : e[1] # <<>>) /\ a.blocks[last(h)].test # 0
      test(h) == IF tested(h) THEN <<TreeOf(a, Kept(a), a.blocks[last(h)].test)>> ELSE <<>>
      onward(h) == [k \in DOMAIN Sorted(edges(h)) |->
                      <<Sorted(edges(h))[k][1], Position(rpo, Sorted(edges(h))[k][2])>>]
  IN  Fold(LAMBDA w, h : AddBlock(w, stmts(h), test(h), onward(h)), Nothing, rpo)

-----------------------------------------------------------------------------
(* SSA form.  A layout says which instructions each block gets, in order;   *)
(* ins holds them under their old names, and new[v] is what v became.       *)

Laid(code, ins, new, tests, edges) ==
  LET all == FlattenSeq(code)
      place == [v \in ToSet(all) |-> Position(all, v)]
      number(v) == place[new[v]]
      phis(b) == SelectSeq(code[b], LAMBDA v : ins[v].op = "phi")
      before(b) == FoldLeft(LAMBDA n, c : n + Len(c), 0, SubSeq(code, 1, b - 1))
      moved(at) == [at EXCEPT !.base = IF @[1] = "value" THEN <<"value", number(@[2])>> ELSE @,
                              !.index = IF @ = 0 THEN 0 ELSE number(@)]
      instr(b, v) == [ins[v] EXCEPT !.args = [k \in DOMAIN @ |-> number(@[k])], !.at = moved(@), !.block = b]
  IN  [ins |-> FlattenSeq([b \in DOMAIN code |-> [k \in DOMAIN code[b] |-> instr(b, code[b][k])]]),
       blocks |-> [b \in DOMAIN code |-> [first |-> before(b) + 1, count |-> Len(code[b]), phis |-> Len(phis(b)),
                                          test |-> IF tests[b] = 0 THEN 0 ELSE number(tests[b])]],
       edges |-> edges, ssa |-> TRUE]

\* What the builder leaves: values in no order, some of them dead, and phis
\* that stand for another value ("to").
Listed(g, b) ==
  LET alive(v) == v \notin g.dead IN
  (IF b = 1 /\ g.undef # 0 THEN <<g.undef>> ELSE <<>>)
    \o SelectSeq(g.phis[b], alive) \o SelectSeq(g.values[b], alive)
Final(g) == LET end[v \in DOMAIN g.ins] == IF v \in DOMAIN g.to THEN end[g.to[v]] ELSE v IN end

Compact(g) == Laid([b \in DOMAIN g.phis |-> Listed(g, b)], g.ins, Final(g), g.test, g.edges)

\* Edges between the blocks listed in order: those that spec has for each of
\* them, with the key its phis know them by.
Wired(order_, spec) ==
  FlattenSeq([k \in DOMAIN order_ |-> [j \in DOMAIN spec[order_[k]] |->
    LET e == spec[order_[k]][j] IN [src |-> k, dst |-> Position(order_, e.dst), on |-> e.on, key |-> e.key]]])
Unkeyed(edges) == [e \in DOMAIN edges |-> [src |-> edges[e].src, dst |-> edges[e].dst, on |-> edges[e].on]]

\* The operands of a phi in block k, in the order of the edges into it.
Aligned(edges, k, opmap) ==
  LET in == SelectSeq(edges, LAMBDA e : e.dst = k) IN [j \in DOMAIN in |-> opmap[in[j].key]]

Tested(spec, b) == \E j \in DOMAIN spec[b] : spec[b][j].on # <<>>
Opmap(a, b, v) == [e \in ToSet(Into(a, b)) |-> a.ins[v].args[Position(Into(a, b), e)]]

\* What instruction v became: a constant, if its value is known.
Became(a, edges, order_, known, v) ==
  IF v \in DOMAIN known THEN Ins("const", Flagged(known[v]), <<>>, NoPlace, known[v], 0)
  ELSE IF a.ins[v].op # "phi" THEN a.ins[v]
  ELSE [a.ins[v] EXCEPT !.args = Aligned(edges, Position(order_, a.ins[v].block), Opmap(a, a.ins[v].block, v))]

\* The arena with the blocks in order, the instructions in keep, those with a
\* known value as constants, and the edges in spec.
BuildCompacted(a, order_, keep, known, spec) ==
  LET edges == Wired(order_, spec)
  IN  Laid([k \in DOMAIN order_ |-> SelectSeq(In(a, order_[k]), LAMBDA v : v \in keep)],
           [v \in keep |-> Became(a, edges, order_, known, v)], [v \in keep |-> v],
           [k \in DOMAIN order_ |-> IF Tested(spec, order_[k]) THEN a.blocks[order_[k]].test ELSE 0], Unkeyed(edges))

\* The arena for a model: blocks [items, test, edges], where an item is an
\* old instruction or, beyond those, a new phi, with the opmap of a phi.
CopyOf(a, edges, k, item) ==
  IF item.v \in DOMAIN a.ins /\ a.ins[item.v].op # "phi" THEN a.ins[item.v]
  ELSE Ins("phi", {}, Aligned(edges, k, item.opmap), NoPlace, 0, 0)

EmitFromModel(a, model) ==
  LET rpo == Rpo([b \in DOMAIN model |-> [j \in DOMAIN model[b].edges |-> model[b].edges[j].dst]])
      spec == [b \in DOMAIN model |-> model[b].edges]
      edges == Wired(rpo, spec)
      items == UNION {{<<k, model[rpo[k]].items[j]>> : j \in DOMAIN model[rpo[k]].items} : k \in DOMAIN rpo}
      kept == {i[2].v : i \in items}
      copy(v) == LET i == CHOOSE j \in items : j[2].v = v IN CopyOf(a, edges, i[1], i[2])
  IN  Laid([k \in DOMAIN rpo |-> [j \in DOMAIN model[rpo[k]].items |-> model[rpo[k]].items[j].v]],
           [v \in kept |-> copy(v)], [v \in kept |-> v],
           [k \in DOMAIN rpo |-> IF Tested(spec, rpo[k]) THEN model[rpo[k]].test ELSE 0], Unkeyed(edges))

-----------------------------------------------------------------------------
(* Out of SSA, without any cleverness: each value gets a temporary, but for *)
(* constants and what is used once, in its own block.                       *)

\* Where the value v is used: <<block, by a phi>>, once for each use.
UsesOf(a, v) ==
  LET ids == DOMAIN a.ins
      args == UNION {{<<i, k>> : k \in {j \in DOMAIN a.ins[i].args : a.ins[i].args[j] = v}} : i \in ids}
  IN  {<<"arg", i[1], i[2]>> : i \in args}
        \cup {<<"base", i, 0>> : i \in {j \in ids : a.ins[j].at.base = <<"value", v>>}}
        \cup {<<"index", i, 0>> : i \in {j \in ids : a.ins[j].at.index = v}}
        \cup {<<"test", b, 0>> : b \in {c \in DOMAIN a.blocks : a.blocks[c].test = v}}
InPlaceOf(a, v, u) == IF u[1] = "test" THEN u[2] = a.ins[v].block
                      ELSE a.ins[u[2]].op # "phi" /\ a.ins[u[2]].block = a.ins[v].block

Own(i) == i.op \in {"phi", "undef", "const"} \/ "root" \in i.flags
Dropped(a, v) == UsesOf(a, v) = {} /\ "effect" \notin a.ins[v].flags
Inlined(a, v) ==
  /\ a.ins[v].flags = {"pure"} /\ Cardinality(UsesOf(a, v)) = 1
  /\ \A u \in UsesOf(a, v) : InPlaceOf(a, v, u)
Materialized(a, v) == ~ Own(a.ins[v]) /\ ~ Dropped(a, v) /\ ~ Inlined(a, v)

Slot(name) == At(<<"temp", name, 1>>, Const(0), 0)
SlotOf(v) == Slot(<<"s", v>>)
UndefSlot == Slot(<<"undef">>)

RECURSIVE RefOf(_, _), FreshTree(_, _)

\* A pointer that turned out to be constant is a block of memory.
NewPlace(a, at) ==
  LET constant == at.base[1] = "value" /\ a.ins[at.base[2]].op = "const" /\ Integral(a.ins[at.base[2]].n)
      base == IF constant THEN <<"block", a.ins[at.base[2]].n, "pointer">>
              ELSE IF at.base[1] = "value" THEN <<"value", RefOf(a, at.base[2])>>
              ELSE IF "enum" \in at.flags \/ at.base[1] = "temp" THEN at.base ELSE <<"block", at.base[2], "raw">>
  IN  IF at.index = 0 THEN At(base, Const(at.off), 0)
      ELSE [At(base, RefOf(a, at.index), at.off) EXCEPT !.exact = TRUE]

\* A value where it is used.
RefOf(a, v) ==
  CASE a.ins[v].op = "const" -> Const(a.ins[v].n)
    [] a.ins[v].op = "undef" -> Get(UndefSlot)
    [] a.ins[v].op = "phi" \/ Materialized(a, v) -> Get(SlotOf(v))
    [] OTHER -> FreshTree(a, v)

FreshTree(a, v) ==
  LET i == a.ins[v] IN
  IF i.op = "get" THEN Get(NewPlace(a, i.at)) ELSE Op(i.op, [k \in DOMAIN i.args |-> RefOf(a, i.args[k])])

\* Copies that happen together, one after the other (see ParallelCopy).
RECURSIVE InSequence(_, _)
InSequence(copies, k) ==
  LET todo == {c \in copies : c[2] # Get(c[1])}
      free == {c \in todo : \A d \in todo \ {c} : d[2] # Get(c[1])}
      spare == Slot(<<"cycle", k>>)
  IN  IF todo = {} THEN <<>>
      ELSE IF free # {} THEN LET c == CHOOSE c \in free : TRUE IN <<Put(c[1], c[2])>> \o InSequence(todo \ {c}, k)
      ELSE LET c == CHOOSE c \in todo : TRUE
           IN  <<Put(spare, Get(c[1]))>> \o
               InSequence({<<d[1], IF d[2] = Get(c[1]) THEN Get(spare) ELSE d[2]>> : d \in todo}, k + 1)

PhisOf(a, b) == {v \in Slice(a, b) : a.ins[v].op = "phi"}
CopiesFor(a, e) ==
  LET d == a.edges[e].dst
      from(p) == RefOf(a, a.ins[p].args[Position(Into(a, d), e)])
  IN  InSequence({<<SlotOf(p), from(p)>> : p \in PhisOf(a, d)}, Len(a.ins) * e)

Successors(a, b) == {a.edges[e].dst : e \in ToSet(OutOf(a, b))}

\* Mutant: a block with a single successor needs no split, tested or not.
MutantSplits(a) ==
  SelectSeq([e \in DOMAIN a.edges |-> e], LAMBDA e :
    LET b == a.edges[e].src IN
    PhisOf(a, a.edges[e].dst) # {} /\ (Cardinality(Successors(a, b)) > 1 \/ a.edges[e].dst = b))

\* The edges that get a block of their own for the copies to phis.
Splits(a) ==
  SelectSeq([e \in DOMAIN a.edges |-> e], LAMBDA e :
    LET b == a.edges[e].src IN
    /\ PhisOf(a, a.edges[e].dst) # {}
    /\ Cardinality(Successors(a, b)) > 1 \/ a.edges[e].dst = b \/ a.blocks[b].test # 0)

LoweredBlock(a, b) ==
  LET statement(v) ==
        CASE a.ins[v].op = "set"        -> <<Put(NewPlace(a, a.ins[v].at), RefOf(a, a.ins[v].args[1]))>>
          [] "root" \in a.ins[v].flags /\ a.ins[v].op # "set" -> <<FreshTree(a, v)>>
          [] Materialized(a, v)         -> <<Put(SlotOf(v), FreshTree(a, v))>>
          [] OTHER                      -> <<>>
      here == {e \in ToSet(OutOf(a, b)) : e \notin ToSet(Splits(a)) /\ PhisOf(a, a.edges[e].dst) # {}}
  IN  FlattenSeq([k \in DOMAIN In(a, b) |-> statement(In(a, b)[k])])
        \o (IF here = {} THEN <<>> ELSE CopiesFor(a, Min(here)))

OutOfSSA(a) ==
  LET splits == Splits(a)
      own(e) == Len(a.blocks) + Position(splits, e)
      edges(b) == [k \in DOMAIN OutOf(a, b) |-> LET e == OutOf(a, b)[k] IN
                     <<a.edges[e].on, IF e \in ToSet(splits) THEN own(e) ELSE a.edges[e].dst>>]
      test(b) == IF a.blocks[b].test = 0 THEN <<>> ELSE <<RefOf(a, a.blocks[b].test)>>
      plain == Fold(LAMBDA w, b : AddBlock(w, LoweredBlock(a, b), test(b), edges(b)), Nothing,
                    [b \in DOMAIN a.blocks |-> b])
  IN  Fold(LAMBDA w, e : AddBlock(w, CopiesFor(a, e), <<>>, << <<<<>>, a.edges[e].dst>> >>), plain, splits)

-----------------------------------------------------------------------------
(* Execution.  A value is a term over what was read and drawn; a read names *)
(* the cell and the number of stores and effects before it.  A run is       *)
(* [at, env, shown, clock, drawn, halted]; it goes on by itself until a     *)
(* block has cases to choose from.                                          *)

Num(n) == <<"num", n>>
Unwritten == <<"unwritten">>
Begun(env) == [at |-> 1, env |-> env, shown |-> <<>>, clock |-> 0, drawn |-> [d \in Draws |-> 0], halted |-> FALSE]

Applied(op, args, r) ==
  CASE op \in Draws   -> <<op, r.drawn[op]>> \o args
    [] op \in Effects -> <<op, r.clock>> \o args
    [] op \in LeftFolds /\ Len(args) > 2 -> FoldLeft(LAMBDA x, y : <<op, x, y>>, args[1], Tail(args))
    [] OTHER          -> <<op>> \o args
\* What is left behind by an operation.
After(op, args, r) ==
  CASE op \in Draws   -> [r EXCEPT !.drawn[op] = @ + 1]
    [] op \in Effects -> [r EXCEPT !.clock = @ + 1, !.shown = Append(@, <<op>> \o args)]
    [] OTHER          -> r

\* The cell at a base, an index and an offset; a pointer is a number.
Cell(base, index, off) ==
  <<"cell", IF base[1] = "value" /\ base[2][1] = "num" THEN <<"block", base[2][2]>>
            ELSE IF base[1] = "block" THEN <<"block", base[2]>> ELSE base,
    IF index[1] = "num" /\ Integral(index[2]) THEN Num(index[2] + off) ELSE <<"plus", index, off>>>>
Stored(cell, value, r) == [r EXCEPT !.clock = @ + 1, !.shown = Append(@, <<"store", cell, value>>)]

\* Trees.  The temporary t was called called[t] where the program came from.
RECURSIVE Eval(_, _, _)
CellOf(p, called, r) ==
  Cell(CASE p.base[1] = "temp"  -> IF p.base \in DOMAIN called THEN called[p.base] ELSE p.base
         [] p.base[1] = "value" -> <<"value", Eval(p.base[2], called, r)>>
         [] OTHER               -> p.base,
       Eval(p.index, called, r), p.off)
Scalar(base) == base[1] = "temp" /\ base[3] = 1
Read(p, called, r) ==
  IF ~ Scalar(p.base) THEN <<"read", r.clock, CellOf(p, called, r)>>
  ELSE IF p.base \in DOMAIN r.env THEN r.env[p.base] ELSE Unwritten

Eval(t, called, r) ==
  CASE t.k = "const" -> Num(t.n)
    [] t.k = "get"   -> Read(t.place, called, r)
    [] t.k = "place" -> Read(t, called, r)
    [] OTHER         -> Applied(t.k, [k \in DOMAIN t.args |-> Eval(t.args[k], called, r)], r)

\* A statement; an operation with an effect is one, or all of what is stored.
Execute(s, called, r) ==
  LET tree == IF s.k = "set" THEN s.value ELSE s
      value == Eval(tree, called, r)
      then == IF tree.k \in Impure THEN After(tree.k, [k \in DOMAIN tree.args |-> Eval(tree.args[k], called, r)], r) ELSE r
  IN  IF s.k # "set" THEN then
      ELSE IF Scalar(s.place.base) THEN [then EXCEPT !.env = (s.place.base :> value) @@ @]
      ELSE Stored(CellOf(s.place, called, then), value, then)

RECURSIVE OnwardInTrees(_, _, _)
OnwardInTrees(blocks, called, r) ==
  LET b == blocks[r.at]
      s == Fold(LAMBDA w, x : Execute(x, called, w), r, b.stmts)
  IN  IF b.out = {} THEN [s EXCEPT !.halted = TRUE]
      ELSE IF \A e \in b.out : e[1] = <<>>
           THEN LET e == CHOOSE e \in b.out : TRUE IN OnwardInTrees(blocks, called, [s EXCEPT !.at = e[2]])
      ELSE [s EXCEPT !.shown = Append(@, <<"test", Eval(b.test, called, s)>>)]

\* SSA form: the functions the builder leaves, but for what SCCP found out,
\* the edges that are never taken and the values that are known.
ValueIn(g, r, v) ==
  LET u == Final(g)[v] IN IF u \in DOMAIN given.known THEN Num(given.known[u]) ELSE r.env[u]

CellIn(g, r, at) ==
  Cell(IF at.base[1] = "value" THEN <<"value", ValueIn(g, r, at.base[2])>> ELSE at.base,
       IF at.index = 0 THEN Num(at.off) ELSE ValueIn(g, r, at.index), IF at.index = 0 THEN 0 ELSE at.off)

Computed(g, r, v) ==
  LET i == g.ins[v]
      args == [k \in DOMAIN i.args |-> ValueIn(g, r, i.args[k])]
      is(value) == [r EXCEPT !.env = (v :> value) @@ @]
  IN  CASE i.op = "const" -> is(Num(i.n))
        [] i.op = "undef" -> is(Unwritten)
        [] i.op = "get"   -> is(<<"read", r.clock, CellIn(g, r, i.at)>>)
        [] i.op = "set"   -> Stored(CellIn(g, r, i.at), args[1], r)
        [] OTHER -> [After(i.op, args, r) EXCEPT !.env = (v :> Applied(i.op, args, r)) @@ @]

LiveOut(g, b) == {e \in given.live : g.edges[e].src = b}
\* Along edge e all phis take their operands together.
Enter(g, r, e) ==
  LET d == g.edges[e].dst
      k == Position(SelectSeq([f \in DOMAIN g.edges |-> f], LAMBDA f : g.edges[f].dst = d), e)
      phis == ToSet(g.phis[d]) \ g.dead
  IN  [r EXCEPT !.at = d, !.env = [p \in phis |-> ValueIn(g, r, g.ins[p].args[k])] @@ @]

RECURSIVE OnwardInSSA(_, _)
OnwardInSSA(g, r) ==
  LET here == SelectSeq(g.values[r.at], LAMBDA v : v \notin g.dead)
      first == IF r.at = 1 /\ g.undef # 0 THEN [r EXCEPT !.env = (g.undef :> Unwritten) @@ @] ELSE r
      s == Fold(LAMBDA w, v : Computed(g, w, v), first, here)
      outs == LiveOut(g, r.at)
      decided == Cardinality(outs) = 1 /\ \E e \in DOMAIN g.edges \ outs : g.edges[e].src = r.at
  IN  IF outs = {} THEN [s EXCEPT !.halted = TRUE]
      ELSE IF decided \/ \A e \in outs : g.edges[e].on = <<>>
           THEN OnwardInSSA(g, Enter(g, s, Min(outs)))
      ELSE [s EXCEPT !.shown = Append(@, <<"test", ValueIn(g, s, g.test[r.at])>>)]

-----------------------------------------------------------------------------
(* Verification.                                                            *)

\* Block a dominates block b of arena g.
Dominates(g, a, b) ==
  LET grown[S \in SUBSET (DOMAIN g.blocks)] ==
        LET T == S \cup ({g.edges[e].dst : e \in {f \in DOMAIN g.edges : g.edges[f].src \in S}} \ {a})
        IN  IF T = S THEN S ELSE grown[T]
  IN  a = b \/ a = 1 \/ b \notin grown[{1}]

\* What Func.verify asserts of an arena: instructions use earlier ones of
\* their own block, or in SSA form of blocks that dominate it; phis lead their
\* block, with one operand for each edge into it that is computed whenever the
\* edge is taken; a case leads to one block.  The flags say what operations do.
Uses(g, v) ==
  ToSet(g.ins[v].args) \cup ({g.ins[v].at.index} \ {0})
    \cup (IF g.ins[v].at.base[1] = "value" THEN {g.ins[v].at.base[2]} ELSE {})
VerifyPhi(g, v) ==
  LET b == g.ins[v].block
      into == Into(g, b)
      args == g.ins[v].args
  IN  /\ Len(args) = Len(into)
      /\ \A k \in DOMAIN args : /\ args[k] \in DOMAIN g.ins
                               /\ Dominates(g, g.ins[args[k]].block, g.edges[into[k]].src)
      /\ \A j, k \in DOMAIN args : g.edges[into[j]].src = g.edges[into[k]].src => args[j] = args[k]
Verify(g) ==
  /\ \A v \in DOMAIN g.ins :
       LET i == g.ins[v] IN
       /\ v \in Slice(g, i.block)
       /\ i.op \in {"phi", "undef"} => g.ssa
       /\ i.op = "phi" => VerifyPhi(g, v)
       /\ i.op # "phi" => \A u \in Uses(g, v) :
            u < v /\ (IF g.ssa THEN Dominates(g, g.ins[u].block, i.block) ELSE g.ins[u].block = i.block)
       /\ i.op \notin {"phi", "undef", "const", "get", "set"} => ("pure" \in i.flags <=> i.op \notin Impure)
  /\ \A b \in DOMAIN g.blocks :
       /\ \A v \in Slice(g, b) : g.ins[v].block = b
       /\ g.blocks[b].test \in {0} \cup DOMAIN g.ins
       /\ \A v \in PhisOf(g, b) : \A u \in Slice(g, b) :
            u < v => g.ins[u].op = "phi" \/ (b = 1 /\ g.ins[u].op = "undef")
       /\ \A e, f \in ToSet(OutOf(g, b)) : g.edges[e].on = g.edges[f].on => g.edges[e].dst = g.edges[f].dst
  /\ \A e, f \in DOMAIN g.edges : e < f => g.edges[e].src <= g.edges[f].src

-----------------------------------------------------------------------------
(* Actions                                                                  *)

Idle == [a |-> Begun(<<>>), b |-> Begun(<<>>), left |-> 0]

Init ==
  /\ given \in {[kind |-> "source", program |-> p, live |-> {}, known |-> <<>>] : p \in TreePrograms}
           \cup {[kind |-> "graph", program |-> g, live |-> DOMAIN g.edges, known |-> <<>>] : g \in Graphs}
  /\ stage = given.kind /\ arena = Nothing /\ out = <<>> /\ runs = Idle
  /\ order = IF given.kind = "source" THEN RpoOfSource(given.program.blocks) ELSE <<>>

\* The next block of the source goes into the arena.
Marshal ==
  /\ stage = "source" /\ order # <<>>
  /\ LET blocks == given.program.blocks
         rpo == RpoOfSource(blocks)
         b == Head(order)
         edges == Sorted(blocks[b].out)
     IN  arena' = AddBlock(arena, blocks[b].stmts, <<blocks[b].test>>,
                           [k \in DOMAIN edges |-> <<edges[k][1], Position(rpo, edges[k][2])>>])
  /\ order' = Tail(order)
  /\ UNCHANGED <<given, stage, out, runs>>

Rebuild ==
  /\ stage = "source" /\ order = <<>>
  /\ LET rpo == RpoOfSource(given.program.blocks)
         number(b) == Position(rpo, b)
         chains == given.program.chains
     IN  arena' = Rebuilt(arena, [h \in {number(b) : b \in DOMAIN chains} |->
                                    [k \in DOMAIN chains[rpo[h]] |-> number(chains[rpo[h]][k])]])
  /\ stage' = "flat"
  /\ UNCHANGED <<given, order, out, runs>>

BuildSSA ==
  /\ stage = "graph" /\ arena' = Compact(given.program) /\ stage' = "ssa"
  /\ UNCHANGED <<given, order, out, runs>>

\* What a pass keeps: what statements and tests in the blocks need, when
\* some values are known and some edges are gone.
Needed(a, known, live, blocks, tested) ==
  LET phiOperands(v) == {Opmap(a, a.ins[v].block, v)[e] : e \in ToSet(Into(a, a.ins[v].block)) \cap live}
      operands(v) ==
        IF v \in DOMAIN known THEN {}
        ELSE (IF a.ins[v].op = "phi" THEN phiOperands(v) ELSE ToSet(a.ins[v].args))
               \cup (IF a.ins[v].at.base[1] = "value" THEN {a.ins[v].at.base[2]} ELSE {})
               \cup ({a.ins[v].at.index} \ {0})
      grown[S \in SUBSET (DOMAIN a.ins)] ==
        LET T == S \cup UNION {operands(v) : v \in S} IN IF T = S THEN S ELSE grown[T]
  IN  grown[{v \in DOMAIN a.ins : a.ins[v].block \in blocks /\ "root" \in a.ins[v].flags}
              \cup {a.blocks[b].test : b \in tested}]

\* The edges that a pass leaves to block b; the last one left is the default.
LeftOf(a, live, b) ==
  LET left == SelectSeq(OutOf(a, b), LAMBDA e : e \in live)
      on(e) == IF Len(left) = 1 /\ Len(OutOf(a, b)) > 1 THEN <<>> ELSE a.edges[e].on
  IN  [k \in DOMAIN left |-> [dst |-> a.edges[left[k]].dst, on |-> on(left[k]), key |-> left[k]]]

\* A phi with one operand is that operand, unless its block leads to itself.
Collapsed(a) ==
  LET single == {v \in DOMAIN a.ins : /\ a.ins[v].op = "phi" /\ Len(a.ins[v].args) = 1 /\ a.ins[v].args[1] # v
                                      /\ a.edges[Into(a, a.ins[v].block)[1]].src # a.ins[v].block}
      end[v \in DOMAIN a.ins] == IF v \in single THEN end[a.ins[v].args[1]] ELSE v
      to(v) == IF v = 0 THEN 0 ELSE end[v]
      base(b) == IF b[1] = "value" THEN <<"value", end[b[2]]>> ELSE b
  IN  [a EXCEPT !.ins = [v \in DOMAIN @ |-> [@[v] EXCEPT !.args = [k \in DOMAIN @ |-> to(@[k])],
                                                        !.at = [@ EXCEPT !.base = base(@), !.index = to(@)]]],
                !.blocks = [b \in DOMAIN @ |-> [@[b] EXCEPT !.test = to(@)]]]

\* A pass finds that edges are never taken, or that a value is a constant.
Prune ==
  /\ stage = "ssa"
  /\ \E live \in SUBSET (DOMAIN arena.edges),
        known \in {<<>>} \cup {v :> 7 : v \in {u \in DOMAIN arena.ins : arena.ins[u].flags = {"pure"}}} :
       LET spec == [b \in DOMAIN arena.blocks |-> LeftOf(arena, live, b)]
           rpo == Rpo([b \in DOMAIN spec |-> [k \in DOMAIN spec[b] |-> spec[b][k].dst]])
           listing == FlattenSeq([b \in DOMAIN arena.blocks |-> Listed(given.program, b)])
           tested == {b \in ToSet(rpo) : Tested(spec, b)}
       IN  /\ \A e \in live : arena.edges[e].src \in ToSet(rpo)
           /\ \A b \in ToSet(rpo) : OutOf(arena, b) # <<>> => spec[b] # <<>>
           /\ arena' = Collapsed(BuildCompacted(arena, rpo, Needed(arena, known, live, ToSet(rpo), tested), known, spec))
           /\ given' = [given EXCEPT !.live = live, !.known = [u \in {listing[v] : v \in DOMAIN known} |-> 7]]
  /\ stage' = "pruned"
  /\ UNCHANGED <<order, out, runs>>

\* Values that do not depend on the loop at header h move in front of it.
Body(a, h) ==
  LET back == {e \in DOMAIN a.edges : a.edges[e].dst = h /\ a.edges[e].src >= h}
      grown[S \in SUBSET (DOMAIN a.blocks)] ==
        LET T == S \cup {a.edges[e].src : e \in {f \in DOMAIN a.edges : a.edges[f].dst \in S \ {h}}}
        IN  IF T = S THEN S ELSE grown[T]
  IN  IF back = {} THEN {} ELSE grown[{h} \cup {a.edges[e].src : e \in back}]

Movable(a, h, H) ==
  H # {} /\ \A v \in H : /\ a.ins[v].flags \subseteq {"pure", "int"} /\ a.ins[v].op \notin {"phi", "undef"}
                        /\ a.ins[v].block \in Body(a, h)
                        /\ \A u \in ToSet(a.ins[v].args) : u \in H \/ a.ins[u].block \notin Body(a, h)

Ascending(S) == SetToSortSeq(S, <)
WithPreheader(a, h, H) ==
  LET new == Len(a.blocks) + 1
      entering == {e \in ToSet(Into(a, h)) : a.edges[e].src \notin Body(a, h)}
      item(v) == [v |-> v, opmap |-> IF a.ins[v].op = "phi" THEN Opmap(a, a.ins[v].block, v) ELSE <<>>]
      stay(b) == SelectSeq(In(a, b), LAMBDA v : v \notin H)
      hoisted == [k \in 1..Cardinality(H) |-> item(Ascending(H)[k])]
      edge(e) == [dst |-> a.edges[e].dst, on |-> a.edges[e].on, key |-> e]
      base == [b \in DOMAIN a.blocks |->
                [items |-> [k \in DOMAIN stay(b) |-> item(stay(b)[k])], test |-> a.blocks[b].test,
                 edges |-> [k \in DOMAIN OutOf(a, b) |-> edge(OutOf(a, b)[k])]]]
      pred == a.edges[Min(entering)].src
      clean == Cardinality(entering) = 1 /\ Len(OutOf(a, pred)) = 1 /\ a.blocks[pred].phis = 0
      phis == Ascending({v \in PhisOf(a, h) : Cardinality(entering) > 1})
      outer(v) == IF Cardinality(entering) = 1 THEN Opmap(a, h, v)[Min(entering)] ELSE Len(a.ins) + Position(phis, v)
      turned(i) == IF a.ins[i.v].op # "phi" THEN i
                   ELSE [i EXCEPT !.opmap = [e \in {0} \cup (DOMAIN @ \ entering) |-> IF e = 0 THEN outer(i.v) ELSE @[e]]]
      toNew(e) == IF e.key \in entering THEN [e EXCEPT !.dst = new] ELSE e
      merged == [k \in DOMAIN phis |-> [v |-> Len(a.ins) + k,
                                        opmap |-> [e \in entering |-> Opmap(a, h, phis[k])[e]]]]
  IN  IF clean THEN [base EXCEPT ![pred].items = @ \o hoisted]
      ELSE [b \in DOMAIN a.blocks |->
             [items |-> IF b = h THEN [k \in DOMAIN base[b].items |-> turned(base[b].items[k])] ELSE base[b].items,
              test |-> base[b].test, edges |-> [k \in DOMAIN base[b].edges |-> toNew(base[b].edges[k])]]]
           \o << [items |-> merged \o hoisted, test |-> 0, edges |-> <<[dst |-> h, on |-> <<>>, key |-> 0]>>] >>

Hoist ==
  /\ stage = "ssa"
  /\ \E h \in DOMAIN arena.blocks, H \in SUBSET (DOMAIN arena.ins) :
       /\ Movable(arena, h, H)
       /\ arena' = EmitFromModel(arena, WithPreheader(arena, h, H))
  /\ stage' = "hoisted"
  /\ UNCHANGED <<given, order, out, runs>>

Lower ==
  /\ stage \in {"ssa", "pruned", "hoisted"}
  /\ arena' = OutOfSSA(arena) /\ stage' = "flat"
  /\ UNCHANGED <<given, order, out, runs>>

\* Marshal out, of what was marshalled in, cleaned up or lowered; then both
\* programs run to the first choice.
Came == [t \in Range(Named(arena)) |-> CHOOSE u \in DOMAIN Named(arena) : Named(arena)[u] = t]
Export ==
  /\ stage = "flat" \/ (stage = "source" /\ order = <<>>)
  /\ out' = [blocks |-> Exported(arena), called |-> Came]
  /\ runs' = [a |-> IF given.kind = "graph" THEN OnwardInSSA(given.program, Begun(<<>>))
                    ELSE OnwardInTrees(given.program.blocks, <<>>, Begun(<<>>)),
              b |-> OnwardInTrees(out'.blocks, Came, Begun(<<>>)), left |-> MaxChoices]
  /\ stage' = "running"
  /\ UNCHANGED <<given, arena, order>>

\* The case that is chosen, the same in both; a missing one ends the program.
TakeInTrees(blocks, called, r, on) ==
  LET to == {e[2] : e \in {f \in blocks[r.at].out : f[1] = on}}
      next == [r EXCEPT !.shown = <<>>]
  IN  IF to = {} THEN [next EXCEPT !.halted = TRUE] ELSE OnwardInTrees(blocks, called, [next EXCEPT !.at = Min(to)])
TakeInSSA(g, r, on) ==
  LET along == {e \in LiveOut(g, r.at) : g.edges[e].on = on}
      next == [r EXCEPT !.shown = <<>>]
  IN  IF along = {} THEN [next EXCEPT !.halted = TRUE] ELSE OnwardInSSA(g, Enter(g, next, Min(along)))

CasesOfSource ==
  IF given.kind = "graph" THEN {given.program.edges[e].on : e \in LiveOut(given.program, runs.a.at)}
  ELSE {e[1] : e \in given.program.blocks[runs.a.at].out}
CasesOut == {e[1] : e \in out.blocks[runs.b.at].out}

Choose ==
  /\ stage = "running" /\ ~ runs.a.halted /\ ~ runs.b.halted /\ runs.left > 0
  /\ \E on \in CasesOfSource \cup {<<>>} :
       runs' = [a |-> IF given.kind = "graph" THEN TakeInSSA(given.program, runs.a, on)
                      ELSE TakeInTrees(given.program.blocks, <<>>, runs.a, on),
                b |-> TakeInTrees(out.blocks, out.called, runs.b, on), left |-> runs.left - 1]
  /\ UNCHANGED <<given, stage, arena, order, out>>

Next == Marshal \/ Rebuild \/ BuildSSA \/ Prune \/ Hoist \/ Lower \/ Export \/ Choose

Spec == Init /\ [][Next]_carried

-----------------------------------------------------------------------------
(* Properties                                                               *)

\* Every variable has its type.
TypeOK ==
  /\ stage \in {"source", "graph", "ssa", "pruned", "hoisted", "flat", "running"}
  /\ arena.ssa \in BOOLEAN /\ \A e \in DOMAIN arena.edges : arena.edges[e].src \in DOMAIN arena.blocks
  /\ \A k \in DOMAIN order : order[k] \in DOMAIN given.program.blocks
  /\ runs.left \in 0..MaxChoices /\ runs.a.halted \in BOOLEAN /\ runs.b.halted \in BOOLEAN

\* The arena is well formed, whoever wrote it.
Verified == Verify(arena)

\* A program comes out of the arena as it went in: both show the same stores,
\* effects and tests, with the same operands read at the same moments, along
\* all paths, and offer the same cases.
SameRuns ==
  stage = "running" =>
    /\ runs.a.shown = runs.b.shown /\ runs.a.halted = runs.b.halted
    /\ ~ runs.a.halted => CasesOfSource = CasesOut

\* What the optimizer may move or fold, because the callback cannot write it
\* or the mode never changes it, is written nowhere in the program; after the
\* way out of SSA nothing asks any more, and constant pointers lose the mark.
FixedStaysFixed ==
  given.kind = "source" =>
    \A v, w \in {u \in DOMAIN arena.ins : arena.ins[u].at.base[1] = "block"} :
      ("writable" \notin arena.ins[v].at.flags \/ "known" \in arena.ins[v].at.flags) /\ arena.ins[w].op = "set"
        => arena.ins[w].at.base[2] # arena.ins[v].at.base[2]
=============================================================================
