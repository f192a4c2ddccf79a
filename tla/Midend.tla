------------------------------- MODULE Midend -------------------------------
(***************************************************************************)
(* The middle end at the standard level, midend_standard of                *)
(* sonolus/backend/_opt/midend.pyx, one action per pass:                   *)
(*   SCCP, GVN, branches on a negation, DCE       (the core)               *)
(*   LICM, one loop at a time                                              *)
(*   rewrite_switch: ifs become switches, chains of switches become one    *)
(*   the core again if anything changed                                    *)
(* Then source and result run side by side on all inputs.                  *)
(*                                                                         *)
(* A program is [edge, code, ins, test]: the edges, records [src, dst,     *)
(* when]; the values each block computes, in order; the instructions,      *)
(* records [op, val, args]; the value each block tests (0: none).  The     *)
(* operands of a phi are a function from the edges into its block: that    *)
(* _build_compacted and _emit_from_model put them back in the order of the *)
(* new edges is taken for granted.                                         *)
(*   const, undef, phi  as in the arena                                    *)
(*   given              a read the runtime knows before it starts          *)
(*   fixed              a read of a real block the callback cannot write   *)
(*   load               any other read of memory                           *)
(*   draw               not pure, without effect (Random)                  *)
(*   call               an effect with a value; what native_call makes     *)
(*   store              a statement                                        *)
(* The others are pure.  Numbers are integers: NaN, infinities and the     *)
(* sign of zero, which SCCP and GVN look after, are left out, and so is    *)
(* _fuse_ptr_rmw.                                                          *)
(***************************************************************************)
EXTENDS Integers, FiniteSetsExt, SequencesExt

CONSTANTS
  Programs,  \* the programs optimized; block 1 is the entry, no edge leads to it
  Inputs,    \* what the memory holds at first
  SetLimit,  \* values SCCP keeps apart for one phi, 100 in the code
  MaxSteps   \* bound on the blocks executed

VARIABLES
  source,   \* the program
  graph,    \* what it is now
  ext,      \* while switches are rewritten: the values used outside of their block
  pass,     \* next pass
  again,    \* the core is run the second time
  changed,  \* a pass has changed something
  run       \* the two executions: records [at, from, env, memory, shown]

vars == <<source, graph, ext, pass, again, changed, run>>

Default == -1  \* the condition of the unconditional edge
Entry == 1
Reads == {"given", "fixed", "load"}
Comparisons == {"equal", "less", "not"}
Pure == Comparisons \cup {"add", "sub", "mul", "neg", "and", "or", "max"}
Statement(op) == op = "store"
HasEffect(op) == op \in {"store", "call"}

\* What a pure operation yields, for the runtime and for SCCP.
Apply(op, a) ==
  CASE op = "add"   -> a[1] + a[2]
    [] op = "sub"   -> a[1] - a[2]
    [] op = "mul"   -> a[1] * a[2]
    [] op = "neg"   -> -a[1]
    [] op = "max"   -> IF a[1] < a[2] THEN a[2] ELSE a[1]
    [] op = "not"   -> IF a[1] = 0 THEN 1 ELSE 0
    [] op = "equal" -> IF a[1] = a[2] THEN 1 ELSE 0
    [] op = "less"  -> IF a[1] < a[2] THEN 1 ELSE 0
    [] op = "and"   -> IF a[1] = 0 THEN 0 ELSE a[2]
    [] op = "or"    -> IF a[1] # 0 THEN a[1] ELSE a[2]

-----------------------------------------------------------------------------
(* Graphs                                                                  *)

Blocks(g) == DOMAIN g.code
Edges(g) == DOMAIN g.edge
Out(g, b) == {e \in Edges(g) : g.edge[e].src = b}
In(g, b) == {e \in Edges(g) : g.edge[e].dst = b}
Ids(g) == UNION {ToSet(g.code[b]) : b \in Blocks(g)}
Op(g, v) == g.ins[v].op
Operands(g, v) == Range(g.ins[v].args)
Phis(g, b) == {v \in ToSet(g.code[b]) : Op(g, v) = "phi"}
BlockOf(g, v) == CHOOSE b \in Blocks(g) : v \in ToSet(g.code[b])
Place(g, b, v) == CHOOSE k \in DOMAIN g.code[b] : g.code[b][k] = v

\* The blocks reached from the blocks in S along the edges E, never through x.
Reached(E, S, x) ==
  LET grown[T \in SUBSET Int] ==
        LET U == T \cup ({f[2] : f \in {f \in E : f[1] \in T}} \ {x}) IN IF U = T THEN T ELSE grown[U]
  IN  grown[S]

Arrows(g) == {<<g.edge[e].src, g.edge[e].dst>> : e \in Edges(g)}
Alive(g) == Reached(Arrows(g), {Entry}, 0)

\* The pairs <<a, b>> of blocks such that a dominates b.
Dominance(g) ==
  LET arrows == Arrows(g)
      avoiding(a) == IF a = Entry THEN {} ELSE Reached(arrows, {Entry}, a)
  IN  UNION {{a} \X (Blocks(g) \ avoiding(a)) : a \in Blocks(g)}

\* The values in s stand for those in its domain: Substituted uses them.
Substituted(g, s) ==
  [g EXCEPT !.ins = [v \in DOMAIN @ |-> [@[v] EXCEPT !.args = [k \in DOMAIN @ |-> s[@[k]]]]],
            !.test = [b \in DOMAIN @ |-> IF @[b] = 0 THEN 0 ELSE s[@[b]]]]

\* What is left of g when only the blocks bs, the edges es and the values vs are kept.
Compacted(g, bs, es, vs) ==
  LET kept == UNION {ToSet(g.code[b]) : b \in bs} \cap vs
      tested(b) == \E e \in es : g.edge[e].src = b /\ g.edge[e].when # Default
  IN  [edge |-> [e \in es |-> g.edge[e]],
       code |-> [b \in bs |-> SelectSeq(g.code[b], LAMBDA v : v \in kept)],
       ins  |-> [v \in kept |-> IF Op(g, v) # "phi" THEN g.ins[v]
                                ELSE [g.ins[v] EXCEPT !.args = [e \in DOMAIN @ \cap es |-> @[e]]]],
       test |-> [b \in bs |-> IF tested(b) THEN g.test[b] ELSE 0]]

Pruned(g) ==
  LET bs == Alive(g)
  IN  Compacted(g, bs, {e \in Edges(g) : g.edge[e].src \in bs}, DOMAIN g.ins)

-----------------------------------------------------------------------------
(* SCCP.  What is known of a value: nothing yet ({}), that it is one of    *)
(* some numbers, or that it may be any (Bottom).                           *)

Bottom == {-1000}
IsConst(l) == Cardinality(l) = 1 /\ l # Bottom

\* The values that are 0 or 1, by their form.
Bools(g) ==
  LET boolean(v, S) ==
        \/ Op(g, v) = "const" /\ g.ins[v].val \in {0, 1}
        \/ Op(g, v) \in Comparisons
        \/ Op(g, v) \in {"and", "or", "phi"} /\ Operands(g, v) \subseteq S
      grown[S \in SUBSET Int] ==
        LET T == {v \in Ids(g) : v \in S \/ boolean(v, S)} IN IF T = S THEN S ELSE grown[T]
  IN  grown[{}]

\* What is known of v, from what is known of its operands.
Transfer(g, bools, lat, v) ==
  LET i == g.ins[v]
      known(k) == lat[i.args[k]]
      other(k) == 3 - k
      bool(k) == i.args[k] \in bools \/ known(k) \in {{0}, {1}}
  IN  CASE i.op = "const" -> {i.val}
        [] i.op \notin Pure \cup {"const"} -> Bottom
        [] i.op = "mul" /\ (\E k \in 1..2 : known(k) = {0} /\ ~ IsConst(known(other(k)))) -> {0}
        [] i.op = "and" /\ (\E k \in 1..2 : known(k) = {0} /\ bool(other(k))) -> {0}
        [] i.op = "or" /\ (\E k \in 1..2 : known(k) = {1} /\ bool(other(k))) -> {1}
        [] \E k \in DOMAIN i.args : known(k) # {} /\ ~ IsConst(known(k)) -> Bottom
        [] \E k \in DOMAIN i.args : known(k) = {} -> {}
        [] OTHER -> {Apply(i.op, [k \in DOMAIN i.args |-> CHOOSE n \in known(k) : TRUE])}

\* A phi is what comes along the edges known to be taken.
MeetPhi(g, live, lat, p) ==
  LET all == UNION {lat[g.ins[p].args[e]] : e \in DOMAIN g.ins[p].args \cap live}
  IN  IF Bottom \subseteq all \/ Cardinality(all) > SetLimit THEN Bottom ELSE all

\* The edge out of b for the value n of its test; no edge ends the program.
Selected(g, b, n) ==
  LET hit == {e \in Out(g, b) : g.edge[e].when = n}
  IN  IF hit # {} THEN hit ELSE {e \in Out(g, b) : g.edge[e].when = Default}

OutEdges(g, b, lat) ==
  IF g.test[b] = 0 THEN Out(g, b)
  ELSE IF lat[g.test[b]] = Bottom THEN Out(g, b)
  ELSE UNION {Selected(g, b, n) : n \in lat[g.test[b]]}

\* All that follows from the values known and the edges taken so far.
Propagated(g, bools, s) ==
  LET reached == {Entry} \cup {g.edge[e].dst : e \in s.live}
      value(v) == IF BlockOf(g, v) \notin reached THEN {}
                  ELSE IF Op(g, v) = "phi" THEN MeetPhi(g, s.live, s.lat, v)
                  ELSE Transfer(g, bools, s.lat, v)
      stuck(b) == Out(g, b) \cap s.live = {} /\ (IF g.test[b] = 0 THEN TRUE ELSE s.lat[g.test[b]] \in {{}, Bottom})
      flow == s.live \cup UNION {OutEdges(g, b, s.lat) : b \in reached}
      next == [lat |-> [v \in Ids(g) |-> value(v)], live |-> flow]
  IN  IF next # s THEN next
      ELSE [s EXCEPT !.live = @ \cup UNION {Out(g, b) : b \in {c \in reached : stuck(c)}}]

\* What follows in the end.
Known(g) ==
  LET bools == Bools(g)
      fix[s \in [lat : [Ids(g) -> SUBSET Int], live : SUBSET Int]] ==
        LET t == Propagated(g, bools, s) IN IF t = s THEN s ELSE fix[t]
  IN  fix[ [lat |-> [v \in Ids(g) |-> {}], live |-> {}] ]

\* A value found constant, unless it is a phi or read from memory.
Folded(lat, v, i) ==
  IF i.op \in Pure /\ IsConst(lat[v]) THEN [op |-> "const", val |-> CHOOSE n \in lat[v] : TRUE, args |-> <<>>] ELSE i

\* The condition an edge keeps.  The only edge a constant selects is taken
\* always; the last case becomes the default if every number matches a case.
KeptWhen(g, lat, live, e) ==
  LET b == g.edge[e].src
      cases == {g.edge[f].when : f \in Out(g, b) \cap live}
      exhaustive == (\E f \in Out(g, b) : g.edge[f].when = Default) \/ lat[g.test[b]] \subseteq cases
  IN  IF g.test[b] = 0 \/ lat[g.test[b]] \in {{}, Bottom} THEN g.edge[e].when
      ELSE IF IsConst(lat[g.test[b]]) THEN Default
      ELSE IF Default \notin cases /\ exhaustive /\ g.edge[e].when = Max(cases) THEN Default
      ELSE g.edge[e].when

\* A phi with one operand is a copy of it, unless the edge is a loop of its own.
CollapseTrivialPhis(g) ==
  LET copies == {v \in DOMAIN g.ins : /\ Op(g, v) = "phi" /\ Cardinality(DOMAIN g.ins[v].args) = 1
                                      /\ \A e \in DOMAIN g.ins[v].args : g.edge[e].src # g.edge[e].dst}
      final[v \in DOMAIN g.ins] == IF v \in copies THEN final[CHOOSE a \in Operands(g, v) : TRUE] ELSE v
  IN  Substituted(g, final)

Propagate(g, k) ==
  LET reached == {Entry} \cup {g.edge[e].dst : e \in k.live}
      h == [g EXCEPT !.ins = [v \in DOMAIN @ |-> Folded(k.lat, v, @[v])],
                     !.edge = [e \in DOMAIN @ |-> IF e \in k.live THEN [@[e] EXCEPT !.when = KeptWhen(g, k.lat, k.live, e)] ELSE @[e]]]
      kept == Compacted(h, reached, k.live, DOMAIN g.ins)
  IN  IF kept = g THEN g ELSE CollapseTrivialPhis(kept)
SCCP(g) == CHOOSE h \in {Propagate(g, k) : k \in {Known(g)}} : TRUE

-----------------------------------------------------------------------------
(* GVN.  The state of the walk is [ins, to, seen]: the instructions, the   *)
(* value each value is replaced by, and the values that may replace later  *)
(* ones.                                                                   *)

IsC(w, v, n) == w.ins[v].op = "const" /\ w.ins[v].val = n
Inner(w, v) == w.to[w.ins[v].args[1]]

\* The operands that i, with its operands replaced, is equal to.
Identity(w, i) ==
  LET a == i.args IN
  CASE i.op = "add" -> {a[k] : k \in {k \in 1..2 : IsC(w, a[3 - k], 0)}}
    [] i.op = "sub" -> {a[k] : k \in {k \in {1} : IsC(w, a[2], 0)}}
    [] i.op = "mul" -> {a[k] : k \in {k \in 1..2 : IsC(w, a[3 - k], 1)}}
    [] OTHER -> {}

\* Sums and differences with a negation.
Rewritten(w, i) ==
  LET a == i.args IN
  CASE i.op = "add" /\ w.ins[a[2]].op = "neg" -> [i EXCEPT !.op = "sub", !.args = <<a[1], Inner(w, a[2])>>]
    [] i.op = "sub" /\ IsC(w, a[1], 0) -> [i EXCEPT !.op = "neg", !.args = <<a[2]>>]
    [] i.op = "sub" /\ ~ IsC(w, a[1], 0) /\ w.ins[a[2]].op = "neg" -> [i EXCEPT !.op = "add", !.args = <<a[1], Inner(w, a[2])>>]
    [] OTHER -> i

Cancelled(w, bools, i) ==
  LET a == i.args IN
  CASE i.op = "neg" /\ w.ins[a[1]].op = "neg" -> {Inner(w, a[1])}
    [] i.op = "not" /\ w.ins[a[1]].op = "not" -> {Inner(w, a[1])} \cap bools
    [] i.op = "max" /\ a[1] = a[2] -> {a[1]}
    [] OTHER -> {}

Canonical(i) ==
  IF i.op \in {"equal", "max"} /\ i.args[1] > i.args[2] THEN [i EXCEPT !.args = <<@[2], @[1]>>] ELSE i

\* Mutant: a value replaces all later ones, also where it is not computed.
MutantLeaders(dom, b, w, i) == {u \in w.seen : w.ins[u] = i}

\* The values in scope in block b that are the same as i.
Leaders(dom, b, w, i) == {u \in w.seen : w.ins[u] = i /\ <<w.at[u], b>> \in dom}

Number(bools, dom, b, w, v) ==
  LET i == [w.ins[v] EXCEPT !.args = [k \in DOMAIN @ |-> w.to[@[k]]]]
      first == Identity(w, i)
      j == Rewritten(w, i)
      same == IF first # {} THEN first ELSE Cancelled(w, bools, j)
      n == Canonical(j)
      all == IF same # {} THEN same ELSE Leaders(dom, b, w, n)
  IN  IF i.op \notin Pure \cup {"const", "given", "fixed"} THEN w
      ELSE IF all # {} THEN [w EXCEPT !.to[v] = Min(all)]
      ELSE [w EXCEPT !.ins[v] = n, !.seen = @ \cup {v}]

\* The blocks in an order in which each comes after those that dominate it.
Preorder(g, dom) ==
  SetToSortSeq(Alive(g), LAMBDA a, b : LET d(x) == Cardinality({y \in Blocks(g) : <<y, x>> \in dom})
                                       IN  d(a) < d(b) \/ (d(a) = d(b) /\ a < b))

GVN(g) ==
  LET dom == Dominance(g)
      bools == Bools(g)
      walk == FlattenSeq([k \in DOMAIN Preorder(g, dom) |-> LET b == Preorder(g, dom)[k] IN [n \in DOMAIN g.code[b] |-> <<b, g.code[b][n]>>]])
      start == [ins |-> g.ins, to |-> [v \in DOMAIN g.ins |-> v], seen |-> {}, at |-> [v \in DOMAIN g.ins |-> BlockOf(g, v)]]
      done == FoldLeft(LAMBDA w, p : CHOOSE x \in {Number(bools, dom, p[1], y, p[2]) : y \in {w}} : TRUE, start, walk)
  IN  Substituted([g EXCEPT !.ins = done.ins], done.to)

-----------------------------------------------------------------------------
(* Branches on a negation, dead code.                                      *)

\* Negations v starts with, and the value behind them.
Stripped(g, v) ==
  LET bare[n \in 0..Cardinality(Ids(g)), u \in Ids(g)] ==
        IF Op(g, u) = "not" THEN bare[n + 1, g.ins[u].args[1]] ELSE [nots |-> n, value |-> u]
  IN  bare[0, v]

\* The block branches on zero or not zero.
TwoWay(g, b) == g.test[b] # 0 /\ Cardinality(Out(g, b)) = 2 /\ {g.edge[e].when : e \in Out(g, b)} = {0, Default}
Swapped(n) == IF n = 0 THEN Default ELSE 0

CanonBranchNot(g) ==
  LET bare(b) == Stripped(g, g.test[b])
      turned(b) == TwoWay(g, b) /\ bare(b).nots % 2 = 1
  IN  [g EXCEPT !.test = [b \in DOMAIN @ |-> IF TwoWay(g, b) THEN bare(b).value ELSE @[b]],
                !.edge = [e \in DOMAIN @ |-> IF turned(@[e].src) THEN [@[e] EXCEPT !.when = Swapped(@)] ELSE @[e]]]

\* Tests and effects, statements or not, are needed, ...
Roots(g) == {v \in Ids(g) : HasEffect(Op(g, v))} \cup (Range(g.test) \ {0})

\* ... and all they are computed from.
DCE(g) ==
  LET needed[S \in SUBSET Int] ==
        LET T == S \cup UNION {Operands(g, v) : v \in S} IN IF T = S THEN S ELSE needed[T]
  IN  Compacted(g, Blocks(g), Edges(g), needed[Roots(g)])

-----------------------------------------------------------------------------
(* LICM.                                                                   *)

BackEdges(g, dom) == {e \in Edges(g) : <<g.edge[e].dst, g.edge[e].src>> \in dom}
Latches(g, dom, h) == {g.edge[e].src : e \in BackEdges(g, dom) \cap In(g, h)}
Headers(g, dom) == {g.edge[e].dst : e \in BackEdges(g, dom)} \ {Entry}
LoopBody(g, dom, h) ==
  {h} \cup Reached({<<a[2], a[1]>> : a \in Arrows(g)}, Latches(g, dom, h) \ {h}, h)

\* What computing a value costs, its operands included; what the runtime
\* knows before it starts costs nothing but the value itself.
Cost(g) ==
  LET rtc[v \in Ids(g)] ==
        Op(g, v) \in {"const", "given"} \/ (Op(g, v) \in Pure /\ \A a \in Operands(g, v) : rtc[a])
      cost[v \in Ids(g)] ==
        LET operands == FoldLeft(LAMBDA n, a : n + cost[a], 0, g.ins[v].args)
        IN  IF rtc[v] THEN 1
            ELSE CASE Op(g, v) \in Reads -> 2 + (IF g.ins[v].args = <<>> THEN 1 ELSE operands)
                   [] Op(g, v) \in Pure  -> 1 + operands
                   [] OTHER              -> 3
  IN  cost

\* The values of the loop at h that are the same in each iteration.
Invariant(g, body) ==
  LET inside == UNION {ToSet(g.code[b]) : b \in body}
      inv[v \in Int] == v \notin inside \/ (/\ Op(g, v) \in Pure \cup {"const", "undef", "given", "fixed"}
                                            /\ \A a \in Operands(g, v) : inv[a])
  IN  {v \in inside : inv[v]}

\* What moves out of the loop at h: what is invariant, computed in each
\* iteration, and dear, with the invariant operands it needs.
Hoisted(g, dom, h) ==
  LET body == LoopBody(g, dom, h)
      inv == Invariant(g, body)
      cost == Cost(g)
      always(v) == \A l \in Latches(g, dom, h) : <<BlockOf(g, v), l>> \in dom
      worth(v) == Op(g, v) \in Pure \cup {"given", "fixed"} /\ always(v) /\ cost[v] >= 4
      needed[S \in SUBSET Int] == LET T == S \cup (UNION {Operands(g, v) : v \in S} \cap inv) IN IF T = S THEN S ELSE needed[T]
  IN  needed[{v \in inv : worth(v)}]

Ascending(S) == SetToSortSeq(S, <)

\* The values H move to the block p before the loop; it is made if the loop
\* is not entered from a single block that leads nowhere else and has no phis.
Hoist(g, dom, h, H) ==
  LET body == LoopBody(g, dom, h)
      entering == {e \in In(g, h) : g.edge[e].src \notin body}
      left == [b \in Blocks(g) |-> SelectSeq(g.code[b], LAMBDA v : v \notin H)]
      preds == {g.edge[e].src : e \in entering}
      clean == Cardinality(entering) = 1 /\ \A b \in preds : Cardinality(Out(g, b)) = 1 /\ Phis(g, b) = {}
      p == 1 + Max(Blocks(g))
      e1 == 1 + Max(Edges(g))
      merged == IF Cardinality(entering) = 1 THEN {} ELSE Phis(g, h)
      twin(v) == v + Max(DOMAIN g.ins)
      outer(v) == IF v \in merged THEN twin(v) ELSE g.ins[v].args[CHOOSE e \in entering : TRUE]
      phi(v) == [g.ins[v] EXCEPT !.args = [e \in {e1} \cup (DOMAIN @ \ entering) |-> IF e = e1 THEN outer(v) ELSE @[e]]]
      pre(v) == [g.ins[v] EXCEPT !.args = [e \in entering |-> @[e]]]
  IN  IF clean THEN LET b == CHOOSE b \in preds : TRUE IN [g EXCEPT !.code = [left EXCEPT ![b] = @ \o Ascending(H)]]
      ELSE [edge |-> [e \in Edges(g) \cup {e1} |-> IF e = e1 THEN [src |-> p, dst |-> h, when |-> Default]
                                                   ELSE IF e \in entering THEN [g.edge[e] EXCEPT !.dst = p] ELSE g.edge[e]],
            code |-> [b \in Blocks(g) \cup {p} |-> IF b = p THEN Ascending({twin(v) : v \in merged}) \o Ascending(H) ELSE left[b]],
            ins  |-> [v \in DOMAIN g.ins \cup {twin(u) : u \in merged} |->
                        IF v \in DOMAIN g.ins THEN IF v \in Phis(g, h) THEN phi(v) ELSE g.ins[v]
                        ELSE pre(v - Max(DOMAIN g.ins))],
            test |-> [b \in Blocks(g) \cup {p} |-> IF b = p THEN 0 ELSE g.test[b]]]

\* The loops something is moved out of, the inner ones first.
ToHoist(g, dom) ==
  LET able == {h \in Headers(g, dom) : Hoisted(g, dom, h) # {}}
  IN  {h \in able : LoopBody(g, dom, h) \cap able = {h}}

-----------------------------------------------------------------------------
(* Switches.                                                               *)

\* The operand a test for equality with a constant compares, and the constant.
Compared(g, b) ==
  IF g.test[b] = 0 THEN {}
  ELSE LET i == g.ins[g.test[b]] IN
       {k \in 1..2 : /\ i.op = "equal" /\ Op(g, i.args[k]) = "const"
                     /\ (k = 2 => Op(g, i.args[1]) # "const")}

IfsToSwitch(g) ==
  LET able(b) == TwoWay(g, b) /\ Compared(g, b) # {}
      k(b) == CHOOSE n \in Compared(g, b) : TRUE
      args(b) == g.ins[g.test[b]].args
      when(e) == IF e.when = 0 THEN Default ELSE g.ins[args(e.src)[k(e.src)]].val
  IN  [g EXCEPT !.test = [b \in DOMAIN @ |-> IF able(b) THEN args(b)[3 - k(b)] ELSE @[b]],
                !.edge = [e \in DOMAIN @ |-> IF able(@[e].src) THEN [@[e] EXCEPT !.when = when(g.edge[e])] ELSE @[e]]]

\* The values used in another block than their own.
External(g) ==
  {a \in Ids(g) : \/ \E v \in Ids(g) : a \in Operands(g, v) /\ BlockOf(g, v) # BlockOf(g, a)
                  \/ \E b \in Blocks(g) : g.test[b] = a /\ b # BlockOf(g, a)}

DefaultEdge(g, b) == {e \in Out(g, b) : g.edge[e].when = Default}

\* Mutant: that block may be reached from elsewhere.
MutantSplices(g, outside, b) ==
  {n \in {g.edge[e].dst : e \in DefaultEdge(g, b)} :
     /\ n \notin {b, Entry} /\ g.test[b] # 0 /\ g.test[b] = g.test[n]
     /\ \A v \in ToSet(g.code[n]) : ~ Statement(Op(g, v)) /\ Op(g, v) # "phi"
     /\ \A v \in outside \cap ToSet(g.code[n]) : Op(g, v) = "const"}

\* The block that becomes part of the switch of b: the default of b, if it
\* switches on the same value, is reached from b only, has no statement, and
\* defines nothing but constants that are used elsewhere -- none of them in
\* a block both lead to, whose phis would get two operands from b.
Splices(g, outside, b) ==
  {n \in {g.edge[e].dst : e \in DefaultEdge(g, b)} :
     /\ n \notin {b, Entry} /\ g.test[b] # 0 /\ g.test[b] = g.test[n]
     /\ \A v \in ToSet(g.code[n]) : ~ Statement(Op(g, v)) /\ Op(g, v) # "phi"
     /\ Cardinality(In(g, n)) = 1
     /\ \A v \in outside \cap ToSet(g.code[n]) : Op(g, v) = "const"
     /\ LET shared == {g.edge[e].dst : e \in Out(g, n)} \cap {g.edge[e].dst : e \in Out(g, b) \ DefaultEdge(g, b)}
        IN  \A t \in shared : \A p \in Phis(g, t) : Operands(g, p) \cap ToSet(g.code[n]) = {}}

\* The edges of n leave from b, but those for numbers b has an edge for.
Splice(g, b, n) ==
  LET cases == {g.edge[e].when : e \in Out(g, b) \ DefaultEdge(g, b)}
      gone == DefaultEdge(g, b) \cup {e \in Out(g, n) : g.edge[e].when \in cases}
  IN  [g EXCEPT !.edge = [e \in DOMAIN @ \ gone |-> IF @[e].src = n THEN [@[e] EXCEPT !.src = b] ELSE @[e]]]

\* The constants of blocks that are gone move to the end of the entry.
Relocated(g, outside) ==
  LET dead == UNION {ToSet(g.code[b]) : b \in Blocks(g) \ Alive(g)}
      moved == {v \in dead \cap outside : Op(g, v) = "const"}
  IN  Pruned([g EXCEPT !.code = [b \in DOMAIN @ |-> IF b = Entry THEN @[b] \o Ascending(moved)
                                                    ELSE SelectSeq(@[b], LAMBDA v : v \notin moved)]])

-----------------------------------------------------------------------------
(* Execution.                                                              *)

Start(input) == [at |-> Entry, from |-> 0, env |-> [v \in {} |-> 0], memory |-> input, shown |-> <<>>]

\* Reads of memory that is not written, and what draws and calls return,
\* depend on their place and on the effects before them.
Given(place, clock) == (place + clock) % 3

\* Value v is computed.
Computed(g, r, v) ==
  LET i == g.ins[v]
      a == [k \in DOMAIN i.args |-> r.env[i.args[k]]]
      put(n) == [r EXCEPT !.env = [u \in DOMAIN @ \cup {v} |-> IF u = v THEN n ELSE @[u]]]
      clock == Len(r.shown)
      index == IF a = <<>> THEN 0 ELSE a[1]
  IN  CASE i.op = "const" -> put(i.val)
        [] i.op = "undef" -> put(-1)
        [] i.op \in {"given", "fixed"} -> put(Given(i.val + r.memory[2], index))
        [] i.op = "load" -> put(r.memory[1])
        [] i.op = "draw" -> put(Given(i.val, clock))
        [] i.op = "call" -> [put(Given(i.val, clock)) EXCEPT !.shown = Append(@, <<i.val>> \o a)]
        [] i.op = "store" -> [r EXCEPT !.memory[1] = a[1], !.shown = Append(@, <<i.val>> \o a)]
        [] i.op \in Pure -> put(Apply(i.op, a))
        [] OTHER -> r

Ended(r) == r.at = 0

\* One block: its phis together, its values in order, its branch.
Step(g, r) ==
  IF Ended(r) THEN r
  ELSE LET b == r.at
           phis == Phis(g, b)
           entered == [r EXCEPT !.env = [v \in DOMAIN @ \cup phis |-> IF v \in phis THEN r.env[g.ins[v].args[r.from]] ELSE @[v]]]
           done == FoldLeft(LAMBDA q, v : CHOOSE x \in {Computed(g, y, v) : y \in {q}} : TRUE, entered, g.code[b])
           taken == IF g.test[b] = 0 THEN Out(g, b) ELSE Selected(g, b, done.env[g.test[b]])
           e == CHOOSE e \in taken : TRUE
       IN  IF taken = {} THEN [done EXCEPT !.at = 0] ELSE [done EXCEPT !.at = g.edge[e].dst, !.from = e]

-----------------------------------------------------------------------------
NotRunning == <<>>
Init ==
  /\ source \in Programs /\ graph = source /\ ext = {}
  /\ pass = "sccp" /\ again = FALSE /\ changed = FALSE
  /\ run = NotRunning

\* Pass p has made g of the graph; q is next.
Becomes(p, q, g) ==
  /\ pass = p /\ pass' = q /\ graph' = g /\ changed' = (changed \/ g # graph)
  /\ UNCHANGED <<source, ext, again, run>>

RunSCCP == Becomes("sccp", "gvn", SCCP(graph))
RunGVN == Becomes("gvn", "branch", GVN(graph))
RunCanonBranchNot == Becomes("branch", "dce", CanonBranchNot(graph))
RunDCE == Becomes("dce", IF again THEN "done" ELSE "licm", DCE(graph))

HoistSome ==
  LET dom == Dominance(graph)
  IN  \E h \in ToHoist(graph, dom) : Becomes("licm", "licm", Hoist(graph, dom, h, Hoisted(graph, dom, h)))
HoistNothing == ToHoist(graph, Dominance(graph)) = {} /\ Becomes("licm", "switch", graph)

RunIfsToSwitch ==
  /\ pass = "switch" /\ pass' = "splice"
  /\ graph' = IfsToSwitch(graph) /\ ext' = External(graph) /\ changed' = (changed \/ graph' # graph)
  /\ UNCHANGED <<source, again, run>>

\* In which order the blocks are looked at, and which are looked at twice, is left open.
SpliceSome ==
  \E b \in Alive(graph) : \E n \in Splices(graph, ext, b) : Becomes("splice", "splice", Splice(graph, b, n))

Rebuild ==
  /\ pass = "splice" /\ pass' = (IF changed THEN "sccp" ELSE "done")
  /\ graph' = Relocated(graph, ext) /\ ext' = {}
  /\ again' = changed
  /\ UNCHANGED <<source, changed, run>>

Run ==
  /\ pass = "done" /\ run = NotRunning
  /\ \E input \in Inputs : run' = <<Start(input), Start(input), 0>>
  /\ UNCHANGED <<source, graph, ext, pass, again, changed>>

\* Two blocks of the result for each of the source, as there may be one before each loop.
StepBoth ==
  /\ run # NotRunning /\ run[3] < MaxSteps /\ ~ (Ended(run[1]) /\ Ended(run[2]))
  /\ run' = <<Step(source, run[1]), Step(graph, Step(graph, run[2])), run[3] + 1>>
  /\ UNCHANGED <<source, graph, ext, pass, again, changed>>

Next ==
  \/ RunSCCP \/ RunGVN \/ RunCanonBranchNot \/ RunDCE \/ HoistSome \/ HoistNothing
  \/ RunIfsToSwitch \/ SpliceSome \/ Rebuild \/ Run \/ StepBoth

Spec == Init /\ [][Next]_vars

-----------------------------------------------------------------------------
(* Properties                                                              *)

TypeOK ==
  /\ pass \in {"sccp", "gvn", "branch", "dce", "licm", "switch", "splice", "done"}
  /\ again \in BOOLEAN /\ changed \in BOOLEAN /\ ext \subseteq DOMAIN source.ins \cup DOMAIN graph.ins
  /\ \A e \in Edges(graph) : {graph.edge[e].src, graph.edge[e].dst} \subseteq Blocks(graph)
  /\ DOMAIN graph.test = Blocks(graph)

\* Between the passes a program is in SSA form: an operand is computed on all
\* paths before it is used, the operands of a phi belong to the edges into its
\* block, no value is computed in two places, and what is tested exists.
WellFormed ==
  pass # "splice" =>
    LET dom == Dominance(graph)
        alive == Alive(graph)
        before(a, b, k) == LET c == BlockOf(graph, a) IN IF c = b THEN Place(graph, b, a) < k ELSE <<c, b>> \in dom
    IN  \A b \in alive :
          /\ \A k \in DOMAIN graph.code[b] :
               LET v == graph.code[b][k] IN
               IF Op(graph, v) = "phi"
               THEN /\ DOMAIN graph.ins[v].args = In(graph, b)
                    /\ \A e \in In(graph, b) : graph.edge[e].src \in alive =>
                         before(graph.ins[v].args[e], graph.edge[e].src, 1 + Len(graph.code[graph.edge[e].src]))
               ELSE \A a \in Operands(graph, v) : before(a, b, k)
          /\ graph.test[b] # 0 => before(graph.test[b], b, 1 + Len(graph.code[b]))
          /\ \A c \in Blocks(graph) \ {b} : ToSet(graph.code[b]) \cap ToSet(graph.code[c]) = {}
          /\ IsInjective(graph.code[b])

\* The optimized program shows what the source shows, effect by effect and
\* with the same operands, and ends where it ends.
SameEffects ==
  run # NotRunning =>
    LET s == run[1]
        r == run[2]
    IN  /\ IsPrefix(s.shown, r.shown) \/ IsPrefix(r.shown, s.shown)
        /\ Ended(s) => Len(r.shown) <= Len(s.shown)
        /\ Ended(r) => Len(s.shown) <= Len(r.shown)
        /\ Ended(s) /\ run[3] = MaxSteps => Ended(r)
        /\ Ended(s) /\ Ended(r) => s.shown = r.shown

\* A block has one operand for a phi, however many edges lead from it there.
ParallelOperandsAgree ==
  pass # "splice" =>
    \A b \in Alive(graph) : \A v \in Phis(graph, b) : \A e, f \in In(graph, b) :
      graph.edge[e].src = graph.edge[f].src => graph.ins[v].args[e] = graph.ins[v].args[f]
=============================================================================
