------------------------------- MODULE Build --------------------------------
(***************************************************************************)
(* The build of an engine (build/engine.py, build/compile.py,              *)
(* build/node.py and compile_mode of backend/_opt/driver.pyx).  The four   *)
(* modes are built one after the other, their callbacks one after the      *)
(* other.  While a callback is traced it is given places in tables that    *)
(* outlive it: the ROM and the debug messages of the project, the global   *)
(* memory of the mode.  A callback that fails is traced a second time with *)
(* the tables as its first attempt left them.  The places end up as        *)
(* numbers in nodes that all callbacks of the mode share, and the engine   *)
(* that runs them has only what is packaged.                               *)
(*                                                                         *)
(* What a callback does is the sequence of what it asks of the tables,     *)
(* each on a branch of its own: an error ends its branch, not the          *)
(* callback.  An attempt that stops before the last one stands for any     *)
(* exception the visitor raises.                                           *)
(***************************************************************************)
EXTENDS Integers, Sequences, FiniteSets, SequencesExt, TLC

CONSTANTS Projects,   \* [validate, notify, options, modes]
          Capacity    \* BLOCK_MEMORY_SIZES: the sizes of the blocks that have one

VARIABLES
    project,
    at,        \* [mode, callback, attempt, ask]
    rom,       \* ProjectContextState.rom: [values, indexes]
    messages,  \* ProjectContextState.debug_str_mappings
    memory,    \* ModeContextState: [mappings, offsets]
    code,      \* the statements the attempt has added, one sequence for each branch
    nodes,     \* OutputNodeGenerator: [nodes, indexes]
    results,   \* what compile_mode returned for the modes built so far
    ended      \* "building", "failed", "validated" or "packaged"

vars == <<project, at, rom, messages, memory, code, nodes, results, ended>>

NoEntries == [x \in {} |-> x]
None == -1
Validating == project.validate
Mode == project.modes[at.mode]
Callback == Mode.callbacks[at.callback]
Ask == Callback.asks[at.ask]

(* Declared resources.                                                      *)

Before(fields, n) == FlattenSeq(SubSeq(fields, 1, n - 1))
\* Mutant: a group takes one id.
MutantSkin(fields) == [names |-> FlattenSeq(fields), start |-> [n \in DOMAIN fields |-> n - 1]]
\* skin: a sprite or a group of sprites for each field, ids in the order of the names.
Skin(fields) == [names |-> FlattenSeq(fields), start |-> [n \in DOMAIN fields |-> Len(Before(fields, n))]]
Effects(fields) == Skin(fields)
Particles(fields) == Skin(fields)
\* buckets and its like: one id for each field.
Buckets(fields) == [names |-> FlattenSeq(fields), start |-> [n \in DOMAIN fields |-> n - 1]]
Instructions(fields) == Buckets(fields)
InstructionIcons(fields) == Buckets(fields)
Declared(kind, fields) ==
    CASE kind = "skin" -> Skin(fields)
      [] kind = "effect" -> Effects(fields)
      [] kind = "particle" -> Particles(fields)
      [] kind = "bucket" -> Buckets(fields)
      [] kind = "instruction" -> Instructions(fields)
      [] kind = "icon" -> InstructionIcons(fields)
\* build_skin and its like: the n-th name has id n - 1.
Published(resources) == [kind \in DOMAIN resources |-> Declared(kind, resources[kind]).names]

(* The tables.                                                              *)

\* ReadOnlyMemory: NaN, infinity and its opposite come first (Emission reads them there).
FirstValues == <<-1001, -1002, -1003>>
RomBlock == 3
\* Mutant: the index is taken after the values are added.
MutantInRom(r, values) ==
    IF values \in DOMAIN r.indexes THEN r
    ELSE [values |-> r.values \o values, indexes |-> r.indexes @@ (values :> Len(r.values \o values))]
InRom(r, values) ==
    IF values \in DOMAIN r.indexes THEN r
    ELSE [values |-> r.values \o values, indexes |-> r.indexes @@ (values :> Len(r.values))]

\* Mutant: the codes start again in each callback.
MutantCoded(known, m) == IF m \in DOMAIN known THEN known ELSE known @@ (m :> at.ask)
Coded(known, m) == IF m \in DOMAIN known THEN known ELSE known @@ (m :> Cardinality(DOMAIN known) + 1)

\* A global has a place in some modes; offset is None when that place is given out.
Unavailable(g) == Mode.name \notin DOMAIN g.blocks
BlockOf(g) == g.blocks[Mode.name]
Offset(mem, g) == IF g.offset # None THEN g.offset ELSE IF BlockOf(g) \in DOMAIN mem.offsets THEN mem.offsets[BlockOf(g)] ELSE 0
GivenOut(mem, g) == IF g.offset # None THEN mem.offsets ELSE (BlockOf(g) :> Offset(mem, g) + g.size) @@ mem.offsets
\* Mutant: what a failed attempt has mapped is mapped again.
MutantMapped(mem, g) == [mappings |-> (g :> Offset(mem, g)) @@ mem.mappings, offsets |-> GivenOut(mem, g)]
Mapped(mem, g) ==
    IF g \in DOMAIN mem.mappings THEN mem
    ELSE [mappings |-> mem.mappings @@ (g :> Offset(mem, g)), offsets |-> GivenOut(mem, g)]
TooLarge(mem, g) ==
    /\ g \notin DOMAIN mem.mappings /\ g.offset = None
    /\ BlockOf(g) \in DOMAIN Capacity /\ Offset(mem, g) + g.size > Capacity[BlockOf(g)]
NoMemory == [mappings |-> NoEntries, offsets |-> NoEntries]

(* Nodes.                                                                   *)

Leaf(n) == [func |-> "", value |-> n, args |-> <<>>]
Function(f, args) == [func |-> f, value |-> 0, args |-> args]
Get(block, index) == Function("Get", <<Leaf(block), Leaf(index)>>)
Execute(args) == Function("Execute", args)

NoNodes == [nodes |-> <<>>, indexes |-> NoEntries]
\* Mutant: a node is found by its function alone.
MutantNodeOf(gen, tree) == {t \in DOMAIN gen.indexes : t.func = tree.func /\ t.value = tree.value}
NodeOf(gen, tree) == {tree} \cap DOMAIN gen.indexes
\* add: the arguments first, every node once.
RECURSIVE Add(_, _)
Add(gen, tree) ==
    IF NodeOf(gen, tree) # {} THEN gen
    ELSE LET with == FoldLeft(LAMBDA g, arg : Add(g, arg), gen, tree.args)
             IndexOf(arg) == with.indexes[CHOOSE t \in NodeOf(with, arg) : TRUE]
         IN  [nodes |-> Append(with.nodes, [tree EXCEPT !.args = [n \in DOMAIN tree.args |-> IndexOf(tree.args[n])]]),
              indexes |-> with.indexes @@ (tree :> Len(with.nodes))]
Added(gen, tree) == LET after == Add(gen, tree) IN [gen |-> after, index |-> after.indexes[CHOOSE t \in NodeOf(after, tree) : TRUE]]
-----------------------------------------------------------------------------
Start(m, c) == [mode |-> m, callback |-> c, attempt |-> 1, ask |-> 1]
NoResult == [callbacks |-> <<>>, nodes |-> <<>>, published |-> NoEntries]
Init ==
    /\ project \in Projects
    /\ at = Start(1, 1)
    /\ rom = [values |-> FirstValues, indexes |-> NoEntries]
    /\ messages = NoEntries /\ memory = NoMemory
    /\ code = <<>> /\ nodes = NoNodes
    /\ results = <<NoResult>>
    /\ ended = "building"

InCallback == ended = "building" /\ at.mode <= Len(project.modes) /\ at.callback <= Len(Mode.callbacks)
\* An order given to a callback that has none fails the build.
Refused == Callback.order # 0 /\ ~Callback.ordered
Tracing == InCallback /\ ~Refused /\ ~(at.attempt = 1 /\ at.ask > Callback.stops)
Asking(kind) == Tracing /\ at.ask <= Len(Callback.asks) /\ Ask.kind = kind
Emit(statements) == code' = Append(code, statements) /\ at' = [at EXCEPT !.ask = at.ask + 1]

\* CompilationError: the second attempt has a new context and the old tables.
\* Mutant: the second attempt goes on in the context of the first.
MutantRetry ==
    IF at.attempt = 1 THEN at' = [at EXCEPT !.attempt = 2, !.ask = 1] /\ UNCHANGED <<code, ended>>
    ELSE ended' = "failed" /\ UNCHANGED <<at, code>>
Retry ==
    IF at.attempt = 1 THEN at' = [at EXCEPT !.attempt = 2, !.ask = 1] /\ code' = <<>> /\ UNCHANGED ended
    ELSE ended' = "failed" /\ UNCHANGED <<at, code>>

\* get_unchecked of an array of constants, at an index only known at run time.
ReadArray ==
    /\ Asking("array")
    /\ rom' = InRom(rom, Ask.values)
    /\ Emit(<<Get(RomBlock, rom'.indexes[Ask.values])>>)
    /\ UNCHANGED <<project, messages, memory, nodes, results, ended>>

\* key and is_scored of an entity: arrays that the mode keeps, by the ids of its archetypes.
ReadArchetype ==
    /\ Asking("archetype")
    /\ rom' = InRom(rom, Mode[Ask.array])
    /\ Emit(<<Get(RomBlock, rom'.indexes[Mode[Ask.array]])>>)
    /\ UNCHANGED <<project, messages, memory, nodes, results, ended>>

\* _GlobalField, _GlobalPlaceholder: a global, at one of its fields.
UseGlobal ==
    /\ Asking("global")
    /\ IF Unavailable(Ask.global) \/ TooLarge(memory, Ask.global) THEN Retry /\ UNCHANGED memory
       ELSE /\ memory' = Mapped(memory, Ask.global)
            /\ Emit(<<Get(BlockOf(Ask.global), memory'.mappings[Ask.global] + Ask.field)>>)
            /\ UNCHANGED ended
    /\ UNCHANGED <<project, rom, messages, nodes, results>>

\* error, notify: with the trace of the calls that lead to it.
Notify ==
    /\ Asking("message")
    /\ IF project.notify
       THEN messages' = Coded(messages, Ask.message) /\ Emit(<<Function("DebugLog", <<Leaf(messages'[Ask.message])>>), Function("DebugPause", <<>>)>>)
       ELSE Emit(<<>>) /\ UNCHANGED messages
    /\ UNCHANGED <<project, rom, memory, nodes, results, ended>>

\* _OptionField: where the engine keeps the options of a level, if the mode has any.
OptionBlocks == [play |-> 4, watch |-> 4, preview |-> 6]
ReadOption ==
    /\ Asking("option")
    /\ Emit(<<IF Mode.name \in DOMAIN OptionBlocks THEN Get(OptionBlocks[Mode.name], Ask.option - 1) ELSE Leaf(project.options[Ask.option].default)>>)
    /\ UNCHANGED <<project, rom, messages, memory, nodes, results, ended>>

\* A sprite, a clip ... by its field and its index in the group.
UseResource ==
    /\ Asking("resource")
    /\ Emit(<<Function(Ask.resource, <<Leaf(Declared(Ask.resource, Mode.resources[Ask.resource]).start[Ask.field] + Ask.index)>>)>>)
    /\ UNCHANGED <<project, rom, messages, memory, nodes, results, ended>>

\* An attempt fails with what it has asked so far.
Stop ==
    /\ InCallback /\ ~Refused
    /\ \/ at.attempt = 1 /\ at.ask > Callback.stops
       \/ at.attempt = 2 /\ Callback.broken /\ at.ask > Len(Callback.asks)
    /\ Retry
    /\ UNCHANGED <<project, rom, messages, memory, nodes, results>>

\* ValueError, outside any attempt.
Refuse ==
    /\ InCallback /\ Refused
    /\ ended' = "failed"
    /\ UNCHANGED <<project, at, rom, messages, memory, code, nodes, results>>

Result(index) == [results EXCEPT ![at.mode].callbacks = Append(@, index)]
\* callback_to_cfg has returned: optimize_cfg and nodes.add, unless only validating.
Finish ==
    /\ Tracing /\ at.ask > Len(Callback.asks) /\ ~(at.attempt = 2 /\ Callback.broken)
    /\ at' = Start(at.mode, at.callback + 1)
    /\ code' = <<>>
    /\ IF Validating THEN results' = Result(0) /\ UNCHANGED <<nodes, ended>>
       ELSE IF ~Callback.optimizes THEN ended' = "failed" /\ UNCHANGED <<nodes, results>>
       ELSE \E added \in {Added(nodes, Execute([n \in DOMAIN code |-> Execute(code[n])]))} :
              nodes' = added.gen /\ results' = Result(added.index) /\ UNCHANGED ended
    /\ UNCHANGED <<project, rom, messages, memory>>

\* compile_mode returns; the next one has a new ModeContextState and a new OutputNodeGenerator.
FinishMode ==
    /\ ended = "building" /\ at.mode <= Len(project.modes) /\ at.callback > Len(Mode.callbacks)
    /\ results' = Append([results EXCEPT ![at.mode] =
                            [callbacks |-> @.callbacks, nodes |-> nodes.nodes, published |-> Published(Mode.resources)]],
                         NoResult)
    /\ at' = Start(at.mode + 1, 1)
    /\ memory' = NoMemory /\ nodes' = NoNodes
    /\ UNCHANGED <<project, rom, messages, code, ended>>

\* package_engine packs the configuration and the ROM with the modes; validate_engine packs nothing.
Configuration == [n \in DOMAIN project.options |-> project.options[n].name]
Package ==
    /\ ended = "building" /\ at.mode > Len(project.modes)
    /\ ended' = IF Validating THEN "validated" ELSE "packaged"
    /\ UNCHANGED <<project, at, rom, messages, memory, code, nodes, results>>

Next ==
    \/ ReadArray \/ ReadArchetype \/ UseGlobal \/ Notify \/ ReadOption \/ UseResource
    \/ Stop \/ Refuse \/ Finish \/ FinishMode \/ Package
Spec == Init /\ [][Next]_vars
-----------------------------------------------------------------------------
\* Every table is a table, and places come from it.
TypeOK ==
    /\ ended \in {"building", "failed", "validated", "packaged"}
    /\ at.attempt \in 1 .. 2
    /\ \A values \in DOMAIN rom.indexes : rom.indexes[values] \in Nat
    /\ \A m \in DOMAIN messages : messages[m] \in Nat
    /\ \A g \in DOMAIN memory.mappings : memory.mappings[g] \in Nat

(* The engine that runs what was packaged.                                  *)

\* The tree an index stands for: what a node refers to has been added before it.
Decoded(m) ==
    LET list == results[m].nodes
        tree[n \in DOMAIN list] == [list[n] EXCEPT !.args = [i \in DOMAIN list[n].args |-> tree[list[n].args[i] + 1]]]
    IN  tree
GlobalAsks(m) == {a \in UNION {ToSet(c.asks) : c \in ToSet(project.modes[m].callbacks)} : a.kind = "global"}
\* The cells a callback of the mode reaches when it asks for the field of a global.
CellsOf(m, a) ==
    UNION {LET c == project.modes[m].callbacks[k]
               tree == Decoded(m)[results[m].callbacks[k] + 1]
           IN  {<<tree.args[n].args[1].args[1].value, tree.args[n].args[1].args[2].value>> : n \in {n \in DOMAIN c.asks : c.asks[n] = a}}
           : k \in DOMAIN project.modes[m].callbacks}

\* The engine reads one of the values, at an index it computes.
Reads(tree, values) ==
    LET at0 == tree.args[2].value
    IN  tree.func = "Get" /\ tree.args[1].value = RomBlock /\ SubSeq(rom.values, at0 + 1, at0 + Len(values)) = values

\* What statements do is what the callback asked for.
Means(m, ask, statements) ==
    IF ask.kind = "message"
    THEN IF project.notify
         THEN /\ [n \in DOMAIN statements |-> statements[n].func] = <<"DebugLog", "DebugPause">>
              /\ {x \in DOMAIN messages : messages[x] = statements[1].args[1].value} = {ask.message}
         ELSE statements = <<>>
    ELSE LET tree == statements[1]
             mode == project.modes[m]
         IN  /\ Len(statements) = 1
             /\ CASE ask.kind = "array" -> Reads(tree, ask.values)
                  [] ask.kind = "archetype" -> Reads(tree, mode[ask.array])
                  [] ask.kind = "global" -> tree.func = "Get" /\ tree.args[1].value = ask.global.blocks[mode.name]
                  [] ask.kind = "option" ->
                       IF mode.name = "tutorial" THEN tree = Leaf(project.options[ask.option].default)
                       ELSE tree.func = "Get" /\ Configuration[tree.args[2].value + 1] = project.options[ask.option].name
                  [] ask.kind = "resource" ->
                       /\ tree.func = ask.resource
                       /\ results[m].published[ask.resource][tree.args[1].value + 1] = mode.resources[ask.resource][ask.field][ask.index + 1]

\* At run time the nodes of a callback, its indices into the ROM, its debug
\* codes and its resource ids mean what the callback meant when it was
\* traced, whatever failed attempts, other callbacks and other modes have put
\* into the same tables (driver.pyx, engine.py, context.py, node.py).
NodesMean ==
    ended = "packaged" =>
      \A m \in DOMAIN project.modes : \A k \in DOMAIN project.modes[m].callbacks :
        LET tree == Decoded(m)[results[m].callbacks[k] + 1]
            asks == project.modes[m].callbacks[k].asks
        IN  /\ tree.func = "Execute" /\ Len(tree.args) = Len(asks)
            /\ \A n \in DOMAIN asks : tree.args[n].func = "Execute" /\ Means(m, asks[n], tree.args[n].args)

\* The callbacks of a mode find a field of a global in one and the same cell
\* of its block, which the block has, and no other field is there (context.py,
\* get_global_base).
GlobalsKeepApart ==
    ended = "packaged" =>
      \A m \in DOMAIN project.modes : \A a \in GlobalAsks(m) :
        /\ \E cell \in CellsOf(m, a) : CellsOf(m, a) = {cell} /\ (cell[1] \in DOMAIN Capacity => cell[2] < Capacity[cell[1]])
        /\ \A b \in GlobalAsks(m) \ {a} : CellsOf(m, a) \cap CellsOf(m, b) = {}

\* A build fails because of a callback that cannot be compiled, a global the
\* mode does not have, or globals that do not fit: a failed attempt alone uses
\* up nothing (compile.py, callback_to_cfg).
FailsForAReason ==
    ended = "failed" =>
      \E m \in 1 .. at.mode :
        LET Placed(block) == {g \in {a.global : a \in GlobalAsks(m)} : g.offset = None /\ g.blocks[project.modes[m].name] = block}
        IN  \/ \E c \in ToSet(project.modes[m].callbacks) : c.broken \/ (~c.optimizes /\ ~Validating) \/ (c.order # 0 /\ ~c.ordered)
            \/ \E a \in GlobalAsks(m) : project.modes[m].name \notin DOMAIN a.global.blocks
            \/ \E block \in DOMAIN Capacity : FoldSet(LAMBDA g, n : g.size + n, 0, Placed(block)) > Capacity[block]
=============================================================================
