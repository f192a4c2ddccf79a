# A verification of sonolus.py

sonolus.py compiles Python to the node graphs of the Sonolus rhythm game engine and
serves the result during development. This directory holds TLA+ models of its
logic, the TLC configurations that check them on small instances, and TLAPS
proofs that hold for every value of the constants. Paths and line numbers are
those of the repository.

To check a model: `tlc -config Slots.cfg MCSlots`. To check a proof:
`tlapm CfgCleanupProofs.tla`.

## 1. The system

    callback (Python)
       |  script/internal/visitor.py, context.py      front end: traces the
       v                                              callback, emits blocks
    control flow graph of statements
       |  _opt/ir.pyx          into an arena, which carries the program from pass to pass
       |  midend.pyx           cfg cleanup, SSA construction, sccp, gvn, dce, licm, switches
       |  lower.pyx            if-conversion, out of SSA, coalescing, allocation of temporaries
       v  emit.pyx, node.py    engine nodes, which interpret.py gives their meaning
    engine data  --- build/engine.py, level.py, project.py, collection.py --->  site
                                                         ^
                                    build/dev_server.py: console, rebuilds, HTTP

The main thread of the development server executes a rebuild while the input thread
waits for the prompt and the HTTP thread serves the directory the rebuild writes.
Within a rebuild the modes are compiled callback by callback; the callbacks share
the tables of the project (ROM, messages) and of the mode (globals, nodes). A pass
of the back end hands a fresh arena to the next, so passes meet only in the program
they pass on; each is modelled by what it makes of its input, with an execution of
input and output side by side where the question is whether the meaning was kept.

| component | state | operations | hard part | module |
|---|---|---|---|---|
| dev server, threads (`dev_server.py`) | prompt event, command queue, HTTP server | read a line, execute a command, shut down | three threads, an event that is cleared after it was waited for | `CommandLoop`, `Console` |
| dev server, rebuild (`dev_server.py`, `project.py`, `collection.py`, `utils.py`) | project state, collection, syntax tree cache, time of the last build, the directory served | import, load, convert, compile, write | edits and downloads during a rebuild, a step that fails, caches that outlive a rebuild | `Rebuild` |
| build of modes and packaging (`engine.py`, `compile.py`, `driver.pyx`, `node.py`, `context.py`) | ROM, messages, globals, node table | trace a callback, try again, compile, package | the first attempt leaves its traces in tables that others share | `Build` |
| tracing visitor, contexts, scopes (`visitor.py`, `context.py`) | the block being filled, what each name is bound to | every statement and expression | what is known while compiling meets what is not, at joins and loop headers | `Tracing` |
| containers (`containers.py`, `array_like.py`) | cells, size, links | insert, remove, sort, iterate | arguments that are cells of the container; removals that move cells | `Containers`, `Sorting`, promise `Collection` |
| streams (`stream.py`) | offsets, the engine's streams | write, read, iterate over frames | keys between frames, several streams for one value | `Streams` |
| archetypes, levels (`archetype.py`, `level.py`, `driver.pyx`) | layout of each class, imports, entities | declare, derive, list, build a level, spawn | inheritance, one callback for a family of classes, indices given late | `Archetypes` |
| numbers (`num.py`, `native.py`, `kernels.pyx`, `interpret.py`) | who knows the operands | fold or emit each operation | zeros, infinities, rounding, operations that raise | `Numbers` |
| arena and marshalling (`ir.pyx`, `midend.pyx`) | instructions, blocks, edges by number | marshal in, rebuild, leave SSA, marshal out | everything is numbered anew each time | `Arena` |
| CFG cleanup (`_Cleaner`) | chains of blocks, edges, entry | seven transforms to a fixpoint | each sweeps over a graph it changes; the entry moves; termination | `CfgCleanup` |
| SSA construction (`_SSABuilder`) | definitions per block, incomplete phis, users | fill, seal, read, remove a trivial phi | phis read before their operands are known, or trivial only later | `SSABuild` |
| SCCP, GVN, DCE, LICM, switches (`midend.pyx`) | lattices, value tables, chains of tests | one per pass | optimism, loads moved out of loops, chains spliced | `Midend` |
| dominators and loops (`flow.py`, `analysis.pyx`) | numbers, idom, tour, loops | iterate to a fixpoint | irreducible graphs | `Dominators` |
| if-conversion (`_IfConv`) | costs, batches | find a branch, turn it into an expression | an arm evaluated although its guard is false | `IfConversion` |
| out of SSA and lowering (`_Lower`, `_UnSSA`) | decision and depth per value | fold, keep or drop a value; split edges; copy | a read moved over an effect; copies on the wrong side of a test | `Lower` |
| copies of phis (`_seq_parallel_copies`) | pending moves, place of each value | emit a move, break a cycle | a move destroys what another still reads | `ParallelCopy` |
| coalescing (`_coalesce`) | webs, neighbours, extras with generations | merge or refuse a pair | interference kept incrementally | `Coalesce` |
| placement (`_bump`, `_pack`) | offsets | place a temporary | fragmentation, boundaries | `Packing` |
| liveness and allocation (`compute_liveness`, `allocate_func`) | live sets, worklist | visit a block, drop dead stores, rewrite places | partial writes of arrays, loops without exit, effects in dead stores | `Allocation` |
| emission and interpreter (`emit.pyx`, `lower.pyx`, `node.py`, `interpret.py`) | jump table, node table | normalise switches, fuse read-modify-write, emit, run | order of evaluation, elided blocks, cases with stride | `Emission`, `Trees` |
| archives and item files (`collection.py`) | - | - | none: input and output around a dictionary | not modelled |

The properties that make each of them correct are those of section 2; `PROJECT.json`
lists the hazards, at the line where each bites, with the properties that cover them.

## 2. The models

Everything is in one of three forms. A *service* (`CommandLoop`, `Rebuild`) runs for
ever and interleaves actors. A *pass* (`Lower`, `Midend`, `Build`, ...) takes its input
apart in steps and ends; what it made is then run next to what it was given. A *data
structure* (`Containers`) takes any sequence of operations.

Modules of one layer share a root for TLC (`MCServer`, `MCMiddle`, `MCSlots`,
`MCLowering`, `MCFrontend`). Its variable `part` says which of them a behaviour is
about; the variables of the others keep one value, and a property of a module is
stated as `part = "..." => M!Property`. The programs checked are defined in the root,
or in `MiddlePrograms`, `ArenaPrograms`, `BranchPrograms` and `TracedPrograms`
beside it. The threads of the console are a part of `MCLowering` (`console`), the one part that needs
fairness. What placement and coalescing assume of interference is in `Temporaries`.
`Allocation` extends `Packing` and takes its actions for the steps of the placement, so
the properties of the one are stated, and proved, of the other.

**CommandLoop** has one action per step of the three threads. `stdin`, `prompt`,
`queue` are what the threads share; `mainPc`, `inputPc`, `httpPc` are where they
are. A line is abstracted to what the parser makes of it: a command, nothing, an
error, or the end of the input. The event's `wait` and `clear` are two actions,
because anything may happen between them. A request is in the hands of its client: the
serving thread, of which there is one and which has no timeout, leaves `handle` whenever the
client lets it, perhaps never. After quit or an interrupt the main thread waits for it, until
a further interrupt (`InterruptAgain`). **Console** is the promise: prompt,
command, completion, in turn.

**Rebuild** models `RebuildCommand.execute`, the import, the project build,
conversion of levels, the writing of items and then of assets, and the time
stamp, each a step of its own that may fail where the code can raise. The publication can
raise at any file: an item cannot be encoded or a file not be opened, then nothing of it
is written; or the writing stops and leaves a part (`torn`, for an asset). `run_server` catches
the exception and the console goes on over what is there. `partial` says that a publication has
begun and none has completed since; `owed` are the assets such publications did not bring. A developer
edits source and resources between any two steps; a player fetches a level and
later its assets. Contents are reduced to where they came from: an engine is a
pair of revisions (imported modules, parsed trees), an asset is named by its
content. `quiet` says which kinds of edit have not happened since the rebuild began.

**Build** traces one request of one callback per step: an array for the ROM, a debug
message, an option of the engine, a global at a place given or to be found, a resource
behind its group, the order of a callback. `at` is where the build is (mode, callback,
attempt, request). A first attempt may stop anywhere; the second starts over with the
tables as they are. Each request stands on a branch of its own, so one that can only fail
at run time ends its branch and not the callback. Then nodes are interned in the table of
the mode, and the engine that was packaged runs what its callbacks were traced to do.

**Tracing** walks over the syntax tree with `todo`, what is left of the recursion of
the visitor. `trace` is the context: the block being filled and what each name is
bound to, a number known now, a place, a reference, an object, a function. Bindings
meet where contexts meet. Then the source runs as Python runs it (`python`) and the
emitted blocks as the engine runs them (`machine`), on the same inputs.

**Containers** keeps cells, and gives operations either values or cells of the
container itself; an operation given a cell reads it when the code does, and `result.given` is
the value it had when the operation was called. `AliasedInserts` says whether `insert` may be
given a cell of its own array. `iter` is an iterator with a ghost set of what it delivered.
**Sorting** holds the insertion sort, the heap sort, the search of `FrozenNumSet` (in turn below
`SearchFrom` elements, by halving from there on) and the merge sort of
linked entities as recursive functions of a loop's state: an array and a position of it, or
the links with what has been taken, cut and attached. Loops over links count down (`most`,
`MaxLength`) where the code relies on the list having an end; the proofs show that no list
the container can hold ever runs into that bound. **Collection** is the promise, over values: a sequence, a set,
a finite function, a stably sorted list. Each of its operations is bound to the position, key
and value it was given and to what it returned, which both modules record in `result`: storing,
removing or returning another element is no step of it.

**Streams** declares, writes and reads; the engine's streams are modelled from their
use. **Archetypes** declares classes, lists some for a mode, builds a level, and lets
entities write and read their own fields and, by reference, those of others. A field has a name
and a data name (`imported(name=...)`), under which levels and replays know it; the keys of a
class are a dict, in which two fields of one data name are one entry with the index of the last.
Nothing refuses that: the level then fills only one of the two, and `FieldsReadBack` says nothing of these
two but holds of the fields behind them. A default of another size than its field is refused. **Numbers**
takes one operation through front end, optimizer and runtime, each operand known to the
first, to the second, or to the third only; floating point is scaled down to few bits.

**Arena** carries a program in, through a rebuild, SSA form and out; instructions name
their operands by number. **CfgCleanup** keeps for each block the number of its
statements and whether its test is constant; heads stand for chains of source blocks.
A transform that sweeps over the blocks is one action, which does one `block` in a step and
sees what it has made of the blocks before it; pruning and the merging of exits are one step
each. `Slack` is the 100000 by which the code's cap exceeds blocks² + edges; the run sets it
to 0. When no transform changes anything, program (`at`, a block) and result (`pos`, a place
in a chain) are executed side by side: both at once when they are at the same block, else
the one that is at an empty block alone.
**SSABuild** fills one block per step in reverse postorder; a read walks the
predecessors, incomplete phis wait for their block to be sealed, trivial phis are
removed together with those that become trivial through them. **Midend** has one action
per pass of `midend_standard`, LICM one per loop.

**IfConversion** rewrites all branches found in a batch, then asks `Lower` for its
decisions and runs the result with conditional expressions evaluated lazily.
**Lower** decides on one value per step, in ascending order as the code does, from
the decisions on its operands: drop, keep in a temporary, or fold into its uses. A
value is the term it was computed from; a read of memory is named by the number of
effects before it, so a read that crossed an effect shows. Copies of one edge happen at
once, which is what `CopiesAreParallel` proves of their sequence. **ParallelCopy** emits
one move per step and executes it; the lists `to_do` and `ready` are sets, so the result
does not depend on the order of phis. **Coalesce** takes one pair per step, in any order;
the union-find forest is represented by the root it finds. **Packing** places one
temporary per step, for the three strategies; its `Init` takes any interference.
**Allocation** derives the interference (forward worklist, backward worklist), chooses
the strategy, places with the actions of `Packing` and drops dead stores; before that it merges
temporaries in any way the properties of `Coalesce` allow. Then the program runs on
temporaries and on slots in step. **Dominators** numbers blocks, iterates immediate
dominators, tours the tree. **Emission** normalises switches, fuses, emits and interns;
the result is unfolded from the node table and run by the interpreter's rules. Numbers are
counted in halves, in memory, in what is drawn and in constants, so an index can be a product
of which a factor is not whole.

### Runs

| run | instance | shows |
|---|---|---|
| `rebuild` | `Rebuild`: 1 level in the source, 1 in the resources, 1 edit of each kind, without a converter 2 publications that fail, at any file; with one, no such failure, or 1 and no edit of resources. `Build`: 10368 projects of four modes, capacity 4 | after a publication that completed, and wherever earlier ones stopped, levels name assets that exist, are listed as they are, and embed the published engine; a player who read such a level gets its assets also while later ones stop half way; after one that stopped, only what it owes is missing; the published source is that of the build; a packaged engine does what its callbacks were traced to do, globals stay apart, and a build fails for a reason only |
| `middle` | cleanup: all programs of 3 blocks in which only the first has parallel edges, 6 flows of 4 blocks with 0 to 2 statements each, copies allowed or not. SSA: all graphs of 3 blocks with 5 bodies over 3 temporaries, of which the first block writes or swaps some; 7 hard graphs of 5 blocks over one. Midend: joins, counting and nested loops, chains of tests, shared arms, cases; inputs of 3 values | the same statements, values, effects and results; phis match edges, and none without two writes that meet; SSA form stays well formed after every pass; cleanup ends within blocks² + edges rounds, and neither side runs alone for ever |
| `slots` | 4 temporaries of size 0 to 3 in 6 slots, every interference, every set of copies; allocation: 3 blocks, 8 bodies, 6 flows, two scalars and an array of 2; all graphs of up to 4 blocks with up to 2 edges each | temporaries that interfere never share a slot; packing gives up only where bump does; liveness is the least solution and the allocated program shows the same values; allocation ends; dominators and loops are what their definitions say |
| `lowering` | copies among 4 temporaries and a constant; programs over 7 flows with caps 2 and 9 and both ways out of SSA; diamonds, two branches after one another and branches in a loop, with a budget of 8; switches of up to 4 cases and every form of access; 1832 programs for the arena, with up to 3 choices each; the console with 3 commands and 4 lines | the moves have the effect of the parallel copy; same operands of effects and tests; trees within the cap, nothing dear in a loop it was outside of, a fresh temporary for a pure cycle only; an expression computes only what its branch guarded; nodes run as the graph does; nothing is lost or confused by renumbering; the threads implement `Console`; no wake-up is lost; a typed line is read; quit and interrupt stop the server unless it stays for ever in a request |
| `frontend` | containers of 4 cells over 2 keys with 2 values, heap sort and binary search from 3 elements; 297 traced programs with up to 4 inputs; 4 declarations of streams, 3 times; 10 projects of archetypes with levels of up to 2 entities and 1 spawned; numbers in quarters with 3 significant bits at compile time and 2 at run time | containers implement `Collection`, arguments that are their own cells included, but for `insert`; iterators deliver everything once; links stay a list; a callback logs what Python logs and compiles when it uses numbers only; streams are replayed; fields read back; folding agrees with the runtime |
| `rebuild_resources`, `ssa_build_entry`, `midend_effects`, `lowering_shifted`, `tracing_stale`, `streams_frames`, `archetypes_derived` | smallest instances that show it | the disagreements of section 3 |

Bounds. *Three blocks* contain a straight line, a diamond's arm, a self-loop, a
loop over two blocks, a loop that is never left; the flows of four and five blocks
add nesting, irreducibility and shared exits, each of which changes what a pass
does. *Four temporaries* are what two disjoint swaps, a cycle with a tail, or two
webs of two need. *Four lines* hold a command typed ahead, a refused line, and
quit or end of input behind them. *One edit of each kind* may fall into any step of
any of unboundedly many rebuilds; a second edit repeats the first with the same
caches. *Two publications that fail* are one that leaves a torn asset, and one that stops on what the
first left. *Four cells* are full after four insertions, let an iterator stand before, at
and behind the hole of a removal, and with a heap from three elements make all three
sorts run and, with `SearchFrom` 3 for the 16 of the code, both searches. A depth cap of 2 stands for the 1000 of `_MAX_FOLD_DEPTH`, an `ArmBudget` of 8
for that of if-conversion, `SetLimit` 2 for the 100 values SCCP keeps apart, capacity 4
for the 4096 cells of a block: each is passed by some programs and met exactly by
others. *Two bits* make rounding at run time differ from rounding while compiling.
`MoreSteps`, `MaxSteps`, `MaxBlocks`, `MaxChoices` and `Patience` bound executions: one
full turn of every loop and the beginning of the next, which is when a value of the
previous iteration can be mistaken for one of this.

Fairness. `CommandLoop` (`Fairness`; for the run `FairSpec` of `MCLowering`): weak fairness of the input and the main thread, and of the serving
thread once it may stop (`HttpStop`), which the operating system gives a thread that can run;
none of the user or of a client, so no property depends on a line being typed, on a request
arriving, or on a request that has arrived being completed. `StopsWhenTold` therefore ends in the process
gone or the serving thread in a request for ever. `CfgCleanup` and `Allocation`: weak fairness of the only
thread, for `AlwaysRejoins` and `Terminates`. Nothing else is assumed.

Deadlock is not checked where the modelled computation ends: a pass that is done, a
server that has exited, a container that is only used as long as one likes. In `rebuild`
it is: the server never ends, and a build that is over stutters explicitly (`Built`), so
a build that got stuck would show.

## 3. Disagreements found

Shown by a run:

* **`rebuild_resources`** (`dev_server.py:143`). `last_build_time` is read after
  the build. A resource edited while the rebuild runs, after it was loaded, is
  older than that time and is never reloaded. The command says it rebuilds "with the
  latest changes from source files" (line 58).
* **`ssa_build_entry`** (`midend.pyx:1252`). A block with one incoming edge passes a
  read on to its predecessor, also when it is the entry. When cleanup has let the
  empty block before a loop go (`midend.pyx:629`), the entry is the loop head: a read
  of a temporary no one wrote follows the back edge for ever, or takes the value the
  *next* iteration computes. The comment at line 1053 promises the undefined value.
* **`midend_effects`** (`midend.pyx:4111`). `_rsw_block_empty` looks for statement
  roots only. A block whose single instruction is a native call with an effect counts
  as empty, a chain of switches is spliced past it, and the call disappears.
* **`lowering_shifted`** (`emit.pyx:318`). An index that is a product of two becomes index and
  stride of a strided access, which the comment at line 284 calls equal to the plain one. The
  interpreter asks of each that it is whole (`interpret.py:560`): an access at 2 * 1.5 fails
  although 3 is an index. `SameExecution` holds up to such accesses.
* **`tracing_stale`** (`context.py:395`). At the back edge of a loop only numbers are
  compared and stored. A reference rebound in the body still means, behind the loop,
  what it meant before it; `docs/concepts/constructs.md:115` says such a variable must
  have a single definition, and no error is raised.
* **`streams_frames`** (`stream.py:367`). `iter_items_since_previous_frame` starts at
  `next_key(prev_time())`, which is `prev_time()` itself when no key follows: the last
  item is delivered again in the next frame.
* **`archetypes_derived`** (`driver.pyx:339`). `_derived_base_` is inherited by the
  subclasses of a derived archetype, which are then compiled as the base; their own
  callbacks and fields are dropped without an error.

Stated in a module, violated by the code, not given a run of their own:

* `AssetsAreWhole` (`Rebuild`, `collection.py:312`). An asset is skipped if a file of its name
  exists, for the name is the hash of the content (line 313). A write that stopped half way leaves
  such a file too: every later publication skips it and succeeds, and the asset stays cut short.
* `QuitExits` (`CommandLoop`, `dev_server.py:360`). `httpd.shutdown()` waits for the one serving
  thread, which has no timeout: a client that does not complete its request keeps
  the process alive after quit ("Exit the development server.", line 86).
* `InsertsGivenValue` (`Containers`, `containers.py:234`; false with `AliasedInserts = TRUE`). `insert` shifts the elements before it copies its
  argument. Given an element of the same array at or behind the index, it stores the one that
  was before it; the docstring says "a copy of the given value" (line 221).
* `ParallelOperandsAgree` (`Midend`, `midend.pyx:4160`). Splicing can leave two parallel
  edges with different operands of one phi.
* `FloorsAlike` and `PowersCompile` (`Numbers`). `1 // 0.1` folds to 9 and gives 10 at
  run time; a constant power too large for a float stops the compiler.

Seen while modelling, not stated:

* The collection of the previous rebuild is reused (`dev_server.py:136`): a level deleted from the
  project stays listed. While a publication writes, or after it failed, levels may embed another
  engine than the one published, be listed without a file, or name assets that are missing.
* Two fields of one data name (`archetype.py:971`) are accepted; a level fills one of them.
* A level kept by a rebuild is converted again (`project.py:45`), so a converter sees
  its own output. `project_state` is replaced before the build succeeds
  (`dev_server.py:134`): after a failed rebuild the debug codes of the engine still
  served are decoded with another mapping, or none.
* `for` over a tuple skips its `else`; captures of `match` are not seen by the scan for
  names a loop writes; a generator that has ended runs again from its last `yield`.
* `entity_data()` is treated like `imported()`: a level can set it, although the docstring
  and `docs/concepts/resources.md` say otherwise. Levels built from Python write zeros
  where `imported(default=)` says something else.
* NaN compared with itself folds to true when both operands are one value, and
  `x * 0` folds to 0. The ROM raises `OverflowError` for numbers beyond 32 bits.
* LICM may hoist an operation that cannot be computed out of a loop that runs zero times.

## 4. Proofs

Each proof follows the same line: an inductive invariant `IInv`, established by
`Init`, preserved by every action (one lemma or step per action), implying the
property; the temporal theorem combines the three.

* **CommandLoopProofs**, for any commands and any number of lines. `IInv` adds to
  the types that exactly one of prompt, reader, queue and main thread holds the
  turn (`Turn`), and that a reader that is done left no prompt. From it:
  `TypeCorrect`, `TurnIsUnique`, `CommandsAreExclusive`, `WakeupsAreKept`, and
  `ConsoleRefinement`: initial states map to initial states of `Console`, each step
  to a step or a stutter.
* **RebuildProofs**, for any levels and any number of edits and of publications that fail, each at any file. Each property alone is far
  from inductive, because a rebuild spreads over many steps. `IInv` adds: a collection
  holds every asset its items name (`Good`); how far it is linked at each step
  (`Staged`); what was written agrees with it (`Copied`); what a level file names is in the
  directory, about to be written, or owed since a publication failed (`Covered`); assets that
  were cut short are owed for ever (`TornStays`); unless a publication is incomplete, the directory is
  consistent in itself (`Consistent`); and that a rebuild whose source stays
  unchanged carries that source along, caches included (`Sourced`). From it:
  `TypeCorrect`, `SiteIsComplete`, `PlayersAreServed`, `EnginesAreCurrent`,
  `SourceIsPublished`.
* **ContainersProofs**, for any capacity and any entries that are pairs of a key and a
  value (`EntriesAssumption`). `IInv`, for sets and maps: cells in use hold entries
  (`Typed`), no two alike (`Distinct`), and an iterator has delivered nothing that lies
  ahead of it (`Delivered`). The last needs the one before: a removal moves the last cell
  into the hole, in front of or behind the iterator. From it: `EntriesAreDistinct`,
  `IteratorsAreExact`. `ContainersRefine` is `ImplementsCollection` as a whole: each step
  over the cells is a step of `Collection` with the same arguments and results, or a stutter. It assumes
  `~AliasedInserts`, without which it is false (`InsertsGivenValue`, section 3). For sets and maps it is
  `StepRefines`, where the cardinality of what is stored, which decides whether
  `Collection` may add, is `size` (`StoredSize`). For arrays it is `ListNext`, element
  by element of what the first cells hold (`ListStep`), with arguments that are cells of
  the array itself. For linked entities it is `LinkedNext`: there is an order of all of
  the entities that the references follow (`Ordering`). `LinksStayAList` follows from it.
  The sorts and the search come first, for any elements whose keys and values are integers. A loop is a recursive function of its state, so it is one induction on the steps left
  (`LoopInduction`) that it has a result (`LoopExists`) and that the result is what the
  loop promises. An element that sinks leaves the prefix in order but for itself
  (`InOrderBut`); a node that sifts leaves the heap but for itself (`IsHeapBut`), and the
  tail that was taken off the heap stays above the rest (`Unheaped`). Each result
  rearranges the array, by composition of swaps; insertion sort keeps equal elements in
  place because it swaps neighbours that are out of order only. `SortCorrect`: whichever
  algorithm is chosen, the array is rearranged, in order, and stable if a key was
  given. `SearchCorrect`: in a sorted array either search finds a key exactly if it is there.
  For linked entities the proofs keep, next to the references, the order `v` they follow: a
  merge moves one entity of `v` forward at a time (`Rotated`, `MergeLinked`), a pass merges
  neighbouring stretches of it (`PassPairs`), and the rank an entity had before the sort
  bounds the stretch it may be in (`Block`), which is why the order stays stable and no entity
  is lost. `SortLinkedEntitiesIs`: the result is one list of the same entities, in order,
  stable, and mirrored by the backward references.
* **DominatorsProofs**, for any graphs whose edges lead to their own blocks
  (`GraphsAreWhole`; generators jump into loops, so nothing else is known of them). Of the
  reverse postorder it is needed only that every block but the entry has a predecessor with a smaller
  number (`Shape`), for which the numbering keeps that a finished block was found from one that is
  finished later (`FoundFrom`). The iteration comes from above: what is on every path to a
  block is on every path to the immediate dominator it has so far (`Tree`), since it comes before both
  fingers and the one that goes up stays below it (`Between`). After a sweep that changes
  nothing (`Settled`), what is above a block is above each of its predecessors or the block itself,
  and so on every path (`AboveIsOnEveryPath`). The tour keeps that parents enclose
  their children and that of two blocks apart one is left before the other is come to (`Tour`).
  From it: `ExactDominance`. For loops: the header above the other one of two loops that share a block is
  the outer one, because the least block of it that the other dominates would have a smaller predecessor
  there (`OuterHolds`); an inner header is in strictly more loops (`InnerIsDeeper`), so the
  deepest is the innermost. From it: `NestedLoops`, and both together `ExactShape`.
* **ParallelCopyProofs**, for any temporaries, leaves and request. What is needed
  besides the property: where each source's value is (`loc`), that a destination is
  overwritten only when its value has been read or saved, and that in a set of moves
  left in `ready` someone is still in `to_do`. From it: `CopiesAreParallel`,
  `BystandersAreKept`, `AllMovesMade`, `SourcesAreKept`.
  `FreshOnlyForPureCycles` (finitely many temporaries) counts the fresh ones. `Behind` a
  destination is the least set closed under reading (`BehindIsLeast`), and a pure cycle is
  behind each of its destinations (`CycleIsOne`). When nothing is ready, the moves
  still to be made have as many sources as destinations, so they permute them
  (`ReadAmongThemselves`) and whoever is saved is on a pure cycle
  (`PendingIsOnPureCycles`). `FreshInv` adds that the map from a fresh temporary to the
  cycle of the value saved in it is one to one, and that a cycle none of whose values is
  saved still waits as a whole (`CyclesAreWhole`); so at the end the map is onto as well.
* **AllocationProofs**, about coalescing, for any finite set of temporaries and any symmetric interference.
  The neighbours of a web are exact only together with what the generations say: an
  extra counts while its stamp is not older than the last merge of its web
  (`GenerationsAscend`), and the slot of a web is its least member (`LeastIsMember`). From
  it: `NeighboursAreExact`, `SlotsAreAlwaysSafe`, `CopiesAreNeeded`.
* **CfgCleanupProofs**, for any program and any number of rounds. The invariant is not
  about executions but about the graph: `Equivalent`, that program and graph simulate one
  another from their entries on. A simulation lets the program pass empty blocks while the
  graph waits at a block of any kind, and the graph pass empty blocks once the program has
  ended. Each sweep step makes a simulation of the new graph from one of the old, along a map
  from places of the new graph to places of the old that the old graph follows
  (`AlikeWhenFollowed`): the same edges for every value the test can take (`SameEdges`: folding, dropping
  edges, pruning), edges led past an empty block (`RedirectedSound`: threading, merging exits), a
  chain behind another (`SplicedSound`: absorbing, copying). Merging exits is right only because it
  comes right behind the pruning: the entry can then be one of the empty exits only if it
  is all that is left (`EntryEndsAlone`), so the merge never drops the entry. The
  executions do not choose, a simulation does: at a block of both it may prefer to let the program
  go on alone. `LockstepFollows` shows that going on together is never wrong. From it:
  `CleanupIsSound`, `CleanupIsTransparent` (`SameTraces`) and `CleanupTypeCorrect`.
* The same module about placement, for any temporaries, sizes, block size and symmetric
  interference. `IInv`: unplaced temporaries have no offset, bump has used exactly the
  slots below `index`, placed slots are disjoint, inside the block, and without holes.
  From it: `PlacementIsSafe`, `PlacementIsInBlock`, `FirstFitIsCompact`. That packing is
  `NeverWorseThanBump` (`PackingIsNeverWorse`) is an argument about a sum: when no
  fit is left for a temporary, the slots covered so far have no hole, so they and its
  own are more than the block has; and a set of temporaries covers no more slots than
  the sum of their sizes (`SumsBound`), which is what bump needs.
* The same module about the analysis, for any flow of any finite number of blocks. `AnalysisInv` says of
  the two worklists what makes their order irrelevant: what has been recorded lies below
  every solution of the equations, and a block that does not satisfy them is waiting to
  be visited. When the worklist is empty the record is a solution, hence the least one
  (`AnalysisIsLeast`). With it: the interference of the analysis is symmetric, each step
  of the placement is a step of `Packing`, and temporaries that are live together are
  `AllocatedApart`; `AllocationIsNeverWorse` carries over in the same way.
  And for any program, `AllocationIsTransparent`: the program before and
  the program after, run in step, show the same. It is a simulation, whose relation is
  that every live temporary is held by its slots (`ExecutionInv`). It is kept by a write
  because what is written interferes with what is live behind it, by a dead store because
  nothing that was dropped is live, by a merge because copies of one web hold one value
  (`NamesInv`), and by an edge because what is live into a block is live out of those
  before it. `AllocTypeCorrect` is the type invariant.

* **StreamsProofs**, for any declarations that fit into the engine's streams, any times and
  any number of writes. `Recorded`: each number that was written has a place, a stream of
  the engine and a key, which holds it, and a stream has no key but those its elements were
  written at. It is kept because places are apart (`PlacesApart`): a field begins where the
  one before it ends (`LaidFacts`), the streams of a group are `Larger(1, size)` apart, and the
  zeros around a number of a data field are at odd halves, its numbers at even ones
  (`DataStreamFacts`). `Position`, of an iterator: what lies on its side before its current
  key has been delivered and nothing else, and a current key that the stream does not have
  means that nothing is left (`Progress`, `ProgressGoesOn`). From them:
  `WhatIsStreamedIsDelivered` (`StreamsDeliver`) and `StreamsTypeCorrect`. That a frame
  delivers no key twice is false (`FramesDeliverOnce`): the theorem allows a bounded iterator the
  key it starts from.

`AllocationProofs` derives induction over the natural numbers (`NaturalInduction`) and the
equation of a recursive function (`Recursion`) from the fact that `<` is well founded; what
it says about sums and sequences of blocks rests on these two lemmas. `CfgCleanupProofs`
needs the first of them for the chains an execution passes through.

The assumptions are the named `ASSUME`s of the modules: disjoint kinds of
cells, symmetric interference, natural sizes and bounds, entries that are pairs of
integers, no `insert` of an array's own element (for `ContainersRefine`), a level that is not both in the source and in the resources, `Quit` among the commands,
programs and graphs whose edges lead to their own blocks, declarations that fit into the
engine's streams and times below the `Infinity` that iterators end at.

Only model-checked:

* every liveness property, and `ImplementsConsole` with its fairness, `Terminates` of
  `Allocation` and `AlwaysRejoins` of `CfgCleanup` among them: the prover has no rule
  for fairness;
* `Archetypes`, `Arena`, `Build`, `Emission`, `SSABuild` and `Tracing`: what their programs
  mean is a `RECURSIVE` operator, which a module with a theorem may not reach;
* `IfConversion`, `Lower`, `Midend` and `Numbers`, which nothing keeps out of the
  prover's reach but have no proofs; of `Dominators` its type invariant.

## 5. Not modelled

* Archives and item files (`load_from_scp`, `load_from_source`): sequential input and
  output around a dictionary. Adding assets, linking and writing are in `Rebuild`.
* The text of commands, prompts and addresses; JSON and gzip; the 32-bit ROM;
  the text and diagram forms of programs (`_export_ssa`, `flow.py`).
* Declarations of the engine's interface (`runtime.py`, `text.py`, the easings): tables
  of names with no state.
* Tracing: classes, comprehensions, operators that are methods of values, and the
  wording of errors. Records and arrays, which only lay out numbers.
* Archetypes: life, score and entity info, which are places at fixed offsets.
* Arithmetic in full precision. `Numbers` keeps few bits; one function of each
  behaviour at the edge of its domain stands for `sin`, `exp` and their like. `Midend` and
  `Lower` compute with whole numbers or terms; the identities of `_emit_op` are left out.
* Widths and buffers: the code raises explicitly where a count does not fit
  (`ir.pyx:188`, `midend.pyx:1563`), far above what a small instance reaches; the sums of
  placement are kept in 64 bits.
* Pools of constants, places and temporaries in `Arena` are the values they hold; fused
  operations (`_fuse_ptr_rmw`) appear in `Emission` only.
* In `Allocation`, blocks addressed dynamically; constant indices stay in bounds. In
  `IfConversion`, the memo of `_is_rtc`, which can only refuse more. `_ssa_undef` is
  always empty (`midend.pyx:1352`).

## 6. What would come next

* Comprehensions and methods in `Tracing`; a composition of `Build` and `Rebuild` in
  which an engine is what was packaged rather than a pair of revisions.
* Proofs about `Midend` and `Lower`: that a pass keeps what a program means is so far an
  invariant of their runs.
