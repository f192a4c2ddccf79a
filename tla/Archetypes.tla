----------------------------- MODULE Archetypes -----------------------------
(***************************************************************************)
(* Archetypes (script/archetype.py): classes whose fields are places in    *)
(* the memory the engine gives every entity.  A project declares classes,  *)
(* the build lists some of them for a mode and gives them ids and imports  *)
(* (context.py, driver.pyx), a level names archetypes and fields, and      *)
(* callbacks, compiled once for a family of classes, read and write the    *)
(* fields of their own entity and, through references, of others.          *)
(*                                                                         *)
(* A class is its position in the program; a field of two numbers stands   *)
(* for every record.  A field has its name and the name it has in levels   *)
(* and in replays (imported(name=...)), and a default: no numbers or those *)
(* given.  What the engine does is modelled from the names and indices the *)
(* build gives it.                                                         *)
(***************************************************************************)
EXTENDS Integers, Sequences, FiniteSets, FiniteSetsExt, SequencesExt

CONSTANTS Programs,     \* [classes, registered]
          EntitySize,   \* the numbers of each kind an entity has (_ENTITY_DATA_SIZE and its siblings)
          LevelSize,    \* bound: the entities of a level
          MaxSpawned,   \* bound: the entities spawned while playing
          MaxWrites     \* bound on the writes of a behaviour

VARIABLES
    program,
    mro,         \* of each class, since its creation
    layout,      \* _imported_fields_ ... of each class; <<>> before _init_fields
    stage,       \* "declare", "built", "playing" or "error"
    archetypes,  \* ModeContextState.archetypes: classes in the order of their ids
    engine,      \* results["archetypes"]: [imports, exports, callbacks]
    level,       \* the entities of the level: [archetype, entries, values]: what each entry
                 \* names, and what the fields were constructed with
    entities,    \* [id, memory]: one run of numbers for each kind of storage
    exported,    \* ExportValue: entity -> (index -> value)
    truth,       \* what each field of each entity was last given
    writes

vars == <<program, mro, layout, stage, archetypes, engine, level, entities, exported, truth, writes>>

(* Classes.                                                                 *)

Classes == program.classes
Ids == DOMAIN Classes
IsArchetype(c) == Classes[c].kind # "mixin"

\* type.mro: the classes themselves before their bases, bases in their order.
RECURSIVE Merge(_)
Merge(lists) ==
    LET rest == SelectSeq(lists, LAMBDA l : l # <<>>)
        Free(c) == \A l \in ToSet(rest) : c \notin ToSet(Tail(l))
    IN  IF rest = <<>> THEN <<>>
        ELSE LET i == CHOOSE i \in DOMAIN rest : Free(rest[i][1]) /\ \A j \in 1 .. i - 1 : ~Free(rest[j][1])
                 c == rest[i][1]
             IN  <<c>> \o Merge([j \in DOMAIN rest |-> IF rest[j][1] = c THEN Tail(rest[j]) ELSE rest[j]])
MroOf(classes) ==
    FoldLeft(LAMBDA mros, c : Append(mros, <<c>> \o Merge([i \in DOMAIN classes[c].bases |-> mros[classes[c].bases[i]]]
                                                          \o <<classes[c].bases>>)),
             <<>>, [c \in DOMAIN classes |-> c])
Mro(c) == mro[c]
Subclass(c, d) == d \in ToSet(Mro(c))
Parents(c) == SelectSeq(Classes[c].bases, IsArchetype)

\* The attribute of a class: its own or that of the first class behind it that has it.
Attribute(c, Has(_)) ==
    LET having == SelectSeq(Mro(c), Has)
    IN  IF having = <<>> THEN 0 ELSE having[1]
\* Mutant: a class that inherits is built as what it inherits from.
MutantDerivedBase(c) == IF Parents(c) = <<>> THEN c ELSE Parents(c)[1]
DerivedBase(c) ==
    LET d == Attribute(c, LAMBDA e : Classes[e].kind = "derived")
    IN  IF d = 0 THEN c ELSE Classes[d].bases[1]
\* _callbacks_: the class whose function a callback runs, 0 for the default.
CallbackNames == {"update", "touch"}
Callbacks(c) == [cb \in CallbackNames |-> Attribute(c, LAMBDA e : cb \in Classes[e].callbacks)]

(* _init_fields.                                                            *)

Storages == {"imported", "exported", "memory", "shared"}
\* entity_data() declares what imported() does.
Storage(field) == IF field.storage = "data" THEN "imported" ELSE field.storage
Total(fields) == FoldLeft(LAMBDA n, f : n + f.size, 0, fields)
NoFields == [s \in Storages |-> <<>>]

\* The fields of the class and of the mixins its archetype parent does not have: a name
\* keeps the place of its first annotation and takes the value the class sees.
Specifiers(c) ==
    LET inherited == UNION {ToSet(Mro(p)) : p \in ToSet(Parents(c))}
        own == SelectSeq(Mro(c), LAMBDA e : e \notin inherited)
        all == FoldLeft(LAMBDA fs, e : fs \o Classes[e].fields, <<>>, Reverse(own))
        Final(name) == CHOOSE i \in DOMAIN all : all[i].name = name /\ \A j \in i + 1 .. Len(all) : all[j].name # name
        first == SelectSeq([i \in DOMAIN all |-> i], LAMBDA i : \A j \in 1 .. i - 1 : all[j].name # all[i].name)
    IN  [n \in DOMAIN first |-> all[Final(all[first[n]].name)]]

\* Mutant: the offsets of a class start again at zero.
MutantPlaced(fields, new) == Append(fields, [new EXCEPT !.offset = Total(SelectSeq(fields, LAMBDA f : f.class = new.class))])
Placed(fields, new) == Append(fields, [new EXCEPT !.offset = Total(fields)])

TooMany(fields) == Total(fields) > EntitySize

\* The default is not of the type of the field: the strict zip over its keys.
Mismatched(f) == f.default # <<>> /\ Len(f.default) # f.size

Error == [refused |-> TRUE]
Inherited(c, done) == IF Parents(c) = <<>> THEN NoFields ELSE done[Parents(c)[1]]
Fields(c, done) ==
    IF Len(Parents(c)) > 1 \/ Inherited(c, done) = Error THEN Error
    ELSE FoldLeft(
        LAMBDA fields, f :
            LET s == Storage(f)
                placed == Placed(fields[s], [name |-> f.name, data |-> f.data, size |-> f.size, default |-> f.default,
                                             class |-> c, offset |-> 0])
            IN  IF fields = Error THEN Error
                ELSE IF \E t \in Storages : \E g \in ToSet(fields[t]) : g.name = f.name THEN Error
                ELSE IF TooMany(placed) \/ Mismatched(f) THEN Error
                ELSE [fields EXCEPT ![s] = placed],
        Inherited(c, done), Specifiers(c))

\* A class and those it inherits from, as far as they are not done: the bases first.
Initialized(done, cs) ==
    FoldLeft(LAMBDA l, c : IF l[c] = <<>> THEN [l EXCEPT ![c] = Fields(c, l)] ELSE l,
             done, SetToSortSeq({c \in UNION {ToSet(Mro(d)) : d \in cs} : IsArchetype(c)}, <))
Failed(done) == \E c \in Ids : done[c] = Error
\* The first use of a class initializes it.
Layout(c) == IF layout[c] = <<>> THEN Initialized(layout, {c})[c] ELSE layout[c]

InitFields(c) ==
    /\ stage = "declare" /\ IsArchetype(c) /\ layout[c] = <<>>
    /\ layout' = Initialized(layout, {c})
    /\ stage' = IF Failed(layout') THEN "error" ELSE "declare"
    /\ UNCHANGED <<program, mro, archetypes, engine, level, entities, exported, truth, writes>>

(* Building: compile_mode.                                                  *)

Named(fields) == FoldLeft(LAMBDA ks, f : ks \o [i \in 1 .. f.size |-> <<f.data, i>>], <<>>, fields)
DefaultOf(f) == IF f.default = <<>> THEN [i \in 1 .. f.size |-> 0] ELSE f.default
Defaults(fields) == FoldLeft(LAMBDA ds, f : ds \o DefaultOf(f), <<>>, fields)
\* _imported_keys_, _exported_keys_: a key two fields have keeps the place of the first in
\* the dict and gets the index of the last.
Keys(fields) ==
    LET all == Named(fields)
        first == SelectSeq([i \in DOMAIN all |-> i], LAMBDA i : \A j \in 1 .. i - 1 : all[j] # all[i])
    IN  [n \in DOMAIN first |-> all[first[n]]]
Index(fields, key) == FoldLeft(LAMBDA at, i : IF Named(fields)[i] = key THEN i - 1 ELSE at, 0,
                               [i \in DOMAIN Named(fields) |-> i])

\* Listed archetypes, then those they inherit from; the latter exist at compile time only.
ArchetypeIds(registered) ==
    FoldLeft(LAMBDA as, c : as \o SelectSeq(Mro(c), LAMBDA e : IsArchetype(e) /\ e \notin ToSet(as)), registered, registered)

\* What is compiled for the base of a derived archetype serves all that derive from it.
Entry(c, done) ==
    LET base == DerivedBase(c)
        fields == done[base].imported
    IN  [imports |-> [i \in DOMAIN Keys(fields) |->
                        LET at == Index(fields, Keys(fields)[i])
                        IN  [name |-> Keys(fields)[i], index |-> at, def |-> Defaults(fields)[at + 1]]],
         exports |-> Keys(done[base].exported),
         callbacks |-> Callbacks(base),
         base |-> base]
Build ==
    /\ stage = "declare"
    /\ layout' = Initialized(layout, {DerivedBase(c) : c \in ToSet(program.registered)})
    /\ archetypes' = ArchetypeIds(program.registered)
    /\ IF Failed(layout') THEN stage' = "error" /\ UNCHANGED engine
       ELSE /\ stage' = "built"
            /\ engine' = [i \in DOMAIN program.registered |-> Entry(program.registered[i], layout')]
    /\ UNCHANGED <<program, mro, level, entities, exported, truth, writes>>

Id(c) == (CHOOSE i \in DOMAIN archetypes : archetypes[i] = c) - 1
CompileTimeOnly(c) == c \notin ToSet(program.registered)

\* _matches_archetype_id: what check and is_at ask of the id an entity has.
SubclassIds(c) == {Id(d) : d \in {e \in ToSet(archetypes) : ~CompileTimeOnly(e) /\ Subclass(e, c)}}
Matches(c, id) == id \in SubclassIds(c)

\* _init_archetype_mro_info: the ids of the classes an archetype has, as found in the ROM.
MroIds(c) == LET known == SelectSeq(Mro(c), LAMBDA e : e \in ToSet(archetypes)) IN [i \in DOMAIN known |-> Id(known[i])]
MroRom == FoldLeft(LAMBDA rom, c : rom \o <<Len(MroIds(c))>> \o MroIds(c), <<>>, archetypes)
MroIndex(id) == FoldLeft(LAMBDA n, c : n + 1 + Len(MroIds(c)), 1, SubSeq(archetypes, 1, id))
MroArray(id) == SubSeq(MroRom, MroIndex(id) + 1, MroIndex(id) + MroRom[MroIndex(id)])

(* Levels.                                                                  *)

\* What the fields of an entity of the level are given: zeros for those that are not.
Constructed(c, given, fields) ==
    [n \in {f.name : f \in ToSet(fields)} |->
        LET f == CHOOSE f \in ToSet(fields) : f.name = n
        IN  [i \in 1 .. f.size |-> IF n \in given THEN 10 * (Id(c) + 1) + f.offset + i ELSE 0]]
\* Mutant: the entries are named as the fields are.
MutantLevelEntries(fields, values) ==
    FoldLeft(LAMBDA es, f : es \o [i \in 1 .. f.size |-> [name |-> <<f.name, i>>, value |-> values[f.name][i]]], <<>>, fields)
\* _level_data_entries: every imported field under its name in levels.
LevelEntries(fields, values) ==
    FoldLeft(LAMBDA es, f : es \o [i \in 1 .. f.size |-> [name |-> <<f.data, i>>, value |-> values[f.name][i]]], <<>>, fields)
AddEntity(c) ==
    /\ stage = "built" /\ Len(level) < LevelSize
    /\ c \in ToSet(program.registered)
    /\ layout' = Initialized(layout, {c})
    /\ stage' = IF Failed(layout') THEN "error" ELSE "built"
    /\ IF Failed(layout') THEN UNCHANGED level
       ELSE LET fields == layout'[c].imported
            IN  \E given \in {{f.name : f \in ToSet(fields)}, {}} :
                  LET values == Constructed(c, given, fields)
                  IN  level' = Append(level, [archetype |-> Id(c), entries |-> LevelEntries(fields, values), values |-> values])
    /\ UNCHANGED <<program, mro, archetypes, engine, entities, exported, truth, writes>>

\* A level made by other means may leave fields out.
AddForeignEntity(c) ==
    /\ stage = "built" /\ Len(level) < LevelSize
    /\ c \in ToSet(program.registered)
    /\ level' = Append(level, [archetype |-> Id(c), entries |-> <<>>, values |-> <<>>])
    /\ UNCHANGED <<program, mro, layout, stage, archetypes, engine, entities, exported, truth, writes>>

Kept == {"imported", "memory", "shared"}
Zeros == [s \in Kept |-> [i \in 0 .. EntitySize - 1 |-> 0]]
\* The engine puts the value a level names, or the default, at the index of the import.
\* Which of two entries of one name it takes is not said.
Loaded(e) ==
    LET imports == engine[level[e].archetype + 1].imports
        Value(import) ==
            IF \E n \in DOMAIN level[e].entries : level[e].entries[n].name = import.name
            THEN level[e].entries[CHOOSE n \in DOMAIN level[e].entries : level[e].entries[n].name = import.name].value
            ELSE import.def
    IN  [Zeros EXCEPT !.imported = [i \in 0 .. EntitySize - 1 |->
            IF \E n \in DOMAIN imports : imports[n].index = i
            THEN Value(imports[CHOOSE n \in DOMAIN imports : imports[n].index = i]) ELSE 0]]
\* What the fields of an entity are given: by the level, or their defaults.
KeptFields(c) == UNION {ToSet(Layout(c)[s]) : s \in Kept}
FieldNamed(c, n) == CHOOSE f \in KeptFields(c) : f.name = n
Given(e) ==
    LET c == archetypes[level[e].archetype + 1]
    IN  [n \in {f.name : f \in KeptFields(c)} |->
            IF n \in DOMAIN level[e].values THEN level[e].values[n] ELSE DefaultOf(FieldNamed(c, n))]
Load ==
    /\ stage = "built" /\ Len(level) = LevelSize
    /\ stage' = "playing"
    /\ entities' = [e \in DOMAIN level |-> [id |-> level[e].archetype, memory |-> Loaded(e)]]
    /\ exported' = [e \in DOMAIN level |-> <<>>]
    /\ truth' = [e \in DOMAIN level |-> Given(e)]
    /\ UNCHANGED <<program, mro, layout, archetypes, engine, level, writes>>

(* Callbacks.                                                               *)

ClassOf(e) == archetypes[entities[e].id + 1]
FieldsOf(c, s) == ToSet(Layout(c)[s])
Numbers(f) == [i \in 1 .. f.size |-> 100 * (writes + 1) + i]

\* An array of all entities: the numbers of entity e start at e * EntitySize.
Put(memory, s, at, numbers) ==
    [e \in DOMAIN memory |-> [memory[e] EXCEPT !.memory[s] =
        [i \in 0 .. EntitySize - 1 |->
            LET n == (e - 1) * EntitySize + i - at
            IN  IF n \in 0 .. Len(numbers) - 1 THEN numbers[n + 1] ELSE memory[e].memory[s][i]]]]
Peek(s, at, size) ==
    [i \in 1 .. size |->
        LET n == at + i - 1
        IN  IF n \div EntitySize + 1 \in DOMAIN entities
            THEN entities[n \div EntitySize + 1].memory[s][n % EntitySize] ELSE 0]

Written(e, f) ==
    /\ truth' = [truth EXCEPT ![e][f.name] = Numbers(f)]
    /\ writes' = writes + 1
    /\ UNCHANGED <<program, mro, layout, stage, archetypes, engine, level>>

\* A callback of the entity, compiled for the base of its archetype.
SetOwn(e, s) ==
    /\ stage = "playing" /\ writes < MaxWrites
    /\ \E f \in FieldsOf(engine[entities[e].id + 1].base, s) :
         /\ entities' = Put(entities, s, (e - 1) * EntitySize + f.offset, Numbers(f))
         /\ UNCHANGED exported
         /\ Written(e, f)

\* A reference to the entity as a class it inherits from: at(index), with its check.
SetThrough(e, c, s) ==
    /\ stage = "playing" /\ writes < MaxWrites
    /\ s # "memory" /\ Matches(c, entities[e].id)
    /\ layout' = Initialized(layout, {c})
    /\ \E f \in FieldsOf(c, s) :
         /\ entities' = Put(entities, s, f.offset + (e - 1) * EntitySize, Numbers(f))
         /\ UNCHANGED exported
         /\ truth' = [truth EXCEPT ![e][f.name] = Numbers(f)]
    /\ writes' = writes + 1
    /\ UNCHANGED <<program, mro, stage, archetypes, engine, level>>

\* ExportValue: each number under the index of its key.
Export(e) ==
    /\ stage = "playing" /\ writes < MaxWrites
    /\ \E f \in FieldsOf(engine[entities[e].id + 1].base, "exported") :
         LET At(n) == Index(layout[engine[entities[e].id + 1].base].exported, <<f.data, n>>)
         IN  /\ exported' = [exported EXCEPT ![e] =
                   [i \in DOMAIN @ \cup {At(n) : n \in 1 .. f.size} |->
                      IF \E n \in 1 .. f.size : At(n) = i
                      THEN Numbers(f)[CHOOSE n \in 1 .. f.size : At(n) = i] ELSE @[i]]]
             /\ truth' = [truth EXCEPT ![e] = [g \in DOMAIN @ \cup {f.name} |-> IF g = f.name THEN Numbers(f) ELSE @[g]]]
    /\ writes' = writes + 1
    /\ UNCHANGED <<program, mro, layout, stage, archetypes, engine, level, entities>>

\* Mutant: what is not named is left out of the data of a spawned entity.
MutantSpawnData(c, given) == FoldLeft(LAMBDA d, f : IF f.name \in given THEN d \o Numbers(f) ELSE d, <<>>, Layout(c).memory)
\* The numbers of all memory fields in their order, zeros for those not given.
SpawnData(c, given) ==
    FoldLeft(LAMBDA d, f : d \o IF f.name \in given THEN Numbers(f) ELSE [i \in 1 .. f.size |-> 0], <<>>, Layout(c).memory)
Spawn(c) ==
    /\ stage = "playing" /\ writes < MaxWrites /\ Len(entities) < LevelSize + MaxSpawned
    /\ c \in ToSet(archetypes) /\ ~CompileTimeOnly(c)
    /\ layout' = Initialized(layout, {c})
    /\ \E given \in SUBSET {f.name : f \in FieldsOf(c, "memory")} :
         LET data == SpawnData(c, given)
         IN  /\ entities' = Append(entities, [id |-> Id(c), memory |->
                   [Zeros EXCEPT !.memory = [i \in 0 .. EntitySize - 1 |-> IF i < Len(data) THEN data[i + 1] ELSE 0]]])
             /\ truth' = Append(truth, [n \in {f.name : f \in KeptFields(c)} |->
                   LET f == FieldNamed(c, n) IN IF n \in given THEN Numbers(f) ELSE [i \in 1 .. f.size |-> 0]])
    /\ exported' = Append(exported, <<>>)
    /\ writes' = writes + 1
    /\ UNCHANGED <<program, mro, stage, archetypes, engine, level>>

Init ==
    /\ program \in Programs
    /\ mro = MroOf(program.classes)
    /\ layout = [c \in DOMAIN program.classes |-> <<>>]
    /\ stage = "declare"
    /\ archetypes = <<>> /\ engine = <<>> /\ level = <<>> /\ entities = <<>>
    /\ exported = <<>> /\ truth = <<>> /\ writes = 0

Next ==
    \/ \E c \in Ids : InitFields(c)
    \/ Build
    \/ \E c \in Ids : AddEntity(c) \/ AddForeignEntity(c)
    \/ Load
    \/ \E e \in DOMAIN entities, s \in Kept :
         SetOwn(e, s) \/ \E c \in ToSet(archetypes) : SetThrough(e, c, s)
    \/ \E e \in DOMAIN entities : Export(e)
    \/ \E c \in Ids : Spawn(c)
Spec == Init /\ [][Next]_vars
-----------------------------------------------------------------------------
TypeOK ==
    /\ stage \in {"declare", "built", "playing", "error"}
    /\ \A c \in Ids : layout[c] = <<>> \/ layout[c] = Error \/ \A s \in Storages : ~TooMany(layout[c][s])
    /\ \A e \in DOMAIN entities : entities[e].id \in 0 .. Len(program.registered) - 1
    /\ writes \in 0 .. MaxWrites

(* References to an archetype are admitted to the entities of the classes   *)
(* that inherit from it, and the ROM names the classes of every entity.     *)
ReferencesAreChecked ==
    stage = "built" =>
        \A c \in ToSet(program.registered), d \in ToSet(archetypes) :
            /\ Matches(d, Id(c)) <=> Subclass(c, d)
            /\ Id(d) \in ToSet(MroArray(Id(c))) <=> Subclass(c, d)

(* Two fields of one kind under one name in levels or replays: nothing       *)
(* refuses them, and one name stands for both.                               *)
SharesName(f, fields) == \E g \in ToSet(fields) : g # f /\ g.data = f.data

(* A field of an entity holds what it was last given - by the level, by     *)
(* spawn, by the entity itself or by others through references - whichever  *)
(* class it inherits from it is looked at as, whatever was given to its     *)
(* other fields and to its neighbours, and whatever its name in levels is;  *)
(* what it exports goes under its name in replays.  Except for an imported  *)
(* field that shares its name in levels, which the level does not fill, and *)
(* for what is exported where two fields share one.                         *)
FieldsReadBack ==
    /\ ReferencesAreChecked
    /\ stage = "playing" =>
        \A e \in DOMAIN entities :
            LET all == layout[ClassOf(e)]
                exports == engine[entities[e].id + 1].exports
            IN  /\ \A c \in {c \in ToSet(Mro(ClassOf(e))) : IsArchetype(c) /\ layout[c] # <<>>}, s \in Kept :
                     \A f \in FieldsOf(c, s) :
                         (s = "imported" /\ all # <<>> => ~SharesName(f, all.imported)) =>
                             Peek(s, f.offset + (e - 1) * EntitySize, f.size) = truth[e][f.name]
                /\ (\A f \in FieldsOf(ClassOf(e), "exported") : ~SharesName(f, Layout(ClassOf(e)).exported)) =>
                     \A i \in DOMAIN exported[e] :
                         \E f \in FieldsOf(ClassOf(e), "exported"), n \in 1 .. EntitySize :
                             exports[i + 1] = <<f.data, n>> /\ exported[e][i] = truth[e][f.name][n]

(* An entity runs the callbacks of its own class, and imports and exports   *)
(* its fields.                                                              *)
OwnCallbacks ==
    stage \in {"built", "playing"} =>
        \A i \in DOMAIN engine :
            LET c == program.registered[i]
            IN  /\ engine[i].callbacks = Callbacks(c)
                /\ layout[c] # <<>> => /\ engine[i].exports = Keys(layout[c].exported)
                                       /\ [n \in DOMAIN engine[i].imports |-> engine[i].imports[n].name] = Keys(layout[c].imported)
=============================================================================
