------------------------------ MODULE Rebuild ------------------------------
(***************************************************************************)
(* What the rebuild command of the development server does, step by step,  *)
(* while the developer keeps editing and a player keeps fetching files:    *)
(* RebuildCommand.execute (sonolus/build/dev_server.py), the project build *)
(* it calls (sonolus/build/project.py), and the publication of the         *)
(* collection into the served directory (sonolus/build/collection.py).     *)
(*                                                                         *)
(* The publication writes one file after another and may fail at any of    *)
(* them: the console then goes on over what is there.                      *)
(*                                                                         *)
(* Contents are abstracted to where they come from: an engine is the pair  *)
(* of source revisions its modules were imported from and its functions    *)
(* were parsed from, a level the revision of its data and how many times a *)
(* converter has rewritten it.  An asset is named by its content, as the   *)
(* SHA-1 names of the code do.                                             *)
(***************************************************************************)
EXTENDS Naturals, FiniteSets

CONSTANTS
  ProjectLevels,  \* names of levels the project's source may define
  ResourceLevel,  \* the level found in the resources
  Converts,       \* the project has a converter for every engine (key None)
  MaxSource,      \* bound: edits of the project's source
  MaxResource,    \* bound: edits of the project's resources
  MaxFailures     \* bound: publications that fail while they write

ASSUME BoundsAssumption == MaxSource \in Nat /\ MaxResource \in Nat /\ MaxFailures \in Nat
ASSUME LevelsAssumption == ResourceLevel \notin ProjectLevels /\ Converts \in BOOLEAN

Levels == ProjectLevels \cup {ResourceLevel}

\* An engine, and the assets that hold its data and the levels' data.
Engine(imp, tree) == <<imp, tree>>
NoEngine == <<>>   \* nothing built yet; or, in a level, an engine still given by name
EngineAsset(e) == <<"engine", e>>
LevelAsset(l, item) == <<"level", l, item.rev, item.conv>>

VARIABLES
  source,      \* on disk: [rev, levels], the project's source
  resource,    \* on disk: revision of the resources
  newer,       \* some resource file is newer than last_build_time
  pc,          \* where RebuildCommand.execute is
  module,      \* the imported project module: [rev, levels]
  treeCache,   \* get_tree_from_file's cache: the revision it holds, if any
  collection,  \* server_state.collection
  decoder,     \* the engine server_state.project_state describes
  todo,        \* files of the categories still to be written
  site,        \* the served directory: [list, levels, engine, repo, torn]
  outcome,     \* how the last rebuild ended
  quiet,       \* the sources that were not edited since the rebuild began
  partial,     \* a publication wrote some files and did not complete
  owed,        \* assets that publications which failed did not bring
  failures,    \* publications that failed while they wrote
  client       \* the assets of a level that a player has read

vars == <<source, resource, newer, pc, module, treeCache, collection, decoder,
          todo, site, outcome, quiet, partial, owed, failures, client>>
disk == <<source, resource, newer>>
past == <<partial, owed, failures>>
ghost == <<outcome, quiet, past>>

Loaded(rev) ==
  [levels |-> [l \in {ResourceLevel} |-> [rev |-> rev, conv |-> 0, engine |-> NoEngine]],
   engine |-> NoEngine,
   repo   |-> {LevelAsset(ResourceLevel, [rev |-> rev, conv |-> 0])}]

\* apply_converter_to_collection with the converter for every engine: it reads
\* the data the collection holds, its own earlier output included.  A second
\* pass and a later one are not told apart.
Converted(item) ==
  IF Converts THEN [item EXCEPT !.conv = IF @ = 0 THEN 1 ELSE 2] ELSE item

ConvertSome(c, names) ==
  LET items == [l \in DOMAIN c.levels |->
                  IF l \in names THEN Converted(c.levels[l]) ELSE c.levels[l]]
  IN  [c EXCEPT !.levels = items,
                !.repo = @ \cup {LevelAsset(l, items[l]) : l \in names}]

\* Mutant: a level keeps the engine item it was linked to.
MutantKeepsEngines(c) == c

\* config.override_resource_level_engines, which the dev command leaves on.
OverrideEngines(c) ==
  [c EXCEPT !.levels = [l \in DOMAIN @ |-> [@[l] EXCEPT !.engine = NoEngine]]]

ConvertAll(c) == OverrideEngines(ConvertSome(c, DOMAIN c.levels))

AddEngine(c, e) == [c EXCEPT !.engine = e, !.repo = @ \cup {EngineAsset(e)}]

\* Mutant: the data of a level is not added to the repository.
MutantForgetsData(c, names, rev) ==
  LET item == [rev |-> rev, conv |-> 0, engine |-> c.engine]
  IN  [c EXCEPT !.levels = [l \in DOMAIN c.levels \cup names |->
                              IF l \in names THEN item ELSE c.levels[l]]]

\* add_level_to_collection for every level of the project.
AddLevels(c, names, rev) ==
  LET item == [rev |-> rev, conv |-> 0, engine |-> c.engine]
  IN  [c EXCEPT !.levels = [l \in DOMAIN c.levels \cup names |->
                              IF l \in names THEN item ELSE c.levels[l]],
                !.repo = @ \cup {LevelAsset(l, item) : l \in names}]

\* Mutant: the write does not link.
MutantLeavesNames(c) == c

\* Collection.link: a level that names its engine gets the engine's item.
LinkSome(c, names) ==
  [c EXCEPT !.levels = [l \in DOMAIN c.levels |->
     IF l \in names /\ c.levels[l].engine = NoEngine THEN [c.levels[l] EXCEPT !.engine = c.engine]
     ELSE c.levels[l]]]

Link(c) == LinkSome(c, DOMAIN c.levels)

\* The collection of a whole build, as run_server makes it before it serves.
FirstCollection(s, rev) ==
  Link(AddLevels(AddEngine(ConvertAll(Loaded(rev)), Engine(s.rev, s.rev)), s.levels, s.rev))

Init ==
  /\ \E names \in SUBSET ProjectLevels : source = [rev |-> 0, levels |-> names]
  /\ resource = 0 /\ newer = FALSE
  /\ pc = "idle" /\ module = source /\ treeCache = {0}
  /\ collection = FirstCollection(source, 0)
  /\ decoder = Engine(0, 0)
  /\ todo = {}
  /\ site = [list |-> collection.levels, levels |-> collection.levels,
             engine |-> collection.engine, repo |-> collection.repo, torn |-> {}]
  /\ outcome = "ok" /\ quiet = {"source", "resource"}
  /\ partial = FALSE /\ owed = {} /\ failures = 0
  /\ client = {}

-----------------------------------------------------------------------------
(* The developer.                                                          *)

EditSource ==
  /\ source.rev < MaxSource
  /\ \E names \in SUBSET ProjectLevels :
       source' = [rev |-> source.rev + 1, levels |-> names]
  /\ quiet' = quiet \ {"source"}
  /\ UNCHANGED <<resource, newer, pc, module, treeCache, collection, decoder, todo,
                 site, outcome, past, client>>

EditResource ==
  /\ resource < MaxResource
  /\ resource' = resource + 1
  /\ newer' = TRUE
  /\ quiet' = quiet \ {"resource"}
  /\ UNCHANGED <<source, pc, module, treeCache, collection, decoder, todo, site,
                 outcome, past, client>>

-----------------------------------------------------------------------------
(* RebuildCommand.execute.                                                 *)

\* Mutant: the syntax trees of the previous build stay in their cache.
MutantKeepsTrees ==
  /\ pc = "idle"
  /\ pc' = "load"
  /\ module' = source
  /\ outcome' = "running" /\ quiet' = {"source", "resource"}
  /\ UNCHANGED <<disk, treeCache, collection, decoder, todo, site, past, client>>

\* The old modules are forgotten and the project imported again; the caches of
\* the front end are cleared once the import has succeeded.
Import ==
  /\ pc = "idle"
  /\ pc' = "load"
  /\ module' = source
  /\ treeCache' = {}
  /\ outcome' = "running" /\ quiet' = {"source", "resource"}
  /\ UNCHANGED <<disk, collection, decoder, todo, site, past, client>>

ImportFails ==
  /\ pc = "idle"
  /\ outcome' = "failed" /\ quiet' = {"source", "resource"}
  /\ UNCHANGED <<disk, pc, module, treeCache, collection, decoder, todo, site, past, client>>

\* The collection survives from the previous rebuild unless a resource file is
\* newer than last_build_time.  The debug codes are started afresh.
LoadResources ==
  /\ pc = "load"
  /\ collection' = IF newer THEN Loaded(resource) ELSE collection
  /\ decoder' = NoEngine
  /\ pc' = "convert"
  /\ UNCHANGED <<disk, module, treeCache, todo, site, ghost, client>>

ConvertLevels ==
  /\ pc = "convert"
  /\ collection' = ConvertAll(collection)
  /\ pc' = "engine"
  /\ UNCHANGED <<disk, module, treeCache, decoder, todo, site, ghost, client>>

\* package_engine traces the callbacks: the syntax trees come from the cache,
\* or else from the files as they are now.
Tree == IF treeCache = {} THEN source.rev ELSE CHOOSE rev \in treeCache : TRUE

CompileEngine ==
  /\ pc = "engine"
  /\ treeCache' = {Tree}
  /\ decoder' = Engine(module.rev, Tree)
  /\ collection' = AddEngine(collection, Engine(module.rev, Tree))
  /\ pc' = "levels"
  /\ UNCHANGED <<disk, module, todo, site, ghost, client>>

\* The compilation fails half way: the codes of what was traced stay.
CompileFails ==
  /\ pc = "engine"
  /\ treeCache' = {Tree}
  /\ decoder' = Engine(module.rev, Tree)
  /\ pc' = "idle" /\ outcome' = "failed"
  /\ UNCHANGED <<disk, module, collection, todo, site, quiet, past, client>>

\* A resource file, a converter or a level is broken: the exception leaves
\* execute, with the levels before the broken one done.
LoadFails ==
  /\ pc = "load"
  /\ pc' = "idle" /\ outcome' = "failed"
  /\ UNCHANGED <<disk, module, treeCache, collection, decoder, todo, site, quiet, past, client>>

ConvertFails ==
  /\ pc = "convert"
  /\ \E names \in SUBSET DOMAIN collection.levels :
       collection' = ConvertSome(collection, names)
  /\ pc' = "idle" /\ outcome' = "failed"
  /\ UNCHANGED <<disk, module, treeCache, decoder, todo, site, quiet, past, client>>

LevelsFail ==
  /\ pc = "levels"
  /\ \E names \in SUBSET module.levels :
       collection' = AddLevels(collection, names, module.rev)
  /\ pc' = "idle" /\ outcome' = "failed"
  /\ UNCHANGED <<disk, module, treeCache, decoder, todo, site, quiet, past, client>>

BuildLevels ==
  /\ pc = "levels"
  /\ collection' = AddLevels(collection, module.levels, module.rev)
  /\ pc' = "link"
  /\ UNCHANGED <<disk, module, treeCache, decoder, todo, site, ghost, client>>

-----------------------------------------------------------------------------
(* Collection.write over the files of the previous build (clear=False).    *)

\* The info, list and item of the engine are one file here, and so are the
\* info and the list of the levels: they hold the same items.
EngineFile == <<"engine", "">>
ListFile == <<"list", "">>
ItemFile(l) == <<"item", l>>
Files(c) == {EngineFile, ListFile} \cup {ItemFile(l) : l \in DOMAIN c.levels}

\* Mutant: the directory is emptied before it is written (clear=True).
MutantClearsSite ==
  /\ pc = "link"
  /\ collection' = Link(collection)
  /\ todo' = Files(collection)
  /\ site' = [list |-> [l \in {} |-> l], levels |-> [l \in {} |-> l], engine |-> NoEngine,
              repo |-> {}, torn |-> {}]
  /\ pc' = "items"
  /\ UNCHANGED <<disk, module, treeCache, decoder, ghost, client>>

LinkLevels ==
  /\ pc = "link"
  /\ collection' = Link(collection)
  /\ todo' = Files(collection)
  /\ pc' = "items"
  /\ UNCHANGED <<disk, module, treeCache, decoder, site, ghost, client>>

\* A level without one of the keys: those before it are linked.
LinkFails ==
  /\ pc = "link"
  /\ \E names \in SUBSET DOMAIN collection.levels : collection' = LinkSome(collection, names)
  /\ pc' = "idle" /\ outcome' = "failed"
  /\ UNCHANGED <<disk, module, treeCache, decoder, todo, site, quiet, past, client>>

\* The categories come one after the other, in the order the collection met
\* them, and the list of the levels before their items.
MayWrite(file) ==
  /\ file \in todo
  /\ file = EngineFile => ListFile \in todo \/ todo = {file}
  /\ file \notin {EngineFile, ListFile} => ListFile \notin todo

\* The directory with a file of the categories written: whole, or cut short,
\* so that no one can read it.
Put(file, whole) ==
  IF file = EngineFile THEN [site EXCEPT !.engine = IF whole THEN collection.engine ELSE NoEngine]
  ELSE IF file = ListFile THEN [site EXCEPT !.list = IF whole THEN collection.levels ELSE [l \in {} |-> l]]
  ELSE [site EXCEPT !.levels =
          [l \in IF whole THEN DOMAIN @ \cup {file[2]} ELSE DOMAIN @ \ {file[2]} |->
             IF l = file[2] THEN collection.levels[l] ELSE @[l]]]

WriteCategory(file) ==
  /\ pc = "items" /\ MayWrite(file)
  /\ todo' = todo \ {file}
  /\ site' = Put(file, TRUE)
  /\ partial' = TRUE
  /\ pc' = IF todo' = {} THEN "assets" ELSE "items"
  /\ UNCHANGED <<disk, module, treeCache, collection, decoder, outcome, quiet, owed,
                 failures, client>>

\* The exception leaves write and execute: the assets do not come.
Abandon ==
  /\ failures < MaxFailures /\ failures' = failures + 1
  /\ todo' = {}
  /\ owed' = (owed \cup collection.repo) \ site'.repo
  /\ pc' = "idle" /\ outcome' = "failed"
  /\ UNCHANGED <<disk, module, treeCache, collection, decoder, quiet, client>>

\* An item cannot be encoded or a file not be opened, or its writing stops.
CategoryFails(file) ==
  /\ pc = "items" /\ MayWrite(file)
  /\ \/ UNCHANGED <<site, partial>>
     \/ site' = Put(file, FALSE) /\ partial' = TRUE
  /\ Abandon

\* An asset is looked for by its name only.
Exists == site.repo \cup site.torn

Missing == collection.repo \ Exists

\* All that are missing, one after another: what lies between is told apart
\* only if the writing stops there.
WriteAssets ==
  /\ pc = "assets"
  /\ site' = [site EXCEPT !.repo = @ \cup Missing]
  /\ owed' = owed \ Missing
  /\ pc' = "stamp"
  /\ UNCHANGED <<disk, module, treeCache, collection, decoder, todo, outcome, quiet,
                 partial, failures, client>>

\* Some of them are written, and of the next one nothing or a part.
AssetsFail ==
  /\ pc = "assets"
  /\ \E a \in Missing, written \in SUBSET Missing :
       /\ a \notin written
       /\ \E torn \in {{}, {a}} :
            site' = [site EXCEPT !.repo = @ \cup written, !.torn = @ \cup torn]
  /\ UNCHANGED partial
  /\ Abandon

\* last_build_time = time(): every edit made so far now counts as older.
Stamp ==
  /\ pc = "stamp"
  /\ newer' = FALSE /\ partial' = FALSE
  /\ pc' = "idle" /\ outcome' = "ok"
  /\ UNCHANGED <<source, resource, module, treeCache, collection, decoder, todo, site,
                 quiet, owed, failures, client>>

Write ==
  \/ LinkLevels \/ LinkFails
  \/ \E file \in todo : WriteCategory(file) \/ CategoryFails(file)
  \/ WriteAssets \/ AssetsFail \/ Stamp

Execute ==
  \/ LoadResources \/ ConvertLevels \/ CompileEngine \/ BuildLevels
  \/ LoadFails \/ ConvertFails \/ CompileFails \/ LevelsFail
  \/ Write

-----------------------------------------------------------------------------
(* The HTTP thread answers a player from the files as they are.            *)

Needs(l, item) == {LevelAsset(l, item), EngineAsset(item.engine)}

\* A player opens a level from the list, from what the list holds of it or
\* from the level's own file, and asks for the assets at some later time.  One
\* who reads a publication that did not complete is promised nothing.
FetchLevel ==
  /\ ~partial
  /\ \E l \in DOMAIN site.list, file \in {site.list, site.levels} :
       l \in DOMAIN file /\ client' = Needs(l, file[l])
  /\ UNCHANGED <<disk, pc, module, treeCache, collection, decoder, todo, site, ghost>>

Next ==
  \/ EditSource \/ EditResource \/ Import \/ ImportFails \/ Execute
  \/ FetchLevel

Spec == Init /\ [][Next]_vars

-----------------------------------------------------------------------------
(* Properties                                                              *)

Item == [rev : 0..(MaxSource + MaxResource), conv : 0..2,
         engine : {NoEngine} \cup ((0..MaxSource) \X (0..MaxSource))]

\* Every variable has its type; a published level embeds an engine, never the
\* name of one.
TypeOK ==
  /\ source \in [rev : 0..MaxSource, levels : SUBSET ProjectLevels]
  /\ resource \in 0..MaxResource /\ newer \in BOOLEAN
  /\ pc \in {"idle", "load", "convert", "engine", "levels", "link", "items", "assets", "stamp"}
  /\ module \in [rev : 0..MaxSource, levels : SUBSET ProjectLevels]
  /\ treeCache \in {{}} \cup {{rev} : rev \in 0..MaxSource}
  /\ decoder \in ((0..MaxSource) \X (0..MaxSource)) \cup {NoEngine}
  /\ \A l \in DOMAIN collection.levels : collection.levels[l] \in Item
  /\ \A l \in DOMAIN site.list : site.list[l] \in Item /\ site.list[l].engine # NoEngine
  /\ \A l \in DOMAIN site.levels : site.levels[l] \in Item /\ site.levels[l].engine # NoEngine
  /\ todo \subseteq Files(collection)
  /\ outcome \in {"ok", "running", "failed"} /\ quiet \subseteq {"source", "resource"}
  /\ partial \in BOOLEAN /\ failures \in 0..MaxFailures

Writing == pc \in {"items", "assets"}
Rebuilt(part) == pc = "idle" /\ outcome = "ok" /\ part \in quiet

\* After a publication that completed, the list and the files of the levels
\* agree and the assets they name are there, whatever publications failed in
\* the middle before it.  And after one that failed, a level file, listed or
\* left over, lacks only assets that failed publications did not bring.
PublishedAssetsExist ==
  /\ ~partial => \A l \in DOMAIN site.list :
       /\ l \in DOMAIN site.levels /\ site.levels[l] = site.list[l]
       /\ Needs(l, site.list[l]) \subseteq Exists
  /\ ~Writing => \A l \in DOMAIN site.levels :
       Needs(l, site.levels[l]) \subseteq site.repo \cup owed

\* A player who read a level of a whole publication finds its assets at any
\* later time, whatever rebuilds come in between and wherever they fail.
ClientNeverStranded == client \subseteq Exists

\* The engine every level of a whole publication embeds is the published one,
\* in the list as in the level's file: a resource level kept from an earlier
\* rebuild, linked or not, is linked to the engine of this one.
LevelsPlayCurrentEngine ==
  ~partial => \A l \in DOMAIN site.list :
    site.list[l].engine = site.engine /\ site.levels[l].engine = site.engine

\* A rebuild during which the source was not edited publishes that source:
\* engine and levels, with no syntax tree left from an earlier revision, and
\* the decode command knows the codes of that engine.
SourceIsFresh ==
  Rebuilt("source") =>
    /\ site.engine = Engine(source.rev, source.rev) /\ decoder = site.engine
    /\ \A l \in source.levels :
         l \in DOMAIN site.list /\ site.levels[l] =
           [rev |-> source.rev, conv |-> 0, engine |-> site.engine]

-----------------------------------------------------------------------------
(* What the documentation says and the code does not do.                   *)

\* "Rebuild the project with the latest changes from source files."
ResourcesAreFresh ==
  Rebuilt("resource") => site.levels[ResourceLevel].rev = resource

\* "Since the content is identified by its hash, a matching file can be
\* skipped": what a rebuild that succeeded published is whole.
AssetsAreWhole ==
  pc = "idle" /\ outcome = "ok" =>
    \A l \in DOMAIN site.list : Needs(l, site.list[l]) \subseteq site.repo
=============================================================================
