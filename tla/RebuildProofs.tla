--------------------------- MODULE RebuildProofs ---------------------------
(***************************************************************************)
(* Proofs about Rebuild, for any levels in the source and any number of    *)
(* edits (sonolus/build/dev_server.py, collection.py, project.py).         *)
(*                                                                         *)
(* The publication may stop at any file. What remains is understood by     *)
(* what the collection keeps between rebuilds, the failed ones included: it *)
(* always holds the assets its own items name (Held); its levels are        *)
(* unlinked before a new engine is added and linked to it afterwards        *)
(* (Staged); the files written so far agree with it (Copied); and a level   *)
(* file lacks only what is written next or what a publication that stopped  *)
(* owes (Covered), an asset that was cut short among it for ever            *)
(* (TornStays).                                                             *)
(***************************************************************************)
EXTENDS Rebuild, TLAPS

Engines == {NoEngine} \cup ((0..MaxSource) \X (0..MaxSource))

\* A collection holds the assets that its items name.
Held(c) ==
  /\ c.engine # NoEngine => EngineAsset(c.engine) \in c.repo
  /\ \A l \in DOMAIN c.levels :
       /\ LevelAsset(l, c.levels[l]) \in c.repo
       /\ c.levels[l].engine # NoEngine => EngineAsset(c.levels[l].engine) \in c.repo

Good(c) ==
  /\ c = [levels |-> c.levels, engine |-> c.engine, repo |-> c.repo]
  /\ \A l \in DOMAIN c.levels : c.levels[l] \in Item
  /\ c.engine \in Engines
  /\ Held(c)

Unlinked(c) == \A l \in DOMAIN c.levels : c.levels[l].engine = NoEngine
Linked(c) == \A l \in DOMAIN c.levels : c.levels[l].engine = c.engine

-----------------------------------------------------------------------------
(* What the operations on a collection do.                                 *)

\* An engine is not the name of one.
LEMMA EngineIsNone ==
  ASSUME NEW a, NEW b
  PROVE  Engine(a, b) # NoEngine
BY DEF Engine, NoEngine

\* The resources come with their data.
LEMMA LoadedIsGood ==
  ASSUME NEW rev \in 0..MaxResource
  PROVE  Good(Loaded(rev))
<1> DEFINE item == [rev |-> rev, conv |-> 0, engine |-> NoEngine]
<1>1. item \in Item
  BY BoundsAssumption DEF Item
<1>2. /\ Loaded(rev).levels = [l \in {ResourceLevel} |-> item]
      /\ Loaded(rev).engine = NoEngine
      /\ Loaded(rev).repo = {LevelAsset(ResourceLevel, [rev |-> rev, conv |-> 0])}
      /\ Loaded(rev) = [levels |-> Loaded(rev).levels, engine |-> Loaded(rev).engine, repo |-> Loaded(rev).repo]
  BY DEF Loaded
<1>3. LevelAsset(ResourceLevel, item) \in Loaded(rev).repo
  BY <1>2 DEF LevelAsset
<1>4. Held(Loaded(rev))
  BY <1>2, <1>3 DEF Held
<1> QED
  BY <1>1, <1>2, <1>4 DEF Good, Engines

\* A converted item is an item of the same engine.
LEMMA ConvertedIsItem ==
  ASSUME NEW item \in Item
  PROVE  Converted(item) \in Item /\ Converted(item).engine = item.engine
BY DEF Converted, Item

\* Converting adds the data of what was converted.
LEMMA ConvertSomeIsGood ==
  ASSUME NEW c, Good(c), NEW names \in SUBSET DOMAIN c.levels
  PROVE  /\ Good(ConvertSome(c, names))
         /\ ConvertSome(c, names).engine = c.engine
<1> DEFINE items == [l \in DOMAIN c.levels |->
                       IF l \in names THEN Converted(c.levels[l]) ELSE c.levels[l]]
           d == ConvertSome(c, names)
<1>1. /\ d.levels = items /\ d.engine = c.engine
      /\ d.repo = c.repo \cup {LevelAsset(l, items[l]) : l \in names}
      /\ d = [levels |-> d.levels, engine |-> d.engine, repo |-> d.repo]
  <2> DEFINE added == {LevelAsset(l, items[l]) : l \in names}
  <2>1. d = [c EXCEPT !.levels = items, !.repo = @ \cup added]
    BY DEF ConvertSome
  <2> HIDE DEF items, added, d
  <2>2. d = [levels |-> items, engine |-> c.engine, repo |-> c.repo \cup added]
    BY <2>1 DEF Good
  <2> QED
    BY <2>2 DEF added
<1>2. \A l \in DOMAIN c.levels : items[l] \in Item /\ items[l].engine = c.levels[l].engine
  BY ConvertedIsItem DEF Good
<1>3. \A l \in DOMAIN c.levels : LevelAsset(l, items[l]) \in d.repo
  <2>1. ASSUME NEW l \in DOMAIN c.levels, l \notin names PROVE LevelAsset(l, items[l]) \in d.repo
    BY <1>1, <2>1 DEF Good, Held
  <2> QED
    BY <1>1, <2>1
<1>4. Held(d)
  BY <1>1, <1>2, <1>3 DEF Good, Held
<1> QED
  BY <1>1, <1>2, <1>4 DEF Good

\* Forgetting the engines of the levels changes nothing else.
LEMMA OverrideIsGood ==
  ASSUME NEW c, Good(c)
  PROVE  Good(OverrideEngines(c)) /\ Unlinked(OverrideEngines(c))
<1> DEFINE d == OverrideEngines(c)
           freed == [l \in DOMAIN c.levels |-> [c.levels[l] EXCEPT !.engine = NoEngine]]
<1>1. /\ d.levels = freed /\ d.engine = c.engine /\ d.repo = c.repo
      /\ d = [levels |-> d.levels, engine |-> d.engine, repo |-> d.repo]
  BY DEF OverrideEngines, Good
<1>2. \A l \in DOMAIN c.levels :
        /\ freed[l] \in Item /\ freed[l].engine = NoEngine
        /\ freed[l].rev = c.levels[l].rev /\ freed[l].conv = c.levels[l].conv
  BY DEF Good, Item
<1>3. \A l \in DOMAIN c.levels : LevelAsset(l, freed[l]) = LevelAsset(l, c.levels[l])
  BY <1>2 DEF LevelAsset
<1>4. Held(d)
  BY <1>1, <1>2, <1>3 DEF Good, Held
<1> QED
  BY <1>1, <1>2, <1>4 DEF Good, Unlinked

\* All levels are converted and lose their engines.
LEMMA ConvertAllIsGood ==
  ASSUME NEW c, Good(c)
  PROVE  Good(ConvertAll(c)) /\ Unlinked(ConvertAll(c))
BY ConvertSomeIsGood, OverrideIsGood DEF ConvertAll

\* An engine comes with its data.
LEMMA AddEngineIsGood ==
  ASSUME NEW c, Good(c), NEW e \in Engines
  PROVE  /\ Good(AddEngine(c, e))
         /\ AddEngine(c, e).engine = e /\ AddEngine(c, e).levels = c.levels
<1> DEFINE d == AddEngine(c, e)
<1>1. /\ d.levels = c.levels /\ d.engine = e /\ d.repo = c.repo \cup {EngineAsset(e)}
      /\ d = [levels |-> d.levels, engine |-> d.engine, repo |-> d.repo]
  <2> DEFINE added == {EngineAsset(e)}
  <2>1. d = [c EXCEPT !.engine = e, !.repo = @ \cup added]
    BY DEF AddEngine
  <2> HIDE DEF added, d
  <2>2. d = [levels |-> c.levels, engine |-> e, repo |-> c.repo \cup added]
    BY <2>1 DEF Good
  <2> QED
    BY <2>2 DEF added
<1>2. Held(d)
  BY <1>1 DEF Good, Held
<1> QED
  BY <1>1, <1>2 DEF Good

\* The levels of the project come with their data and the engine in place.
LEMMA AddLevelsIsGood ==
  ASSUME NEW c, Good(c), NEW names, NEW rev \in 0..MaxSource
  PROVE  LET d == AddLevels(c, names, rev)
         IN  /\ Good(d) /\ d.engine = c.engine
             /\ DOMAIN d.levels = DOMAIN c.levels \cup names
             /\ \A l \in names : d.levels[l] = [rev |-> rev, conv |-> 0, engine |-> c.engine]
             /\ \A l \in DOMAIN c.levels : l \notin names => d.levels[l] = c.levels[l]
<1> DEFINE item == [rev |-> rev, conv |-> 0, engine |-> c.engine]
           d == AddLevels(c, names, rev)
<1>1. /\ d.levels = [l \in DOMAIN c.levels \cup names |-> IF l \in names THEN item ELSE c.levels[l]]
      /\ d.engine = c.engine /\ d.repo = c.repo \cup {LevelAsset(l, item) : l \in names}
      /\ d = [levels |-> d.levels, engine |-> d.engine, repo |-> d.repo]
  <2> DEFINE items == [l \in DOMAIN c.levels \cup names |-> IF l \in names THEN item ELSE c.levels[l]]
             added == {LevelAsset(l, item) : l \in names}
  <2>1. d = [c EXCEPT !.levels = items, !.repo = @ \cup added]
    BY DEF AddLevels
  <2> HIDE DEF items, added, d
  <2>2. d = [levels |-> items, engine |-> c.engine, repo |-> c.repo \cup added]
    BY <2>1 DEF Good
  <2> QED
    BY <2>2 DEF items, added
<1>2. item \in Item /\ item.engine = c.engine
  BY BoundsAssumption DEF Item, Good, Engines
<1>3. \A l \in DOMAIN d.levels : d.levels[l] \in Item
  BY <1>1, <1>2 DEF Good
<1>4. \A l \in names : d.levels[l] = item /\ LevelAsset(l, item) \in d.repo
  BY <1>1
<1>5. \A l \in DOMAIN c.levels : l \notin names => d.levels[l] = c.levels[l]
  BY <1>1
<1>6. DOMAIN d.levels = DOMAIN c.levels \cup names
  BY <1>1
<1>7. Held(d)
  <2>1. d.engine # NoEngine => EngineAsset(d.engine) \in d.repo
    BY <1>1 DEF Good, Held
  <2>2. ASSUME NEW l \in names
        PROVE  /\ LevelAsset(l, d.levels[l]) \in d.repo
               /\ d.levels[l].engine # NoEngine => EngineAsset(d.levels[l].engine) \in d.repo
    BY <1>1, <1>2, <1>4, <2>1
  <2>3. ASSUME NEW l \in DOMAIN c.levels, l \notin names
        PROVE  /\ LevelAsset(l, d.levels[l]) \in d.repo
               /\ d.levels[l].engine # NoEngine => EngineAsset(d.levels[l].engine) \in d.repo
    BY <1>1, <1>5, <2>3 DEF Good, Held
  <2> QED
    BY <1>6, <2>1, <2>2, <2>3 DEF Held
<1> QED
  BY <1>1, <1>3, <1>4, <1>5, <1>6, <1>7 DEF Good

\* Linking some levels gives the engine to those that have none.
LEMMA LinkSomeIsGood ==
  ASSUME NEW c, Good(c), \A l \in DOMAIN c.levels : c.levels[l].engine \in {NoEngine, c.engine}, NEW names
  PROVE  LET d == LinkSome(c, names)
         IN  /\ Good(d) /\ d.engine = c.engine /\ d.repo = c.repo
             /\ DOMAIN d.levels = DOMAIN c.levels
             /\ \A l \in DOMAIN c.levels :
                  /\ c.levels[l].engine = c.engine => d.levels[l] = c.levels[l]
                  /\ l \in names => d.levels[l].engine = c.engine
<1> DEFINE d == LinkSome(c, names)
           given == [l \in DOMAIN c.levels |->
                       IF l \in names /\ c.levels[l].engine = NoEngine
                       THEN [c.levels[l] EXCEPT !.engine = c.engine] ELSE c.levels[l]]
<1>1. /\ d.levels = given /\ d.engine = c.engine /\ d.repo = c.repo
      /\ d = [levels |-> d.levels, engine |-> d.engine, repo |-> d.repo]
  BY DEF LinkSome, Good
<1>2. \A l \in DOMAIN c.levels :
        /\ given[l] \in Item /\ given[l].engine \in {c.levels[l].engine, c.engine}
        /\ given[l].rev = c.levels[l].rev /\ given[l].conv = c.levels[l].conv
        /\ c.levels[l].engine = c.engine => given[l] = c.levels[l]
        /\ l \in names => given[l].engine = c.engine
  <2> SUFFICES ASSUME NEW l \in DOMAIN c.levels
               PROVE  /\ given[l] \in Item /\ given[l].engine \in {c.levels[l].engine, c.engine}
                      /\ given[l].rev = c.levels[l].rev /\ given[l].conv = c.levels[l].conv
                      /\ c.levels[l].engine = c.engine => given[l] = c.levels[l]
                      /\ l \in names => given[l].engine = c.engine
    OBVIOUS
  <2>1. c.levels[l] \in Item /\ c.engine \in Engines /\ c.levels[l].engine \in {NoEngine, c.engine}
    BY DEF Good
  <2>2. CASE l \in names /\ c.levels[l].engine = NoEngine
    BY <2>1, <2>2 DEF Item, Engines
  <2>3. CASE ~ (l \in names /\ c.levels[l].engine = NoEngine)
    BY <2>1, <2>3
  <2> QED
    BY <2>2, <2>3
<1>3. \A l \in DOMAIN c.levels : LevelAsset(l, given[l]) = LevelAsset(l, c.levels[l])
  BY <1>2 DEF LevelAsset
<1>4. Held(d)
  BY <1>1, <1>2, <1>3 DEF Good, Held
<1> QED
  BY <1>1, <1>2, <1>4 DEF Good

-----------------------------------------------------------------------------
(* The inductive invariant.                                                *)

Shapes ==
  site = [list |-> site.list, levels |-> site.levels, engine |-> site.engine,
          repo |-> site.repo, torn |-> site.torn]

\* An asset that was cut short is owed for ever: no one writes it again.
TornStays == site.torn \subseteq owed /\ site.torn \cap site.repo = {}

\* What a level file names is in the directory or owed, or is written next.
Covered ==
  \A l \in DOMAIN site.levels :
    Needs(l, site.levels[l]) \subseteq site.repo \cup owed \cup (IF Writing THEN collection.repo ELSE {})

\* A publication that completed is consistent in itself.
Consistent ==
  ~partial => \A l \in DOMAIN site.list :
    /\ l \in DOMAIN site.levels /\ site.levels[l] = site.list[l]
    /\ Needs(l, site.list[l]) \subseteq Exists
    /\ site.list[l].engine = site.engine

\* What is known of the directory.
Directory == Shapes /\ TornStays /\ Covered /\ Consistent /\ ClientNeverStranded

\* What the steps of a rebuild have done to the collection.
Staged ==
  /\ pc # "idle" <=> outcome = "running"
  /\ pc # "items" => todo = {}
  /\ pc = "engine" => Unlinked(collection)
  /\ pc = "levels" => Unlinked(collection) /\ collection.engine # NoEngine
  /\ pc = "link" =>
       /\ collection.engine # NoEngine
       /\ \A l \in DOMAIN collection.levels : collection.levels[l].engine \in {NoEngine, collection.engine}
  /\ pc \in {"items", "assets", "stamp"} => Linked(collection) /\ collection.engine # NoEngine

\* What was written agrees with the collection.
Copied ==
  /\ pc \in {"items", "assets", "stamp"} =>
       /\ EngineFile \notin todo => site.engine = collection.engine
       /\ ListFile \notin todo => site.list = collection.levels
       /\ \A l \in DOMAIN collection.levels :
            ItemFile(l) \notin todo => l \in DOMAIN site.levels /\ site.levels[l] = collection.levels[l]
  /\ pc = "stamp" => collection.repo \subseteq Exists

\* A rebuild whose source stays as it is carries that source along.
Sourced ==
  "source" \in quiet =>
    /\ pc # "idle" => module = source
    /\ pc \in {"load", "convert", "engine"} => treeCache = {}
    /\ pc \in {"levels", "link", "items", "assets", "stamp"} =>
         collection.engine = Engine(source.rev, source.rev) /\ decoder = collection.engine
    /\ pc \in {"link", "items", "assets", "stamp"} =>
         \A l \in source.levels :
           l \in DOMAIN collection.levels /\ collection.levels[l] = [rev |-> source.rev, conv |-> 0, engine |-> collection.engine]

IInv == TypeOK /\ Good(collection) /\ Directory /\ Staged /\ Copied /\ Sourced /\ SourceIsFresh

-----------------------------------------------------------------------------
(* Every step keeps it.                                                    *)

LEMMA InitInvariant == Init => IInv
<1> SUFFICES ASSUME Init PROVE IInv
  OBVIOUS
<1>1. /\ source.rev = 0 /\ source \in [rev : 0..MaxSource, levels : SUBSET ProjectLevels]
      /\ 0 \in 0..MaxSource /\ 0 \in 0..MaxResource /\ 0 \in 0..MaxFailures
  BY BoundsAssumption DEF Init
<1> DEFINE e == Engine(0, 0)
           c == AddEngine(ConvertAll(Loaded(0)), e)
           a == AddLevels(c, source.levels, 0)
<1>2. e \in Engines /\ e # NoEngine
  BY <1>1, EngineIsNone DEF Engines, Engine
<1>3. Good(ConvertAll(Loaded(0))) /\ Unlinked(ConvertAll(Loaded(0)))
  BY <1>1, LoadedIsGood, ConvertAllIsGood
<1>4. Good(c) /\ Unlinked(c) /\ c.engine = e
  BY <1>2, <1>3, AddEngineIsGood DEF Unlinked
<1> HIDE DEF c
<1>5. /\ Good(a) /\ a.engine = e
      /\ DOMAIN a.levels = DOMAIN c.levels \cup source.levels
      /\ \A l \in source.levels : a.levels[l] = [rev |-> 0, conv |-> 0, engine |-> e]
      /\ \A l \in DOMAIN a.levels : a.levels[l].engine \in {NoEngine, a.engine}
  BY <1>1, <1>4, AddLevelsIsGood DEF Unlinked
<1>6. collection = LinkSome(a, DOMAIN a.levels)
  BY <1>1 DEF Init, FirstCollection, Link, c
<1> HIDE DEF a
<1>7. /\ Good(collection) /\ Linked(collection) /\ collection.engine = e
      /\ \A l \in source.levels : l \in DOMAIN collection.levels /\ collection.levels[l] = [rev |-> 0, conv |-> 0, engine |-> e]
  BY <1>5, <1>6, LinkSomeIsGood DEF Linked
<1>8. /\ site = [list |-> collection.levels, levels |-> collection.levels,
                 engine |-> collection.engine, repo |-> collection.repo, torn |-> {}]
      /\ resource = 0 /\ newer = FALSE /\ pc = "idle" /\ module = source /\ treeCache = {0} /\ decoder = e
      /\ todo = {} /\ outcome = "ok" /\ quiet = {"source", "resource"}
      /\ partial = FALSE /\ owed = {} /\ failures = 0 /\ client = {}
  BY DEF Init
<1> HIDE DEF e
<1>9. TypeOK
  BY <1>1, <1>2, <1>7, <1>8 DEF TypeOK, Good, Linked, Engines
<1>10. Staged /\ Copied /\ Sourced
  BY <1>8 DEF Staged, Copied, Sourced
<1>11. \A l \in DOMAIN collection.levels : Needs(l, collection.levels[l]) \subseteq collection.repo
  BY <1>2, <1>7 DEF Needs, Good, Held, Linked
<1>12. TornStays /\ Covered /\ ClientNeverStranded
  BY <1>8, <1>11 DEF TornStays, Covered, ClientNeverStranded, Writing
<1>13. Consistent
  BY <1>7, <1>8, <1>11 DEF Consistent, Linked, Exists
<1>14. Shapes
  BY <1>8 DEF Shapes
<1>15. SourceIsFresh
  BY <1>1, <1>7, <1>8 DEF SourceIsFresh, Rebuilt, e
<1> QED
  BY <1>7, <1>9, <1>10, <1>12, <1>13, <1>14, <1>15 DEF IInv, Directory

\* A step that does not touch the directory leaves it as good as it was.
LEMMA DirectoryKept ==
  ASSUME Directory, UNCHANGED <<site, partial, owed, client>>,
         Writing => Writing' /\ collection'.repo = collection.repo
  PROVE  Directory'
<1>1. Shapes' /\ TornStays' /\ ClientNeverStranded'
  BY DEF Directory, Shapes, TornStays, ClientNeverStranded, Exists
<1>2. Consistent'
  BY DEF Directory, Consistent, Exists, Needs
<1>3. Covered'
  BY DEF Directory, Covered, Needs
<1> QED
  BY <1>1, <1>2, <1>3 DEF Directory

LEMMA EditSourceStep == IInv /\ EditSource => IInv'
<1> SUFFICES ASSUME IInv, EditSource PROVE IInv'
  OBVIOUS
<1>1. /\ source' \in [rev : 0..MaxSource, levels : SUBSET ProjectLevels]
      /\ "source" \notin quiet' /\ quiet' \subseteq {"source", "resource"}
  BY BoundsAssumption DEF IInv, EditSource, TypeOK
<1>2. UNCHANGED <<resource, newer, pc, module, treeCache, collection, decoder, todo, site, outcome,
                  partial, owed, failures, client>>
  BY DEF EditSource, past
<1>3. TypeOK'
  BY <1>1, <1>2 DEF IInv, TypeOK, Files
<1>4. Directory'
  BY <1>2, DirectoryKept DEF IInv, Writing
<1>5. Staged' /\ Copied' /\ Good(collection)'
  BY <1>2 DEF IInv, Staged, Linked, Unlinked, Copied, Exists
<1>6. Sourced' /\ SourceIsFresh'
  BY <1>1 DEF Sourced, SourceIsFresh, Rebuilt
<1> QED
  BY <1>3, <1>4, <1>5, <1>6 DEF IInv

LEMMA EditResourceStep == IInv /\ EditResource => IInv'
<1> SUFFICES ASSUME IInv, EditResource PROVE IInv'
  OBVIOUS
<1>1. /\ resource' \in 0..MaxResource /\ newer' \in BOOLEAN
      /\ quiet' \subseteq quiet
  BY BoundsAssumption DEF IInv, EditResource, TypeOK
<1>2. UNCHANGED <<source, pc, module, treeCache, collection, decoder, todo, site, outcome,
                  partial, owed, failures, client>>
  BY DEF EditResource, past
<1>3. TypeOK'
  BY <1>1, <1>2 DEF IInv, TypeOK, Files
<1>4. Directory'
  BY <1>2, DirectoryKept DEF IInv, Writing
<1>5. Staged' /\ Copied' /\ Good(collection)'
  BY <1>2 DEF IInv, Staged, Linked, Unlinked, Copied, Exists
<1>6. Sourced' /\ SourceIsFresh'
  BY <1>1, <1>2 DEF IInv, Sourced, SourceIsFresh, Rebuilt
<1> QED
  BY <1>3, <1>4, <1>5, <1>6 DEF IInv

LEMMA ImportStep == IInv /\ Import => IInv'
<1> SUFFICES ASSUME IInv, Import PROVE IInv'
  OBVIOUS
<1>1. Directory'
  BY DirectoryKept DEF IInv, Import, Writing, past
<1>2. TypeOK'
  BY DEF IInv, Import, TypeOK, Staged, disk, past
<1>3. Good(collection)'
  BY DEF IInv, Import
<1>4. Staged' /\ Copied' /\ Sourced' /\ SourceIsFresh'
  BY DEF IInv, Import, Staged, Copied, Sourced, SourceIsFresh, Rebuilt, disk
<1> QED
  BY <1>1, <1>2, <1>3, <1>4 DEF IInv

LEMMA ImportFailsStep == IInv /\ ImportFails => IInv'
<1> SUFFICES ASSUME IInv, ImportFails PROVE IInv'
  OBVIOUS
<1>1. Directory'
  BY DirectoryKept DEF IInv, ImportFails, Writing, past
<1>2. TypeOK'
  BY DEF IInv, ImportFails, TypeOK, Staged, disk, past
<1>3. Good(collection)'
  BY DEF IInv, ImportFails
<1>4. Staged' /\ Copied' /\ Sourced' /\ SourceIsFresh'
  BY DEF IInv, ImportFails, Staged, Copied, Sourced, SourceIsFresh, Rebuilt, disk
<1> QED
  BY <1>1, <1>2, <1>3, <1>4 DEF IInv

LEMMA LoadResourcesStep == IInv /\ LoadResources => IInv'
<1> SUFFICES ASSUME IInv, LoadResources PROVE IInv'
  OBVIOUS
<1>1. Directory'
  BY DirectoryKept DEF IInv, LoadResources, Writing, ghost, past
<1>2. Good(collection)'
  <2>1. Good(Loaded(resource))
    BY LoadedIsGood DEF IInv, TypeOK
  <2> QED
    BY <2>1 DEF IInv, LoadResources
<1>3. TypeOK'
  BY <1>2 DEF IInv, LoadResources, TypeOK, Staged, Good, disk, ghost, past
<1>4. Staged' /\ Copied' /\ Sourced' /\ SourceIsFresh'
  BY DEF IInv, LoadResources, Staged, Copied, Sourced, SourceIsFresh, Rebuilt, disk, ghost
<1> QED
  BY <1>1, <1>2, <1>3, <1>4 DEF IInv

LEMMA ConvertLevelsStep == IInv /\ ConvertLevels => IInv'
<1> SUFFICES ASSUME IInv, ConvertLevels PROVE IInv'
  OBVIOUS
<1>1. Directory'
  BY DirectoryKept DEF IInv, ConvertLevels, Writing, ghost, past
<1>2. Good(collection') /\ Unlinked(collection')
  BY ConvertAllIsGood DEF IInv, ConvertLevels
<1>3. TypeOK'
  BY <1>2 DEF IInv, ConvertLevels, TypeOK, Staged, Good, disk, ghost, past
<1>4. Staged'
  BY <1>2 DEF IInv, ConvertLevels, Staged, Unlinked, ghost
<1>5. Copied' /\ Sourced' /\ SourceIsFresh'
  BY DEF IInv, ConvertLevels, Copied, Sourced, SourceIsFresh, Rebuilt, disk, ghost
<1> QED
  BY <1>1, <1>2, <1>3, <1>4, <1>5 DEF IInv, Good, Held

\* The tree found is that of some revision, and of this one if the cache is empty.
LEMMA TreeIsRevision ==
  ASSUME TypeOK
  PROVE  Tree \in 0..MaxSource /\ (treeCache = {} => Tree = source.rev)
BY DEF TypeOK, Tree

LEMMA CompileEngineStep == IInv /\ CompileEngine => IInv'
<1> SUFFICES ASSUME IInv, CompileEngine PROVE IInv'
  OBVIOUS
<1> DEFINE e == Engine(module.rev, Tree)
<1>1. Directory'
  BY DirectoryKept DEF IInv, CompileEngine, Writing, ghost, past
<1>2. e \in Engines /\ e # NoEngine /\ Tree \in 0..MaxSource
  BY TreeIsRevision, EngineIsNone DEF IInv, TypeOK, Engines, Engine
<1>3. /\ Good(collection') /\ collection'.engine = e
      /\ collection'.levels = collection.levels
  BY <1>2, AddEngineIsGood DEF IInv, CompileEngine
<1>4. TypeOK'
  <2>1. decoder' = e /\ treeCache' = {Tree} /\ pc' = "levels" /\ todo = {}
    BY DEF IInv, Staged, CompileEngine
  <2> HIDE DEF e
  <2> QED
    BY <1>2, <1>3, <2>1 DEF IInv, CompileEngine, TypeOK, Good, Engines, disk, ghost, past
<1>5. Staged'
  BY <1>2, <1>3 DEF IInv, CompileEngine, Staged, Unlinked, ghost
<1>6. Copied' /\ SourceIsFresh'
  BY DEF IInv, CompileEngine, Copied, Staged, SourceIsFresh, Rebuilt, ghost
<1>7. Sourced'
  BY <1>3, TreeIsRevision DEF IInv, CompileEngine, Sourced, disk, ghost
<1> QED
  BY <1>1, <1>3, <1>4, <1>5, <1>6, <1>7 DEF IInv, Good, Held

\* A step that fails before anything is written ends the rebuild and leaves a
\* collection that is good.
LEMMA FailureKeeps ==
  ASSUME IInv, pc \notin {"idle", "items", "assets"}, pc' = "idle", outcome' = "failed", Good(collection'),
         UNCHANGED <<disk, module, todo, site, quiet, past, client>>,
         treeCache' = treeCache \/ treeCache' = {Tree},
         decoder' = decoder \/ decoder' = Engine(module.rev, Tree)
  PROVE  IInv'
<1>1. Directory'
  BY DirectoryKept DEF IInv, Writing, past
<1>2. TypeOK'
  <2>1. treeCache' \in {{}} \cup {{rev} : rev \in 0..MaxSource}
    BY TreeIsRevision DEF IInv, TypeOK
  <2>2. decoder' \in ((0..MaxSource) \X (0..MaxSource)) \cup {NoEngine}
    BY TreeIsRevision DEF IInv, TypeOK, Engine
  <2>3. todo' = {}
    BY DEF IInv, Staged
  <2> QED
    BY <2>1, <2>2, <2>3 DEF IInv, TypeOK, Good, disk, past
<1>3. Staged' /\ Copied' /\ Sourced' /\ SourceIsFresh'
  BY DEF IInv, Staged, Copied, Sourced, SourceIsFresh, Rebuilt
<1> QED
  BY <1>1, <1>2, <1>3 DEF IInv, Good, Held

LEMMA CompileFailsStep == IInv /\ CompileFails => IInv'
BY FailureKeeps DEF IInv, CompileFails, Good, Held

LEMMA LoadFailsStep == IInv /\ LoadFails => IInv'
BY FailureKeeps DEF IInv, LoadFails, Good, Held

LEMMA ConvertFailsStep == IInv /\ ConvertFails => IInv'
<1> SUFFICES ASSUME IInv, ConvertFails PROVE IInv'
  OBVIOUS
<1>1. PICK names \in SUBSET DOMAIN collection.levels : collection' = ConvertSome(collection, names)
  BY DEF ConvertFails
<1>2. Good(collection')
  BY <1>1, ConvertSomeIsGood DEF IInv
<1> QED
  BY <1>2, FailureKeeps DEF ConvertFails

LEMMA LevelsFailStep == IInv /\ LevelsFail => IInv'
<1> SUFFICES ASSUME IInv, LevelsFail PROVE IInv'
  OBVIOUS
<1>1. PICK names \in SUBSET module.levels : collection' = AddLevels(collection, names, module.rev)
  BY DEF LevelsFail
<1>2. Good(collection')
  BY <1>1, AddLevelsIsGood DEF IInv, TypeOK
<1> QED
  BY <1>2, FailureKeeps DEF LevelsFail

LEMMA LinkFailsStep == IInv /\ LinkFails => IInv'
<1> SUFFICES ASSUME IInv, LinkFails PROVE IInv'
  OBVIOUS
<1>1. PICK names \in SUBSET DOMAIN collection.levels : collection' = LinkSome(collection, names)
  BY DEF LinkFails
<1>2. Good(collection')
  BY <1>1, LinkSomeIsGood DEF IInv, Staged, LinkFails
<1> QED
  BY <1>2, FailureKeeps DEF LinkFails

LEMMA BuildLevelsStep == IInv /\ BuildLevels => IInv'
<1> SUFFICES ASSUME IInv, BuildLevels PROVE IInv'
  OBVIOUS
<1>1. /\ pc = "levels" /\ pc' = "link" /\ todo = {}
      /\ UNCHANGED <<source, resource, newer, module, treeCache, decoder, todo, site, outcome, quiet,
                     partial, owed, failures, client>>
  BY DEF IInv, Staged, BuildLevels, disk, ghost, past
<1>2. /\ Good(collection') /\ collection'.engine = collection.engine
      /\ DOMAIN collection'.levels = DOMAIN collection.levels \cup module.levels
      /\ \A l \in module.levels : collection'.levels[l] = [rev |-> module.rev, conv |-> 0, engine |-> collection.engine]
      /\ \A l \in DOMAIN collection.levels : l \notin module.levels => collection'.levels[l] = collection.levels[l]
  <2>1. Good(collection) /\ module.rev \in 0..MaxSource /\ collection' = AddLevels(collection, module.levels, module.rev)
    BY DEF IInv, BuildLevels, TypeOK
  <2> QED
    BY <2>1, AddLevelsIsGood
<1>3. TypeOK'
  BY <1>1, <1>2 DEF IInv, TypeOK, Good
<1>4. Staged'
  BY <1>1, <1>2 DEF IInv, Staged, Unlinked
<1>5. Directory'
  BY <1>1, DirectoryKept DEF IInv, Writing
<1>6. Copied' /\ SourceIsFresh' /\ Sourced'
  BY <1>1, <1>2 DEF IInv, Copied, SourceIsFresh, Rebuilt, Staged, Sourced
<1> QED
  BY <1>2, <1>3, <1>4, <1>5, <1>6 DEF IInv, Good, Held

LEMMA LinkLevelsStep == IInv /\ LinkLevels => IInv'
<1> SUFFICES ASSUME IInv, LinkLevels PROVE IInv'
  OBVIOUS
<1>1. /\ pc = "link" /\ pc' = "items" /\ todo' = Files(collection)
      /\ UNCHANGED <<source, resource, newer, module, treeCache, decoder, site, outcome, quiet,
                     partial, owed, failures, client>>
  BY DEF LinkLevels, disk, ghost, past
<1>2. /\ Good(collection') /\ Linked(collection') /\ collection'.engine = collection.engine
      /\ DOMAIN collection'.levels = DOMAIN collection.levels
      /\ \A l \in DOMAIN collection.levels :
           collection.levels[l].engine = collection.engine => collection'.levels[l] = collection.levels[l]
  <2>1. /\ Good(collection) /\ collection' = LinkSome(collection, DOMAIN collection.levels)
        /\ \A l \in DOMAIN collection.levels : collection.levels[l].engine \in {NoEngine, collection.engine}
    BY DEF IInv, LinkLevels, Link, Staged
  <2> QED
    BY <2>1, LinkSomeIsGood DEF Linked
<1>3. TypeOK'
  BY <1>1, <1>2 DEF IInv, TypeOK, Good, Files
<1>4. Staged'
  BY <1>1, <1>2 DEF IInv, Staged, Linked
<1>5. Directory'
  BY <1>1, DirectoryKept DEF IInv, Writing
<1>6. Copied'
  BY <1>1, <1>2 DEF Copied, Files
<1>7. SourceIsFresh' /\ Sourced'
  <2>1. ASSUME "source" \in quiet, NEW l \in source.levels
        PROVE  /\ l \in DOMAIN collection'.levels
               /\ collection'.levels[l] = [rev |-> source.rev, conv |-> 0, engine |-> collection'.engine]
    BY <1>1, <1>2, <2>1 DEF IInv, Sourced
  <2> QED
    BY <1>1, <1>2, <2>1 DEF IInv, Sourced, SourceIsFresh, Rebuilt
<1> QED
  BY <1>2, <1>3, <1>4, <1>5, <1>6, <1>7 DEF IInv, Good, Held

\* The files have different names.
LEMMA FilesDiffer ==
  ASSUME NEW l
  PROVE  EngineFile # ListFile /\ EngineFile # ItemFile(l) /\ ListFile # ItemFile(l)
<1>1. EngineFile[1] = "engine" /\ ListFile[1] = "list" /\ ItemFile(l)[1] = "item"
  BY DEF EngineFile, ListFile, ItemFile
<1> QED
  BY <1>1

\* What a file of the categories makes of the directory.
LEMMA PutEffect ==
  ASSUME Shapes, NEW file \in Files(collection), NEW whole \in BOOLEAN
  PROVE  LET s == Put(file, whole)
         IN  /\ s = [list |-> s.list, levels |-> s.levels, engine |-> s.engine, repo |-> site.repo, torn |-> site.torn]
             /\ file # EngineFile => s.engine = site.engine
             /\ file = EngineFile /\ whole => s.engine = collection.engine
             /\ file # ListFile => s.list = site.list
             /\ file = ListFile => s.list = IF whole THEN collection.levels ELSE [l \in {} |-> l]
             /\ \A l \in DOMAIN s.levels :
                  \/ l \in DOMAIN site.levels /\ s.levels[l] = site.levels[l]
                  \/ l \in DOMAIN collection.levels /\ s.levels[l] = collection.levels[l]
             /\ \A l \in DOMAIN collection.levels :
                  /\ file = ItemFile(l) /\ whole => l \in DOMAIN s.levels /\ s.levels[l] = collection.levels[l]
                  /\ file # ItemFile(l) =>
                       /\ l \in DOMAIN site.levels => l \in DOMAIN s.levels
                       /\ l \in DOMAIN s.levels => l \in DOMAIN site.levels /\ s.levels[l] = site.levels[l]
<1> DEFINE s == Put(file, whole)
<1>1. CASE file = EngineFile
  <2> DEFINE engine == IF whole THEN collection.engine ELSE NoEngine
  <2>1. file # ListFile /\ \A l : file # ItemFile(l)
    BY <1>1, FilesDiffer
  <2>2. s = [site EXCEPT !.engine = engine]
    BY <1>1 DEF Put
  <2> HIDE DEF s, engine
  <2>3. s = [list |-> site.list, levels |-> site.levels, engine |-> engine, repo |-> site.repo, torn |-> site.torn]
    BY <2>2 DEF Shapes
  <2> QED
    BY <1>1, <2>1, <2>3 DEF s, engine
<1>2. CASE file = ListFile
  <2> DEFINE list == IF whole THEN collection.levels ELSE [l \in {} |-> l]
  <2>1. file # EngineFile /\ \A l : file # ItemFile(l)
    BY <1>2, FilesDiffer
  <2>2. s = [site EXCEPT !.list = list]
    BY <1>2, <2>1 DEF Put
  <2> HIDE DEF s, list
  <2>3. s = [list |-> list, levels |-> site.levels, engine |-> site.engine, repo |-> site.repo, torn |-> site.torn]
    BY <2>2 DEF Shapes
  <2> QED
    BY <1>2, <2>1, <2>3 DEF s, list
<1>3. CASE file \notin {EngineFile, ListFile}
  <2>1. PICK k \in DOMAIN collection.levels : file = ItemFile(k)
    BY <1>3 DEF Files
  <2>2. file[2] = k /\ \A l : ItemFile(l) = file <=> l = k
    BY <2>1 DEF ItemFile
  <2> DEFINE items == [l \in IF whole THEN DOMAIN site.levels \cup {k} ELSE DOMAIN site.levels \ {k} |->
                         IF l = k THEN collection.levels[l] ELSE site.levels[l]]
  <2>3. s = [site EXCEPT !.levels = items]
    BY <1>3, <2>2 DEF Put
  <2>4. /\ whole => k \in DOMAIN items /\ items[k] = collection.levels[k]
        /\ \A l \in DOMAIN items : IF l = k THEN items[l] = collection.levels[l]
                                   ELSE l \in DOMAIN site.levels /\ items[l] = site.levels[l]
        /\ \A l \in DOMAIN site.levels : l # k => l \in DOMAIN items
    OBVIOUS
  <2> HIDE DEF s, items
  <2>5. s = [list |-> site.list, levels |-> items, engine |-> site.engine, repo |-> site.repo, torn |-> site.torn]
    BY <2>3 DEF Shapes
  <2> QED
    BY <1>3, <2>1, <2>2, <2>4, <2>5 DEF s
<1> QED
  BY <1>1, <1>2, <1>3

\* Either way the directory names only what is there, owed, or written next.
LEMMA PutKeeps ==
  ASSUME IInv, pc = "items", NEW file \in todo, NEW whole \in BOOLEAN, site' = Put(file, whole), partial',
         UNCHANGED <<collection, client>>
  PROVE  /\ Shapes' /\ Consistent' /\ ClientNeverStranded'
         /\ site'.repo = site.repo /\ site'.torn = site.torn
         /\ \A l \in DOMAIN site'.levels : site'.levels[l] \in Item /\ site'.levels[l].engine # NoEngine
         /\ \A l \in DOMAIN site'.list : site'.list[l] \in Item /\ site'.list[l].engine # NoEngine
         /\ \A l \in DOMAIN site'.levels :
              Needs(l, site'.levels[l]) \subseteq site.repo \cup owed \cup collection.repo
<1>1. /\ Shapes /\ file \in Files(collection) /\ Good(collection) /\ Linked(collection) /\ collection.engine # NoEngine
      /\ Covered /\ Writing /\ TypeOK
  BY DEF IInv, Directory, TypeOK, Staged, Writing
<1>2. /\ site' = [list |-> site'.list, levels |-> site'.levels, engine |-> site'.engine, repo |-> site.repo, torn |-> site.torn]
      /\ file # ListFile => site'.list = site.list
      /\ file = ListFile => site'.list = IF whole THEN collection.levels ELSE [l \in {} |-> l]
      /\ \A l \in DOMAIN site'.levels :
           \/ l \in DOMAIN site.levels /\ site'.levels[l] = site.levels[l]
           \/ l \in DOMAIN collection.levels /\ site'.levels[l] = collection.levels[l]
  BY <1>1, PutEffect
<1>3. /\ site'.repo = site.repo /\ site'.torn = site.torn
  BY <1>2
<1>4. \A l \in DOMAIN collection.levels :
        /\ collection.levels[l] \in Item /\ collection.levels[l].engine # NoEngine
        /\ Needs(l, collection.levels[l]) \subseteq collection.repo
  BY <1>1 DEF Good, Held, Linked, Needs
<1>5. \A l \in DOMAIN site'.levels : site'.levels[l] \in Item /\ site'.levels[l].engine # NoEngine
  BY <1>1, <1>2, <1>4 DEF TypeOK
<1>6. \A l \in DOMAIN site'.list : site'.list[l] \in Item /\ site'.list[l].engine # NoEngine
  BY <1>1, <1>2, <1>4 DEF TypeOK
<1>7. \A l \in DOMAIN site'.levels :
        Needs(l, site'.levels[l]) \subseteq site.repo \cup owed \cup collection.repo
  BY <1>1, <1>2, <1>4 DEF Covered
<1>8. Shapes' /\ Consistent' /\ ClientNeverStranded'
  BY <1>2, <1>3 DEF IInv, Directory, Shapes, Consistent, ClientNeverStranded, Exists
<1> QED
  BY <1>3, <1>5, <1>6, <1>7, <1>8

LEMMA WriteCategoryStep ==
  ASSUME NEW file \in todo, IInv, WriteCategory(file)
  PROVE  IInv'
<1>1. /\ pc = "items" /\ todo' = todo \ {file} /\ site' = Put(file, TRUE) /\ partial' = TRUE
      /\ pc' = IF todo' = {} THEN "assets" ELSE "items"
      /\ UNCHANGED <<source, resource, newer, module, treeCache, collection, decoder, outcome, quiet,
                     owed, failures, client>>
  BY DEF WriteCategory, disk
<1>2. /\ pc' \in {"items", "assets"} /\ Writing /\ Writing' /\ outcome = "running"
      /\ Good(collection) /\ Linked(collection) /\ collection.engine # NoEngine
      /\ file \in Files(collection) /\ Shapes /\ TornStays
  BY <1>1 DEF IInv, Staged, Writing, TypeOK, Directory
<1>3. Good(collection') /\ Staged' /\ SourceIsFresh' /\ Sourced'
  BY <1>1, <1>2 DEF IInv, Staged, SourceIsFresh, Rebuilt, Sourced, Linked
<1>4. /\ Shapes' /\ Consistent' /\ ClientNeverStranded'
      /\ site'.repo = site.repo /\ site'.torn = site.torn
      /\ \A l \in DOMAIN site'.levels : site'.levels[l] \in Item /\ site'.levels[l].engine # NoEngine
      /\ \A l \in DOMAIN site'.list : site'.list[l] \in Item /\ site'.list[l].engine # NoEngine
      /\ \A l \in DOMAIN site'.levels : Needs(l, site'.levels[l]) \subseteq site.repo \cup owed \cup collection.repo
  BY <1>1, PutKeeps
<1>5. TypeOK'
  BY <1>1, <1>2, <1>4 DEF IInv, TypeOK, Files
<1>6. TornStays' /\ Covered'
  BY <1>1, <1>2, <1>4 DEF TornStays, Covered, Needs
<1>7. Copied'
  <2>1. /\ file # EngineFile => site'.engine = site.engine
        /\ file = EngineFile => site'.engine = collection.engine
        /\ file # ListFile => site'.list = site.list
        /\ file = ListFile => site'.list = collection.levels
        /\ \A l \in DOMAIN collection.levels :
             /\ file = ItemFile(l) => l \in DOMAIN site'.levels /\ site'.levels[l] = collection.levels[l]
             /\ file # ItemFile(l) =>
                  /\ l \in DOMAIN site.levels => l \in DOMAIN site'.levels
                  /\ l \in DOMAIN site'.levels => l \in DOMAIN site.levels /\ site'.levels[l] = site.levels[l]
    BY <1>1, <1>2, PutEffect
  <2> QED
    BY <1>1, <1>2, <2>1 DEF IInv, Copied
<1> QED
  BY <1>3, <1>4, <1>5, <1>6, <1>7 DEF IInv, Directory

\* A publication that fails owes what it did not bring.
LEMMA AbandonKeeps ==
  ASSUME IInv, Writing, Abandon, Shapes', Consistent', ClientNeverStranded', partial' \in BOOLEAN,
         site.repo \subseteq site'.repo, site.torn \subseteq site'.torn,
         site'.torn \subseteq site.torn \cup collection.repo, site'.torn \cap site'.repo = {},
         \A l \in DOMAIN site'.levels : site'.levels[l] \in Item /\ site'.levels[l].engine # NoEngine,
         \A l \in DOMAIN site'.list : site'.list[l] \in Item /\ site'.list[l].engine # NoEngine,
         \A l \in DOMAIN site'.levels : Needs(l, site'.levels[l]) \subseteq site.repo \cup owed \cup collection.repo
  PROVE  IInv'
<1>1. /\ todo' = {} /\ owed' = (owed \cup collection.repo) \ site'.repo /\ pc' = "idle" /\ outcome' = "failed"
      /\ failures < MaxFailures /\ failures' = failures + 1
      /\ UNCHANGED <<source, resource, newer, module, treeCache, collection, decoder, quiet, client>>
  BY DEF Abandon, disk
<1>2. failures' \in 0..MaxFailures
  BY <1>1, BoundsAssumption DEF IInv, TypeOK
<1>3. TypeOK'
  BY <1>1, <1>2 DEF IInv, TypeOK
<1>4. TornStays'
  BY <1>1 DEF IInv, Directory, TornStays
<1>5. Covered'
  BY <1>1 DEF Covered, Needs, Writing
<1>6. Staged' /\ Copied' /\ Sourced' /\ SourceIsFresh' /\ Good(collection)'
  BY <1>1 DEF IInv, Staged, Copied, Sourced, SourceIsFresh, Rebuilt
<1> QED
  BY <1>3, <1>4, <1>5, <1>6 DEF IInv, Directory

LEMMA CategoryFailsStep ==
  ASSUME NEW file \in todo, IInv, CategoryFails(file)
  PROVE  IInv'
<1>1. pc = "items" /\ Writing /\ Abandon /\ UNCHANGED <<collection, client>> /\ TornStays /\ TypeOK
  BY DEF CategoryFails, Writing, Abandon, IInv, Directory
<1>2. CASE UNCHANGED <<site, partial>>
  <2>1. Shapes' /\ Consistent' /\ ClientNeverStranded'
    BY <1>1, <1>2 DEF IInv, Directory, Shapes, Consistent, ClientNeverStranded, Exists, Needs
  <2>2. \A l \in DOMAIN site'.levels : Needs(l, site'.levels[l]) \subseteq site.repo \cup owed \cup collection.repo
    BY <1>1, <1>2 DEF IInv, Directory, Covered, Writing
  <2> QED
    BY <1>1, <1>2, <2>1, <2>2, AbandonKeeps DEF TornStays, TypeOK
<1>3. CASE site' = Put(file, FALSE) /\ partial' = TRUE
  <2>1. /\ Shapes' /\ Consistent' /\ ClientNeverStranded'
        /\ site'.repo = site.repo /\ site'.torn = site.torn
        /\ \A l \in DOMAIN site'.levels : site'.levels[l] \in Item /\ site'.levels[l].engine # NoEngine
        /\ \A l \in DOMAIN site'.list : site'.list[l] \in Item /\ site'.list[l].engine # NoEngine
        /\ \A l \in DOMAIN site'.levels : Needs(l, site'.levels[l]) \subseteq site.repo \cup owed \cup collection.repo
    BY <1>1, <1>3, PutKeeps
  <2> QED
    BY <1>1, <1>3, <2>1, AbandonKeeps DEF TornStays
<1> QED
  BY <1>2, <1>3 DEF CategoryFails

LEMMA WriteAssetsStep == IInv /\ WriteAssets => IInv'
<1> SUFFICES ASSUME IInv, WriteAssets PROVE IInv'
  OBVIOUS
<1>1. /\ pc = "assets" /\ pc' = "stamp" /\ owed' = owed \ Missing
      /\ UNCHANGED <<source, resource, newer, module, treeCache, collection, decoder, todo, outcome, quiet,
                     partial, failures, client>>
  BY DEF WriteAssets, disk
<1> DEFINE whole == site.repo \cup Missing
<1>2. site' = [list |-> site.list, levels |-> site.levels, engine |-> site.engine, repo |-> whole, torn |-> site.torn]
  <2>1. site' = [site EXCEPT !.repo = whole]
    BY DEF WriteAssets
  <2> HIDE DEF whole
  <2> QED
    BY <2>1 DEF IInv, Directory, Shapes
<1>3. /\ collection.repo \subseteq site.torn \cup whole /\ site.torn \cap Missing = {}
      /\ site.torn \subseteq owed /\ site.torn \cap site.repo = {} /\ Exists = site.repo \cup site.torn
  BY DEF IInv, Directory, TornStays, Missing, Exists
<1>4. TypeOK'
  BY <1>1, <1>2 DEF IInv, TypeOK, Files
<1>5. Shapes' /\ TornStays' /\ ClientNeverStranded' /\ Exists \subseteq Exists'
  BY <1>1, <1>2, <1>3 DEF IInv, Directory, Shapes, TornStays, ClientNeverStranded, Exists
<1>6. Consistent'
  BY <1>1, <1>2, <1>5 DEF IInv, Directory, Consistent, Needs
<1>7. Covered'
  <2>1. \A l \in DOMAIN site.levels : Needs(l, site.levels[l]) \subseteq site.repo \cup owed \cup collection.repo
    BY <1>1 DEF IInv, Directory, Covered, Writing
  <2>2. site.repo \cup owed \cup collection.repo \subseteq whole \cup owed'
    BY <1>1, <1>3
  <2> HIDE DEF whole
  <2> QED
    BY <1>2, <2>1, <2>2 DEF Covered, Needs
<1>8. Staged' /\ SourceIsFresh' /\ Sourced' /\ Good(collection)'
  BY <1>1 DEF IInv, Staged, Linked, SourceIsFresh, Rebuilt, Sourced
<1>9. Copied'
  BY <1>1, <1>2, <1>3 DEF IInv, Copied, Exists
<1> QED
  BY <1>4, <1>5, <1>6, <1>7, <1>8, <1>9 DEF IInv, Directory

LEMMA AssetsFailStep == IInv /\ AssetsFail => IInv'
<1> SUFFICES ASSUME IInv, AssetsFail PROVE IInv'
  OBVIOUS
<1>a. PICK a \in Missing, written \in SUBSET Missing :
        /\ a \notin written
        /\ \E part \in {{}, {a}} :
             site' = [site EXCEPT !.repo = @ \cup written, !.torn = @ \cup part]
  BY DEF AssetsFail
<1>1. PICK cut \in {{}, {a}} :
        a \notin written /\ site' = [site EXCEPT !.repo = @ \cup written, !.torn = @ \cup cut]
  BY <1>a
<1>2. pc = "assets" /\ Writing /\ Abandon /\ UNCHANGED <<collection, partial, client>> /\ TornStays /\ TypeOK
  BY DEF AssetsFail, Writing, Abandon, IInv, Directory
<1> DEFINE repo == site.repo \cup written
           torn == site.torn \cup cut
<1>3. site' = [list |-> site.list, levels |-> site.levels, engine |-> site.engine, repo |-> repo, torn |-> torn]
  <2>1. site' = [site EXCEPT !.repo = repo, !.torn = torn]
    BY <1>1
  <2> HIDE DEF repo, torn
  <2> QED
    BY <2>1 DEF IInv, Directory, Shapes
<1>4. /\ Missing \cap site.repo = {} /\ Missing \cap site.torn = {} /\ Missing \subseteq collection.repo
      /\ cut \subseteq Missing /\ cut \cap written = {} /\ written \subseteq Missing
      /\ site.torn \subseteq owed /\ site.torn \cap site.repo = {}
  BY <1>1, <1>2 DEF Missing, Exists, TornStays
<1>5. /\ repo \cap torn = {} /\ site.repo \subseteq repo /\ site.torn \subseteq torn
      /\ torn \subseteq site.torn \cup collection.repo
  BY <1>4
<1> HIDE DEF repo, torn
<1>6. Shapes' /\ ClientNeverStranded' /\ Exists \subseteq Exists'
  BY <1>2, <1>3, <1>5 DEF IInv, Directory, Shapes, ClientNeverStranded, Exists
<1>7. Consistent'
  BY <1>2, <1>3, <1>6 DEF IInv, Directory, Consistent, Needs
<1>8. \A l \in DOMAIN site'.levels : Needs(l, site'.levels[l]) \subseteq site.repo \cup owed \cup collection.repo
  BY <1>2, <1>3 DEF IInv, Directory, Covered, Writing
<1> QED
  BY <1>2, <1>3, <1>5, <1>6, <1>7, <1>8, AbandonKeeps DEF TypeOK

LEMMA StampStep == IInv /\ Stamp => IInv'
<1> SUFFICES ASSUME IInv, Stamp PROVE IInv'
  OBVIOUS
<1>1. /\ pc = "stamp" /\ pc' = "idle" /\ outcome' = "ok" /\ newer' = FALSE /\ partial' = FALSE /\ todo = {}
      /\ UNCHANGED <<source, resource, module, treeCache, collection, decoder, todo, site, quiet, owed, failures, client>>
  BY DEF IInv, Staged, Stamp
<1>2. /\ site.engine = collection.engine /\ site.list = collection.levels
      /\ \A l \in DOMAIN collection.levels : l \in DOMAIN site.levels /\ site.levels[l] = collection.levels[l]
      /\ collection.repo \subseteq Exists
      /\ Good(collection) /\ Linked(collection) /\ collection.engine # NoEngine
  BY <1>1 DEF IInv, Copied, Staged
<1>3. TypeOK'
  BY <1>1 DEF IInv, TypeOK
<1>4. Shapes' /\ TornStays' /\ ClientNeverStranded'
  BY <1>1 DEF IInv, Directory, Shapes, TornStays, ClientNeverStranded, Exists
<1>5. Covered'
  BY <1>1 DEF IInv, Directory, Covered, Needs, Writing
<1>6. Consistent'
  <2>1. \A l \in DOMAIN collection.levels : Needs(l, collection.levels[l]) \subseteq collection.repo
    BY <1>2 DEF Good, Held, Linked, Needs
  <2> QED
    BY <1>1, <1>2, <2>1 DEF Consistent, Linked, Exists, Needs
<1>7. Staged' /\ Copied' /\ Sourced' /\ Good(collection)'
  BY <1>1 DEF IInv, Staged, Copied, Sourced
<1>8. SourceIsFresh'
  BY <1>1, <1>2 DEF IInv, Sourced, SourceIsFresh, Rebuilt
<1> QED
  BY <1>3, <1>4, <1>5, <1>6, <1>7, <1>8 DEF IInv, Directory

LEMMA FetchLevelStep == IInv /\ FetchLevel => IInv'
<1> SUFFICES ASSUME IInv, FetchLevel PROVE IInv'
  OBVIOUS
<1>1. PICK l \in DOMAIN site.list, file \in {site.list, site.levels} : l \in DOMAIN file /\ client' = Needs(l, file[l])
  BY DEF FetchLevel
<1>2. ~partial /\ UNCHANGED <<source, resource, newer, pc, module, treeCache, collection, decoder, todo, site, outcome,
                              quiet, partial, owed, failures>>
  BY DEF FetchLevel, disk, ghost, past
<1>3. ClientNeverStranded'
  BY <1>1, <1>2 DEF IInv, Directory, Consistent, ClientNeverStranded, Exists
<1>4. TypeOK'
  BY <1>2 DEF IInv, TypeOK, Files
<1>5. Shapes' /\ TornStays' /\ Covered' /\ Consistent'
  BY <1>2 DEF IInv, Directory, Shapes, TornStays, Covered, Consistent, Needs, Writing, Exists
<1>6. Staged' /\ Copied' /\ Sourced' /\ SourceIsFresh' /\ Good(collection)'
  BY <1>2 DEF IInv, Staged, Linked, Unlinked, Copied, Exists, Sourced, SourceIsFresh, Rebuilt
<1> QED
  BY <1>3, <1>4, <1>5, <1>6 DEF IInv, Directory

LEMMA StutterStep == IInv /\ UNCHANGED vars => IInv'
<1> SUFFICES ASSUME IInv, UNCHANGED vars PROVE IInv'
  OBVIOUS
<1>1. UNCHANGED <<source, resource, newer, pc, module, treeCache, collection, decoder, todo, site, outcome, quiet,
                  partial, owed, failures, client>>
  BY DEF vars
<1>2. Directory'
  BY <1>1, DirectoryKept DEF IInv, Writing
<1>3. TypeOK' /\ Good(collection)' /\ Staged' /\ Copied'
  BY <1>1 DEF IInv, TypeOK, Files, Staged, Linked, Unlinked, Copied, Exists
<1>4. Sourced' /\ SourceIsFresh'
  BY <1>1 DEF IInv, Sourced, SourceIsFresh, Rebuilt
<1> QED
  BY <1>2, <1>3, <1>4 DEF IInv

LEMMA NextInvariant == IInv /\ [Next]_vars => IInv'
<1>1. IInv /\ Write => IInv'
  BY LinkLevelsStep, LinkFailsStep, WriteCategoryStep, CategoryFailsStep, WriteAssetsStep, AssetsFailStep, StampStep
     DEF Write
<1>2. IInv /\ Execute => IInv'
  BY <1>1, LoadResourcesStep, ConvertLevelsStep, CompileEngineStep, BuildLevelsStep, LoadFailsStep, ConvertFailsStep,
     CompileFailsStep, LevelsFailStep DEF Execute
<1> QED
  BY <1>2, EditSourceStep, EditResourceStep, ImportStep, ImportFailsStep, FetchLevelStep, StutterStep DEF Next

LEMMA Invariance == Spec => []IInv
BY InitInvariant, NextInvariant, PTL DEF Spec

-----------------------------------------------------------------------------
(* The theorems.                                                           *)

\* The state of the server is always well typed, and a published level embeds
\* an engine.
THEOREM TypeCorrect == Spec => []TypeOK
<1>1. IInv => TypeOK
  BY DEF IInv
<1> QED
  BY <1>1, Invariance, PTL

\* After a publication that completed, every level is listed as its file has it
\* and the assets it names are there, wherever earlier publications stopped;
\* after one that stopped, only what such publications owe is lacking
\* (Collection.write).
THEOREM SiteIsComplete == Spec => []PublishedAssetsExist
<1>1. IInv => PublishedAssetsExist
  BY DEF IInv, Directory, Covered, Consistent, PublishedAssetsExist
<1> QED
  BY <1>1, Invariance, PTL

\* A player who read a level of a publication that completed can always find its
\* assets, also while later publications write or stop half way (Collection.write
\* with clear=False).
THEOREM PlayersAreServed == Spec => []ClientNeverStranded
<1>1. IInv => ClientNeverStranded
  BY DEF IInv, Directory
<1> QED
  BY <1>1, Invariance, PTL

\* In a publication that completed every level embeds the published engine
\* (Collection.link, override_resource_level_engines).
THEOREM EnginesAreCurrent == Spec => []LevelsPlayCurrentEngine
<1>1. IInv => LevelsPlayCurrentEngine
  BY DEF IInv, Directory, Consistent, LevelsPlayCurrentEngine
<1> QED
  BY <1>1, Invariance, PTL

\* A rebuild that succeeds and was not raced by an edit of the source publishes
\* that source (RebuildCommand.execute).
THEOREM SourceIsPublished == Spec => []SourceIsFresh
<1>1. IInv => SourceIsFresh
  BY DEF IInv
<1> QED
  BY <1>1, Invariance, PTL
=============================================================================
