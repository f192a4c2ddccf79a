------------------------------ MODULE MCServer ------------------------------
(* What the development server does with a project: publishing it while it  *)
(* is edited, with one level in the source and one in the resources, and    *)
(* building its engine.  part says which.  A project with a converter, whose *)
(* rebuilds find ever more data to publish, has parts of its own: two       *)
(* publications may fail without it, one with it and no resource edited.    *)
EXTENDS Rebuild, Integers, TLC
CONSTANTS tutorial, classic
MCProjectLevels == {tutorial}

VARIABLES part, project, at, rom, messages, memory, code, nodes, results, ended   \* of Build
building == <<project, at, rom, messages, memory, code, nodes, results, ended>>
parts == <<part, vars, building>>

Converting == INSTANCE Rebuild WITH Converts <- TRUE, MaxFailures <- 0
ConvertingAndFailing == INSTANCE Rebuild WITH Converts <- TRUE, MaxFailures <- 1, MaxResource <- 0

-----------------------------------------------------------------------------
(* Engines to build.  Two callbacks of play, one of watch and one of the    *)
(* tutorial ask for arrays with the same values, for globals that fill      *)
(* their block to the last cell or exceed it, that have a fixed place or    *)
(* none in the mode, for messages, options and resources behind groups;     *)
(* each may fail at some point of its first attempt, or for good.           *)
Array(values) == [kind |-> "array", values |-> values]
Key == [kind |-> "archetype", array |-> "keys"]
IsScored == [kind |-> "archetype", array |-> "scored"]
Global(g, field) == [kind |-> "global", global |-> g, field |-> field]
Message(m) == [kind |-> "message", message |-> m]
Option(n) == [kind |-> "option", option |-> n]
Resource(r, field, index) == [kind |-> "resource", resource |-> r, field |-> field, index |-> index]

Memory == [play |-> 1, watch |-> 1, tutorial |-> 1]
State == [name |-> "state", blocks |-> Memory, offset |-> -1, size |-> 2]
Score == [name |-> "score", blocks |-> Memory, offset |-> -1, size |-> 2]
Extra == [name |-> "extra", blocks |-> Memory, offset |-> -1, size |-> 1]
Data == [name |-> "data", blocks |-> [play |-> 2, watch |-> 2, preview |-> 7, tutorial |-> 2], offset |-> -1, size |-> 4]
Screen == [name |-> "screen", blocks |-> [play |-> 5, watch |-> 5], offset |-> 0, size |-> 6]

Callback(asks, stops, broken, optimizes, order) ==
  [asks |-> asks, stops |-> stops, broken |-> broken, optimizes |-> optimizes, order |-> order, ordered |-> FALSE]
Never == 9
Sprites == <<<<"head">>, <<"one", "two">>, <<"tail">>>>
Singles == <<<<"first">>, <<"second">>>>

Play(first, second) ==
  [name |-> "play", keys |-> <<5, 7>>, scored |-> <<1, 0>>, callbacks |-> <<first, second>>,
   resources |-> [skin |-> Sprites, effect |-> Sprites, particle |-> Sprites, bucket |-> Singles]]
Watch(only) ==
  [name |-> "watch", keys |-> <<5, 7, 5>>, scored |-> <<5, 7>>, callbacks |-> <<only>>,
   resources |-> [skin |-> Singles, effect |-> Sprites, particle |-> Singles, bucket |-> Singles]]
Preview(only) ==
  [name |-> "preview", keys |-> <<5>>, scored |-> <<1>>, callbacks |-> <<only>>, resources |-> [skin |-> Sprites]]
Tutorial(only) ==
  [name |-> "tutorial", keys |-> <<>>, scored |-> <<>>, callbacks |-> <<only>>,
   resources |-> [skin |-> Sprites, effect |-> Singles, particle |-> Sprites, instruction |-> Singles, icon |-> Singles]]

First == {
  <<Array(<<1, 2>>), Global(State, 1), Message(1)>>,
  <<Global(Score, 0), Key, Resource("skin", 3, 0), Global(State, 0)>>,
  <<Message(2), Global(Screen, 3), Array(<<5, 7>>)>> }
Second == {
  <<Global(State, 1), Message(2), Array(<<1, 2>>), Global(Score, 1)>>,
  <<Global(Extra, 0), IsScored, Resource("effect", 2, 1), Global(Score, 1)>>,
  <<Array(<<1, 2>>), Global(Screen, 5), Message(1), Global(State, 1)>> }
OfWatch == {
  <<Global(Score, 0), Key, Message(1), Resource("particle", 2, 0), Resource("bucket", 2, 0)>>,
  <<IsScored, Array(<<5, 7>>), Message(2), Option(2)>> }
OfPreview == {
  Callback(<<Option(1), Global(Data, 2), Key>>, Never, FALSE, TRUE, 0),
  Callback(<<Global(Data, 3)>>, Never, FALSE, TRUE, 1),
  Callback(<<Option(2), Global(State, 0)>>, Never, FALSE, TRUE, 0)}
OfTutorial == <<Resource("instruction", 2, 0), Message(1), Global(Data, 1), Option(2), Resource("icon", 1, 0)>>

MCProjects ==
  { [validate |-> v, notify |-> n, options |-> <<[name |-> "speed", default |-> 10], [name |-> "mirror", default |-> 0]>>,
     modes |-> <<Play(Callback(a, s, FALSE, TRUE, 0), Callback(b, t, FALSE, o, 0)), Watch(Callback(c, u, w, TRUE, 0)),
                 Preview(d), Tutorial(Callback(OfTutorial, 3, FALSE, TRUE, 0))>>] :
      v \in BOOLEAN, n \in BOOLEAN, a \in First, s \in {2, Never}, b \in Second, t \in {1, 4, Never},
      o \in BOOLEAN, c \in OfWatch, u \in {0, Never}, w \in BOOLEAN, d \in OfPreview }
MCCapacity == [block \in {1, 2, 7} |-> 4]
B == INSTANCE Build WITH Projects <- MCProjects, Capacity <- MCCapacity
-----------------------------------------------------------------------------
NoBuild ==
  /\ project = <<>> /\ at = <<>> /\ rom = <<>> /\ messages = <<>> /\ memory = <<>> /\ code = <<>> /\ nodes = <<>>
  /\ results = <<>> /\ ended = "none"
NoRebuild ==
  /\ source = [rev |-> 0, levels |-> {}] /\ resource = 0 /\ newer = FALSE
  /\ pc = "idle" /\ module = source /\ treeCache = {0}
  /\ collection = FirstCollection(source, 0) /\ decoder = Engine(0, 0) /\ todo = {}
  /\ site = [list |-> collection.levels, levels |-> collection.levels,
             engine |-> collection.engine, repo |-> collection.repo, torn |-> {}]
  /\ outcome = "ok" /\ quiet = {} /\ partial = FALSE /\ owed = {} /\ failures = 0 /\ client = {}

PartsInit ==
  \/ part = "rebuild" /\ Init /\ NoBuild
  \/ part = "convert" /\ Converting!Init /\ NoBuild
  \/ part = "convert and fail" /\ ConvertingAndFailing!Init /\ NoBuild
  \/ part = "build" /\ B!Init /\ NoRebuild

RebuildStep ==
  /\ \/ part = "rebuild" /\ Next
     \/ part = "convert" /\ Converting!Next
     \/ part = "convert and fail" /\ ConvertingAndFailing!Next
  /\ UNCHANGED <<part, building>>
BuildStep == part = "build" /\ B!Next /\ UNCHANGED <<part, vars>>
Built == part = "build" /\ ended # "building" /\ UNCHANGED parts
PartsNext == RebuildStep \/ BuildStep \/ Built
PartsSpec == PartsInit /\ [][PartsNext]_parts

\* Every variable has its type, each part in its module.
AllTypesOK == TypeOK /\ (part = "build" => B!TypeOK)

\* The engine that was packaged does what its callbacks were traced to do, and
\* the build fails only for what they are: see Build (driver.pyx, compile.py,
\* context.py, node.py).
EnginesMean == part = "build" => B!NodesMean /\ B!GlobalsKeepApart /\ B!FailsForAReason
=============================================================================
