----------------------------- MODULE MCFrontend -----------------------------
(* What callbacks are written with, one of them at a time: containers, the  *)
(* tracing of their code, streams, archetypes, numbers.  part says which;   *)
(* the variables of the others keep one value.                              *)
EXTENDS Containers, Streams

(* Containers: two keys with two values each: entries that    *)
(* are equal in key only, four cells and lists of four entities.            *)
MCKeys == 1 .. 2
MCEntries == [key: MCKeys, val: 1 .. 2]
MCNothing == [key |-> 0, val |-> 0]

(* Streams: one declaration of each kind next to others of other sizes.     *)
Declared(k, n, count) == [kind |-> k, size |-> n, count |-> count]
MCTimes == {2, 4, 6}
MCDeclarations == {
  [fields |-> <<Declared("stream", 1, 1)>>, writes |-> 3],
  [fields |-> <<Declared("stream", 0, 1), Declared("stream", 2, 1), Declared("data", 2, 1)>>, writes |-> 2],
  [fields |-> <<Declared("group", 2, 2), Declared("data", 1, 1), Declared("group", 0, 2)>>, writes |-> 2],
  [fields |-> <<Declared("data", 3, 1), Declared("group", 1, 2), Declared("stream", 2, 1)>>, writes |-> 2] }

(* Archetypes: a derived pair whose base inherits a mixin, and two classes  *)
(* whose common mixin is inherited twice.                                   *)
Renamed(name, data, storage, n) == [name |-> name, data |-> data, storage |-> storage, size |-> n, default |-> <<>>]
Field(name, storage, n) == Renamed(name, name, storage, n)
Given(name, storage, n) == [Field(name, storage, n) EXCEPT !.default = <<7>>]
Class(k, bases, fs, callbacks) == [kind |-> k, bases |-> bases, fields |-> fs, callbacks |-> callbacks]

\* The default of the mixin is one number, which its field may not be.
DerivedProjects == {
  [classes |-> << Class("archetype", <<>>, <<Field("x", "imported", 1), Field("s", "shared", 1)>>, {"update"}),
                  Class("mixin", <<>>, <<Given("d", "imported", n), Field("m", "memory", 1)>>, {"touch"}),
                  Class("archetype", <<1, 2>>, <<Field("t", "shared", 2), Field("n", "memory", 2)>>, {}),
                  Class("derived", <<3>>, <<>>, {}),
                  Class("derived", <<3>>, <<>>, {}) >>,
   registered |-> r] : n \in {1, 2}, r \in {<<4, 1>>, <<5, 4>>} }
\* x, y and f have the names dx, dy and df in levels and replays.
MixinProject(fs, dx, dy, df) ==
  [classes |-> << Class("mixin", <<>>, <<Field("m", "memory", 1), Field("e", "exported", 2)>>, {}),
                  Class("archetype", <<1>>, <<Renamed("x", dx, "imported", 2), Renamed("f", df, "exported", 1)>>, {"update"}),
                  Class("mixin", <<1>>, <<[Renamed("y", dy, "data", 1) EXCEPT !.storage = IF dy = "y" THEN "data" ELSE "imported"]>>, {"update"}),
                  Class("archetype", <<3, 2>>, fs, {"touch"}),
                  Class("archetype", <<2>>, <<Field("y", "imported", 1)>>, {}) >>,
   registered |-> <<5, 4>>]
MCProjects ==
  DerivedProjects \cup
  {MixinProject(fs, "x", "y", "f") : fs \in {<<>>, <<Field("x", "shared", 1)>>, <<Given("z", "imported", 1)>>}} \cup
  {MixinProject(<<>>, "w", "y", "f"), MixinProject(<<>>, "y", "x", "f"), MixinProject(<<>>, "y", "y", "e")}

\* A class derived from an archetype, and a subclass of it that has a callback
\* of its own.
MCSubclasses == {
  [classes |-> << Class("archetype", <<>>, <<>>, {"update"}), Class("derived", <<1>>, <<>>, {}),
                  Class("archetype", <<2>>, <<>>, c) >>, registered |-> <<2, 3>>] : c \in SUBSET {"update", "touch"} }

(* Numbers: quarters, of which three bits are kept, two at run time, up to  *)
(* 14; and what is not a finite number.                                     *)
Num(n) == [k |-> "num", n |-> n]
Odd == {[k |-> "-0", n |-> 0], [k |-> "nan", n |-> 0], [k |-> "inf", n |-> 1], [k |-> "inf", n |-> -1]}
Few == {Num(n) : n \in {-8, -4, -1, 0, 1, 3, 4, 6, 20, 56}} \cup Odd
Many == {Num(n) : n \in {-56, -12, -8, -6, -4, -3, -2, -1, 0, 1, 2, 3, 4, 5, 6, 7, 8, 10, 12, 20, 48, 56}} \cup Odd
Plainly == {Num(n) : n \in {-5, 0, 3, 4, 10}}
Exponents == {Num(n) : n \in {-8, -4, 0, 2, 4, 8, 12}} \cup Odd

Asked(op, args, known, later, same) == [op |-> op, args |-> args, known |-> known, later |-> later, same |-> same]
AllLater(op, args) == Asked(op, args, {}, DOMAIN args, FALSE)

Ones == {"Not", "Negate", "Abs", "Sign", "Frac", "Floor", "Ceil", "Trunc", "Round", "Log", "Arcsin", "Sin", "Sinh"}
Compared == {"Equal", "NotEqual", "Less", "LessOr", "Greater", "GreaterOr"}
Twos == Compared \cup {"Add", "Subtract", "Multiply", "Divide", "FloorDivide", "Mod", "Rem", "And", "Or", "Max", "Min"}

\* Who knows what: the front end, the optimizer.
Pairs == {<<{1, 2}, {}>>, <<{1}, {}>>, <<{2}, {}>>, <<{}, {1, 2}>>}

MCOperations ==
  {
    {Asked(op, <<x>>, known, {1}, FALSE) : op \in Ones, x \in Many, known \in {{}, {1}}},
    {Asked(op, <<x, y>>, who[1], who[2], FALSE) : op \in Twos, x \in Few, y \in Few, who \in Pairs},
    {Asked(op, <<x, y>>, {}, {i}, FALSE) : op \in {"Multiply", "And", "Or"}, x \in Few, y \in Few, i \in {1, 2}},
    {Asked("Power", <<x, y>>, who[1], who[2], FALSE) : x \in Few, y \in Exponents, who \in Pairs},
    {Asked(op, <<x, x>>, {}, {}, TRUE) : op \in Compared, x \in Few},
    {AllLater(op, <<x, y>>) : op \in {"Add", "Subtract", "Multiply", "Divide", "Mod", "Rem"}, x \in Many, y \in Many},
    {Asked(op, <<x, y, z>>, known, {1, 2, 3}, FALSE) :
            op \in {"Clamp", "Lerp", "LerpClamped", "Unlerp", "UnlerpClamped"}, x \in Plainly, y \in Plainly, z \in Few,
            known \in {{}, {1, 2, 3}}},
    {AllLater(op, <<x, y, z, x, w>>) :
            op \in {"Remap", "RemapClamped", "JudgeSimple"}, x \in Plainly, y \in Plainly, z \in Plainly, w \in Plainly},
    {AllLater("Judge", <<x, y, Num(-1), Num(1), Num(-4), z, Num(-7), w>>) : x \in Plainly, y \in Plainly, z \in Plainly, w \in Plainly},
    {AllLater(op, <<x, y, z>>) : op \in {"If", "Switch", "SwitchInteger", "And", "Or"}, x \in Few, y \in Few, z \in Plainly},
    {AllLater(op, <<t, x, Num(8), y, Num(12), Num(20)>>) :
            op \in {"SwitchWithDefault", "SwitchIntegerWithDefault"}, t \in Many, x \in Many, y \in Plainly},
    {Asked("In", <<x>> \o cases, known, {1}, FALSE) :
            x \in Many, known \in {{}, {1}}, cases \in {<<>>, <<Num(4)>>, <<Num(8), Num(4)>>, <<Num(6), Num(0), [k |-> "-0", n |-> 0]>>}} }

VARIABLES
  part,                                                   \* what is checked
  callback, todo, trace, code, python, machine, phase,    \* of Tracing
  project, mro, layout, stage, archetypes, engine,        \* of Archetypes
  level, entities, exported, truth, writes,
  asked, plain, when, node, outcome                           \* of Numbers

tracing == <<callback, todo, trace, code, python, machine, phase>>
entity == <<project, mro, layout, stage, archetypes, engine, level, entities, exported, truth, writes>>
computing == <<asked, plain, when, node, outcome>>
parts == <<part, vars, tracing, streamVars, entity, computing>>

P == INSTANCE TracedPrograms
T == INSTANCE Tracing WITH NameOrder <- P!MCNameOrder, Programs <- P!MCPrograms, MaxInputs <- 4, MaxBlocks <- 60,
                           program <- callback
A == INSTANCE Archetypes WITH Programs <- MCProjects, EntitySize <- 3, LevelSize <- 2, MaxSpawned <- 1, MaxWrites <- 2,
                              program <- project
\* The programs on which Tracing and Archetypes disagree with the documentation.
TR == INSTANCE Tracing WITH NameOrder <- P!MCNameOrder, Programs <- P!MCStale, MaxInputs <- 4, MaxBlocks <- 60,
                            program <- callback
AS == INSTANCE Archetypes WITH Programs <- MCSubclasses, EntitySize <- 1, LevelSize <- 1, MaxSpawned <- 0, MaxWrites <- 1,
                               program <- project
N == INSTANCE Numbers WITH One <- 4, Bits <- 3, RunBits <- 2, Top <- 3, Operations <- MCOperations
-----------------------------------------------------------------------------
None == <<>>
NoContainers ==
  /\ kind = "list" /\ size = 0 /\ iter = NoIterator
  /\ cells = [i \in Cells |-> NoEntry]
  /\ link = [head |-> 0, next |-> [e \in Entities |-> 0], prev |-> [e \in Entities |-> 0]]
  /\ result = [op |-> "new", at |-> <<>>, given |-> NoEntry, entry |-> NoEntry, n |-> 0]
NoTracing ==
  callback = None /\ todo = None /\ trace = None /\ code = None /\ python = None /\ machine = None /\ phase = None
NoStreams ==
  /\ fields = None /\ offsets = None /\ mode = None /\ streams = None /\ left = None /\ said = None
  /\ items = [step |-> "none"]
NoArchetypes ==
  /\ project = None /\ mro = None /\ layout = None /\ stage = "none" /\ archetypes = None /\ engine = None /\ level = None
  /\ entities = None /\ exported = None /\ truth = None /\ writes = None
NoNumbers == asked = None /\ plain = None /\ when = "none" /\ node = None /\ outcome = None

PartsInit ==
  \/ part = "containers" /\ Init /\ NoTracing /\ NoStreams /\ NoArchetypes /\ NoNumbers
  \/ part = "tracing" /\ T!Init /\ NoContainers /\ NoStreams /\ NoArchetypes /\ NoNumbers
  \/ part = "streams" /\ StreamsInit /\ NoContainers /\ NoTracing /\ NoArchetypes /\ NoNumbers
  \/ part = "archetypes" /\ A!Init /\ NoContainers /\ NoTracing /\ NoStreams /\ NoNumbers
  \/ part = "numbers" /\ N!Init /\ NoContainers /\ NoTracing /\ NoStreams /\ NoArchetypes

ContainersStep == part = "containers" /\ Next /\ UNCHANGED <<part, tracing, streamVars, entity, computing>>
TracingStep == part = "tracing" /\ T!Next /\ UNCHANGED <<part, vars, streamVars, entity, computing>>
StreamsStep == part = "streams" /\ StreamsNext /\ UNCHANGED <<part, vars, tracing, entity, computing>>
ArchetypesStep == part = "archetypes" /\ A!Next /\ UNCHANGED <<part, vars, tracing, streamVars, computing>>
NumbersStep == part = "numbers" /\ N!Next /\ UNCHANGED <<part, vars, tracing, streamVars, entity>>

PartsNext == ContainersStep \/ TracingStep \/ StreamsStep \/ ArchetypesStep \/ NumbersStep
PartsSpec == PartsInit /\ [][PartsNext]_parts

\* Every variable has its type, each part in its module.
AllTypesOK ==
  /\ TypeOK
  /\ part = "tracing" => T!TypeOK
  /\ part = "streams" => StreamsTypeOK
  /\ part = "archetypes" => A!TypeOK
  /\ part = "numbers" => N!TypeOK

\* A callback does what Python does, and what only uses numbers compiles: see
\* Tracing (visitor.py, context.py).
CallbacksMean == part = "tracing" => T!SameLog /\ T!NumbersAlwaysCompile

\* Entities keep the values of their fields and run the callbacks of their
\* class: see Archetypes (archetype.py, driver.pyx).
FieldsReadBack == part = "archetypes" => A!FieldsReadBack /\ A!OwnCallbacks

\* An operation on numbers gives the same whether it is done while a callback
\* is traced, by the optimizer or at run time: see Numbers (num.py, native.py,
\* kernels.pyx, interpret.py).
ConstantsAgree ==
  part = "numbers" => N!SameNumber /\ N!FoldIsTheOracle /\ N!SelectsAgreeInBothWidths /\ N!StopsForAReason
-----------------------------------------------------------------------------
(* What the documentation says and the code does not do.                    *)

FramesSpec == part = "streams" /\ PartsInit /\ [][StreamsStep]_parts

ReboundInit == part = "tracing" /\ TR!Init /\ NoContainers /\ NoStreams /\ NoArchetypes /\ NoNumbers
ReboundSpec ==
  ReboundInit /\ [][part = "tracing" /\ TR!Next /\ UNCHANGED <<part, vars, streamVars, entity, computing>>]_parts

SubclassesInit == part = "archetypes" /\ AS!Init /\ NoContainers /\ NoTracing /\ NoStreams /\ NoNumbers
SubclassesSpec ==
  SubclassesInit /\ [][part = "archetypes" /\ AS!Next /\ UNCHANGED <<part, vars, tracing, streamVars, computing>>]_parts

\* "Non-num variables must have a single unambiguous definition when used"
\* (docs/concepts/constructs.md): so a callback that compiles does what Python
\* does.
ReboundMeans == part = "tracing" => TR!SameLog

\* A subclass of an archetype is one, with its own callbacks
\* (docs/concepts/project.md), also if that archetype is derived.
SubclassesKeepCallbacks == part = "archetypes" => AS!OwnCallbacks
=============================================================================
