------------------------------ MODULE Packing ------------------------------
(***************************************************************************)
(* Placement of temporaries in the temporary memory block: _bump and _pack *)
(* of sonolus/backend/_opt/lower.pyx, as allocate_func selects them.       *)
(*                                                                         *)
(* bump lays the temporaries side by side in the order of their numbers.   *)
(* pack takes the largest first and gives each the lowest offset at which  *)
(* it overlaps no placed temporary it interferes with.  try_bump packs     *)
(* only what bump cannot place.  One step places one temporary.            *)
(*                                                                         *)
(* The interference is a parameter of this module (Init takes any); module *)
(* Allocation derives it from liveness.  The occupancy map of the code is  *)
(* the set Taken, and its sweep for the first free run is the least fit.   *)
(***************************************************************************)
EXTENDS Temporaries, FiniteSetsExt

CONSTANTS
  TempSize,  \* slots of the temporary block, 4096 in the code
  Strategies,\* allocation strategies tried
  Sizes      \* sizes of the temporaries tried, a set of functions

ASSUME TempSizeAssumption == TempSize \in Nat
ASSUME SizesAssumption == Sizes \subseteq [Temps -> Nat]
ASSUME StrategiesAssumption == Strategies \subseteq {"bump", "packing", "try_bump"}

VARIABLES
  size,      \* slots a temporary needs; 0 for one whose accesses are void
  adj,       \* interference
  mode,      \* the strategy: "bump" or "packing" once that is decided
  todo,      \* temporaries not yet placed
  index,     \* first slot bump has not given away
  offset,    \* first slot of a temporary; Unallocated before it is placed
  exceeded   \* "Temporary memory limit exceeded" was raised

vars == <<size, adj, mode, todo, index, offset, exceeded>>

Unallocated == -2

\* The slots of a placed temporary.
Slots(t) == offset[t]..(offset[t] + size[t] - 1)
Placed == {t \in Temps : offset[t] # Unallocated}

Sized == {t \in Temps : size[t] > 0}
Needed == MapThenSumSet(LAMBDA t : size[t], Sized)

Init ==
  /\ size \in Sizes /\ adj \in Graphs
  /\ mode \in Strategies
  /\ todo = Sized
  /\ index = 0
  /\ offset = [t \in Temps |-> Unallocated]
  /\ exceeded = FALSE

\* try_bump looks whether bump has room for all.
TryBump ==
  /\ mode = "try_bump"
  /\ mode' = IF Needed <= TempSize THEN "bump" ELSE "packing"
  /\ UNCHANGED <<size, adj, todo, index, offset, exceeded>>

Exceed == exceeded' = TRUE /\ UNCHANGED <<todo, index, offset>>

BumpFits(t) == size[t] <= TempSize - index

Bump(t) ==
  /\ mode = "bump" /\ ~ exceeded
  /\ \A u \in todo : t <= u
  /\ \/ /\ BumpFits(t)
        /\ offset' = [offset EXCEPT ![t] = index]
        /\ index' = index + size[t]
        /\ todo' = todo \ {t}
        /\ UNCHANGED exceeded
     \/ ~ BumpFits(t) /\ Exceed
  /\ UNCHANGED <<size, adj, mode>>

\* The order of packing: the largest first, then by number.
Before(t, u) == size[t] > size[u] \/ (size[t] = size[u] /\ t <= u)

\* Mutant: only the first slot of a neighbour counts as taken.
MutantTaken(t) == {offset[u] : u \in (adj[t] \cap Placed) \ {t}}

\* The slots of the neighbours placed so far.
Taken(t) == UNION {Slots(u) : u \in (adj[t] \cap Placed) \ {t}}

\* Mutant: the last slot of the block is never used.
MutantFits(t) == {o \in 0..TempSize : /\ o + size[t] < TempSize
                                      /\ \A p \in o..(o + size[t] - 1) : p \notin Taken(t)}

\* The offsets at which t fits.
Fits(t) == {o \in 0..TempSize : /\ o + size[t] <= TempSize
                                /\ \A p \in o..(o + size[t] - 1) : p \notin Taken(t)}

Chosen(t, o) == o \in Fits(t) /\ \A q \in Fits(t) : o <= q

Pack(t) ==
  /\ mode = "packing" /\ ~ exceeded
  /\ \A u \in todo : Before(t, u)
  /\ \/ /\ \E o \in Fits(t) : Chosen(t, o) /\ offset' = [offset EXCEPT ![t] = o]
        /\ todo' = todo \ {t}
        /\ UNCHANGED <<index, exceeded>>
     \/ Fits(t) = {} /\ Exceed
  /\ UNCHANGED <<size, adj, mode>>

Next == TryBump \/ \E t \in todo : Bump(t) \/ Pack(t)

Spec == Init /\ [][Next]_vars

-----------------------------------------------------------------------------
(* Type correctness of the allocator's tables (allocate_func).             *)
TypeOK ==
  /\ size \in [Temps -> Nat] /\ adj \in [Temps -> SUBSET Temps]
  /\ mode \in {"bump", "packing", "try_bump"}
  /\ todo \subseteq Sized
  /\ index \in 0..TempSize
  /\ offset \in [Temps -> 0..TempSize \cup {Unallocated}]
  /\ exceeded \in BOOLEAN

\* Two temporaries that interfere never overlap, and with bump no two do
\* (lower.pyx: "occupies [index, index+size)", and the first-fit sweep).
NoOverlap ==
  \A t, u \in Placed : t # u /\ (u \in adj[t] \/ mode = "bump") => Slots(t) \cap Slots(u) = {}

\* A placed temporary lies inside the block.
InBlock == \A t \in Placed : Slots(t) \subseteq 0..(TempSize - 1)

\* Neither strategy leaves a hole: each slot below a placed temporary belongs
\* to some placed temporary ("the lowest offset that overlaps no placed
\* neighbor", lower.pyx).
NoHoles == \A t \in Placed : \A p \in 0..(offset[t] - 1) : \E u \in Placed : p \in Slots(u)

\* So packing never asks for more memory than bump: whenever allocation gives
\* up, whatever the strategy, the temporaries do not fit side by side.
NeverWorseThanBump == exceeded => Needed > TempSize
=============================================================================
