---------------------------- MODULE Temporaries ----------------------------
(* Temporaries and their interference, what coalescing and placement start  *)
(* from (sonolus/backend/_opt/lower.pyx).                                   *)
EXTENDS Integers, FiniteSets

CONSTANTS
  Temps,  \* temporaries, by their number
  Graphs  \* interferences tried, a set of functions to sets of temporaries

\* Interference goes both ways, and nothing interferes with itself.
Symmetric(f) == \A t \in Temps : t \notin f[t] /\ \A u \in f[t] : t \in f[u]

ASSUME TempsAssumption == Temps \subseteq Nat /\ IsFiniteSet(Temps)
ASSUME GraphsAssumption == \A g \in Graphs : g \in [Temps -> SUBSET Temps] /\ Symmetric(g)
=============================================================================
