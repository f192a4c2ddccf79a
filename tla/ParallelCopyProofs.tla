------------------------ MODULE ParallelCopyProofs -------------------------
(***************************************************************************)
(* Proofs about the sequentialization of parallel copies: for any set of   *)
(* temporaries and any parallel copy the moves have the effect of the copy.*)
(*                                                                         *)
(* The inductive invariant says where values are.  A source still needed   *)
(* can be read at its location, which is its own cell, a destination that  *)
(* has its final value, or a fresh temporary; a destination in ready holds *)
(* nothing that is still needed; a destination not in ready still holds    *)
(* its own value and is itself a source that nobody has copied.            *)
(*                                                                         *)
(* The second half counts fresh temporaries.  When nothing is ready, the   *)
(* moves still to be made permute their destinations, so what is saved is  *)
(* on a cycle of the request none of whose values is copied out of it; a   *)
(* saved value stays where it is, so no cycle is saved twice.              *)
(***************************************************************************)
EXTENDS ParallelCopy, FiniteSetTheorems, WellFoundedInduction, TLAPS

\* The moves still to be made are those of the request, and every location
\* known is that of a source.
Bookkeeping ==
  /\ \A d \in Pending : pred[d] = request[d]
  /\ DOMAIN loc = Sources(request)
  /\ Pending \subseteq toDo \cup ready

\* A destination whose move has been made has its final value.
MadeMovesAreRight == \A d \in Moves(request) \ Pending : mem[d] = request[d]

\* Where the value of a source may be.
Locations ==
  \A s \in Sources(request) : loc[s] \in {s} \cup (Moves(request) \ Pending) \cup used

\* A destination in ready is not the location of its own value.
ReadyIsFree == \A d \in ready \cap Pending : d \in Sources(request) => loc[d] # d

\* A destination that is not in ready is.
WaitingIsUnread ==
  \A d \in Pending \ ready : d \in Sources(request) /\ loc[d] = d

\* A source read at its own cell has not been copied yet.
UncopiedIsNeeded ==
  \A s \in Sources(request) : loc[s] = s =>
    \A d \in Moves(request) : request[d] = s => d \in Pending

IInv ==
  /\ TypeOK
  /\ Bookkeeping
  /\ MadeMovesAreRight
  /\ ValuesSurvive
  /\ Locations
  /\ ReadyIsFree
  /\ WaitingIsUnread
  /\ UncopiedIsNeeded
  /\ NothingElseMoves
  /\ NothingLeftBehind

-----------------------------------------------------------------------------

\* The moves of a request are between distinct cells of the program.
LEMMA MovesOfRequest ==
  ASSUME NEW r \in Requests
  PROVE  /\ Moves(r) \subseteq Temps
         /\ Moves(r) \subseteq DOMAIN r
         /\ \A d \in Moves(r) : r[d] \in Keys /\ r[d] # d /\ r[d] \in Sources(r)
         /\ Sources(r) \subseteq Keys
         /\ \A s \in Sources(r) : \E d \in Moves(r) : r[d] = s
         /\ \A d \in DOMAIN r \ Moves(r) : r[d] = d
<1>1. PICK D \in SUBSET Temps : r \in [D -> Keys]
  BY DEF Requests
<1>2. QED
  BY <1>1 DEF Moves, Sources

\* Initially every value is in its own cell.
LEMMA InitEstablishes == Init => IInv
<1> SUFFICES ASSUME Init PROVE IInv
  OBVIOUS
<1> USE DEF Init, Pending, Cells, Keys
<1>0. request \in Requests
  OBVIOUS
<1>1. /\ Moves(request) \subseteq Temps
      /\ \A d \in Moves(request) : request[d] \in Keys /\ request[d] # d /\ request[d] \in Sources(request)
      /\ Sources(request) \subseteq Keys
      /\ \A s \in Sources(request) : \E d \in Moves(request) : request[d] = s
  BY <1>0, MovesOfRequest
<1>2. TypeOK
  BY <1>1 DEF TypeOK
<1>3. Bookkeeping
  BY <1>1 DEF Bookkeeping
<1>4. ValuesSurvive
  BY <1>1, DisjointAssumption DEF ValuesSurvive, Read
<1>5. MadeMovesAreRight /\ Locations /\ ReadyIsFree /\ WaitingIsUnread /\ UncopiedIsNeeded
  BY <1>1 DEF MadeMovesAreRight, Locations, ReadyIsFree, WaitingIsUnread, UncopiedIsNeeded
<1>6. NothingElseMoves
  BY DEF NothingElseMoves
<1>7. NothingLeftBehind
  BY DEF NothingLeftBehind, Done
<1>8. QED
  BY <1>2, <1>3, <1>4, <1>5, <1>6, <1>7 DEF IInv

\* A move into a ready destination.
LEMMA TakeReadyKeeps ==
  ASSUME IInv, NEW d \in Temps, TakeReady(d)
  PROVE  IInv'
<1> USE DEF IInv, Pending
<1>1. /\ Moves(request) \subseteq Temps
      /\ \A e \in Moves(request) : request[e] \in Keys /\ request[e] # e /\ request[e] \in Sources(request)
      /\ Sources(request) \subseteq Keys
  BY MovesOfRequest DEF TypeOK
<1>2. request' = request /\ toDo' = toDo /\ used' = used /\ d \in ready
  BY DEF TakeReady
<1>3. CASE d \notin Pending
  <2>1. pred' = pred /\ loc' = loc /\ mem' = mem /\ ready' = ready \ {d}
    BY <1>3 DEF TakeReady
  <2>2. TypeOK'
    BY <1>2, <2>1 DEF TypeOK
  <2>3. Bookkeeping' /\ ReadyIsFree' /\ WaitingIsUnread'
    BY <1>2, <1>3, <2>1 DEF Bookkeeping, ReadyIsFree, WaitingIsUnread
  <2>4. MadeMovesAreRight' /\ ValuesSurvive' /\ Locations' /\ UncopiedIsNeeded'
    BY <1>2, <2>1 DEF MadeMovesAreRight, ValuesSurvive, Locations, UncopiedIsNeeded, Read
  <2>5. NothingElseMoves' /\ NothingLeftBehind'
    BY <1>2, <2>1 DEF NothingElseMoves, NothingLeftBehind, Done
  <2>6. QED
    BY <2>2, <2>3, <2>4, <2>5
<1>4. CASE d \in Pending
  <2> DEFINE s == pred[d]
  <2>1. /\ mem' = [mem EXCEPT ![d] = Read(loc[s])]
        /\ loc' = [loc EXCEPT ![s] = d]
        /\ pred' = Without(pred, d)
        /\ ready' = (ready \ {d}) \cup (IF s = loc[s] /\ s \in DOMAIN pred' THEN {s} ELSE {})
    BY <1>4 DEF TakeReady
  <2>2. /\ d \in Moves(request) /\ s = request[d] /\ s # d /\ s \in Sources(request)
        /\ Read(loc[s]) = s /\ s \in Keys
        /\ d \in Cells /\ d \notin Leaves
    BY <1>1, <1>4, DisjointAssumption DEF TypeOK, Bookkeeping, ValuesSurvive, Cells
  <2>3. /\ DOMAIN pred' = Pending \ {d}
        /\ \A e \in Pending \ {d} : pred'[e] = pred[e]
    BY <2>1 DEF Without
  <2>4. /\ mem'[d] = s
        /\ \A c \in Cells \ {d} : mem'[c] = mem[c]
    BY <2>1, <2>2 DEF TypeOK
  <2>5. /\ DOMAIN loc' = DOMAIN loc /\ loc'[s] = d
        /\ \A t \in Sources(request) \ {s} : loc'[t] = loc[t]
    BY <2>1, <2>2 DEF Bookkeeping
  <2>6. TypeOK'
    <3>1. Pending' \subseteq Moves(request') /\ pred' \in [Pending' -> Keys]
      BY <1>2, <2>3, <2>1 DEF TypeOK, Without
    <3>2. loc' \in [DOMAIN loc' -> Cells \cup Leaves]
      BY <2>1, <2>2 DEF TypeOK
    <3>3. ready' \subseteq Moves(request')
      BY <1>2, <2>1, <2>3 DEF TypeOK
    <3>4. mem' \in [Cells -> Cells \cup Leaves]
      BY <2>1, <2>2 DEF TypeOK, Keys, Cells
    <3>5. QED
      BY <3>1, <3>2, <3>3, <3>4, <1>2 DEF TypeOK
  <2>7. Bookkeeping'
    BY <1>2, <2>1, <2>3, <2>5 DEF Bookkeeping
  <2>8. MadeMovesAreRight'
    BY <1>1, <1>2, <2>2, <2>3, <2>4 DEF MadeMovesAreRight, Cells
  <2>9. ValuesSurvive'
    <3> SUFFICES ASSUME NEW e \in Pending \ {d}
                 PROVE  (IF loc'[pred[e]] \in Leaves THEN loc'[pred[e]]
                         ELSE mem'[loc'[pred[e]]]) = pred[e]
      BY <2>3 DEF ValuesSurvive, Read
    <3>1. pred[e] = request[e] /\ pred[e] \in Sources(request)
      BY <1>1 DEF TypeOK, Bookkeeping
    <3>2. CASE pred[e] = s
      BY <2>2, <2>4, <2>5, <3>2 DEF Read
    <3>3. CASE pred[e] # s
      <4> DEFINE c == loc[pred[e]]
      <4>1. c = loc'[pred[e]] /\ Read(c) = pred[e]
        BY <2>5, <3>1, <3>3 DEF ValuesSurvive
      <4>2. c \in {pred[e]} \cup (Moves(request) \ Pending) \cup used
        BY <3>1 DEF Locations
      <4>3. c # d
        BY <1>4, <1>2, <3>1, <4>2, DisjointAssumption DEF ReadyIsFree, TypeOK
      <4>4. c \in Cells \cup Leaves
        BY <3>1 DEF TypeOK, Bookkeeping
      <4>5. QED
        BY <2>4, <4>1, <4>3, <4>4 DEF Read
    <3>4. QED
      BY <3>2, <3>3
  <2>10. Locations'
    BY <1>2, <2>2, <2>3, <2>5 DEF Locations
  <2>11. ReadyIsFree'
    BY <1>2, <2>1, <2>2, <2>3, <2>5 DEF ReadyIsFree
  <2>12. WaitingIsUnread'
    BY <1>2, <2>1, <2>2, <2>3, <2>5 DEF WaitingIsUnread
  <2>13. UncopiedIsNeeded'
    BY <1>2, <2>2, <2>3, <2>5 DEF UncopiedIsNeeded
  <2>14. NothingElseMoves' /\ NothingLeftBehind'
    BY <1>2, <2>2, <2>3, <2>4 DEF NothingElseMoves, NothingLeftBehind, Done, Cells
  <2>15. QED
    BY <2>6, <2>7, <2>8, <2>9, <2>10, <2>11, <2>12, <2>13, <2>14
<1>5. QED
  BY <1>3, <1>4

\* A look at a destination when nothing is ready.
LEMMA TakeToDoKeeps ==
  ASSUME IInv, NEW d \in Temps, TakeToDo(d)
  PROVE  IInv'
<1> USE DEF IInv, Pending
<1>1. /\ Moves(request) \subseteq Temps
      /\ \A e \in Moves(request) : request[e] \in Keys /\ request[e] # e /\ request[e] \in Sources(request)
      /\ Sources(request) \subseteq Keys
      /\ \A s \in Sources(request) : \E e \in Moves(request) : request[e] = s
  BY MovesOfRequest DEF TypeOK
<1>2. request' = request /\ toDo' = toDo \ {d} /\ ready = {} /\ d \in toDo
  BY DEF TakeToDo
<1>3. CASE d \notin Pending
  <2>1. UNCHANGED <<pred, loc, ready, used, mem>>
    BY <1>3 DEF TakeToDo
  <2>2. TypeOK'
    BY <1>2, <2>1 DEF TypeOK
  <2>3. Bookkeeping'
    BY <1>2, <1>3, <2>1 DEF Bookkeeping
  <2>4. MadeMovesAreRight' /\ ValuesSurvive' /\ Locations' /\ UncopiedIsNeeded'
    BY <1>2, <2>1 DEF MadeMovesAreRight, ValuesSurvive, Locations, UncopiedIsNeeded, Read
  <2>5. ReadyIsFree' /\ WaitingIsUnread' /\ NothingElseMoves'
    BY <1>2, <2>1 DEF ReadyIsFree, WaitingIsUnread, NothingElseMoves
  <2>6. NothingLeftBehind'
    BY <1>2, <1>3, <2>1 DEF NothingLeftBehind, Done, Bookkeeping
  <2>7. QED
    BY <2>2, <2>3, <2>4, <2>5, <2>6
<1>4. CASE d \in Pending
  <2>1. /\ d \in Sources(request) /\ loc[d] = d
        /\ pred[d] = request[d] /\ request[d] # d /\ d \in Moves(request)
        /\ request[d] \in Sources(request) /\ d \in Cells
    BY <1>1, <1>2, <1>4 DEF WaitingIsUnread, Bookkeeping, TypeOK, Cells
  <2>2. loc[pred[d]] # d
    BY <1>4, <2>1, DisjointAssumption DEF Locations, TypeOK
  <2>3. PICK n \in Fresh \ used :
          /\ mem' = [mem EXCEPT ![n] = mem[d]]
          /\ loc' = [c \in DOMAIN loc \cup {d} |-> IF c = d THEN n ELSE loc[c]]
          /\ ready' = {d}
          /\ used' = used \cup {n}
          /\ UNCHANGED pred
    BY <1>4, <2>2 DEF TakeToDo
  <2>4. n \notin Temps /\ n \notin Leaves /\ n \in Cells /\ n # d
    BY DisjointAssumption DEF Cells
  <2>5. /\ DOMAIN loc' = Sources(request) /\ loc'[d] = n
        /\ \A t \in Sources(request) \ {d} : loc'[t] = loc[t]
    BY <2>1, <2>3 DEF Bookkeeping
  <2>6. /\ mem'[n] = mem[d]
        /\ \A c \in Cells \ {n} : mem'[c] = mem[c]
    BY <2>3, <2>4 DEF TypeOK
  <2>7. TypeOK'
    <3>1. loc' \in [DOMAIN loc' -> Cells \cup Leaves]
      BY <2>3, <2>4 DEF TypeOK
    <3>2. mem' \in [Cells -> Cells \cup Leaves]
      BY <2>3, <2>1, <2>4 DEF TypeOK
    <3>3. QED
      BY <3>1, <3>2, <1>2, <2>1, <2>3 DEF TypeOK
  <2>8. Bookkeeping'
    BY <1>2, <2>3, <2>5 DEF Bookkeeping
  <2>9. MadeMovesAreRight'
    BY <1>1, <1>2, <2>3, <2>4, <2>6 DEF MadeMovesAreRight, Cells
  <2>10. ValuesSurvive'
    <3> SUFFICES ASSUME NEW e \in Pending
                 PROVE  (IF loc'[pred[e]] \in Leaves THEN loc'[pred[e]]
                         ELSE mem'[loc'[pred[e]]]) = pred[e]
      BY <2>3 DEF ValuesSurvive, Read
    <3>1. pred[e] = request[e] /\ pred[e] \in Sources(request) /\ Read(loc[pred[e]]) = pred[e]
      BY <1>1 DEF TypeOK, Bookkeeping, ValuesSurvive
    <3>2. CASE pred[e] = d
      <4>1. d \notin Leaves
        BY DisjointAssumption
      <4>2. mem[d] = d
        BY <2>1, <3>1, <3>2, <4>1 DEF Read
      <4>3. QED
        BY <2>4, <2>5, <2>6, <3>2, <4>2 DEF Read
    <3>3. CASE pred[e] # d
      <4> DEFINE c == loc[pred[e]]
      <4>1. c = loc'[pred[e]] /\ Read(c) = pred[e]
        BY <2>5, <3>1, <3>3
      <4>2. c \in {pred[e]} \cup (Moves(request) \ Pending) \cup used
        BY <3>1 DEF Locations
      <4>3. c # n
        BY <1>1, <2>4, <3>1, <4>2 DEF Keys
      <4>4. c \in Cells \cup Leaves
        BY <3>1 DEF TypeOK, Bookkeeping
      <4>5. QED
        BY <2>6, <4>1, <4>3, <4>4 DEF Read
    <3>4. QED
      BY <3>2, <3>3
  <2>11. Locations'
    BY <1>2, <2>3, <2>5 DEF Locations
  <2>12. ReadyIsFree'
    BY <2>3, <2>4, <2>5 DEF ReadyIsFree
  <2>13. WaitingIsUnread'
    BY <1>2, <2>3, <2>5 DEF WaitingIsUnread
  <2>14. UncopiedIsNeeded'
    BY <1>2, <2>3, <2>4, <2>5 DEF UncopiedIsNeeded
  <2>15. NothingElseMoves'
    BY <1>2, <2>4, <2>6 DEF NothingElseMoves, Cells
  <2>16. NothingLeftBehind'
    <3>1. PICK e \in Moves(request) : request[e] = d
      BY <1>1, <2>1
    <3>2. e \in Pending /\ e # d
      BY <1>1, <2>1, <3>1 DEF UncopiedIsNeeded
    <3>3. e \in toDo'
      BY <1>2, <3>2 DEF Bookkeeping
    <3>4. QED
      BY <3>3 DEF NothingLeftBehind, Done
  <2>17. QED
    BY <2>7, <2>8, <2>9, <2>10, <2>11, <2>12, <2>13, <2>14, <2>15, <2>16
<1>5. QED
  BY <1>3, <1>4

\* The invariant holds in every reachable state.
THEOREM Invariant == Spec => []IInv
<1>1. IInv /\ [Next]_vars => IInv'
  <2> SUFFICES ASSUME IInv, [Next]_vars PROVE IInv'
    OBVIOUS
  <2>1. CASE Next
    BY <2>1, TakeReadyKeeps, TakeToDoKeeps DEF Next
  <2>2. CASE UNCHANGED vars
    BY <2>2 DEF vars, IInv, TypeOK, Bookkeeping, MadeMovesAreRight, ValuesSurvive, Locations,
       ReadyIsFree, WaitingIsUnread, UncopiedIsNeeded, NothingElseMoves, NothingLeftBehind,
       Pending, Done, Read
  <2>3. QED
    BY <2>1, <2>2
<1>2. QED
  BY <1>1, InitEstablishes, PTL DEF Spec

\* Every reachable state is well typed.
THEOREM TypeCorrect == Spec => []TypeOK
BY Invariant, PTL DEF IInv

\* Every value still needed can be read where loc says.
THEOREM SourcesAreKept == Spec => []ValuesSurvive
BY Invariant, PTL DEF IInv

\* A temporary that is no destination keeps its value.
THEOREM BystandersAreKept == Spec => []NothingElseMoves
BY Invariant, PTL DEF IInv

\* The loop ends with no move left to make.
THEOREM AllMovesMade == Spec => []NothingLeftBehind
BY Invariant, PTL DEF IInv

\* The moves emitted have the effect of the parallel copy.
THEOREM CopiesAreParallel == Spec => []ParallelSemantics
<1>1. IInv => ParallelSemantics
  <2> SUFFICES ASSUME IInv, Done, NEW d \in DOMAIN request PROVE mem[d] = request[d]
    BY DEF ParallelSemantics
  <2>1. Pending = {} /\ request \in Requests
    BY DEF IInv, NothingLeftBehind, TypeOK
  <2>2. CASE d \in Moves(request)
    BY <2>1, <2>2 DEF IInv, MadeMovesAreRight
  <2>3. CASE d \notin Moves(request)
    <3>1. request[d] = d
      BY <2>1, <2>3, MovesOfRequest
    <3>2. d \in Temps
      BY <2>1 DEF Requests
    <3>3. QED
      BY <2>3, <3>1, <3>2 DEF IInv, NothingElseMoves
  <2>4. QED
    BY <2>2, <2>3
<1>2. QED
  BY <1>1, Invariant, PTL
-----------------------------------------------------------------------------
(* What lies behind a destination.                                         *)

LEMMA NaturalInduction ==
  ASSUME NEW S \in SUBSET Nat, 0 \in S, \A n \in S : n + 1 \in S
  PROVE  S = Nat
<1> SUFFICES ASSUME Nat \ S # {} PROVE FALSE
  OBVIOUS
<1> DEFINE R == OpToRel(<, Nat)
<1>1. IsWellFoundedOn(R, Nat)
  BY NatLessThanWellFounded
<1>2. \A p, q \in Nat : p < q => <<p, q>> \in R
  BY DEF OpToRel
<1> HIDE DEF R
<1>3. PICK m \in Nat \ S : \A p \in Nat \ S : ~ (<<p, m>> \in R)
  BY <1>1, WFMin
<1>4. m # 0 /\ m - 1 \in Nat /\ m - 1 < m /\ (m - 1) + 1 = m
  OBVIOUS
<1>5. m - 1 \in S
  BY <1>2, <1>3, <1>4
<1> QED
  BY <1>4, <1>5

LEMMA Finite ==
  /\ Cardinality(Temps) \in Nat
  /\ \A S \in SUBSET Temps : IsFiniteSet(S) /\ Cardinality(S) \in Nat /\ Cardinality(S) <= Cardinality(Temps)
<1>1. Cardinality(Temps) \in Nat
  BY FiniteAssumption, FS_CardinalityType
<1>2. ASSUME NEW S \in SUBSET Temps
      PROVE  IsFiniteSet(S) /\ Cardinality(S) \in Nat /\ Cardinality(S) <= Cardinality(Temps)
  <2>1. IsFiniteSet(S) /\ Cardinality(S) <= Cardinality(Temps)
    BY FiniteAssumption, FS_Subset
  <2> QED
    BY <2>1, FS_CardinalityType
<1> QED
  BY <1>1, <1>2

\* The cells a move further back.
Back(r, X) == X \cup {r[e] : e \in X \cap Moves(r)}

\* g is the sequence of the first n + 1 sets of ReachedBack.
Reaches(g, r, d, n) ==
  g \in [0..n -> SUBSET Keys] /\ g[0] = {d} /\ \A i \in 1..n : g[i] = Back(r, g[i - 1])

LEMMA ReachesExists ==
  ASSUME NEW r \in Requests, NEW d \in Moves(r), NEW n \in Nat
  PROVE  \E g : Reaches(g, r, d, n)
<1> DEFINE S == {m \in Nat : \E g : Reaches(g, r, d, m)}
<1>1. {d} \in SUBSET Keys /\ \A X \in SUBSET Keys : Back(r, X) \in SUBSET Keys
  BY MovesOfRequest DEF Back, Keys
<1>2. 0 \in S
  <2>1. Reaches([i \in 0..0 |-> {d}], r, d, 0)
    BY <1>1 DEF Reaches
  <2> QED
    BY <2>1
<1>3. ASSUME NEW m \in S PROVE m + 1 \in S
  <2>1. m \in Nat /\ m + 1 \in Nat
    OBVIOUS
  <2>2. PICK g : Reaches(g, r, d, m)
    OBVIOUS
  <2> DEFINE h == [i \in 0..(m + 1) |-> IF i = m + 1 THEN Back(r, g[m]) ELSE g[i]]
  <2>3. g \in [0..m -> SUBSET Keys] /\ m \in 0..m
    BY <2>1, <2>2 DEF Reaches
  <2>4. Back(r, g[m]) \in SUBSET Keys
    BY <1>1, <2>3
  <2>5. h \in [0..(m + 1) -> SUBSET Keys]
    <3>1. ASSUME NEW i \in 0..(m + 1), i # m + 1 PROVE g[i] \in SUBSET Keys
      <4>1. i \in 0..m
        BY <2>1, <3>1
      <4> QED
        BY <2>3, <4>1
    <3> QED
      BY <2>4, <3>1
  <2>6. h[0] = {d}
    BY <2>1, <2>2 DEF Reaches
  <2>7. ASSUME NEW i \in 1..(m + 1) PROVE h[i] = Back(r, h[i - 1])
    <3>1. CASE i = m + 1
      <4>1. h[i] = Back(r, g[m]) /\ h[i - 1] = g[m]
        BY <2>1, <3>1
      <4> QED
        BY <4>1
    <3>2. CASE i # m + 1
      <4>1. i \in 1..m /\ i \in 0..(m + 1) /\ i - 1 \in 0..(m + 1) /\ i - 1 # m + 1
        BY <2>1, <3>2
      <4>2. h[i] = g[i] /\ h[i - 1] = g[i - 1]
        BY <3>2, <4>1
      <4> QED
        BY <2>2, <4>1, <4>2 DEF Reaches
    <3> QED
      BY <3>1, <3>2
  <2> HIDE DEF h
  <2>8. Reaches(h, r, d, m + 1)
    BY <2>5, <2>6, <2>7 DEF Reaches
  <2> QED
    BY <2>1, <2>8
<1>4. S = Nat
  <2> HIDE DEF S
  <2>1. S \in SUBSET Nat
    BY DEF S
  <2> QED
    BY <1>2, <1>3, <2>1, NaturalInduction
<1> QED
  BY <1>4

LEMMA ReachedBackReaches ==
  ASSUME NEW r \in Requests, NEW d \in Moves(r)
  PROVE  Reaches(ReachedBack(r, d), r, d, Cardinality(Temps))
<1>1. PICK n \in Nat : n = Cardinality(Temps)
  BY Finite
<1> DEFINE Is(f) == f = [i \in 0..n |-> IF i = 0 THEN {d}
                                        ELSE f[i - 1] \cup {r[e] : e \in f[i - 1] \cap Moves(r)}]
<1>2. PICK g : Reaches(g, r, d, n)
  BY ReachesExists
<1>3. Is(g)
  <2>1. ASSUME NEW i \in 0..n
        PROVE  g[i] = IF i = 0 THEN {d} ELSE g[i - 1] \cup {r[e] : e \in g[i - 1] \cap Moves(r)}
    <3>1. i # 0 => i \in 1..n
      BY <1>1
    <3> QED
      BY <1>2, <3>1 DEF Reaches, Back
  <2>2. g = [i \in 0..n |-> g[i]]
    BY <1>2 DEF Reaches
  <2> QED
    BY <2>1, <2>2
<1> DEFINE h == CHOOSE f : Is(f)
<1>4. Is(h)
  <2> HIDE DEF Is
  <2> QED
    BY <1>3
<1>5. ReachedBack(r, d) = h
  BY <1>1 DEF ReachedBack
<1> HIDE DEF h
<1>6. h[0] = {d} /\ \A i \in 1..n : h[i] = Back(r, h[i - 1])
  <2>1. 0 \in 0..n /\ \A i \in 1..n : i \in 0..n /\ i # 0
    BY <1>1
  <2> QED
    BY <1>4, <2>1 DEF Back
<1>7. \A i \in 0..n : h[i] = g[i]
  <2> DEFINE S == {i \in Nat : i <= n => h[i] = g[i]}
  <2>1. 0 \in S
    BY <1>2, <1>6 DEF Reaches
  <2>2. ASSUME NEW i \in S PROVE i + 1 \in S
    <3>1. i \in Nat /\ i + 1 \in Nat
      OBVIOUS
    <3>2. ASSUME i + 1 <= n PROVE h[i + 1] = g[i + 1]
      <4>1. i <= n /\ i + 1 \in 1..n /\ (i + 1) - 1 = i
        BY <1>1, <3>1, <3>2
      <4>2. h[i] = g[i]
        BY <3>1, <4>1
      <4>3. h[i + 1] = Back(r, h[i]) /\ g[i + 1] = Back(r, g[i])
        BY <1>2, <1>6, <4>1 DEF Reaches
      <4> QED
        BY <4>2, <4>3
    <3> QED
      BY <3>1, <3>2
  <2>3. S = Nat
    <3> HIDE DEF S
    <3>1. S \in SUBSET Nat
      BY DEF S
    <3> QED
      BY <2>1, <2>2, <3>1, NaturalInduction
  <2> QED
    BY <1>1, <2>3
<1>8. h = g
  <2>1. h = [i \in 0..n |-> h[i]]
    BY <1>4
  <2>2. g = [i \in 0..n |-> g[i]]
    BY <1>2 DEF Reaches
  <2> QED
    BY <1>7, <2>1, <2>2
<1> QED
  BY <1>1, <1>2, <1>5, <1>8
\* No move leads out of X.
Closed(r, X) == \A e \in X \cap Moves(r) : r[e] \in X

\* Once as many steps back as there are temporaries have been made, nothing more is found.
LEMMA BehindIsClosed ==
  ASSUME NEW r \in Requests, NEW d \in Moves(r)
  PROVE  d \in Behind(r, d) /\ Behind(r, d) \subseteq Keys /\ Closed(r, Behind(r, d))
<1>1. PICK n \in Nat : n = Cardinality(Temps)
  BY Finite
<1>2. PICK g : g = ReachedBack(r, d) /\ Reaches(g, r, d, n)
  BY <1>1, ReachedBackReaches
<1>3. g \in [0..n -> SUBSET Keys] /\ g[0] = {d} /\ \A i \in 1..n : g[i] = Back(r, g[i - 1])
  BY <1>2 DEF Reaches
<1>4. Moves(r) \subseteq Temps
  BY MovesOfRequest
<1> DEFINE Known(i) == Cardinality(g[i] \cap Moves(r))
           S == {i \in Nat : i <= n => Closed(r, g[i]) \/ i + 1 <= Known(i)}
<1>5. \A i : Known(i) \in Nat /\ Known(i) <= n /\ IsFiniteSet(g[i] \cap Moves(r))
  <2>1. \A i : g[i] \cap Moves(r) \in SUBSET Temps
    BY <1>4
  <2> QED
    BY <1>1, <2>1, Finite
<1>6. 0 \in S
  <2>1. g[0] \cap Moves(r) = {d}
    BY <1>3
  <2>2. Known(0) = 1
    BY <2>1, FS_Singleton
  <2> QED
    BY <2>2
<1>7. ASSUME NEW i \in S PROVE i + 1 \in S
  <2>1. i \in Nat /\ i + 1 \in Nat
    OBVIOUS
  <2>2. ASSUME i + 1 <= n PROVE Closed(r, g[i + 1]) \/ (i + 1) + 1 <= Known(i + 1)
    <3>1. i <= n /\ i + 1 \in 1..n /\ (i + 1) - 1 = i
      BY <1>1, <2>1, <2>2
    <3>2. g[i + 1] = Back(r, g[i])
      BY <1>3, <3>1
    <3>3. CASE Closed(r, g[i])
      <4>1. g[i + 1] = g[i]
        BY <3>2, <3>3 DEF Closed, Back
      <4> QED
        BY <3>3, <4>1
    <3>4. CASE g[i + 1] \cap Moves(r) = g[i] \cap Moves(r)
      BY <3>2, <3>4 DEF Closed, Back
    <3>5. CASE ~ Closed(r, g[i]) /\ g[i + 1] \cap Moves(r) # g[i] \cap Moves(r)
      <4>1. i + 1 <= Known(i)
        BY <2>1, <3>1, <3>5
      <4>2. g[i] \cap Moves(r) \subseteq g[i + 1] \cap Moves(r)
        BY <3>2 DEF Back
      <4>3. Known(i) <= Known(i + 1) /\ Known(i) # Known(i + 1)
        <5> HIDE DEF Known
        <5>1. PICK A : A = g[i] \cap Moves(r)
          OBVIOUS
        <5>2. PICK B : B = g[i + 1] \cap Moves(r)
          OBVIOUS
        <5>3. IsFiniteSet(B) /\ A \in SUBSET B /\ A # B
          BY <1>5, <3>5, <4>2, <5>1, <5>2
        <5>4. Cardinality(A) <= Cardinality(B) /\ Cardinality(A) # Cardinality(B)
          BY <5>3, FS_Subset
        <5> QED
          BY <5>1, <5>2, <5>4 DEF Known
      <4> HIDE DEF Known
      <4>4. Known(i) \in Nat /\ Known(i + 1) \in Nat
        BY <1>5
      <4> QED
        BY <2>1, <4>1, <4>3, <4>4
    <3> QED
      BY <3>3, <3>4, <3>5
  <2> QED
    BY <2>1, <2>2
<1>8. S = Nat
  <2> HIDE DEF S
  <2>1. S \in SUBSET Nat
    BY DEF S
  <2> QED
    BY <1>6, <1>7, <2>1, NaturalInduction
<1>9. Closed(r, g[n])
  <2>1. Closed(r, g[n]) \/ n + 1 <= Known(n)
    BY <1>1, <1>8
  <2> HIDE DEF Known
  <2>2. Known(n) \in Nat /\ Known(n) <= n
    BY <1>5
  <2> QED
    BY <1>1, <2>1, <2>2
<1>10. d \in g[n]
  <2> DEFINE T == {i \in Nat : i <= n => d \in g[i]}
  <2>1. 0 \in T
    BY <1>3
  <2>2. ASSUME NEW i \in T PROVE i + 1 \in T
    <3>1. i \in Nat /\ i + 1 \in Nat
      OBVIOUS
    <3>2. ASSUME i + 1 <= n PROVE d \in g[i + 1]
      <4>1. i <= n /\ i + 1 \in 1..n /\ (i + 1) - 1 = i
        BY <1>1, <3>1, <3>2
      <4> QED
        BY <1>3, <4>1 DEF Back
    <3> QED
      BY <3>1, <3>2
  <2>3. T = Nat
    <3> HIDE DEF T
    <3>1. T \in SUBSET Nat
      BY DEF T
    <3> QED
      BY <2>1, <2>2, <3>1, NaturalInduction
  <2> QED
    BY <1>1, <2>3
<1>11. Behind(r, d) = g[n] /\ n \in 0..n
  BY <1>1, <1>2 DEF Behind
<1> QED
  BY <1>3, <1>9, <1>10, <1>11

\* It is the least set that has the destination and that no move leads out of.
LEMMA BehindIsLeast ==
  ASSUME NEW r \in Requests, NEW d \in Moves(r), NEW X, d \in X, Closed(r, X)
  PROVE  Behind(r, d) \subseteq X
<1>1. PICK n \in Nat : n = Cardinality(Temps)
  BY Finite
<1>2. PICK g : g = ReachedBack(r, d) /\ Reaches(g, r, d, n)
  BY <1>1, ReachedBackReaches
<1>3. g[0] = {d} /\ \A i \in 1..n : g[i] = Back(r, g[i - 1])
  BY <1>2 DEF Reaches
<1> DEFINE S == {i \in Nat : i <= n => g[i] \subseteq X}
<1>4. 0 \in S
  BY <1>3
<1>5. ASSUME NEW i \in S PROVE i + 1 \in S
  <2>1. i \in Nat /\ i + 1 \in Nat
    OBVIOUS
  <2>2. ASSUME i + 1 <= n PROVE g[i + 1] \subseteq X
    <3>1. i <= n /\ i + 1 \in 1..n /\ (i + 1) - 1 = i
      BY <1>1, <2>1, <2>2
    <3>2. g[i + 1] = Back(r, g[i]) /\ g[i] \subseteq X
      BY <1>3, <2>1, <3>1
    <3> QED
      BY <3>2 DEF Back, Closed
  <2> QED
    BY <2>1, <2>2
<1>6. S = Nat
  <2> HIDE DEF S
  <2>1. S \in SUBSET Nat
    BY DEF S
  <2> QED
    BY <1>4, <1>5, <2>1, NaturalInduction
<1> QED
  BY <1>1, <1>2, <1>6 DEF Behind

-----------------------------------------------------------------------------
(* Pure cycles.                                                            *)

\* The destinations whose moves read c.
Readers(r, c) == {x \in Moves(r) : r[x] = c}

LEMMA PureCycleHas ==
  ASSUME NEW r \in Requests, NEW e \in Moves(r)
  PROVE  e \in OnPureCycle(r) <=>
           \A c \in Behind(r, e) : c \in Moves(r) /\ \E x : Readers(r, c) = {x}
<1>1. \A c : IsFiniteSet(Readers(r, c))
  <2>1. \A c : Readers(r, c) \in SUBSET Temps
    BY MovesOfRequest DEF Readers
  <2> QED
    BY <2>1, Finite
<1>2. \A c : Cardinality(Readers(r, c)) = 1 <=> \E x : Readers(r, c) = {x}
  BY <1>1, FS_Singleton
<1> QED
  BY <1>2 DEF OnPureCycle, Readers

\* All destinations of a pure cycle have the same behind them, and who reads
\* one of them is one of them.
LEMMA CycleIsOne ==
  ASSUME NEW r \in Requests, NEW e \in OnPureCycle(r), NEW c \in Behind(r, e)
  PROVE  /\ Behind(r, c) = Behind(r, e)
         /\ c \in OnPureCycle(r)
         /\ \A x \in Moves(r) : r[x] \in Behind(r, e) => x \in Behind(r, e)
<1> DEFINE B == Behind(r, e)
           C == Behind(r, c)
<1>1. e \in Moves(r)
  BY DEF OnPureCycle
<1>2. \A b \in B : b \in Moves(r) /\ \E x : Readers(r, b) = {x}
  BY <1>1, PureCycleHas
<1>3. e \in B /\ Closed(r, B)
  BY <1>1, BehindIsClosed
<1>4. c \in Moves(r)
  BY <1>2
<1>5. c \in C /\ Closed(r, C)
  BY <1>4, BehindIsClosed
<1>6. C \subseteq B
  BY <1>3, <1>4, BehindIsLeast
<1> HIDE DEF B, C
<1>7. B \subseteq Temps /\ C \subseteq Temps
  BY <1>2, <1>6, MovesOfRequest
<1> DEFINE f == [x \in C |-> r[x]]
<1>8. f \in Injection(C, C)
  <2>1. f \in [C -> C]
    BY <1>2, <1>5, <1>6 DEF Closed
  <2>2. ASSUME NEW x \in C, NEW y \in C, f[x] = f[y] PROVE x = y
    <3>1. r[x] \in B /\ x \in Moves(r) /\ y \in Moves(r) /\ r[x] = r[y]
      BY <1>2, <1>5, <1>6, <2>2 DEF Closed
    <3>2. x \in Readers(r, r[x]) /\ y \in Readers(r, r[x])
      BY <3>1 DEF Readers
    <3> QED
      BY <1>2, <3>1, <3>2
  <2> QED
    BY <2>1, <2>2 DEF Injection, IsInjective
<1>9. f \in Surjection(C, C)
  BY <1>7, <1>8, Finite, FS_Injection
<1>10. ASSUME NEW x \in Moves(r), r[x] \in C PROVE x \in C
  <2>1. PICK y \in C : f[y] = r[x]
    BY <1>9, <1>10 DEF Surjection
  <2>2. y \in Readers(r, r[x]) /\ x \in Readers(r, r[x])
    BY <1>2, <1>6, <2>1 DEF Readers
  <2> QED
    BY <1>2, <1>6, <1>10, <2>2
<1>11. e \in C
  <2> SUFFICES ASSUME e \notin C PROVE FALSE
    OBVIOUS
  <2>1. e \in B \ C /\ Closed(r, B \ C)
    BY <1>3, <1>10 DEF Closed
  <2>2. B \subseteq B \ C
    BY <1>1, <2>1, BehindIsLeast DEF B
  <2> QED
    BY <1>5, <1>6, <2>2
<1>12. B \subseteq C
  BY <1>1, <1>5, <1>11, BehindIsLeast DEF B
<1>13. B = C
  BY <1>6, <1>12
<1>14. c \in OnPureCycle(r)
  BY <1>2, <1>4, <1>13, PureCycleHas DEF B, C
<1> QED
  BY <1>10, <1>13, <1>14 DEF B, C

\* A part of a pure cycle that has all who read it is nothing or the cycle.
LEMMA NoPartOfCycle ==
  ASSUME NEW r \in Requests, NEW e \in OnPureCycle(r), NEW Q \in SUBSET Behind(r, e), Q # Behind(r, e),
         \A x \in Moves(r) : r[x] \in Q => x \in Q
  PROVE  Q = {}
<1>1. PICK c \in Behind(r, e) : c \notin Q
  OBVIOUS
<1>2. Behind(r, c) = Behind(r, e) /\ c \in Moves(r)
  BY CycleIsOne DEF OnPureCycle
<1>3. Closed(r, Behind(r, e))
  BY BehindIsClosed DEF OnPureCycle
<1>4. Closed(r, Behind(r, e) \ Q)
  BY <1>3 DEF Closed
<1>5. Behind(r, c) \subseteq Behind(r, e) \ Q
  BY <1>1, <1>2, <1>4, BehindIsLeast
<1> QED
  BY <1>2, <1>5

\* Moves that are all read by moves among them, and by no other, are on pure cycles.
LEMMA ReadAmongThemselves ==
  ASSUME NEW r \in Requests, NEW P \in SUBSET Moves(r),
         \A c \in P : Readers(r, c) # {} /\ Readers(r, c) \subseteq P
  PROVE  \A d \in P : d \in OnPureCycle(r) /\ Behind(r, d) \subseteq P
<1> DEFINE Q == {x \in P : r[x] \in P}
           f == [x \in Q |-> r[x]]
<1>1. P \in SUBSET Temps /\ Q \in SUBSET P /\ Q \in SUBSET Temps
  BY MovesOfRequest
<1>2. f \in Surjection(Q, P)
  <2>1. f \in [Q -> P]
    OBVIOUS
  <2>2. ASSUME NEW c \in P PROVE \E x \in Q : f[x] = c
    <3>1. PICK x : x \in Readers(r, c)
      OBVIOUS
    <3>2. x \in Q /\ r[x] = c
      BY <3>1 DEF Readers
    <3> QED
      BY <3>2
  <2> QED
    BY <2>1, <2>2 DEF Surjection
<1>3. IsFiniteSet(P) /\ IsFiniteSet(Q)
  BY <1>1, Finite
<1> HIDE DEF Q, f
<1>4. Cardinality(P) <= Cardinality(Q) /\ (Cardinality(P) = Cardinality(Q) <=> f \in Injection(Q, P))
  BY <1>2, <1>3, FS_Surjection
<1>5. Cardinality(Q) <= Cardinality(P) /\ (Cardinality(P) = Cardinality(Q) => P = Q)
  BY <1>1, <1>3, FS_Subset
<1>6. Cardinality(P) \in Nat /\ Cardinality(Q) \in Nat
  BY <1>3, FS_CardinalityType
<1>7. Cardinality(P) = Cardinality(Q)
  BY <1>4, <1>5, <1>6
<1>8. P = Q /\ f \in Injection(Q, P)
  BY <1>4, <1>5, <1>7
<1>9. \A x \in P : r[x] \in P
  BY <1>8 DEF Q
<1>10. \A x, y \in P : r[x] = r[y] => x = y
  <2>1. \A x, y \in Q : f[x] = f[y] => x = y
    BY <1>8 DEF Injection, IsInjective
  <2> QED
    BY <1>8, <2>1 DEF f
<1>11. ASSUME NEW c \in P PROVE \E x : Readers(r, c) = {x}
  <2>1. PICK x : x \in Readers(r, c)
    OBVIOUS
  <2>2. ASSUME NEW y \in Readers(r, c) PROVE y = x
    <3>1. x \in P /\ y \in P /\ r[x] = c /\ r[y] = c
      BY <2>1 DEF Readers
    <3> QED
      BY <1>10, <3>1
  <2>3. Readers(r, c) = {x}
    BY <2>1, <2>2
  <2> QED
    BY <2>3
<1> SUFFICES ASSUME NEW d \in P PROVE d \in OnPureCycle(r) /\ Behind(r, d) \subseteq P
  OBVIOUS
<1>12. Closed(r, P)
  BY <1>9 DEF Closed
<1>13. Behind(r, d) \subseteq P
  BY <1>12, BehindIsLeast
<1> QED
  BY <1>11, <1>13, PureCycleHas
-----------------------------------------------------------------------------
(* One temporary for each pure cycle.                                      *)

Cycle(d) == Behind(request, d)

\* Every fresh temporary has the value of a destination on a pure cycle, each
\* of another cycle.
SavedOncePerCycle ==
  /\ \A n \in used : mem[n] \in OnPureCycle(request)
  /\ \A m, n \in used : Cycle(mem[m]) = Cycle(mem[n]) => m = n

\* A pure cycle is whole and waits, or one of its values is saved and its moves
\* are under way, or made.
Saved(C) == \E n \in used : mem[n] \in C
CyclesAreWhole ==
  \A e \in OnPureCycle(request) :
    IF Saved(Cycle(e)) THEN Cycle(e) \cap Pending # {} => Cycle(e) \cap Pending \cap ready # {}
    ELSE Cycle(e) \subseteq Pending \ ready

FreshInv == IInv /\ SavedOncePerCycle /\ CyclesAreWhole

\* A destination on a pure cycle is behind itself, with moves only, one of which
\* reads it.
LEMMA CycleFacts ==
  ASSUME IInv, NEW e \in OnPureCycle(request)
  PROVE  /\ request \in Requests /\ e \in Moves(request) /\ e \in Cycle(e)
         /\ \A c \in Cycle(e) : /\ c \in Moves(request) /\ request[c] \in Cycle(e)
                                /\ \E x \in Moves(request) : request[x] = c
<1>1. request \in Requests /\ e \in Moves(request)
  BY DEF IInv, TypeOK, OnPureCycle
<1>2. e \in Cycle(e) /\ Closed(request, Cycle(e))
  BY <1>1, BehindIsClosed DEF Cycle
<1>3. \A c \in Cycle(e) : c \in Moves(request) /\ \E x : Readers(request, c) = {x}
  BY <1>1, PureCycleHas DEF Cycle
<1>4. \A c \in Cycle(e) : \E x \in Moves(request) : request[x] = c
  BY <1>3 DEF Readers
<1> QED
  BY <1>1, <1>2, <1>3, <1>4 DEF Closed

LEMMA FreshInitially == Init => FreshInv
<1> SUFFICES ASSUME Init PROVE FreshInv
  OBVIOUS
<1>1. IInv
  BY InitEstablishes
<1>2. SavedOncePerCycle
  BY DEF SavedOncePerCycle, Init
<1>3. ASSUME NEW e \in OnPureCycle(request) PROVE ~ Saved(Cycle(e)) /\ Cycle(e) \subseteq Pending \ ready
  <2>1. Pending = Moves(request) /\ ready = Moves(request) \ Sources(request) /\ used = {}
    BY DEF Init, Pending
  <2>2. \A c \in Cycle(e) : c \in Moves(request) /\ \E x \in Moves(request) : request[x] = c
    BY <1>1, CycleFacts
  <2> QED
    BY <2>1, <2>2 DEF Saved, Sources
<1>4. CyclesAreWhole
  BY <1>3 DEF CyclesAreWhole
<1> QED
  BY <1>1, <1>2, <1>4 DEF FreshInv

\* What is saved stays saved while no move is made into a fresh temporary.
LEMMA SavedStays ==
  ASSUME SavedOncePerCycle, request' = request, used' = used, \A n \in used : mem'[n] = mem[n]
  PROVE  /\ SavedOncePerCycle'
         /\ \A C : Saved(C)' <=> Saved(C)
<1>1. \A n \in used : mem'[n] = mem[n]
  OBVIOUS
<1>2. SavedOncePerCycle'
  BY <1>1 DEF SavedOncePerCycle, Cycle
<1>3. \A C : Saved(C)' <=> Saved(C)
  BY <1>1 DEF Saved
<1> QED
  BY <1>2, <1>3

\* A move into a ready destination leaves each pure cycle whole, or with a
\* destination in ready, or without any left.
LEMMA TakeReadyKeepsCycles ==
  ASSUME FreshInv, NEW d \in Temps, TakeReady(d)
  PROVE  SavedOncePerCycle' /\ CyclesAreWhole'
<1>0. IInv /\ SavedOncePerCycle /\ CyclesAreWhole
  BY DEF FreshInv
<1>1. request' = request /\ used' = used /\ d \in ready
  BY DEF TakeReady
<1>2. \A n \in used : mem'[n] = mem[n]
  <2>1. used \subseteq Cells /\ d \notin used /\ mem \in [Cells -> Cells \cup Leaves]
    BY <1>0, DisjointAssumption DEF IInv, TypeOK, Cells
  <2>2. CASE d \notin Pending
    BY <2>2 DEF TakeReady
  <2>3. CASE d \in Pending
    BY <2>1, <2>3 DEF TakeReady
  <2> QED
    BY <2>2, <2>3
<1>3. SavedOncePerCycle' /\ \A C : Saved(C)' <=> Saved(C)
  BY <1>0, <1>1, <1>2, SavedStays
<1>4. CASE d \notin Pending
  <2>1. Pending' = Pending /\ ready' = ready \ {d}
    BY <1>4 DEF TakeReady, Pending
  <2> SUFFICES ASSUME NEW e \in OnPureCycle(request)
               PROVE  IF Saved(Cycle(e)) THEN Cycle(e) \cap Pending # {} => Cycle(e) \cap Pending \cap ready' # {}
                      ELSE Cycle(e) \subseteq Pending \ ready'
    BY <1>1, <1>3, <2>1 DEF CyclesAreWhole, Cycle
  <2> QED
    BY <1>0, <1>4, <2>1 DEF CyclesAreWhole
<1>5. CASE d \in Pending
  <2> DEFINE s == request[d]
  <2>1. d \in Moves(request) /\ s # d /\ pred[d] = s
    BY <1>0, <1>5, MovesOfRequest DEF IInv, TypeOK, Bookkeeping
  <2>2. Pending' = Pending \ {d}
    BY <1>5 DEF TakeReady, Without, Pending
  <2>3. /\ ready \ {d} \subseteq ready'
        /\ ready' \subseteq ready \cup {s}
        /\ s \in Pending /\ loc[s] = s => s \in ready'
    BY <1>5, <2>1, <2>2 DEF TakeReady, Pending
  <2> SUFFICES ASSUME NEW e \in OnPureCycle(request)
               PROVE  IF Saved(Cycle(e)) THEN Cycle(e) \cap Pending' # {} => Cycle(e) \cap Pending' \cap ready' # {}
                      ELSE Cycle(e) \subseteq Pending' \ ready'
    BY <1>1, <1>3 DEF CyclesAreWhole, Cycle
  <2> HIDE DEF s
  <2>4. request \in Requests /\ e \in Cycle(e) /\ \A c \in Cycle(e) : c \in Moves(request) /\ request[c] \in Cycle(e)
    BY <1>0, CycleFacts
  <2>5. \A x \in Moves(request) : request[x] \in Cycle(e) => x \in Cycle(e)
    BY <2>4, CycleIsOne DEF Cycle
  <2>6. CASE ~ Saved(Cycle(e))
    <3>1. Cycle(e) \subseteq Pending \ ready
      BY <1>0, <2>6 DEF CyclesAreWhole
    <3>2. d \notin Cycle(e)
      BY <1>1, <3>1
    <3>3. s \notin Cycle(e)
      BY <2>1, <2>5, <3>2 DEF s
    <3> QED
      BY <2>2, <2>3, <2>6, <3>1, <3>2, <3>3
  <2>7. CASE Saved(Cycle(e))
    <3> SUFFICES ASSUME Cycle(e) \cap Pending' # {}, Cycle(e) \cap Pending' \cap ready' = {} PROVE FALSE
      BY <2>7
    <3>1. Cycle(e) \cap Pending \cap ready # {}
      BY <1>0, <2>2, <2>7 DEF CyclesAreWhole
    <3>2. Cycle(e) \cap Pending \cap ready = {d}
      BY <2>2, <2>3, <3>1
    <3>3. d \in Cycle(e) /\ s \in Cycle(e)
      BY <2>4, <3>2 DEF s
    <3>4. s \notin Pending
      <4> SUFFICES ASSUME s \in Pending PROVE FALSE
        OBVIOUS
      <4>1. s \in Pending' /\ s \notin ready
        BY <2>1, <2>2, <2>3, <3>3
      <4>2. loc[s] = s
        BY <1>0, <4>1 DEF IInv, WaitingIsUnread
      <4> QED
        BY <2>3, <3>3, <4>1, <4>2
    <3> DEFINE Q == Cycle(e) \cap Pending'
    <3>5. ASSUME NEW x \in Moves(request), request[x] \in Q PROVE x \in Q
      <4>1. request[x] \in Pending \ ready /\ request[x] # d /\ x \in Cycle(e)
        BY <2>2, <2>5, <3>2, <3>5
      <4>2. loc[request[x]] = request[x] /\ request[x] \in Sources(request)
        BY <1>0, <4>1 DEF IInv, WaitingIsUnread
      <4>3. x \in Pending
        BY <1>0, <4>2 DEF IInv, UncopiedIsNeeded
      <4>4. x # d
        BY <3>4, <4>1 DEF s
      <4> QED
        BY <2>2, <4>1, <4>3, <4>4
    <3>6. Q \in SUBSET Cycle(e) /\ d \notin Q
      BY <2>2
    <3> HIDE DEF Q
    <3>7. Q = {}
      BY <2>4, <3>3, <3>5, <3>6, NoPartOfCycle DEF Cycle
    <3> QED
      BY <3>7 DEF Q
  <2> QED
    BY <2>6, <2>7
<1> QED
  BY <1>3, <1>4, <1>5

\* When nothing is ready, the moves still to be made are on pure cycles.
LEMMA PendingIsOnPureCycles ==
  ASSUME IInv, ready = {}
  PROVE  \A d \in Pending : d \in OnPureCycle(request) /\ Cycle(d) \subseteq Pending
<1>1. request \in Requests /\ Pending \in SUBSET Moves(request)
  BY DEF IInv, TypeOK
<1>2. ASSUME NEW c \in Pending PROVE Readers(request, c) # {} /\ Readers(request, c) \subseteq Pending
  <2>1. c \in Sources(request) /\ loc[c] = c
    BY DEF IInv, WaitingIsUnread
  <2>2. \A x \in Moves(request) : request[x] = c => x \in Pending
    BY <2>1 DEF IInv, UncopiedIsNeeded
  <2>3. \E x \in Moves(request) : request[x] = c
    BY <1>1, <2>1, MovesOfRequest
  <2> QED
    BY <2>2, <2>3 DEF Readers
<1> QED
  BY <1>1, <1>2, ReadAmongThemselves DEF Cycle

\* A destination that waits when nothing is ready is the first of its cycle to be saved.
LEMMA TakeToDoKeepsCycles ==
  ASSUME FreshInv, NEW d \in Temps, TakeToDo(d)
  PROVE  SavedOncePerCycle' /\ CyclesAreWhole'
<1>0. IInv /\ SavedOncePerCycle /\ CyclesAreWhole
  BY DEF FreshInv
<1>1. request' = request /\ ready = {} /\ request \in Requests
  BY <1>0 DEF TakeToDo, IInv, TypeOK
<1>2. CASE d \notin Pending
  <2>1. UNCHANGED <<pred, loc, ready, used, mem>>
    BY <1>2 DEF TakeToDo
  <2>2. SavedOncePerCycle' /\ \A C : Saved(C)' <=> Saved(C)
    BY <1>0, <1>1, <2>1, SavedStays
  <2>3. CyclesAreWhole'
    BY <1>0, <1>1, <2>1, <2>2 DEF CyclesAreWhole, Cycle, Pending
  <2> QED
    BY <2>2, <2>3
<1>3. CASE d \in Pending
  <2>1. /\ d \in Sources(request) /\ loc[d] = d /\ d \in Moves(request)
        /\ request[d] # d /\ pred[d] = request[d] /\ request[d] \in Sources(request)
    BY <1>0, <1>1, <1>3, MovesOfRequest DEF IInv, WaitingIsUnread, Bookkeeping, TypeOK
  <2>2. loc[pred[d]] # d
    BY <1>0, <1>3, <2>1, DisjointAssumption DEF IInv, Locations, TypeOK
  <2>3. PICK n \in Fresh \ used :
          /\ mem' = [mem EXCEPT ![n] = mem[d]]
          /\ ready' = {d}
          /\ used' = used \cup {n}
          /\ UNCHANGED pred
    BY <1>3, <2>2 DEF TakeToDo
  <2>4. Pending' = Pending
    BY <2>3 DEF Pending
  <2>5. mem[d] = d
    <3>1. PICK x \in Moves(request) : request[x] = d
      BY <1>1, <2>1, MovesOfRequest
    <3>2. x \in Pending /\ pred[x] = d
      BY <1>0, <2>1, <3>1 DEF IInv, UncopiedIsNeeded, Bookkeeping
    <3>3. Read(d) = d /\ d \notin Leaves
      BY <1>0, <2>1, <3>2, DisjointAssumption DEF IInv, ValuesSurvive
    <3> QED
      BY <3>3 DEF Read
  <2>6. mem'[n] = d /\ \A m \in used : mem'[m] = mem[m]
    BY <1>0, <2>3, <2>5 DEF IInv, TypeOK, Cells
  <2>7. d \in OnPureCycle(request) /\ Cycle(d) \subseteq Pending /\ d \in Cycle(d)
    BY <1>0, <1>1, <1>3, PendingIsOnPureCycles, CycleFacts
  <2>8. ~ Saved(Cycle(d))
    BY <1>0, <1>1, <1>3, <2>7 DEF CyclesAreWhole
  <2>9. ASSUME NEW m \in used PROVE Cycle(mem[m]) # Cycle(d)
    <3>1. mem[m] \in OnPureCycle(request)
      BY <1>0 DEF SavedOncePerCycle
    <3>2. mem[m] \in Cycle(mem[m])
      BY <1>0, <3>1, CycleFacts
    <3> QED
      BY <2>8, <3>2 DEF Saved
  <2>10. SavedOncePerCycle'
    <3>1. ASSUME NEW m \in used' PROVE mem'[m] \in OnPureCycle(request)
      BY <1>0, <2>3, <2>6, <2>7 DEF SavedOncePerCycle
    <3>2. ASSUME NEW m \in used', NEW k \in used', Cycle(mem'[m]) = Cycle(mem'[k]) PROVE m = k
      <4>1. CASE m \in used /\ k \in used
        BY <1>0, <2>6, <3>2, <4>1 DEF SavedOncePerCycle
      <4>2. CASE m = n /\ k \in used
        BY <2>6, <2>9, <3>2, <4>2
      <4>3. CASE m \in used /\ k = n
        BY <2>6, <2>9, <3>2, <4>3
      <4> QED
        BY <2>3, <4>1, <4>2, <4>3
    <3> QED
      BY <1>1, <3>1, <3>2 DEF SavedOncePerCycle, Cycle
  <2>11. CyclesAreWhole'
    <3> SUFFICES ASSUME NEW e \in OnPureCycle(request)
                 PROVE  IF Saved(Cycle(e))' THEN Cycle(e) \cap Pending # {} => Cycle(e) \cap Pending \cap ready' # {}
                        ELSE Cycle(e) \subseteq Pending \ ready'
      BY <1>1, <2>4 DEF CyclesAreWhole, Cycle
    <3>1. Cycle(e)' = Cycle(e)
      BY <1>1 DEF Cycle
    <3>2. CASE d \in Cycle(e)
      <4>1. Saved(Cycle(e))'
        BY <2>3, <2>6, <3>1, <3>2 DEF Saved
      <4> QED
        BY <1>3, <2>3, <3>2, <4>1
    <3>3. CASE d \notin Cycle(e)
      <4>1. Saved(Cycle(e))' <=> Saved(Cycle(e))
        BY <2>3, <2>6, <3>1, <3>3 DEF Saved
      <4>2. Saved(Cycle(e)) => Cycle(e) \cap Pending = {}
        BY <1>0, <1>1 DEF CyclesAreWhole
      <4>3. ~ Saved(Cycle(e)) => Cycle(e) \subseteq Pending
        BY <1>0 DEF CyclesAreWhole
      <4> QED
        BY <2>3, <3>3, <4>1, <4>2, <4>3
    <3> QED
      BY <3>2, <3>3
  <2> QED
    BY <2>10, <2>11
<1> QED
  BY <1>2, <1>3

\* The number of fresh temporaries that have been taken, from where they are.
LEMMA CountOfFresh == FreshInv => FreshForPureCyclesOnly
<1> SUFFICES ASSUME FreshInv PROVE FreshForPureCyclesOnly
  OBVIOUS
<1>1. IInv /\ SavedOncePerCycle /\ CyclesAreWhole /\ request \in Requests
  BY DEF FreshInv, IInv, TypeOK
<1> DEFINE P == OnPureCycle(request)
           g == [e \in P |-> Cycle(e)]
           f == [n \in used |-> Cycle(mem[n])]
<1>2. P \in SUBSET Temps
  BY <1>1, MovesOfRequest DEF OnPureCycle
<1>3. g \in Surjection(P, PureCycles(request))
  BY DEF PureCycles, Cycle, Surjection
<1>4. IsFiniteSet(PureCycles(request))
  BY <1>2, <1>3, Finite, FS_Surjection
<1>5. f \in Injection(used, PureCycles(request))
  <2>1. f \in [used -> PureCycles(request)]
    BY <1>1 DEF SavedOncePerCycle, PureCycles, Cycle
  <2>2. \A m, n \in used : f[m] = f[n] => m = n
    BY <1>1 DEF SavedOncePerCycle
  <2> QED
    BY <2>1, <2>2 DEF Injection, IsInjective
<1> HIDE DEF f, g, P
<1>6. /\ Cardinality(used) <= Cardinality(PureCycles(request))
      /\ Cardinality(used) = Cardinality(PureCycles(request)) <=> f \in Surjection(used, PureCycles(request))
  BY <1>4, <1>5, FS_Injection
<1>7. ASSUME Done PROVE f \in Surjection(used, PureCycles(request))
  <2>1. Pending = {}
    BY <1>1, <1>7 DEF IInv, NothingLeftBehind
  <2>2. ASSUME NEW C \in PureCycles(request) PROVE \E n \in used : f[n] = C
    <3>1. PICK e \in OnPureCycle(request) : C = Cycle(e)
      BY DEF PureCycles, Cycle
    <3>2. e \in Cycle(e)
      BY <1>1, CycleFacts
    <3>3. Saved(Cycle(e))
      BY <1>1, <2>1, <3>2 DEF CyclesAreWhole
    <3>4. PICK n \in used : mem[n] \in Cycle(e)
      BY <3>3 DEF Saved
    <3>5. Cycle(mem[n]) = Cycle(e)
      BY <1>1, <3>4, CycleIsOne DEF Cycle
    <3> QED
      BY <3>1, <3>5 DEF f
  <2> QED
    BY <1>5, <2>2 DEF Surjection, Injection
<1> QED
  BY <1>6, <1>7 DEF FreshForPureCyclesOnly

\* A temporary is taken for each cycle none of whose values is copied out of it,
\* and for nothing else (the branch of _seq_parallel_copies that makes one).
THEOREM FreshOnlyForPureCycles == Spec => []FreshForPureCyclesOnly
<1>1. FreshInv /\ [Next]_vars => FreshInv'
  <2> SUFFICES ASSUME FreshInv, [Next]_vars PROVE FreshInv'
    OBVIOUS
  <2>1. CASE Next
    <3>1. IInv
      BY DEF FreshInv
    <3>2. PICK d \in Temps : TakeReady(d) \/ TakeToDo(d)
      BY <2>1 DEF Next
    <3>3. IInv'
      BY <3>1, <3>2, TakeReadyKeeps, TakeToDoKeeps
    <3>4. SavedOncePerCycle' /\ CyclesAreWhole'
      BY <3>2, TakeReadyKeepsCycles, TakeToDoKeepsCycles
    <3> QED
      BY <3>3, <3>4 DEF FreshInv
  <2>2. CASE UNCHANGED vars
    <3>1. IInv'
      BY <2>2 DEF FreshInv, vars, IInv, TypeOK, Bookkeeping, MadeMovesAreRight, ValuesSurvive, Locations,
         ReadyIsFree, WaitingIsUnread, UncopiedIsNeeded, NothingElseMoves, NothingLeftBehind,
         Pending, Done, Read
    <3>2. SavedOncePerCycle' /\ CyclesAreWhole'
      BY <2>2 DEF FreshInv, vars, SavedOncePerCycle, CyclesAreWhole, Saved, Cycle, Pending
    <3> QED
      BY <3>1, <3>2 DEF FreshInv
  <2> QED
    BY <2>1, <2>2
<1> QED
  BY <1>1, FreshInitially, CountOfFresh, PTL DEF Spec
=============================================================================
