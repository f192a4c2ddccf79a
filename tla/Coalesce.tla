----------------------------- MODULE Coalesce ------------------------------
(***************************************************************************)
(* Coalescing of copy-related temporaries, the merge loop of _coalesce in  *)
(* sonolus/backend/_opt/lower.pyx.  The temporaries of a copy t <- s share *)
(* one slot unless they interfere; temporaries that share one form a web,  *)
(* and webs may be merged only if no member of one interferes with a       *)
(* member of the other.                                                    *)
(*                                                                         *)
(* The code does not compare all members.  A web has a set of neighbours,  *)
(* kept at its root; what an endpoint of a copy learns later, when one of  *)
(* its neighbours joins another web, goes to extras of its own, which      *)
(* count only until its own web merges again.  A merge takes over the      *)
(* extras of the two endpoints of its pair and drops those of all other    *)
(* members.  That no interference is forgotten this way is what is shown.  *)
(*                                                                         *)
(* The code takes the pairs in ascending order; here the order is free.    *)
(* The union-find forest is represented by the root it finds, and the      *)
(* membership bits of a root by the endpoints that find it.                *)
(***************************************************************************)
EXTENDS Temporaries

VARIABLES
  inter,  \* interference of temporaries
  pairs,  \* temporaries with a copy between them
  left,   \* pairs not yet looked at
  root,   \* endpoint -> root of its web
  members,\* root -> their number
  wmin,   \* root -> least member
  base,   \* root -> neighbours of the web
  extra,  \* endpoint -> neighbours it learnt of
  wgen,   \* root -> generation of the last merge
  xgen,   \* endpoint -> generation its extras belong to
  gen     \* last generation

webVars == <<inter, pairs, left, root, members, wmin, base, extra, wgen, xgen, gen>>

\* Copies between scalars, the lesser number first.
Copies == {p \in Temps \X Temps : p[1] < p[2]}

Endpoints == {p[1] : p \in pairs} \cup {p[2] : p \in pairs}


CoalesceInit ==
  /\ inter \in Graphs /\ pairs \in SUBSET Copies
  /\ left = pairs
  /\ root = [d \in Endpoints |-> d]
  /\ members = [d \in Endpoints |-> 1]
  /\ wmin = [d \in Endpoints |-> d]
  /\ base = [d \in Endpoints |-> inter[d] \cap Endpoints]
  /\ extra = [d \in Endpoints |-> {}]
  /\ wgen = [d \in Endpoints |-> 0]
  /\ xgen = [d \in Endpoints |-> 0]
  /\ gen = 0

\* The extras of an endpoint that still count.
Extras(d) == IF xgen[d] = wgen[root[d]] THEN extra[d] ELSE {}

\* The endpoints that endpoint d must not share a slot with.
Neighbours(d) == base[root[d]] \cup Extras(d)

Members(w) == {d \in Endpoints : root[d] = w}

-----------------------------------------------------------------------------

\* The neighbours of the web that a merge of t and s makes.
\* Mutant: the extras of the source are dropped.
MutantMergedBase(t, s) == Neighbours(t) \cup base[root[s]]
MergedBase(t, s) == Neighbours(t) \cup Neighbours(s)

\* The test: does the source interfere with the web of the target?
MayMerge(t, s) == s \notin Neighbours(t)

\* The bigger web keeps its root.
Survivor(t, s) == IF members[root[t]] >= members[root[s]] THEN root[t] ELSE root[s]
Absorbed(t, s) == IF members[root[t]] >= members[root[s]] THEN root[s] ELSE root[t]

\* The pair <<t, s>> is merged: the new web has the neighbours of both, and each
\* of these learns of all its members.
MergePair(t, s) ==
  LET w == Survivor(t, s)
      o == Absorbed(t, s)
      b == MergedBase(t, s)
      web == Members(root[t]) \cup Members(root[s])
  IN  /\ MayMerge(t, s)
      /\ root' = [d \in Endpoints |-> IF d \in web THEN w ELSE root[d]]
      /\ members' = IF w = o THEN members ELSE [members EXCEPT ![w] = @ + members[o]]
      /\ wmin' = [wmin EXCEPT ![w] = IF wmin[o] < @ THEN wmin[o] ELSE @]
      /\ base' = [base EXCEPT ![w] = b]
      /\ gen' = gen + 1
      /\ wgen' = [wgen EXCEPT ![w] = gen + 1]
      /\ extra' = [d \in Endpoints |->
           IF d \notin b THEN extra[d]
           ELSE web \cup IF xgen[d] = wgen'[root'[d]] THEN extra[d] ELSE {}]
      /\ xgen' = [d \in Endpoints |-> IF d \in b THEN wgen'[root'[d]] ELSE xgen[d]]

Refuse(t, s) ==
  /\ ~ MayMerge(t, s)
  /\ UNCHANGED <<root, members, wmin, base, extra, wgen, xgen, gen>>

CoalesceNext ==
  \E p \in left :
    /\ left' = left \ {p}
    /\ MergePair(p[1], p[2]) \/ Refuse(p[1], p[2])
    /\ UNCHANGED <<inter, pairs>>

CoalesceSpec == CoalesceInit /\ [][CoalesceNext]_webVars

\* The slot of a temporary: the least member of its web.
Canonical(t) == IF t \in Endpoints THEN wmin[root[t]] ELSE t

-----------------------------------------------------------------------------
(* Properties                                                              *)

\* Every variable has its type.
CoalesceTypeOK ==
  /\ inter \in [Temps -> SUBSET Temps] /\ Symmetric(inter)
  /\ pairs \subseteq Temps \X Temps /\ left \subseteq pairs
  /\ root \in [Endpoints -> Endpoints]
  /\ members \in [Endpoints -> Nat]
  /\ wmin \in [Endpoints -> Endpoints]
  /\ base \in [Endpoints -> SUBSET Endpoints]
  /\ extra \in [Endpoints -> SUBSET Endpoints]
  /\ wgen \in [Endpoints -> Nat] /\ xgen \in [Endpoints -> Nat] /\ gen \in Nat

\* Some member of the web of t interferes with some member of the web of s.
Clash(t, s) == \E d, e \in Endpoints : root[d] = root[t] /\ root[e] = root[s] /\ e \in inter[d]

\* What the code looks at, one endpoint against the neighbours of another, is
\* what matters, all members of one web against all of the other.
NeighboursExact == \A t, s \in Endpoints : s \in Neighbours(t) <=> Clash(t, s)

\* Temporaries that interfere never get the same slot.
SlotsAreSafe == \A t \in Temps : \A u \in inter[t] : Canonical(t) # Canonical(u)

\* No copy is kept without need: a pair looked at shares a slot, or its webs
\* interfere.
NoCopyKeptInVain ==
  \A p \in pairs \ left : root[p[1]] = root[p[2]] \/ Clash(p[1], p[2])
=============================================================================
