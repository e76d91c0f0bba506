---------------------------- MODULE RolesProofs ----------------------------
(***************************************************************************)
(* Proofs, for every finite set of roles and every inheritance graph:      *)
(* the worklist of expand_role shrinks, and computes the concrete roles,   *)
(* and the recursion of resolve_role_perm, which keeps the path it is on,  *)
(* finds a permission only behind the role and loses one only to a         *)
(* conflict, resolves level by level where there is no cycle, and ends in  *)
(* the conflicts that validate reports.                                    *)
(***************************************************************************)
EXTENDS Roles, TLAPS, FiniteSetTheorems, WellFoundedInduction

\* What the loop keeps true: nothing behind the start role is forgotten
\* (every role_set of a role that was popped is seen or still to do), nothing
\* else is visited, and the result is the concrete part of what was seen.
LoopInv ==
    /\ TypeOK
    /\ start \in seen \cup todo
    /\ \A r \in seen : r \in g.inherited => g.parents[r] \subseteq seen \cup todo
    /\ seen \cup todo \subseteq Reachable
    /\ out = {r \in seen : r \notin g.inherited /\ r # start}

\* Reachability is closed under role_set.
LEMMA ReachableIsClosed ==
    ASSUME TypeOK, NEW r \in Reachable, r \in g.inherited
    PROVE  g.parents[r] \subseteq Reachable
<1>1. g.parents[r] \subseteq Roles
  BY RolesAssumption DEF TypeOK, Reachable, Behind
<1>2. ASSUME NEW p \in g.parents[r], NEW S \in SUBSET Roles, start \in S, Closed(S)
      PROVE  p \in S
  <2>1. r \in S
    BY <1>2 DEF Reachable, Behind
  <2> QED
    BY <1>2, <2>1 DEF Closed
<1> QED
  BY <1>1, <1>2 DEF Reachable, Behind

LEMMA LoopInvInitially == Init => LoopInv
<1> SUFFICES ASSUME Init PROVE LoopInv
  OBVIOUS
<1>1. TypeOK
  BY DEF Init, TypeOK
<1>2. seen \cup todo \subseteq Reachable
  BY DEF Init, Reachable, Behind
<1> QED
  BY <1>1, <1>2 DEF Init, LoopInv

\* One round of the loop keeps the invariant.
LEMMA PopKeepsLoopInv ==
    ASSUME LoopInv, NEW r \in Roles, Pop(r)
    PROVE  LoopInv'
<1>0. /\ TypeOK
      /\ r \in todo /\ r \in Reachable
      /\ g' = g /\ start' = start /\ list' = list /\ backend' = backend
      /\ seen' = seen \cup {r}
  BY DEF LoopInv, Pop
<1>1. g.inherited \in SUBSET Roles /\ g.parents \in [Roles -> SUBSET Roles]
  BY <1>0, RolesAssumption DEF TypeOK
<1>2. CASE r \in seen
  <2>1. todo' = todo \ {r} /\ out' = out /\ seen' = seen
    BY <1>0, <1>2 DEF Pop
  <2>2. seen' \cup todo' = seen \cup todo
    BY <1>2, <2>1
  <2>3. Reachable' = Reachable
    BY <1>0 DEF Reachable, Behind, Closed
  <2>4. TypeOK'
    BY <1>0, <2>1 DEF TypeOK
  <2> QED
    BY <1>0, <2>1, <2>2, <2>3, <2>4 DEF LoopInv
<1>3. CASE r \notin seen
  <2>1. todo' = (todo \ {r}) \cup (IF r \in g.inherited THEN g.parents[r] ELSE {})
    BY <1>3 DEF Pop
  <2>2. out' = out \cup (IF r \notin g.inherited /\ r # start THEN {r} ELSE {})
    BY <1>3 DEF Pop
  <2>3. TypeOK'
    BY <1>0, <1>1, <2>1, <2>2 DEF TypeOK
  <2>4. start' \in seen' \cup todo'
    BY <1>0, <2>1 DEF LoopInv
  <2>5. \A q \in seen' : q \in g'.inherited => g'.parents[q] \subseteq seen' \cup todo'
    <3> SUFFICES ASSUME NEW q \in seen', q \in g.inherited
                 PROVE  g.parents[q] \subseteq seen' \cup todo'
      BY <1>0
    <3>1. CASE q = r
      BY <3>1, <2>1
    <3>2. CASE q \in seen
      <4>1. g.parents[q] \subseteq seen \cup todo
        BY <3>2 DEF LoopInv
      <4> QED
        BY <4>1, <1>0, <2>1
    <3> QED
      BY <3>1, <3>2, <1>0
  <2>6. seen' \cup todo' \subseteq Reachable'
    <3>1. Reachable' = Reachable
      BY <1>0 DEF Reachable, Behind, Closed
    <3>2. r \in g.inherited => g.parents[r] \subseteq Reachable
      BY <1>0, ReachableIsClosed
    <3> QED
      BY <3>1, <3>2, <1>0, <2>1 DEF LoopInv
  <2>7. out' = {q \in seen' : q \notin g'.inherited /\ q # start'}
    BY <1>0, <2>2 DEF LoopInv
  <2> QED
    BY <2>3, <2>4, <2>5, <2>6, <2>7 DEF LoopInv
<1> QED
  BY <1>2, <1>3

LEMMA LoopInvIsInvariant == Spec => []LoopInv
<1>1. LoopInv /\ [Next]_vars => LoopInv'
  <2> SUFFICES ASSUME LoopInv, [Next]_vars PROVE LoopInv'
    OBVIOUS
  <2>1. CASE Next
    BY <2>1, PopKeepsLoopInv DEF Next
  <2>2. CASE UNCHANGED vars
    BY <2>2 DEF vars, LoopInv, TypeOK, Reachable, Behind, Closed
  <2> QED
    BY <2>1, <2>2
<1> QED
  BY <1>1, LoopInvInitially, PTL DEF Spec

\* When the loop is done its result is exactly the set of concrete roles
\* behind the start role: the popped roles form a closed set that holds the
\* start role, so they are all of the reachable ones, and no others.
THEOREM ExpandIsCorrect == Spec => []ExpandsToLeaves
<1>1. LoopInv => ExpandsToLeaves
  <2> SUFFICES ASSUME LoopInv, Expanded
               PROVE  out = (Reachable \ g.inherited) \ {start}
    BY DEF ExpandsToLeaves
  <2>1. todo = {} /\ seen \in SUBSET Roles /\ start \in seen
    BY DEF LoopInv, TypeOK, Expanded
  <2>2. Closed(seen)
    BY <2>1 DEF LoopInv, Closed
  <2>3. Reachable \subseteq seen
    BY <2>1, <2>2 DEF Reachable, Behind
  <2>4. seen \subseteq Reachable
    BY DEF LoopInv
  <2> QED
    BY <2>3, <2>4 DEF LoopInv
<1> QED
  BY <1>1, LoopInvIsInvariant, PTL

----------------------------------------------------------------------------
(* The loop ends.                                                           *)

\* The roles that were not visited yet, and the length of the stack.
Unseen == Cardinality(Roles \ seen)
Stacked == Cardinality(todo)

\* A round visits a new role, or takes one off the stack and puts none on it.
Shrinks ==
    /\ Unseen \in Nat /\ Unseen' \in Nat /\ Stacked \in Nat /\ Stacked' \in Nat
    /\ \/ Unseen' < Unseen
       \/ Unseen' = Unseen /\ Stacked' < Stacked

LEMMA Sizes ==
    TypeOK => /\ Unseen \in Nat /\ Stacked \in Nat
              /\ IsFiniteSet(Roles \ seen) /\ IsFiniteSet(todo)
<1> SUFFICES ASSUME TypeOK
             PROVE  /\ Unseen \in Nat /\ Stacked \in Nat
                    /\ IsFiniteSet(Roles \ seen) /\ IsFiniteSet(todo)
  OBVIOUS
<1>1. IsFiniteSet(Roles \ seen)
  BY FiniteRoles, FS_Subset
<1>2. IsFiniteSet(todo)
  BY FiniteRoles, FS_Subset DEF TypeOK
<1> QED
  BY <1>1, <1>2, FS_CardinalityType DEF Unseen, Stacked

SizesInv == Unseen \in Nat /\ Stacked \in Nat

LEMMA PopShrinks ==
    ASSUME TypeOK, SizesInv', NEW r \in Roles, Pop(r)
    PROVE  Shrinks
<1>0. /\ r \in todo /\ seen' = seen \cup {r}
      /\ IsFiniteSet(Roles \ seen) /\ IsFiniteSet(todo)
      /\ Unseen \in Nat /\ Stacked \in Nat /\ Unseen' \in Nat /\ Stacked' \in Nat
  BY Sizes DEF Pop, SizesInv
<1>1. CASE r \in seen
  <2>1. seen' = seen /\ todo' = todo \ {r}
    BY <1>0, <1>1 DEF Pop
  <2>2. Cardinality(todo \ {r}) = Cardinality(todo) - 1
    BY <1>0, FS_RemoveElement
  <2> QED
    BY <1>0, <2>1, <2>2 DEF Shrinks, Unseen, Stacked
<1>2. CASE r \notin seen
  <2>1. Roles \ seen' = (Roles \ seen) \ {r} /\ r \in Roles \ seen
    BY <1>0, <1>2
  <2>2. Cardinality((Roles \ seen) \ {r}) = Cardinality(Roles \ seen) - 1
    BY <1>0, <2>1, FS_RemoveElement
  <2>3. Unseen' = Unseen - 1
    BY <2>1, <2>2 DEF Unseen
  <2> QED
    BY <1>0, <2>3 DEF Shrinks
<1> QED
  BY <1>1, <1>2

\* plan.rs, expand_role ("cycle-safe"): on every inheritance graph, cyclic ones
\* included, every round of the loop makes a pair of numbers smaller, first
\* the roles not visited, then the stack, so it runs only finitely often.
THEOREM ExpandShrinks == Spec => [][Shrinks]_vars
<1>1. LoopInv => TypeOK /\ SizesInv
  BY Sizes DEF LoopInv, SizesInv
<1>2. TypeOK /\ SizesInv' /\ Next => Shrinks
  BY PopShrinks DEF Next
<1> QED
  BY <1>1, <1>2, LoopInvIsInvariant, PTL DEF Spec

----------------------------------------------------------------------------
(* Induction, with sets in place of predicates.                             *)

LEMMA NatStrongInduction ==
    ASSUME NEW T \in SUBSET Nat, \A n \in Nat : (\A m \in Nat : m < n => m \in T) => n \in T
    PROVE  T = Nat
<1> SUFFICES ASSUME Nat \ T # {} PROVE FALSE
  OBVIOUS
<1>1. PICK n \in Nat \ T : \A m \in Nat \ T : ~(<<m, n>> \in OpToRel(<, Nat))
  BY NatLessThanWellFounded, WFMin
<1>2. \A m \in Nat : m < n => m \in T
  BY <1>1 DEF OpToRel
<1> QED
  BY <1>1, <1>2

\* The roles that may still be added to the path.
Unvisited(c) == Roles \ c[2]

LEMMA UnvisitedShrinks ==
    ASSUME NEW c \in Calls
    PROVE  /\ c[1] \in Roles /\ c[2] \in SUBSET Roles /\ c[3] \in SUBSET Perms
           /\ c = <<c[1], c[2], c[3]>>
           /\ Cardinality(Unvisited(c)) \in Nat
           /\ \A p \in Roles : c[1] \notin c[2] =>
                 LET d == <<p, c[2] \cup {c[1]}, c[3]>>
                 IN d \in Calls /\ Cardinality(Unvisited(d)) = Cardinality(Unvisited(c)) - 1
<1>1. c[1] \in Roles /\ c[2] \in SUBSET Roles /\ c[3] \in SUBSET Perms /\ c = <<c[1], c[2], c[3]>>
  BY DEF Calls
<1>2. IsFiniteSet(Unvisited(c))
  BY FiniteRoles, FS_Subset DEF Unvisited
<1>3. Cardinality(Unvisited(c)) \in Nat
  BY <1>2, FS_CardinalityType
<1>4. ASSUME NEW p \in Roles, c[1] \notin c[2]
      PROVE  LET d == <<p, c[2] \cup {c[1]}, c[3]>>
             IN d \in Calls /\ Cardinality(Unvisited(d)) = Cardinality(Unvisited(c)) - 1
  <2> DEFINE d == <<p, c[2] \cup {c[1]}, c[3]>>
  <2>1. d \in Calls
    BY <1>1, <1>4 DEF Calls
  <2>2. Unvisited(d) = Unvisited(c) \ {c[1]} /\ c[1] \in Unvisited(c)
    BY <1>1, <1>4 DEF Unvisited
  <2>3. Cardinality(Unvisited(c) \ {c[1]}) = Cardinality(Unvisited(c)) - 1
    BY <1>2, <2>2, FS_RemoveElement
  <2> QED
    BY <2>1, <2>2, <2>3
<1> QED
  BY <1>1, <1>3, <1>4

\* What holds of a call when it holds of the calls it makes, holds of all.
LEMMA CallInduction ==
    ASSUME NEW T \in SUBSET Calls,
           \A c \in Calls :
              (c[1] \notin c[2] => \A p \in Roles : <<p, c[2] \cup {c[1]}, c[3]>> \in T) => c \in T
    PROVE  T = Calls
<1> DEFINE N == {n \in Nat : \A c \in Calls : Cardinality(Unvisited(c)) = n => c \in T}
<1>1. ASSUME NEW n \in Nat, \A m \in Nat : m < n => m \in N
      PROVE  n \in N
  <2> SUFFICES ASSUME NEW c \in Calls, Cardinality(Unvisited(c)) = n PROVE c \in T
    OBVIOUS
  <2>1. ASSUME c[1] \notin c[2], NEW p \in Roles
        PROVE  <<p, c[2] \cup {c[1]}, c[3]>> \in T
    <3> DEFINE d == <<p, c[2] \cup {c[1]}, c[3]>>
    <3>1. d \in Calls /\ Cardinality(Unvisited(d)) = n - 1
      BY <2>1, UnvisitedShrinks
    <3>2. Cardinality(Unvisited(d)) \in Nat
      BY <3>1, UnvisitedShrinks
    <3>3. n - 1 \in N
      BY <1>1, <3>1, <3>2
    <3> QED
      BY <3>1, <3>3
  <2> QED
    BY <2>1
<1> HIDE DEF N
<1>2. N = Nat
  <2>1. N \in SUBSET Nat
    BY DEF N
  <2> QED
    BY <1>1, <2>1, NatStrongInduction
<1>3. ASSUME NEW c \in Calls PROVE c \in T
  BY <1>2, <1>3, UnvisitedShrinks DEF N
<1> QED
  BY <1>3

----------------------------------------------------------------------------
(* resolve_role_perm_rec ends: its definition has a solution.               *)

\* One call, with f for the calls it makes.
Body(f, call) ==
    LET r == call[1]
        visiting == call[2]
        usable == call[3]
    IN IF list[r] \in usable THEN list[r]
       ELSE IF r \in visiting \/ r \notin g.inherited THEN None
       ELSE Combine({f[<<p, visiting \cup {r}, usable>>] : p \in g.parents[r]} \ {None})

LEMMA GraphTypes ==
    ASSUME TypeOK
    PROVE  /\ g.inherited \in SUBSET Roles /\ g.parents \in [Roles -> SUBSET Roles]
           /\ list \in [Roles -> Perms \cup {None}] /\ None \notin Perms
           /\ Usable \in SUBSET Perms
BY RolesAssumption DEF TypeOK, Usable

LEMMA BodyAgrees ==
    ASSUME TypeOK, NEW c \in Calls, NEW f, NEW h,
           c[1] \notin c[2] =>
              \A p \in Roles : f[<<p, c[2] \cup {c[1]}, c[3]>>] = h[<<p, c[2] \cup {c[1]}, c[3]>>]
    PROVE  Body(f, c) = Body(h, c)
<1>1. c[1] \in Roles /\ g.parents[c[1]] \subseteq Roles
  BY GraphTypes, UnvisitedShrinks
<1>2. CASE c[1] \in c[2]
  BY <1>2 DEF Body
<1>3. CASE c[1] \notin c[2]
  <2>1. {f[<<p, c[2] \cup {c[1]}, c[3]>>] : p \in g.parents[c[1]]}
           = {h[<<p, c[2] \cup {c[1]}, c[3]>>] : p \in g.parents[c[1]]}
    BY <1>1, <1>3
  <2> QED
    BY <2>1 DEF Body
<1> QED
  BY <1>2, <1>3

Short(n) == {c \in Calls : Cardinality(Unvisited(c)) <= n}
Solves(f, S) == f = [c \in S |-> Body(f, c)]

LEMMA ShortSolution ==
    ASSUME TypeOK, NEW n \in Nat
    PROVE  \E f : Solves(f, Short(n))
<1> DEFINE N == {k \in Nat : \E f : Solves(f, Short(k))}
<1>1. ASSUME NEW k \in Nat, \A m \in Nat : m < k => m \in N
      PROVE  k \in N
  <2>1. PICK f : k > 0 => Solves(f, Short(k - 1))
    <3>1. CASE k = 0
      BY <3>1
    <3>2. CASE k > 0
      <4>1. k - 1 \in N
        BY <1>1, <3>2
      <4> QED
        BY <4>1
    <3> QED
      BY <3>1, <3>2
  <2> DEFINE h == [c \in Short(k) |-> Body(f, c)]
  <2>2. ASSUME NEW c \in Short(k), c[1] \notin c[2], NEW p \in Roles
        PROVE  f[<<p, c[2] \cup {c[1]}, c[3]>>] = h[<<p, c[2] \cup {c[1]}, c[3]>>]
    <3> DEFINE d == <<p, c[2] \cup {c[1]}, c[3]>>
    <3>1. /\ c \in Calls /\ Cardinality(Unvisited(c)) <= k /\ Cardinality(Unvisited(c)) \in Nat
          /\ d \in Calls /\ Cardinality(Unvisited(d)) = Cardinality(Unvisited(c)) - 1
      BY <2>2, UnvisitedShrinks DEF Short
    <3>2. Cardinality(Unvisited(d)) \in Nat
      BY <3>1, UnvisitedShrinks
    <3>3. k > 0 /\ d \in Short(k - 1) /\ d \in Short(k)
      BY <3>1, <3>2 DEF Short
    <3>4. f[d] = Body(f, d)
      BY <2>1, <3>3 DEF Solves
    <3>5. h[d] = Body(f, d)
      BY <3>3
    <3> QED
      BY <3>4, <3>5
  <2>3. \A c \in Short(k) : Body(f, c) = Body(h, c)
    <3> HIDE DEF h
    <3> QED
      BY <2>2, BodyAgrees DEF Short
  <2>4. Solves(h, Short(k))
    BY <2>3 DEF Solves
  <2> QED
    BY <2>4
<1>2. N = Nat
  <2>1. N \in SUBSET Nat
    OBVIOUS
  <2> HIDE DEF N
  <2> QED
    BY <1>1, <2>1, NatStrongInduction
<1> QED
  BY <1>2

\* What a call returns is what its body says.
LEMMA ResolveUnfolds ==
    ASSUME TypeOK, NEW c \in Calls
    PROVE  ResolveRec[c] = Body(ResolveRec, c)
<1> DEFINE E(h) == h = [call \in Calls |-> Body(h, call)]
<1>1. ResolveRec = CHOOSE h : E(h)
  BY Zenon DEF ResolveRec, Body
<1>2. Short(Cardinality(Roles)) = Calls /\ Cardinality(Roles) \in Nat
  <2>1. Cardinality(Roles) \in Nat
    BY FiniteRoles, FS_CardinalityType
  <2>2. ASSUME NEW d \in Calls PROVE Cardinality(Unvisited(d)) <= Cardinality(Roles)
    BY FiniteRoles, FS_Subset DEF Unvisited
  <2> QED
    BY <2>1, <2>2 DEF Short
<1>3. PICK f : E(f)
  BY <1>2, ShortSolution DEF Solves
<1> HIDE DEF E
<1>4. E(CHOOSE h : E(h))
  BY <1>3, Zenon
<1>5. E(ResolveRec)
  BY <1>1, <1>4, Zenon
<1> QED
  BY <1>5 DEF E

----------------------------------------------------------------------------
(* What is behind a role.                                                   *)

LEMMA BehindItself == ASSUME NEW r \in Roles PROVE r \in Behind(r)
BY DEF Behind

LEMMA BehindParents ==
    ASSUME TypeOK, NEW r \in Roles, r \in g.inherited, NEW p \in g.parents[r]
    PROVE  p \in Roles /\ Behind(p) \subseteq Behind(r)
<1>1. p \in Roles
  BY GraphTypes
<1>2. ASSUME NEW q \in Behind(p), NEW S \in SUBSET Roles, r \in S, Closed(S) PROVE q \in S
  <2>1. p \in S
    BY <1>2 DEF Closed
  <2> QED
    BY <1>2, <2>1 DEF Behind
<1> QED
  BY <1>1, <1>2 DEF Behind

\* When the loop is done, the start role and the result hold all the concrete
\* roles behind it.
LEMMA ConcreteRoles ==
    ASSUME LoopInv, Expanded, NEW q \in Reachable, q \notin g.inherited
    PROVE  q \in {start} \cup out
<1>1. todo = {} /\ seen \in SUBSET Roles /\ start \in seen
  BY DEF LoopInv, TypeOK, Expanded
<1>2. Closed(seen)
  BY <1>1 DEF LoopInv, Closed
<1>3. q \in seen
  BY <1>1, <1>2 DEF Reachable, Behind
<1> QED
  BY <1>3 DEF LoopInv

----------------------------------------------------------------------------
(* What resolve_role_perm_rec returns.                                      *)

\* A permission is inherited when all that were found are the same one.
LEMMA CombineFinds ==
    ASSUME NEW found, None \notin found
    PROVE  /\ Combine(found) # None => \E p \in found : found = {p} /\ Combine(found) = p
           /\ \A p \in found : found = {p} => Combine(found) = p
           /\ (~\E p \in found : found = {p}) => Combine(found) = None
<1>1. \A p : (CHOOSE x \in {p} : TRUE) = p
  OBVIOUS
<1> QED
  BY <1>1 DEF Combine

\* A permission comes from a role behind the one that is resolved.
LEMMA ResolvedIsBehind ==
    ASSUME TypeOK, NEW c \in Calls, ResolveRec[c] # None
    PROVE  \E q \in Behind(c[1]) : list[q] \in c[3] /\ list[q] = ResolveRec[c]
<1> DEFINE Found(d) == \E q \in Behind(d[1]) : list[q] \in d[3] /\ list[q] = ResolveRec[d]
           T == {d \in Calls : ResolveRec[d] # None => Found(d)}
<1>1. ASSUME NEW d \in Calls,
             d[1] \notin d[2] => \A p \in Roles : <<p, d[2] \cup {d[1]}, d[3]>> \in T,
             ResolveRec[d] # None
      PROVE  Found(d)
  <2>1. d[1] \in Roles
    BY UnvisitedShrinks
  <2>2. CASE list[d[1]] \in d[3]
    <3>1. ResolveRec[d] = list[d[1]]
      BY <2>2, ResolveUnfolds DEF Body
    <3> QED
      BY <2>1, <2>2, <3>1, BehindItself
  <2>3. CASE list[d[1]] \notin d[3]
    <3> DEFINE found == {ResolveRec[<<p, d[2] \cup {d[1]}, d[3]>>] : p \in g.parents[d[1]]} \ {None}
    <3>1. d[1] \notin d[2] /\ d[1] \in g.inherited /\ ResolveRec[d] = Combine(found)
      BY <1>1, <2>3, ResolveUnfolds DEF Body
    <3>2. Combine(found) \in found
      <4>1. None \notin found /\ Combine(found) # None
        BY <1>1, <3>1
      <4> HIDE DEF found
      <4> QED
        BY <4>1, CombineFinds
    <3>3. PICK p \in g.parents[d[1]] :
             ResolveRec[<<p, d[2] \cup {d[1]}, d[3]>>] = ResolveRec[d]
      BY <3>1, <3>2
    <3>4. p \in Roles /\ Behind(p) \subseteq Behind(d[1])
      BY <2>1, <3>1, <3>3, BehindParents
    <3>5. <<p, d[2] \cup {d[1]}, d[3]>> \in T
      BY <1>1, <3>1, <3>4
    <3>6. Found(<<p, d[2] \cup {d[1]}, d[3]>>)
      BY <1>1, <3>3, <3>5
    <3> QED
      BY <3>3, <3>4, <3>6
  <2> QED
    BY <2>2, <2>3
<1>2. T = Calls
  <2>1. T \in SUBSET Calls
    OBVIOUS
  <2>2. \A d \in Calls :
           (d[1] \notin d[2] => \A p \in Roles : <<p, d[2] \cup {d[1]}, d[3]>> \in T) => d \in T
    BY <1>1
  <2> HIDE DEF T
  <2> QED
    BY <2>1, <2>2, CallInduction
<1> QED
  BY <1>2

\* The roles that a call looks at: the recursion does not go on from a role
\* that is on its path.
ClosedAvoiding(S, V) == \A r \in S : r \notin V /\ r \in g.inherited => g.parents[r] \subseteq S
Avoiding(q, V) ==
    {r \in Roles : \A S \in SUBSET Roles : q \in S /\ ClosedAvoiding(S, V) => r \in S}

LEMMA AvoidingIsClosed ==
    ASSUME TypeOK, NEW q \in Roles, NEW V,
           NEW r \in Avoiding(q, V), r \notin V, r \in g.inherited
    PROVE  g.parents[r] \subseteq Avoiding(q, V)
<1>1. g.parents[r] \subseteq Roles
  BY GraphTypes
<1>2. ASSUME NEW p \in g.parents[r], NEW S \in SUBSET Roles, q \in S, ClosedAvoiding(S, V)
      PROVE  p \in S
  BY <1>2 DEF Avoiding, ClosedAvoiding
<1> QED
  BY <1>1, <1>2 DEF Avoiding

\* A path need not come back to where it starts.
LEMMA PathAvoids ==
    ASSUME TypeOK, NEW r \in Roles, NEW V, NEW q \in Avoiding(r, V), q # r
    PROVE  /\ r \notin V /\ r \in g.inherited
           /\ \E p \in g.parents[r] : q \in Avoiding(p, V \cup {r})
<1> DEFINE Beyond == {x \in Roles : \E p \in g.parents[r] : x \in Avoiding(p, V \cup {r})}
           S == {r} \cup (IF r \notin V /\ r \in g.inherited THEN Beyond ELSE {})
<1>1. S \in SUBSET Roles /\ r \in S
  OBVIOUS
<1>2. ASSUME NEW x \in S, x \notin V, x \in g.inherited PROVE g.parents[x] \subseteq S
  <2>1. g.parents[x] \subseteq Roles /\ g.parents[r] \subseteq Roles
    BY <1>1, <1>2, GraphTypes
  <2>2. CASE x = r
    <3>1. ASSUME NEW p \in g.parents[r] PROVE p \in Beyond
      BY <2>1, <3>1 DEF Avoiding
    <3> QED
      BY <1>2, <2>2, <3>1
  <2>3. CASE x # r
    <3>1. PICK p \in g.parents[r] : x \in Avoiding(p, V \cup {r})
      BY <1>2, <2>3
    <3>2. g.parents[x] \subseteq Avoiding(p, V \cup {r})
      BY <1>2, <2>1, <2>3, <3>1, AvoidingIsClosed
    <3> QED
      BY <1>2, <2>1, <2>3, <3>1, <3>2
  <2> QED
    BY <2>2, <2>3
<1>3. ClosedAvoiding(S, V)
  BY <1>2 DEF ClosedAvoiding
<1>4. q \in S
  BY <1>1, <1>3 DEF Avoiding
<1> QED
  BY <1>4

\* A permission that is the only one behind a role is found, if the recursion
\* comes to it at all.
LEMMA OnlyOneIsFound ==
    ASSUME TypeOK, NEW c \in Calls, NEW p \in c[3],
           \A q \in Behind(c[1]) : list[q] \in c[3] => list[q] = p,
           \E q \in Avoiding(c[1], c[2]) : list[q] = p
    PROVE  ResolveRec[c] = p
<1> DEFINE Only(d) == /\ p \in d[3]
                      /\ \A q \in Behind(d[1]) : list[q] \in d[3] => list[q] = p
                      /\ \E q \in Avoiding(d[1], d[2]) : list[q] = p
           T == {d \in Calls : Only(d) => ResolveRec[d] = p}
<1>1. ASSUME NEW d \in Calls,
             d[1] \notin d[2] => \A x \in Roles : <<x, d[2] \cup {d[1]}, d[3]>> \in T,
             Only(d)
      PROVE  ResolveRec[d] = p
  <2>1. d[1] \in Roles /\ d[3] \in SUBSET Perms /\ p # None
    BY <1>1, UnvisitedShrinks, GraphTypes
  <2>2. CASE list[d[1]] \in d[3]
    <3>1. ResolveRec[d] = list[d[1]]
      BY <2>2, ResolveUnfolds DEF Body
    <3> QED
      BY <1>1, <2>1, <2>2, <3>1, BehindItself
  <2>3. CASE list[d[1]] \notin d[3]
    <3> DEFINE Call(x) == <<x, d[2] \cup {d[1]}, d[3]>>
               found == {ResolveRec[Call(x)] : x \in g.parents[d[1]]} \ {None}
    <3>1. PICK q \in Avoiding(d[1], d[2]) : list[q] = p
      BY <1>1
    <3>2. q # d[1]
      BY <1>1, <2>3, <3>1
    <3>3. /\ d[1] \notin d[2] /\ d[1] \in g.inherited
          /\ \E x \in g.parents[d[1]] : q \in Avoiding(x, d[2] \cup {d[1]})
      BY <2>1, <3>1, <3>2, PathAvoids
    <3>4. ResolveRec[d] = Combine(found)
      BY <2>3, <3>3, ResolveUnfolds DEF Body
    <3>5. ASSUME NEW x \in g.parents[d[1]]
          PROVE  /\ x \in Roles /\ Behind(x) \subseteq Behind(d[1])
                 /\ Call(x) \in T /\ Call(x) \in Calls
                 /\ Call(x)[1] = x /\ Call(x)[2] = d[2] \cup {d[1]} /\ Call(x)[3] = d[3]
      BY <1>1, <2>1, <3>3, BehindParents
    <3>6. ASSUME NEW x \in g.parents[d[1]], ResolveRec[Call(x)] # None
          PROVE  ResolveRec[Call(x)] = p
      <4>1. PICK y \in Behind(Call(x)[1]) :
               list[y] \in Call(x)[3] /\ list[y] = ResolveRec[Call(x)]
        BY <3>5, <3>6, ResolvedIsBehind
      <4> QED
        BY <1>1, <3>5, <4>1
    <3>7. PICK x \in g.parents[d[1]] : q \in Avoiding(x, d[2] \cup {d[1]})
      BY <3>3
    <3>8. Only(Call(x))
      BY <1>1, <3>1, <3>5, <3>7
    <3>9. ResolveRec[Call(x)] = p
      BY <3>5, <3>7, <3>8
    <3>10. found = {p}
      BY <2>1, <3>6, <3>7, <3>9
    <3> HIDE DEF found
    <3>11. Combine(found) = p
      BY <2>1, <3>10, CombineFinds
    <3> QED
      BY <3>4, <3>11
  <2> QED
    BY <2>2, <2>3
<1>2. T = Calls
  <2>1. T \in SUBSET Calls
    OBVIOUS
  <2>2. \A d \in Calls :
           (d[1] \notin d[2] => \A x \in Roles : <<x, d[2] \cup {d[1]}, d[3]>> \in T) => d \in T
    BY <1>1
  <2> HIDE DEF T
  <2> QED
    BY <2>1, <2>2, CallInduction
<1> QED
  BY <1>2

LEMMA WalksDoAgree ==
    ASSUME LoopInv, Expanded, NEW U \in SUBSET Perms, NEW has \in BOOLEAN,
           has <=> \E r \in {start} \cup out : list[r] \in U
    PROVE  WalksAgree(has, U)
<1> DEFINE c == <<start, {}, U>>
           resolved == ResolveRec[c]
           listed == {list[r] : r \in Reachable} \cap U
<1>1. /\ TypeOK /\ start \in Roles /\ c \in Calls
      /\ c[1] = start /\ c[2] = {} /\ c[3] = U
  BY DEF LoopInv, TypeOK, Calls
<1>2. {start} \cup out \subseteq Reachable
  BY DEF LoopInv, Expanded
<1>3. ASSUME has, \A p, q \in listed : p = q PROVE resolved # None
  <2>1. PICK r \in Reachable : list[r] \in U
    BY <1>2, <1>3
  <2>2. \A q \in Behind(c[1]) : list[q] \in c[3] => list[q] = list[r]
    BY <1>1, <1>3, <2>1 DEF Reachable
  <2>3. r \in Avoiding(c[1], c[2])
    BY <1>1, <2>1 DEF Reachable, Behind, Avoiding, Closed, ClosedAvoiding
  <2>4. resolved = list[r]
    BY <1>1, <2>1, <2>2, <2>3, OnlyOneIsFound
  <2> QED
    BY <1>1, <2>1, <2>4, GraphTypes
<1>4. ASSUME ~has, resolved # None
      PROVE  \E r \in (Reachable \cap g.inherited) \ {start} : list[r] = resolved
  <2>1. PICK q \in Behind(c[1]) : list[q] \in c[3] /\ list[q] = resolved
    BY <1>1, <1>4, ResolvedIsBehind
  <2>2. q \in Reachable /\ q \notin {start} \cup out
    BY <1>1, <1>4, <2>1 DEF Reachable
  <2>3. q \in g.inherited
    BY <2>2, ConcreteRoles
  <2> QED
    BY <2>1, <2>2, <2>3
<1> QED
  BY <1>3, <1>4 DEF WalksAgree

\* plan.rs, resolve_role_perm against expand_role: on every inheritance graph
\* of finitely many roles, cyclic ones included and wherever permissions are
\* listed, a permission that is there is lost through a conflict only, and one
\* that is resolved but not counted belongs to an inherited role.
THEOREM LostThroughConflict == Spec => []HiddenOnlyByConflict
<1>1. LoopInv => HiddenOnlyByConflict
  <2> SUFFICES ASSUME LoopInv, Expanded
               PROVE  WalksAgree(InsertUsable, Usable) /\ WalksAgree(AnyRolePerm, Perms)
    BY DEF HiddenOnlyByConflict
  <2>1. Usable \in SUBSET Perms /\ InsertUsable \in BOOLEAN /\ AnyRolePerm \in BOOLEAN
    BY GraphTypes DEF LoopInv, InsertUsable, AnyRolePerm
  <2>2. WalksAgree(InsertUsable, Usable)
    BY <2>1, WalksDoAgree DEF InsertUsable
  <2>3. WalksAgree(AnyRolePerm, Perms)
    BY <2>1, WalksDoAgree DEF AnyRolePerm
  <2> QED
    BY <2>2, <2>3
<1> QED
  BY <1>1, LoopInvIsInvariant, PTL

\* Without a cycle the path does not matter: a role that is on it is never
\* met again.
LEMMA PathIsIrrelevant ==
    ASSUME TypeOK, Acyclic, NEW c \in Calls, NEW W \in SUBSET Roles,
           c[2] \cap Behind(c[1]) = {}, W \cap Behind(c[1]) = {}
    PROVE  ResolveRec[<<c[1], W, c[3]>>] = ResolveRec[c]
<1> DEFINE T == {d \in Calls : \A V \in SUBSET Roles :
                   d[2] \cap Behind(d[1]) = {} /\ V \cap Behind(d[1]) = {} =>
                      ResolveRec[<<d[1], V, d[3]>>] = ResolveRec[d]}
<1>1. ASSUME NEW d \in Calls,
             d[1] \notin d[2] => \A p \in Roles : <<p, d[2] \cup {d[1]}, d[3]>> \in T,
             NEW V \in SUBSET Roles, d[2] \cap Behind(d[1]) = {}, V \cap Behind(d[1]) = {}
      PROVE  ResolveRec[<<d[1], V, d[3]>>] = ResolveRec[d]
  <2> DEFINE r == d[1]
             e == <<r, V, d[3]>>
             On(path) == {ResolveRec[<<p, path \cup {r}, d[3]>>] : p \in g.parents[r]}
  <2>1. r \in Roles /\ d[2] \in SUBSET Roles /\ d[3] \in SUBSET Perms /\ r \notin d[2] /\ r \notin V
    BY <1>1, UnvisitedShrinks, BehindItself
  <2>2. e \in Calls
    BY <2>1 DEF Calls
  <2>3. ResolveRec[e] = Body(ResolveRec, e) /\ ResolveRec[d] = Body(ResolveRec, d)
    BY <2>2, ResolveUnfolds
  <2>4. CASE list[r] \in d[3] \/ r \notin g.inherited
    BY <2>1, <2>3, <2>4 DEF Body
  <2>5. CASE list[r] \notin d[3] /\ r \in g.inherited
    <3>1. ASSUME NEW p \in g.parents[r]
          PROVE  ResolveRec[<<p, V \cup {r}, d[3]>>] = ResolveRec[<<p, d[2] \cup {r}, d[3]>>]
      <4>1. p \in Roles /\ Behind(p) \subseteq Behind(r) /\ r \notin Behind(p)
        BY <2>1, <2>5, <3>1, BehindParents DEF Acyclic
      <4>2. <<p, d[2] \cup {r}, d[3]>> \in T
        BY <1>1, <2>1, <4>1
      <4>3. (d[2] \cup {r}) \cap Behind(p) = {} /\ (V \cup {r}) \cap Behind(p) = {}
        BY <1>1, <4>1
      <4>4. V \cup {r} \in SUBSET Roles
        BY <2>1
      <4> QED
        BY <4>2, <4>3, <4>4
    <3>2. On(V) = On(d[2])
      BY <3>1
    <3>3. ResolveRec[e] = Combine(On(V) \ {None}) /\ ResolveRec[d] = Combine(On(d[2]) \ {None})
      BY <2>1, <2>3, <2>5 DEF Body
    <3> QED
      BY <3>2, <3>3
  <2> QED
    BY <2>4, <2>5
<1>2. T = Calls
  <2>1. T \in SUBSET Calls
    OBVIOUS
  <2>2. \A d \in Calls :
           (d[1] \notin d[2] => \A p \in Roles : <<p, d[2] \cup {d[1]}, d[3]>> \in T) => d \in T
    BY <1>1
  <2> HIDE DEF T
  <2> QED
    BY <2>1, <2>2, CallInduction
<1> QED
  BY <1>2

\* What the parents of a role resolve to, each by itself.
Inherited(r, usable) == {ResolveRec[<<p, {}, usable>>] : p \in g.parents[r]} \ {None}

LEMMA ResolvesPerLevel ==
    ASSUME TypeOK, Acyclic, NEW r \in Roles, NEW usable \in SUBSET Perms
    PROVE  ResolveRec[<<r, {}, usable>>] =
              IF list[r] \in usable THEN list[r]
              ELSE IF r \notin g.inherited THEN None ELSE Combine(Inherited(r, usable))
<1> DEFINE c == <<r, {}, usable>>
<1>1. c \in Calls
  BY DEF Calls
<1>2. ResolveRec[c] = Body(ResolveRec, c)
  BY <1>1, ResolveUnfolds
<1>3. CASE list[r] \in usable \/ r \notin g.inherited
  BY <1>2, <1>3 DEF Body
<1>4. CASE list[r] \notin usable /\ r \in g.inherited
  <2>1. ASSUME NEW p \in g.parents[r]
        PROVE  ResolveRec[<<p, {} \cup {r}, usable>>] = ResolveRec[<<p, {}, usable>>]
    <3>1. p \in Roles /\ r \notin Behind(p)
      BY <1>4, BehindParents DEF Acyclic
    <3>2. <<p, {}, usable>> \in Calls /\ {} \cup {r} \in SUBSET Roles
      BY <3>1 DEF Calls
    <3>3. {} \cap Behind(p) = {} /\ ({} \cup {r}) \cap Behind(p) = {}
      BY <3>1
    <3> DEFINE d == <<p, {}, usable>>
    <3>4. d \in Calls /\ d[1] = p /\ d[2] = {} /\ d[3] = usable
      BY <3>2
    <3> HIDE DEF d
    <3>5. ResolveRec[<<d[1], {} \cup {r}, d[3]>>] = ResolveRec[d]
      BY <3>2, <3>3, <3>4, PathIsIrrelevant
    <3> QED
      BY <3>4, <3>5 DEF d
  <2>2. {ResolveRec[<<p, {} \cup {r}, usable>>] : p \in g.parents[r]} \ {None} = Inherited(r, usable)
    BY <2>1 DEF Inherited
  <2>3. ResolveRec[c] = Combine({ResolveRec[<<p, {} \cup {r}, usable>>] : p \in g.parents[r]} \ {None})
    BY <1>2, <1>4 DEF Body
  <2> QED
    BY <1>4, <2>2, <2>3
<1> QED
  BY <1>3, <1>4

LEMMA InheritedIsFinite ==
    ASSUME TypeOK, NEW r \in Roles, NEW usable
    PROVE  IsFiniteSet(Inherited(r, usable)) /\ None \notin Inherited(r, usable)
<1> DEFINE ps == g.parents[r]
           f == [p \in ps |-> ResolveRec[<<p, {}, usable>>]]
           image == {ResolveRec[<<p, {}, usable>>] : p \in ps}
<1>1. IsFiniteSet(ps)
  BY FiniteRoles, GraphTypes, FS_Subset
<1>2. f \in Surjection(ps, image)
  BY DEF Surjection
<1>3. IsFiniteSet(image)
  BY <1>1, <1>2, FS_Surjection
<1>4. IsFiniteSet(image \ {None})
  BY <1>3, FS_RemoveElement
<1> QED
  BY <1>4 DEF Inherited

\* plan.rs, resolve_role_perm: without a cycle of inherited roles a direct
\* permission wins, and otherwise the permissions that the parents resolve
\* to by themselves are inherited when there are any and all are the same.
THEOREM ResolutionIsPerLevel == Spec => []PerLevel
<1>1. LoopInv => PerLevel
  <2> SUFFICES ASSUME LoopInv, Acyclic PROVE PerLevel
    BY DEF PerLevel
  <2> DEFINE R == ResolveRolePerm(start)
             P == {ResolveRolePerm(p) : p \in g.parents[start]} \ {None}
  <2>1. TypeOK /\ start \in Roles /\ Usable \in SUBSET Perms
    BY GraphTypes DEF LoopInv, TypeOK
  <2>2. P = Inherited(start, Usable)
    BY DEF Inherited, ResolveRolePerm
  <2>3. R = IF list[start] \in Usable THEN list[start]
            ELSE IF start \notin g.inherited THEN None ELSE Combine(P)
    BY <2>1, <2>2, ResolvesPerLevel DEF ResolveRolePerm
  <2>4. IsFiniteSet(P) /\ None \notin P
    BY <2>1, <2>2, InheritedIsFinite
  <2> HIDE DEF P
  <2>5. Cardinality(P) = 1 => Combine(P) \in P
    BY <2>4, FS_Singleton, CombineFinds
  <2>6. Cardinality(P) # 1 => Combine(P) = None
    BY <2>4, FS_Singleton, CombineFinds
  <2> HIDE DEF R
  <2>7. (CASE list[start] \in Usable -> R = list[start]
           [] list[start] \notin Usable /\ start \in g.inherited ->
                IF Cardinality(P) = 1 THEN R \in P ELSE R = None
           [] list[start] \notin Usable /\ start \notin g.inherited -> R = None)
    BY <2>3, <2>5, <2>6
  <2> QED
    BY <2>7 DEF PerLevel, P, R
<1> QED
  BY <1>1, LoopInvIsInvariant, PTL

\* plan.rs, conflicts_in: without a cycle, validate reports a role exactly
\* when a parent has a permission and the role, for that reason, has none.
THEOREM ConflictsAreReported == Spec => []ConflictReported
<1>1. LoopInv => ConflictReported
  <2> SUFFICES ASSUME LoopInv, Acyclic, backend,
                      list[start] = None, start \in g.inherited
               PROVE  Cardinality({ResolveRec[<<p, {}, Perms>>] : p \in g.parents[start]} \ {None}) > 1
                      <=> /\ \E p \in g.parents[start] : ResolveRolePerm(p) # None
                          /\ ResolveRolePerm(start) = None
    BY DEF ConflictReported, ConflictsIn
  <2> DEFINE P == Inherited(start, Perms)
  <2>1. TypeOK /\ start \in Roles /\ Usable = Perms
    BY DEF LoopInv, TypeOK, Usable
  <2>2. ResolveRolePerm(start) = Combine(P)
    BY <2>1, GraphTypes, ResolvesPerLevel DEF ResolveRolePerm
  <2>3. IsFiniteSet(P) /\ None \notin P /\ Cardinality(P) \in Nat
    BY <2>1, InheritedIsFinite, FS_CardinalityType
  <2>4. (\E p \in g.parents[start] : ResolveRolePerm(p) # None) <=> P # {}
    BY <2>1 DEF Inherited, ResolveRolePerm
  <2>5. {ResolveRec[<<p, {}, Perms>>] : p \in g.parents[start]} \ {None} = P
    BY DEF Inherited
  <2> HIDE DEF P
  <2>6. Cardinality(P) = 0 <=> P = {}
    BY <2>3, FS_EmptySet
  <2>7. Cardinality(P) = 1 <=> Combine(P) # None \/ \E p \in P : P = {p}
    BY <2>3, FS_Singleton, CombineFinds
  <2>8. (\E p \in P : P = {p}) => Combine(P) # None
    BY <2>3, CombineFinds
  <2>9. Cardinality(P) > 1 <=> P # {} /\ Combine(P) = None
    BY <2>3, <2>6, <2>7, <2>8
  <2> QED
    BY <2>2, <2>4, <2>5, <2>9, Zenon
<1> QED
  BY <1>1, LoopInvIsInvariant, PTL
=============================================================================
