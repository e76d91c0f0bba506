-------------------------- MODULE RowFiltersProofs ---------------------------
(***************************************************************************)
(* Proofs about RowFilters: for any number of parents and any filters, the *)
(* rows that pass the combined filter are those that some parent sees, a   *)
(* guarded cell is shown where a parent that grants it sees the row, and   *)
(* the limit is the most generous of the parents' limits.                  *)
(***************************************************************************)
EXTENDS RowFilters, TLAPS, FiniteSetTheorems, WellFoundedInduction

Truth == {TRUE, FALSE, Null}

\* Exprs are parsed conditions and truth is what bool_exp makes of them at
\* one row: an Or is true as SQL has it.
Evaluates(Exprs, truth) ==
    /\ None \notin Exprs /\ Err \notin Exprs /\ Err \notin Seq(Exprs)
    /\ truth \in [Exprs -> Truth]
    /\ \A ps \in Seq(Exprs) :
          Or(ps) \in Exprs /\ truth[Or(ps)] = Disj({truth[ps[i]] : i \in DOMAIN ps})

\* A condition lets the row pass.
Admits(truth, p) == p = None \/ truth[p] = TRUE

\* combined_filter of filters, given what each parses to.
Combined(filters, parse) ==
    CombineFilters(filters, [i \in DOMAIN UpToOpen(filters) |-> parse[UpToOpen(filters)[i]]])

\* What one parent's filter says of the row.
Sees(truth, parse, filter) == filter = <<>> \/ truth[parse[filter]] = TRUE

----------------------------------------------------------------------------
LEMMA NegType == ASSUME NEW v \in Truth PROVE Neg(v) \in Truth
BY Zenon DEF Truth, Neg

LEMMA NegFalse == ASSUME NEW v \in Truth PROVE Neg(v) = FALSE <=> v = TRUE
BY FilterAssumption DEF Truth, Neg

LEMMA NegTrue == ASSUME NEW v \in Truth PROVE Neg(v) = TRUE <=> v = FALSE
BY FilterAssumption DEF Truth, Neg

LEMMA ConjFalse ==
    ASSUME NEW S \in SUBSET Truth
    PROVE  Conj(S) \in Truth /\ (Conj(S) = FALSE <=> FALSE \in S)
BY FilterAssumption DEF Truth, Conj

\* OR is true when one of its parts is, whatever is unknown.
LEMMA DisjTrue ==
    ASSUME NEW S \in SUBSET Truth
    PROVE  Disj(S) = TRUE <=> TRUE \in S
<1> DEFINE N == {Neg(v) : v \in S}
<1>1. N \in SUBSET Truth
  BY NegType
<1>2. FALSE \in N <=> TRUE \in S
  BY NegFalse DEF Truth
<1> HIDE DEF N
<1>3. Neg(Conj(N)) = TRUE <=> FALSE \in N
  BY <1>1, ConjFalse, NegTrue
<1> QED
  BY <1>2, <1>3 DEF Disj, N

\* A filter is looked at when no earlier one is empty.
LEMMA WhatIsLookedAt ==
    ASSUME NEW F, NEW filters \in Seq(F)
    PROVE  /\ UpToOpen(filters) \in Seq(F)
           /\ DOMAIN UpToOpen(filters) = {i \in DOMAIN filters : \A j \in 1..i : filters[j] # <<>>}
           /\ \A i \in DOMAIN UpToOpen(filters) : UpToOpen(filters)[i] = filters[i]
<1>0. DOMAIN filters = 1..Len(filters) /\ Len(filters) \in Nat
  OBVIOUS
<1>1. CASE Open(filters) = {}
  BY <1>0, <1>1 DEF Open, UpToOpen
<1>2. CASE Open(filters) # {}
  <2> DEFINE m == Min(Open(filters))
  <2>1. m \in Open(filters) /\ \A i \in Open(filters) : m <= i
    <3>1. Open(filters) \in SUBSET Nat
      BY <1>0 DEF Open
    <3>2. PICK n \in Open(filters) : \A i \in Open(filters) : ~(<<i, n>> \in OpToRel(<, Nat))
      BY <1>2, <3>1, NatLessThanWellFounded, WFMin
    <3>3. \A i \in Open(filters) : ~(i < n)
      BY <3>1, <3>2 DEF OpToRel
    <3>4. \A i \in Open(filters) : n <= i
      BY <3>1, <3>3
    <3> QED
      BY <3>4 DEF Min
  <2>2. m \in DOMAIN filters /\ filters[m] = <<>>
    BY <2>1 DEF Open
  <2>3. \A i \in DOMAIN filters : filters[i] = <<>> => m <= i
    BY <2>1 DEF Open
  <2> HIDE DEF m
  <2>4. UpToOpen(filters) = SubSeq(filters, 1, m - 1)
    BY <1>2 DEF UpToOpen, m
  <2>5. /\ UpToOpen(filters) \in Seq(F)
        /\ DOMAIN UpToOpen(filters) = 1..(m - 1)
        /\ \A i \in 1..(m - 1) : UpToOpen(filters)[i] = filters[i]
    BY <1>0, <2>2, <2>4
  <2>6. 1..(m - 1) = {i \in DOMAIN filters : \A j \in 1..i : filters[j] # <<>>}
    BY <1>0, <2>2, <2>3
  <2> QED
    BY <2>5, <2>6
<1> QED
  BY <1>1, <1>2

\* plan.rs, combined_filter: the filter of several parents is refused exactly
\* when a filter before the first empty one does not parse; otherwise a row
\* passes it exactly when it passes the filter of at least one parent, also
\* where comparisons with NULL leave the other filters unknown.
THEOREM FilterIsTheUnion ==
    ASSUME NEW F, NEW filters \in Seq(F), filters # <<>>,
           NEW Exprs, NEW parse \in [F -> Exprs \cup {Err}],
           NEW truth, Evaluates(Exprs, truth)
    PROVE  /\ Combined(filters, parse) = Err <=>
                 \E i \in DOMAIN filters : /\ parse[filters[i]] = Err
                                           /\ \A j \in 1..i : filters[j] # <<>>
           /\ Combined(filters, parse) # Err =>
                 (Admits(truth, Combined(filters, parse)) <=>
                     \E i \in DOMAIN filters : Sees(truth, parse, filters[i]))
<1> DEFINE u == UpToOpen(filters)
           ps == [i \in DOMAIN u |-> parse[u[i]]]
<1>0. DOMAIN filters = 1..Len(filters) /\ Len(filters) \in Nat /\ Len(filters) > 0
  OBVIOUS
<1>1. /\ u \in Seq(F)
      /\ DOMAIN u = {i \in DOMAIN filters : \A j \in 1..i : filters[j] # <<>>}
      /\ \A i \in DOMAIN u : u[i] = filters[i]
  BY WhatIsLookedAt
<1> HIDE DEF u
<1>2. ps \in Seq(Exprs \cup {Err}) /\ DOMAIN ps = DOMAIN u /\ Len(ps) = Len(u)
  <2>0. u \in Seq(F)
    BY <1>1
  <2>1. DOMAIN u = 1..Len(u) /\ Len(u) \in Nat /\ \A i \in 1..Len(u) : u[i] \in F
    BY <2>0
  <2>2. ps = [i \in 1..Len(u) |-> parse[u[i]]]
    BY <2>1
  <2>3. \A i \in 1..Len(u) : parse[u[i]] \in Exprs \cup {Err}
    BY <2>1
  <2> HIDE DEF ps
  <2> QED
    BY <2>1, <2>2, <2>3
<1>3. \A i \in DOMAIN u : ps[i] = parse[filters[i]]
  BY <1>1
<1>4. None \notin Exprs /\ Err \notin Exprs /\ Err \notin Seq(Exprs) /\ None # Err
  BY FilterAssumption DEF Evaluates
<1> HIDE DEF ps
<1>5. Combined(filters, parse) = AnyFilter(Collect(ps), Open(filters) # {})
  BY DEF Combined, CombineFilters, ps, u
<1>6. AnyErr(ps) <=> \E i \in DOMAIN filters : /\ parse[filters[i]] = Err
                                               /\ \A j \in 1..i : filters[j] # <<>>
  BY <1>1, <1>2, <1>3 DEF AnyErr
<1>7. CASE AnyErr(ps)
  <2>1. Combined(filters, parse) = Err
    BY <1>5, <1>7 DEF AnyFilter, Collect
  <2> QED
    BY <1>6, <1>7, <2>1
<1>8. ASSUME ~AnyErr(ps) PROVE ps \in Seq(Exprs) /\ Collect(ps) = ps /\ ps # Err
  <2>1. DOMAIN ps = 1..Len(ps) /\ Len(ps) \in Nat
    BY <1>2
  <2>2. \A i \in 1..Len(ps) : ps[i] \in Exprs
    BY <1>2, <1>8, <2>1 DEF AnyErr
  <2>3. ps \in Seq(Exprs)
    BY <1>2, <2>1, <2>2
  <2> QED
    BY <1>4, <1>8, <2>3 DEF Collect
<1>9. CASE ~AnyErr(ps) /\ Open(filters) # {}
  <2>1. Combined(filters, parse) = None
    BY <1>5, <1>8, <1>9 DEF AnyFilter
  <2>2. \E i \in DOMAIN filters : filters[i] = <<>>
    BY <1>9 DEF Open
  <2> QED
    BY <1>4, <1>6, <1>9, <2>1, <2>2 DEF Admits, Sees
<1>10. CASE ~AnyErr(ps) /\ Open(filters) = {}
  <2>1. Combined(filters, parse) = IF Len(ps) = 1 THEN ps[1] ELSE Or(ps)
    BY <1>5, <1>8, <1>10 DEF AnyFilter
  <2>2. DOMAIN ps = DOMAIN filters
    BY <1>1, <1>2, <1>10 DEF Open
  <2>3. \A i \in DOMAIN filters : Sees(truth, parse, filters[i]) <=> truth[ps[i]] = TRUE
    BY <1>2, <1>3, <1>10, <2>2 DEF Sees, Open
  <2>4. \A i \in DOMAIN ps : ps[i] \in Exprs /\ truth[ps[i]] \in Truth
    BY <1>8, <1>10 DEF Evaluates
  <2>5. CASE Len(ps) = 1
    <3>1. Combined(filters, parse) = ps[1] /\ ps[1] \in Exprs
      BY <1>8, <1>10, <2>1, <2>4, <2>5
    <3>2. DOMAIN filters = {1}
      BY <1>8, <1>10, <2>2, <2>5
    <3> QED
      BY <1>4, <1>6, <1>10, <2>3, <3>1, <3>2 DEF Admits
  <2>6. CASE Len(ps) # 1
    <3>1. Combined(filters, parse) = Or(ps)
      BY <2>1, <2>6
    <3>2. Or(ps) \in Exprs /\ truth[Or(ps)] = Disj({truth[ps[i]] : i \in DOMAIN ps})
      BY <1>8, <1>10 DEF Evaluates
    <3>3. truth[Or(ps)] = TRUE <=> TRUE \in {truth[ps[i]] : i \in DOMAIN ps}
      <4> DEFINE S == {truth[ps[i]] : i \in DOMAIN ps}
      <4>1. S \in SUBSET Truth
        BY <2>4
      <4> HIDE DEF S
      <4>2. Disj(S) = TRUE <=> TRUE \in S
        BY <4>1, DisjTrue
      <4> QED
        BY <3>2, <4>2 DEF S
    <3>4. (\E i \in DOMAIN filters : Sees(truth, parse, filters[i])) <=> truth[Or(ps)] = TRUE
      BY <2>2, <2>3, <3>3
    <3> QED
      BY <1>4, <1>6, <1>10, <3>1, <3>2, <3>4 DEF Admits
  <2> QED
    BY <2>5, <2>6
<1> QED
  BY <1>7, <1>9, <1>10

----------------------------------------------------------------------------
\* A selection that is as long as the list leaves nothing out.
LEMMA NothingLeftOut ==
    ASSUME NEW R, NEW by \in Seq(R), NEW granting \in Seq(R), NEW grants,
           Selects(granting, by, grants), ~(Len(granting) < Len(by))
    PROVE  \A j \in DOMAIN by : by[j] \in grants
<1>1. PICK pos \in Injection(DOMAIN granting, DOMAIN by) :
         \A i \in DOMAIN granting : granting[i] = by[pos[i]] /\ by[pos[i]] \in grants
  BY DEF Selects
<1>2. /\ DOMAIN granting = 1..Len(granting) /\ Len(granting) \in Nat
      /\ DOMAIN by = 1..Len(by) /\ Len(by) \in Nat
  OBVIOUS
<1>3. /\ IsFiniteSet(DOMAIN by)
      /\ Cardinality(DOMAIN granting) = Len(granting) /\ Cardinality(DOMAIN by) = Len(by)
  <2>1. ASSUME NEW n \in Nat PROVE IsFiniteSet(1..n) /\ Cardinality(1..n) = n
    BY FS_Interval
  <2> QED
    BY <1>2, <2>1
<1>4. /\ Cardinality(DOMAIN granting) <= Cardinality(DOMAIN by)
      /\ Cardinality(DOMAIN granting) = Cardinality(DOMAIN by)
            <=> pos \in Surjection(DOMAIN granting, DOMAIN by)
  BY <1>1, <1>3, FS_Injection
<1>5. pos \in Surjection(DOMAIN granting, DOMAIN by)
  BY <1>2, <1>3, <1>4
<1> QED
  BY <1>1, <1>5 DEF Surjection

\* plan.rs, the guard of a column, a computed field or an aggregated column:
\* on a row that some parent sees, the cell is shown exactly when a parent
\* that grants the cell sees the row.  That a cell needs no guard when all
\* parents grant it, or when there is only one parent, is part of it.
THEOREM GuardShowsTheGranted ==
    ASSUME NEW R, NEW by \in Seq(R), NEW granting \in Seq(R), NEW grants,
           Selects(granting, by, grants), granting # <<>>,
           NEW F, NEW filter \in [R -> F],
           NEW Exprs, NEW parse \in [F -> Exprs \cup {Err}],
           NEW truth, Evaluates(Exprs, truth),
           NEW guard,
           guard = IF NeedsGuard(by, granting)
                   THEN Combined([i \in DOMAIN granting |-> filter[granting[i]]], parse)
                   ELSE None,
           guard # Err,
           \E j \in DOMAIN by : Sees(truth, parse, filter[by[j]])
    PROVE  Admits(truth, guard) <=>
               \E j \in DOMAIN by : by[j] \in grants /\ Sees(truth, parse, filter[by[j]])
<1>0. PICK pos \in Injection(DOMAIN granting, DOMAIN by) :
         /\ \A i \in DOMAIN granting : granting[i] = by[pos[i]] /\ by[pos[i]] \in grants
         /\ \A j \in DOMAIN by : by[j] \in grants => \E i \in DOMAIN granting : pos[i] = j
  BY DEF Selects
<1>1. pos \in [DOMAIN granting -> DOMAIN by]
  BY DEF Injection
<1>2. /\ DOMAIN granting = 1..Len(granting) /\ Len(granting) \in Nat /\ Len(granting) > 0
      /\ DOMAIN by = 1..Len(by) /\ Len(by) \in Nat
  OBVIOUS
<1>3. (\E i \in DOMAIN granting : Sees(truth, parse, filter[granting[i]])) <=>
      \E j \in DOMAIN by : by[j] \in grants /\ Sees(truth, parse, filter[by[j]])
  BY <1>0, <1>1
<1>4. CASE NeedsGuard(by, granting)
  <2> DEFINE fs == [i \in DOMAIN granting |-> filter[granting[i]]]
  <2>1. \A i \in 1..Len(granting) : filter[granting[i]] \in F
    BY <1>2
  <2>2. fs \in Seq(F) /\ fs # <<>> /\ DOMAIN fs = DOMAIN granting
    BY <1>2, <2>1
  <2>3. \A i \in DOMAIN granting : fs[i] = filter[granting[i]]
    OBVIOUS
  <2>4. guard = Combined(fs, parse)
    BY <1>4
  <2> HIDE DEF fs
  <2>5. Admits(truth, guard) <=> \E i \in DOMAIN fs : Sees(truth, parse, fs[i])
    BY <2>2, <2>4, FilterIsTheUnion
  <2> QED
    BY <1>3, <2>2, <2>3, <2>5
<1>5. CASE ~NeedsGuard(by, granting)
  <2>1. Admits(truth, guard)
    BY <1>5 DEF Admits
  <2>2. \A j \in DOMAIN by : by[j] \in grants
    <3>1. CASE ~(Len(granting) < Len(by))
      BY <3>1, NothingLeftOut
    <3>2. CASE ~(Len(by) > 1)
      <4>0. 1 \in DOMAIN granting
        BY <1>2
      <4>1. pos[1] \in 1..Len(by) /\ by[pos[1]] \in grants
        BY <1>0, <1>1, <1>2, <4>0
      <4>2. \A j \in 1..Len(by) : j = pos[1]
        BY <1>2, <3>2, <4>1
      <4> QED
        BY <1>2, <4>1, <4>2
    <3> QED
      BY <1>5, <3>1, <3>2 DEF NeedsGuard
  <2> QED
    BY <2>1, <2>2
<1> QED
  BY <1>4, <1>5

----------------------------------------------------------------------------
\* A finite set of numbers has a largest one: one with the fewest above it.
LEMMA LargestOf ==
    ASSUME NEW S \in SUBSET Nat, IsFiniteSet(S), S # {}
    PROVE  \E n \in S : \A m \in S : m <= n
<1> DEFINE Above(n) == {m \in S : m > n}
           Sizes == {Cardinality(Above(n)) : n \in S}
<1>1. \A n \in S : IsFiniteSet(Above(n)) /\ Cardinality(Above(n)) \in Nat
  BY FS_Subset, FS_CardinalityType
<1>2. Sizes \in SUBSET Nat /\ Sizes # {}
  BY <1>1
<1>3. PICK c \in Sizes : \A d \in Sizes : ~(<<d, c>> \in OpToRel(<, Nat))
  BY <1>2, NatLessThanWellFounded, WFMin
<1>4. \A d \in Sizes : ~(d < c)
  BY <1>2, <1>3 DEF OpToRel
<1>5. PICK n \in S : Cardinality(Above(n)) = c
  BY <1>3
<1>6. ASSUME NEW m \in S, m > n PROVE FALSE
  <2>1. Above(m) \in SUBSET Above(n) /\ m \in Above(n) /\ m \notin Above(m)
    <3>1. n \in Nat /\ m \in Nat /\ \A k \in S : k \in Nat
      BY <1>5, <1>6
    <3>2. \A k \in S : k > m => k > n
      BY <1>6, <3>1
    <3>3. ~(m > m)
      BY <3>1
    <3>4. m \notin Above(m)
      BY <3>3
    <3>5. m \in Above(n)
      BY <1>6
    <3>6. Above(m) \in SUBSET Above(n)
      BY <3>2
    <3> QED
      BY <3>4, <3>5, <3>6
  <2>2. IsFiniteSet(Above(n)) /\ Cardinality(Above(n)) \in Nat /\ Cardinality(Above(m)) \in Nat
    BY <1>1
  <2>3. ~(Cardinality(Above(m)) < Cardinality(Above(n)))
    BY <1>4, <1>5
  <2> HIDE DEF Above
  <2>4. /\ Cardinality(Above(m)) <= Cardinality(Above(n))
        /\ Cardinality(Above(n)) = Cardinality(Above(m)) => Above(n) = Above(m)
    BY <2>1, <2>2, FS_Subset
  <2> QED
    BY <2>1, <2>2, <2>3, <2>4
<1> QED
  BY <1>6

\* plan.rs, select_perm_limit: several parents cap the rows at the most
\* generous of their limits, and not at all if one of them has none.
THEOREM LimitIsTheMostGenerous ==
    ASSUME NEW limits \in SUBSET (Nat \cup {None}), IsFiniteSet(limits), limits # {}, None \notin Nat
    PROVE  /\ LargestLimit(limits) = None <=> None \in limits
           /\ None \notin limits => /\ LargestLimit(limits) \in limits
                                    /\ \A n \in limits : n <= LargestLimit(limits)
<1>1. CASE None \in limits
  BY <1>1 DEF LargestLimit
<1>2. CASE None \notin limits
  <2>1. limits \in SUBSET Nat /\ LargestLimit(limits) = Max(limits)
    BY <1>2 DEF LargestLimit
  <2>2. \E n \in limits : \A m \in limits : m <= n
    BY <2>1, LargestOf
  <2>3. \E n \in limits : \A m \in limits : n >= m
    BY <2>1, <2>2
  <2>4. Max(limits) \in limits /\ \A m \in limits : Max(limits) >= m
    BY <2>3 DEF Max
  <2> QED
    BY <1>2, <2>1, <2>4
<1> QED
  BY <1>1, <1>2
==============================================================================
