----------------------------- MODULE RowFilters ------------------------------
(***************************************************************************)
(* How the permissions of several parents become one row filter, one cell  *)
(* guard and one limit (crates/schema/src/plan.rs, combined_filter, the    *)
(* guards of columns and select_perm_limit), and SQL's three-valued logic, *)
(* by which the database decides what passes.                              *)
(*                                                                         *)
(* A parent's filter is an opaque value, <<>> when it is empty; what the   *)
(* filters parse to is given, and Err stands for every PlanError.          *)
(***************************************************************************)
EXTENDS Integers, Sequences, FiniteSetsExt, Functions

CONSTANTS Null,  \* SQL's NULL
          None,  \* Option::None
          Err    \* a PlanError

ASSUME FilterAssumption == Null \notin BOOLEAN /\ None # Err

----------------------------------------------------------------------------
(* Three-valued logic (external).                                           *)

Neg(v) == IF v = Null THEN Null ELSE ~v

Conj(S) == CASE FALSE \in S -> FALSE
             [] FALSE \notin S /\ Null \in S -> Null
             [] OTHER -> TRUE

Disj(S) == Neg(Conj({Neg(v) : v \in S}))

----------------------------------------------------------------------------
AnyErr(xs) == \E i \in DOMAIN xs : xs[i] = Err

\* collect::<Result<Vec<_>, _>>()
Collect(xs) == IF AnyErr(xs) THEN Err ELSE xs

\* The filters that are looked at: up to the first that is empty, which lets
\* every row pass.
Open(filters) == {i \in DOMAIN filters : filters[i] = <<>>}

UpToOpen(filters) ==
    IF Open(filters) = {} THEN filters ELSE SubSeq(filters, 1, Min(Open(filters)) - 1)

Or(ps) == [k |-> "Or", es |-> ps]

\* The OR of the filters; none when one of the roles is unrestricted, unless
\* the filter of an earlier one does not parse.
AnyFilter(ps, unrestricted) ==
    IF ps = Err THEN Err
    ELSE IF unrestricted THEN None
    ELSE IF Len(ps) = 1 THEN ps[1] ELSE Or(ps)

CombineFilters(filters, parsed) ==
    AnyFilter(Collect(parsed), filters = <<>> \/ Open(filters) # {})

\* A cell is guarded when only some of several parents grant it.
NeedsGuard(by, granting) == Len(by) > 1 /\ Len(granting) < Len(by)

\* What filter() over a list keeps: granting lists the members of by that are
\* in grants, each place once.
Selects(granting, by, grants) ==
    \E pos \in Injection(DOMAIN granting, DOMAIN by) :
        /\ \A i \in DOMAIN granting : granting[i] = by[pos[i]] /\ by[pos[i]] \in grants
        /\ \A j \in DOMAIN by : by[j] \in grants => \E i \in DOMAIN granting : pos[i] = j

\* Mutant: the smallest of the parents' limits.
SmallestLimit(limits) == IF limits \ {None} = {} THEN None ELSE Min(limits \ {None})

\* The largest of the parents' limits, none as soon as one has none.
LargestLimit(limits) == IF limits = {} \/ None \in limits THEN None ELSE Max(limits)
==============================================================================
