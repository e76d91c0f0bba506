------------------------------- MODULE MCRoles -------------------------------
(* Constant values for model-checking Roles.                                *)
EXTENDS Roles, Integers

CONSTANTS PermA, PermB

Concrete(h) == \A r \in Roles \ h.inherited : h.parents[r] = {}

\* Every graph in which a role inherits only from lower roles: chains,
\* diamonds and conflicts one level below the role that is looked at.
AcyclicGraphs ==
    {h \in [inherited : SUBSET Roles, parents : {f \in [Roles -> SUBSET Roles] :
                \A r \in Roles : \A p \in f[r] : p < r}] : Concrete(h)}

\* Every graph of two inherited roles, which may inherit from themselves,
\* from each other and from the concrete roles.
CyclicGraphs ==
    {[inherited |-> {1, 2}, parents |-> [r \in Roles |-> CASE r = 1 -> S [] r = 2 -> T [] r > 2 -> {}]] :
        S \in SUBSET Roles, T \in SUBSET Roles}

SmallGraphs == AcyclicGraphs \cup CyclicGraphs

AllLists == [Roles -> Perms \cup {None}]
==============================================================================
