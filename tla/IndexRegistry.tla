---------------------------- MODULE IndexRegistry ----------------------------
(***************************************************************************)
(* What the registry promises about indexes, with everything else left out: *)
(* a tenant holds one index or none, nobody else holds it meanwhile, it     *)
(* does not change while it is held, and it is given up only with the row.  *)
(***************************************************************************)
EXTENDS Integers

CONSTANTS Tenants, Indexes

VARIABLE holds    \* holds[t]: the index of t, 0 for none

Init == holds = [t \in Tenants |-> 0]

Allocate(t, i) ==
    /\ holds[t] = 0
    /\ \A u \in Tenants : holds[u] # i
    /\ holds' = [holds EXCEPT ![t] = i]

Release(t) ==
    /\ holds[t] # 0
    /\ holds' = [holds EXCEPT ![t] = 0]

\* The registry is lost.
Wipe == holds' = [t \in Tenants |-> 0]

Next ==
    \/ \E t \in Tenants, i \in Indexes : Allocate(t, i)
    \/ \E t \in Tenants : Release(t)
    \/ Wipe

Spec == Init /\ [][Next]_holds
=============================================================================
