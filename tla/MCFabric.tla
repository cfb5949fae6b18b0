------------------------------ MODULE MCFabric ------------------------------
(* Fabric for TLC: two tenants, whose names share their first six characters *)
(* or do not.                                                                 *)
EXTENDS Fabric

CONSTANTS alpha, beta, Prefixes

MCTenants == {alpha, beta}

MCVNetOf == [t \in MCTenants |-> IF Prefixes = "distinct" /\ t = beta THEN "beta0" ELSE "alpha0"]
=============================================================================
