-------------------------- MODULE MCTenantLifecycle --------------------------
(* TenantLifecycle for TLC: tenants and request slots are interchangeable.   *)
EXTENDS TenantLifecycle, TLC

CONSTANTS ForeignVNIs, foreign

MCForeignZones == {[zone |-> foreign, vni |-> v] : v \in ForeignVNIs}

Symmetry == Permutations(Tenants) \cup Permutations(Requests)
=============================================================================
