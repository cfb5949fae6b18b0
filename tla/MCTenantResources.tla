-------------------------- MODULE MCTenantResources --------------------------
(* TenantResources for TLC: alpha makes every kind of call, beta those that   *)
(* meet alpha's in the shared range and the DHCP server's table.              *)
EXTENDS TenantResources

CONSTANTS alpha, beta, cam, web, m1, m2, m3

MCTenants == {alpha, beta}
MCNames == {cam, web}
MCMACs == {m1, m2, m3}

\* A host of the substrate's own, below the range.
MCForeign == {[slot |-> <<None, None>>, mac |-> m3, at |-> 0]}

Call(op, t, n) == [op |-> op, slot |-> <<t, n>>, mac |-> None, at |-> 0, to |-> Nowhere]
Register(t, n, m) == [Call("createDevice", t, n) EXCEPT !.mac = m]
Ask(t, n, a) == [Call("createAddress", t, n) EXCEPT !.at = a]
Point(t, n, x) == [Call("putRecord", t, n) EXCEPT !.to = x]

MCCalls ==
    {Register(alpha, cam, m1), Register(alpha, cam, m2),
     Ask(alpha, cam, 1), Call("deleteAddress", alpha, cam), Call("deleteDevice", alpha, cam),
     Call("reconcile", alpha, cam),
     Point(alpha, web, Net(1)), Point(alpha, cam, Own(0)), Call("deleteRecord", alpha, web),
     Call("createWorkload", alpha, cam), Call("deleteWorkload", alpha, cam),
     Register(beta, cam, m2), Register(beta, cam, None), Register(beta, web, m3),
     Ask(beta, cam, 0), Ask(beta, web, 0), Call("deleteAddress", beta, cam)}
=============================================================================
