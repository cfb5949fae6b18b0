---------------------------- MODULE MCAdmission ----------------------------
(* Admission for TLC: two names share the profile.                           *)
EXTENDS Admission

CONSTANTS alpha, beta

MCNames == {alpha, beta}
MCEstablished == {beta}

By(c, op, n) == [by |-> c, op |-> op, name |-> n]

MCCalls ==
    {By(Operator, op, alpha) : op \in {"admit", "revoke", "create", "delete"}}
      \cup {By(alpha, op, alpha) : op \in {"create", "createKey", "deleteKey"}}
      \cup {By(alpha, "create", beta), By(beta, "deleteKey", beta)}
=============================================================================
