--------------------------- MODULE MCTenantSecrets ---------------------------
(* TenantSecrets for TLC.                                                    *)
EXTENDS TenantSecrets
=============================================================================
