--------------------------- MODULE MCLeaseExpiry ---------------------------
(* An instance of LeaseExpiry for TLC: one TTL that is raised to the        *)
(* minimum, one that is granted, one that is refused.                       *)
EXTENDS LeaseExpiry

MCTtls == {0, 2, 3}
=============================================================================
