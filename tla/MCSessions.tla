----------------------------- MODULE MCSessions -----------------------------
(* Instance of Sessions for TLC. *)
EXTENDS Sessions, TLC

CONSTANTS u1, u2, s1, s2, s3, l1, q1, q2

MCRoles == {"admin", "analyst"}

Symmetric == Permutations({q1, q2})

=============================================================================
