--------------------------- MODULE MCUserManager ---------------------------
(***************************************************************************)
(* UserManager for TLC.                                                    *)
(***************************************************************************)
EXTENDS UserManager, TLC

CONSTANTS c1, c2, c3, s1, s2

\* Calls, and replicas, are interchangeable.
ManagerSymmetry == Permutations({c1, c2, c3}) \cup Permutations({s1, s2})
=============================================================================
