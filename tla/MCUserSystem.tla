---------------------------- MODULE MCUserSystem ----------------------------
(***************************************************************************)
(* UserSystem for TLC.                                                     *)
(***************************************************************************)
EXTENDS UserSystem, TLC

CONSTANTS c1, c2, c3, s1, s2

SystemSymmetry == Permutations(Calls) \cup Permutations(Servers)
=============================================================================
