------------------------- MODULE MCInMemoryUserDao -------------------------
(***************************************************************************)
(* InMemoryUserDao for TLC.                                                *)
(***************************************************************************)
EXTENDS InMemoryUserDao, TLC

CONSTANTS c1, c2, c3

CallSymmetry == Permutations({c1, c2, c3})
=============================================================================
