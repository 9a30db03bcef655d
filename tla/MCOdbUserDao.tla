---------------------------- MODULE MCOdbUserDao ----------------------------
(***************************************************************************)
(* OdbUserDao for TLC: three callers, so that the sequence reaches 4 and   *)
(* runs past a modulus of 3 inside a behaviour.                            *)
(***************************************************************************)
EXTENDS OdbUserDao, TLC

CONSTANTS c1, c2, c3

MCCalls == {c1, c2, c3}

\* Callers are interchangeable; the order of ids is not touched by it.
CallSymmetry == Permutations(MCCalls)
=============================================================================
