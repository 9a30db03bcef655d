---------------------------- MODULE MCUserTimes ----------------------------
(***************************************************************************)
(* UserTimes for TLC.  A second has 4 microseconds of 2 nanoseconds, and a *)
(* millisecond 2 of them; nanos is in -17 .. 16, a little over two seconds *)
(* to each side, as an int32 is of nanoseconds.                            *)
(***************************************************************************)
EXTENDS UserTimes, TLC

UserSymmetry == Permutations(Users)
=============================================================================
