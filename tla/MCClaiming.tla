---------------------------- MODULE MCClaiming ----------------------------
(***************************************************************************)
(* Instances of Claiming for TLC.                                          *)
(***************************************************************************)
EXTENDS Claiming, TLC

CONSTANTS p1, p2
=============================================================================
