---------------------------- MODULE MCControlIInv ----------------------------
(***************************************************************************)
(* The inductive invariant of SenStickControlProofs on the instance of     *)
(* MCSenStickControl.                                                      *)
(***************************************************************************)
EXTENDS MCSenStickControl, SenStickControlProofs
=============================================================================
