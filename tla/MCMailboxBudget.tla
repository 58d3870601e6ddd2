-------------------------- MODULE MCMailboxBudget --------------------------
(***************************************************************************)
(* The five sensors that the notes allow at short periods: acceleration,   *)
(* gyro and magnetic field at 40 ms, UV and pressure at 200 ms.  None of   *)
(* them has to be triggered and waited for.                                *)
(***************************************************************************)
EXTENDS MailboxBudget

NotedPeriods  == <<{40}, {40}, {40}, {200}, {200}>>
ShortestNRF51 == <<30, 30, 30, 200, 200>>
Bytes         == <<6, 6, 6, 2, 4>>
AtOnce        == <<<<>>, <<>>, <<>>, <<>>, <<>>>>
=============================================================================
