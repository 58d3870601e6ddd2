-------------------------- MODULE MCSamplingClock --------------------------
(***************************************************************************)
(* The brightness sensor with its real times: the sensors do not influence *)
(* each other's clock, and this one waits longest.                         *)
(***************************************************************************)
EXTENDS SamplingClock

Brightness     == <<<<150>>>>
UsualPeriods   == <<{100, 200, 215, 500}>>
Slow           == <<200>>
=============================================================================
