----------------------------- MODULE MCClockIInv -----------------------------
(***************************************************************************)
(* The inductive invariant of SamplingClockProofs with the times of the    *)
(* humidity sensor, which waits twice, and of one that is read at once.    *)
(***************************************************************************)
EXTENDS MCSamplingClock, SamplingClockProofs

Fast         == <<10>>
AtOnce       == <<<<>>>>
FastPeriods  == <<{10, 30, 200}>>
Humidity     == <<<<20, 32>>>>
HumidityTime == <<<<15, 11>>>>
=============================================================================
