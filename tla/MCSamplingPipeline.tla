------------------------- MODULE MCSamplingPipeline -------------------------
(***************************************************************************)
(* Two sensors, a mailbox for two interrupts of both, and a scheduler's    *)
(* queue that other events can fill.                                       *)
(***************************************************************************)
EXTENDS SamplingPipeline
=============================================================================
