--------------------------- MODULE MCLogStoreIInv ---------------------------
(***************************************************************************)
(* The inductive invariant of LogStoreProofs on the area of MCLogStore.    *)
(***************************************************************************)
EXTENDS MCLogStore, LogStoreProofs
=============================================================================
