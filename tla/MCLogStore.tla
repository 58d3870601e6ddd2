----------------------------- MODULE MCLogStore -----------------------------
(***************************************************************************)
(* A small area for TLC: two data sectors of two pages each, so that a     *)
(* write of three cells may cross a page and a sector, start on a          *)
(* boundary, or end on one, and the area fills up within two logs.         *)
(***************************************************************************)
EXTENDS LogStore
=============================================================================
