------------------------------ MODULE MCUseDef ------------------------------
(***************************************************************************)
(* A phi, another instruction and two blocks.  A phi may be its own        *)
(* operand, as that of a loop that leaves its variable alone.              *)
(***************************************************************************)
EXTENDS UseDef

CONSTANTS p1, i1, b1, b2

MCValues == {p1, i1, b1, b2}
MCUsers == {p1, i1}
MCPhis == {p1}
MCLabels == {b1, b2}
=============================================================================
