------------------------------ MODULE MCServices ------------------------------
(***************************************************************************)
(* A small instance of Services: an amount may be negative.                *)
(***************************************************************************)
EXTENDS Services

SomeAmounts == -1 .. 2
=============================================================================
