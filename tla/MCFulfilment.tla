---------------------------- MODULE MCFulfilment ----------------------------
(***************************************************************************)
(* Fulfilment on a small instance, for TLC.                                *)
(***************************************************************************)
EXTENDS Fulfilment, TLC

(* Messages are interchangeable, and so are deliveries. *)
Symmetry == Permutations(Copy) \cup Permutations(Job)
=============================================================================
