----------------------------- MODULE MCCheckout -----------------------------
(***************************************************************************)
(* Checkout on a small trip, for TLC.                                      *)
(***************************************************************************)
EXTENDS Checkout, TLC

(* Seats, holds, keys, bookings, commands and calls are interchangeable. *)
Symmetry ==
  Permutations(Seat) \cup Permutations(Hold) \cup Permutations(Key)
    \cup Permutations(Booking) \cup Permutations(Worker) \cup Permutations(Call)
=============================================================================
