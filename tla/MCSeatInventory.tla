--------------------------- MODULE MCSeatInventory ---------------------------
(***************************************************************************)
(* Seat Inventory on a small trip, for TLC.                                *)
(***************************************************************************)
EXTENDS SeatInventory, TLC

(* Seats, owners, keys, bookings, tokens and calls are interchangeable. *)
Symmetry ==
  Permutations(Seat) \cup Permutations(Owner) \cup Permutations(Token)
    \cup Permutations(HoldKey) \cup Permutations(Booking) \cup Permutations(Call)
=============================================================================
