----------------------------- MODULE MCBookings -----------------------------
(***************************************************************************)
(* Instances of Bookings for TLC: days of two slots, bookings that meet at *)
(* midnight, and bookings that overlap across it.                          *)
(***************************************************************************)
EXTENDS Bookings

CONSTANTS b1, b2, q1, q2, r1, r2, none

Meeting == {<<0, 2>>, <<2, 3>>}
AcrossMidnight == {<<0, 2>>, <<1, 3>>, <<2, 3>>}
=============================================================================
