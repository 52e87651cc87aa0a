---------------------------- MODULE MCBookings -----------------------------
(***************************************************************************)
(* Instances of Bookings for TLC.                                          *)
(***************************************************************************)
EXTENDS Bookings, TLC

\* A manual block and an appointment may be of different lengths.
MCHours == 1..2
MCSpans == {{1}, {1, 2}}
OneHour == {{1}}

Symmetry ==
    UNION { Permutations(Requests), Permutations(BookingIds), Permutations(Keys),
            Permutations(PayKeys) }
=============================================================================
