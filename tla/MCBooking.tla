----------------------------- MODULE MCBooking -----------------------------
(***************************************************************************)
(* A club that opens from 1 to 3.  Staff book any interval of the opening  *)
(* hours, the app offers the ones on its grid.                             *)
(***************************************************************************)
EXTENDS Booking, TLC

Slot(a, b) == [start |-> a, end |-> b]

\* A long slot and a short one inside it: every move may clash.
NestedSlots == {Slot(1, 3), Slot(2, 3)}
LongSlot == {Slot(1, 3)}

Permutable == Permutations(Requests) \cup Permutations(Courts)
              \cup Permutations(Res) \cup Permutations(Replicas)
=============================================================================
