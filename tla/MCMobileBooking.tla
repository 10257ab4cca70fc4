---------------------------- MODULE MCMobileBooking ----------------------------
(* A small instance of MobileBooking: two choices that may share two slots.    *)
EXTENDS MobileBooking, TLC
=============================================================================
