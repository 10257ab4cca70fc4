--------------------------- MODULE MCMobileSession ---------------------------
(* Small instances of MobileSession: one account, one phone.                   *)
EXTENDS MobileSession, TLC

CallSymmetry == Permutations(Calls)
=============================================================================
