------------------------------ MODULE MCLedger ------------------------------
(* Small instances of Ledger: the fees of a month and one reservation. *)
EXTENDS Ledger, TLC

LedgerSymmetry == Permutations(Members) \cup Permutations(Fees) \cup Permutations(Payments)
                  \cup Permutations(Requests)
=============================================================================
