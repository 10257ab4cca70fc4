------------------------------- MODULE Ledger -------------------------------
(***************************************************************************)
(* The cash book of one club: membership fees, payments and what is        *)
(* collected for each reservation, as concurrent READ COMMITTED            *)
(* transactions (services/fees.py, services/cash.py).                      *)
(*                                                                         *)
(* As in Booking, a transaction has a counter between statements, holds    *)
(* the locks its statements took, and commits with its last write.  Which  *)
(* members are approved and billable is left open: any that exist may be.  *)
(***************************************************************************)
EXTENDS Integers, FiniteSetsExt

CONSTANTS
    Members,   \* memberships of the club; the fees are those of one month
    Fees, Payments, Res,
    Requests,  \* HTTP requests in flight
    Amounts,   \* amounts of a movement
    Prices,    \* prices staff may give a reservation
    Dues,      \* monthly_fee of the plan
    None

ASSUME AmountAssumption ==
    /\ Amounts \subseteq Nat \ {0} /\ Dues \in Nat \ {0}
    /\ Prices \subseteq Nat

ASSUME PaymentsAssumption == IsFiniteSet(Payments)

VARIABLES
    member,   \* the memberships that exist
    fee,      \* the committed row of each fee id
    payment,  \* the committed row of each payment id
    res,      \* status and price of each reservation
    txn       \* the transaction each request is running

vars == <<member, fee, payment, res, txn>>

Fee == [member : Members, status : {"pending", "paid", "cancelled"},
        payment : Payments \cup {None}]

\* fee: the fee that the description of the payment names.
Payment == [income : BOOLEAN, amount : Amounts \cup {Dues}, res : Res \cup {None},
            fee : Fees \cup {None}, voided : BOOLEAN]

ASSUME NoneAssumption ==
    /\ None \notin Fee \cup Payment
    /\ None \notin Fees \cup Payments \cup Res \cup Members

(* Program counters, by what the transaction holds while it is there. *)
Charging == {"charging", "charged"}    \* its reservation FOR UPDATE
Voiding == {"voiding", "balancing", "voidable"}   \* its payment, then its reservation

Transaction ==
    [pc : {"idle", "paying", "generating"} \cup Charging \cup Voiding,
     fee : Fees \cup {None}, pay : Payments \cup {None}, res : Res \cup {None},
     income : BOOLEAN, amount : Amounts \cup {Dues},
     todo : SUBSET Members,   \* members its INSERT has not reached yet
     rows : SUBSET Members]   \* those it inserted a fee for

Idle == [pc |-> "idle", fee |-> None, pay |-> None, res |-> None, income |-> TRUE,
         amount |-> Dues, todo |-> {}, rows |-> {}]

LedgerTypeOK ==
    /\ member \subseteq Members
    /\ fee \in [Fees -> Fee \cup {None}]
    /\ payment \in [Payments -> Payment \cup {None}]
    /\ res \in [Res -> [status : {"active", "completed", "cancelled"}, price : Prices]]
    /\ txn \in [Requests -> Transaction]

-----------------------------------------------------------------------------
(* Reads and locks *)

Valid(x) == payment[x] # None /\ ~payment[x].voided
Signed(p) == IF p.income THEN p.amount ELSE -p.amount

\* collected_for_reservation
Standing(r) == {x \in Payments : Valid(x) /\ payment[x].res = r}
Collected(r) == SumFunction([x \in Standing(r) |-> Signed(payment[x])])

\* Mutant: a charge reads the reservation without its lock.
ResUnlocked(r) == TRUE

PaymentFree(x) == \A p \in Requests : txn[p].pc \in Voiding => txn[p].pay # x
ResFree(r) ==
    \A p \in Requests : txn[p].pc \in Charging \cup {"balancing", "voidable"} => txn[p].res # r

\* Mutant: no unique index on the period.
NeverOwed(m) == FALSE

\* A fee inserted and not committed: whoever inserts the same one waits.
Inserted(m) == \E p \in Requests : m \in txn[p].rows
Billed(m) == \E f \in Fees : fee[f] # None /\ fee[f].member = m
Owed(m) == \E f \in Fees : fee[f] # None /\ fee[f].member = m /\ fee[f].status # "cancelled"

\* Mutant: what was returned is not compared with what was collected.
BalanceAllowsRefunds(r, delta) == Collected(r) + delta =< res[r].price

\* _check_reservation_balance
BalanceAllows(r, delta) ==
    /\ Collected(r) + delta =< res[r].price
    /\ Collected(r) + delta >= 0

Goto(p, pc) == txn' = [txn EXCEPT ![p].pc = pc]
Commit(p) == txn' = [txn EXCEPT ![p] = Idle]

-----------------------------------------------------------------------------
Init ==
    /\ member = Members
    /\ fee = [f \in Fees |-> None]
    /\ payment = [x \in Payments |-> None]
    /\ res \in [Res -> [status : {"active"}, price : Prices]]
    /\ txn = [p \in Requests |-> Idle]

(* FeeService *)

\* generate: the SELECT finds the billable members with no fee of the month,
\* not even a cancelled one ...
BeginGenerate(p) ==
    /\ txn[p].pc = "idle"
    /\ \E billable \in SUBSET member :
          txn' = [txn EXCEPT ![p] = [Idle EXCEPT !.pc = "generating",
                                                 !.todo = {m \in billable : ~Billed(m)}]]
    /\ UNCHANGED <<member, fee, payment, res>>

\* ... and each INSERT waits for another of the same member and gives way to a
\* fee that is not cancelled (ON CONFLICT DO NOTHING on the partial index).
InsertFee(p, m) ==
    /\ m \in txn[p].todo
    /\ m \in member
    /\ ~Inserted(m)
    /\ txn' = [txn EXCEPT ![p].todo = @ \ {m},
                          ![p].rows = IF Owed(m) THEN @ ELSE @ \cup {m}]
    /\ UNCHANGED <<member, fee, payment, res>>

\* ids: the fee that becomes the row of each member.
CommitGenerate(p) ==
    /\ txn[p].pc = "generating"
    /\ txn[p].todo = {}
    /\ \E ids \in [txn[p].rows -> {f \in Fees : fee[f] = None}] :
          /\ \A m, n \in txn[p].rows : m # n => ids[m] # ids[n]
          /\ fee' = [f \in Fees |->
                IF \E m \in txn[p].rows : ids[m] = f
                THEN [member |-> CHOOSE m \in txn[p].rows : ids[m] = f,
                      status |-> "pending", payment |-> None]
                ELSE fee[f]]
    /\ Commit(p)
    /\ UNCHANGED <<member, payment, res>>

\* pay reads the fee without a lock ...
BeginPay(p, f) ==
    /\ txn[p].pc = "idle"
    /\ fee[f] # None
    /\ fee[f].status = "pending"
    /\ txn' = [txn EXCEPT ![p] = [Idle EXCEPT !.pc = "paying", !.fee = f]]
    /\ UNCHANGED <<member, fee, payment, res>>

FeeMovement(f) == [income |-> TRUE, amount |-> Dues, res |-> None, fee |-> f, voided |-> FALSE]

\* Mutant: the UPDATE of the fee does not look at its status.
PayUnconditionally(p, x) ==
    /\ txn[p].pc = "paying"
    /\ payment[x] = None
    /\ fee[txn[p].fee] # None
    /\ payment' = [payment EXCEPT ![x] = FeeMovement(txn[p].fee)]
    /\ fee' = [fee EXCEPT ![txn[p].fee].status = "paid", ![txn[p].fee].payment = x]
    /\ Commit(p)
    /\ UNCHANGED <<member, res>>

\* ... inserts the payment and updates the fee if it is still pending.
Pay(p, x) ==
    /\ txn[p].pc = "paying"
    /\ payment[x] = None
    /\ fee[txn[p].fee] # None
    /\ fee[txn[p].fee].status = "pending"
    /\ payment' = [payment EXCEPT ![x] = FeeMovement(txn[p].fee)]
    /\ fee' = [fee EXCEPT ![txn[p].fee].status = "paid", ![txn[p].fee].payment = x]
    /\ Commit(p)
    /\ UNCHANGED <<member, res>>

CancelFee(f) ==
    /\ fee[f] # None
    /\ fee[f].status = "pending"
    /\ fee' = [fee EXCEPT ![f].status = "cancelled"]
    /\ UNCHANGED <<member, payment, res, txn>>

\* A former member is invited again and declines, or the club cancels the
\* invitation: the membership is deleted and its fees with it (ON DELETE
\* CASCADE), unless a payment refers to it.
EraseMember(m) ==
    /\ m \in member
    /\ ~Inserted(m)
    /\ \A x \in Payments : payment[x] # None /\ payment[x].fee # None
                           => fee[payment[x].fee].member # m
    /\ member' = member \ {m}
    /\ fee' = [f \in Fees |-> IF fee[f] # None /\ fee[f].member = m THEN None ELSE fee[f]]
    /\ UNCHANGED <<payment, res, txn>>

(* CashService *)

\* create, of a movement that is of no reservation.
Register(x, income, amount) ==
    /\ payment[x] = None
    /\ payment' = [payment EXCEPT ![x] = [income |-> income, amount |-> amount, res |-> None,
                                          fee |-> None, voided |-> FALSE]]
    /\ UNCHANGED <<member, fee, res, txn>>

\* create, of a charge or a refund: first the reservation FOR UPDATE ...
LockCharged(p, r, income, amount) ==
    /\ txn[p].pc = "idle"
    /\ ResFree(r)
    /\ txn' = [txn EXCEPT ![p] = [Idle EXCEPT !.pc = "charging", !.res = r,
                                              !.income = income, !.amount = amount]]
    /\ UNCHANGED <<member, fee, payment, res>>

\* ... then what was already collected ...
CheckCharge(p) ==
    /\ txn[p].pc = "charging"
    /\ txn[p].income => res[txn[p].res].status # "cancelled"
    /\ BalanceAllows(txn[p].res, Signed(txn[p]))
    /\ Goto(p, "charged")
    /\ UNCHANGED <<member, fee, payment, res>>

\* Mutant: refunds are stored with a negative amount.
ChargeSigned(p, x) ==
    /\ txn[p].pc = "charged"
    /\ payment[x] = None
    /\ payment' = [payment EXCEPT ![x] = [income |-> txn[p].income, amount |-> Signed(txn[p]),
                                          res |-> txn[p].res, fee |-> None, voided |-> FALSE]]
    /\ Commit(p)
    /\ UNCHANGED <<member, fee, res>>

\* ... and the payment.
Charge(p, x) ==
    /\ txn[p].pc = "charged"
    /\ payment[x] = None
    /\ payment' = [payment EXCEPT ![x] = [income |-> txn[p].income, amount |-> txn[p].amount,
                                          res |-> txn[p].res, fee |-> None, voided |-> FALSE]]
    /\ Commit(p)
    /\ UNCHANGED <<member, fee, res>>

\* void: the payment FOR UPDATE, and the reservation of the payment, if it has one ...
LockVoided(p, x) ==
    /\ txn[p].pc = "idle"
    /\ PaymentFree(x)
    /\ Valid(x)
    /\ txn' = [txn EXCEPT ![p] = [Idle EXCEPT !.pc = "voiding", !.pay = x]]
    /\ UNCHANGED <<member, fee, payment, res>>

LockItsReservation(p) ==
    /\ txn[p].pc = "voiding"
    /\ payment[txn[p].pay].res # None
    /\ ResFree(payment[txn[p].pay].res)
    /\ txn' = [txn EXCEPT ![p].pc = "balancing", ![p].res = payment[txn[p].pay].res]
    /\ UNCHANGED <<member, fee, payment, res>>

CheckVoid(p) ==
    /\ \/ txn[p].pc = "voiding" /\ payment[txn[p].pay].res = None
       \/ txn[p].pc = "balancing" /\ BalanceAllows(txn[p].res, -Signed(payment[txn[p].pay]))
    /\ Goto(p, "voidable")
    /\ UNCHANGED <<member, fee, payment, res>>

\* ... then the fee it had paid goes back to pending, with the payment voided.
Void(p) ==
    /\ txn[p].pc = "voidable"
    /\ payment' = [payment EXCEPT ![txn[p].pay].voided = TRUE]
    /\ fee' = [f \in Fees |->
          IF fee[f] # None /\ fee[f].status = "paid" /\ fee[f].payment = txn[p].pay
          THEN [fee[f] EXCEPT !.status = "pending", !.payment = None] ELSE fee[f]]
    /\ Commit(p)
    /\ UNCHANGED <<member, res>>

(* What the other services do to a reservation, under its lock *)

\* ReservationService.update, with or without a move.
SetPrice(r, price) ==
    /\ ResFree(r)
    /\ res[r].status = "active"
    /\ res' = [res EXCEPT ![r].price = price]
    /\ UNCHANGED <<member, fee, payment, txn>>

\* Cancelled by anybody, or completed by the job.
EndReservation(r, status) ==
    /\ ResFree(r)
    /\ res[r].status = "active"
    /\ res' = [res EXCEPT ![r].status = status]
    /\ UNCHANGED <<member, fee, payment, txn>>

\* Rollback, for any reason.
Abort(p) ==
    /\ txn[p].pc # "idle"
    /\ Commit(p)
    /\ UNCHANGED <<member, fee, payment, res>>

-----------------------------------------------------------------------------
FeeStep(p) ==
    \/ BeginGenerate(p) \/ CommitGenerate(p)
    \/ \E m \in Members : InsertFee(p, m)
    \/ \E f \in Fees : BeginPay(p, f)
    \/ \E x \in Payments : Pay(p, x)

CashStep(p) ==
    \/ \E r \in Res, income \in BOOLEAN, amount \in Amounts : LockCharged(p, r, income, amount)
    \/ CheckCharge(p)
    \/ \E x \in Payments : Charge(p, x) \/ LockVoided(p, x)
    \/ LockItsReservation(p) \/ CheckVoid(p) \/ Void(p)

Next ==
    \/ \E p \in Requests : FeeStep(p) \/ CashStep(p) \/ Abort(p)
    \/ \E f \in Fees : CancelFee(f)
    \/ \E m \in Members : EraseMember(m)
    \/ \E x \in Payments, income \in BOOLEAN, amount \in Amounts : Register(x, income, amount)
    \/ \E r \in Res : \/ \E price \in Prices : SetPrice(r, price)
                      \/ \E status \in {"completed", "cancelled"} : EndReservation(r, status)

Spec == Init /\ [][Next]_vars

-----------------------------------------------------------------------------
(* Properties *)

\* Each fee is paid by one payment that stands, if it is paid, and by none
\* otherwise: two requests that charge it at once, voids and charges again never
\* leave it charged twice, nor paid by a void payment (FeeService.pay, void).
\* And a payment for a fee outlives neither the fee nor its member.
FeeChargedOnce ==
    /\ \A f \in Fees :
          {x \in Payments : Valid(x) /\ payment[x].fee = f}
          = IF fee[f] # None /\ fee[f].status = "paid" THEN {fee[f].payment} ELSE {}
    /\ \A x \in Payments : payment[x] # None /\ payment[x].fee # None => fee[payment[x].fee] # None

\* Generating the fees of a month twice at once bills nobody twice (generate).
OneFeePerMonth ==
    \A f, g \in Fees :
        /\ f # g
        /\ fee[f] # None /\ fee[f].status # "cancelled"
        /\ fee[g] # None /\ fee[g].status # "cancelled"
        => fee[f].member # fee[g].member

\* More is never returned than was collected, whatever is charged, refunded and
\* voided at the same time (_check_reservation_balance).
NeverOverRefunded == \A r \in Res : Collected(r) >= 0

\* Nothing is collected beyond the price the reservation has at that moment,
\* though staff may be changing it.
ChargesWithinPrice ==
    [][\A r \in Res : Collected(r)' > Collected(r) => Collected(r)' =< res'[r].price]_vars

\* No income is registered on a reservation that was cancelled before: the
\* check and the cancellation take the same lock.
NoIncomeOnCancelled ==
    [][\A x \in Payments :
          payment[x] = None /\ payment'[x] # None /\ payment'[x].res # None /\ payment'[x].income
          => res[payment'[x].res].status # "cancelled"]_vars

\* "regenerar el periodo no revive lo que el club decidio no cobrar" (fees.py).
CancelledIsNotRevived ==
    [][\A f \in Fees : fee[f] = None /\ fee'[f] # None => ~Billed(fee'[f].member)]_vars

=============================================================================
