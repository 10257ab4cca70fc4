---------------------------- MODULE LedgerProofs ----------------------------
(* Theorems about the fees and payments of Ledger, for any number of them. *)
EXTENDS Ledger, FiniteSetTheorems, TLAPS

\* Which fields a transaction has filled in at each point.
TxnShape ==
    \A p \in Requests :
        /\ txn[p].pc = "paying" => txn[p].fee \in Fees
        /\ txn[p].pc \in Charging \cup {"balancing"} => txn[p].res \in Res
        /\ txn[p].pc \in Voiding => txn[p].pay \in Payments /\ payment[txn[p].pay] # None
        /\ txn[p].pc # "generating" => txn[p].rows = {} /\ txn[p].todo = {}

\* Generations in flight bill different members, who owe nothing yet.
ClaimsHold ==
    /\ \A p, q \in Requests : p # q => txn[p].rows \cap txn[q].rows = {}
    /\ \A p \in Requests : \A m \in txn[p].rows : m \in member /\ ~Owed(m)

FeesExist == \A f \in Fees : fee[f] # None => fee[f].member \in member

LedgerInv ==
    LedgerTypeOK /\ TxnShape /\ ClaimsHold /\ FeesExist /\ FeeChargedOnce /\ OneFeePerMonth

LEMMA InitLedger == Init => LedgerInv
<1> SUFFICES ASSUME Init PROVE LedgerInv
  OBVIOUS
<1>1. LedgerTypeOK
  BY AmountAssumption DEF Init, LedgerTypeOK, Idle, Transaction
<1>2. TxnShape /\ ClaimsHold
  BY NoneAssumption DEF Init, TxnShape, ClaimsHold, Idle, Charging, Voiding
<1>3. FeesExist /\ FeeChargedOnce /\ OneFeePerMonth
  BY DEF Init, FeesExist, FeeChargedOnce, OneFeePerMonth, Valid
<1> QED
  BY <1>1, <1>2, <1>3 DEF LedgerInv

-----------------------------------------------------------------------------
(* Types *)

LEMMA LedgerTypeStep == LedgerTypeOK /\ TxnShape /\ [Next]_vars => LedgerTypeOK'
<1> SUFFICES ASSUME LedgerTypeOK, TxnShape, [Next]_vars PROVE LedgerTypeOK'
  OBVIOUS
<1> USE DEF LedgerTypeOK
<1>i. Idle \in Transaction
  BY DEF Idle, Transaction
<1>1. CASE UNCHANGED vars
  BY <1>1 DEF vars
<1>2. ASSUME NEW p \in Requests, FeeStep(p) PROVE LedgerTypeOK'
  <2>1. CASE BeginGenerate(p)
    <3>1. PICK t \in SUBSET Members : txn' = [txn EXCEPT ![p] = [Idle EXCEPT !.pc = "generating", !.todo = t]]
      BY <2>1 DEF BeginGenerate
    <3>2. [Idle EXCEPT !.pc = "generating", !.todo = t] \in Transaction
      BY DEF Idle, Transaction
    <3> QED
      BY <2>1, <3>1, <3>2 DEF BeginGenerate
  <2>2. CASE CommitGenerate(p)
    <3>1. PICK ids \in [txn[p].rows -> {f \in Fees : fee[f] = None}] :
            fee' = [f \in Fees |-> IF \E m \in txn[p].rows : ids[m] = f
                     THEN [member |-> CHOOSE m \in txn[p].rows : ids[m] = f,
                           status |-> "pending", payment |-> None] ELSE fee[f]]
      BY <2>2 DEF CommitGenerate
    <3>2. \A f \in Fees : (\E m \in txn[p].rows : ids[m] = f)
                           => (CHOOSE m \in txn[p].rows : ids[m] = f) \in Members
      BY DEF Transaction
    <3>3. fee' \in [Fees -> Fee \cup {None}]
      BY <3>1, <3>2 DEF Fee
    <3> QED
      BY <1>i, <2>2, <3>3 DEF CommitGenerate, Commit
  <2>3. ASSUME NEW m \in Members, InsertFee(p, m) PROVE LedgerTypeOK'
    <3>1. PICK t \in SUBSET Members, rs \in SUBSET Members :
            txn' = [txn EXCEPT ![p] = [txn[p] EXCEPT !.todo = t, !.rows = rs]]
      <4> DEFINE t == txn[p].todo \ {m}
                 rs == IF Owed(m) THEN txn[p].rows ELSE txn[p].rows \cup {m}
      <4>1. t \in SUBSET Members /\ rs \in SUBSET Members
        BY DEF Transaction
      <4>2. txn' = [txn EXCEPT ![p] = [txn[p] EXCEPT !.todo = t, !.rows = rs]]
        BY <2>3 DEF InsertFee
      <4> QED
        BY <4>1, <4>2
    <3>2. [txn[p] EXCEPT !.todo = t, !.rows = rs] \in Transaction
      BY DEF Transaction
    <3> QED
      BY <2>3, <3>1, <3>2 DEF InsertFee
  <2>4. ASSUME NEW f \in Fees, BeginPay(p, f) PROVE LedgerTypeOK'
    BY <2>4 DEF BeginPay, Idle, Transaction
  <2>5. ASSUME NEW x \in Payments, Pay(p, x) PROVE LedgerTypeOK'
    <3>1. txn[p].fee \in Fees
      BY <2>5 DEF Pay, TxnShape
    <3>2. FeeMovement(txn[p].fee) \in Payment
      BY <3>1 DEF FeeMovement, Payment
    <3>3. fee' \in [Fees -> Fee \cup {None}]
      BY <2>5, <3>1 DEF Pay, Fee
    <3> QED
      BY <1>i, <2>5, <3>2, <3>3 DEF Pay, Commit
  <2> QED
    BY <1>2, <2>1, <2>2, <2>3, <2>4, <2>5 DEF FeeStep
<1>3. ASSUME NEW p \in Requests, CashStep(p) PROVE LedgerTypeOK'
  <2>1. ASSUME NEW r \in Res, NEW income \in BOOLEAN, NEW amount \in Amounts, LockCharged(p, r, income, amount)
        PROVE LedgerTypeOK'
    BY <2>1 DEF LockCharged, Idle, Transaction, Charging
  <2>2. CASE CheckCharge(p)
    BY <2>2 DEF CheckCharge, Goto, Transaction, Charging
  <2>3. ASSUME NEW x \in Payments, Charge(p, x) PROVE LedgerTypeOK'
    <3>1. [income |-> txn[p].income, amount |-> txn[p].amount, res |-> txn[p].res,
           fee |-> None, voided |-> FALSE] \in Payment
      BY DEF Transaction, Payment
    <3> QED
      BY <1>i, <2>3, <3>1 DEF Charge, Commit
  <2>4. ASSUME NEW x \in Payments, LockVoided(p, x) PROVE LedgerTypeOK'
    BY <2>4 DEF LockVoided, Idle, Transaction, Voiding
  <2>5. CASE LockItsReservation(p)
    <3>1. payment[txn[p].pay].res \in Res \cup {None}
      BY <2>5 DEF LockItsReservation, TxnShape, Voiding, Payment
    <3>2. [txn[p] EXCEPT !.pc = "balancing", !.res = payment[txn[p].pay].res] \in Transaction
      BY <3>1 DEF Transaction, Voiding
    <3>3. txn' = [txn EXCEPT ![p] = [txn[p] EXCEPT !.pc = "balancing", !.res = payment[txn[p].pay].res]]
      BY <2>5 DEF LockItsReservation
    <3> QED
      BY <2>5, <3>2, <3>3 DEF LockItsReservation
  <2>6. CASE CheckVoid(p)
    BY <2>6 DEF CheckVoid, Goto, Transaction, Voiding
  <2>7. CASE Void(p)
    <3>1. txn[p].pay \in Payments /\ payment[txn[p].pay] \in Payment
      BY <2>7 DEF Void, TxnShape, Voiding
    <3>2. payment' \in [Payments -> Payment \cup {None}]
      BY <2>7, <3>1 DEF Void, Payment
    <3>3. fee' \in [Fees -> Fee \cup {None}]
      <4>1. \A f \in Fees : fee[f] # None
                            => [fee[f] EXCEPT !.status = "pending", !.payment = None] \in Fee
        BY DEF Fee
      <4> QED
        BY <2>7, <4>1 DEF Void
    <3> QED
      BY <1>i, <2>7, <3>2, <3>3 DEF Void, Commit
  <2> QED
    BY <1>3, <2>1, <2>2, <2>3, <2>4, <2>5, <2>6, <2>7 DEF CashStep
<1>4. ASSUME NEW p \in Requests, Abort(p) PROVE LedgerTypeOK'
  BY <1>i, <1>4 DEF Abort, Commit
<1>5. ASSUME NEW f \in Fees, CancelFee(f) PROVE LedgerTypeOK'
  BY <1>5 DEF CancelFee, Fee
<1>6. ASSUME NEW m \in Members, EraseMember(m) PROVE LedgerTypeOK'
  BY <1>6 DEF EraseMember
<1>7. ASSUME NEW x \in Payments, NEW income \in BOOLEAN, NEW amount \in Amounts, Register(x, income, amount)
      PROVE LedgerTypeOK'
  BY <1>7 DEF Register, Payment
<1>8. ASSUME NEW r \in Res, NEW price \in Prices, SetPrice(r, price) PROVE LedgerTypeOK'
  BY <1>8 DEF SetPrice
<1>9. ASSUME NEW r \in Res, NEW st \in {"completed", "cancelled"}, EndReservation(r, st) PROVE LedgerTypeOK'
  BY <1>9 DEF EndReservation
<1> QED
  BY <1>1, <1>2, <1>3, <1>4, <1>5, <1>6, <1>7, <1>8, <1>9 DEF Next

-----------------------------------------------------------------------------
(* Locks: what a transaction knows of the rows it has read *)

LEMMA PaymentsStay ==
    LedgerTypeOK /\ TxnShape /\ [Next]_vars => \A x \in Payments : payment[x] # None => payment'[x] # None
<1> SUFFICES ASSUME LedgerTypeOK, TxnShape, [Next]_vars, NEW x \in Payments, payment[x] # None
             PROVE payment'[x] # None
  OBVIOUS
<1> USE DEF LedgerTypeOK
<1>1. CASE UNCHANGED payment
  BY <1>1
<1>2. ASSUME NEW p \in Requests, NEW y \in Payments, Pay(p, y) \/ Charge(p, y) PROVE payment'[x] # None
  BY <1>2 DEF Pay, Charge
<1>3. ASSUME NEW p \in Requests, Void(p) PROVE payment'[x] # None
  <2>1. payment[x] \in Payment
    OBVIOUS
  <2>2. [payment[x] EXCEPT !.voided = TRUE] \in Payment
    BY <2>1 DEF Payment
  <2>3. payment'[x] = payment[x] \/ payment'[x] = [payment[x] EXCEPT !.voided = TRUE]
    BY <1>3 DEF Void
  <2> QED
    BY <2>2, <2>3, NoneAssumption
<1>4. ASSUME NEW y \in Payments, NEW income \in BOOLEAN, NEW amount \in Amounts, Register(y, income, amount)
      PROVE payment'[x] # None
  BY <1>4 DEF Register
<1> QED
  BY <1>1, <1>2, <1>3, <1>4
  DEF Next, vars, FeeStep, CashStep, BeginGenerate, CommitGenerate, InsertFee, BeginPay, LockCharged, CheckCharge,
      LockVoided, LockItsReservation, CheckVoid, Abort, CancelFee, EraseMember, SetPrice, EndReservation

LEMMA TxnShapeStep == LedgerTypeOK /\ TxnShape /\ [Next]_vars => TxnShape'
<1> SUFFICES ASSUME LedgerTypeOK, TxnShape, [Next]_vars PROVE TxnShape'
  OBVIOUS
<1> USE DEF LedgerTypeOK
<1>p. \A x \in Payments : payment[x] # None => payment'[x] # None
  BY PaymentsStay
<1>1. CASE UNCHANGED txn
  BY <1>p, <1>1 DEF TxnShape
<1>2. ASSUME NEW p \in Requests, Commit(p) PROVE TxnShape'
  BY <1>p, <1>2 DEF TxnShape, Commit, Idle, Charging, Voiding
<1>3. ASSUME NEW p \in Requests, FeeStep(p) PROVE TxnShape'
  <2>1. CASE BeginGenerate(p)
    <3>1. PICK t \in SUBSET Members : txn' = [txn EXCEPT ![p] = [Idle EXCEPT !.pc = "generating", !.todo = t]]
      BY <2>1 DEF BeginGenerate
    <3> QED
      BY <1>p, <3>1 DEF TxnShape, Idle, Charging, Voiding
  <2>2. ASSUME NEW m \in Members, InsertFee(p, m) PROVE TxnShape'
    <3>1. txn[p].pc = "generating"
      BY <2>2 DEF InsertFee, TxnShape
    <3>2. txn'[p].pc = "generating" /\ \A q \in Requests : q # p => txn'[q] = txn[q]
      BY <2>2, <3>1 DEF InsertFee, Transaction
    <3> QED
      BY <1>p, <3>2 DEF TxnShape, Charging, Voiding
  <2>3. ASSUME NEW f \in Fees, BeginPay(p, f) PROVE TxnShape'
    BY <1>p, <2>3 DEF BeginPay, TxnShape, Idle, Charging, Voiding
  <2> QED
    BY <1>2, <1>3, <2>1, <2>2, <2>3 DEF FeeStep, CommitGenerate, Pay
<1>4. ASSUME NEW p \in Requests, CashStep(p) PROVE TxnShape'
  <2>1. ASSUME NEW r \in Res, NEW income \in BOOLEAN, NEW amount \in Amounts, LockCharged(p, r, income, amount)
        PROVE TxnShape'
    BY <1>p, <2>1 DEF LockCharged, TxnShape, Idle, Charging, Voiding
  <2>2. CASE CheckCharge(p)
    BY <1>p, <2>2 DEF CheckCharge, Goto, TxnShape, Transaction, Charging, Voiding
  <2>3. ASSUME NEW x \in Payments, LockVoided(p, x) PROVE TxnShape'
    BY <1>p, <2>3 DEF LockVoided, Valid, TxnShape, Idle, Charging, Voiding
  <2>4. CASE LockItsReservation(p)
    <3>1. payment[txn[p].pay].res \in Res
      BY <2>4 DEF LockItsReservation, TxnShape, Voiding, Payment
    <3>2. txn' = [txn EXCEPT ![p] = [txn[p] EXCEPT !.pc = "balancing", !.res = payment[txn[p].pay].res]]
      BY <2>4 DEF LockItsReservation
    <3>3. [txn[p] EXCEPT !.pc = "balancing", !.res = payment[txn[p].pay].res].rows = txn[p].rows
      BY DEF Transaction
    <3>4. txn[p].pc = "voiding"
      BY <2>4 DEF LockItsReservation
    <3> QED
      BY <1>p, <3>1, <3>2, <3>4 DEF TxnShape, Transaction, Charging, Voiding
  <2>5. CASE CheckVoid(p)
    BY <1>p, <2>5 DEF CheckVoid, Goto, TxnShape, Transaction, Charging, Voiding
  <2> QED
    BY <1>2, <1>4, <2>1, <2>2, <2>3, <2>4, <2>5 DEF CashStep, Charge, Void
<1> QED
  BY <1>1, <1>2, <1>3, <1>4
  DEF Next, vars, Abort, CancelFee, EraseMember, Register, SetPrice, EndReservation

-----------------------------------------------------------------------------
(* Debts: who has a fee that is not cancelled *)

Indebted(f) == fee[f] # None /\ fee[f].status # "cancelled"

\* Only CommitGenerate makes somebody owe a fee.
NoNewDebt ==
    \A f \in Fees : fee'[f] # None /\ fee'[f].status # "cancelled"
                    => Indebted(f) /\ fee'[f].member = fee[f].member

LEMMA NoNewDebtKeeps ==
    ASSUME NoNewDebt
    PROVE  /\ OneFeePerMonth => OneFeePerMonth'
           /\ \A m : ~Owed(m) => ~Owed(m)'
BY DEF NoNewDebt, Indebted, OneFeePerMonth, Owed

LEMMA OthersOweNothingNew ==
    LedgerTypeOK /\ TxnShape /\ [Next]_vars
    => NoNewDebt \/ \E p \in Requests : CommitGenerate(p)
<1> SUFFICES ASSUME LedgerTypeOK, TxnShape, [Next]_vars,
                    ~ \E p \in Requests : CommitGenerate(p)
             PROVE NoNewDebt
  OBVIOUS
<1> USE DEF LedgerTypeOK
<1>1. CASE UNCHANGED fee
  BY <1>1 DEF NoNewDebt, Indebted
<1>2. ASSUME NEW p \in Requests, NEW x \in Payments, Pay(p, x) PROVE NoNewDebt
  <2>1. txn[p].fee \in Fees
    BY <1>2 DEF Pay, TxnShape
  <2>2. \A f \in Fees : f # txn[p].fee => fee'[f] = fee[f]
    BY <1>2, <2>1 DEF Pay
  <2>3. fee'[txn[p].fee].member = fee[txn[p].fee].member
    BY <1>2, <2>1 DEF Pay, Fee
  <2> QED
    BY <1>2, <2>1, <2>2, <2>3 DEF NoNewDebt, Indebted, Pay
<1>3. ASSUME NEW f \in Fees, CancelFee(f) PROVE NoNewDebt
  <2>1. fee'[f].status = "cancelled"
    BY <1>3 DEF CancelFee, Fee
  <2>2. \A g \in Fees : g # f => fee'[g] = fee[g]
    BY <1>3 DEF CancelFee
  <2> QED
    BY <2>1, <2>2 DEF NoNewDebt, Indebted
<1>4. ASSUME NEW m \in Members, EraseMember(m) PROVE NoNewDebt
  BY <1>4 DEF EraseMember, NoNewDebt, Indebted
<1>5. ASSUME NEW p \in Requests, Void(p) PROVE NoNewDebt
  <2>1. \A f \in Fees :
          \/ fee'[f] = fee[f]
          \/ Indebted(f) /\ fee'[f] = [fee[f] EXCEPT !.status = "pending", !.payment = None]
    BY <1>5 DEF Void, Indebted
  <2>2. \A f \in Fees : fee[f] # None
          => [fee[f] EXCEPT !.status = "pending", !.payment = None].member = fee[f].member
    BY DEF Fee
  <2> QED
    BY <2>1, <2>2 DEF NoNewDebt, Indebted
<1> QED
  BY <1>1, <1>2, <1>3, <1>4, <1>5
  DEF Next, vars, FeeStep, CashStep, BeginGenerate, InsertFee, BeginPay, LockCharged, CheckCharge, Charge,
      LockVoided, LockItsReservation, CheckVoid, Abort, Register, SetPrice, EndReservation

\* What a generation that commits writes: a pending fee of a new id for each of
\* its rows, and nothing else.
LEMMA GeneratedFees ==
    ASSUME LedgerTypeOK, NEW p \in Requests, CommitGenerate(p)
    PROVE  /\ \A f \in Fees :
                 \/ fee'[f] = fee[f]
                 \/ fee[f] = None /\ fee'[f] \in Fee /\ fee'[f].member \in txn[p].rows /\ fee'[f].status = "pending"
           /\ \A f, g \in Fees : f # g /\ fee'[f] # fee[f] /\ fee'[g] # fee[g] => fee'[f].member # fee'[g].member
<1> USE DEF LedgerTypeOK
<1>1. PICK ids \in [txn[p].rows -> {f \in Fees : fee[f] = None}] :
        fee' = [f \in Fees |-> IF \E m \in txn[p].rows : ids[m] = f
                 THEN [member |-> CHOOSE m \in txn[p].rows : ids[m] = f,
                       status |-> "pending", payment |-> None] ELSE fee[f]]
  BY DEF CommitGenerate
<1>2. ASSUME NEW f \in Fees, \E m \in txn[p].rows : ids[m] = f
      PROVE  /\ fee[f] = None /\ fee'[f] \in Fee /\ fee'[f].status = "pending"
             /\ fee'[f].member \in txn[p].rows /\ ids[fee'[f].member] = f
  <2> DEFINE owner == CHOOSE m \in txn[p].rows : ids[m] = f
  <2>1. owner \in txn[p].rows /\ ids[owner] = f
    BY <1>2
  <2>2. fee'[f] = [member |-> owner, status |-> "pending", payment |-> None]
    BY <1>1, <1>2
  <2>3. txn[p].rows \subseteq Members
    BY DEF Transaction
  <2> HIDE DEF owner
  <2> QED
    BY <2>1, <2>2, <2>3 DEF Fee
<1>3. ASSUME NEW f \in Fees, ~ \E m \in txn[p].rows : ids[m] = f PROVE fee'[f] = fee[f]
  BY <1>1, <1>3
<1>4. \A f \in Fees :
        \/ fee'[f] = fee[f]
        \/ /\ fee[f] = None /\ fee'[f] \in Fee /\ fee'[f].status = "pending"
           /\ fee'[f].member \in txn[p].rows /\ ids[fee'[f].member] = f
  BY <1>2, <1>3
<1> QED
  BY <1>4

LEMMA OneFeeStep ==
    LedgerTypeOK /\ TxnShape /\ ClaimsHold /\ OneFeePerMonth /\ [Next]_vars => OneFeePerMonth'
<1> SUFFICES ASSUME LedgerTypeOK, TxnShape, ClaimsHold, OneFeePerMonth, [Next]_vars PROVE OneFeePerMonth'
  OBVIOUS
<1>1. CASE NoNewDebt
  BY <1>1, NoNewDebtKeeps
<1>2. ASSUME NEW p \in Requests, CommitGenerate(p) PROVE OneFeePerMonth'
  <2>1. \A m \in txn[p].rows : ~Owed(m)
    BY DEF ClaimsHold
  <2> QED
    BY <1>2, <2>1, GeneratedFees DEF OneFeePerMonth, Owed
<1> QED
  BY <1>1, <1>2, OthersOweNothingNew

-----------------------------------------------------------------------------
(* Claims: members that a generation in flight has inserted a fee for *)

RowsOnlyShrink ==
    /\ \A p \in Requests : txn'[p].rows \subseteq txn[p].rows
    /\ \A p \in Requests : txn[p].rows \cap member \subseteq member'

LEMMA RowsShrinkKeeps ==
    ASSUME ClaimsHold, RowsOnlyShrink, NoNewDebt
    PROVE  ClaimsHold'
<1>1. \A m : ~Owed(m) => ~Owed(m)'
  BY NoNewDebtKeeps
<1>2. \A p, q \in Requests : p # q => txn'[p].rows \cap txn'[q].rows = {}
  BY DEF ClaimsHold, RowsOnlyShrink
<1>3. \A p \in Requests : \A m \in txn'[p].rows : m \in member' /\ ~Owed(m)'
  BY <1>1 DEF ClaimsHold, RowsOnlyShrink
<1> QED
  BY <1>2, <1>3 DEF ClaimsHold

LEMMA RowsGrowByInsertOnly ==
    LedgerTypeOK /\ TxnShape /\ [Next]_vars
    => RowsOnlyShrink \/ \E p \in Requests, m \in Members : InsertFee(p, m)
<1> SUFFICES ASSUME LedgerTypeOK, TxnShape, [Next]_vars,
                    ~ \E p \in Requests, m \in Members : InsertFee(p, m)
             PROVE RowsOnlyShrink
  OBVIOUS
<1> USE DEF LedgerTypeOK
<1>1. CASE UNCHANGED <<txn, member>>
  BY <1>1 DEF RowsOnlyShrink
<1>2. ASSUME NEW p \in Requests, Commit(p), UNCHANGED member PROVE RowsOnlyShrink
  BY <1>2 DEF RowsOnlyShrink, Commit, Idle
<1>3. ASSUME NEW p \in Requests, BeginGenerate(p) PROVE RowsOnlyShrink
  <2>1. PICK t \in SUBSET Members : txn' = [txn EXCEPT ![p] = [Idle EXCEPT !.pc = "generating", !.todo = t]]
    BY <1>3 DEF BeginGenerate
  <2> QED
    BY <1>3, <2>1 DEF BeginGenerate, RowsOnlyShrink, Idle
<1>4. ASSUME NEW p \in Requests, NEW f \in Fees, BeginPay(p, f) PROVE RowsOnlyShrink
  BY <1>4 DEF BeginPay, RowsOnlyShrink, Idle
<1>5. ASSUME NEW p \in Requests, NEW r \in Res, NEW income \in BOOLEAN, NEW amount \in Amounts,
             LockCharged(p, r, income, amount)
      PROVE RowsOnlyShrink
  BY <1>5 DEF LockCharged, RowsOnlyShrink, Idle
<1>6. ASSUME NEW p \in Requests, CheckCharge(p) \/ CheckVoid(p) PROVE RowsOnlyShrink
  <2>1. CASE CheckCharge(p)
    BY <2>1 DEF RowsOnlyShrink, Transaction, CheckCharge, Goto
  <2>2. CASE CheckVoid(p)
    BY <2>2 DEF RowsOnlyShrink, Transaction, CheckVoid, Goto
  <2> QED
    BY <1>6, <2>1, <2>2
<1>7. ASSUME NEW p \in Requests, NEW x \in Payments, LockVoided(p, x) PROVE RowsOnlyShrink
  BY <1>7 DEF LockVoided, RowsOnlyShrink, Idle
<1>8. ASSUME NEW p \in Requests, LockItsReservation(p) PROVE RowsOnlyShrink
  BY <1>8 DEF LockItsReservation, RowsOnlyShrink, Transaction
<1>9. ASSUME NEW m \in Members, EraseMember(m) PROVE RowsOnlyShrink
  BY <1>9 DEF EraseMember, Inserted, RowsOnlyShrink
<1> QED
  BY <1>1, <1>2, <1>3, <1>4, <1>5, <1>6, <1>7, <1>8, <1>9
  DEF Next, vars, FeeStep, CashStep, CommitGenerate, Pay, Charge, Void, Abort, CancelFee, Register, SetPrice,
      EndReservation

LEMMA ClaimsStep == LedgerTypeOK /\ TxnShape /\ ClaimsHold /\ [Next]_vars => ClaimsHold'
<1> SUFFICES ASSUME LedgerTypeOK, TxnShape, ClaimsHold, [Next]_vars PROVE ClaimsHold'
  OBVIOUS
<1>1. CASE RowsOnlyShrink /\ NoNewDebt
  BY <1>1, RowsShrinkKeeps
<1>2. ASSUME NEW p \in Requests, NEW m \in Members, InsertFee(p, m) PROVE ClaimsHold'
  <2>1. \A q \in Requests : q # p => txn'[q] = txn[q]
    BY <1>2 DEF InsertFee, LedgerTypeOK
  <2>2. txn'[p].rows = IF Owed(m) THEN txn[p].rows ELSE txn[p].rows \cup {m}
    BY <1>2 DEF InsertFee, LedgerTypeOK, Transaction
  <2>3. \A n : Owed(n)' <=> Owed(n)
    BY <1>2 DEF InsertFee, Owed
  <2>4. \A q \in Requests : m \notin txn[q].rows
    BY <1>2 DEF InsertFee, Inserted
  <2>5. \A q, r \in Requests : q # r => txn'[q].rows \cap txn'[r].rows = {}
    BY <2>1, <2>2, <2>4 DEF ClaimsHold
  <2>6. ASSUME NEW q \in Requests, NEW n \in txn'[q].rows PROVE n \in member' /\ ~Owed(n)'
    <3>1. n \in txn[q].rows \/ (n = m /\ ~Owed(m))
      BY <2>1, <2>2
    <3>2. n \in member /\ ~Owed(n)
      BY <1>2, <3>1 DEF ClaimsHold, InsertFee
    <3> QED
      BY <1>2, <2>3, <3>2 DEF InsertFee
  <2> QED
    BY <2>5, <2>6 DEF ClaimsHold
<1>3. ASSUME NEW p \in Requests, CommitGenerate(p) PROVE ClaimsHold'
  <2>1. txn'[p].rows = {} /\ \A q \in Requests : q # p => txn'[q] = txn[q]
    BY <1>3 DEF CommitGenerate, Commit, Idle, LedgerTypeOK
  <2>2. \A n : n \notin txn[p].rows /\ ~Owed(n) => ~Owed(n)'
    BY <1>3, GeneratedFees DEF Owed
  <2>3. \A q, r \in Requests : q # r => txn'[q].rows \cap txn'[r].rows = {}
    BY <2>1 DEF ClaimsHold
  <2>4. \A q \in Requests : \A n \in txn'[q].rows : n \in member' /\ ~Owed(n)'
    BY <1>3, <2>1, <2>2 DEF ClaimsHold, CommitGenerate
  <2> QED
    BY <2>3, <2>4 DEF ClaimsHold
<1> QED
  BY <1>1, <1>2, <1>3, RowsGrowByInsertOnly, OthersOweNothingNew

-----------------------------------------------------------------------------
(* Every fee has its member *)

LEMMA FeesExistStep ==
    LedgerTypeOK /\ TxnShape /\ ClaimsHold /\ FeesExist /\ [Next]_vars => FeesExist'
<1> SUFFICES ASSUME LedgerTypeOK, TxnShape, ClaimsHold, FeesExist, [Next]_vars PROVE FeesExist'
  OBVIOUS
<1> USE DEF LedgerTypeOK
<1>1. CASE UNCHANGED <<fee, member>>
  BY <1>1 DEF FeesExist
<1>2. ASSUME NEW p \in Requests, CommitGenerate(p) PROVE FeesExist'
  BY <1>2, GeneratedFees DEF FeesExist, ClaimsHold, CommitGenerate
<1>3. ASSUME UNCHANGED member,
             \A f \in Fees : fee'[f] # None => fee[f] # None /\ fee'[f].member = fee[f].member
      PROVE FeesExist'
  BY <1>3 DEF FeesExist
<1>4. ASSUME NEW p \in Requests, NEW x \in Payments, Pay(p, x) PROVE FeesExist'
  <2>1. txn[p].fee \in Fees /\ fee[txn[p].fee] \in Fee
    BY <1>4 DEF Pay, TxnShape
  <2>2. \A f \in Fees : f # txn[p].fee => fee'[f] = fee[f]
    BY <1>4, <2>1 DEF Pay
  <2>3. fee'[txn[p].fee].member = fee[txn[p].fee].member
    BY <1>4, <2>1 DEF Pay, Fee
  <2> QED
    BY <1>3, <1>4, <2>1, <2>2, <2>3 DEF Pay
<1>5. ASSUME NEW f \in Fees, CancelFee(f) PROVE FeesExist'
  BY <1>3, <1>5 DEF CancelFee, Fee
<1>6. ASSUME NEW m \in Members, EraseMember(m) PROVE FeesExist'
  BY <1>6 DEF EraseMember, FeesExist
<1>7. ASSUME NEW p \in Requests, Void(p) PROVE FeesExist'
  <2>1. \A f \in Fees :
          \/ fee'[f] = fee[f]
          \/ fee[f] # None /\ fee'[f] = [fee[f] EXCEPT !.status = "pending", !.payment = None]
    BY <1>7 DEF Void
  <2>2. \A f \in Fees : fee[f] # None
          => [fee[f] EXCEPT !.status = "pending", !.payment = None].member = fee[f].member
    BY DEF Fee
  <2> QED
    BY <1>3, <1>7, <2>1, <2>2 DEF Void
<1> QED
  BY <1>1, <1>2, <1>4, <1>5, <1>6, <1>7
  DEF Next, vars, FeeStep, CashStep, BeginGenerate, InsertFee, BeginPay, LockCharged, CheckCharge, Charge,
      LockVoided, LockItsReservation, CheckVoid, Abort, Register, SetPrice, EndReservation

-----------------------------------------------------------------------------
(* Each fee is charged once *)

PaymentsOf(f) == {x \in Payments : Valid(x) /\ payment[x].fee = f}
Paid(f) == fee[f] # None /\ fee[f].status = "paid"

LEMMA ChargedUntouched ==
    ASSUME LedgerTypeOK, FeeChargedOnce,
           \A f \in Fees : fee'[f] = fee[f] \/ (fee'[f] # None /\ ~Paid(f) /\ ~Paid(f)'),
           \A x \in Payments : payment'[x] = payment[x]
              \/ (~Valid(x) /\ payment'[x] # None /\ payment'[x].fee = None)
    PROVE  FeeChargedOnce'
<1> USE DEF LedgerTypeOK
<1>1. \A f \in Fees : PaymentsOf(f)' = PaymentsOf(f)
  BY NoneAssumption DEF PaymentsOf, Valid
<1>2. ASSUME NEW f \in Fees
      PROVE  PaymentsOf(f)' = (IF Paid(f)' THEN {fee'[f].payment} ELSE {})
  <2>1. PaymentsOf(f) = IF Paid(f) THEN {fee[f].payment} ELSE {}
    BY DEF FeeChargedOnce, PaymentsOf, Paid
  <2> QED
    BY <1>1, <2>1 DEF Paid
<1>3. ASSUME NEW x \in Payments, payment'[x] # None, payment'[x].fee # None
      PROVE  fee'[payment'[x].fee] # None
  <2>1. payment'[x] = payment[x]
    BY <1>3
  <2>2. payment[x].fee \in Fees /\ fee[payment[x].fee] # None
    BY <1>3, <2>1 DEF FeeChargedOnce, Payment
  <2> QED
    BY <2>1, <2>2
<1> QED
  BY <1>2, <1>3 DEF FeeChargedOnce, PaymentsOf, Paid

LEMMA ChargedByPay ==
    ASSUME LedgerTypeOK, TxnShape, FeeChargedOnce, NEW p \in Requests, NEW x \in Payments, Pay(p, x)
    PROVE  FeeChargedOnce'
<1> USE DEF LedgerTypeOK
<1>0. PICK paid \in Fees : paid = txn[p].fee
  BY DEF Pay, TxnShape
<1>1. fee[paid] \in Fee /\ fee[paid].status = "pending" /\ payment[x] = None
  BY <1>0 DEF Pay
<1>2. payment'[x] = FeeMovement(paid) /\ \A y \in Payments : y # x => payment'[y] = payment[y]
  BY <1>0 DEF Pay
<1>3. FeeMovement(paid) # None /\ FeeMovement(paid).fee = paid /\ ~FeeMovement(paid).voided
  <2>1. FeeMovement(paid) \in Payment
    BY <1>1 DEF FeeMovement, Payment
  <2> QED
    BY <2>1, NoneAssumption DEF FeeMovement
<1>4. fee'[paid] = [fee[paid] EXCEPT !.status = "paid", !.payment = x]
      /\ \A f \in Fees : f # paid => fee'[f] = fee[f]
  BY <1>0, <1>1 DEF Pay
<1>5. fee'[paid] \in Fee /\ fee'[paid].status = "paid" /\ fee'[paid].payment = x
  BY <1>1, <1>4 DEF Fee
<1>6. PaymentsOf(paid) = {}
  BY <1>1 DEF FeeChargedOnce, PaymentsOf
<1>7. PaymentsOf(paid)' = {x}
  BY <1>1, <1>2, <1>3, <1>6 DEF PaymentsOf, Valid
<1>8. \A f \in Fees : f # paid => PaymentsOf(f)' = PaymentsOf(f)
  BY <1>1, <1>2, <1>3 DEF PaymentsOf, Valid
<1>9. ASSUME NEW f \in Fees
      PROVE  PaymentsOf(f)' = (IF Paid(f)' THEN {fee'[f].payment} ELSE {})
  <2>1. CASE f = paid
    BY <1>5, <1>7, <2>1, NoneAssumption DEF Paid
  <2>2. CASE f # paid
    BY <1>4, <1>8, <2>2 DEF FeeChargedOnce, PaymentsOf, Paid
  <2> QED
    BY <2>1, <2>2
<1>10. \A f \in Fees : fee[f] # None => fee'[f] # None
  BY <1>4, <1>5, NoneAssumption
<1>11. ASSUME NEW y \in Payments, payment'[y] # None, payment'[y].fee # None
       PROVE  fee'[payment'[y].fee] # None
  <2>1. CASE y = x
    BY <1>1, <1>2, <1>3, <1>10, <2>1, NoneAssumption
  <2>2. CASE y # x
    BY <1>2, <1>10, <1>11, <2>2 DEF FeeChargedOnce, Payment
  <2> QED
    BY <2>1, <2>2
<1> QED
  BY <1>9, <1>11 DEF FeeChargedOnce, PaymentsOf, Paid

LEMMA ChargedByVoid ==
    ASSUME LedgerTypeOK, TxnShape, FeeChargedOnce, NEW p \in Requests, Void(p)
    PROVE  FeeChargedOnce'
<1> USE DEF LedgerTypeOK
<1> DEFINE x == txn[p].pay
<1>1. x \in Payments /\ payment[x] \in Payment
  BY DEF Void, TxnShape, Voiding
<1>2. payment'[x] = [payment[x] EXCEPT !.voided = TRUE] /\ \A y \in Payments : y # x => payment'[y] = payment[y]
  BY <1>1 DEF Void
<1>3. payment'[x] \in Payment /\ payment'[x].voided /\ payment'[x].fee = payment[x].fee
  BY <1>1, <1>2 DEF Payment
<1>4. \A f \in Fees : fee'[f] =
          IF fee[f] # None /\ fee[f].status = "paid" /\ fee[f].payment = x
          THEN [fee[f] EXCEPT !.status = "pending", !.payment = None] ELSE fee[f]
  BY DEF Void
<1>5. \A f \in Fees : fee[f] # None => /\ [fee[f] EXCEPT !.status = "pending", !.payment = None] \in Fee
                                       /\ [fee[f] EXCEPT !.status = "pending", !.payment = None].status = "pending"
  BY DEF Fee
<1> HIDE DEF x
<1>6. \A f \in Fees : PaymentsOf(f)' = PaymentsOf(f) \ {x}
  BY <1>1, <1>2, <1>3, NoneAssumption DEF PaymentsOf, Valid
<1>7. ASSUME NEW f \in Fees
      PROVE  PaymentsOf(f)' = (IF Paid(f)' THEN {fee'[f].payment} ELSE {})
  <2>1. PaymentsOf(f) = IF Paid(f) THEN {fee[f].payment} ELSE {}
    BY DEF FeeChargedOnce, PaymentsOf, Paid
  <2>2. CASE Paid(f) /\ fee[f].payment = x
    <3>1. ~Paid(f)'
      BY <1>4, <1>5, <2>2 DEF Paid
    <3> QED
      BY <1>6, <2>1, <2>2, <3>1
  <2>3. CASE ~(Paid(f) /\ fee[f].payment = x)
    <3>1. fee'[f] = fee[f]
      BY <1>4, <2>3 DEF Paid
    <3> QED
      BY <1>6, <2>1, <2>3, <3>1 DEF Paid
  <2> QED
    BY <2>2, <2>3
<1>8. \A f \in Fees : fee[f] # None => fee'[f] # None
  <2>1. \A f \in Fees : fee[f] # None => fee'[f] = fee[f] \/ fee'[f] \in Fee
    BY <1>4, <1>5
  <2>2. None \notin Fee
    BY NoneAssumption
  <2> QED
    BY <2>1, <2>2
<1>9. \A y \in Payments : payment'[y] # None => payment[y] # None /\ payment'[y].fee = payment[y].fee
  BY <1>1, <1>2, <1>3, NoneAssumption
<1> QED
  BY <1>7, <1>8, <1>9 DEF FeeChargedOnce, PaymentsOf, Paid, Payment

LEMMA FeeChargedStep ==
    LedgerTypeOK /\ TxnShape /\ FeeChargedOnce /\ [Next]_vars => FeeChargedOnce'
<1> SUFFICES ASSUME LedgerTypeOK, TxnShape, FeeChargedOnce, [Next]_vars PROVE FeeChargedOnce'
  OBVIOUS
<1> USE DEF LedgerTypeOK
<1>1. CASE UNCHANGED <<fee, payment>>
  BY <1>1 DEF FeeChargedOnce, Valid
<1>2. ASSUME NEW p \in Requests, CommitGenerate(p) PROVE FeeChargedOnce'
  <2>1. \A f \in Fees : fee'[f] = fee[f] \/ (fee'[f] # None /\ ~Paid(f) /\ ~Paid(f)')
    BY <1>2, GeneratedFees, NoneAssumption DEF Paid
  <2> QED
    BY <1>2, <2>1, ChargedUntouched DEF CommitGenerate
<1>3. ASSUME NEW f \in Fees, CancelFee(f) PROVE FeeChargedOnce'
  <2>1. fee'[f] = [fee[f] EXCEPT !.status = "cancelled"] /\ \A g \in Fees : g # f => fee'[g] = fee[g]
    BY <1>3 DEF CancelFee
  <2>2. fee'[f] \in Fee /\ fee'[f].status = "cancelled"
    BY <1>3, <2>1 DEF CancelFee, Fee
  <2>3. \A g \in Fees : fee'[g] = fee[g] \/ (fee'[g] # None /\ ~Paid(g) /\ ~Paid(g)')
    BY <1>3, <2>1, <2>2, NoneAssumption DEF CancelFee, Paid
  <2> QED
    BY <1>3, <2>3, ChargedUntouched DEF CancelFee
<1>4. ASSUME NEW m \in Members, EraseMember(m) PROVE FeeChargedOnce'
  <2>1. \A x \in Payments : payment[x] # None /\ payment[x].fee # None
                            => fee[payment[x].fee] # None /\ fee[payment[x].fee].member # m
    BY <1>4 DEF EraseMember, FeeChargedOnce
  <2>2. \A f \in Fees : PaymentsOf(f)' = PaymentsOf(f)
    BY <1>4 DEF EraseMember, PaymentsOf, Valid
  <2>3. ASSUME NEW f \in Fees
        PROVE  PaymentsOf(f)' = (IF Paid(f)' THEN {fee'[f].payment} ELSE {})
    <3>1. PaymentsOf(f) = IF Paid(f) THEN {fee[f].payment} ELSE {}
      BY DEF FeeChargedOnce, PaymentsOf, Paid
    <3>2. CASE fee[f] # None /\ fee[f].member = m
      <4>1. PaymentsOf(f) = {} /\ fee'[f] = None
        BY <1>4, <2>1, <3>2, NoneAssumption DEF EraseMember, PaymentsOf, Valid
      <4> QED
        BY <2>2, <4>1 DEF Paid
    <3>3. CASE ~(fee[f] # None /\ fee[f].member = m)
      <4>1. fee'[f] = fee[f]
        BY <1>4, <3>3 DEF EraseMember
      <4> QED
        BY <2>2, <3>1, <4>1 DEF Paid
    <3> QED
      BY <3>2, <3>3
  <2>4. \A x \in Payments : payment'[x] # None /\ payment'[x].fee # None => fee'[payment'[x].fee] # None
    BY <1>4, <2>1 DEF EraseMember, Payment
  <2> QED
    BY <2>3, <2>4 DEF FeeChargedOnce, PaymentsOf, Paid
<1>5. ASSUME NEW x \in Payments, payment[x] = None, UNCHANGED fee,
             \E pay \in Payment : pay.fee = None /\ payment' = [payment EXCEPT ![x] = pay]
      PROVE FeeChargedOnce'
  <2>1. None \notin Payment
    BY NoneAssumption
  <2>2. payment'[x] # None /\ payment'[x].fee = None /\ ~Valid(x)
        /\ \A y \in Payments : y # x => payment'[y] = payment[y]
    BY <1>5, <2>1 DEF Valid
  <2> QED
    BY <1>5, <2>2, ChargedUntouched
<1>6. ASSUME NEW p \in Requests, NEW x \in Payments, Charge(p, x) PROVE FeeChargedOnce'
  <2> DEFINE new == [income |-> txn[p].income, amount |-> txn[p].amount, res |-> txn[p].res,
                     fee |-> None, voided |-> FALSE]
  <2>1. new \in Payment /\ new.fee = None
    BY DEF Transaction, Payment
  <2> QED
    BY <1>5, <1>6, <2>1 DEF Charge
<1>7. ASSUME NEW x \in Payments, NEW income \in BOOLEAN, NEW amount \in Amounts, Register(x, income, amount)
      PROVE FeeChargedOnce'
  <2> DEFINE new == [income |-> income, amount |-> amount, res |-> None, fee |-> None, voided |-> FALSE]
  <2>1. new \in Payment /\ new.fee = None
    BY DEF Payment
  <2> QED
    BY <1>5, <1>7, <2>1 DEF Register
<1>8. ASSUME NEW p \in Requests, NEW x \in Payments, Pay(p, x) PROVE FeeChargedOnce'
  BY <1>8, ChargedByPay
<1>9. ASSUME NEW p \in Requests, Void(p) PROVE FeeChargedOnce'
  BY <1>9, ChargedByVoid
<1> QED
  BY <1>1, <1>2, <1>3, <1>4, <1>6, <1>7, <1>8, <1>9
  DEF Next, vars, FeeStep, CashStep, BeginGenerate, InsertFee, BeginPay, LockCharged, CheckCharge,
      LockVoided, LockItsReservation, CheckVoid, Abort, SetPrice, EndReservation

-----------------------------------------------------------------------------
\* What the transactions of fees.py and cash.py maintain together.
THEOREM LedgerInvCorrect == Spec => []LedgerInv
<1>1. LedgerInv /\ [Next]_vars => LedgerInv'
  BY LedgerTypeStep, TxnShapeStep, ClaimsStep, FeesExistStep, FeeChargedStep, OneFeeStep DEF LedgerInv
<1> QED
  BY InitLedger, <1>1, PTL DEF Spec

\* Every table and transaction of the ledger keeps its type.
THEOREM LedgerTypeCorrect == Spec => []LedgerTypeOK
BY LedgerInvCorrect, PTL DEF LedgerInv

\* However many requests pay, void, cancel and generate fees at once, and
\* whoever is erased meanwhile, each fee is charged by one standing payment if
\* it is paid and by none otherwise.
THEOREM FeesAreChargedOnce == Spec => []FeeChargedOnce
BY LedgerInvCorrect, PTL DEF LedgerInv

\* However many times the month is generated at once, nobody owes two fees.
THEOREM NobodyIsBilledTwice == Spec => []OneFeePerMonth
BY LedgerInvCorrect, PTL DEF LedgerInv

-----------------------------------------------------------------------------
(* Income and cancellation *)

\* A charge that passed its check still holds the reservation it checked.
IncomeChecked ==
    \A p \in Requests : txn[p].pc = "charged" /\ txn[p].income => res[txn[p].res].status # "cancelled"

LEMMA IncomeCheckedStep ==
    LedgerTypeOK /\ TxnShape /\ IncomeChecked /\ [Next]_vars => IncomeChecked'
<1> SUFFICES ASSUME LedgerTypeOK, TxnShape, IncomeChecked, [Next]_vars PROVE IncomeChecked'
  OBVIOUS
<1> USE DEF LedgerTypeOK
<1>1. CASE UNCHANGED <<txn, res>>
  BY <1>1 DEF IncomeChecked
<1>2. ASSUME NEW p \in Requests, UNCHANGED res, txn'[p].pc # "charged",
             \A q \in Requests : q # p => txn'[q] = txn[q]
      PROVE  IncomeChecked'
  BY <1>2 DEF IncomeChecked
<1>3. ASSUME NEW p \in Requests, CheckCharge(p) PROVE IncomeChecked'
  <2>1. txn'[p] = [txn[p] EXCEPT !.pc = "charged"] /\ \A q \in Requests : q # p => txn'[q] = txn[q]
    BY <1>3 DEF CheckCharge, Goto
  <2>2. txn'[p].income = txn[p].income /\ txn'[p].res = txn[p].res
    BY <2>1 DEF Transaction
  <2> QED
    BY <1>3, <2>1, <2>2 DEF CheckCharge, IncomeChecked
<1>4. ASSUME NEW r \in Res, UNCHANGED txn, ResFree(r), \A s \in Res : s # r => res'[s] = res[s]
      PROVE IncomeChecked'
  BY <1>4 DEF IncomeChecked, ResFree, TxnShape, Charging
<1>5. ASSUME NEW r \in Res, (\E price \in Prices : SetPrice(r, price))
                            \/ (\E st \in {"completed", "cancelled"} : EndReservation(r, st))
      PROVE IncomeChecked'
  BY <1>4, <1>5 DEF SetPrice, EndReservation
<1>6. ASSUME NEW p \in Requests, FeeStep(p) PROVE IncomeChecked'
  <2>1. CASE BeginGenerate(p)
    <3>1. PICK t \in SUBSET Members : txn' = [txn EXCEPT ![p] = [Idle EXCEPT !.pc = "generating", !.todo = t]]
      BY <2>1 DEF BeginGenerate
    <3> QED
      BY <1>2, <2>1, <3>1 DEF BeginGenerate, Idle
  <2>2. ASSUME NEW m \in Members, InsertFee(p, m) PROVE IncomeChecked'
    <3>1. txn'[p].pc = "generating" /\ \A q \in Requests : q # p => txn'[q] = txn[q]
      BY <2>2 DEF InsertFee, TxnShape, Transaction
    <3> QED
      BY <1>2, <2>2, <3>1 DEF InsertFee
  <2>3. CASE CommitGenerate(p)
    BY <1>2, <2>3 DEF CommitGenerate, Commit, Idle
  <2>4. ASSUME NEW f \in Fees, BeginPay(p, f) PROVE IncomeChecked'
    BY <1>2, <2>4 DEF BeginPay, Idle
  <2>5. ASSUME NEW x \in Payments, Pay(p, x) PROVE IncomeChecked'
    BY <1>2, <2>5 DEF Pay, Commit, Idle
  <2> QED
    BY <1>6, <2>1, <2>2, <2>3, <2>4, <2>5 DEF FeeStep
<1>7. ASSUME NEW p \in Requests, CashStep(p) PROVE IncomeChecked'
  <2>1. ASSUME NEW r \in Res, NEW income \in BOOLEAN, NEW amount \in Amounts, LockCharged(p, r, income, amount)
        PROVE IncomeChecked'
    BY <1>2, <2>1 DEF LockCharged, Idle
  <2>2. ASSUME NEW x \in Payments, LockVoided(p, x) PROVE IncomeChecked'
    BY <1>2, <2>2 DEF LockVoided, Idle
  <2>3. CASE LockItsReservation(p)
    <3>1. txn'[p].pc = "balancing" /\ \A q \in Requests : q # p => txn'[q] = txn[q]
      BY <2>3 DEF LockItsReservation, Transaction
    <3> QED
      BY <1>2, <2>3, <3>1 DEF LockItsReservation
  <2>4. CASE CheckVoid(p)
    BY <1>2, <2>4 DEF CheckVoid, Goto, Transaction
  <2>5. CASE Void(p)
    BY <1>2, <2>5 DEF Void, Commit, Idle
  <2>6. ASSUME NEW x \in Payments, Charge(p, x) PROVE IncomeChecked'
    BY <1>2, <2>6 DEF Charge, Commit, Idle
  <2> QED
    BY <1>3, <1>7, <2>1, <2>2, <2>3, <2>4, <2>5, <2>6 DEF CashStep
<1>8. ASSUME NEW p \in Requests, Abort(p) PROVE IncomeChecked'
  BY <1>2, <1>8 DEF Abort, Commit, Idle
<1> QED
  BY <1>1, <1>5, <1>6, <1>7, <1>8 DEF Next, vars, CancelFee, EraseMember, Register

LEMMA IncomeStep ==
    ASSUME LedgerTypeOK, TxnShape, IncomeChecked, [Next]_vars, NEW x \in Payments,
           payment[x] = None, payment'[x] # None, payment'[x].res # None, payment'[x].income
    PROVE  res[payment'[x].res].status # "cancelled"
<1> USE DEF LedgerTypeOK
<1>1. ASSUME NEW p \in Requests, NEW y \in Payments, Charge(p, y)
      PROVE  res[payment'[x].res].status # "cancelled"
  <2>1. y = x
    BY <1>1 DEF Charge
  <2> QED
    BY <1>1, <2>1 DEF Charge, IncomeChecked
<1>2. ASSUME NEW p \in Requests, NEW y \in Payments, Pay(p, y) PROVE FALSE
  BY <1>2 DEF Pay, FeeMovement
<1>3. ASSUME NEW y \in Payments, NEW income \in BOOLEAN, NEW amount \in Amounts, Register(y, income, amount)
      PROVE FALSE
  BY <1>3 DEF Register
<1>4. ASSUME NEW p \in Requests, Void(p) PROVE FALSE
  BY <1>4 DEF Void, TxnShape, Voiding
<1> QED
  BY <1>1, <1>2, <1>3, <1>4
  DEF Next, vars, FeeStep, CashStep, BeginGenerate, CommitGenerate, InsertFee, BeginPay, LockCharged, CheckCharge,
      LockVoided, LockItsReservation, CheckVoid, Abort, CancelFee, EraseMember, SetPrice, EndReservation

\* Between its check and its INSERT a charge holds the reservation, so no income
\* is ever registered on a reservation that is already cancelled.
THEOREM NoIncomeAfterCancelling == Spec => NoIncomeOnCancelled
<1>1. Init => IncomeChecked
  BY DEF Init, IncomeChecked, Idle
<1>2. LedgerInv /\ IncomeChecked /\ [Next]_vars => IncomeChecked'
  BY IncomeCheckedStep DEF LedgerInv
<1>3. LedgerInv /\ IncomeChecked /\ [Next]_vars
      => [\A x \in Payments :
            payment[x] = None /\ payment'[x] # None /\ payment'[x].res # None /\ payment'[x].income
            => res[payment'[x].res].status # "cancelled"]_vars
  BY IncomeStep DEF LedgerInv
<1> QED
  BY LedgerInvCorrect, <1>1, <1>2, <1>3, PTL DEF Spec, NoIncomeOnCancelled

-----------------------------------------------------------------------------
(* Sums over finite sets *)

\* Induction, with the induction predicate as a set.
LEMMA NatInduct ==
    ASSUME NEW A, 0 \in A, \A n \in Nat : n \in A => n + 1 \in A
    PROVE  \A n \in Nat : n \in A
<1> DEFINE T == Nat \ A
<1>1. SUFFICES ASSUME T # {} PROVE FALSE
  OBVIOUS
<1>2. IsWellFoundedOn(OpToRel(<, Nat), Nat)
  BY NatLessThanWellFounded
<1>3. PICK n \in T : \A m \in T : ~ (<<m, n>> \in OpToRel(<, Nat))
  BY <1>1, <1>2, WFMin
<1>4. \A m \in T : ~ (m < n)
  BY <1>3 DEF OpToRel
<1>5. n # 0 /\ n - 1 \in Nat /\ n - 1 < n
  OBVIOUS
<1>6. n - 1 \in A /\ (n - 1) + 1 = n
  BY <1>4, <1>5
<1> QED
  BY <1>5, <1>6

\* g is the table of partial sums that SumFunctionOnSet(f, S) looks up.
Any(s) == CHOOSE x \in s : TRUE
Sums(f, T, g) == g = [s \in T |-> IF s = {} THEN 0 ELSE f[Any(s)] + g[s \ {Any(s)}]]

\* A non-empty set has an element to start with.
LEMMA AnyIn == ASSUME NEW s, s # {} PROVE Any(s) \in s
BY DEF Any

Small(S, n) == {s \in SUBSET S : Cardinality(s) <= n}

\* What the inductions need to know of the subsets of a finite set.
LEMMA SmallSets ==
    ASSUME NEW S, IsFiniteSet(S), NEW s \in SUBSET S
    PROVE  /\ IsFiniteSet(s) /\ Cardinality(s) \in Nat
           /\ Cardinality(s) <= Cardinality(S)
           /\ Cardinality(s) = 0 <=> s = {}
           /\ \A x \in s : s \ {x} \in SUBSET S /\ Cardinality(s \ {x}) = Cardinality(s) - 1
<1>1. IsFiniteSet(s) /\ Cardinality(s) <= Cardinality(S)
  BY FS_Subset
<1>2. Cardinality(s) \in Nat
  BY <1>1, FS_CardinalityType
<1>3. Cardinality(s) = 0 <=> s = {}
  BY <1>1, FS_EmptySet
<1>4. ASSUME NEW x \in s PROVE Cardinality(s \ {x}) = Cardinality(s) - 1
  BY <1>1, FS_RemoveElement
<1> QED
  BY <1>1, <1>2, <1>3, <1>4

\* The table exists: each size of subsets is built from the one before.
LEMMA SumsExist ==
    ASSUME NEW S, IsFiniteSet(S), NEW f
    PROVE  \E g : Sums(f, SUBSET S, g)
<1> DEFINE A == {n \in Nat : \E g : Sums(f, Small(S, n), g)}
<1>1. 0 \in A
  <2> DEFINE g == [s \in Small(S, 0) |-> 0]
  <2>1. \A s \in Small(S, 0) : s = {}
    BY SmallSets DEF Small
  <2>2. Sums(f, Small(S, 0), g)
    BY <2>1 DEF Sums
  <2> QED
    BY <2>2
<1>2. ASSUME NEW n \in Nat, n \in A PROVE n + 1 \in A
  <2>1. PICK g : Sums(f, Small(S, n), g)
    BY <1>2
  <2> DEFINE h == [s \in Small(S, n + 1) |->
                     IF s \in Small(S, n) THEN g[s] ELSE f[Any(s)] + g[s \ {Any(s)}]]
  <2>2. ASSUME NEW s \in Small(S, n + 1), s # {} PROVE s \ {Any(s)} \in Small(S, n) /\ s \ {Any(s)} \in Small(S, n + 1)
    <3>1. Any(s) \in s
      BY <2>2, AnyIn
    <3>2. s \in SUBSET S /\ Cardinality(s) <= n + 1
      BY DEF Small
    <3>3. /\ Cardinality(s) \in Nat
          /\ s \ {Any(s)} \in SUBSET S
          /\ Cardinality(s \ {Any(s)}) = Cardinality(s) - 1
      BY <3>1, <3>2, SmallSets
    <3> QED
      BY <3>2, <3>3 DEF Small
  <2>3. {} \in Small(S, n)
    BY SmallSets DEF Small
  <2>4. ASSUME NEW s \in Small(S, n + 1)
        PROVE  h[s] = IF s = {} THEN 0 ELSE f[Any(s)] + h[s \ {Any(s)}]
    <3>1. CASE s = {}
      BY <2>1, <2>3, <3>1 DEF Sums
    <3>2. CASE s # {} /\ s \in Small(S, n)
      <4>1. g[s] = f[Any(s)] + g[s \ {Any(s)}]
        BY <2>1, <3>2 DEF Sums
      <4>2. h[s] = g[s] /\ h[s \ {Any(s)}] = g[s \ {Any(s)}]
        BY <2>2, <3>2
      <4> QED
        BY <3>2, <4>1, <4>2
    <3>3. CASE s # {} /\ s \notin Small(S, n)
      <4>1. h[s] = f[Any(s)] + g[s \ {Any(s)}]
        BY <3>3
      <4>2. h[s \ {Any(s)}] = g[s \ {Any(s)}]
        BY <2>2, <3>3
      <4> QED
        BY <3>3, <4>1, <4>2
    <3> QED
      BY <3>1, <3>2, <3>3
  <2>5. Sums(f, Small(S, n + 1), h)
    <3> HIDE DEF h
    <3>1. h = [s \in Small(S, n + 1) |-> h[s]]
      BY DEF h
    <3> QED
      BY <2>4, <3>1 DEF Sums
  <2> QED
    BY <2>5
<1>3. Cardinality(S) \in Nat
  BY FS_CardinalityType
<1>4. Cardinality(S) \in A
  <2> HIDE DEF A
  <2> QED
    BY <1>1, <1>2, <1>3, NatInduct
<1>5. Small(S, Cardinality(S)) = SUBSET S
  BY SmallSets DEF Small
<1> QED
  BY <1>4, <1>5

\* Two such sums agree on the subsets they share.
LEMMA SumsAgree ==
    ASSUME NEW S, IsFiniteSet(S), NEW T \in SUBSET S, NEW f, NEW e, NEW g, NEW h,
           \A x \in T : f[x] = e[x],
           Sums(f, SUBSET S, g), Sums(e, SUBSET T, h)
    PROVE  g[T] = h[T]
<1> DEFINE A == {n \in Nat : \A s \in SUBSET T : Cardinality(s) = n => g[s] = h[s]}
<1>f. \A s \in SUBSET T : IsFiniteSet(s) /\ Cardinality(s) \in Nat
  BY SmallSets
<1>1. 0 \in A
  <2>1. \A s \in SUBSET T : Cardinality(s) = 0 => s = {}
    BY SmallSets
  <2> QED
    BY <2>1 DEF Sums
<1>2. ASSUME NEW n \in Nat, n \in A PROVE n + 1 \in A
  <2> SUFFICES ASSUME NEW s \in SUBSET T, Cardinality(s) = n + 1 PROVE g[s] = h[s]
    OBVIOUS
  <2>1. s # {} /\ s \in SUBSET S
    BY SmallSets
  <2>2. Any(s) \in s
    BY <2>1, AnyIn
  <2>3. Cardinality(s \ {Any(s)}) = n
    BY <2>1, <2>2, SmallSets
  <2>4. g[s \ {Any(s)}] = h[s \ {Any(s)}]
    BY <1>2, <2>3
  <2>5. g[s] = f[Any(s)] + g[s \ {Any(s)}]
    BY <2>1 DEF Sums
  <2>6. h[s] = e[Any(s)] + h[s \ {Any(s)}]
    BY <2>1 DEF Sums
  <2> QED
    BY <2>2, <2>4, <2>5, <2>6
<1>3. Cardinality(T) \in A
  <2> HIDE DEF A
  <2> QED
    BY <1>1, <1>2, <1>f, NatInduct
<1> QED
  BY <1>3

\* The sum of the library is read off such a table.
LEMMA SumIsSums ==
    ASSUME NEW S, IsFiniteSet(S), NEW f
    PROVE  \E g : Sums(f, SUBSET S, g) /\ SumFunctionOnSet(f, S) = g[S]
<1> DEFINE g == CHOOSE g : Sums(f, SUBSET S, g)
<1>1. Sums(f, SUBSET S, g)
  BY SumsExist
<1>2. SumFunctionOnSet(f, S) = g[S]
  BY DEF SumFunctionOnSet, FoldFunctionOnSet, MapThenFoldSet, Sums, Any
<1> QED
  BY <1>1, <1>2

\* The empty sum.
LEMMA SumOfEmpty == ASSUME NEW f PROVE SumFunctionOnSet(f, {}) = 0
<1>1. IsFiniteSet({})
  BY FS_EmptySet
<1>2. PICK g : Sums(f, SUBSET {}, g) /\ SumFunctionOnSet(f, {}) = g[{}]
  BY <1>1, SumIsSums
<1> QED
  BY <1>2 DEF Sums

\* A sum depends on the values summed only.
LEMMA SumSame ==
    ASSUME NEW S, IsFiniteSet(S), NEW f, NEW e, \A x \in S : f[x] = e[x]
    PROVE  SumFunctionOnSet(f, S) = SumFunctionOnSet(e, S)
<1>1. PICK g : Sums(f, SUBSET S, g) /\ SumFunctionOnSet(f, S) = g[S]
  BY SumIsSums
<1>2. PICK h : Sums(e, SUBSET S, h) /\ SumFunctionOnSet(e, S) = h[S]
  BY SumIsSums
<1> QED
  BY <1>1, <1>2, SumsAgree

\* A sum takes out first the element that CHOOSE picks ...
LEMMA SumStep ==
    ASSUME NEW S, IsFiniteSet(S), S # {}, NEW f
    PROVE  SumFunctionOnSet(f, S) = f[Any(S)] + SumFunctionOnSet(f, S \ {Any(S)})
<1>1. PICK g : Sums(f, SUBSET S, g) /\ SumFunctionOnSet(f, S) = g[S]
  BY SumIsSums
<1> DEFINE T == S \ {Any(S)}
<1>2. IsFiniteSet(T) /\ T \in SUBSET S
  BY FS_RemoveElement
<1>3. PICK h : Sums(f, SUBSET T, h) /\ SumFunctionOnSet(f, T) = h[T]
  BY <1>2, SumIsSums
<1>4. g[T] = h[T]
  <2> HIDE DEF T
  <2>1. \A x \in T : f[x] = f[x]
    OBVIOUS
  <2> QED
    BY <2>1, <1>1, <1>2, <1>3, SumsAgree, SMTT(60)
<1>5. g[S] = f[Any(S)] + g[T]
  BY <1>1 DEF Sums
<1> QED
  BY <1>1, <1>3, <1>4, <1>5

\* ... stays within the integers ...
LEMMA SumInt ==
    ASSUME NEW S, IsFiniteSet(S), NEW f, \A x \in S : f[x] \in Int
    PROVE  \A s \in SUBSET S : SumFunctionOnSet(f, s) \in Int
<1> DEFINE A == {n \in Nat : \A s \in SUBSET S : Cardinality(s) = n => SumFunctionOnSet(f, s) \in Int}
<1>1. 0 \in A
  <2>1. \A s \in SUBSET S : Cardinality(s) = 0 => s = {}
    BY SmallSets
  <2> QED
    BY <2>1, SumOfEmpty
<1>2. ASSUME NEW n \in Nat, n \in A PROVE n + 1 \in A
  <2> SUFFICES ASSUME NEW s \in SUBSET S, Cardinality(s) = n + 1 PROVE SumFunctionOnSet(f, s) \in Int
    OBVIOUS
  <2>1. s # {} /\ IsFiniteSet(s)
    BY SmallSets
  <2>2. Any(s) \in s
    BY <2>1, AnyIn
  <2>3. s \ {Any(s)} \in SUBSET S /\ Cardinality(s \ {Any(s)}) = n
    BY <2>2, SmallSets
  <2>4. SumFunctionOnSet(f, s \ {Any(s)}) \in Int
    BY <1>2, <2>3
  <2> QED
    BY <2>1, <2>2, <2>4, SumStep
<1>3. \A n \in Nat : n \in A
  <2> HIDE DEF A
  <2> QED
    BY <1>1, <1>2, NatInduct
<1> QED
  BY <1>3, SmallSets

\* ... and so may take out any other.
LEMMA SumTakesOut ==
    ASSUME NEW S, IsFiniteSet(S), NEW f, \A x \in S : f[x] \in Int
    PROVE  \A x \in S : SumFunctionOnSet(f, S) = f[x] + SumFunctionOnSet(f, S \ {x})
<1> DEFINE Su(t) == SumFunctionOnSet(f, t)
           A == {n \in Nat : \A s \in SUBSET S : Cardinality(s) = n =>
                    \A x \in s : Su(s) = f[x] + Su(s \ {x})}
<1>1. 0 \in A
  <2>1. \A s \in SUBSET S : Cardinality(s) = 0 => s = {}
    BY SmallSets
  <2> QED
    BY <2>1
<1>i. \A s \in SUBSET S : Su(s) \in Int
  BY SumInt
<1>2. ASSUME NEW n \in Nat, n \in A PROVE n + 1 \in A
  <2> SUFFICES ASSUME NEW s \in SUBSET S, Cardinality(s) = n + 1, NEW x \in s
               PROVE  Su(s) = f[x] + Su(s \ {x})
    OBVIOUS
  <2> DEFINE a == Any(s)
  <2>1. s # {} /\ IsFiniteSet(s)
    BY SmallSets
  <2>2. a \in s
    BY <2>1, AnyIn
  <2>3. Su(s) = f[a] + Su(s \ {a})
    BY <2>1, SumStep
  <2>4. \A y \in s : s \ {y} \in SUBSET S /\ Cardinality(s \ {y}) = n
    BY SmallSets
  <2>5. \A y \in s : \A z \in s \ {y} : Su(s \ {y}) = f[z] + Su((s \ {y}) \ {z})
    BY <1>2, <2>4
  <2> HIDE DEF a, Su
  <2>6. ASSUME x # a PROVE Su(s) = f[x] + Su(s \ {x})
    <3>1. (s \ {a}) \ {x} = (s \ {x}) \ {a}
      OBVIOUS
    <3>2. Su(s \ {a}) = f[x] + Su((s \ {a}) \ {x})
      BY <2>2, <2>5, <2>6
    <3>3. Su(s \ {x}) = f[a] + Su((s \ {x}) \ {a})
      BY <2>2, <2>5, <2>6
    <3>4. Su((s \ {a}) \ {x}) \in Int /\ f[x] \in Int /\ f[a] \in Int
      BY <1>i, <2>2
    <3>5. Su(s) = f[a] + (f[x] + Su((s \ {a}) \ {x}))
      BY <2>3, <3>2
    <3>6. Su(s \ {x}) = f[a] + Su((s \ {a}) \ {x})
      BY <3>1, <3>3
    <3> QED
      BY <3>4, <3>5, <3>6
  <2> QED
    BY <2>3, <2>6
<1>3. \A n \in Nat : n \in A
  <2> HIDE DEF A
  <2> QED
    BY <1>1, <1>2, NatInduct
<1> QED
  BY <1>3, FS_CardinalityType

-----------------------------------------------------------------------------
(* The balance of a reservation *)

\* What an element that comes or goes does to a sum.
LEMMA SumAdds ==
    ASSUME NEW S, IsFiniteSet(S), NEW x, x \notin S, NEW f, NEW g,
           \A y \in S : f[y] \in Int /\ g[y] = f[y], g[x] \in Int
    PROVE  SumFunctionOnSet(g, S \cup {x}) = g[x] + SumFunctionOnSet(f, S)
<1> DEFINE T == S \cup {x}
<1>1. IsFiniteSet(T) /\ (\A y \in T : g[y] \in Int) /\ T \ {x} = S
  BY FS_AddElement
<1>2. SumFunctionOnSet(g, T) = g[x] + SumFunctionOnSet(g, T \ {x})
  <2> HIDE DEF T
  <2>1. \A y \in T : SumFunctionOnSet(g, T) = g[y] + SumFunctionOnSet(g, T \ {y})
    BY <1>1, SumTakesOut
  <2> QED
    BY <2>1 DEF T
<1>3. SumFunctionOnSet(g, S) = SumFunctionOnSet(f, S)
  BY SumSame
<1> QED
  BY <1>1, <1>2, <1>3

\* The payments that stand on each reservation, and what each moves.
Moves(r) == [x \in Standing(r) |-> Signed(payment[x])]

CollectedIsSum ==
    \A r \in Res :
        /\ IsFiniteSet(Standing(r))
        /\ \A x \in Standing(r) : Moves(r)[x] = Signed(payment[x]) /\ Moves(r)[x] \in Int
        /\ Collected(r) = SumFunctionOnSet(Moves(r), Standing(r))
        /\ Collected(r) \in Int

LEMMA CollectedSums == LedgerTypeOK => CollectedIsSum
<1> SUFFICES ASSUME LedgerTypeOK, NEW r \in Res
             PROVE  /\ IsFiniteSet(Standing(r))
                    /\ \A x \in Standing(r) : Moves(r)[x] = Signed(payment[x]) /\ Moves(r)[x] \in Int
                    /\ Collected(r) = SumFunctionOnSet(Moves(r), Standing(r))
                    /\ Collected(r) \in Int
  BY DEF CollectedIsSum
<1>1. IsFiniteSet(Standing(r))
  BY PaymentsAssumption, FS_Subset DEF Standing
<1>2. ASSUME NEW x \in Standing(r) PROVE Signed(payment[x]) \in Int
  <2>1. payment[x] \in Payment
    BY DEF Standing, Valid, LedgerTypeOK
  <2>2. payment[x].amount \in Amounts \cup {Dues} /\ payment[x].income \in BOOLEAN
    BY <2>1 DEF Payment
  <2>3. Amounts \cup {Dues} \subseteq Int
    BY AmountAssumption
  <2> QED
    BY <2>2, <2>3 DEF Signed
<1>3. Collected(r) = SumFunctionOnSet(Moves(r), Standing(r))
  BY DEF Collected, SumFunction, Moves
<1>4. SumFunctionOnSet(Moves(r), Standing(r)) \in Int
  BY <1>1, <1>2, SumInt DEF Moves
<1> QED
  BY <1>1, <1>2, <1>3, <1>4 DEF Moves

LEMMA CollectedBothSides == LedgerTypeOK /\ LedgerTypeOK' => CollectedIsSum /\ CollectedIsSum'
BY CollectedSums, PTL

\* A payment that stands on no reservation before nor after moves no balance.
LEMMA CollectedKept ==
    ASSUME LedgerTypeOK, LedgerTypeOK', NEW r \in Res, Standing(r)' = Standing(r),
           \A x \in Standing(r) : Signed(payment'[x]) = Signed(payment[x])
    PROVE  Collected(r)' = Collected(r)
<1>1. CollectedIsSum /\ CollectedIsSum'
  BY CollectedBothSides
<1>2. \A x \in Standing(r) : Moves(r)[x] = Moves(r)'[x]
  BY <1>1 DEF CollectedIsSum
<1>3. SumFunctionOnSet(Moves(r), Standing(r)) = SumFunctionOnSet(Moves(r)', Standing(r))
  BY <1>1, <1>2, SumSame DEF CollectedIsSum
<1> QED
  BY <1>1, <1>3 DEF CollectedIsSum

LEMMA CollectedGrows ==
    ASSUME LedgerTypeOK, LedgerTypeOK', NEW r \in Res, NEW x, x \notin Standing(r),
           Standing(r)' = Standing(r) \cup {x},
           \A y \in Standing(r) : Signed(payment'[y]) = Signed(payment[y])
    PROVE  Collected(r)' = Collected(r) + Signed(payment'[x])
<1>1. CollectedIsSum /\ CollectedIsSum'
  BY CollectedBothSides
<1> DEFINE f == Moves(r)
           g == Moves(r)'
           S == Standing(r)
<1>2. IsFiniteSet(S) /\ (\A y \in S : f[y] \in Int /\ g[y] = f[y]) /\ g[x] \in Int /\ g[x] = Signed(payment'[x])
  BY <1>1 DEF CollectedIsSum
<1>3. SumFunctionOnSet(g, S \cup {x}) = g[x] + SumFunctionOnSet(f, S)
  <2> HIDE DEF f, g
  <2> QED
    BY <1>2, SumAdds
<1>4. Collected(r)' = SumFunctionOnSet(g, S \cup {x}) /\ Collected(r) = SumFunctionOnSet(f, S) /\ Collected(r) \in Int
  BY <1>1 DEF CollectedIsSum
<1> QED
  BY <1>2, <1>3, <1>4

LEMMA CollectedShrinks ==
    ASSUME LedgerTypeOK, LedgerTypeOK', NEW r \in Res, NEW x \in Standing(r),
           Standing(r)' = Standing(r) \ {x},
           \A y \in Standing(r) \ {x} : Signed(payment'[y]) = Signed(payment[y])
    PROVE  Collected(r)' = Collected(r) - Signed(payment[x])
<1>1. CollectedIsSum /\ CollectedIsSum'
  BY CollectedBothSides
<1> DEFINE f == Moves(r)'
           g == Moves(r)
           S == Standing(r) \ {x}
<1>2. IsFiniteSet(S) /\ (\A y \in S : f[y] \in Int /\ g[y] = f[y]) /\ g[x] \in Int /\ g[x] = Signed(payment[x])
  BY <1>1 DEF CollectedIsSum
<1>3. SumFunctionOnSet(g, S \cup {x}) = g[x] + SumFunctionOnSet(f, S)
  <2>1. x \notin S
    OBVIOUS
  <2> HIDE DEF f, g, S
  <2> QED
    BY <1>2, <2>1, SumAdds
<1>4. /\ Collected(r) = SumFunctionOnSet(g, S \cup {x}) /\ Collected(r) \in Int
      /\ Collected(r)' = SumFunctionOnSet(f, S) /\ Collected(r)' \in Int
  <2>1. S \cup {x} = Standing(r)
    OBVIOUS
  <2> QED
    BY <1>1, <2>1 DEF CollectedIsSum
<1> QED
  BY <1>2, <1>3, <1>4

\* Who holds a reservation FOR UPDATE, and that nobody else does.
Holding == Charging \cup {"balancing", "voidable"}

LocksExclude ==
    \A p, q \in Requests : p # q =>
        /\ txn[p].pc \in Holding /\ txn[q].pc \in Holding
           => txn[p].res # txn[q].res \/ txn[p].res = None
        /\ txn[p].pc \in Voiding /\ txn[q].pc \in Voiding => txn[p].pay # txn[q].pay

\* What a void has read of its payment.
VoidReads ==
    \A p \in Requests : txn[p].pc \in Voiding =>
        /\ Valid(txn[p].pay)
        /\ txn[p].res = IF txn[p].pc = "voiding" THEN None ELSE payment[txn[p].pay].res

\* What a charge or a void checked of the balance.
BalanceChecked ==
    \A p \in Requests :
        /\ txn[p].pc = "charged" => BalanceAllows(txn[p].res, Signed(txn[p]))
        /\ txn[p].pc = "voidable" /\ txn[p].res # None
           => BalanceAllows(txn[p].res, -Signed(payment[txn[p].pay]))

\* Each step changes one transaction at most.
OnlyOf(p) == \A q \in Requests : q # p => txn'[q] = txn[q]

LEMMA LocksStep ==
    LedgerTypeOK /\ TxnShape /\ LocksExclude /\ VoidReads /\ [Next]_vars => LocksExclude'
<1> SUFFICES ASSUME LedgerTypeOK, TxnShape, LocksExclude, VoidReads, [Next]_vars PROVE LocksExclude'
  OBVIOUS
<1> USE DEF LedgerTypeOK
<1>1. CASE UNCHANGED txn
  BY <1>1 DEF LocksExclude
<1>2. ASSUME NEW p \in Requests, OnlyOf(p),
             txn'[p].pc \notin Holding \/ (txn[p].pc \in Holding /\ txn'[p].res = txn[p].res),
             txn'[p].pc \notin Voiding \/ (txn[p].pc \in Voiding /\ txn'[p].pay = txn[p].pay)
      PROVE  LocksExclude'
  BY <1>2 DEF LocksExclude, OnlyOf
<1>3. ASSUME NEW p \in Requests, FeeStep(p) PROVE LocksExclude'
  <2>1. txn'[p].pc \notin Holding \cup Voiding /\ OnlyOf(p)
    <3>1. CASE BeginGenerate(p)
      <4>1. PICK t \in SUBSET Members : txn' = [txn EXCEPT ![p] = [Idle EXCEPT !.pc = "generating", !.todo = t]]
        BY <3>1 DEF BeginGenerate
      <4> QED
        BY <4>1 DEF OnlyOf, Holding, Charging, Voiding, Idle
    <3>2. ASSUME NEW m \in Members, InsertFee(p, m) PROVE txn'[p].pc \notin Holding \cup Voiding /\ OnlyOf(p)
      <4>1. txn'[p].pc = "generating" /\ OnlyOf(p)
        BY <3>2 DEF InsertFee, TxnShape, Transaction, OnlyOf
      <4> QED
        BY <4>1 DEF Holding, Charging, Voiding
    <3>3. CASE CommitGenerate(p)
      BY <3>3 DEF CommitGenerate, Commit, Idle, OnlyOf, Holding, Charging, Voiding
    <3>4. ASSUME NEW f \in Fees, BeginPay(p, f) PROVE txn'[p].pc \notin Holding \cup Voiding /\ OnlyOf(p)
      BY <3>4 DEF BeginPay, Idle, OnlyOf, Holding, Charging, Voiding
    <3>5. ASSUME NEW x \in Payments, Pay(p, x) PROVE txn'[p].pc \notin Holding \cup Voiding /\ OnlyOf(p)
      BY <3>5 DEF Pay, Commit, Idle, OnlyOf, Holding, Charging, Voiding
    <3> QED
      BY <1>3, <3>1, <3>2, <3>3, <3>4, <3>5 DEF FeeStep
  <2> QED
    BY <1>2, <2>1
<1>4. ASSUME NEW p \in Requests, CashStep(p) PROVE LocksExclude'
  <2>1. ASSUME NEW r \in Res, NEW income \in BOOLEAN, NEW amount \in Amounts, LockCharged(p, r, income, amount)
        PROVE LocksExclude'
    <3>1. txn'[p].pc = "charging" /\ txn'[p].res = r /\ OnlyOf(p)
      BY <2>1 DEF LockCharged, Idle, OnlyOf
    <3> QED
      BY <2>1, <3>1 DEF LockCharged, ResFree, LocksExclude, OnlyOf, Holding, Charging, Voiding
  <2>2. ASSUME NEW x \in Payments, LockVoided(p, x) PROVE LocksExclude'
    <3>1. txn'[p].pc = "voiding" /\ txn'[p].pay = x /\ OnlyOf(p)
      BY <2>2 DEF LockVoided, Idle, OnlyOf
    <3> QED
      BY <2>2, <3>1 DEF LockVoided, PaymentFree, LocksExclude, OnlyOf, Holding, Charging, Voiding
  <2>3. CASE LockItsReservation(p)
    <3>1. /\ txn'[p].pc = "balancing" /\ txn'[p].pay = txn[p].pay
          /\ txn'[p].res = payment[txn[p].pay].res /\ OnlyOf(p)
      BY <2>3 DEF LockItsReservation, Transaction, OnlyOf
    <3> QED
      BY <2>3, <3>1 DEF LockItsReservation, ResFree, LocksExclude, OnlyOf, Holding, Charging, Voiding
  <2>4. CASE CheckCharge(p)
    BY <1>2, <2>4 DEF CheckCharge, Goto, Transaction, OnlyOf, Holding, Charging, Voiding
  <2>5. CASE CheckVoid(p)
    <3>1. /\ txn'[p].pc = "voidable" /\ txn'[p].pay = txn[p].pay /\ txn'[p].res = txn[p].res
          /\ txn[p].pc \in Voiding /\ OnlyOf(p)
      BY <2>5 DEF CheckVoid, Goto, Transaction, OnlyOf, Voiding
    <3>2. txn[p].pc = "balancing" \/ txn[p].res = None
      BY <2>5 DEF CheckVoid, VoidReads, Voiding
    <3>3. txn[p].pc = "balancing" => txn[p].pc \in Holding
      BY DEF Holding
    <3> QED
      BY <3>1, <3>2, <3>3 DEF LocksExclude, OnlyOf
  <2>6. ASSUME (\E x \in Payments : Charge(p, x)) \/ Void(p) PROVE LocksExclude'
    <3>1. Commit(p)
      BY <2>6 DEF Charge, Void
    <3>2. txn'[p].pc \notin Holding \cup Voiding /\ OnlyOf(p)
      BY <3>1 DEF Commit, Idle, OnlyOf, Holding, Charging, Voiding
    <3> QED
      BY <1>2, <3>2
  <2> QED
    BY <1>4, <2>1, <2>2, <2>3, <2>4, <2>5, <2>6 DEF CashStep
<1>5. ASSUME NEW p \in Requests, Abort(p) PROVE LocksExclude'
  BY <1>2, <1>5 DEF Abort, Commit, Idle, OnlyOf, Holding, Charging, Voiding
<1> QED
  BY <1>1, <1>3, <1>4, <1>5
  DEF Next, vars, CancelFee, EraseMember, Register, SetPrice, EndReservation

\* How a transaction comes to void a payment, or to have checked a charge.
Arrives(q) ==
    /\ txn'[q].pc \in Voiding
       => \/ txn'[q] = txn[q]
          \/ \E x \in Payments : LockVoided(q, x)
          \/ LockItsReservation(q) \/ CheckVoid(q)
    /\ txn'[q].pc = "charged" => txn'[q] = txn[q] \/ CheckCharge(q)

LEMMA Arrivals == LedgerTypeOK /\ TxnShape /\ [Next]_vars => \A q \in Requests : Arrives(q)
<1> SUFFICES ASSUME LedgerTypeOK, TxnShape, [Next]_vars, NEW q \in Requests PROVE Arrives(q)
  OBVIOUS
<1> USE DEF LedgerTypeOK
<1>1. CASE txn'[q] = txn[q]
  BY <1>1 DEF Arrives
<1>2. CASE txn'[q].pc \notin Voiding \cup {"charged"}
  BY <1>2 DEF Arrives
<1>3. ASSUME NEW p \in Requests, OnlyOf(p), p # q PROVE Arrives(q)
  BY <1>1, <1>3 DEF OnlyOf
<1>4. ASSUME NEW p \in Requests, OnlyOf(p), txn'[p].pc \notin Voiding \cup {"charged"} PROVE Arrives(q)
  BY <1>2, <1>3, <1>4
<1>c. ASSUME NEW p \in Requests, Commit(p) PROVE Arrives(q)
  <2>1. txn'[p].pc \notin Voiding \cup {"charged"} /\ OnlyOf(p)
    BY <1>c DEF Commit, Idle, OnlyOf, Voiding
  <2> QED
    BY <1>4, <2>1
<1>5. ASSUME NEW p \in Requests, FeeStep(p) PROVE Arrives(q)
  <2>1. CASE BeginGenerate(p)
    <3>1. PICK t \in SUBSET Members : txn' = [txn EXCEPT ![p] = [Idle EXCEPT !.pc = "generating", !.todo = t]]
      BY <2>1 DEF BeginGenerate
    <3>2. txn'[p].pc = "generating" /\ OnlyOf(p)
      BY <3>1 DEF OnlyOf, Idle
    <3> QED
      BY <1>4, <3>2 DEF Voiding
  <2>2. ASSUME NEW m \in Members, InsertFee(p, m) PROVE Arrives(q)
    <3>1. txn'[p].pc = "generating" /\ OnlyOf(p)
      BY <2>2 DEF InsertFee, TxnShape, Transaction, OnlyOf
    <3> QED
      BY <1>4, <3>1 DEF Voiding
  <2>3. ASSUME NEW f \in Fees, BeginPay(p, f) PROVE Arrives(q)
    <3>1. txn'[p].pc = "paying" /\ OnlyOf(p)
      BY <2>3 DEF BeginPay, Idle, OnlyOf
    <3> QED
      BY <1>4, <3>1 DEF Voiding
  <2>4. ASSUME CommitGenerate(p) \/ \E x \in Payments : Pay(p, x) PROVE Arrives(q)
    BY <1>c, <2>4 DEF CommitGenerate, Pay
  <2> QED
    BY <1>5, <2>1, <2>2, <2>3, <2>4 DEF FeeStep
<1>6. ASSUME NEW p \in Requests, CashStep(p) PROVE Arrives(q)
  <2>1. ASSUME NEW r \in Res, NEW income \in BOOLEAN, NEW amount \in Amounts, LockCharged(p, r, income, amount)
        PROVE Arrives(q)
    <3>1. txn'[p].pc = "charging" /\ OnlyOf(p)
      BY <2>1 DEF LockCharged, Idle, OnlyOf
    <3> QED
      BY <1>4, <3>1 DEF Voiding
  <2>2. ASSUME CheckCharge(p) PROVE Arrives(q)
    <3>1. txn'[p].pc = "charged" /\ OnlyOf(p)
      BY <2>2 DEF CheckCharge, Goto, Transaction, OnlyOf
    <3> QED
      BY <1>3, <2>2, <3>1 DEF Arrives, Voiding
  <2>3. ASSUME (\E x \in Payments : LockVoided(p, x)) \/ LockItsReservation(p) \/ CheckVoid(p) PROVE Arrives(q)
    <3>1. OnlyOf(p) /\ txn'[p].pc # "charged"
      BY <2>3 DEF LockVoided, LockItsReservation, CheckVoid, Goto, Idle, Transaction, OnlyOf
    <3> QED
      BY <1>3, <2>3, <3>1 DEF Arrives
  <2>4. ASSUME (\E x \in Payments : Charge(p, x)) \/ Void(p) PROVE Arrives(q)
    BY <1>c, <2>4 DEF Charge, Void
  <2> QED
    BY <1>6, <2>1, <2>2, <2>3, <2>4 DEF CashStep
<1>7. ASSUME NEW p \in Requests, Abort(p) PROVE Arrives(q)
  BY <1>c, <1>7 DEF Abort
<1> QED
  BY <1>1, <1>5, <1>6, <1>7 DEF Next, vars, CancelFee, EraseMember, Register, SetPrice, EndReservation

\* The payment a void has locked is written by nobody else.
LEMMA HeldPayments ==
    LedgerTypeOK /\ TxnShape /\ LocksExclude /\ [Next]_vars
    => \A q \in Requests : txn[q].pc \in Voiding /\ txn'[q].pc \in Voiding
                           => payment'[txn[q].pay] = payment[txn[q].pay]
<1> SUFFICES ASSUME LedgerTypeOK, TxnShape, LocksExclude, [Next]_vars, NEW q \in Requests,
                    txn[q].pc \in Voiding, txn'[q].pc \in Voiding
             PROVE  payment'[txn[q].pay] = payment[txn[q].pay]
  OBVIOUS
<1> USE DEF LedgerTypeOK
<1>1. CASE UNCHANGED payment
  BY <1>1
<1>2. txn[q].pay \in Payments /\ payment[txn[q].pay] # None
  BY DEF TxnShape
<1>3. ASSUME NEW p \in Requests, NEW y \in Payments, Pay(p, y) \/ Charge(p, y)
      PROVE  payment'[txn[q].pay] = payment[txn[q].pay]
  BY <1>2, <1>3 DEF Pay, Charge
<1>4. ASSUME NEW p \in Requests, Void(p) PROVE payment'[txn[q].pay] = payment[txn[q].pay]
  <2>1. q # p
    BY <1>4 DEF Void, Commit, Idle, Voiding
  <2>2. txn[p].pay # txn[q].pay
    BY <1>4, <2>1 DEF Void, LocksExclude, Voiding
  <2> QED
    BY <1>2, <1>4, <2>2 DEF Void
<1>5. ASSUME NEW y \in Payments, NEW income \in BOOLEAN, NEW amount \in Amounts, Register(y, income, amount)
      PROVE  payment'[txn[q].pay] = payment[txn[q].pay]
  BY <1>2, <1>5 DEF Register
<1> QED
  BY <1>1, <1>3, <1>4, <1>5
  DEF Next, vars, FeeStep, CashStep, BeginGenerate, CommitGenerate, InsertFee, BeginPay, LockCharged, CheckCharge,
      LockVoided, LockItsReservation, CheckVoid, Abort, CancelFee, EraseMember, SetPrice, EndReservation

LEMMA VoidReadsStep ==
    LedgerTypeOK /\ TxnShape /\ LocksExclude /\ VoidReads /\ [Next]_vars => VoidReads'
<1> SUFFICES ASSUME LedgerTypeOK, TxnShape, LocksExclude, VoidReads, [Next]_vars,
                    NEW q \in Requests, txn'[q].pc \in Voiding
             PROVE  /\ Valid(txn[q].pay)'
                    /\ txn'[q].res = IF txn'[q].pc = "voiding" THEN None ELSE payment'[txn'[q].pay].res
  BY DEF VoidReads
<1> USE DEF LedgerTypeOK
<1>k. txn[q].pc \in Voiding => payment'[txn[q].pay] = payment[txn[q].pay]
  BY HeldPayments
<1>1. CASE txn'[q] = txn[q]
  BY <1>1, <1>k DEF VoidReads, Valid
<1>2. ASSUME NEW x \in Payments, LockVoided(q, x)
      PROVE  Valid(txn[q].pay)' /\ txn'[q].res = None /\ txn'[q].pc = "voiding"
  BY <1>2 DEF LockVoided, Idle, Valid
<1>3. CASE LockItsReservation(q)
  <2>1. /\ txn'[q].pc = "balancing" /\ txn'[q].pay = txn[q].pay /\ txn[q].pc \in Voiding
        /\ txn'[q].res = payment[txn[q].pay].res
    BY <1>3 DEF LockItsReservation, Transaction, Voiding
  <2> QED
    BY <1>k, <2>1 DEF VoidReads, Valid
<1>4. CASE CheckVoid(q)
  <2>1. /\ txn'[q].pc = "voidable" /\ txn'[q].pay = txn[q].pay /\ txn'[q].res = txn[q].res
        /\ txn[q].pc \in Voiding
    BY <1>4 DEF CheckVoid, Goto, Transaction, Voiding
  <2>2. txn[q].res = payment[txn[q].pay].res
    BY <1>4, <2>1 DEF CheckVoid, VoidReads
  <2> QED
    BY <1>k, <2>1, <2>2 DEF VoidReads, Valid
<1>5. Arrives(q)
  BY Arrivals
<1> QED
  BY <1>1, <1>2, <1>3, <1>4, <1>5 DEF Arrives

\* A step that neither registers nor voids a charge moves no balance.
LEMMA QuietSteps ==
    ASSUME LedgerTypeOK, LedgerTypeOK', [Next]_vars,
           \A p \in Requests : ~Void(p) /\ \A x \in Payments : ~Charge(p, x)
    PROVE  \A r \in Res : Collected(r)' = Collected(r)
<1> SUFFICES ASSUME NEW r \in Res PROVE Collected(r)' = Collected(r)
  OBVIOUS
<1>1. CASE UNCHANGED payment
  <2>1. Standing(r)' = Standing(r)
    BY <1>1 DEF Standing, Valid
  <2> QED
    BY <1>1, <2>1, CollectedKept
<1>2. ASSUME NEW y \in Payments, NEW new, payment[y] = None, payment' = [payment EXCEPT ![y] = new], new.res = None
      PROVE  Collected(r)' = Collected(r)
  <2>1. payment'[y] = new /\ (\A x \in Payments : x # y => payment'[x] = payment[x])
    BY <1>2 DEF LedgerTypeOK
  <2>2. y \notin Standing(r) /\ y \notin Standing(r)'
    BY <1>2, <2>1, NoneAssumption DEF Standing, Valid
  <2>3. Standing(r)' = Standing(r)
    BY <2>1, <2>2 DEF Standing, Valid
  <2>4. \A x \in Standing(r) : Signed(payment'[x]) = Signed(payment[x])
    BY <2>1, <2>2 DEF Standing
  <2> QED
    BY <2>3, <2>4, CollectedKept
<1>3. ASSUME NEW p \in Requests, NEW y \in Payments, Pay(p, y) PROVE Collected(r)' = Collected(r)
  <2>1. FeeMovement(txn[p].fee).res = None
    BY DEF FeeMovement
  <2> QED
    BY <1>2, <1>3, <2>1 DEF Pay
<1>4. ASSUME NEW y \in Payments, NEW income \in BOOLEAN, NEW amount \in Amounts, Register(y, income, amount)
      PROVE  Collected(r)' = Collected(r)
  <2> DEFINE new == [income |-> income, amount |-> amount, res |-> None, fee |-> None, voided |-> FALSE]
  <2>1. payment[y] = None /\ payment' = [payment EXCEPT ![y] = new] /\ new.res = None
    BY <1>4 DEF Register
  <2> HIDE DEF new
  <2> QED
    BY <1>2, <2>1
<1> QED
  BY <1>1, <1>3, <1>4
  DEF Next, vars, FeeStep, CashStep, BeginGenerate, CommitGenerate, InsertFee, BeginPay, LockCharged, CheckCharge,
      LockVoided, LockItsReservation, CheckVoid, Abort, CancelFee, EraseMember, SetPrice, EndReservation

\* A charge or a refund moves the balance of its reservation by its amount.
LEMMA ChargeMoves ==
    ASSUME LedgerTypeOK, LedgerTypeOK', TxnShape, NEW p \in Requests, NEW x \in Payments, Charge(p, x)
    PROVE  \A r \in Res : /\ r = txn[p].res => Collected(r)' = Collected(r) + Signed(txn[p])
                          /\ r # txn[p].res => Collected(r)' = Collected(r)
<1> DEFINE new == [income |-> txn[p].income, amount |-> txn[p].amount, res |-> txn[p].res,
                   fee |-> None, voided |-> FALSE]
<1>1. payment[x] = None /\ payment'[x] = new /\ \A y \in Payments : y # x => payment'[y] = payment[y]
  BY DEF Charge, LedgerTypeOK
<1>2. new # None /\ Signed(new) = Signed(txn[p])
  <2>1. new \in Payment
    BY <1>1 DEF LedgerTypeOK, Transaction, Payment
  <2> QED
    BY <2>1, NoneAssumption DEF Signed
<1>4. ASSUME NEW r \in Res
      PROVE  /\ x \notin Standing(r)
             /\ Standing(r)' = Standing(r) \cup (IF r = txn[p].res THEN {x} ELSE {})
             /\ \A y \in Standing(r) : Signed(payment'[y]) = Signed(payment[y])
  <2>1. x \notin Standing(r)
    BY <1>1 DEF Standing, Valid
  <2>2. x \in Standing(r)' <=> r = txn[p].res
    BY <1>1, <1>2 DEF Standing, Valid
  <2>3. \A y \in Payments : y # x => (y \in Standing(r)' <=> y \in Standing(r))
    BY <1>1 DEF Standing, Valid
  <2>4. Standing(r)' \subseteq Payments /\ Standing(r) \subseteq Payments
    BY DEF Standing
  <2> QED
    BY <1>1, <2>1, <2>2, <2>3, <2>4
<1> HIDE DEF new
<1>5. \A r \in Res : r # txn[p].res => Collected(r)' = Collected(r)
  BY <1>4, CollectedKept
<1>6. ASSUME NEW r \in Res, r = txn[p].res PROVE Collected(r)' = Collected(r) + Signed(payment'[x])
  <2>1. /\ x \notin Standing(r) /\ Standing(r)' = Standing(r) \cup {x}
        /\ \A y \in Standing(r) : Signed(payment'[y]) = Signed(payment[y])
    BY <1>4, <1>6
  <2> QED
    BY <2>1, CollectedGrows
<1> QED
  BY <1>1, <1>2, <1>5, <1>6

\* A void takes the movement back from the reservation of its payment, if any.
LEMMA VoidMoves ==
    ASSUME LedgerTypeOK, LedgerTypeOK', TxnShape, VoidReads, NEW p \in Requests, Void(p)
    PROVE  \A r \in Res : /\ r = txn[p].res => Collected(r)' = Collected(r) - Signed(payment[txn[p].pay])
                          /\ r # txn[p].res => Collected(r)' = Collected(r)
<1>1. PICK x \in Payments : x = txn[p].pay /\ Valid(x) /\ payment[x].res = txn[p].res
  BY DEF Void, TxnShape, VoidReads, Voiding
<1>2. payment'[x] = [payment[x] EXCEPT !.voided = TRUE] /\ \A y \in Payments : y # x => payment'[y] = payment[y]
  BY <1>1 DEF Void, LedgerTypeOK
<1>3. payment'[x].voided
  BY <1>1, <1>2 DEF Valid, LedgerTypeOK, Payment
<1>4. ASSUME NEW r \in Res
      PROVE  /\ x \in Standing(r) <=> r = txn[p].res
             /\ Standing(r)' = Standing(r) \ {x}
             /\ \A y \in Standing(r) \ {x} : Signed(payment'[y]) = Signed(payment[y])
  <2>1. x \in Standing(r) <=> r = txn[p].res
    BY <1>1 DEF Standing
  <2>2. x \notin Standing(r)'
    BY <1>3 DEF Standing, Valid
  <2>3. \A y \in Payments : y # x => (y \in Standing(r)' <=> y \in Standing(r))
    BY <1>2 DEF Standing, Valid
  <2>4. Standing(r)' \subseteq Payments /\ Standing(r) \subseteq Payments
    BY DEF Standing
  <2> QED
    BY <1>2, <2>1, <2>2, <2>3, <2>4
<1>5. ASSUME NEW r \in Res, r # txn[p].res PROVE Collected(r)' = Collected(r)
  <2>1. Standing(r)' = Standing(r) /\ \A y \in Standing(r) : Signed(payment'[y]) = Signed(payment[y])
    BY <1>4, <1>5
  <2> QED
    BY <2>1, CollectedKept
<1>6. ASSUME NEW r \in Res, r = txn[p].res PROVE Collected(r)' = Collected(r) - Signed(payment[x])
  <2>1. /\ x \in Standing(r) /\ Standing(r)' = Standing(r) \ {x}
        /\ \A y \in Standing(r) \ {x} : Signed(payment'[y]) = Signed(payment[y])
    BY <1>4, <1>6
  <2> QED
    BY <2>1, CollectedShrinks
<1> QED
  BY <1>1, <1>5, <1>6

\* Neither the balance nor the price of a reservation changes while somebody
\* else holds it.
LEMMA HeldBalance ==
    ASSUME LedgerTypeOK, LedgerTypeOK', TxnShape, LocksExclude, VoidReads, [Next]_vars,
           NEW q \in Requests, NEW r \in Res, txn[q].pc \in Holding, txn[q].res = r, txn'[q] = txn[q]
    PROVE  Collected(r)' = Collected(r) /\ res'[r].price = res[r].price
<1>n. r # None
  BY NoneAssumption
<1>1. ASSUME NEW p \in Requests, NEW x \in Payments, Charge(p, x) PROVE Collected(r)' = Collected(r)
  <2>1. p # q
    <3>1. txn'[p].pc = "idle"
      BY <1>1 DEF Charge, Commit, Idle, LedgerTypeOK
    <3> QED
      BY <3>1 DEF Holding, Charging
  <2>2. txn[p].pc \in Holding
    BY <1>1 DEF Charge, Holding, Charging
  <2>3. txn[p].res # r
    BY <1>n, <2>1, <2>2 DEF LocksExclude
  <2> QED
    BY <1>1, <2>3, ChargeMoves
<1>2. ASSUME NEW p \in Requests, Void(p) PROVE Collected(r)' = Collected(r)
  <2>1. p # q
    <3>1. txn'[p].pc = "idle"
      BY <1>2 DEF Void, Commit, Idle, LedgerTypeOK
    <3> QED
      BY <3>1 DEF Holding, Charging
  <2>2. txn[p].pc \in Holding
    BY <1>2 DEF Void, Holding
  <2>3. txn[p].res # r
    BY <1>n, <2>1, <2>2 DEF LocksExclude
  <2> QED
    BY <1>2, <2>3, VoidMoves
<1>3. Collected(r)' = Collected(r)
  BY <1>1, <1>2, QuietSteps
<1>4. ASSUME NEW s \in Res, (\E price \in Prices : SetPrice(s, price))
                            \/ (\E st \in {"completed", "cancelled"} : EndReservation(s, st))
      PROVE  res'[r].price = res[r].price
  <2>1. s # r
    BY <1>4 DEF SetPrice, EndReservation, ResFree, Holding
  <2>2. \A t \in Res : t # s => res'[t] = res[t]
    BY <1>4 DEF SetPrice, EndReservation, LedgerTypeOK
  <2> QED
    BY <2>1, <2>2
<1>5. res'[r].price = res[r].price
  BY <1>4 DEF Next, vars, FeeStep, CashStep, BeginGenerate, CommitGenerate, InsertFee, BeginPay, Pay, LockCharged,
      CheckCharge, Charge, LockVoided, LockItsReservation, CheckVoid, Void, Abort, CancelFee, EraseMember, Register
<1> QED
  BY <1>3, <1>5

LEMMA BalanceCheckedStep ==
    ASSUME LedgerTypeOK, LedgerTypeOK', TxnShape, LocksExclude, VoidReads, VoidReads', BalanceChecked, [Next]_vars
    PROVE  BalanceChecked'
<1> USE DEF LedgerTypeOK
<1>1. ASSUME NEW q \in Requests, (txn[q].pc = "charged")'
      PROVE  BalanceAllows(txn[q].res, Signed(txn[q]))'
  <2>1. CASE txn'[q] = txn[q]
    <3>1. txn[q].pc = "charged" /\ txn[q].pc \in Holding /\ txn[q].res \in Res
      BY <1>1, <2>1 DEF TxnShape, Holding, Charging
    <3>2. Collected(txn[q].res)' = Collected(txn[q].res) /\ res'[txn[q].res].price = res[txn[q].res].price
      BY <2>1, <3>1, HeldBalance
    <3> QED
      BY <2>1, <3>1, <3>2 DEF BalanceChecked, BalanceAllows, Signed
  <2>2. CASE CheckCharge(q)
    <3>1. txn'[q].res = txn[q].res /\ Signed(txn'[q]) = Signed(txn[q])
      BY <2>2 DEF CheckCharge, Goto, Transaction, Signed
    <3>2. Collected(txn[q].res)' = Collected(txn[q].res)
      BY <2>2, <3>1 DEF CheckCharge, Collected, Standing, Valid
    <3> QED
      BY <2>2, <3>1, <3>2 DEF CheckCharge, BalanceAllows
  <2> QED
    BY <1>1, <2>1, <2>2, Arrivals DEF Arrives
<1>2. ASSUME NEW q \in Requests, (txn[q].pc = "voidable" /\ txn[q].res # None)'
      PROVE  BalanceAllows(txn[q].res, -Signed(payment[txn[q].pay]))'
  <2>1. CASE txn'[q] = txn[q]
    <3>1. txn[q].pc = "voidable" /\ txn[q].pc \in Holding \cap Voiding /\ txn[q].res \in Res
      BY <1>2, <2>1 DEF Holding, Voiding, Transaction
    <3>2. Collected(txn[q].res)' = Collected(txn[q].res) /\ res'[txn[q].res].price = res[txn[q].res].price
      BY <2>1, <3>1, HeldBalance
    <3>3. payment'[txn[q].pay] = payment[txn[q].pay]
      BY <2>1, <3>1, HeldPayments
    <3>4. BalanceAllows(txn[q].res, -Signed(payment[txn[q].pay]))
      BY <1>2, <2>1, <3>1 DEF BalanceChecked
    <3> QED
      BY <2>1, <3>2, <3>3, <3>4 DEF BalanceAllows, Signed
  <2>2. CASE CheckVoid(q)
    <3>1. txn'[q].res = txn[q].res /\ txn'[q].pay = txn[q].pay /\ UNCHANGED <<payment, res>>
      BY <2>2 DEF CheckVoid, Goto, Transaction
    <3>2. txn[q].pc = "balancing"
      BY <1>2, <2>2, <3>1 DEF CheckVoid, VoidReads, Voiding
    <3>3. BalanceAllows(txn[q].res, -Signed(payment[txn[q].pay]))
      BY <2>2, <3>2 DEF CheckVoid
    <3>4. Collected(txn[q].res)' = Collected(txn[q].res)
      BY <3>1 DEF Collected, Standing, Valid
    <3> QED
      BY <3>1, <3>3, <3>4 DEF BalanceAllows, Signed
  <2>3. CASE LockItsReservation(q) \/ \E x \in Payments : LockVoided(q, x)
    <3>1. txn'[q].pc # "voidable"
      <4>1. ASSUME LockItsReservation(q) PROVE txn'[q].pc = "balancing"
        BY <4>1 DEF LockItsReservation, Transaction
      <4>2. ASSUME NEW x \in Payments, LockVoided(q, x) PROVE txn'[q].pc = "voiding"
        BY <4>2 DEF LockVoided, Idle
      <4> QED
        BY <2>3, <4>1, <4>2
    <3> QED
      BY <1>2, <3>1
  <2> QED
    BY <1>2, <2>1, <2>2, <2>3, Arrivals DEF Arrives, Voiding
<1> QED
  BY <1>1, <1>2 DEF BalanceChecked

BalanceInv == LocksExclude /\ VoidReads /\ BalanceChecked /\ NeverOverRefunded

LEMMA InitBalance == Init => BalanceInv
<1> SUFFICES ASSUME Init PROVE BalanceInv
  OBVIOUS
<1>1. LocksExclude /\ VoidReads /\ BalanceChecked
  BY DEF Init, Idle, LocksExclude, VoidReads, BalanceChecked, Holding, Charging, Voiding
<1>2. ASSUME NEW r \in Res PROVE Collected(r) = 0
  <2>1. Standing(r) = {}
    BY DEF Init, Standing, Valid
  <2> QED
    BY <2>1, SumOfEmpty DEF Collected, SumFunction
<1> QED
  BY <1>1, <1>2 DEF BalanceInv, NeverOverRefunded

\* Each movement that changes a balance passed its check on that very balance.
LEMMA BalanceMoves ==
    ASSUME LedgerTypeOK, LedgerTypeOK', TxnShape, VoidReads, BalanceChecked, [Next]_vars, NEW r \in Res,
           Collected(r)' # Collected(r)
    PROVE  Collected(r)' >= 0 /\ Collected(r)' =< res'[r].price
<1>1. ASSUME NEW p \in Requests, NEW x \in Payments, Charge(p, x)
      PROVE  Collected(r)' >= 0 /\ Collected(r)' =< res'[r].price
  <2>1. r = txn[p].res /\ Collected(r)' = Collected(r) + Signed(txn[p])
    BY <1>1, ChargeMoves
  <2>2. txn[p].pc = "charged" /\ res' = res
    BY <1>1 DEF Charge
  <2>3. BalanceAllows(r, Signed(txn[p]))
    BY <2>1, <2>2 DEF BalanceChecked
  <2> QED
    BY <2>1, <2>2, <2>3 DEF BalanceAllows
<1>2. ASSUME NEW p \in Requests, Void(p)
      PROVE  Collected(r)' >= 0 /\ Collected(r)' =< res'[r].price
  <2>1. r = txn[p].res /\ Collected(r)' = Collected(r) - Signed(payment[txn[p].pay])
    BY <1>2, VoidMoves
  <2>2. txn[p].pc = "voidable" /\ res' = res
    BY <1>2 DEF Void
  <2>3. BalanceAllows(r, -Signed(payment[txn[p].pay]))
    BY <2>1, <2>2, NoneAssumption DEF BalanceChecked
  <2>4. r \in Res /\ CollectedIsSum /\ txn[p].pay \in Standing(r)
    <3>1. txn[p].pay \in Payments /\ Valid(txn[p].pay) /\ payment[txn[p].pay].res = r
      BY <2>1, <2>2 DEF TxnShape, VoidReads, Voiding
    <3> QED
      BY <3>1, CollectedSums DEF Standing
  <2>5. Collected(r) \in Int /\ Signed(payment[txn[p].pay]) \in Int
    BY <2>4 DEF CollectedIsSum
  <2> QED
    BY <2>1, <2>2, <2>3, <2>5 DEF BalanceAllows
<1> QED
  BY <1>1, <1>2, QuietSteps

LEMMA BalanceStep == LedgerInv /\ LedgerInv' /\ BalanceInv /\ [Next]_vars => BalanceInv'
<1> SUFFICES ASSUME LedgerInv, LedgerInv', BalanceInv, [Next]_vars PROVE BalanceInv'
  OBVIOUS
<1> USE DEF LedgerInv, BalanceInv
<1>1. LocksExclude' /\ VoidReads'
  BY LocksStep, VoidReadsStep
<1>2. BalanceChecked'
  BY <1>1, BalanceCheckedStep
<1>3. ASSUME NEW r \in Res PROVE Collected(r)' >= 0
  <2>1. CASE Collected(r)' = Collected(r)
    BY <2>1 DEF NeverOverRefunded
  <2>2. CASE Collected(r)' # Collected(r)
    BY <2>2, BalanceMoves
  <2> QED
    BY <2>1, <2>2
<1> QED
  BY <1>1, <1>2, <1>3 DEF NeverOverRefunded

\* What the locks and the checks of cash.py maintain together.
THEOREM BalanceInvCorrect == Spec => [](LedgerInv /\ BalanceInv)
<1>1. LedgerInv /\ BalanceInv /\ [Next]_vars => BalanceInv' \/ ~LedgerInv'
  BY BalanceStep
<1> QED
  BY LedgerInvCorrect, InitBalance, <1>1, PTL DEF Spec

\* However many payments are charged, refunded and voided at once, no
\* reservation ever returns more than it collected: the check and the write
\* that it allows happen under one lock of the reservation.
THEOREM NothingIsOverRefunded == Spec => []NeverOverRefunded
BY BalanceInvCorrect, PTL DEF BalanceInv

\* And when a balance grows, by a charge or by the void of a refund, it stays
\* within the price the reservation has after that very step.
THEOREM PriceCapsCharges == Spec => ChargesWithinPrice
<1>1. LedgerInv /\ LedgerInv' /\ BalanceInv /\ [Next]_vars
      => [\A r \in Res : Collected(r)' > Collected(r) => Collected(r)' =< res'[r].price]_vars
  <2> SUFFICES ASSUME LedgerInv, LedgerInv', BalanceInv, [Next]_vars, NEW r \in Res, Collected(r)' > Collected(r)
               PROVE  Collected(r)' =< res'[r].price
    OBVIOUS
  <2>1. CollectedIsSum
    BY CollectedSums DEF LedgerInv
  <2>2. Collected(r)' # Collected(r)
    BY <2>1 DEF CollectedIsSum
  <2> QED
    BY <2>2, BalanceMoves DEF LedgerInv, BalanceInv
<1> QED
  BY BalanceInvCorrect, <1>1, PTL DEF Spec, ChargesWithinPrice
=============================================================================
