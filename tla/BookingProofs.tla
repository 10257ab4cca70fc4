--------------------------- MODULE BookingProofs ---------------------------
(* Theorems about Booking, for any courts, members, requests and replicas: its *)
(* invariants, what no step does, and that it implements CourtCalendar.        *)
EXTENDS Booking, FiniteSetTheorems, TLAPS

USE DEF Procs, Customers

LEMMA IdleIsTransaction == Idle \in Transaction
  BY DEF Idle, Transaction

\* Every variable keeps its type.
LEMMA TypeStep == TypeOK /\ Shape /\ [Next]_vars => TypeOK'
<1> SUFFICES ASSUME TypeOK, Shape, [Next]_vars PROVE TypeOK'
  OBVIOUS
<1> USE IdleIsTransaction DEF TypeOK
<1>1. CASE UNCHANGED vars
  BY <1>1 DEF vars
<1>2. CASE Tick
  BY <1>2 DEF Tick
<1>3. ASSUME NEW c \in Courts, CreateCourt(c) \/ EnableCourt(c) PROVE TypeOK'
  BY <1>3 DEF CreateCourt, EnableCourt
<1>4. ASSUME NEW i \in Res, Confirm(i) \/ StaffCancel(i) \/ MemberCancel(i) PROVE TypeOK'
  BY <1>4 DEF Confirm, StaffCancel, MemberCancel, Active, Reservation, Statuses, Live, Reasons
<1>5. ASSUME NEW p \in Procs, NewRequest(p) PROVE TypeOK'
  <2>1. PICK c \in Courts :
          \/ BeginDisable(p, c) \/ BeginClose(p, c) \/ BeginDelete(p, c)
          \/ \E s \in OpenSlots, w \in Customers : BeginStaffBooking(p, c, s, w)
          \/ \E s \in GridSlots, m \in Members : BeginMemberBooking(p, c, s, m)
          \/ \E s \in OpenSlots, i \in Res : LockReservation(p, i, c, s)
    BY <1>5 DEF NewRequest
  <2>2. CASE BeginDisable(p, c)
    BY <2>2 DEF BeginDisable, LockCourt, Transaction, Updating, Idle
  <2>3. CASE BeginClose(p, c)
    <3>1. PICK n \in 0 .. Cardinality(Res) : LockCourt(p, c, "closing", n)
      BY <2>3 DEF BeginClose
    <3>2. n \in Nat
      BY FS_CardinalityType, IdAssumption
    <3> QED
      BY <3>1, <3>2 DEF LockCourt, Transaction, Updating, Closing, Idle
  <2>4. CASE BeginDelete(p, c)
    BY <2>4 DEF BeginDelete, LockCourt, Transaction, Updating, Idle
  <2>5. ASSUME NEW s \in OpenSlots, NEW w \in Customers, BeginStaffBooking(p, c, s, w) PROVE TypeOK'
    BY <2>5 DEF BeginStaffBooking, Transaction, Creating, Idle
  <2>6. ASSUME NEW s \in GridSlots, NEW m \in Members, BeginMemberBooking(p, c, s, m) PROVE TypeOK'
    BY <2>6, SlotAssumption DEF BeginMemberBooking, Transaction, Creating, Idle
  <2>7. ASSUME NEW s \in OpenSlots, NEW i \in Res, LockReservation(p, i, c, s) PROVE TypeOK'
    BY <2>7 DEF LockReservation, Transaction, Moving, Idle
  <2> QED
    BY <2>1, <2>2, <2>3, <2>4, <2>5, <2>6, <2>7
<1>6. ASSUME NEW p \in Procs, CourtStep(p) PROVE TypeOK'
  <2> USE DEF Commit, Goto
  <2>1. CASE EnsureNoUpcoming(p)
    BY <2>1 DEF EnsureNoUpcoming, Transaction, Updating
  <2>2. CASE DisableCourt(p)
    BY <2>2 DEF DisableCourt
  <2>3. CASE CountUpcoming(p)
    BY <2>3 DEF CountUpcoming, Transaction, Updating, Closing
  <2>4. CASE StartCancelling(p)
    <3>1. [txn[p] EXCEPT !.pc = "cancelling", !.now = clock, !.todo = Upcoming(txn[p].court, clock)]
          \in Transaction
      BY DEF Transaction, Updating, Closing, Upcoming
    <3>2. txn' = [txn EXCEPT ![p] = [txn[p] EXCEPT !.pc = "cancelling", !.now = clock,
                                                   !.todo = Upcoming(txn[p].court, clock)]]
      BY <2>4 DEF StartCancelling
    <3> QED
      BY <2>4, <3>1, <3>2 DEF StartCancelling
  <2>5. CASE CloseCourt(p)
    <3>1. \A i \in txn[p].rows : res[i] \in Reservation
      BY DEF Shape, Transaction
    <3> QED
      BY <2>5, <3>1 DEF CloseCourt, Reservation, Statuses, Reasons
  <2>6. CASE DeleteCourt(p)
    BY <2>6 DEF DeleteCourt
  <2> QED
    BY <1>6, <2>1, <2>2, <2>3, <2>4, <2>5, <2>6 DEF CourtStep
<1>7. ASSUME NEW p \in Procs, BookingStep(p) PROVE TypeOK'
  <2> USE DEF Commit, Goto
  <2>1. CASE CountPending(p)
    BY <2>1 DEF CountPending, Transaction, Creating
  <2>2. CASE LockTarget(p)
    BY <2>2 DEF LockTarget, Transaction, Moving
  <2>3. CASE Move(p)
    <3>1. PICK i \in txn[p].rows :
            res' = [res EXCEPT ![i].court = txn[p].court, ![i].slot = txn[p].slot]
      BY <2>3 DEF Move
    <3>2. i \in Res /\ res[i] \in Reservation /\ txn[p].court \in Courts /\ txn[p].slot \in OpenSlots
      BY <2>3 DEF Move, Shape, Moving, Transaction
    <3>3. res' \in [Res -> Reservation \cup {NoRes}]
      BY <3>1, <3>2 DEF Reservation
    <3> QED
      BY <2>3, <3>3 DEF Move
  <2>4. ASSUME NEW i \in Res, StaffInsert(p, i) \/ MemberInsert(p, i) PROVE TypeOK'
    <3>1. txn[p].court \in Courts /\ txn[p].slot \in OpenSlots /\ txn[p].who \in Customers
      BY <2>4 DEF StaffInsert, MemberInsert, Shape, Creating, Transaction
    <3>2. PICK st \in Live : Insert(p, i, st)
      BY <2>4 DEF StaffInsert, MemberInsert, Live
    <3>3. [court |-> txn[p].court, slot |-> txn[p].slot, status |-> st,
           who |-> txn[p].who, reason |-> "none"] \in Reservation
      BY <3>1 DEF Reservation, Statuses, Reasons
    <3> QED
      BY <3>2, <3>3 DEF Insert
  <2> QED
    BY <1>7, <2>1, <2>2, <2>3, <2>4 DEF BookingStep
<1>8. ASSUME NEW p \in Procs, JobStep(p) PROVE TypeOK'
  <2>1. CASE BeginJob(p)
    BY <2>1 DEF BeginJob, Idle, Transaction, Job, Expirable
  <2>2. CASE CompleteJob(p)
    <3>1. [txn[p] EXCEPT !.pc = "completing", !.expired = txn[p].rows,
                         !.todo = Completable(txn[p].now)] \in Transaction
      BY DEF Transaction, Job, Completable
    <3>2. txn' = [txn EXCEPT ![p] = [txn[p] EXCEPT !.pc = "completing", !.expired = txn[p].rows,
                                                   !.todo = Completable(txn[p].now)]]
      BY <2>2 DEF CompleteJob
    <3> QED
      BY <2>2, <3>1, <3>2 DEF CompleteJob
  <2>3. CASE CommitJob(p)
    <3>1. \A i \in txn[p].rows \cup txn[p].expired : res[i] \in Reservation
      BY DEF Shape, Transaction
    <3>2. \A i \in txn[p].rows \cup txn[p].expired :
            Expire(res[i]) \in Reservation /\ Complete(res[i]) \in Reservation
      BY <3>1 DEF Expire, Complete, Reservation, Statuses, Reasons
    <3> QED
      BY <2>3, <3>2 DEF CommitJob, Commit
  <2> QED
    BY <1>8, <2>1, <2>2, <2>3 DEF JobStep
<1>9. ASSUME NEW p \in Procs, NEW i \in Res, Visit(p, i) PROVE TypeOK'
  BY <1>9 DEF Visit, Transaction
<1>10. ASSUME NEW p \in Procs, Abort(p) PROVE TypeOK'
  BY <1>10 DEF Abort, Commit
<1> QED
  BY <1>1, <1>2, <1>3, <1>4, <1>5, <1>6, <1>7, <1>8, <1>9, <1>10 DEF Next

\* The steps that write reservations; all others leave them alone.
WritesReservations ==
    \/ \E i \in Res : Confirm(i) \/ StaffCancel(i) \/ MemberCancel(i)
    \/ \E p \in Procs :
          \/ CloseCourt(p) \/ Move(p) \/ CommitJob(p)
          \/ \E i \in Res : StaffInsert(p, i) \/ MemberInsert(p, i)

LEMMA ReservationWriters ==
  ASSUME [Next]_vars
  PROVE  UNCHANGED res \/ WritesReservations
<1>1. ASSUME NEW p \in Procs, NewRequest(p) PROVE UNCHANGED res
  BY <1>1 DEF NewRequest, BeginDisable, BeginClose, BeginDelete, LockCourt, BeginStaffBooking,
              BeginMemberBooking, LockReservation
<1>2. ASSUME NEW p \in Procs, CourtStep(p) PROVE UNCHANGED res \/ CloseCourt(p)
  BY <1>2 DEF CourtStep, EnsureNoUpcoming, DisableCourt, CountUpcoming, StartCancelling, DeleteCourt
<1>3. ASSUME NEW p \in Procs, BookingStep(p)
      PROVE UNCHANGED res \/ Move(p) \/ \E i \in Res : StaffInsert(p, i) \/ MemberInsert(p, i)
  BY <1>3 DEF BookingStep, CountPending, LockTarget
<1>4. ASSUME NEW p \in Procs, JobStep(p) PROVE UNCHANGED res \/ CommitJob(p)
  BY <1>4 DEF JobStep, BeginJob, CompleteJob
<1>5. ASSUME NEW p \in Procs, Abort(p) \/ \E i \in Res : Visit(p, i) PROVE UNCHANGED res
  BY <1>5 DEF Abort, Visit
<1>6. ASSUME Tick \/ \E c \in Courts : CreateCourt(c) \/ EnableCourt(c) PROVE UNCHANGED res
  BY <1>6 DEF Tick, CreateCourt, EnableCourt
<1> QED
  BY <1>1, <1>2, <1>3, <1>4, <1>5, <1>6 DEF Next, vars, WritesReservations

\* A reservation id, once used, is used for ever.
LEMMA ReservationsStay ==
  ASSUME TypeOK, Shape, [Next]_vars, NEW i \in Res, res[i] # NoRes
  PROVE  res'[i] # NoRes
<1> USE NoResAssumption DEF TypeOK
<1>1. CASE UNCHANGED res
  BY <1>1
<1>2. ASSUME NEW j \in Res, Confirm(j) \/ StaffCancel(j) \/ MemberCancel(j) PROVE res'[i] # NoRes
  BY <1>2 DEF Confirm, StaffCancel, MemberCancel, Active, Reservation, Statuses, Live, Reasons
<1>3. ASSUME NEW p \in Procs, CloseCourt(p) PROVE res'[i] # NoRes
  BY <1>3 DEF CloseCourt, Reservation, Statuses, Reasons
<1>4. ASSUME NEW p \in Procs, Move(p) PROVE res'[i] # NoRes
  <2>1. TypeOK'
    BY TypeStep
  <2>2. PICK j \in txn[p].rows :
          res' = [res EXCEPT ![j].court = txn[p].court, ![j].slot = txn[p].slot]
    BY <1>4 DEF Move
  <2>3. txn[p].court \in Courts /\ txn[p].slot \in OpenSlots
    BY <1>4 DEF Move, Shape, Moving
  <2> QED
    BY <2>2, <2>3 DEF Reservation
<1>5. ASSUME NEW p \in Procs, NEW j \in Res, StaffInsert(p, j) \/ MemberInsert(p, j)
      PROVE res'[i] # NoRes
  BY <1>5 DEF StaffInsert, MemberInsert, Insert
<1>6. ASSUME NEW p \in Procs, CommitJob(p) PROVE res'[i] # NoRes
  BY <1>6 DEF CommitJob, Expire, Complete, Reservation, Statuses, Reasons
<1> QED
  BY <1>1, <1>2, <1>3, <1>4, <1>5, <1>6, ReservationWriters DEF WritesReservations

\* The steps that write transactions, a commit or rollback among them.
Ends(p) == txn' = [txn EXCEPT ![p] = Idle]
Advances(p) ==
    \/ EnsureNoUpcoming(p) \/ CountUpcoming(p) \/ StartCancelling(p)
    \/ CountPending(p) \/ LockTarget(p) \/ BeginJob(p) \/ CompleteJob(p)

LEMMA TransactionWriters ==
  ASSUME [Next]_vars
  PROVE  \/ UNCHANGED txn
         \/ \E p \in Procs : \/ Ends(p) \/ NewRequest(p) \/ Advances(p)
                             \/ \E i \in Res : Visit(p, i)
<1> USE DEF Ends, Advances, Commit
<1>1. ASSUME NEW p \in Procs, CourtStep(p) PROVE Ends(p) \/ Advances(p)
  BY <1>1 DEF CourtStep, DisableCourt, CloseCourt, DeleteCourt
<1>2. ASSUME NEW p \in Procs, BookingStep(p) PROVE Ends(p) \/ Advances(p)
  BY <1>2 DEF BookingStep, Move, StaffInsert, MemberInsert, Insert
<1>3. ASSUME NEW p \in Procs, JobStep(p) PROVE Ends(p) \/ Advances(p)
  BY <1>3 DEF JobStep, CommitJob
<1>4. ASSUME NEW p \in Procs, Abort(p) PROVE Ends(p)
  BY <1>4 DEF Abort
<1>5. ASSUME Tick \/ \E c \in Courts : CreateCourt(c) \/ EnableCourt(c) PROVE UNCHANGED txn
  BY <1>5 DEF Tick, CreateCourt, EnableCourt
<1>6. ASSUME NEW i \in Res, Confirm(i) \/ StaffCancel(i) \/ MemberCancel(i) PROVE UNCHANGED txn
  BY <1>6 DEF Confirm, StaffCancel, MemberCancel
<1> QED
  BY <1>1, <1>2, <1>3, <1>4, <1>5, <1>6 DEF Next, vars

\* The steps that write courts.
LEMMA CourtWriters ==
  ASSUME [Next]_vars
  PROVE  \/ UNCHANGED court
         \/ \E c \in Courts : CreateCourt(c) \/ EnableCourt(c)
         \/ \E p \in Procs : DisableCourt(p) \/ CloseCourt(p) \/ DeleteCourt(p)
<1>1. ASSUME NEW p \in Procs, NewRequest(p) PROVE UNCHANGED court
  BY <1>1 DEF NewRequest, BeginDisable, BeginClose, BeginDelete, LockCourt, BeginStaffBooking,
              BeginMemberBooking, LockReservation
<1>2. ASSUME NEW p \in Procs, CourtStep(p)
      PROVE UNCHANGED court \/ DisableCourt(p) \/ CloseCourt(p) \/ DeleteCourt(p)
  BY <1>2 DEF CourtStep, EnsureNoUpcoming, CountUpcoming, StartCancelling
<1>3. ASSUME NEW p \in Procs, BookingStep(p) \/ JobStep(p) PROVE UNCHANGED court
  BY <1>3 DEF BookingStep, CountPending, LockTarget, Move, StaffInsert, MemberInsert, Insert,
              JobStep, BeginJob, CompleteJob, CommitJob
<1>4. ASSUME NEW p \in Procs, Abort(p) \/ \E i \in Res : Visit(p, i) PROVE UNCHANGED court
  BY <1>4 DEF Abort, Visit
<1>5. ASSUME Tick \/ \E i \in Res : Confirm(i) \/ StaffCancel(i) \/ MemberCancel(i) PROVE UNCHANGED court
  BY <1>5 DEF Tick, Confirm, StaffCancel, MemberCancel
<1> QED
  BY <1>1, <1>2, <1>3, <1>4, <1>5 DEF Next, vars

LEMMA ShapeStep == TypeOK /\ Shape /\ [Next]_vars => Shape'
<1> SUFFICES ASSUME TypeOK, Shape, [Next]_vars PROVE Shape'
  OBVIOUS
<1>0. \A i \in Res : res[i] # NoRes => res'[i] # NoRes
  BY ReservationsStay
<1>t. TypeOK'
  BY TypeStep
<1> USE DEF TypeOK, Shape
<1>1. CASE UNCHANGED txn
  BY <1>0, <1>1 DEF Transaction
<1>2. ASSUME NEW p \in Procs, txn' = [txn EXCEPT ![p] = Idle] PROVE Shape'
  BY <1>0, <1>2 DEF Transaction, Idle, Job, Creating, Moving, Updating, Closing
<1>3. ASSUME NEW p \in Procs, NewRequest(p) PROVE Shape'
  <2>1. PICK c \in Courts :
          \/ BeginDisable(p, c) \/ BeginClose(p, c) \/ BeginDelete(p, c)
          \/ \E s \in OpenSlots, w \in Customers : BeginStaffBooking(p, c, s, w)
          \/ \E s \in GridSlots, m \in Members : BeginMemberBooking(p, c, s, m)
          \/ \E s \in OpenSlots, i \in Res : LockReservation(p, i, c, s)
    BY <1>3 DEF NewRequest
  <2>2. ASSUME NEW n, NEW pc \in {"checking", "closing", "deleting"}, LockCourt(p, c, pc, n) PROVE Shape'
    BY <1>0, <2>2 DEF LockCourt, Transaction, Idle, Job, Creating, Moving, Updating, Closing
  <2>3. ASSUME NEW s \in OpenSlots, NEW w \in Customers, BeginStaffBooking(p, c, s, w) PROVE Shape'
    BY <1>0, <2>3 DEF BeginStaffBooking, LockBookableCourt, Transaction, Idle, Job, Creating, Moving, Updating, Closing
  <2>4. ASSUME NEW s \in GridSlots, NEW m \in Members, BeginMemberBooking(p, c, s, m) PROVE Shape'
    BY <1>0, <2>4, SlotAssumption
       DEF BeginMemberBooking, LockBookableCourt, Transaction, Idle, Job, Creating, Moving, Updating, Closing
  <2>5. ASSUME NEW s \in OpenSlots, NEW i \in Res, LockReservation(p, i, c, s) PROVE Shape'
    BY <1>0, <2>5 DEF LockReservation, Active, Transaction, Idle, Job, Creating, Moving, Updating, Closing
  <2> QED
    BY <2>1, <2>2, <2>3, <2>4, <2>5 DEF BeginDisable, BeginClose, BeginDelete
<1>4. ASSUME NEW p \in Procs, EnsureNoUpcoming(p) \/ CountUpcoming(p) \/ CountPending(p) \/ LockTarget(p)
      PROVE Shape'
  BY <1>0, <1>4 DEF EnsureNoUpcoming, CountUpcoming, CountPending, LockTarget, Goto,
                    Transaction, Job, Creating, Moving, Updating, Closing
<1>5. ASSUME NEW p \in Procs, StartCancelling(p) PROVE Shape'
  BY <1>0, <1>5 DEF StartCancelling, Upcoming, Active, Transaction, Job, Creating, Moving, Updating, Closing
<1>6. ASSUME NEW p \in Procs, BeginJob(p) PROVE Shape'
  BY <1>0, <1>6 DEF BeginJob, Expirable, Transaction, Idle, Job, Creating, Moving, Updating, Closing
<1>7. ASSUME NEW p \in Procs, CompleteJob(p) PROVE Shape'
  BY <1>0, <1>7 DEF CompleteJob, Completable, Transaction, Job, Creating, Moving, Updating, Closing
<1>8. ASSUME NEW p \in Procs, NEW i \in Res, Visit(p, i) PROVE Shape'
  BY <1>0, <1>8 DEF Visit, Transaction, Job, Creating, Moving, Updating, Closing
<1> QED
  BY <1>1, <1>2, <1>3, <1>4, <1>5, <1>6, <1>7, <1>8, TransactionWriters DEF Ends, Advances

-----------------------------------------------------------------------------
(* Locks and courts *)

\* What the locks give: two transactions never hold the same row, and while one
\* has a court FOR UPDATE nobody else is booking on it, moving to it or changing
\* it.  A court somebody books on, or is about to take out of use, is active.
LockDiscipline ==
    /\ \A p, q \in Procs : p # q =>
          /\ txn[p].rows \cap txn[q].rows = {}
          /\ txn[p].pc \in Updating /\ txn[q].pc \in Updating \cup Sharing
             => txn[p].court # txn[q].court
    /\ \A p \in Procs :
          /\ txn[p].pc \in Sharing \cup Closing \cup {"checking", "disabling"}
             => court[txn[p].court] = "active"
          /\ txn[p].pc = "deleting" => court[txn[p].court] \in {"active", "inactive"}

LEMMA LockStep == TypeOK /\ Shape /\ LockDiscipline /\ [Next]_vars => LockDiscipline'
<1> SUFFICES ASSUME TypeOK, Shape, LockDiscipline, [Next]_vars PROVE LockDiscipline'
  OBVIOUS
<1>t. TypeOK'
  BY TypeStep
<1> DEFINE Excluded == \A p, q \in Procs : p # q =>
              /\ txn[p].rows \cap txn[q].rows = {}
              /\ txn[p].pc \in Updating /\ txn[q].pc \in Updating \cup Sharing
                 => txn[p].court # txn[q].court
           InUse == \A p \in Procs :
              /\ txn[p].pc \in Sharing \cup Closing \cup {"checking", "disabling"}
                 => court[txn[p].court] = "active"
              /\ txn[p].pc = "deleting" => court[txn[p].court] \in {"active", "inactive"}
<1> USE DEF TypeOK
<1>1. Excluded'
  <2>1. CASE UNCHANGED txn
    BY <2>1 DEF LockDiscipline
  <2>2. ASSUME NEW p \in Procs, Ends(p) PROVE Excluded'
    BY <2>2 DEF LockDiscipline, Ends, Idle, Updating, Closing, Sharing, Creating
  <2>3. ASSUME NEW p \in Procs, NewRequest(p) PROVE Excluded'
    <3>1. ASSUME NEW c \in Courts, NEW n, NEW pc \in {"checking", "closing", "deleting"}, LockCourt(p, c, pc, n)
          PROVE Excluded'
      BY <3>1 DEF LockDiscipline, LockCourt, CanUpdate, UpdatersOf, SharersOf,
                  Idle, Updating, Closing, Sharing, Creating
    <3>2. ASSUME NEW c \in Courts, NEW s \in OpenSlots, NEW w \in Customers, BeginStaffBooking(p, c, s, w)
          PROVE Excluded'
      BY <3>2 DEF LockDiscipline, BeginStaffBooking, LockBookableCourt, CanShare, UpdatersOf,
                  Idle, Updating, Closing, Sharing, Creating
    <3>3. ASSUME NEW c \in Courts, NEW s \in GridSlots, NEW m \in Members, BeginMemberBooking(p, c, s, m)
          PROVE Excluded'
      BY <3>3 DEF LockDiscipline, BeginMemberBooking, LockBookableCourt, CanShare, UpdatersOf,
                  Idle, Updating, Closing, Sharing, Creating
    <3>4. ASSUME NEW c \in Courts, NEW s \in OpenSlots, NEW i \in Res, LockReservation(p, i, c, s)
          PROVE Excluded'
      BY <3>4 DEF LockDiscipline, LockReservation, RowFree, Idle, Updating, Closing, Sharing, Creating
    <3> QED
      BY <2>3, <3>1, <3>2, <3>3, <3>4 DEF NewRequest, BeginDisable, BeginClose, BeginDelete
  <2>4. ASSUME NEW p \in Procs, Advances(p) PROVE Excluded'
    <3>1. CASE EnsureNoUpcoming(p) \/ CountUpcoming(p) \/ StartCancelling(p) \/ CountPending(p)
      BY <3>1 DEF LockDiscipline, EnsureNoUpcoming, CountUpcoming, StartCancelling, CountPending, Goto,
                  Transaction, Updating, Closing, Sharing, Creating
    <3>2. CASE LockTarget(p)
      BY <3>2 DEF LockDiscipline, LockTarget, LockBookableCourt, CanShare, UpdatersOf, Goto,
                  Transaction, Updating, Closing, Sharing, Creating
    <3>3. CASE BeginJob(p)
      BY <3>3 DEF LockDiscipline, BeginJob, Idle, Updating, Closing, Sharing, Creating
    <3>4. CASE CompleteJob(p)
      <4>1. /\ txn'[p].pc = "completing" /\ txn'[p].rows = txn[p].rows
            /\ \A q \in Procs \ {p} : txn'[q] = txn[q]
        BY <3>4 DEF CompleteJob, Transaction
      <4> QED
        BY <4>1 DEF LockDiscipline, Updating, Closing, Sharing, Creating
    <3> QED
      BY <2>4, <3>1, <3>2, <3>3, <3>4 DEF Advances
  <2>5. ASSUME NEW p \in Procs, NEW i \in Res, Visit(p, i) PROVE Excluded'
    BY <2>5 DEF LockDiscipline, Visit, RowFree, Transaction
  <2> QED
    BY <2>1, <2>2, <2>3, <2>4, <2>5, TransactionWriters
<1>2. InUse'
  <2>1. CASE UNCHANGED <<txn, court>>
    BY <2>1 DEF LockDiscipline
  <2>2. ASSUME NEW c \in Courts, CreateCourt(c) \/ EnableCourt(c) PROVE InUse'
    BY <2>2 DEF LockDiscipline, CreateCourt, EnableCourt, Sharing, Creating, Closing, Shape, Updating, Moving
  <2>3. ASSUME NEW p \in Procs, DisableCourt(p) \/ CloseCourt(p) \/ DeleteCourt(p) PROVE InUse'
    <3>1. /\ txn[p].pc \in Updating
          /\ txn' = [txn EXCEPT ![p] = Idle]
          /\ \A c \in Courts : c # txn[p].court => court'[c] = court[c]
      BY <2>3 DEF DisableCourt, CloseCourt, DeleteCourt, Commit, Updating, Closing
    <3>2. txn'[p].pc = "idle"
      BY <3>1 DEF Idle
    <3>3. ASSUME NEW q \in Procs, q # p, txn[q].pc \in Updating \cup Sharing
          PROVE  court'[txn[q].court] = court[txn[q].court]
      <4>1. txn[p].court # txn[q].court
        BY <3>1, <3>3 DEF LockDiscipline
      <4>2. txn[q].court \in Courts
        BY <3>3 DEF Shape, Sharing, Moving
      <4> QED
        BY <3>1, <4>1, <4>2
    <3> QED
      BY <3>1, <3>2, <3>3 DEF LockDiscipline, Updating, Sharing, Creating, Closing
  <2>4. CASE UNCHANGED court
    <3>1. ASSUME NEW p \in Procs, Ends(p) PROVE InUse'
      BY <2>4, <3>1 DEF LockDiscipline, Ends, Idle, Closing, Sharing, Creating
    <3>2. ASSUME NEW p \in Procs, NewRequest(p) PROVE InUse'
      <4>1. ASSUME NEW c \in Courts, NEW n, NEW pc \in {"checking", "closing", "deleting"},
                   LockCourt(p, c, pc, n), pc # "deleting" => court[c] = "active"
            PROVE InUse'
        BY <2>4, <4>1 DEF LockDiscipline, LockCourt, Idle, Closing, Sharing, Creating
      <4>2. ASSUME NEW c \in Courts, NEW s, NEW w, BeginStaffBooking(p, c, s, w) PROVE InUse'
        BY <2>4, <4>2 DEF LockDiscipline, BeginStaffBooking, LockBookableCourt,
                          Idle, Closing, Sharing, Creating
      <4>4. ASSUME NEW c \in Courts, NEW s, NEW w, BeginMemberBooking(p, c, s, w) PROVE InUse'
        BY <2>4, <4>4 DEF LockDiscipline, BeginMemberBooking, LockBookableCourt,
                          Idle, Closing, Sharing, Creating
      <4>3. ASSUME NEW c \in Courts, NEW s, NEW i, LockReservation(p, i, c, s) PROVE InUse'
        BY <2>4, <4>3 DEF LockDiscipline, LockReservation, Idle, Closing, Sharing, Creating
      <4> QED
        BY <3>2, <4>1, <4>2, <4>3, <4>4 DEF NewRequest, BeginDisable, BeginClose, BeginDelete
    <3>3. ASSUME NEW p \in Procs, Advances(p) PROVE InUse'
      <4>1. CASE EnsureNoUpcoming(p) \/ CountUpcoming(p) \/ StartCancelling(p) \/ CountPending(p)
        BY <2>4, <4>1 DEF LockDiscipline, EnsureNoUpcoming, CountUpcoming, StartCancelling, CountPending,
                          Goto, Transaction, Closing, Sharing, Creating
      <4>2. CASE LockTarget(p)
        BY <2>4, <4>2 DEF LockDiscipline, LockTarget, LockBookableCourt, Goto, Transaction,
                          Closing, Sharing, Creating
      <4>3. CASE BeginJob(p)
        BY <2>4, <4>3 DEF LockDiscipline, BeginJob, Idle, Closing, Sharing, Creating
      <4>4. CASE CompleteJob(p)
        BY <2>4, <4>4 DEF LockDiscipline, CompleteJob, Transaction, Closing, Sharing, Creating
      <4> QED
        BY <3>3, <4>1, <4>2, <4>3, <4>4 DEF Advances
    <3>4. ASSUME NEW p \in Procs, NEW i \in Res, Visit(p, i) PROVE InUse'
      BY <2>4, <3>4 DEF LockDiscipline, Visit, Transaction
    <3> QED
      BY <2>4, <2>1, <3>1, <3>2, <3>3, <3>4, TransactionWriters
  <2> QED
    BY <2>2, <2>3, <2>4, CourtWriters
<1> QED
  BY <1>1, <1>2 DEF LockDiscipline

-----------------------------------------------------------------------------
(* What transactions rely on *)

LEMMA ClockAdvances ==
  ASSUME TypeOK, [Next]_vars
  PROVE  clock' \in Nat /\ clock =< clock'
<1> USE DEF TypeOK
<1>1. CASE Tick
  BY <1>1 DEF Tick
<1>2. ASSUME NEW p \in Procs, NewRequest(p) PROVE UNCHANGED clock
  BY <1>2 DEF NewRequest, BeginDisable, BeginClose, BeginDelete, LockCourt, BeginStaffBooking,
              BeginMemberBooking, LockReservation
<1>3. ASSUME NEW p \in Procs, CourtStep(p) PROVE UNCHANGED clock
  BY <1>3 DEF CourtStep, EnsureNoUpcoming, CountUpcoming, StartCancelling, DisableCourt, CloseCourt, DeleteCourt
<1>4. ASSUME NEW p \in Procs, BookingStep(p) \/ JobStep(p) PROVE UNCHANGED clock
  BY <1>4 DEF BookingStep, CountPending, LockTarget, Move, StaffInsert, MemberInsert, Insert,
              JobStep, BeginJob, CompleteJob, CommitJob
<1>5. ASSUME NEW p \in Procs, Abort(p) \/ \E i \in Res : Visit(p, i) PROVE UNCHANGED clock
  BY <1>5 DEF Abort, Visit
<1>6. ASSUME NEW i \in Res, Confirm(i) \/ StaffCancel(i) \/ MemberCancel(i) PROVE UNCHANGED clock
  BY <1>6 DEF Confirm, StaffCancel, MemberCancel
<1>7. ASSUME NEW c \in Courts, CreateCourt(c) \/ EnableCourt(c) PROVE UNCHANGED clock
  BY <1>7 DEF CreateCourt, EnableCourt
<1> QED
  BY <1>1, <1>2, <1>3, <1>4, <1>5, <1>6, <1>7 DEF Next, vars

\* A locked row only changes when the transaction that holds it commits.
LEMMA LockedRowsKept ==
  ASSUME TypeOK, Shape, LockDiscipline, [Next]_vars,
         NEW p \in Procs, NEW i \in txn[p].rows, res'[i] # res[i]
  PROVE  Ends(p)
<1> USE DEF TypeOK
<1>1. i \in Res /\ res[i] # NoRes
  BY DEF Transaction, Shape
<1>2. ASSUME NEW j \in Res, Confirm(j) \/ StaffCancel(j) \/ MemberCancel(j) PROVE FALSE
  BY <1>1, <1>2 DEF Confirm, StaffCancel, MemberCancel, RowFree
<1>3. ASSUME NEW q \in Procs, NEW j \in Res, StaffInsert(q, j) \/ MemberInsert(q, j) PROVE FALSE
  BY <1>1, <1>3 DEF StaffInsert, MemberInsert, Insert
<1>4. ASSUME NEW q \in Procs, CloseCourt(q) PROVE Ends(p)
  <2>1. i \in txn[q].rows
    BY <1>1, <1>4 DEF CloseCourt
  <2>2. p = q
    BY <2>1 DEF LockDiscipline
  <2> QED
    BY <1>4, <2>2 DEF CloseCourt, Commit, Ends
<1>5. ASSUME NEW q \in Procs, Move(q) PROVE Ends(p)
  <2>1. i \in txn[q].rows
    BY <1>1, <1>5 DEF Move
  <2>2. p = q
    BY <2>1 DEF LockDiscipline
  <2> QED
    BY <1>5, <2>2 DEF Move, Commit, Ends
<1>6. ASSUME NEW q \in Procs, CommitJob(q) PROVE Ends(p)
  <2>1. i \in txn[q].rows
    BY <1>1, <1>6 DEF CommitJob, Shape
  <2>2. p = q
    BY <2>1 DEF LockDiscipline
  <2> QED
    BY <1>6, <2>2 DEF CommitJob, Commit, Ends
<1> QED
  BY <1>1, <1>2, <1>3, <1>4, <1>5, <1>6, ReservationWriters DEF WritesReservations

\* Nobody adds a reservation to a court that no transaction has FOR SHARE.
LEMMA UpcomingShrinks ==
  ASSUME TypeOK, Shape, [Next]_vars, NEW n \in Nat, NEW c \in Courts,
         \A q \in Procs : txn[q].pc \in Sharing => txn[q].court # c
  PROVE  Upcoming(c, n)' \subseteq Upcoming(c, n)
<1> USE DEF TypeOK
<1> SUFFICES ASSUME NEW i \in Res,
                    res'[i] # NoRes, res'[i].status \in Live, res'[i].court = c, res'[i].slot.end > n
             PROVE  i \in Upcoming(c, n)
  BY DEF Upcoming, Active
<1> DEFINE Kept == res[i] # NoRes /\ res[i].status \in Live
                   /\ res[i].court = res'[i].court /\ res[i].slot = res'[i].slot
<1>0. Kept => i \in Upcoming(c, n)
  BY DEF Upcoming, Active
<1>1. CASE UNCHANGED res
  BY <1>0, <1>1
<1>2. ASSUME NEW j \in Res, Confirm(j) \/ StaffCancel(j) \/ MemberCancel(j) PROVE Kept
  BY <1>2 DEF Confirm, StaffCancel, MemberCancel, Active, Reservation, Live
<1>3. ASSUME NEW q \in Procs, NEW j \in Res, StaffInsert(q, j) \/ MemberInsert(q, j) PROVE Kept
  <2>1. txn[q].court # c
    BY <1>3 DEF StaffInsert, MemberInsert, Sharing, Creating
  <2>2. i # j
    BY <1>3, <2>1 DEF StaffInsert, MemberInsert, Insert
  <2> QED
    BY <1>3, <2>2 DEF StaffInsert, MemberInsert, Insert
<1>4. ASSUME NEW q \in Procs, CloseCourt(q) PROVE Kept
  <2>1. i \in txn[q].rows => res[i] \in Reservation
    BY DEF Shape
  <2>2. i \notin txn[q].rows
    BY <1>4, <2>1 DEF CloseCourt, Reservation, Live
  <2> QED
    BY <1>4, <2>2 DEF CloseCourt
<1>5. ASSUME NEW q \in Procs, Move(q) PROVE Kept
  <2>1. txn[q].court # c
    BY <1>5 DEF Move, Sharing
  <2>2. PICK j \in txn[q].rows :
          res' = [res EXCEPT ![j].court = txn[q].court, ![j].slot = txn[q].slot]
    BY <1>5 DEF Move
  <2>3. j \in Res /\ res[j] \in Reservation
    BY DEF Transaction, Shape
  <2>4. i # j
    BY <2>1, <2>2, <2>3 DEF Reservation
  <2> QED
    BY <2>2, <2>4
<1>6. ASSUME NEW q \in Procs, CommitJob(q) PROVE Kept
  <2>1. i \in txn[q].rows => res[i] \in Reservation
    BY DEF Shape
  <2>2. i \notin txn[q].expired /\ i \notin txn[q].rows
    <3>1. i \in txn[q].expired => i \in txn[q].rows
      BY DEF Shape
    <3>2. i \in txn[q].expired => res'[i] = Expire(res[i])
      BY <1>6 DEF CommitJob
    <3>3. i \in txn[q].rows \ txn[q].expired => res'[i] = Complete(res[i])
      BY <1>6 DEF CommitJob
    <3> QED
      BY <2>1, <3>1, <3>2, <3>3 DEF Expire, Complete, Reservation, Live
  <2> QED
    BY <1>6, <2>2 DEF CommitJob
<1> QED
  BY <1>0, <1>1, <1>2, <1>3, <1>4, <1>5, <1>6, ReservationWriters DEF WritesReservations

\* Nor does the passing of time.
LEMMA UpcomingFades ==
  ASSUME TypeOK, Shape, [Next]_vars, NEW c \in Courts,
         \A q \in Procs : txn[q].pc \in Sharing => txn[q].court # c
  PROVE  Upcoming(c, clock)' \subseteq Upcoming(c, clock)
<1>0. clock \in Nat /\ clock' \in Nat /\ clock =< clock'
  BY ClockAdvances DEF TypeOK
<1>1. PICK n \in Nat : n = clock
  BY <1>0
<1>2. Upcoming(c, n)' \subseteq Upcoming(c, n)
  BY UpcomingShrinks
<1>3. TypeOK'
  BY TypeStep
<1>4. Upcoming(c, clock)' \subseteq Upcoming(c, n)'
  BY <1>0, <1>1, <1>3, SlotAssumption DEF Upcoming, Active, Reservation, TypeOK
<1> QED
  BY <1>1, <1>2, <1>4

\* A transaction that does not move finds what it read as it was.
LEMMA ReadsKept ==
  ASSUME TypeOK, Shape, LockDiscipline, [Next]_vars,
         NEW p \in Procs, ReadsHold(p), txn'[p] = txn[p]
  PROVE  ReadsHold(p)'
<1> USE DEF TypeOK
<1>0. clock \in Nat /\ clock' \in Nat /\ clock =< clock'
  BY ClockAdvances
<1>1. txn[p] \in Transaction
  OBVIOUS
<1>2. ASSUME NEW i \in txn[p].rows, txn[p].pc # "idle" PROVE res'[i] = res[i]
  <2>1. Ends(p) => txn'[p].pc = "idle"
    BY DEF Ends, Idle
  <2> QED
    BY <1>2, <2>1, LockedRowsKept
<1>3. CASE txn[p].pc \in Moving
  BY <1>2, <1>3 DEF ReadsHold, Moving, Active
<1>4. CASE txn[p].pc \in Updating
  <2>1. PICK c \in Courts : c = txn[p].court
    BY <1>4 DEF Shape
  <2>0. \A q \in Procs : txn[q].pc \in Sharing => txn[q].court # c
    BY <1>4, <2>1 DEF LockDiscipline, Updating, Closing, Sharing, Creating
  <2>2. ASSUME NEW n \in Nat PROVE Upcoming(c, n)' \subseteq Upcoming(c, n)
    BY <2>0, UpcomingShrinks
  <2>3. Upcoming(c, clock)' \subseteq Upcoming(c, clock)
    BY <2>0, UpcomingFades
  <2>4. CASE txn[p].pc = "disabling"
    BY <2>1, <2>3, <2>4 DEF ReadsHold, Moving
  <2>5. CASE txn[p].pc = "counted"
    <3>1. IsFiniteSet(Upcoming(c, clock))
      BY FS_Subset, IdAssumption DEF Upcoming
    <3>2. Cardinality(Upcoming(c, clock)') =< Cardinality(Upcoming(c, clock))
      BY <2>3, <3>1, FS_Subset
    <3>3. IsFiniteSet(Upcoming(c, clock)')
      BY <2>3, <3>1, FS_Subset
    <3>4. Cardinality(Upcoming(c, clock)) \in Nat /\ Cardinality(Upcoming(c, clock)') \in Nat
      BY <3>1, <3>3, FS_CardinalityType
    <3>5. Cardinality(Upcoming(c, clock)) =< txn[p].expected
      BY <2>1, <2>5 DEF ReadsHold
    <3>6. txn[p].expected \in Nat
      BY <1>1 DEF Transaction
    <3>7. Cardinality(Upcoming(c, clock)') =< txn[p].expected
      BY <3>2, <3>4, <3>5, <3>6
    <3> QED
      BY <2>1, <2>5, <3>7 DEF ReadsHold, Moving
  <2>6. CASE txn[p].pc = "cancelling"
    <3>1. PICK n \in Nat : n = txn[p].now
      BY <1>1 DEF Transaction
    <3>2. /\ n =< clock /\ txn[p].rows \subseteq Upcoming(c, n)
          /\ Upcoming(c, n) \subseteq txn[p].rows \cup txn[p].todo
          /\ Cardinality(txn[p].rows \cup txn[p].todo) =< txn[p].expected
      BY <2>1, <2>6, <3>1 DEF ReadsHold
    <3>3. txn[p].rows \subseteq Upcoming(c, n)'
      BY <1>2, <2>6, <3>2 DEF Upcoming, Active
    <3>4. Upcoming(c, n)' \subseteq txn[p].rows \cup txn[p].todo
      BY <2>2, <3>2
    <3>5. n =< clock'
      BY <1>0, <3>2
    <3> QED
      BY <2>1, <2>6, <3>1, <3>2, <3>3, <3>4, <3>5 DEF ReadsHold, Moving
  <2> QED
    BY <1>4, <2>4, <2>5, <2>6 DEF ReadsHold, Updating, Closing, Moving
<1>5. CASE txn[p].pc \in Job
  <2>1. PICK n \in Nat : n = txn[p].now
    BY <1>1 DEF Transaction
  <2>2. \A i \in txn[p].rows : res'[i] = res[i]
    BY <1>2, <1>5 DEF Job
  <2>3. txn[p].expired \subseteq txn[p].rows /\ txn[p].rows \subseteq Res
    BY <1>1 DEF Shape, Transaction
  <2>4. /\ txn[p].rows \cap Expirable(n) = txn[p].rows \cap Expirable(n)'
        /\ txn[p].rows \cap Completable(n) = txn[p].rows \cap Completable(n)'
    BY <2>2, <2>3 DEF Expirable, Completable
  <2>5. n =< clock => n =< clock'
    BY <1>0
  <2>6. CASE txn[p].pc = "expiring"
    <3>1. n =< clock /\ txn[p].rows \subseteq Expirable(n)
      BY <2>1, <2>6 DEF ReadsHold
    <3>2. n =< clock' /\ txn[p].rows \subseteq Expirable(n)'
      BY <2>4, <2>5, <3>1
    <3> QED
      BY <2>1, <2>6, <3>2 DEF ReadsHold, Moving
  <2>7. CASE txn[p].pc = "completing"
    <3>1. /\ n =< clock /\ txn[p].expired \subseteq Expirable(n)
          /\ txn[p].rows \ txn[p].expired \subseteq Completable(n)
      BY <2>1, <2>7 DEF ReadsHold
    <3>2. /\ n =< clock' /\ txn[p].expired \subseteq Expirable(n)'
          /\ txn[p].rows \ txn[p].expired \subseteq Completable(n)'
      BY <2>3, <2>4, <2>5, <3>1
    <3> QED
      BY <2>1, <2>7, <3>2 DEF ReadsHold, Moving
  <2> QED
    BY <1>5, <2>6, <2>7 DEF Job
<1> QED
  BY <1>3, <1>4, <1>5 DEF ReadsHold, Moving, Updating, Closing, Job

LEMMA ReadsStep ==
  TypeOK /\ Shape /\ LockDiscipline /\ ReadsStillHold /\ [Next]_vars => ReadsStillHold'
<1> SUFFICES ASSUME TypeOK, Shape, LockDiscipline, ReadsStillHold, [Next]_vars, NEW p \in Procs
             PROVE  ReadsHold(p)'
  BY DEF ReadsStillHold
<1> USE DEF TypeOK
<1>0. ReadsHold(p) /\ txn[p] \in Transaction
  BY DEF ReadsStillHold
<1>1. CASE txn'[p] = txn[p]
  BY <1>0, <1>1, ReadsKept
<1>2. CASE Ends(p)
  BY <1>2 DEF Ends, Idle, ReadsHold, Moving
<1>3. CASE NewRequest(p)
  <2>1. ASSUME NEW c \in Courts, NEW n, NEW pc \in {"checking", "closing", "deleting"}, LockCourt(p, c, pc, n)
        PROVE ReadsHold(p)'
    BY <2>1 DEF LockCourt, Idle, ReadsHold, Moving
  <2>2. ASSUME NEW c \in Courts, NEW s, NEW w, BeginStaffBooking(p, c, s, w) PROVE ReadsHold(p)'
    BY <2>2 DEF BeginStaffBooking, Idle, ReadsHold, Moving
  <2>3. ASSUME NEW c \in Courts, NEW s, NEW m, BeginMemberBooking(p, c, s, m) PROVE ReadsHold(p)'
    BY <2>3 DEF BeginMemberBooking, Idle, ReadsHold, Moving
  <2>4. ASSUME NEW c \in Courts, NEW s, NEW i \in Res, LockReservation(p, i, c, s) PROVE ReadsHold(p)'
    BY <2>4 DEF LockReservation, Idle, ReadsHold, Moving, Active
  <2> QED
    BY <1>3, <2>1, <2>2, <2>3, <2>4 DEF NewRequest, BeginDisable, BeginClose, BeginDelete
<1>4. CASE EnsureNoUpcoming(p)
  BY <1>0, <1>4 DEF EnsureNoUpcoming, Goto, Transaction, ReadsHold, Moving, Upcoming, Active
<1>5. CASE CountUpcoming(p)
  <2>1. PICK c : c = txn[p].court
    OBVIOUS
  <2>2. /\ txn'[p].pc = "counted" /\ txn'[p].court = c /\ txn'[p].expected = txn[p].expected
        /\ UNCHANGED <<clock, res>>
    BY <1>0, <1>5, <2>1 DEF CountUpcoming, Goto, Transaction
  <2>3. Upcoming(c, clock)' = Upcoming(c, clock)
    BY <2>2 DEF Upcoming, Active
  <2>4. Cardinality(Upcoming(c, clock)) = txn[p].expected /\ txn[p].expected \in Nat
    BY <1>0, <1>5, <2>1 DEF CountUpcoming, Transaction
  <2>5. Cardinality(Upcoming(c, clock)') =< txn[p].expected
    BY <2>3, <2>4
  <2> QED
    BY <2>2, <2>5 DEF ReadsHold, Moving
<1>6. CASE StartCancelling(p)
  <2>1. PICK c, n : c = txn[p].court /\ n = clock
    OBVIOUS
  <2>2. /\ txn'[p].pc = "cancelling" /\ txn'[p].court = c /\ txn'[p].expected = txn[p].expected
        /\ txn'[p].now = n /\ txn'[p].todo = Upcoming(c, n) /\ txn'[p].rows = txn[p].rows
        /\ UNCHANGED <<clock, res>>
    BY <1>0, <1>6, <2>1 DEF StartCancelling, Transaction
  <2>3. Upcoming(c, n)' = Upcoming(c, n)
    BY <2>2 DEF Upcoming, Active
  <2>4. txn[p].rows = {}
    BY <1>6 DEF StartCancelling, Shape, Job, Moving
  <2>5. Cardinality(Upcoming(c, n)) =< txn[p].expected
    BY <1>0, <1>6, <2>1 DEF ReadsHold, StartCancelling
  <2>6. {} \cup Upcoming(c, n) = Upcoming(c, n)
    OBVIOUS
  <2>7. n =< clock'
    BY <2>1, <2>2
  <2> QED
    BY <2>2, <2>3, <2>4, <2>5, <2>6, <2>7 DEF ReadsHold, Moving
<1>7. CASE CountPending(p)
  BY <1>0, <1>7 DEF CountPending, Goto, Transaction, ReadsHold, Moving
<1>8. CASE LockTarget(p)
  BY <1>0, <1>8 DEF LockTarget, Goto, Transaction, ReadsHold, Moving, Active
<1>9. CASE BeginJob(p)
  BY <1>9 DEF BeginJob, Idle, ReadsHold, Moving
<1>10. CASE CompleteJob(p)
  <2>1. PICK n : n = txn[p].now
    OBVIOUS
  <2>2. /\ txn'[p].pc = "completing" /\ txn'[p].rows = txn[p].rows /\ txn'[p].expired = txn[p].rows
        /\ txn'[p].now = n /\ UNCHANGED <<clock, res>>
    BY <1>0, <1>10, <2>1 DEF CompleteJob, Transaction
  <2>3. Expirable(n)' = Expirable(n)
    BY <2>2 DEF Expirable
  <2>4. n =< clock /\ txn[p].rows \subseteq Expirable(n)
    BY <1>0, <1>10, <2>1 DEF ReadsHold, CompleteJob
  <2> QED
    BY <2>2, <2>3, <2>4 DEF ReadsHold, Moving
<1>11. ASSUME NEW i \in Res, Visit(p, i) PROVE ReadsHold(p)'
  <2>1. PICK n, c : n = txn[p].now /\ c = txn[p].court
    OBVIOUS
  <2>2. /\ txn'[p].pc = txn[p].pc /\ txn'[p].now = n /\ txn'[p].court = c
        /\ txn'[p].expired = txn[p].expired /\ txn'[p].expected = txn[p].expected
        /\ txn'[p].todo = txn[p].todo \ {i}
        /\ txn'[p].rows = IF i \in Matching(p) THEN txn[p].rows \cup {i} ELSE txn[p].rows
        /\ UNCHANGED <<clock, res>>
    BY <1>0, <1>11, <2>1 DEF Visit, Transaction
  <2>3. /\ Upcoming(c, n)' = Upcoming(c, n)
        /\ Expirable(n)' = Expirable(n) /\ Completable(n)' = Completable(n)
    BY <2>2 DEF Upcoming, Expirable, Completable, Active
  <2>4. txn[p].pc \in Job \cup {"cancelling"}
    BY <1>11 DEF Visit, Shape
  <2>5. CASE txn[p].pc = "cancelling"
    <3>1. Matching(p) = Upcoming(c, n)
      BY <2>1, <2>5 DEF Matching
    <3>2. /\ n =< clock /\ txn[p].rows \subseteq Upcoming(c, n)
          /\ Upcoming(c, n) \subseteq txn[p].rows \cup txn[p].todo
          /\ Cardinality(txn[p].rows \cup txn[p].todo) =< txn[p].expected
      BY <1>0, <2>1, <2>5 DEF ReadsHold
    <3>3. /\ n =< clock' /\ txn'[p].rows \subseteq Upcoming(c, n)'
          /\ Upcoming(c, n)' \subseteq txn'[p].rows \cup txn'[p].todo
      BY <2>2, <2>3, <3>1, <3>2
    <3>4. txn'[p].rows \cup txn'[p].todo \subseteq txn[p].rows \cup txn[p].todo
      BY <2>2, <1>11 DEF Visit
    <3>5. IsFiniteSet(txn[p].rows \cup txn[p].todo)
      BY <1>0, FS_Subset, IdAssumption DEF Transaction
    <3>6. /\ IsFiniteSet(txn'[p].rows \cup txn'[p].todo)
          /\ Cardinality(txn'[p].rows \cup txn'[p].todo) =< Cardinality(txn[p].rows \cup txn[p].todo)
      BY <3>4, <3>5, FS_Subset
    <3>7. /\ Cardinality(txn[p].rows \cup txn[p].todo) \in Nat
          /\ Cardinality(txn'[p].rows \cup txn'[p].todo) \in Nat /\ txn[p].expected \in Nat
      BY <1>0, <3>5, <3>6, FS_CardinalityType DEF Transaction
    <3>8. Cardinality(txn'[p].rows \cup txn'[p].todo) =< txn'[p].expected
      BY <2>2, <3>2, <3>6, <3>7
    <3> QED
      BY <2>2, <2>5, <3>3, <3>8 DEF ReadsHold, Moving
  <2>6. CASE txn[p].pc = "expiring"
    <3>1. Matching(p) = Expirable(n)
      BY <2>1, <2>6 DEF Matching
    <3>2. n =< clock /\ txn[p].rows \subseteq Expirable(n)
      BY <1>0, <2>1, <2>6 DEF ReadsHold
    <3> QED
      BY <2>2, <2>3, <2>6, <3>1, <3>2 DEF ReadsHold, Moving
  <2>7. CASE txn[p].pc = "completing"
    <3>1. Matching(p) = Completable(n)
      BY <2>1, <2>7 DEF Matching
    <3>2. /\ n =< clock /\ txn[p].expired \subseteq Expirable(n)
          /\ txn[p].rows \ txn[p].expired \subseteq Completable(n)
      BY <1>0, <2>1, <2>7 DEF ReadsHold
    <3> QED
      BY <2>2, <2>3, <2>7, <3>1, <3>2 DEF ReadsHold, Moving
  <2> QED
    BY <2>4, <2>5, <2>6, <2>7 DEF Job
<1>12. ASSUME NEW q \in Procs, Ends(q) \/ NewRequest(q) \/ Advances(q) \/ \E i \in Res : Visit(q, i), q # p
       PROVE  txn'[p] = txn[p]
  <2>1. CASE Ends(q)
    BY <1>12, <2>1 DEF Ends
  <2>2. CASE NewRequest(q)
    BY <1>12, <2>2 DEF NewRequest, BeginDisable, BeginClose, BeginDelete, LockCourt, BeginStaffBooking,
                       BeginMemberBooking, LockReservation
  <2>3. CASE Advances(q)
    BY <1>12, <2>3 DEF Advances, EnsureNoUpcoming, CountUpcoming, StartCancelling, CountPending, LockTarget,
                       BeginJob, CompleteJob, Goto
  <2>4. CASE \E i \in Res : Visit(q, i)
    BY <1>12, <2>4 DEF Visit
  <2> QED
    BY <1>12, <2>1, <2>2, <2>3, <2>4
<1>13. Advances(p) => ReadsHold(p)'
  BY <1>4, <1>5, <1>6, <1>7, <1>8, <1>9, <1>10 DEF Advances
<1> QED
  BY <1>1, <1>2, <1>3, <1>11, <1>12, <1>13, TransactionWriters

\* Commits of a closing and of the job write the rows they hold and end them.
LEMMA CloseEnds ==
  ASSUME TypeOK, Shape, NEW p \in Procs, CloseCourt(p), NEW i \in Res
  PROVE  /\ i \in txn[p].rows =>
              /\ res'[i].status = "cancelled" /\ res'[i].reason = "BY_STAFF"
              /\ res'[i].court = res[i].court /\ res'[i].slot = res[i].slot
         /\ i \notin txn[p].rows => res'[i] = res[i]
<1>1. i \in txn[p].rows => res[i] \in Reservation
  BY DEF TypeOK, Shape
<1>2. i \in txn[p].rows => res'[i] = [res[i] EXCEPT !.status = "cancelled", !.reason = "BY_STAFF"]
  BY DEF CloseCourt
<1>3. i \notin txn[p].rows => res'[i] = res[i]
  BY DEF CloseCourt
<1> QED
  BY <1>1, <1>2, <1>3 DEF Reservation

LEMMA JobEnds ==
  ASSUME TypeOK, Shape, NEW p \in Procs, CommitJob(p), NEW i \in Res
  PROVE  /\ i \in txn[p].expired =>
              /\ res'[i].status = "cancelled" /\ res'[i].reason = "EXPIRED_UNCONFIRMED"
              /\ res'[i].court = res[i].court /\ res'[i].slot = res[i].slot
         /\ i \in txn[p].rows \ txn[p].expired =>
              /\ res'[i].status = "completed" /\ res'[i].reason = res[i].reason
              /\ res'[i].court = res[i].court /\ res'[i].slot = res[i].slot
         /\ i \notin txn[p].rows => res'[i] = res[i]
<1>1. i \in txn[p].rows => res[i] \in Reservation
  BY DEF TypeOK, Shape
<1>2. txn[p].expired \subseteq txn[p].rows
  BY DEF Shape
<1>3. i \in txn[p].expired => res'[i] = Expire(res[i])
  BY DEF CommitJob
<1>4. i \in txn[p].rows \ txn[p].expired => res'[i] = Complete(res[i])
  BY DEF CommitJob
<1>5. i \notin txn[p].rows => res'[i] = res[i]
  BY <1>2 DEF CommitJob
<1> QED
  BY <1>1, <1>2, <1>3, <1>4, <1>5 DEF Expire, Complete, Reservation

\* A move writes the court and the slot of the one row it holds, which is active.
LEMMA MoveEnds ==
  ASSUME TypeOK, Shape, ReadsStillHold, NEW p \in Procs, Move(p)
  PROVE  \E j \in Res :
            /\ Active(j)
            /\ txn[p].court \in Courts /\ txn[p].slot \in OpenSlots
            /\ NoOverlapAllows(j, txn[p].court, txn[p].slot)
            /\ res'[j] = [res[j] EXCEPT !.court = txn[p].court, !.slot = txn[p].slot]
            /\ res'[j].court = txn[p].court /\ res'[j].slot = txn[p].slot
            /\ res'[j].status = res[j].status /\ res'[j].reason = res[j].reason
            /\ \A i \in Res \ {j} : res'[i] = res[i]
<1>1. PICK j \in txn[p].rows :
        /\ NoOverlapAllows(j, txn[p].court, txn[p].slot)
        /\ res' = [res EXCEPT ![j].court = txn[p].court, ![j].slot = txn[p].slot]
  BY DEF Move
<1>2. j \in Res /\ Active(j)
  BY DEF ReadsStillHold, ReadsHold, Move, Moving
<1>3. res[j] \in Reservation
  BY <1>2 DEF TypeOK, Active
<1>4. txn[p].court \in Courts /\ txn[p].slot \in OpenSlots
  BY DEF Move, Shape, Moving
<1>5. res'[j] = [res[j] EXCEPT !.court = txn[p].court, !.slot = txn[p].slot]
  BY <1>1, <1>2 DEF TypeOK
<1>6. \A i \in Res \ {j} : res'[i] = res[i]
  BY <1>1, <1>2 DEF TypeOK
<1>7. /\ res'[j].court = txn[p].court /\ res'[j].slot = txn[p].slot
      /\ res'[j].status = res[j].status /\ res'[j].reason = res[j].reason
  BY <1>3, <1>5 DEF Reservation
<1> QED
  BY <1>1, <1>2, <1>4, <1>5, <1>6, <1>7

-----------------------------------------------------------------------------
(* What the reservations and the courts promise *)

LEMMA ReasonStep ==
  TypeOK /\ Shape /\ ReadsStillHold /\ ReasonMeansCancelled /\ [Next]_vars
  => ReasonMeansCancelled'
<1> SUFFICES ASSUME TypeOK, Shape, ReadsStillHold, ReasonMeansCancelled, [Next]_vars,
                    NEW i \in Res, res'[i] # NoRes, res'[i].reason # "none"
             PROVE  res'[i].status = "cancelled"
  BY DEF ReasonMeansCancelled
<1> USE DEF TypeOK, ReasonMeansCancelled
<1>1. CASE UNCHANGED res
  BY <1>1
<1>2. ASSUME NEW j \in Res, Confirm(j) \/ StaffCancel(j) \/ MemberCancel(j)
      PROVE res'[i].status = "cancelled"
  BY <1>2 DEF Confirm, StaffCancel, MemberCancel, Active, Reservation
<1>3. ASSUME NEW q \in Procs, NEW j \in Res, StaffInsert(q, j) \/ MemberInsert(q, j)
      PROVE res'[i].status = "cancelled"
  BY <1>3 DEF StaffInsert, MemberInsert, Insert
<1>4. ASSUME NEW q \in Procs, CloseCourt(q) PROVE res'[i].status = "cancelled"
  BY <1>4, CloseEnds
<1>5. ASSUME NEW q \in Procs, Move(q) PROVE res'[i].status = "cancelled"
  BY <1>5, MoveEnds DEF Active
<1>6. ASSUME NEW q \in Procs, CommitJob(q) PROVE res'[i].status = "cancelled"
  <2>1. i \in txn[q].rows \ txn[q].expired => res[i].status = "confirmed" /\ res[i] # NoRes
    BY <1>6 DEF CommitJob, ReadsStillHold, ReadsHold, Completable
  <2>2. i \notin txn[q].rows \ txn[q].expired
    BY <1>6, <2>1, JobEnds
  <2> QED
    BY <1>6, <2>2, JobEnds
<1> QED
  BY <1>1, <1>2, <1>3, <1>4, <1>5, <1>6, ReservationWriters DEF WritesReservations

LEMMA DoubleBookingStep ==
  TypeOK /\ Shape /\ ReadsStillHold /\ NoDoubleBooking /\ [Next]_vars => NoDoubleBooking'
<1> SUFFICES ASSUME TypeOK, Shape, ReadsStillHold, NoDoubleBooking, [Next]_vars PROVE NoDoubleBooking'
  OBVIOUS
<1> USE DEF TypeOK
<1> DEFINE Kept(i) == Active(i)' => Active(i) /\ res[i].court = res'[i].court /\ res[i].slot = res'[i].slot
\* The exclusion constraint compares one row with the others, whichever is first.
<1>o. \A s, t : Overlap(s, t) <=> Overlap(t, s)
  BY DEF Overlap
<1>a. ASSUME \A i \in Res : Kept(i) PROVE NoDoubleBooking'
  BY <1>a DEF NoDoubleBooking, Overlap
<1>b. ASSUME NEW j \in Res, NEW c, NEW s, NoOverlapAllows(j, c, s), \A i \in Res \ {j} : res'[i] = res[i],
             res'[j].court = c, res'[j].slot = s
      PROVE  NoDoubleBooking'
  <2>1. \A i \in Res \ {j} : Active(i)' => Active(i)
    BY <1>b DEF Active
  <2>2. \A i, k \in Res \ {j} : i # k /\ Active(i)' /\ Active(k)' /\ res'[i].court = res'[k].court
                                => ~Overlap(res'[i].slot, res'[k].slot)
    BY <1>b, <2>1 DEF NoDoubleBooking
  <2>3. \A i \in Res \ {j} : Active(i)' /\ res'[i].court = c => ~Overlap(res'[i].slot, s)
    BY <1>b, <2>1 DEF NoOverlapAllows
  <2>4. \A i, k \in Res : i # k /\ Active(i)' /\ Active(k)' /\ res'[i].court = res'[k].court
                          => ~Overlap(res'[i].slot, res'[k].slot)
    BY <1>b, <1>o, <2>2, <2>3
  <2> QED
    BY <2>4 DEF NoDoubleBooking, Overlap
<1>1. CASE UNCHANGED res
  BY <1>1, <1>a DEF Active
<1>2. ASSUME NEW j \in Res, Confirm(j) \/ StaffCancel(j) \/ MemberCancel(j) PROVE NoDoubleBooking'
  <2>1. \A i \in Res : Kept(i)
    BY <1>2 DEF Confirm, StaffCancel, MemberCancel, Active, Reservation, Live
  <2> QED
    BY <1>a, <2>1
<1>3. ASSUME NEW q \in Procs, NEW j \in Res, StaffInsert(q, j) \/ MemberInsert(q, j) PROVE NoDoubleBooking'
  BY <1>3, <1>b DEF StaffInsert, MemberInsert, Insert
<1>4. ASSUME NEW q \in Procs, CloseCourt(q) PROVE NoDoubleBooking'
  <2>1. \A i \in Res : Kept(i)
    BY <1>4, CloseEnds DEF Active, Live
  <2> QED
    BY <1>a, <2>1
<1>5. ASSUME NEW q \in Procs, Move(q) PROVE NoDoubleBooking'
  BY <1>5, <1>b, MoveEnds
<1>6. ASSUME NEW q \in Procs, CommitJob(q) PROVE NoDoubleBooking'
  <2>1. \A i \in Res : Kept(i)
    BY <1>6, JobEnds DEF Active, Live, Shape
  <2> QED
    BY <1>a, <2>1
<1> QED
  BY <1>1, <1>2, <1>3, <1>4, <1>5, <1>6, ReservationWriters DEF WritesReservations

LEMMA ClosedCourtStep ==
  TypeOK /\ Shape /\ LockDiscipline /\ ReadsStillHold /\ ClosedCourtIsEmpty /\ [Next]_vars
  => ClosedCourtIsEmpty'
<1> SUFFICES ASSUME TypeOK, Shape, LockDiscipline, ReadsStillHold, ClosedCourtIsEmpty, [Next]_vars,
                    NEW c \in Courts, court'[c] # "active"
             PROVE  Upcoming(c, clock)' = {}
  BY DEF ClosedCourtIsEmpty
<1> USE DEF TypeOK
<1>1. CASE court[c] # "active"
  <2>1. \A q \in Procs : txn[q].pc \in Sharing => txn[q].court # c
    BY <1>1 DEF LockDiscipline
  <2>2. Upcoming(c, clock)' \subseteq Upcoming(c, clock)
    BY <2>1, UpcomingFades
  <2> QED
    BY <1>1, <2>2 DEF ClosedCourtIsEmpty
<1>2. ASSUME NEW p \in Procs, DisableCourt(p), txn[p].court = c PROVE Upcoming(c, clock)' = {}
  <2>1. Upcoming(c, clock) = {}
    BY <1>2 DEF DisableCourt, ReadsStillHold, ReadsHold
  <2> QED
    BY <1>2, <2>1 DEF DisableCourt, Upcoming, Active
<1>3. ASSUME NEW p \in Procs, CloseCourt(p), txn[p].court = c PROVE Upcoming(c, clock)' = {}
  <2>1. PICK n \in Nat : n = txn[p].now
    BY DEF Transaction
  <2>2. Upcoming(c, n) \subseteq txn[p].rows /\ n =< clock
    BY <1>3, <2>1 DEF CloseCourt, ReadsStillHold, ReadsHold
  <2>3. SUFFICES ASSUME NEW i \in Res, i \in Upcoming(c, clock)' PROVE FALSE
    BY DEF Upcoming
  <2>4. i \notin txn[p].rows
    BY <1>3, <2>3, CloseEnds DEF Upcoming, Active, Live
  <2>5. res'[i] = res[i] /\ clock' = clock
    BY <1>3, <2>4, CloseEnds DEF CloseCourt
  <2>6. Active(i) /\ res[i].court = c /\ res[i].slot.end > clock
    BY <2>3, <2>5 DEF Upcoming, Active
  <2>7. res[i].slot.end > n
    BY <2>2, <2>6, SlotAssumption DEF Active, Reservation
  <2> QED
    BY <2>2, <2>4, <2>6, <2>7 DEF Upcoming
<1>4. ASSUME NEW p \in Procs, DeleteCourt(p), txn[p].court = c PROVE Upcoming(c, clock)' = {}
  BY <1>4 DEF DeleteCourt, Upcoming, Active
<1>5. ASSUME NEW p \in Procs, DisableCourt(p) \/ CloseCourt(p) \/ DeleteCourt(p),
             txn[p].court # c
      PROVE  court'[c] = court[c]
  BY <1>5 DEF DisableCourt, CloseCourt, DeleteCourt
<1>6. ASSUME NEW d \in Courts, CreateCourt(d) \/ EnableCourt(d) PROVE court[c] # "active"
  BY <1>6 DEF CreateCourt, EnableCourt
<1> QED
  BY <1>1, <1>2, <1>3, <1>4, <1>5, <1>6, CourtWriters

LEMMA HaveCourtStep ==
  TypeOK /\ Shape /\ LockDiscipline /\ ReadsStillHold /\ ReservationsHaveCourt /\ [Next]_vars
  => ReservationsHaveCourt'
<1> SUFFICES ASSUME TypeOK, Shape, LockDiscipline, ReadsStillHold, ReservationsHaveCourt, [Next]_vars,
                    NEW i \in Res, res'[i] # NoRes
             PROVE  court'[res'[i].court] \in {"active", "inactive"}
  BY DEF ReservationsHaveCourt
<1> USE DEF TypeOK
<1> DEFINE Hosted == res'[i].court \in Courts /\ court[res'[i].court] \in {"active", "inactive"}
<1>s. (res[i] # NoRes /\ res'[i].court = res[i].court) => Hosted
  BY DEF ReservationsHaveCourt, Reservation
\* Whatever is written on the reservation, its court was there before the step.
<1>a. Hosted
  <2>1. CASE UNCHANGED res
    BY <1>s, <2>1
  <2>2. ASSUME NEW j \in Res, Confirm(j) \/ StaffCancel(j) \/ MemberCancel(j) PROVE Hosted
    BY <1>s, <2>2 DEF Confirm, StaffCancel, MemberCancel, Active, Reservation
  <2>3. ASSUME NEW q \in Procs, NEW j \in Res, StaffInsert(q, j) \/ MemberInsert(q, j) PROVE Hosted
    <3>1. txn[q].court \in Courts /\ court[txn[q].court] = "active"
      BY <2>3 DEF StaffInsert, MemberInsert, LockDiscipline, Shape, Sharing, Creating
    <3>2. CASE i = j
      BY <2>3, <3>1, <3>2 DEF StaffInsert, MemberInsert, Insert
    <3>3. CASE i # j
      BY <1>s, <2>3, <3>3 DEF StaffInsert, MemberInsert, Insert
    <3> QED
      BY <3>2, <3>3
  <2>4. ASSUME NEW q \in Procs, CloseCourt(q) PROVE Hosted
    BY <1>s, <2>4, CloseEnds DEF Shape
  <2>5. ASSUME NEW q \in Procs, Move(q) PROVE Hosted
    <3>1. court[txn[q].court] = "active" /\ txn[q].court \in Courts
      BY <2>5 DEF Move, LockDiscipline, Sharing, Shape, Moving
    <3>2. res'[i] = res[i] \/ res'[i].court = txn[q].court
      BY <2>5, MoveEnds
    <3> QED
      BY <1>s, <3>1, <3>2
  <2>6. ASSUME NEW q \in Procs, CommitJob(q) PROVE Hosted
    BY <1>s, <2>6, JobEnds DEF Shape
  <2> QED
    BY <2>1, <2>2, <2>3, <2>4, <2>5, <2>6, ReservationWriters DEF WritesReservations
<1>1. CASE UNCHANGED court
  BY <1>a, <1>1
<1>2. ASSUME NEW c \in Courts, CreateCourt(c) \/ EnableCourt(c)
      PROVE court'[res'[i].court] \in {"active", "inactive"}
  BY <1>a, <1>2 DEF CreateCourt, EnableCourt
<1>3. ASSUME NEW p \in Procs, DisableCourt(p) \/ CloseCourt(p)
      PROVE court'[res'[i].court] \in {"active", "inactive"}
  BY <1>a, <1>3 DEF DisableCourt, CloseCourt
<1>4. ASSUME NEW p \in Procs, DeleteCourt(p) PROVE court'[res'[i].court] \in {"active", "inactive"}
  BY <1>a, <1>4 DEF DeleteCourt
<1> QED
  BY <1>1, <1>2, <1>3, <1>4, CourtWriters

LEMMA SettledStep ==
  TypeOK /\ Shape /\ ReadsStillHold /\ ReasonMeansCancelled /\ SettledInTime /\ [Next]_vars
  => SettledInTime'
<1> SUFFICES ASSUME TypeOK, Shape, ReadsStillHold, ReasonMeansCancelled, SettledInTime, [Next]_vars,
                    NEW i \in Res, res'[i] # NoRes
             PROVE  /\ res'[i].status = "completed" => res'[i].slot.end =< clock'
                    /\ res'[i].reason = "EXPIRED_UNCONFIRMED" => res'[i].slot.start =< clock'
  BY DEF SettledInTime
<1> USE DEF TypeOK
<1> DEFINE InTime == /\ res'[i].status = "completed" => res'[i].slot.end =< clock
                     /\ res'[i].reason = "EXPIRED_UNCONFIRMED" => res'[i].slot.start =< clock
<1>0. clock \in Nat /\ clock' \in Nat /\ clock =< clock'
  BY ClockAdvances
<1>s. res[i] # NoRes /\ res'[i] = res[i] => InTime
  BY DEF SettledInTime
<1>1. ASSUME UNCHANGED res PROVE InTime
  BY <1>s, <1>1
<1>2. ASSUME NEW j \in Res, Confirm(j) \/ StaffCancel(j) \/ MemberCancel(j) PROVE InTime
  <2>1. CASE i # j
    BY <1>s, <1>2, <2>1 DEF Confirm, StaffCancel, MemberCancel
  <2>2. CASE i = j /\ Confirm(j)
    BY <2>2 DEF Confirm, Reservation, ReasonMeansCancelled
  <2>3. CASE i = j /\ (StaffCancel(j) \/ MemberCancel(j))
    BY <2>3 DEF StaffCancel, MemberCancel, Active, Reservation
  <2> QED
    BY <1>2, <2>1, <2>2, <2>3
<1>3. ASSUME NEW q \in Procs, NEW j \in Res, StaffInsert(q, j) \/ MemberInsert(q, j) PROVE InTime
  BY <1>s, <1>3 DEF StaffInsert, MemberInsert, Insert
<1>4. ASSUME NEW q \in Procs, CloseCourt(q) PROVE InTime
  BY <1>s, <1>4, CloseEnds
<1>5. ASSUME NEW q \in Procs, Move(q) PROVE InTime
  <2>1. CASE res'[i] = res[i]
    BY <1>s, <2>1
  <2>2. CASE res'[i] # res[i]
    <3>1. Active(i) /\ res'[i].status = res[i].status /\ res'[i].reason = res[i].reason
      BY <1>5, <2>2, MoveEnds
    <3> QED
      BY <3>1 DEF Active, Live, ReasonMeansCancelled
  <2> QED
    BY <2>1, <2>2
<1>6. ASSUME NEW q \in Procs, CommitJob(q) PROVE InTime
  <2>1. PICK n \in Nat : n = txn[q].now
    BY DEF Transaction
  <2>2. /\ n =< clock /\ txn[q].expired \subseteq Expirable(n)
        /\ txn[q].rows \ txn[q].expired \subseteq Completable(n)
    BY <1>6, <2>1 DEF CommitJob, ReadsStillHold, ReadsHold
  <2>3. CASE i \in txn[q].expired
    <3>1. res[i] \in Reservation /\ res[i].slot.start =< n
      BY <2>2, <2>3 DEF Expirable
    <3>2. res[i].slot.start =< clock
      BY <1>0, <2>2, <3>1, SlotAssumption DEF Reservation
    <3> QED
      BY <1>6, <2>3, <3>2, JobEnds
  <2>4. CASE i \in txn[q].rows \ txn[q].expired
    <3>1. res[i] \in Reservation /\ res[i].slot.end =< n /\ res[i].reason = "none"
      BY <2>2, <2>4 DEF Completable, ReasonMeansCancelled
    <3>2. res[i].slot.end =< clock
      BY <1>0, <2>2, <3>1, SlotAssumption DEF Reservation
    <3> QED
      BY <1>6, <2>4, <3>1, <3>2, JobEnds
  <2>5. CASE i \notin txn[q].rows
    BY <1>s, <1>6, <2>5, JobEnds
  <2> QED
    BY <2>3, <2>4, <2>5
<1>7. InTime
  BY <1>1, <1>2, <1>3, <1>4, <1>5, <1>6, ReservationWriters DEF WritesReservations
<1>8. res'[i] \in Reservation
  BY TypeStep
<1> QED
  BY <1>0, <1>7, <1>8, SlotAssumption DEF Reservation

-----------------------------------------------------------------------------
(* The theorems *)

\* The inductive invariant.  What the code promises is not inductive alone: that a
\* closed court is empty needs that whoever closes it still knows what it hosts,
\* which needs that nobody books while the court is locked.
Inv ==
    /\ TypeOK /\ Shape
    /\ LockDiscipline /\ ReadsStillHold /\ ReasonMeansCancelled
    /\ NoDoubleBooking /\ ClosedCourtIsEmpty /\ ReservationsHaveCourt /\ SettledInTime

LEMMA InitInv == Init => Inv
<1> SUFFICES ASSUME Init PROVE Inv
  OBVIOUS
<1>1. TypeOK
  BY IdleIsTransaction DEF Init, TypeOK
<1>2. Shape
  BY DEF Init, Shape, Idle, Job, Creating, Moving, Updating, Closing
<1>3. LockDiscipline
  BY DEF Init, LockDiscipline, Idle, Updating, Closing, Sharing, Creating
<1>4. ReadsStillHold
  BY DEF Init, ReadsStillHold, ReadsHold, Idle, Moving
<1>5. ReasonMeansCancelled /\ NoDoubleBooking /\ ReservationsHaveCourt /\ SettledInTime
  BY DEF Init, ReasonMeansCancelled, NoDoubleBooking, ReservationsHaveCourt, SettledInTime, Active
<1>6. ClosedCourtIsEmpty
  BY DEF Init, ClosedCourtIsEmpty, Upcoming, Active
<1> QED
  BY <1>1, <1>2, <1>3, <1>4, <1>5, <1>6 DEF Inv

\* In every reachable state the locks exclude whom they should, and what each
\* transaction read before its next statement still holds.
THEOREM InvCorrect == Spec => []Inv
<1>1. Inv /\ [Next]_vars => Inv'
  BY TypeStep, ShapeStep, LockStep, ReadsStep, ReasonStep, DoubleBookingStep, ClosedCourtStep,
     HaveCourtStep, SettledStep DEF Inv
<1> QED
  BY <1>1, InitInv, PTL DEF Spec

\* Every variable keeps its type.
THEOREM TypeCorrect == Spec => []TypeOK
<1>1. Inv => TypeOK
  BY DEF Inv
<1> QED
  BY <1>1, InvCorrect, PTL

\* Between the statements of a transaction, what it read and relies on holds.
THEOREM ReadsCorrect == Spec => []ReadsStillHold
<1>1. Inv => ReadsStillHold
  BY DEF Inv
<1> QED
  BY <1>1, InvCorrect, PTL

\* No interleaving of bookings, moves and confirmations promises a court twice.
THEOREM NeverDoubleBooked == Spec => []NoDoubleBooking
<1>1. Inv => NoDoubleBooking
  BY DEF Inv
<1> QED
  BY <1>1, InvCorrect, PTL

\* A court that is not in use hosts nobody from now on.
THEOREM ClosedCourtsAreEmpty == Spec => []ClosedCourtIsEmpty
<1>1. Inv => ClosedCourtIsEmpty
  BY DEF Inv
<1> QED
  BY <1>1, InvCorrect, PTL

\* Deleting courts never strands a reservation.
THEOREM CourtsOutliveReservations == Spec => []ReservationsHaveCourt
<1>1. Inv => ReservationsHaveCourt
  BY DEF Inv
<1> QED
  BY <1>1, InvCorrect, PTL

\* The job settles nothing before its time, however many replicas run it.
THEOREM JobIsNeverEarly == Spec => []SettledInTime
<1>1. Inv => SettledInTime
  BY DEF Inv
<1> QED
  BY <1>1, InvCorrect, PTL

\* The commit of the job writes only reservations that are live when it writes.
LEMMA JobWritesLive ==
  ASSUME Inv, NEW p \in Procs, CommitJob(p), NEW i \in Res
  PROVE  /\ i \in txn[p].rows => Active(i)
         /\ i \in txn[p].expired => res[i].status = "pending"
  BY DEF Inv, CommitJob, ReadsStillHold, ReadsHold, Expirable, Completable, Active, Live

\* Cancelled and completed reservations are never touched again.
THEOREM TerminalStays == Spec => TerminalIsFinal
<1>1. ASSUME Inv, [Next]_vars, NEW i \in Res, res[i] # NoRes, ~Active(i) PROVE res'[i] = res[i]
  <2> USE DEF Inv, TypeOK
  <2>1. ASSUME NEW j \in Res, Confirm(j) \/ StaffCancel(j) \/ MemberCancel(j) PROVE res'[i] = res[i]
    BY <1>1, <2>1 DEF Confirm, StaffCancel, MemberCancel, MemberCanCancel, Active, Live
  <2>2. ASSUME NEW q \in Procs, NEW j \in Res, StaffInsert(q, j) \/ MemberInsert(q, j) PROVE res'[i] = res[i]
    BY <1>1, <2>2 DEF StaffInsert, MemberInsert, Insert
  <2>3. ASSUME NEW q \in Procs, CloseCourt(q) PROVE res'[i] = res[i]
    <3>1. i \notin txn[q].rows
      BY <1>1, <2>3 DEF CloseCourt, ReadsStillHold, ReadsHold, Upcoming
    <3> QED
      BY <1>1, <2>3, <3>1, CloseEnds
  <2>4. ASSUME NEW q \in Procs, Move(q) PROVE res'[i] = res[i]
    BY <1>1, <2>4, MoveEnds
  <2>5. ASSUME NEW q \in Procs, CommitJob(q) PROVE res'[i] = res[i]
    BY <1>1, <2>5, JobWritesLive, JobEnds
  <2> QED
    BY <1>1, <2>1, <2>2, <2>3, <2>4, <2>5, ReservationWriters DEF WritesReservations
<1>2. Inv /\ [Next]_vars
      => [\A i \in Res : res[i] # NoRes /\ ~Active(i) => res'[i] = res[i]]_vars
  BY <1>1
<1> QED
  BY <1>2, InvCorrect, PTL DEF Spec, TerminalIsFinal

\* A reservation that staff confirmed is not expired by a job that saw it pending.
THEOREM ConfirmedStays == Spec => ConfirmedNeverExpires
<1>1. ASSUME Inv, [Next]_vars, NEW i \in Res, res[i] # NoRes, res[i].status = "confirmed"
      PROVE  res'[i].reason # "EXPIRED_UNCONFIRMED"
  <2> USE DEF Inv, TypeOK
  <2>0. res[i].reason # "EXPIRED_UNCONFIRMED"
    BY <1>1 DEF ReasonMeansCancelled
  <2>1. ASSUME NEW j \in Res, Confirm(j) \/ StaffCancel(j) \/ MemberCancel(j)
        PROVE res'[i].reason # "EXPIRED_UNCONFIRMED"
    BY <1>1, <2>0, <2>1 DEF Confirm, StaffCancel, MemberCancel, Reservation
  <2>2. ASSUME NEW q \in Procs, NEW j \in Res, StaffInsert(q, j) \/ MemberInsert(q, j)
        PROVE res'[i].reason # "EXPIRED_UNCONFIRMED"
    BY <1>1, <2>0, <2>2 DEF StaffInsert, MemberInsert, Insert
  <2>3. ASSUME NEW q \in Procs, CloseCourt(q) PROVE res'[i].reason # "EXPIRED_UNCONFIRMED"
    BY <1>1, <2>0, <2>3, CloseEnds
  <2>4. ASSUME NEW q \in Procs, Move(q) PROVE res'[i].reason # "EXPIRED_UNCONFIRMED"
    BY <1>1, <2>0, <2>4, MoveEnds
  <2>5. ASSUME NEW q \in Procs, CommitJob(q) PROVE res'[i].reason # "EXPIRED_UNCONFIRMED"
    <3>1. i \notin txn[q].expired
      BY <1>1, <2>5, JobWritesLive
    <3> QED
      BY <1>1, <2>0, <2>5, <3>1, JobEnds
  <2> QED
    BY <1>1, <2>0, <2>1, <2>2, <2>3, <2>4, <2>5, ReservationWriters DEF WritesReservations
<1>2. Inv /\ [Next]_vars
      => [\A i \in Res : res[i] # NoRes /\ res[i].status = "confirmed"
                         => res'[i].reason # "EXPIRED_UNCONFIRMED"]_vars
  BY <1>1
<1> QED
  BY <1>2, InvCorrect, PTL DEF Spec, ConfirmedNeverExpires

\* Closing a court cancels no more reservations than the user agreed to.
THEOREM ClosingKeepsItsWord == Spec => ClosingCancelsAgreed
<1>1. ASSUME Inv, [Next]_vars, NEW p \in Requests, txn[p].pc = "cancelling", res' # res, txn'[p].pc = "idle"
      PROVE  Cardinality({i \in Res : Active(i) /\ ~Active(i)'}) =< txn[p].expected
  <2> USE DEF Inv, TypeOK
  <2> DEFINE Cancelled == {i \in Res : Active(i) /\ ~Active(i)'}
  <2>1. CloseCourt(p)
    <3>1. ASSUME NEW j \in Res, Confirm(j) \/ StaffCancel(j) \/ MemberCancel(j) PROVE FALSE
      BY <1>1, <3>1 DEF Confirm, StaffCancel, MemberCancel
    <3>2. ASSUME NEW q \in Procs, NEW j \in Res, StaffInsert(q, j) \/ MemberInsert(q, j) PROVE FALSE
      BY <1>1, <3>2 DEF StaffInsert, MemberInsert, Insert, Commit
    <3>3. ASSUME NEW q \in Procs, Move(q) \/ CommitJob(q) PROVE FALSE
      BY <1>1, <3>3 DEF Move, CommitJob, Commit
    <3>4. ASSUME NEW q \in Procs, CloseCourt(q) PROVE q = p
      BY <1>1, <3>4 DEF CloseCourt, Commit
    <3> QED
      BY <1>1, <3>1, <3>2, <3>3, <3>4, ReservationWriters DEF WritesReservations
  <2>2. txn[p].rows \cup txn[p].todo = txn[p].rows
    BY <2>1 DEF CloseCourt
  <2>3. Cardinality(txn[p].rows) =< txn[p].expected /\ txn[p].expected \in Nat
    BY <1>1, <2>2 DEF ReadsStillHold, ReadsHold, Transaction
  <2>4. Cancelled \subseteq txn[p].rows
    BY <1>1, <2>1, CloseEnds DEF Active
  <2>5. IsFiniteSet(txn[p].rows)
    BY <1>1, FS_Subset, IdAssumption DEF Transaction
  <2>6. IsFiniteSet(Cancelled) /\ Cardinality(Cancelled) =< Cardinality(txn[p].rows)
    BY <2>4, <2>5, FS_Subset
  <2>7. Cardinality(Cancelled) \in Nat /\ Cardinality(txn[p].rows) \in Nat
    BY <2>5, <2>6, FS_CardinalityType
  <2> QED
    BY <2>3, <2>6, <2>7
<1>2. Inv /\ [Next]_vars
      => [\A p \in Requests :
            txn[p].pc = "cancelling" /\ res' # res /\ txn'[p].pc = "idle"
            => Cardinality({i \in Res : Active(i) /\ ~Active(i)'}) =< txn[p].expected]_vars
  BY <1>1
<1> QED
  BY <1>2, InvCorrect, PTL DEF Spec, ClosingCancelsAgreed

-----------------------------------------------------------------------------
(* The transactions of Booking implement the calendar of CourtCalendar. *)

\* What the calendar shows of the reservations is what is stored.
LEMMA Shown ==
  ASSUME TypeOK
  PROVE  \A i \in Res :
           /\ Agenda[i] # NoRes <=> res[i] # NoRes
           /\ res[i] # NoRes => /\ Agenda[i].court = res[i].court /\ Agenda[i].slot = res[i].slot
                                /\ Agenda[i].status = res[i].status
           /\ Calendar!Stands(i) <=> Active(i)
<1> USE DEF TypeOK
<1>1. ASSUME NEW i \in Res
      PROVE  /\ Agenda[i] # NoRes <=> res[i] # NoRes
             /\ res[i] # NoRes => /\ Agenda[i].court = res[i].court /\ Agenda[i].slot = res[i].slot
                                  /\ Agenda[i].status = res[i].status
  <2>1. CASE res[i] = NoRes
    BY <2>1 DEF Agenda
  <2>2. CASE res[i] # NoRes
    <3>1. Agenda[i] = [court |-> res[i].court, slot |-> res[i].slot, status |-> res[i].status]
      BY <2>2 DEF Agenda
    <3>2. Agenda[i] \in Entry
      BY <2>2, <3>1 DEF Reservation, Entry
    <3> QED
      BY <2>2, <3>1, <3>2, NoResAssumption
  <2> QED
    BY <2>1, <2>2
<1>2. \A i \in Res : Calendar!Stands(i) <=> Active(i)
  BY <1>1 DEF Calendar!Stands, Calendar!Live, Active, Live
<1> QED
  BY <1>1, <1>2

LEMMA ShownSets ==
  ASSUME TypeOK
  PROVE  /\ \A c \in Courts : Calendar!ToCome(c) = Upcoming(c, clock)
         /\ \A i \in Res, c \in Courts, s \in OpenSlots : Calendar!Free(c, s, i) <=> NoOverlapAllows(i, c, s)
<1>1. \A j \in Res : Calendar!Stands(j) <=> Active(j)
  BY Shown
<1>2. \A j \in Res : Active(j) => Agenda[j].court = res[j].court /\ Agenda[j].slot = res[j].slot
  BY Shown DEF Active
<1>3. \A c \in Courts : Calendar!ToCome(c) = Upcoming(c, clock)
  BY <1>1, <1>2 DEF Calendar!ToCome, Upcoming
<1>4. ASSUME NEW i \in Res, NEW c \in Courts, NEW s \in OpenSlots
      PROVE  Calendar!Free(c, s, i) <=> NoOverlapAllows(i, c, s)
  BY <1>1, <1>2 DEF Calendar!Free, NoOverlapAllows, Calendar!Overlap, Overlap
<1> QED
  BY <1>3, <1>4

\* The same, for the next state.
LEMMA ShownNext ==
  ASSUME TypeOK'
  PROVE  /\ Agenda' = [i \in Res |-> Agenda'[i]]
         /\ \A i \in Res :
              /\ res'[i] = NoRes => Agenda'[i] = NoRes
              /\ res'[i] # NoRes => Agenda'[i] = [court |-> res'[i].court, slot |-> res'[i].slot,
                                                  status |-> res'[i].status]
  BY DEF Agenda

\* Initially the calendar is empty.
LEMMA RefinesInit == Init => Calendar!Init
<1> SUFFICES ASSUME Init PROVE Calendar!Init
  OBVIOUS
<1>1. Agenda = [i \in Res |-> NoRes]
  BY DEF Init, Agenda
<1> QED
  BY <1>1 DEF Init, Calendar!Init

-----------------------------------------------------------------------------
(* Each commit is one operation of the calendar. *)

LEMMA InsertBooks ==
  ASSUME Inv, TypeOK', NEW p \in Procs, NEW i \in Res, StaffInsert(p, i) \/ MemberInsert(p, i)
  PROVE  Calendar!Next
<1> USE DEF Inv, TypeOK
<1>1. PICK st \in Live : Insert(p, i, st)
  BY DEF StaffInsert, MemberInsert, Live
<1>2. PICK c \in Courts, s \in OpenSlots : c = txn[p].court /\ s = txn[p].slot /\ court[c] = "active"
  BY DEF StaffInsert, MemberInsert, Shape, LockDiscipline, Sharing, Creating
<1>3. res'[i] # NoRes /\ res'[i].court = c /\ res'[i].slot = s /\ res'[i].status = st
  <2>1. res'[i] = [court |-> c, slot |-> s, status |-> st, who |-> txn[p].who, reason |-> "none"]
    BY <1>1, <1>2 DEF Insert
  <2>2. res'[i] \in Reservation
    BY <1>2, <2>1 DEF Transaction, Reservation, Statuses, Reasons
  <2> QED
    BY <2>1, <2>2, NoResAssumption
<1>4. \A j \in Res \ {i} : Agenda'[j] = Agenda[j]
  BY <1>1 DEF Insert, Agenda
<1>5. Agenda'[i] = [court |-> c, slot |-> s, status |-> st]
  BY <1>3, ShownNext
<1>6. Agenda' = [Agenda EXCEPT ![i] = [court |-> c, slot |-> s, status |-> st]]
  BY <1>4, <1>5 DEF Agenda
<1>7. Agenda[i] = NoRes /\ Calendar!Free(c, s, i) /\ UNCHANGED <<clock, court>>
  BY <1>1, <1>2, Shown, ShownSets DEF Insert
<1>8. Calendar!Book(i, c, s)
  BY <1>2, <1>6, <1>7 DEF Calendar!Book, Calendar!Live, Live
<1> QED
  BY <1>2, <1>8 DEF Calendar!Next

LEMMA MoveRelocates ==
  ASSUME Inv, TypeOK', [Next]_vars, NEW p \in Procs, Move(p)
  PROVE  Calendar!Next
<1> USE DEF Inv, TypeOK
<1>1. PICK c \in Courts, s \in OpenSlots : c = txn[p].court /\ s = txn[p].slot /\ court[c] = "active"
  BY DEF Move, Shape, LockDiscipline, Sharing, Moving
<1>2. PICK i \in Res :
        /\ Active(i)
        /\ NoOverlapAllows(i, c, s)
        /\ res'[i].court = c /\ res'[i].slot = s /\ res'[i].status = res[i].status
        /\ \A j \in Res \ {i} : res'[j] = res[j]
  BY <1>1, MoveEnds
<1>3. res'[i] # NoRes
  BY <1>2, ReservationsStay DEF Active
<1>4. Agenda'[i] = [Agenda[i] EXCEPT !.court = c, !.slot = s]
  <2>1. Agenda'[i] = [court |-> c, slot |-> s, status |-> res[i].status]
    BY <1>2, <1>3, ShownNext
  <2>2. Agenda[i] = [court |-> res[i].court, slot |-> res[i].slot, status |-> res[i].status]
    BY <1>2 DEF Active, Agenda
  <2>3. Agenda[i] \in Entry
    BY <1>2, <2>2 DEF Active, Entry, Reservation
  <2>4. [Agenda[i] EXCEPT !.court = c, !.slot = s] = [court |-> c, slot |-> s, status |-> Agenda[i].status]
    <3>1. PICK e \in Entry : e = Agenda[i]
      BY <2>3
    <3>2. [e EXCEPT !.court = c, !.slot = s] \in Entry
      BY DEF Entry
    <3>3. [court |-> c, slot |-> s, status |-> e.status] \in Entry
      BY DEF Entry
    <3>4. [e EXCEPT !.court = c, !.slot = s].court = c /\ [e EXCEPT !.court = c, !.slot = s].slot = s
          /\ [e EXCEPT !.court = c, !.slot = s].status = e.status
      BY DEF Entry
    <3>5. [e EXCEPT !.court = c, !.slot = s] = [court |-> c, slot |-> s, status |-> e.status]
      <4>1. \A x, y \in Entry : x.court = y.court /\ x.slot = y.slot /\ x.status = y.status => x = y
        BY DEF Entry
      <4> QED
        BY <3>2, <3>3, <3>4, <4>1
    <3> QED
      BY <3>1, <3>5
  <2>5. Agenda[i].status = res[i].status
    BY <2>2
  <2> QED
    BY <2>1, <2>3, <2>4, <2>5
<1>5. \A j \in Res \ {i} : Agenda'[j] = Agenda[j]
  BY <1>2 DEF Agenda
<1>6. Agenda' = [Agenda EXCEPT ![i].court = c, ![i].slot = s]
  BY <1>4, <1>5 DEF Agenda
<1>7. Calendar!Stands(i) /\ Calendar!Free(c, s, i) /\ UNCHANGED <<clock, court>>
  BY <1>2, Shown, ShownSets DEF Move
<1>8. Calendar!Relocate(i, c, s)
  BY <1>1, <1>6, <1>7 DEF Calendar!Relocate
<1> QED
  BY <1>1, <1>8 DEF Calendar!Next

LEMMA AnswerAccepts ==
  ASSUME Inv, TypeOK', NEW i \in Res, Confirm(i) \/ StaffCancel(i) \/ MemberCancel(i)
  PROVE  Calendar!Next
<1> USE DEF Inv, TypeOK
<1> DEFINE To(st) == /\ res[i] # NoRes /\ res'[i] # NoRes
                     /\ res'[i].court = res[i].court /\ res'[i].slot = res[i].slot
                     /\ res'[i].status = st
                     /\ \A j \in Res \ {i} : res'[j] = res[j]
<1>1. ASSUME NEW st, To(st) PROVE Agenda' = [Agenda EXCEPT ![i].status = st]
  <2>1. Agenda'[i] = [court |-> res[i].court, slot |-> res[i].slot, status |-> st]
    BY <1>1, ShownNext
  <2>2. Agenda[i] = [court |-> res[i].court, slot |-> res[i].slot, status |-> res[i].status]
    BY <1>1 DEF Agenda
  <2>3. Agenda'[i] = [Agenda[i] EXCEPT !.status = st]
    BY <2>1, <2>2
  <2>4. \A j \in Res \ {i} : Agenda'[j] = Agenda[j]
    BY <1>1 DEF Agenda
  <2> QED
    BY <2>3, <2>4 DEF Agenda
<1>2. CASE Confirm(i)
  <2>1. To("confirmed") /\ UNCHANGED <<clock, court>>
    BY <1>2, NoResAssumption DEF Confirm, Reservation, Statuses, Live
  <2>2. Agenda[i] # NoRes /\ Agenda[i].status = "pending"
    BY <1>2, Shown DEF Confirm
  <2>3. Calendar!Accept(i)
    BY <1>1, <2>1, <2>2 DEF Calendar!Accept
  <2> QED
    BY <2>3 DEF Calendar!Next
<1>3. CASE StaffCancel(i) \/ MemberCancel(i)
  <2>1. To("cancelled") /\ UNCHANGED <<clock, court>>
    BY <1>3, NoResAssumption DEF StaffCancel, MemberCancel, Active, Reservation, Statuses, Live, Reasons
  <2>2. Active(i)
    BY <1>3 DEF StaffCancel, MemberCancel, MemberCanCancel, Active, Live
  <2>3. Calendar!Stands(i)
    BY <2>2, Shown
  <2>4. Calendar!Drop(i)
    BY <1>1, <2>1, <2>3 DEF Calendar!Drop
  <2> QED
    BY <2>4 DEF Calendar!Next
<1> QED
  BY <1>2, <1>3

LEMMA JobSettles ==
  ASSUME Inv, TypeOK', [Next]_vars, NEW p \in Procs, CommitJob(p)
  PROVE  Calendar!Next
<1> USE DEF Inv, TypeOK
<1> DEFINE Settled(i) == [Agenda[i] EXCEPT !.status = IF Agenda[i].status = "pending"
                                                      THEN "cancelled" ELSE "completed"]
<1>1. PICK n \in Nat : n = txn[p].now /\ n =< clock
  BY DEF CommitJob, ReadsStillHold, ReadsHold, Transaction
<1>2. /\ txn[p].expired \subseteq Expirable(n)
      /\ txn[p].rows \ txn[p].expired \subseteq Completable(n)
      /\ txn[p].rows \subseteq Res /\ txn[p].expired \subseteq txn[p].rows
  BY <1>1 DEF CommitJob, ReadsStillHold, ReadsHold, Transaction, Shape
<1>3. ASSUME NEW i \in txn[p].rows
      PROVE  /\ Calendar!Stands(i)
             /\ \/ Agenda[i].status = "pending" /\ Agenda[i].slot.start =< clock
                \/ Agenda[i].status = "confirmed" /\ Agenda[i].slot.end =< clock
             /\ Agenda'[i] = Settled(i)
  <2>0. i \in Res /\ res[i] # NoRes /\ Active(i) /\ res[i] \in Reservation
    BY <1>2, <1>3, JobWritesLive DEF Active
  <2>1. Agenda[i] = [court |-> res[i].court, slot |-> res[i].slot, status |-> res[i].status]
    BY <2>0 DEF Agenda
  <2>2. res'[i] # NoRes
    BY <2>0, ReservationsStay
  <2>3. Agenda'[i] = [court |-> res'[i].court, slot |-> res'[i].slot, status |-> res'[i].status]
    BY <2>0, <2>2, ShownNext
  <2>4. CASE i \in txn[p].expired
    <3>1. res[i].status = "pending" /\ res[i].slot.start =< n
      BY <1>2, <2>4 DEF Expirable
    <3>2. res[i].slot.start =< clock
      BY <1>1, <2>0, <3>1, SlotAssumption DEF Reservation
    <3>3. Agenda'[i] = Settled(i)
      BY <2>0, <2>1, <2>3, <2>4, <3>1, JobEnds
    <3> QED
      BY <2>0, <2>1, <3>1, <3>2, <3>3, Shown
  <2>5. CASE i \notin txn[p].expired
    <3>1. res[i].status = "confirmed" /\ res[i].slot.end =< n
      BY <1>2, <1>3, <2>5 DEF Completable
    <3>2. res[i].slot.end =< clock
      BY <1>1, <2>0, <3>1, SlotAssumption DEF Reservation
    <3>3. Agenda'[i] = Settled(i)
      BY <1>3, <2>0, <2>1, <2>3, <2>5, <3>1, JobEnds
    <3> QED
      BY <2>0, <2>1, <3>1, <3>2, <3>3, Shown
  <2> QED
    BY <2>4, <2>5
<1>4. ASSUME NEW i \in Res \ txn[p].rows PROVE Agenda'[i] = Agenda[i]
  BY <1>4, JobEnds DEF Agenda
<1>5. Agenda' = [i \in Res |-> IF i \in txn[p].rows THEN Settled(i) ELSE Agenda[i]]
  BY <1>2, <1>3, <1>4, ShownNext
<1>6. Calendar!Settle
  BY <1>2, <1>3, <1>5 DEF Calendar!Settle, CommitJob
<1> QED
  BY <1>6 DEF Calendar!Next

LEMMA CourtsChange ==
  ASSUME Inv, TypeOK', [Next]_vars, NEW p \in Procs, DisableCourt(p) \/ CloseCourt(p) \/ DeleteCourt(p)
  PROVE  Calendar!Next
<1> USE DEF Inv, TypeOK
<1>0. PICK c \in Courts : c = txn[p].court
  BY DEF DisableCourt, CloseCourt, DeleteCourt, Shape, Updating, Closing
<1>1. CASE DisableCourt(p)
  <2>1. Calendar!ToCome(c) = {}
    BY <1>0, <1>1, ShownSets DEF DisableCourt, ReadsStillHold, ReadsHold
  <2>2. court[c] = "active"
    BY <1>0, <1>1 DEF DisableCourt, LockDiscipline
  <2>3. Agenda' = [i \in Res |-> IF i \in {} THEN [Agenda[i] EXCEPT !.status = "cancelled"] ELSE Agenda[i]]
    BY <1>1 DEF DisableCourt, Agenda
  <2>4. Calendar!Close(c)
    BY <1>0, <1>1, <2>1, <2>2, <2>3 DEF Calendar!Close, DisableCourt
  <2> QED
    BY <2>4 DEF Calendar!Next
<1>2. CASE CloseCourt(p)
  <2>1. PICK n \in Nat : n = txn[p].now /\ n =< clock
    BY <1>2 DEF CloseCourt, ReadsStillHold, ReadsHold, Transaction
  <2>2. txn[p].rows = Upcoming(c, n)
    BY <1>0, <1>2, <2>1 DEF CloseCourt, ReadsStillHold, ReadsHold
  <2>3. Upcoming(c, clock) \subseteq Upcoming(c, n)
    BY <2>1, SlotAssumption DEF Upcoming, Active, Reservation
  <2>4. court[c] = "active"
    BY <1>0, <1>2 DEF CloseCourt, LockDiscipline, Closing
  <2>5. \A i \in txn[p].rows : i \in Res /\ Calendar!Stands(i) /\ Agenda[i].court = c
    BY <2>2, Shown DEF Upcoming, Active
  <2>6. ASSUME NEW i \in Res
        PROVE Agenda'[i] = IF i \in txn[p].rows THEN [Agenda[i] EXCEPT !.status = "cancelled"] ELSE Agenda[i]
    <3>1. CASE i \in txn[p].rows
      <4>1. res[i] # NoRes /\ res[i] \in Reservation
        BY <2>2, <3>1 DEF Upcoming, Active
      <4>2. Agenda[i] = [court |-> res[i].court, slot |-> res[i].slot, status |-> res[i].status]
        BY <4>1 DEF Agenda
      <4>3. res'[i] # NoRes
        BY <4>1, ReservationsStay
      <4>4. Agenda'[i] = [court |-> res'[i].court, slot |-> res'[i].slot, status |-> res'[i].status]
        BY <4>3, ShownNext
      <4> QED
        BY <1>2, <3>1, <4>2, <4>4, CloseEnds
    <3>2. CASE i \notin txn[p].rows
      BY <1>2, <3>2, CloseEnds DEF Agenda
    <3> QED
      BY <3>1, <3>2
  <2>7. Agenda' = [i \in Res |-> IF i \in txn[p].rows THEN [Agenda[i] EXCEPT !.status = "cancelled"] ELSE Agenda[i]]
    BY <2>6, ShownNext
  <2>8. Calendar!ToCome(c) \subseteq txn[p].rows
    BY <2>2, <2>3, ShownSets
  <2>9. Calendar!Close(c)
    BY <1>0, <1>2, <2>4, <2>5, <2>7, <2>8 DEF Calendar!Close, CloseCourt
  <2> QED
    BY <2>9 DEF Calendar!Next
<1>3. CASE DeleteCourt(p)
  <2>1. court[c] \in {"active", "inactive"}
    BY <1>0, <1>3 DEF DeleteCourt, LockDiscipline
  <2>2. \A i \in Res : Agenda[i] # NoRes => Agenda[i].court # c
    BY <1>0, <1>3, Shown DEF DeleteCourt
  <2>3. UNCHANGED Agenda
    BY <1>3 DEF DeleteCourt, Agenda
  <2>4. Calendar!Remove(c)
    BY <1>0, <1>3, <2>1, <2>2, <2>3 DEF Calendar!Remove, DeleteCourt
  <2> QED
    BY <2>4 DEF Calendar!Next
<1> QED
  BY <1>1, <1>2, <1>3

LEMMA RefinesStep == Inv /\ [Next]_vars => [Calendar!Next]_Calendar!calendarVars
<1> SUFFICES ASSUME Inv, [Next]_vars PROVE Calendar!Next \/ UNCHANGED Calendar!calendarVars
  OBVIOUS
<1> USE DEF Inv
<1>t. TypeOK'
  BY TypeStep
<1>1. CASE ~UNCHANGED res
  BY <1>t, <1>1, InsertBooks, MoveRelocates, AnswerAccepts, JobSettles, CourtsChange, ReservationWriters
     DEF WritesReservations
<1>2. CASE ~UNCHANGED court
  <2>1. ASSUME NEW c \in Courts, CreateCourt(c) \/ EnableCourt(c) PROVE Calendar!Next
    <3>1. Calendar!Open(c)
      BY <2>1 DEF CreateCourt, EnableCourt, Calendar!Open, Agenda
    <3> QED
      BY <3>1 DEF Calendar!Next
  <2> QED
    BY <1>t, <1>2, <2>1, CourtsChange, CourtWriters
<1>3. CASE UNCHANGED <<res, court>>
  <2>1. UNCHANGED <<Agenda, court>>
    BY <1>3 DEF Agenda
  <2>2. CASE UNCHANGED clock
    BY <2>1, <2>2 DEF Calendar!calendarVars
  <2>3. CASE clock' # clock
    <3>1. clock' > clock /\ clock' \in Nat
      BY <2>3, ClockAdvances DEF TypeOK
    <3>2. Calendar!Pass
      BY <2>1, <3>1 DEF Calendar!Pass
    <3> QED
      BY <3>2 DEF Calendar!Next
  <2> QED
    BY <2>2, <2>3
<1> QED
  BY <1>1, <1>2, <1>3

\* Requests, replicas and their locks are invisible: every behaviour is one of the
\* calendar, each transaction taking effect when it commits.
THEOREM BookingImplementsCalendar == Spec => CalendarSpec
<1>1. Init => Calendar!Init
  BY RefinesInit
<1>2. Inv /\ [Next]_vars => [Calendar!Next]_Calendar!calendarVars
  BY RefinesStep
<1> QED
  BY <1>1, <1>2, InvCorrect, PTL DEF Spec, CalendarSpec, Calendar!Spec

=============================================================================
