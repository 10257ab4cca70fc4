------------------------------ MODULE Booking ------------------------------
(***************************************************************************)
(* Reservations and courts of one club: the staff panel, the members' app  *)
(* and the periodic job, as concurrent READ COMMITTED transactions         *)
(* (services/reservations.py, services/courts.py, workers/reservations.py).*)
(*                                                                         *)
(* A transaction is a process with a program counter between statements.   *)
(* The locks it holds follow from that counter, as in the database: FOR    *)
(* SHARE and FOR UPDATE on a court, a row lock on each reservation of rows.*)
(* The last write of a transaction and its commit are one step: nobody     *)
(* sees the write before.  A request that fails a check, is rolled back,   *)
(* times out or loses its server is Abort; a single-statement request that *)
(* fails changes nothing and is not a step.                                *)
(***************************************************************************)
EXTENDS Naturals, FiniteSets

CONSTANTS
    Courts, Res, Members,
    Requests,      \* HTTP requests in flight
    Replicas,      \* API processes, each with its scheduler
    OpenSlots,     \* intervals [start, end) inside the opening hours of a day
    GridSlots,     \* those that start on the 30 minute grid: what the app offers
    Horizon,       \* APP_BOOKING_HORIZON_DAYS
    MaxPending,    \* APP_MAX_PENDING_PER_MEMBER
    CancelNotice,  \* Club.member_cancel_notice_hours
    MaxTime,       \* bound of the clock, for model checking
    Guest, NoRes, NoCourt, NoSlot

ASSUME SlotAssumption ==
    /\ \A s \in OpenSlots : s.start \in Nat /\ s.end \in Nat /\ s.start < s.end
    /\ GridSlots \subseteq OpenSlots
    /\ NoSlot \notin OpenSlots

ASSUME IdAssumption ==
    /\ IsFiniteSet(Res)
    /\ Requests \cap Replicas = {}
    /\ Guest \notin Members
    /\ NoCourt \notin Courts

ASSUME LimitAssumption ==
    Horizon \in Nat /\ MaxPending \in Nat /\ CancelNotice \in Nat /\ MaxTime \in Nat

VARIABLES
    clock,  \* utcnow(), in the unit of the slots
    court,  \* state of each court id
    res,    \* the committed row of each reservation id
    txn     \* the transaction each request or replica is running

vars == <<clock, court, res, txn>>

Procs == Requests \cup Replicas
Customers == Members \cup {Guest}

\* ACTIVE_RESERVATION_STATUSES
Live == {"pending", "confirmed"}
Statuses == Live \cup {"cancelled", "completed"}
Reasons == {"none", "BY_STAFF", "BY_MEMBER", "EXPIRED_UNCONFIRMED"}
Reservation == [court : Courts, slot : OpenSlots, status : Statuses,
                who : Customers, reason : Reasons]

\* What the calendar of CourtCalendar shows of a reservation.
Entry == [court : Courts, slot : OpenSlots, status : Statuses]

ASSUME NoResAssumption == NoRes \notin Reservation \cup Entry

(* Program counters, by what the transaction holds while it is there. *)
Creating == {"inserting", "counting", "requesting"}   \* court FOR SHARE
Moving == {"locked", "moving"}                         \* its reservation row
Closing == {"closing", "counted", "cancelling"}        \* court FOR UPDATE
Updating == Closing \cup {"checking", "disabling", "deleting"}
Job == {"expiring", "completing"}
Sharing == Creating \cup {"moving"}

Transaction ==
    [pc : {"idle"} \cup Creating \cup Moving \cup Updating \cup Job,
     court : Courts \cup {NoCourt}, slot : OpenSlots \cup {NoSlot}, who : Customers,
     rows : SUBSET Res,     \* reservation rows it has locked
     expired : SUBSET Res,  \* those the first UPDATE of the job wrote
     todo : SUBSET Res,     \* rows its UPDATE found and has not reached yet
     now : Nat,             \* utcnow() of its UPDATE
     expected : Nat]        \* cancellations the user agreed to

Idle == [pc |-> "idle", court |-> NoCourt, slot |-> NoSlot, who |-> Guest,
         rows |-> {}, expired |-> {}, todo |-> {}, now |-> 0, expected |-> 0]

TypeOK ==
    /\ clock \in Nat
    /\ court \in [Courts -> {"none", "active", "inactive", "deleted"}]
    /\ res \in [Res -> Reservation \cup {NoRes}]
    /\ txn \in [Procs -> Transaction]

-----------------------------------------------------------------------------
(* Reads *)

Overlap(s, t) == s.start < t.end /\ t.start < s.end
Active(i) == res[i] # NoRes /\ res[i].status \in Live

\* CourtService._upcoming: active and not over yet, the one in course included.
Upcoming(c, now) ==
    {i \in Res : Active(i) /\ res[i].court = c /\ res[i].slot.end > now}

\* Mutant: the constraint covers confirmed reservations only.
NoOverlapConfirmedOnly(i, c, s) ==
    \A j \in Res \ {i} :
        res[j] # NoRes /\ res[j].status = "confirmed" /\ res[j].court = c
        => ~Overlap(res[j].slot, s)

\* What the exclusion constraint no_overlap compares with the row of i.
NoOverlapAllows(i, c, s) ==
    \A j \in Res \ {i} : Active(j) /\ res[j].court = c => ~Overlap(res[j].slot, s)

PendingOf(m) ==
    {i \in Res : /\ res[i] # NoRes /\ res[i].status = "pending"
                 /\ res[i].who = m /\ res[i].slot.start > clock}

\* Mutants: the job expires what staff confirmed, and completes what has started.
ExpirableActive(now) == {i \in Res : Active(i) /\ res[i].slot.start =< now}
CompletableStarted(now) ==
    {i \in Res : res[i] # NoRes /\ res[i].status = "confirmed" /\ res[i].slot.start =< now}

\* The rows each UPDATE of run_transitions selects.
Expirable(now) ==
    {i \in Res : res[i] # NoRes /\ res[i].status = "pending" /\ res[i].slot.start =< now}
Completable(now) ==
    {i \in Res : res[i] # NoRes /\ res[i].status = "confirmed" /\ res[i].slot.end =< now}

(* Locks *)

SharersOf(c) == {p \in Procs : txn[p].court = c /\ txn[p].pc \in Sharing}
UpdatersOf(c) == {p \in Procs : txn[p].court = c /\ txn[p].pc \in Updating}
RowFree(i) == \A p \in Procs : i \notin txn[p].rows
CanShare(c) == UpdatersOf(c) = {}
CanUpdateOverShare(c) == UpdatersOf(c) = {}   \* Mutant: bookings read the court with no lock.
CanUpdate(c) == UpdatersOf(c) = {} /\ SharersOf(c) = {}

Goto(p, pc) == txn' = [txn EXCEPT ![p].pc = pc]
Commit(p) == txn' = [txn EXCEPT ![p] = Idle]

\* Mutant: any court of the club will do.
LockAnyCourt(p, c) == p \in Requests /\ CanShare(c) /\ court[c] \in {"active", "inactive"}

\* SELECT ... FOR SHARE of an active court (_lock_bookable_court).
LockBookableCourt(p, c) ==
    /\ p \in Requests
    /\ CanShare(c)
    /\ court[c] = "active"

-----------------------------------------------------------------------------
Init ==
    /\ clock = 0
    /\ court = [c \in Courts |-> "none"]
    /\ res = [i \in Res |-> NoRes]
    /\ txn = [p \in Procs |-> Idle]

Tick ==
    /\ clock < MaxTime
    /\ clock' = clock + 1
    /\ UNCHANGED <<court, res, txn>>

(* CourtService *)

CreateCourt(c) ==
    /\ court[c] = "none"
    /\ court' = [court EXCEPT ![c] = "active"]
    /\ UNCHANGED <<clock, res, txn>>

\* update with is_active = true.
EnableCourt(c) ==
    /\ CanUpdate(c)
    /\ court[c] = "inactive"
    /\ court' = [court EXCEPT ![c] = "active"]
    /\ UNCHANGED <<clock, res, txn>>

\* The FOR UPDATE with which update(is_active = false), deactivate and delete
\* begin; an absent court is a 404.
LockCourt(p, c, pc, n) ==
    /\ p \in Requests
    /\ txn[p].pc = "idle"
    /\ CanUpdate(c)
    /\ court[c] \in {"active", "inactive"}
    /\ txn' = [txn EXCEPT ![p] = [Idle EXCEPT !.pc = pc, !.court = c, !.expected = n]]
    /\ UNCHANGED <<clock, court, res>>

BeginDisable(p, c) == court[c] = "active" /\ LockCourt(p, c, "checking", 0)
BeginClose(p, c) ==
    \E n \in 0 .. Cardinality(Res) : court[c] = "active" /\ LockCourt(p, c, "closing", n)
BeginDelete(p, c) == LockCourt(p, c, "deleting", 0)

\* _ensure_no_upcoming
EnsureNoUpcoming(p) ==
    /\ txn[p].pc = "checking"
    /\ Upcoming(txn[p].court, clock) = {}
    /\ Goto(p, "disabling")
    /\ UNCHANGED <<clock, court, res>>

DisableCourt(p) ==
    /\ txn[p].pc = "disabling"
    /\ court' = [court EXCEPT ![txn[p].court] = "inactive"]
    /\ Commit(p)
    /\ UNCHANGED <<clock, res>>

\* Mutant: the count is not compared with what the user saw.
CountUpcomingAny(p) ==
    /\ txn[p].pc = "closing"
    /\ Goto(p, "counted")
    /\ UNCHANGED <<clock, court, res>>

\* deactivate: the count must be the one the user agreed to.
CountUpcoming(p) ==
    /\ txn[p].pc = "closing"
    /\ Cardinality(Upcoming(txn[p].court, clock)) = txn[p].expected
    /\ Goto(p, "counted")
    /\ UNCHANGED <<clock, court, res>>

\* Its UPDATE evaluates _upcoming again, with a later utcnow().
StartCancelling(p) ==
    /\ txn[p].pc = "counted"
    /\ txn' = [txn EXCEPT ![p].pc = "cancelling", ![p].now = clock,
                          ![p].todo = Upcoming(txn[p].court, clock)]
    /\ UNCHANGED <<clock, court, res>>

\* The rows of the UPDATE and the court are committed together.
CloseCourt(p) ==
    /\ txn[p].pc = "cancelling"
    /\ txn[p].todo = {}
    /\ res' = [i \in Res |-> IF i \in txn[p].rows
                             THEN [res[i] EXCEPT !.status = "cancelled", !.reason = "BY_STAFF"]
                             ELSE res[i]]
    /\ court' = [court EXCEPT ![txn[p].court] = "inactive"]
    /\ Commit(p)
    /\ UNCHANGED clock

\* Mutant: only active reservations keep a court from being deleted.
DeleteCourtWithHistory(p) ==
    /\ txn[p].pc = "deleting"
    /\ \A i \in Res : Active(i) => res[i].court # txn[p].court
    /\ court' = [court EXCEPT ![txn[p].court] = "deleted"]
    /\ Commit(p)
    /\ UNCHANGED <<clock, res>>

DeleteCourt(p) ==
    /\ txn[p].pc = "deleting"
    /\ \A i \in Res : res[i] # NoRes => res[i].court # txn[p].court
    /\ court' = [court EXCEPT ![txn[p].court] = "deleted"]
    /\ Commit(p)
    /\ UNCHANGED <<clock, res>>

(* ReservationService *)

BeginStaffBooking(p, c, s, w) ==
    /\ txn[p].pc = "idle"
    /\ LockBookableCourt(p, c)
    /\ txn' = [txn EXCEPT ![p] = [Idle EXCEPT !.pc = "inserting", !.court = c,
                                              !.slot = s, !.who = w]]
    /\ UNCHANGED <<clock, court, res>>

\* INSERT and commit, under no_overlap.
Insert(p, i, status) ==
    /\ res[i] = NoRes
    /\ NoOverlapAllows(i, txn[p].court, txn[p].slot)
    /\ res' = [res EXCEPT ![i] = [court |-> txn[p].court, slot |-> txn[p].slot,
                                  status |-> status, who |-> txn[p].who, reason |-> "none"]]
    /\ Commit(p)
    /\ UNCHANGED <<clock, court>>

StaffInsert(p, i) == txn[p].pc = "inserting" /\ Insert(p, i, "confirmed")

\* confirm and cancel are one conditional UPDATE each (_transition).
Confirm(i) ==
    /\ RowFree(i)
    /\ res[i] # NoRes
    /\ res[i].status = "pending"
    /\ res' = [res EXCEPT ![i].status = "confirmed"]
    /\ UNCHANGED <<clock, court, txn>>

\* Mutant: the row is written without waiting for who holds it.
StaffCancelUnlocked(i) ==
    /\ Active(i)
    /\ res' = [res EXCEPT ![i].status = "cancelled", ![i].reason = "BY_STAFF"]
    /\ UNCHANGED <<clock, court, txn>>

StaffCancel(i) ==
    /\ RowFree(i)
    /\ Active(i)
    /\ res' = [res EXCEPT ![i].status = "cancelled", ![i].reason = "BY_STAFF"]
    /\ UNCHANGED <<clock, court, txn>>

\* update, when it moves the reservation: first the row FOR UPDATE ...
LockReservation(p, i, c, s) ==
    /\ p \in Requests
    /\ txn[p].pc = "idle"
    /\ RowFree(i)
    /\ Active(i)
    /\ txn' = [txn EXCEPT ![p] = [Idle EXCEPT !.pc = "locked", !.court = c,
                                              !.slot = s, !.rows = {i}]]
    /\ UNCHANGED <<clock, court, res>>

\* ... then the target court, which must be active even if it does not change ...
LockTarget(p) ==
    /\ txn[p].pc = "locked"
    /\ LockBookableCourt(p, txn[p].court)
    /\ Goto(p, "moving")
    /\ UNCHANGED <<clock, court, res>>

\* ... and the write, under no_overlap.
Move(p) ==
    /\ txn[p].pc = "moving"
    /\ \E i \in txn[p].rows :
          /\ NoOverlapAllows(i, txn[p].court, txn[p].slot)
          /\ res' = [res EXCEPT ![i].court = txn[p].court, ![i].slot = txn[p].slot]
    /\ Commit(p)
    /\ UNCHANGED <<clock, court>>

(* MemberBookingService *)

BeginMemberBooking(p, c, s, m) ==
    /\ txn[p].pc = "idle"
    /\ LockBookableCourt(p, c)
    /\ s.start > clock
    /\ s.start =< clock + Horizon
    /\ txn' = [txn EXCEPT ![p] = [Idle EXCEPT !.pc = "counting", !.court = c,
                                              !.slot = s, !.who = m]]
    /\ UNCHANGED <<clock, court, res>>

CountPending(p) ==
    /\ txn[p].pc = "counting"
    /\ Cardinality(PendingOf(txn[p].who)) < MaxPending
    /\ Goto(p, "requesting")
    /\ UNCHANGED <<clock, court, res>>

MemberInsert(p, i) == txn[p].pc = "requesting" /\ Insert(p, i, "pending")

\* domain/cancellation.py: pending always, confirmed until the notice.
MemberCanCancel(i) ==
    \/ res[i].status = "pending"
    \/ res[i].status = "confirmed" /\ clock + CancelNotice =< res[i].slot.start

\* One transaction with one lock, taken before the checks.
MemberCancel(i) ==
    /\ RowFree(i)
    /\ res[i] # NoRes
    /\ res[i].who \in Members
    /\ MemberCanCancel(i)
    /\ res' = [res EXCEPT ![i].status = "cancelled", ![i].reason = "BY_MEMBER"]
    /\ UNCHANGED <<clock, court, txn>>

(* run_transitions: two UPDATEs with one utcnow(), in one transaction *)

BeginJob(p) ==
    /\ p \in Replicas
    /\ txn[p].pc = "idle"
    /\ txn' = [txn EXCEPT ![p] = [Idle EXCEPT !.pc = "expiring", !.now = clock,
                                              !.todo = Expirable(clock)]]
    /\ UNCHANGED <<clock, court, res>>

\* Mutant: the second UPDATE runs in a transaction of its own and the first is lost.
CompleteJobAlone(p) ==
    /\ txn[p].pc = "expiring"
    /\ txn[p].todo = {}
    /\ txn' = [txn EXCEPT ![p].pc = "completing", ![p].rows = {},
                          ![p].todo = Completable(txn[p].now)]
    /\ UNCHANGED <<clock, court, res>>

CompleteJob(p) ==
    /\ txn[p].pc = "expiring"
    /\ txn[p].todo = {}
    /\ txn' = [txn EXCEPT ![p].pc = "completing", ![p].expired = txn[p].rows,
                          ![p].todo = Completable(txn[p].now)]
    /\ UNCHANGED <<clock, court, res>>

ExpireAsStatus(r) == [r EXCEPT !.status = "expired"]   \* Mutant: the reason as a status.
Expire(r) == [r EXCEPT !.status = "cancelled", !.reason = "EXPIRED_UNCONFIRMED"]
Complete(r) == [r EXCEPT !.status = "completed"]

CommitJob(p) ==
    /\ txn[p].pc = "completing"
    /\ txn[p].todo = {}
    /\ res' = [i \in Res |-> CASE i \in txn[p].expired -> Expire(res[i])
                               [] i \in txn[p].rows \ txn[p].expired -> Complete(res[i])
                               [] OTHER -> res[i]]
    /\ Commit(p)
    /\ UNCHANGED <<clock, court>>

(* What the database does for them *)

\* The WHERE of the UPDATE p is running.
Matching(p) ==
    CASE txn[p].pc = "expiring" -> Expirable(txn[p].now)
      [] txn[p].pc = "completing" -> Completable(txn[p].now)
      [] txn[p].pc = "cancelling" -> Upcoming(txn[p].court, txn[p].now)
      [] OTHER -> {}

\* Mutant: the UPDATE writes every row of its snapshot.
VisitUnchecked(p, i) ==
    /\ i \in txn[p].todo
    /\ RowFree(i)
    /\ txn' = [txn EXCEPT ![p].todo = @ \ {i}, ![p].rows = @ \cup {i}]
    /\ UNCHANGED <<clock, court, res>>

\* An UPDATE reaches a row of its snapshot: it waits for the row's lock and
\* evaluates its WHERE again on the row as it is then.
Visit(p, i) ==
    /\ i \in txn[p].todo
    /\ RowFree(i)
    /\ txn' = [txn EXCEPT ![p].todo = @ \ {i},
                          ![p].rows = IF i \in Matching(p) THEN @ \cup {i} ELSE @]
    /\ UNCHANGED <<clock, court, res>>

\* Rollback: a failed check, a constraint, statement_timeout, a deadlock
\* victim, or a server that goes away.
Abort(p) ==
    /\ txn[p].pc # "idle"
    /\ Commit(p)
    /\ UNCHANGED <<clock, court, res>>

-----------------------------------------------------------------------------
CourtStep(p) ==
    \/ EnsureNoUpcoming(p) \/ DisableCourt(p)
    \/ CountUpcoming(p) \/ StartCancelling(p) \/ CloseCourt(p)
    \/ DeleteCourt(p)

BookingStep(p) ==
    \/ CountPending(p) \/ LockTarget(p) \/ Move(p)
    \/ \E i \in Res : StaffInsert(p, i) \/ MemberInsert(p, i)

JobStep(p) == BeginJob(p) \/ CompleteJob(p) \/ CommitJob(p)

NewRequest(p) ==
    \E c \in Courts :
        \/ BeginDisable(p, c) \/ BeginClose(p, c) \/ BeginDelete(p, c)
        \/ \E s \in OpenSlots, w \in Customers : BeginStaffBooking(p, c, s, w)
        \/ \E s \in GridSlots, m \in Members : BeginMemberBooking(p, c, s, m)
        \/ \E s \in OpenSlots, i \in Res : LockReservation(p, i, c, s)

Next ==
    \/ Tick
    \/ \E c \in Courts : CreateCourt(c) \/ EnableCourt(c)
    \/ \E i \in Res : Confirm(i) \/ StaffCancel(i) \/ MemberCancel(i)
    \/ \E p \in Procs :
          \/ NewRequest(p) \/ CourtStep(p) \/ BookingStep(p) \/ JobStep(p)
          \/ \E i \in Res : Visit(p, i)
          \/ Abort(p)

Spec == Init /\ [][Next]_vars

\* The scheduler: each replica starts the job over and over, and logs and
\* retries a run that fails.  A request that holds locks ends in a commit or a
\* rollback (statement_timeout), and a lock that is released again and again
\* reaches the UPDATE that queues for it.  Only finitely many runs of the job
\* are rolled back; one that commits nothing leaves the same state as a rollback.
Fairness ==
    /\ WF_vars(Tick)
    /\ \A p \in Requests : WF_vars(CourtStep(p) \/ BookingStep(p) \/ Abort(p)
                                     \/ \E i \in Res : Visit(p, i))
    /\ \A p \in Replicas : /\ WF_vars(JobStep(p))
                            /\ \A i \in Res : SF_vars(Visit(p, i))
                            /\ <>[][Abort(p) => CommitJob(p)]_vars

FairSpec == Spec /\ Fairness

-----------------------------------------------------------------------------
(* Properties *)

\* What a transaction read and still relies on at its next statement: the row it
\* is moving, the empty or counted court it is closing, the rows its UPDATEs found.
ReadsHold(p) ==
    LET t == txn[p] IN
    /\ t.pc \in Moving => \E i \in Res : t.rows = {i} /\ Active(i)
    /\ t.pc = "disabling" => Upcoming(t.court, clock) = {}
    /\ t.pc = "counted" => Cardinality(Upcoming(t.court, clock)) =< t.expected
    /\ t.pc = "cancelling" =>
          /\ t.now =< clock
          /\ t.rows \subseteq Upcoming(t.court, t.now)
          /\ Upcoming(t.court, t.now) \subseteq t.rows \cup t.todo
          /\ Cardinality(t.rows \cup t.todo) =< t.expected
    /\ t.pc = "expiring" => t.now =< clock /\ t.rows \subseteq Expirable(t.now)
    /\ t.pc = "completing" =>
          /\ t.now =< clock
          /\ t.expired \subseteq Expirable(t.now)
          /\ t.rows \ t.expired \subseteq Completable(t.now)

ReadsStillHold == \A p \in Procs : ReadsHold(p)

\* Which fields a transaction has filled in at each point.
Shape ==
    \A p \in Procs :
        /\ txn[p].pc \in Job => p \in Replicas
        /\ txn[p].pc \in Creating \cup Moving \cup Updating => p \in Requests /\ txn[p].court \in Courts
        /\ txn[p].pc \in Creating \cup Moving => txn[p].slot \in OpenSlots
        /\ txn[p].pc \notin Job \cup Moving \cup {"cancelling"} => txn[p].rows = {}
        /\ txn[p].pc \notin Job \cup {"cancelling"} => txn[p].todo = {}
        /\ txn[p].expired \subseteq txn[p].rows
        /\ \A i \in txn[p].rows \cup txn[p].todo : res[i] # NoRes

\* Only a cancelled reservation has a reason of cancellation.
ReasonMeansCancelled ==
    \A i \in Res : res[i] # NoRes /\ res[i].reason # "none" => res[i].status = "cancelled"

\* No court is promised twice for the same time (no_overlap).
NoDoubleBooking ==
    \A i, j \in Res :
        /\ i # j
        /\ Active(i) /\ Active(j)
        /\ res[i].court = res[j].court
        => ~Overlap(res[i].slot, res[j].slot)

\* A court out of use hosts nobody: bookings and moves in flight when it was
\* taken out of use are refused, or were counted and cancelled
\* (_lock_bookable_court against update and deactivate).
ClosedCourtIsEmpty ==
    \A c \in Courts : court[c] # "active" => Upcoming(c, clock) = {}

\* Deleting a court never leaves a reservation without its court (delete).
ReservationsHaveCourt ==
    \A i \in Res : res[i] # NoRes => court[res[i].court] \in {"active", "inactive"}

\* The job never settles a reservation before its time, though it decides with
\* one utcnow() and staff may be moving the reservation meanwhile.
SettledInTime ==
    \A i \in Res : res[i] # NoRes =>
        /\ res[i].status = "completed" => res[i].slot.end =< clock
        /\ res[i].reason = "EXPIRED_UNCONFIRMED" => res[i].slot.start =< clock

\* A cancelled or completed reservation stays as it is, whatever staff, the
\* member, and the jobs of several replicas were doing with it.
TerminalIsFinal ==
    [][\A i \in Res : res[i] # NoRes /\ ~Active(i) => res'[i] = res[i]]_vars

\* Staff who confirmed a reservation in time never see it expire: the job that
\* had selected it as pending looks at it again.
ConfirmedNeverExpires ==
    [][\A i \in Res : res[i] # NoRes /\ res[i].status = "confirmed"
                      => res'[i].reason # "EXPIRED_UNCONFIRMED"]_vars

\* deactivate cancels at most as many reservations as the user agreed to, even
\* though it evaluates its condition a second time to cancel them.
ClosingCancelsAgreed ==
    [][\A p \in Requests :
          txn[p].pc = "cancelling" /\ res' # res /\ txn'[p].pc = "idle"
          => Cardinality({i \in Res : Active(i) /\ ~Active(i)'}) =< txn[p].expected]_vars

\* The agenda does not fill with requests nobody answers: each pending
\* reservation is confirmed, cancelled or expired in the end (run_transitions).
PendingIsDecided ==
    \A i \in Res : (res[i] # NoRes /\ res[i].status = "pending")
                   ~> (res[i] # NoRes /\ res[i].status # "pending")

-----------------------------------------------------------------------------
Agenda == [i \in Res |-> IF res[i] = NoRes THEN NoRes
                          ELSE [court |-> res[i].court, slot |-> res[i].slot,
                                status |-> res[i].status]]

\* The transactions implement the calendar in which each operation is one step.
Calendar == INSTANCE CourtCalendar WITH Slots <- OpenSlots, NoEntry <- NoRes, agenda <- Agenda

CalendarSpec == Calendar!Spec
=============================================================================
