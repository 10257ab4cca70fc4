--------------------------- MODULE CourtCalendar ---------------------------
(***************************************************************************)
(* What a club's court calendar promises, with no transactions, locks or   *)
(* stale reads: every operation is one step on the calendar everybody      *)
(* sees.  Booking implements it.                                           *)
(***************************************************************************)
EXTENDS Naturals

CONSTANTS
    Courts,   \* ids a court may get
    Res,      \* ids a reservation may get
    Slots,    \* [start, end) intervals a reservation may take
    NoEntry   \* an id that no reservation uses yet

VARIABLES
    clock,    \* the time, in the unit of the slots
    court,    \* "none" | "active" | "inactive" | "deleted", for each court id
    agenda    \* the reservation behind each id: court, slot and status

calendarVars == <<clock, court, agenda>>

Live == {"pending", "confirmed"}
Entry == [court : Courts, slot : Slots,
          status : Live \cup {"cancelled", "completed"}]

CalendarTypeOK ==
    /\ clock \in Nat
    /\ court \in [Courts -> {"none", "active", "inactive", "deleted"}]
    /\ agenda \in [Res -> Entry \cup {NoEntry}]

Overlap(s, t) == s.start < t.end /\ t.start < s.end
Stands(i) == agenda[i] # NoEntry /\ agenda[i].status \in Live
Free(c, s, i) ==
    \A j \in Res \ {i} : Stands(j) /\ agenda[j].court = c => ~Overlap(agenda[j].slot, s)
ToCome(c) == {i \in Res : Stands(i) /\ agenda[i].court = c /\ agenda[i].slot.end > clock}

Init ==
    /\ clock = 0
    /\ court = [c \in Courts |-> "none"]
    /\ agenda = [i \in Res |-> NoEntry]

\* Time never goes back.
Pass == clock' > clock /\ clock' \in Nat /\ UNCHANGED <<court, agenda>>

\* A court is put in use: a new one, or one that had been taken out of use.
Open(c) ==
    /\ court[c] \in {"none", "inactive"}
    /\ court' = [court EXCEPT ![c] = "active"]
    /\ UNCHANGED <<clock, agenda>>

\* A court goes out of use together with every reservation it still had to host.
Close(c) ==
    /\ court[c] = "active"
    /\ court' = [court EXCEPT ![c] = "inactive"]
    /\ \E dropped \in SUBSET {i \in Res : Stands(i) /\ agenda[i].court = c} :
          /\ ToCome(c) \subseteq dropped
          /\ agenda' = [i \in Res |-> IF i \in dropped
                                      THEN [agenda[i] EXCEPT !.status = "cancelled"]
                                      ELSE agenda[i]]
    /\ UNCHANGED clock

\* Only a court that never hosted a reservation disappears.
Remove(c) ==
    /\ court[c] \in {"active", "inactive"}
    /\ \A i \in Res : agenda[i] # NoEntry => agenda[i].court # c
    /\ court' = [court EXCEPT ![c] = "deleted"]
    /\ UNCHANGED <<clock, agenda>>

Book(i, c, s) ==
    /\ agenda[i] = NoEntry
    /\ court[c] = "active"
    /\ Free(c, s, i)
    /\ \E st \in Live : agenda' = [agenda EXCEPT ![i] = [court |-> c, slot |-> s, status |-> st]]
    /\ UNCHANGED <<clock, court>>

Relocate(i, c, s) ==
    /\ Stands(i)
    /\ court[c] = "active"
    /\ Free(c, s, i)
    /\ agenda' = [agenda EXCEPT ![i].court = c, ![i].slot = s]
    /\ UNCHANGED <<clock, court>>

Accept(i) ==
    /\ agenda[i] # NoEntry
    /\ agenda[i].status = "pending"
    /\ agenda' = [agenda EXCEPT ![i].status = "confirmed"]
    /\ UNCHANGED <<clock, court>>

Drop(i) ==
    /\ Stands(i)
    /\ agenda' = [agenda EXCEPT ![i].status = "cancelled"]
    /\ UNCHANGED <<clock, court>>

\* The passing of time settles some reservations: unanswered ones that already
\* started are cancelled, confirmed ones that already ended are completed.
Settle ==
    \E settled \in SUBSET {i \in Res :
          /\ Stands(i)
          /\ \/ agenda[i].status = "pending" /\ agenda[i].slot.start =< clock
             \/ agenda[i].status = "confirmed" /\ agenda[i].slot.end =< clock} :
        /\ agenda' = [i \in Res |->
              IF i \in settled
              THEN [agenda[i] EXCEPT !.status = IF agenda[i].status = "pending"
                                                THEN "cancelled" ELSE "completed"]
              ELSE agenda[i]]
        /\ UNCHANGED <<clock, court>>

Next ==
    \/ Pass
    \/ \E c \in Courts : Open(c) \/ Close(c) \/ Remove(c)
    \/ \E i \in Res, c \in Courts, s \in Slots : Book(i, c, s) \/ Relocate(i, c, s)
    \/ \E i \in Res : Accept(i) \/ Drop(i)
    \/ Settle

Spec == Init /\ [][Next]_calendarVars
=============================================================================
