----------------------------- MODULE MobileBooking -----------------------------
(* The booking screen of the player's app (BookingView): the chips choose the  *)
(* club, the sport, the day and the duration; the screen shows the free slots  *)
(* of that choice, or those of the previous one while they load; a slot is     *)
(* tapped, and confirmed.  Meanwhile other people book, the app goes and comes *)
(* back, and answers are late or lost.                                         *)
EXTENDS FiniteSets

CONSTANTS
    Params,  \* choices of club, sport, day and duration
    Slots,   \* court and start of a slot; choices may share them
    None

ASSUME BookingAssumption == None \notin Params /\ None \notin Slots

VARIABLES
    offers,  \* slots the club has for each choice
    taken,   \* slots somebody has booked
    params,  \* the chips
    slots,   \* the cache: free slots of each choice, None if never read
    prev,    \* the choice whose slots are shown while others load
    failed,  \* the first load of the choice failed
    fetch,   \* the request of the slots of params
    sel,     \* the slot tapped, with the choice it was tapped under
    ask      \* the reservation asked for

vars == <<offers, taken, params, slots, prev, failed, fetch, sel, ask>>
server == <<offers, taken>>
shown  == <<params, slots, prev, failed>>

NoFetch  == [phase |-> "idle", val |-> {}]
Starting == [phase |-> "sent", val |-> {}]
Outcomes == {"booked", "refused", "error"}
Asked    == [params : Params, slot : Slots, tapped : Params, phase : {"sent", "served", "settled"},
             outcome : Outcomes \cup {None}, reading : BOOLEAN]

BookingTypeOK ==
    /\ offers \in [Params -> SUBSET Slots] /\ taken \in SUBSET Slots
    /\ params \in Params /\ prev \in Params \cup {None} /\ failed \in BOOLEAN
    /\ slots \in [Params -> (SUBSET Slots) \cup {None}]
    /\ fetch \in [phase : {"idle", "sent", "read"}, val : SUBSET Slots]
    /\ sel \in [key : Params, slot : Slots] \cup {None}
    /\ ask \in Asked \cup {None}

Init ==
    /\ offers \in [Params -> SUBSET Slots] /\ taken \in SUBSET Slots
    /\ params \in Params /\ slots = [p \in Params |-> None] /\ prev = None /\ failed = FALSE
    /\ fetch = Starting /\ sel = None /\ ask = None

(* ----------------------------- availability -------------------------------- *)

Free(p) == offers[p] \ taken

(* What the cards show: placeholders, if the slots of the choice are loading.  *)
Displayed == CASE slots[params] # None -> slots[params]
               [] slots[params] = None /\ prev # None /\ ~failed -> slots[prev]
               [] OTHER -> {}

(* Mutant of Released: the end of the request is not told to who waits for it. *)
NotReleased == ask

(* The hook of the confirmation waits for the request until it ends or nobody  *)
(* wants it any more.                                                          *)
Released == IF ask = None THEN None ELSE [ask EXCEPT !.reading = FALSE]

ReadFree ==
    /\ fetch.phase = "sent"
    /\ fetch' = [phase |-> "read", val |-> Free(params)]
    /\ UNCHANGED <<server, shown, sel, ask>>

Arrive ==
    /\ fetch.phase = "read"
    /\ slots' = [slots EXCEPT ![params] = fetch.val]
    /\ fetch' = NoFetch /\ ask' = Released
    /\ UNCHANGED <<server, params, prev, failed, sel>>

FailFetch ==
    /\ fetch.phase # "idle"
    /\ failed' = (slots[params] = None)
    /\ fetch' = NoFetch /\ ask' = Released
    /\ UNCHANGED <<server, params, slots, prev, sel>>

(* Focus of the app or of the tab, a pull or a retry: what is in flight starts *)
(* again, unless it is the first load.                                         *)
Refetch ==
    /\ fetch.phase = "idle" \/ slots[params] # None
    /\ fetch' = Starting /\ failed' = FALSE
    /\ UNCHANGED <<server, params, slots, prev, sel, ask>>

(* Another chip: the request of the old choice is aborted.                     *)
Choose(p) ==
    /\ p # params
    /\ params' = p /\ failed' = FALSE
    /\ prev' = IF slots[params] # None THEN params ELSE prev
    /\ fetch' = Starting /\ ask' = Released
    /\ UNCHANGED <<server, slots, sel>>

(* ------------------------- selection and confirmation ---------------------- *)

Select(s) ==
    /\ s \in Displayed
    /\ sel' = [key |-> params, slot |-> s]
    /\ UNCHANGED <<server, shown, fetch, ask>>

(* Mutant of Selected: a slot of the previous choice, still shown, will do.    *)
SelectedDisplayed == sel # None /\ sel.key = params /\ sel.slot \in Displayed

(* selectedSlot: the summary with its two buttons is on the screen.            *)
Selected == sel # None /\ sel.key = params /\ slots[params] # None /\ sel.slot \in slots[params]

Deselect ==
    /\ Selected /\ ask = None
    /\ sel' = None
    /\ UNCHANGED <<server, shown, fetch, ask>>

Confirm ==
    /\ Selected /\ ask = None
    /\ ask' = [params |-> params, slot |-> sel.slot, tapped |-> sel.key, phase |-> "sent",
               outcome |-> None, reading |-> FALSE]
    /\ UNCHANGED <<server, shown, fetch, sel>>

(* The backend books the slot if it is free, or refuses: somebody has it, the  *)
(* membership ended, the slot began.                                           *)
Serve ==
    /\ ask # None /\ ask.phase = "sent"
    /\ \/ /\ ask.slot \in Free(ask.params)
          /\ taken' = taken \cup {ask.slot}
          /\ ask' = [ask EXCEPT !.phase = "served", !.outcome = "booked"]
       \/ /\ ask' = [ask EXCEPT !.phase = "served",
                                !.outcome = IF ask.slot \in taken THEN "refused" ELSE "error"]
          /\ UNCHANGED taken
    /\ UNCHANGED <<offers, shown, fetch, sel>>

(* What invalidating asks of the slots on the screen.                          *)
Reread == IF fetch.phase = "idle" \/ slots[params] # None THEN Starting ELSE fetch

(* onSettled: the answer came, or it did not (timeout, no network).  The slots *)
(* of the club on the screen, the same one or another, are read again and the  *)
(* confirmation waits for them.                                                *)
Settle ==
    /\ ask # None /\ ask.phase \in {"sent", "served"}
    /\ \E outcome \in IF ask.phase = "served" THEN {ask.outcome, "error"} ELSE {"error"},
          same \in IF params = ask.params THEN {TRUE} ELSE BOOLEAN :
          /\ ask' = [ask EXCEPT !.phase = "settled", !.outcome = outcome, !.reading = same]
          /\ fetch' = IF same THEN Reread ELSE fetch
    /\ failed' = (failed /\ fetch' = fetch)
    /\ UNCHANGED <<server, params, slots, prev, sel>>

(* onSuccess opens the reservation, onError raises an alert; a slot that was   *)
(* booked or taken is not selected any more.                                   *)
Finish ==
    /\ ask # None /\ ask.phase = "settled" /\ ~ask.reading
    /\ ask' = None
    /\ sel' = IF ask.outcome \in {"booked", "refused"} THEN None ELSE sel
    /\ UNCHANGED <<server, shown, fetch>>

(* Somebody else books a slot or gives one up.                                 *)
ChangeElsewhere(s) ==
    /\ taken' = IF s \in taken THEN taken \ {s} ELSE taken \cup {s}
    /\ UNCHANGED <<offers, shown, fetch, sel, ask>>

Next ==
    \/ ReadFree \/ Arrive \/ FailFetch \/ Refetch \/ \E p \in Params : Choose(p)
    \/ \E s \in Slots : Select(s) \/ ChangeElsewhere(s)
    \/ Deselect \/ Confirm \/ Serve \/ Settle \/ Finish

Spec == Init /\ [][Next]_vars

(* Requests end in 15 seconds (AbortSignal.timeout), and the callbacks of a    *)
(* promise run.  The slots are read in the end though the user keeps coming    *)
(* back: they do not always do it before the answer.                           *)
FairSpec ==
    /\ Spec
    /\ WF_vars(Settle) /\ WF_vars(Finish) /\ WF_vars(ReadFree) /\ SF_vars(Arrive \/ FailFetch)

(* ------------------------------ properties --------------------------------- *)

(* The app asks for a slot the club has for the choice on the chips, and only  *)
(* for one the user tapped under that same choice: never for one tapped under  *)
(* another, and never for a placeholder of another day or duration.  A slot    *)
(* tapped before is selected again if the user goes back to its chips.         *)
AsksWhatItOffers == ask # None => ask.tapped = ask.params /\ ask.slot \in offers[ask.params]

(* The confirmation ends whatever happens to its answer and to the slots it    *)
(* waits for, and the button can be pressed again.                             *)
ConfirmReturns == ask # None ~> ask = None
=============================================================================
