-------------------------- MODULE MobileBookingProofs --------------------------
(* Theorems about the booking screen of the app, for any choices and slots.    *)
EXTENDS MobileBooking, TLAPS

(* What the cache and the request in flight hold was offered for that choice:  *)
(* a late answer never lands under other chips.                                *)
CacheIsOffered ==
    /\ \A p \in Params : slots[p] # None => slots[p] \subseteq offers[p]
    /\ fetch.phase = "read" => fetch.val \subseteq offers[params]

(* What is asked for is taken from the cache, so the two go together.          *)
BookingInv == BookingTypeOK /\ CacheIsOffered /\ AsksWhatItOffers

LEMMA InitBooking == Init => BookingInv
<1> SUFFICES ASSUME Init PROVE BookingInv
  OBVIOUS
<1>1. BookingTypeOK
  <2>1. /\ offers \in [Params -> SUBSET Slots] /\ taken \in SUBSET Slots
        /\ params \in Params /\ prev \in Params \cup {None} /\ failed \in BOOLEAN
    BY DEF Init
  <2>2. slots \in [Params -> (SUBSET Slots) \cup {None}]
    BY DEF Init
  <2>3. fetch \in [phase : {"idle", "sent", "read"}, val : SUBSET Slots]
    BY DEF Init, Starting
  <2>4. sel = None /\ ask = None
    BY DEF Init
  <2> QED
    BY <2>1, <2>2, <2>3, <2>4 DEF BookingTypeOK
<1>2. CacheIsOffered /\ AsksWhatItOffers
  BY DEF Init, CacheIsOffered, AsksWhatItOffers, Starting
<1> QED
  BY <1>1, <1>2 DEF BookingInv

LEMMA AskFields ==
    ASSUME BookingTypeOK, ask # None
    PROVE  ask \in Asked
BY DEF BookingTypeOK

LEMMA BookingTypeStep == BookingTypeOK /\ [Next]_vars => BookingTypeOK'
<1> SUFFICES ASSUME BookingTypeOK, [Next]_vars PROVE BookingTypeOK'
  OBVIOUS
<1> USE DEF BookingTypeOK
<1>r. Released \in Asked \cup {None}
  BY DEF Released, Asked
<1>1. CASE UNCHANGED vars
  BY <1>1 DEF vars
<1>2. CASE ReadFree
  BY <1>2 DEF ReadFree, Free, server, shown
<1>3. CASE Arrive
  BY <1>3, <1>r DEF Arrive, NoFetch, server
<1>4. CASE FailFetch
  BY <1>4, <1>r DEF FailFetch, NoFetch, server
<1>5. CASE Refetch
  BY <1>5 DEF Refetch, Starting, server
<1>6. ASSUME NEW p \in Params, Choose(p) PROVE BookingTypeOK'
  BY <1>6, <1>r DEF Choose, Starting, server
<1>7. ASSUME NEW s \in Slots, Select(s) PROVE BookingTypeOK'
  BY <1>7 DEF Select, server, shown
<1>8. ASSUME NEW s \in Slots, ChangeElsewhere(s) PROVE BookingTypeOK'
  BY <1>8 DEF ChangeElsewhere, shown
<1>9. CASE Deselect
  BY <1>9 DEF Deselect, server, shown
<1>10. CASE Confirm
  <2>1. sel.slot \in Slots /\ sel.key \in Params
    BY <1>10 DEF Confirm, Selected
  <2>2. ask' \in Asked
    BY <1>10, <2>1 DEF Confirm, Asked
  <2> QED
    BY <1>10, <2>2 DEF Confirm, server, shown
<1>11. CASE Serve
  <2>1. ask \in Asked
    BY <1>11 DEF Serve
  <2>2. ask' \in Asked
    BY <1>11, <2>1 DEF Serve, Asked, Outcomes
  <2>3. taken' \in SUBSET Slots
    BY <1>11, <2>1 DEF Serve, Asked
  <2> QED
    BY <1>11, <2>2, <2>3 DEF Serve, shown
<1>12. CASE Settle
  <2>1. ask \in Asked
    BY <1>12 DEF Settle
  <2>2. ask' \in Asked
    <3>1. PICK outcome \in IF ask.phase = "served" THEN {ask.outcome, "error"} ELSE {"error"},
               same \in IF params = ask.params THEN {TRUE} ELSE BOOLEAN :
             ask' = [ask EXCEPT !.phase = "settled", !.outcome = outcome, !.reading = same]
      BY <1>12 DEF Settle
    <3>2. outcome \in Outcomes \cup {None}
      BY <2>1, <3>1 DEF Asked, Outcomes
    <3>3. same \in BOOLEAN
      BY <3>1
    <3> QED
      BY <2>1, <3>1, <3>2, <3>3 DEF Asked
  <2>3. fetch' \in {fetch, Starting}
    BY <1>12 DEF Settle, Reread
  <2>4. failed' \in BOOLEAN
    BY <1>12 DEF Settle
  <2> QED
    BY <1>12, <2>2, <2>3, <2>4 DEF Settle, Starting, server
<1>13. CASE Finish
  BY <1>13 DEF Finish, server, shown
<1> QED
  BY <1>1, <1>2, <1>3, <1>4, <1>5, <1>6, <1>7, <1>8, <1>9, <1>10, <1>11, <1>12, <1>13 DEF Next

LEMMA CacheStep == BookingTypeOK /\ CacheIsOffered /\ [Next]_vars => CacheIsOffered'
<1> SUFFICES ASSUME BookingTypeOK, CacheIsOffered, [Next]_vars PROVE CacheIsOffered'
  OBVIOUS
<1> USE DEF BookingTypeOK, CacheIsOffered
<1>1. CASE UNCHANGED vars
  BY <1>1 DEF vars
<1>2. CASE ReadFree
  BY <1>2 DEF ReadFree, Free, server, shown
<1>3. CASE Arrive
  BY <1>3 DEF Arrive, NoFetch, server
<1>4. CASE FailFetch
  BY <1>4 DEF FailFetch, NoFetch, server
<1>5. CASE Refetch
  BY <1>5 DEF Refetch, Starting, server
<1>6. ASSUME NEW p \in Params, Choose(p) PROVE CacheIsOffered'
  BY <1>6 DEF Choose, Starting, server
<1>7. ASSUME NEW s \in Slots, Select(s) \/ ChangeElsewhere(s) PROVE CacheIsOffered'
  BY <1>7 DEF Select, ChangeElsewhere, server, shown
<1>8. CASE Deselect \/ Confirm \/ Serve \/ Finish
  BY <1>8 DEF Deselect, Confirm, Serve, Finish, server, shown
<1>9. CASE Settle
  <2>1. fetch' \in {fetch, Starting}
    BY <1>9 DEF Settle, Reread
  <2> QED
    BY <1>9, <2>1 DEF Settle, Starting, server
<1> QED
  BY <1>1, <1>2, <1>3, <1>4, <1>5, <1>6, <1>7, <1>8, <1>9 DEF Next

(* A slot is asked for only from what the cache holds for the chips, and what  *)
(* was asked for does not change afterwards.                                   *)
LEMMA AskStep == BookingInv /\ [Next]_vars => AsksWhatItOffers'
<1> SUFFICES ASSUME BookingInv, [Next]_vars PROVE AsksWhatItOffers'
  OBVIOUS
<1> USE DEF BookingInv, AsksWhatItOffers
<1>1. ASSUME ask' = ask, offers' = offers PROVE AsksWhatItOffers'
  BY <1>1
<1>2. ASSUME ask' # None => /\ ask # None
                            /\ ask'.params = ask.params /\ ask'.slot = ask.slot
                            /\ ask'.tapped = ask.tapped,
             offers' = offers
      PROVE AsksWhatItOffers'
  BY <1>2
<1>3. ASSUME ask' = Released, offers' = offers PROVE AsksWhatItOffers'
  <2>1. ask # None => Released.params = ask.params /\ Released.slot = ask.slot
                       /\ Released.tapped = ask.tapped
    BY AskFields DEF Released, Asked
  <2>2. ask = None => Released = None
    BY DEF Released
  <2> QED
    BY <1>2, <1>3, <2>1, <2>2
<1>4. CASE Arrive \/ FailFetch \/ \E p \in Params : Choose(p)
  BY <1>3, <1>4 DEF Arrive, FailFetch, Choose, server
<1>5. CASE Confirm
  <2>1. ask' # None => ask'.params = params /\ ask'.slot = sel.slot /\ ask'.tapped = sel.key
    BY <1>5 DEF Confirm
  <2>2. sel.key = params /\ slots[params] # None /\ sel.slot \in slots[params]
    BY <1>5 DEF Confirm, Selected
  <2>3. sel.slot \in offers[params]
    BY <2>2 DEF CacheIsOffered, BookingTypeOK
  <2> QED
    BY <1>5, <2>1, <2>2, <2>3 DEF Confirm, server
<1>6. CASE Serve \/ Settle \/ Finish
  <2>1. ask # None /\ ask \in Asked
    BY <1>6, AskFields DEF Serve, Settle, Finish
  <2>2. ask' # None => ask'.params = ask.params /\ ask'.slot = ask.slot /\ ask'.tapped = ask.tapped
    BY <1>6, <2>1 DEF Serve, Settle, Finish, Asked
  <2>3. offers' = offers
    BY <1>6 DEF Serve, Settle, Finish, server
  <2> QED
    BY <1>2, <2>1, <2>2, <2>3
<1>7. CASE ReadFree \/ Refetch \/ Deselect \/ (\E s \in Slots : Select(s) \/ ChangeElsewhere(s)) \/ UNCHANGED vars
  BY <1>1, <1>7 DEF ReadFree, Refetch, Deselect, Select, ChangeElsewhere, server, vars
<1> QED
  BY <1>4, <1>5, <1>6, <1>7 DEF Next

LEMMA BookingInvariant == Spec => []BookingInv
<1>1. BookingInv /\ [Next]_vars => BookingInv'
  BY BookingTypeStep, CacheStep, AskStep DEF BookingInv
<1> QED
  BY InitBooking, <1>1, PTL DEF Spec

(* The types of the booking screen hold whatever the choices and the slots.    *)
THEOREM BookingTypeCorrect == Spec => []BookingTypeOK
<1>1. BookingInv => BookingTypeOK
  BY DEF BookingInv
<1> QED
  BY BookingInvariant, <1>1, PTL

(* The app never asks for a placeholder nor for a slot tapped under other      *)
(* chips, however late the answers arrive.                                     *)
THEOREM AsksAreOffers == Spec => []AsksWhatItOffers
<1>1. BookingInv => AsksWhatItOffers
  BY DEF BookingInv
<1> QED
  BY BookingInvariant, <1>1, PTL
=============================================================================
