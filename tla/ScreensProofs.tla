----------------------------- MODULE ScreensProofs -----------------------------
(* Theorems about the screens of both apps at work, for any rows, versions and *)
(* mutations: first what the tables of PanelData and MobileData give to every  *)
(* component, then the invariant.                                              *)
EXTENDS Screens, TLAPS

(* Families of the panel a mutation may leave out of what it invalidates,      *)
(* because the only query they have is one it fills.                           *)
OnlyQuery(q) ==
    /\ q.family = "club" => q = Panel!useClubSettings
    /\ q.family = "staff" => q = Panel!useStaff
    /\ q.family = "me" => q = Panel!useProfile

(* A change of the hook h reaches every query it does not leave alone: by name *)
(* of its family, or by the answer.                                            *)
Reaches(h) ==
    /\ \A q : OnlyQuery(q) /\ q.family \in h.changes =>
                q.family \in h.leaves \cup h.invalidates \/ q \in h.sets
    /\ h.always => h.changes \subseteq h.leaves \cup h.invalidates

PanelPart(d) ==
    /\ d.observer \in {"reset", "unmount", "keep", "page"} /\ d.locks \in {"all", "row"}
    /\ \A q \in d.shows : OnlyQuery(q)
    /\ \A h \in d.hooks : Reaches(h) /\ (h.silent => d.errors \in {"form", "call"})

(* What each builder of ScreenParts makes.                                      *)
HookIs(changes, invalidates, sets, always, silent) ==
    [changes : {changes}, leaves : {{}}, invalidates : {invalidates}, sets : {sets}, always : {always},
     awaits : {FALSE}, silent : {silent}]

(* The queries that a component is drawn by, or mounts.                        *)
PanelShown ==
    {Panel!useCashDay, Panel!useFees, Panel!useCourts, Panel!useReservation, Panel!useMembers,
     Panel!useMemberInvitations, Panel!useMembershipRequests, Panel!usePlans,
     Panel!useStockItems, Panel!useExpenses, Panel!useNews, Panel!useClubSettings,
     Panel!useStaff, Panel!useProfile, Panel!useCourtUpcomingReservations, Panel!useExpense}

PartIs(hooks, observer, errors, shows) ==
    [hooks : {hooks}, observer : {observer}, closes : {"success", "settled", "no", "result"},
     errors : {errors}, locks : {"all", "row"}, tabs : BOOLEAN, shows : {shows},
     inside : SUBSET PanelShown, drawn : SUBSET PanelShown, loses : BOOLEAN,
     needs : SUBSET PanelShown]

LEMMA PanelHooks ==
    ASSUME NEW c, NEW i, NEW s
    PROVE  /\ Panel!Toasted(c, i) \in HookIs(c, i, {}, FALSE, FALSE)
           /\ Panel!Silent(c, i) \in HookIs(c, i, {}, FALSE, TRUE)
           /\ Panel!Setting(Panel!Toasted(c, i), s) \in HookIs(c, i, s, FALSE, FALSE)
           /\ Panel!Setting(Panel!Silent(c, i), s) \in HookIs(c, i, s, FALSE, TRUE)
           /\ Panel!Always(Panel!Toasted(c, i)) \in HookIs(c, i, {}, TRUE, FALSE)
           /\ \A x : [Panel!Toasted(c, i) EXCEPT !.silent = x] \in HookIs(c, i, {}, FALSE, x)
BY DEF HookIs, Panel!Toasted, Panel!Silent, Panel!Setting, Panel!Always

(* Leaving families alone changes nothing else of a hook.                      *)
LEMMA LeavesReach ==
    ASSUME NEW c, NEW i, NEW s, NEW a, NEW x, NEW f, NEW h \in HookIs(c, i, s, a, x), Reaches(h)
    PROVE  Reaches(Panel!Leaving(h, f)) /\ Panel!Leaving(h, f).silent = x
<1> DEFINE g == Panel!Leaving(h, f)
<1>1. /\ g.changes = h.changes \cup f /\ g.leaves = f /\ g.invalidates = h.invalidates
      /\ g.sets = h.sets /\ g.always = h.always /\ g.silent = x /\ h.leaves = {}
  BY DEF HookIs, Panel!Leaving
<1> HIDE DEF g
<1> QED
  BY <1>1 DEF Reaches, g

LEMMA LeavesTold ==
    ASSUME NEW c, NEW i, NEW s, NEW a, NEW f, NEW h \in HookIs(c, i, s, a, FALSE), Reaches(h)
    PROVE  Reaches(Panel!Leaving(h, f)) /\ ~Panel!Leaving(h, f).silent
<1>1. Reaches(Panel!Leaving(h, f))
  BY LeavesReach
<1>2. ~Panel!Leaving(h, f).silent
  BY DEF HookIs, Panel!Leaving
<1> QED
  BY <1>1, <1>2

LEMMA LeavesSilent ==
    ASSUME NEW c, NEW i, NEW s, NEW a, NEW f, NEW h \in HookIs(c, i, s, a, TRUE), Reaches(h)
    PROVE  Reaches(Panel!Leaving(h, f))
BY LeavesReach

LEMMA PanelForms ==
    ASSUME NEW hooks
    PROVE  /\ Panel!Form(hooks) \in PartIs(hooks, "reset", "form", {})
           /\ Panel!ConfirmDialog(hooks) \in PartIs(hooks, "keep", "toast", {})
           /\ Panel!Page(hooks) \in PartIs(hooks, "page", "toast", {})
BY DEF PartIs, Panel!Form, Panel!ConfirmDialog, Panel!Page

LEMMA PanelBuilders ==
    ASSUME NEW hooks, NEW observer, NEW errors, NEW shows,
           NEW d \in PartIs(hooks, observer, errors, shows)
    PROVE  /\ Panel!Mounted(d) \in PartIs(hooks, "unmount", errors, shows)
           /\ Panel!Calling(d) \in PartIs(hooks, observer, "call", shows)
           /\ Panel!Losing(d) \in PartIs(hooks, observer, errors, shows)
           /\ \A q \in PanelShown : /\ Panel!Inside(d, q) \in PartIs(hooks, observer, errors, shows)
                                 /\ Panel!Drawn(d, q) \in PartIs(hooks, observer, errors, shows)
                                 /\ Panel!OfRow(d, q) \in PartIs(hooks, observer, errors, shows)
BY DEF PartIs, Panel!Mounted, Panel!Calling, Panel!Losing, Panel!Inside, Panel!Drawn, Panel!OfRow

LEMMA PanelEdits ==
    ASSUME NEW hooks, NEW observer, NEW errors, NEW shows,
           NEW d \in PartIs(hooks, observer, errors, shows)
    PROVE  /\ \A x \in {"success", "settled", "no", "result"} :
                 [d EXCEPT !.closes = x] \in PartIs(hooks, observer, errors, shows)
           /\ [d EXCEPT !.locks = "row"] \in PartIs(hooks, observer, errors, shows)
           /\ [d EXCEPT !.tabs = TRUE] \in PartIs(hooks, observer, errors, shows)
           /\ \A x : [d EXCEPT !.shows = x] \in PartIs(hooks, observer, errors, x)
           /\ \A x : [d EXCEPT !.closes = "no", !.shows = x] \in PartIs(hooks, observer, errors, x)
           /\ \A x : [d EXCEPT !.closes = "no", !.tabs = TRUE, !.shows = x]
                       \in PartIs(hooks, observer, errors, x)
BY DEF PartIs

LEMMA OnReservationChange ==
    ASSUME NEW c, NEW i, NEW x, NEW h \in HookIs(c, i, {}, FALSE, x)
    PROVE  Panel!useOnReservationChange(h)
           \in HookIs(c, {"reservations"}, {Panel!useReservation}, FALSE, x)
BY DEF HookIs, Panel!useOnReservationChange, Panel!Setting

LEMMA ShownQueries == \A q \in PanelShown : OnlyQuery(q)
<1>1. OnlyQuery(Panel!useCashDay)
  BY DEF OnlyQuery, Panel!Query, Panel!useCashDay
<1>2. OnlyQuery(Panel!useFees)
  BY DEF OnlyQuery, Panel!Query, Panel!useFees
<1>3. OnlyQuery(Panel!useCourts)
  BY DEF OnlyQuery, Panel!Query, Panel!useCourts
<1>4. OnlyQuery(Panel!useReservation)
  BY DEF OnlyQuery, Panel!Query, Panel!useReservation
<1>5. OnlyQuery(Panel!useMembers)
  BY DEF OnlyQuery, Panel!Query, Panel!useMembers
<1>6. OnlyQuery(Panel!useMemberInvitations)
  BY DEF OnlyQuery, Panel!Query, Panel!useMemberInvitations
<1>7. OnlyQuery(Panel!useMembershipRequests)
  BY DEF OnlyQuery, Panel!Query, Panel!useMembershipRequests
<1>8. OnlyQuery(Panel!usePlans)
  BY DEF OnlyQuery, Panel!Query, Panel!usePlans
<1>9. OnlyQuery(Panel!useStockItems)
  BY DEF OnlyQuery, Panel!Query, Panel!useStockItems
<1>10. OnlyQuery(Panel!useExpenses)
  BY DEF OnlyQuery, Panel!Query, Panel!useExpenses
<1>11. OnlyQuery(Panel!useNews)
  BY DEF OnlyQuery, Panel!Query, Panel!useNews
<1>12. OnlyQuery(Panel!useClubSettings)
  BY DEF OnlyQuery, Panel!Query, Panel!useClubSettings
<1>13. OnlyQuery(Panel!useStaff)
  BY DEF OnlyQuery, Panel!Query, Panel!useStaff
<1>14. OnlyQuery(Panel!useProfile)
  BY DEF OnlyQuery, Panel!Query, Panel!useProfile
<1>15. OnlyQuery(Panel!useCourtUpcomingReservations)
  BY DEF OnlyQuery, Panel!Query, Panel!useCourtUpcomingReservations
<1>16. OnlyQuery(Panel!useExpense)
  BY DEF OnlyQuery, Panel!Query, Panel!useExpense
<1> QED
  BY <1>1, <1>2, <1>3, <1>4, <1>5, <1>6, <1>7, <1>8, <1>9, <1>10, <1>11, <1>12, <1>13,
     <1>14, <1>15, <1>16 DEF PanelShown

LEMMA MoneyHooks ==
    /\ \A h \in {Panel!useCreatePayment, Panel!useVoidPayment, Panel!usePayFee,
                  Panel!useGenerateFees} : Reaches(h)
    /\ \A h \in {Panel!useCancelFee} : Reaches(h) /\ ~h.silent
<1>1. Reaches(Panel!useCreatePayment)
  <2>1. Panel!useCreatePayment \in HookIs(Panel!Money, Panel!invalidateLedger, {}, FALSE, TRUE)
    BY PanelHooks DEF Panel!useCreatePayment
  <2> QED
    BY <2>1 DEF HookIs, Reaches, Panel!Money, Panel!invalidateLedger
<1>2. Reaches(Panel!useVoidPayment)
  <2> DEFINE h == Panel!Silent(Panel!Money, Panel!invalidateLedger)
  <2>1. h \in HookIs(Panel!Money, Panel!invalidateLedger, {}, FALSE, TRUE)
    BY PanelHooks
  <2>2. Reaches(h)
    BY <2>1 DEF HookIs, Reaches, Panel!Money, Panel!invalidateLedger
  <2>3. Panel!useVoidPayment = Panel!Leaving(h, {"reservations"})
    BY DEF Panel!useVoidPayment
  <2> HIDE DEF h
  <2> QED
    BY <2>1, <2>2, <2>3, LeavesReach
<1>3. Reaches(Panel!usePayFee)
  <2>1. Panel!usePayFee \in HookIs(Panel!Money, Panel!invalidateLedger, {}, FALSE, TRUE)
    BY PanelHooks DEF Panel!usePayFee
  <2> QED
    BY <2>1 DEF HookIs, Reaches, Panel!Money, Panel!invalidateLedger
<1>4. Reaches(Panel!useGenerateFees)
  <2>1. Panel!useGenerateFees \in HookIs({"fees", "dashboard"}, Panel!invalidateFees, {}, FALSE, TRUE)
    BY PanelHooks DEF Panel!useGenerateFees
  <2> QED
    BY <2>1 DEF HookIs, Reaches, Panel!invalidateFees
<1>5. Reaches(Panel!useCancelFee) /\ ~Panel!useCancelFee.silent
  <2>1. Panel!useCancelFee \in HookIs({"fees", "dashboard"}, Panel!invalidateFees, {}, FALSE, FALSE)
    BY PanelHooks DEF Panel!useCancelFee
  <2> QED
    BY <2>1 DEF HookIs, Reaches, Panel!invalidateFees
<1> QED
  BY <1>1, <1>2, <1>3, <1>4, <1>5

LEMMA CourtHooks ==
    /\ \A h \in {Panel!useCreateCourt, Panel!useUpdateCourt, Panel!useSetCourtActive} : Reaches(h)
    /\ \A h \in {Panel!useDeactivateCourt, Panel!useDeleteCourt} : Reaches(h) /\ ~h.silent
<1>1. Reaches(Panel!useCreateCourt)
  <2> DEFINE h == Panel!Silent(Panel!Courts, Panel!useInvalidateCourts)
  <2>1. h \in HookIs(Panel!Courts, Panel!useInvalidateCourts, {}, FALSE, TRUE)
    BY PanelHooks
  <2>2. Reaches(h)
    BY <2>1 DEF HookIs, Reaches, Panel!useInvalidateCourts, Panel!Courts
  <2>3. Panel!useCreateCourt = Panel!Leaving(h, {"dashboard"})
    BY DEF Panel!useCreateCourt
  <2> HIDE DEF h
  <2> QED
    BY <2>1, <2>2, <2>3, LeavesReach
<1>2. Reaches(Panel!useUpdateCourt)
  <2> DEFINE h == Panel!Silent(Panel!Courts, Panel!useInvalidateCourts)
  <2>1. h \in HookIs(Panel!Courts, Panel!useInvalidateCourts, {}, FALSE, TRUE)
    BY PanelHooks
  <2>2. Reaches(h)
    BY <2>1 DEF HookIs, Reaches, Panel!useInvalidateCourts, Panel!Courts
  <2>3. Panel!useUpdateCourt = Panel!Leaving(h, {"dashboard", "cash"})
    BY DEF Panel!useUpdateCourt
  <2> HIDE DEF h
  <2> QED
    BY <2>1, <2>2, <2>3, LeavesReach
<1>3. Reaches(Panel!useSetCourtActive)
  <2> DEFINE h == Panel!Silent(Panel!Courts, Panel!useInvalidateCourts)
  <2>1. h \in HookIs(Panel!Courts, Panel!useInvalidateCourts, {}, FALSE, TRUE)
    BY PanelHooks
  <2>2. Reaches(h)
    BY <2>1 DEF HookIs, Reaches, Panel!useInvalidateCourts, Panel!Courts
  <2>3. Panel!useSetCourtActive = Panel!Leaving(h, {"dashboard"})
    BY DEF Panel!useSetCourtActive
  <2> HIDE DEF h
  <2> QED
    BY <2>1, <2>2, <2>3, LeavesReach
<1>4. Reaches(Panel!useDeactivateCourt) /\ ~Panel!useDeactivateCourt.silent
  <2> DEFINE h == Panel!Always(Panel!Toasted(Panel!Courts, Panel!useInvalidateCourts))
  <2>1. h \in HookIs(Panel!Courts, Panel!useInvalidateCourts, {}, TRUE, FALSE)
    BY PanelHooks
  <2>2. Reaches(h)
    BY <2>1 DEF HookIs, Reaches, Panel!useInvalidateCourts, Panel!Courts
  <2>3. Panel!useDeactivateCourt = Panel!Leaving(h, {"dashboard", "members"})
    BY DEF Panel!useDeactivateCourt
  <2> HIDE DEF h
  <2> QED
    BY <2>1, <2>2, <2>3, LeavesTold
<1>5. Reaches(Panel!useDeleteCourt) /\ ~Panel!useDeleteCourt.silent
  <2> DEFINE h == Panel!Toasted(Panel!Courts, Panel!useInvalidateCourts)
  <2>1. h \in HookIs(Panel!Courts, Panel!useInvalidateCourts, {}, FALSE, FALSE)
    BY PanelHooks
  <2>2. Reaches(h)
    BY <2>1 DEF HookIs, Reaches, Panel!useInvalidateCourts, Panel!Courts
  <2>3. Panel!useDeleteCourt = Panel!Leaving(h, {"dashboard"})
    BY DEF Panel!useDeleteCourt
  <2> HIDE DEF h
  <2> QED
    BY <2>1, <2>2, <2>3, LeavesTold
<1> QED
  BY <1>1, <1>2, <1>3, <1>4, <1>5

LEMMA ReservationHooks ==
    /\ \A h \in {Panel!useCreateReservation, Panel!useUpdateReservation} : Reaches(h)
    /\ \A h \in {Panel!useConfirmReservation, Panel!useCancelReservation} : Reaches(h) /\ ~h.silent
<1>1. Reaches(Panel!useCreateReservation)
  <2> DEFINE h == Panel!useOnReservationChange(Panel!Silent({"reservations"}, {}))
  <2>1. h \in HookIs({"reservations"}, {"reservations"}, {Panel!useReservation}, FALSE, TRUE)
    BY PanelHooks, OnReservationChange
  <2>2. Reaches(h)
    BY <2>1 DEF HookIs, Reaches, OnlyQuery
  <2>3. Panel!useCreateReservation = Panel!Leaving(h, {"dashboard", "courts", "members"})
    BY DEF Panel!useCreateReservation
  <2> HIDE DEF h
  <2>4. Reaches(Panel!Leaving(h, {"dashboard", "courts", "members"}))
    BY <2>1, <2>2, LeavesSilent
  <2> QED
    BY <2>3, <2>4
<1>2. Reaches(Panel!useUpdateReservation)
  <2> DEFINE h == Panel!useOnReservationChange(Panel!Silent({"reservations"}, {}))
  <2>1. h \in HookIs({"reservations"}, {"reservations"}, {Panel!useReservation}, FALSE, TRUE)
    BY PanelHooks, OnReservationChange
  <2>2. Reaches(h)
    BY <2>1 DEF HookIs, Reaches, OnlyQuery
  <2>3. Panel!useUpdateReservation = Panel!Leaving(h, {"dashboard", "courts", "members", "cash"})
    BY DEF Panel!useUpdateReservation
  <2> HIDE DEF h
  <2>4. Reaches(Panel!Leaving(h, {"dashboard", "courts", "members", "cash"}))
    BY <2>1, <2>2, LeavesSilent
  <2> QED
    BY <2>3, <2>4
<1>3. Reaches(Panel!useConfirmReservation) /\ ~Panel!useConfirmReservation.silent
  <2> DEFINE h == Panel!useOnReservationChange(Panel!Toasted({"reservations"}, {}))
  <2>1. h \in HookIs({"reservations"}, {"reservations"}, {Panel!useReservation}, FALSE, FALSE)
    BY PanelHooks, OnReservationChange
  <2>2. Reaches(h)
    BY <2>1 DEF HookIs, Reaches, OnlyQuery
  <2>3. Panel!useConfirmReservation = Panel!Leaving(h, {"dashboard"})
    BY DEF Panel!useConfirmReservation
  <2> HIDE DEF h
  <2> QED
    BY <2>1, <2>2, <2>3, LeavesTold
<1>4. Reaches(Panel!useCancelReservation) /\ ~Panel!useCancelReservation.silent
  <2> DEFINE h == Panel!useOnReservationChange(Panel!Toasted({"reservations"}, {}))
  <2>1. h \in HookIs({"reservations"}, {"reservations"}, {Panel!useReservation}, FALSE, FALSE)
    BY PanelHooks, OnReservationChange
  <2>2. Reaches(h)
    BY <2>1 DEF HookIs, Reaches, OnlyQuery
  <2>3. Panel!useCancelReservation = Panel!Leaving(h, {"dashboard", "courts", "members"})
    BY DEF Panel!useCancelReservation
  <2> HIDE DEF h
  <2> QED
    BY <2>1, <2>2, <2>3, LeavesTold
<1> QED
  BY <1>1, <1>2, <1>3, <1>4

LEMMA MemberHooks ==
    /\ \A h \in {Panel!useCreateMember, Panel!useUpdateMember(TRUE),
                  Panel!useApproveRequest, Panel!useCreatePlan,
                  Panel!useUpdatePlan(TRUE)} : Reaches(h)
    /\ \A h \in {Panel!useUpdateMember(FALSE), Panel!useCancelInvitation,
                  Panel!useRejectRequest, Panel!useUpdatePlan(FALSE),
                  Panel!useDeletePlan} : Reaches(h) /\ ~h.silent
<1>1. Reaches(Panel!useCreateMember)
  <2> DEFINE h == Panel!Silent({"members"}, Panel!useInvalidateMembers)
  <2>1. h \in HookIs({"members"}, Panel!useInvalidateMembers, {}, FALSE, TRUE)
    BY PanelHooks
  <2>2. Reaches(h)
    BY <2>1 DEF HookIs, Reaches, Panel!useInvalidateMembers
  <2>3. Panel!useCreateMember = Panel!Leaving(h, Panel!Numbered \cup {"dashboard"})
    BY DEF Panel!useCreateMember
  <2> HIDE DEF h
  <2> QED
    BY <2>1, <2>2, <2>3, LeavesReach
<1>2. Reaches(Panel!useUpdateMember(TRUE))
  <2> DEFINE h == [Panel!Toasted({"members"}, Panel!useInvalidateMembers) EXCEPT !.silent = TRUE]
  <2>1. h \in HookIs({"members"}, Panel!useInvalidateMembers, {}, FALSE, TRUE)
    BY PanelHooks
  <2>2. Reaches(h)
    BY <2>1 DEF HookIs, Reaches, Panel!useInvalidateMembers
  <2>3. Panel!useUpdateMember(TRUE) = Panel!Leaving(h, Panel!Numbered)
    BY DEF Panel!useUpdateMember
  <2> HIDE DEF h
  <2>4. Reaches(Panel!Leaving(h, Panel!Numbered))
    BY <2>1, <2>2, LeavesReach
  <2> QED
    BY <2>3, <2>4
<1>3. Reaches(Panel!useApproveRequest)
  <2> DEFINE h == Panel!Silent({"members"}, Panel!useInvalidateMembers)
  <2>1. h \in HookIs({"members"}, Panel!useInvalidateMembers, {}, FALSE, TRUE)
    BY PanelHooks
  <2>2. Reaches(h)
    BY <2>1 DEF HookIs, Reaches, Panel!useInvalidateMembers
  <2>3. Panel!useApproveRequest = Panel!Leaving(h, Panel!Numbered \cup {"dashboard"})
    BY DEF Panel!useApproveRequest
  <2> HIDE DEF h
  <2> QED
    BY <2>1, <2>2, <2>3, LeavesReach
<1>4. Reaches(Panel!useCreatePlan)
  <2>1. Panel!useCreatePlan \in HookIs({"members"}, Panel!useInvalidateMembers, {}, FALSE, TRUE)
    BY PanelHooks DEF Panel!useCreatePlan
  <2> QED
    BY <2>1 DEF HookIs, Reaches, Panel!useInvalidateMembers
<1>5. Reaches(Panel!useUpdatePlan(TRUE))
  <2>1. Panel!useUpdatePlan(TRUE) \in HookIs({"members"}, Panel!useInvalidateMembers, {}, FALSE, TRUE)
    BY PanelHooks DEF Panel!useUpdatePlan
  <2> QED
    BY <2>1 DEF HookIs, Reaches, Panel!useInvalidateMembers
<1>6. Reaches(Panel!useUpdateMember(FALSE)) /\ ~Panel!useUpdateMember(FALSE).silent
  <2> DEFINE h == [Panel!Toasted({"members"}, Panel!useInvalidateMembers) EXCEPT !.silent = FALSE]
  <2>1. h \in HookIs({"members"}, Panel!useInvalidateMembers, {}, FALSE, FALSE)
    BY PanelHooks
  <2>2. Reaches(h)
    BY <2>1 DEF HookIs, Reaches, Panel!useInvalidateMembers
  <2>3. Panel!useUpdateMember(FALSE) = Panel!Leaving(h, Panel!Numbered)
    BY DEF Panel!useUpdateMember
  <2> HIDE DEF h
  <2> QED
    BY <2>1, <2>2, <2>3, LeavesTold
<1>7. Reaches(Panel!useCancelInvitation) /\ ~Panel!useCancelInvitation.silent
  <2> DEFINE h == Panel!Toasted({"members"}, Panel!useInvalidateMembers)
  <2>1. h \in HookIs({"members"}, Panel!useInvalidateMembers, {}, FALSE, FALSE)
    BY PanelHooks
  <2>2. Reaches(h)
    BY <2>1 DEF HookIs, Reaches, Panel!useInvalidateMembers
  <2>3. Panel!useCancelInvitation = Panel!Leaving(h, {"fees", "dashboard"})
    BY DEF Panel!useCancelInvitation
  <2> HIDE DEF h
  <2> QED
    BY <2>1, <2>2, <2>3, LeavesTold
<1>8. Reaches(Panel!useRejectRequest) /\ ~Panel!useRejectRequest.silent
  <2> DEFINE h == Panel!Toasted({"members"}, Panel!useInvalidateMembers)
  <2>1. h \in HookIs({"members"}, Panel!useInvalidateMembers, {}, FALSE, FALSE)
    BY PanelHooks
  <2>2. Reaches(h)
    BY <2>1 DEF HookIs, Reaches, Panel!useInvalidateMembers
  <2>3. Panel!useRejectRequest = Panel!Leaving(h, {"dashboard"})
    BY DEF Panel!useRejectRequest
  <2> HIDE DEF h
  <2> QED
    BY <2>1, <2>2, <2>3, LeavesTold
<1>9. Reaches(Panel!useUpdatePlan(FALSE)) /\ ~Panel!useUpdatePlan(FALSE).silent
  <2>1. Panel!useUpdatePlan(FALSE) \in HookIs({"members"}, Panel!useInvalidateMembers, {}, FALSE, FALSE)
    BY PanelHooks DEF Panel!useUpdatePlan
  <2> QED
    BY <2>1 DEF HookIs, Reaches, Panel!useInvalidateMembers
<1>10. Reaches(Panel!useDeletePlan) /\ ~Panel!useDeletePlan.silent
  <2>1. Panel!useDeletePlan \in HookIs({"members"}, Panel!useInvalidateMembers, {}, FALSE, FALSE)
    BY PanelHooks DEF Panel!useDeletePlan
  <2> QED
    BY <2>1 DEF HookIs, Reaches, Panel!useInvalidateMembers
<1> QED
  BY <1>1, <1>2, <1>3, <1>4, <1>5, <1>6, <1>7, <1>8, <1>9, <1>10

LEMMA StockHooks ==
    /\ \A h \in {Panel!useCreateStockItem, Panel!useUpdateStockItem,
                  Panel!useCreateMovement} : Reaches(h)
    /\ \A h \in {Panel!useDeleteStockItem} : Reaches(h) /\ ~h.silent
<1>1. Reaches(Panel!useCreateStockItem)
  <2> DEFINE h == Panel!Silent({"stock"}, Panel!useInvalidateStock)
  <2>1. h \in HookIs({"stock"}, Panel!useInvalidateStock, {}, FALSE, TRUE)
    BY PanelHooks
  <2>2. Reaches(h)
    BY <2>1 DEF HookIs, Reaches, Panel!useInvalidateStock
  <2>3. Panel!useCreateStockItem = Panel!Leaving(h, {"dashboard"})
    BY DEF Panel!useCreateStockItem
  <2> HIDE DEF h
  <2> QED
    BY <2>1, <2>2, <2>3, LeavesReach
<1>2. Reaches(Panel!useUpdateStockItem)
  <2> DEFINE h == Panel!Silent({"stock"}, Panel!useInvalidateStock)
  <2>1. h \in HookIs({"stock"}, Panel!useInvalidateStock, {}, FALSE, TRUE)
    BY PanelHooks
  <2>2. Reaches(h)
    BY <2>1 DEF HookIs, Reaches, Panel!useInvalidateStock
  <2>3. Panel!useUpdateStockItem = Panel!Leaving(h, {"dashboard"})
    BY DEF Panel!useUpdateStockItem
  <2> HIDE DEF h
  <2> QED
    BY <2>1, <2>2, <2>3, LeavesReach
<1>3. Reaches(Panel!useCreateMovement)
  <2> DEFINE h == Panel!Silent({"stock"}, Panel!useInvalidateStock)
  <2>1. h \in HookIs({"stock"}, Panel!useInvalidateStock, {}, FALSE, TRUE)
    BY PanelHooks
  <2>2. Reaches(h)
    BY <2>1 DEF HookIs, Reaches, Panel!useInvalidateStock
  <2>3. Panel!useCreateMovement = Panel!Leaving(h, {"dashboard"})
    BY DEF Panel!useCreateMovement
  <2> HIDE DEF h
  <2> QED
    BY <2>1, <2>2, <2>3, LeavesReach
<1>4. Reaches(Panel!useDeleteStockItem) /\ ~Panel!useDeleteStockItem.silent
  <2> DEFINE h == Panel!Toasted({"stock"}, Panel!useInvalidateStock)
  <2>1. h \in HookIs({"stock"}, Panel!useInvalidateStock, {}, FALSE, FALSE)
    BY PanelHooks
  <2>2. Reaches(h)
    BY <2>1 DEF HookIs, Reaches, Panel!useInvalidateStock
  <2>3. Panel!useDeleteStockItem = Panel!Leaving(h, {"dashboard"})
    BY DEF Panel!useDeleteStockItem
  <2> HIDE DEF h
  <2> QED
    BY <2>1, <2>2, <2>3, LeavesTold
<1> QED
  BY <1>1, <1>2, <1>3, <1>4

LEMMA ExpenseHooks ==
    /\ \A h \in {Panel!useCreateExpense, Panel!useUpdateExpense} : Reaches(h)
    /\ \A h \in {Panel!useDeleteExpense, Panel!useReviewExpense,
                  Panel!useRecomputeAnomalies} : Reaches(h) /\ ~h.silent
<1>1. Reaches(Panel!useCreateExpense)
  <2> DEFINE h == Panel!Silent({"expenses"}, Panel!useInvalidateExpenses)
  <2>1. h \in HookIs({"expenses"}, Panel!useInvalidateExpenses, {}, FALSE, TRUE)
    BY PanelHooks
  <2>2. Reaches(h)
    BY <2>1 DEF HookIs, Reaches, Panel!useInvalidateExpenses
  <2>3. Panel!useCreateExpense = Panel!Leaving(h, {"dashboard"})
    BY DEF Panel!useCreateExpense
  <2> HIDE DEF h
  <2> QED
    BY <2>1, <2>2, <2>3, LeavesReach
<1>2. Reaches(Panel!useUpdateExpense)
  <2> DEFINE h == Panel!Silent({"expenses"}, Panel!useInvalidateExpenses)
  <2>1. h \in HookIs({"expenses"}, Panel!useInvalidateExpenses, {}, FALSE, TRUE)
    BY PanelHooks
  <2>2. Reaches(h)
    BY <2>1 DEF HookIs, Reaches, Panel!useInvalidateExpenses
  <2>3. Panel!useUpdateExpense = Panel!Leaving(h, {"dashboard"})
    BY DEF Panel!useUpdateExpense
  <2> HIDE DEF h
  <2> QED
    BY <2>1, <2>2, <2>3, LeavesReach
<1>3. Reaches(Panel!useDeleteExpense) /\ ~Panel!useDeleteExpense.silent
  <2> DEFINE h == Panel!Toasted({"expenses"}, Panel!useInvalidateExpenses)
  <2>1. h \in HookIs({"expenses"}, Panel!useInvalidateExpenses, {}, FALSE, FALSE)
    BY PanelHooks
  <2>2. Reaches(h)
    BY <2>1 DEF HookIs, Reaches, Panel!useInvalidateExpenses
  <2>3. Panel!useDeleteExpense = Panel!Leaving(h, {"dashboard"})
    BY DEF Panel!useDeleteExpense
  <2> HIDE DEF h
  <2> QED
    BY <2>1, <2>2, <2>3, LeavesTold
<1>4. Reaches(Panel!useReviewExpense) /\ ~Panel!useReviewExpense.silent
  <2>1. Panel!useReviewExpense \in HookIs({"expenses"}, Panel!useInvalidateExpenses, {Panel!useExpense}, FALSE, FALSE)
    BY PanelHooks DEF Panel!useReviewExpense
  <2> QED
    BY <2>1 DEF HookIs, Reaches, OnlyQuery, Panel!useInvalidateExpenses
<1>5. Reaches(Panel!useRecomputeAnomalies) /\ ~Panel!useRecomputeAnomalies.silent
  <2>1. Panel!useRecomputeAnomalies \in HookIs({"expenses"}, Panel!useInvalidateExpenses, {}, FALSE, FALSE)
    BY PanelHooks DEF Panel!useRecomputeAnomalies
  <2> QED
    BY <2>1 DEF HookIs, Reaches, Panel!useInvalidateExpenses
<1> QED
  BY <1>1, <1>2, <1>3, <1>4, <1>5

LEMMA NewsHooks ==
    /\ \A h \in {Panel!useCreateNews, Panel!useUpdateNews} : Reaches(h)
    /\ \A h \in {Panel!useDeleteNews} : Reaches(h) /\ ~h.silent
<1>1. Reaches(Panel!useCreateNews)
  <2>1. Panel!useCreateNews \in HookIs({"news"}, {"news"}, {}, FALSE, TRUE)
    BY PanelHooks DEF Panel!useCreateNews
  <2> QED
    BY <2>1 DEF HookIs, Reaches
<1>2. Reaches(Panel!useUpdateNews)
  <2>1. Panel!useUpdateNews \in HookIs({"news"}, {"news"}, {}, FALSE, TRUE)
    BY PanelHooks DEF Panel!useUpdateNews
  <2> QED
    BY <2>1 DEF HookIs, Reaches
<1>3. Reaches(Panel!useDeleteNews) /\ ~Panel!useDeleteNews.silent
  <2>1. Panel!useDeleteNews \in HookIs({"news"}, {"news"}, {}, FALSE, FALSE)
    BY PanelHooks DEF Panel!useDeleteNews
  <2> QED
    BY <2>1 DEF HookIs, Reaches
<1> QED
  BY <1>1, <1>2, <1>3

LEMMA SettingsHooks ==
    /\ \A h \in {Panel!useInviteStaff, Panel!useRevokeStaff, Panel!useUpdateClub,
                  Panel!useUpdateProfile} : Reaches(h) /\ ~h.silent
<1>1. Reaches(Panel!useInviteStaff) /\ ~Panel!useInviteStaff.silent
  <2>1. Panel!useInviteStaff \in HookIs({"staff"}, {}, {Panel!useStaff}, FALSE, FALSE)
    BY PanelHooks DEF Panel!useInviteStaff
  <2> QED
    BY <2>1 DEF HookIs, Reaches, OnlyQuery
<1>2. Reaches(Panel!useRevokeStaff) /\ ~Panel!useRevokeStaff.silent
  <2>1. Panel!useRevokeStaff \in HookIs({"staff"}, {"staff"}, {}, FALSE, FALSE)
    BY PanelHooks DEF Panel!useRevokeStaff
  <2> QED
    BY <2>1 DEF HookIs, Reaches
<1>3. Reaches(Panel!useUpdateClub) /\ ~Panel!useUpdateClub.silent
  <2> DEFINE h == Panel!Setting(Panel!Toasted({"club", "session"}, {"session"}), {Panel!useClubSettings})
  <2>1. h \in HookIs({"club", "session"}, {"session"}, {Panel!useClubSettings}, FALSE, FALSE)
    BY PanelHooks
  <2>2. Reaches(h)
    BY <2>1 DEF HookIs, Reaches, OnlyQuery
  <2>3. Panel!useUpdateClub = Panel!Leaving(h, {"reservations", "dashboard"})
    BY DEF Panel!useUpdateClub
  <2> HIDE DEF h
  <2> QED
    BY <2>1, <2>2, <2>3, LeavesTold
<1>4. Reaches(Panel!useUpdateProfile) /\ ~Panel!useUpdateProfile.silent
  <2> DEFINE h == Panel!Setting(Panel!Toasted({"me", "session"}, {"session"}), {Panel!useProfile})
  <2>1. h \in HookIs({"me", "session"}, {"session"}, {Panel!useProfile}, FALSE, FALSE)
    BY PanelHooks
  <2>2. Reaches(h)
    BY <2>1 DEF HookIs, Reaches, OnlyQuery
  <2>3. Panel!useUpdateProfile = Panel!Leaving(h, {"staff", "cash", "stock", "news", "members", "fees", "reservations", "dashboard"})
    BY DEF Panel!useUpdateProfile
  <2> HIDE DEF h
  <2> QED
    BY <2>1, <2>2, <2>3, LeavesTold
<1> QED
  BY <1>1, <1>2, <1>3, <1>4

LEMMA CashParts ==
    \A d \in {Panel!CashMovementDialog, Panel!VoidDialog} : PanelPart(d)
<1>1. PanelPart(Panel!CashMovementDialog)
  <2>1. Panel!CashMovementDialog \in PartIs({Panel!useCreatePayment}, "reset", "form", {})
    BY PanelForms, PanelBuilders, PanelEdits DEF PanelShown, Panel!CashMovementDialog
  <2> QED
    BY <2>1, ShownQueries, MoneyHooks DEF PanelPart, PartIs
<1>2. PanelPart(Panel!VoidDialog)
  <2>1. Panel!VoidDialog \in PartIs({Panel!useVoidPayment}, "reset", "form", {})
    BY PanelForms, PanelBuilders, PanelEdits DEF PanelShown, Panel!VoidDialog
  <2> QED
    BY <2>1, ShownQueries, MoneyHooks DEF PanelPart, PartIs
<1> QED
  BY <1>1, <1>2

LEMMA FeesParts ==
    \A d \in {Panel!PayDialog, Panel!FeesList, Panel!GenerateDialog} : PanelPart(d)
<1>1. PanelPart(Panel!PayDialog)
  <2>1. Panel!PayDialog \in PartIs({Panel!usePayFee}, "reset", "form", {})
    BY PanelForms, PanelBuilders, PanelEdits DEF PanelShown, Panel!PayDialog
  <2> QED
    BY <2>1, ShownQueries, MoneyHooks DEF PanelPart, PartIs
<1>2. PanelPart(Panel!FeesList)
  <2>1. Panel!FeesList \in PartIs({Panel!useCancelFee}, "keep", "toast", {})
    BY PanelForms, PanelBuilders, PanelEdits DEF PanelShown, Panel!FeesList
  <2> QED
    BY <2>1, ShownQueries, MoneyHooks DEF PanelPart, PartIs
<1>3. PanelPart(Panel!GenerateDialog)
  <2>1. Panel!GenerateDialog \in PartIs({Panel!useGenerateFees}, "reset", "form", {})
    BY PanelForms, PanelBuilders, PanelEdits DEF PanelShown, Panel!GenerateDialog
  <2> QED
    BY <2>1, ShownQueries, MoneyHooks DEF PanelPart, PartIs
<1> QED
  BY <1>1, <1>2, <1>3

LEMMA CourtsParts ==
    \A d \in {Panel!CourtFormDialog, Panel!CourtsTable, Panel!DeactivateCourtDialog,
               Panel!DeleteCourt} : PanelPart(d)
<1>1. PanelPart(Panel!CourtFormDialog)
  <2>1. Panel!CourtFormDialog \in PartIs({Panel!useCreateCourt, Panel!useUpdateCourt}, "reset", "form", {})
    BY PanelForms, PanelBuilders, PanelEdits DEF PanelShown, Panel!CourtFormDialog
  <2> QED
    BY <2>1, ShownQueries, CourtHooks DEF PanelPart, PartIs
<1>2. PanelPart(Panel!CourtsTable)
  <2>1. Panel!CourtsTable \in PartIs({Panel!useSetCourtActive}, "page", "call", {})
    BY PanelForms, PanelBuilders, PanelEdits DEF PanelShown, Panel!CourtsTable
  <2> QED
    BY <2>1, ShownQueries, CourtHooks DEF PanelPart, PartIs
<1>3. PanelPart(Panel!DeactivateCourtDialog)
  <2>1. Panel!DeactivateCourtDialog \in PartIs({Panel!useDeactivateCourt}, "keep", "toast", {Panel!useCourtUpcomingReservations})
    BY PanelForms, PanelBuilders, PanelEdits DEF PanelShown, Panel!DeactivateCourtDialog
  <2> QED
    BY <2>1, ShownQueries, CourtHooks DEF PanelPart, PartIs, PanelShown
<1>4. PanelPart(Panel!DeleteCourt)
  <2>1. Panel!DeleteCourt \in PartIs({Panel!useDeleteCourt}, "keep", "toast", {})
    BY PanelForms, PanelBuilders, PanelEdits DEF PanelShown, Panel!DeleteCourt
  <2> QED
    BY <2>1, ShownQueries, CourtHooks DEF PanelPart, PartIs
<1> QED
  BY <1>1, <1>2, <1>3, <1>4

LEMMA ReservationsParts ==
    \A d \in {Panel!CreateReservationForm, Panel!RescheduleForm, Panel!NotesForm,
               Panel!ConfirmReservation, Panel!CancelReservation} : PanelPart(d)
<1>1. PanelPart(Panel!CreateReservationForm)
  <2>1. Panel!CreateReservationForm \in PartIs({Panel!useCreateReservation}, "unmount", "form", {})
    BY PanelForms, PanelBuilders, PanelEdits DEF PanelShown, Panel!CreateReservationForm
  <2> QED
    BY <2>1, ShownQueries, ReservationHooks DEF PanelPart, PartIs
<1>2. PanelPart(Panel!RescheduleForm)
  <2>1. Panel!RescheduleForm \in PartIs({Panel!useUpdateReservation}, "unmount", "form", {Panel!useReservation})
    BY PanelForms, PanelBuilders, PanelEdits DEF PanelShown, Panel!RescheduleForm, Panel!DetailBody
  <2> QED
    BY <2>1, ShownQueries, ReservationHooks DEF PanelPart, PartIs, PanelShown
<1>3. PanelPart(Panel!NotesForm)
  <2>1. Panel!NotesForm \in PartIs({Panel!useUpdateReservation}, "unmount", "form", {Panel!useReservation})
    BY PanelForms, PanelBuilders, PanelEdits DEF PanelShown, Panel!NotesForm, Panel!DetailBody
  <2> QED
    BY <2>1, ShownQueries, ReservationHooks DEF PanelPart, PartIs, PanelShown
<1>4. PanelPart(Panel!ConfirmReservation)
  <2>1. Panel!ConfirmReservation \in PartIs({Panel!useConfirmReservation}, "unmount", "toast", {Panel!useReservation})
    BY PanelForms, PanelBuilders, PanelEdits DEF PanelShown, Panel!ConfirmReservation, Panel!DetailBody
  <2> QED
    BY <2>1, ShownQueries, ReservationHooks DEF PanelPart, PartIs, PanelShown
<1>5. PanelPart(Panel!CancelReservation)
  <2>1. Panel!CancelReservation \in PartIs({Panel!useCancelReservation}, "unmount", "toast", {Panel!useReservation})
    BY PanelForms, PanelBuilders, PanelEdits DEF PanelShown, Panel!CancelReservation, Panel!DetailBody
  <2> QED
    BY <2>1, ShownQueries, ReservationHooks DEF PanelPart, PartIs, PanelShown
<1> QED
  BY <1>1, <1>2, <1>3, <1>4, <1>5

LEMMA MembersParts ==
    \A d \in {Panel!MemberCreateDialog, Panel!MemberEditDialog, Panel!MembersTab,
               Panel!ApproveRequestDialog, Panel!RequestsTab, Panel!InvitationsTab,
               Panel!PlanFormDialog, Panel!PlansTab} : PanelPart(d)
<1>1. PanelPart(Panel!MemberCreateDialog)
  <2>1. Panel!MemberCreateDialog \in PartIs({Panel!useCreateMember}, "reset", "form", {})
    BY PanelForms, PanelBuilders, PanelEdits DEF PanelShown, Panel!MemberCreateDialog
  <2> QED
    BY <2>1, ShownQueries, MemberHooks DEF PanelPart, PartIs
<1>2. PanelPart(Panel!MemberEditDialog)
  <2>1. Panel!MemberEditDialog \in PartIs({Panel!useUpdateMember(TRUE)}, "reset", "form", {})
    BY PanelForms, PanelBuilders, PanelEdits DEF PanelShown, Panel!MemberEditDialog
  <2> QED
    BY <2>1, ShownQueries, MemberHooks DEF PanelPart, PartIs
<1>3. PanelPart(Panel!MembersTab)
  <2>1. Panel!MembersTab \in PartIs({Panel!useUpdateMember(FALSE)}, "keep", "toast", {})
    BY PanelForms, PanelBuilders, PanelEdits DEF PanelShown, Panel!MembersTab
  <2> QED
    BY <2>1, ShownQueries, MemberHooks DEF PanelPart, PartIs
<1>4. PanelPart(Panel!ApproveRequestDialog)
  <2>1. Panel!ApproveRequestDialog \in PartIs({Panel!useApproveRequest}, "reset", "form", {})
    BY PanelForms, PanelBuilders, PanelEdits DEF PanelShown, Panel!ApproveRequestDialog
  <2> QED
    BY <2>1, ShownQueries, MemberHooks DEF PanelPart, PartIs
<1>5. PanelPart(Panel!RequestsTab)
  <2>1. Panel!RequestsTab \in PartIs({Panel!useRejectRequest}, "keep", "toast", {})
    BY PanelForms, PanelBuilders, PanelEdits DEF PanelShown, Panel!RequestsTab
  <2> QED
    BY <2>1, ShownQueries, MemberHooks DEF PanelPart, PartIs
<1>6. PanelPart(Panel!InvitationsTab)
  <2>1. Panel!InvitationsTab \in PartIs({Panel!useCancelInvitation}, "keep", "toast", {})
    BY PanelForms, PanelBuilders, PanelEdits DEF PanelShown, Panel!InvitationsTab
  <2> QED
    BY <2>1, ShownQueries, MemberHooks DEF PanelPart, PartIs
<1>7. PanelPart(Panel!PlanFormDialog)
  <2>1. Panel!PlanFormDialog \in PartIs({Panel!useCreatePlan, Panel!useUpdatePlan(TRUE)}, "reset", "form", {})
    BY PanelForms, PanelBuilders, PanelEdits DEF PanelShown, Panel!PlanFormDialog
  <2> QED
    BY <2>1, ShownQueries, MemberHooks DEF PanelPart, PartIs
<1>8. PanelPart(Panel!PlansTab)
  <2>1. Panel!PlansTab \in PartIs({Panel!useUpdatePlan(FALSE), Panel!useDeletePlan}, "keep", "toast", {})
    BY PanelForms, PanelBuilders, PanelEdits DEF PanelShown, Panel!PlansTab
  <2> QED
    BY <2>1, ShownQueries, MemberHooks DEF PanelPart, PartIs
<1> QED
  BY <1>1, <1>2, <1>3, <1>4, <1>5, <1>6, <1>7, <1>8

LEMMA StockParts ==
    \A d \in {Panel!StockItemDialog, Panel!MovementDialog, Panel!DeleteStockItem} : PanelPart(d)
<1>1. PanelPart(Panel!StockItemDialog)
  <2>1. Panel!StockItemDialog \in PartIs({Panel!useCreateStockItem, Panel!useUpdateStockItem}, "reset", "form", {})
    BY PanelForms, PanelBuilders, PanelEdits DEF PanelShown, Panel!StockItemDialog
  <2> QED
    BY <2>1, ShownQueries, StockHooks DEF PanelPart, PartIs
<1>2. PanelPart(Panel!MovementDialog)
  <2>1. Panel!MovementDialog \in PartIs({Panel!useCreateMovement}, "reset", "form", {})
    BY PanelForms, PanelBuilders, PanelEdits DEF PanelShown, Panel!MovementDialog
  <2> QED
    BY <2>1, ShownQueries, StockHooks DEF PanelPart, PartIs
<1>3. PanelPart(Panel!DeleteStockItem)
  <2>1. Panel!DeleteStockItem \in PartIs({Panel!useDeleteStockItem}, "keep", "toast", {})
    BY PanelForms, PanelBuilders, PanelEdits DEF PanelShown, Panel!DeleteStockItem
  <2> QED
    BY <2>1, ShownQueries, StockHooks DEF PanelPart, PartIs
<1> QED
  BY <1>1, <1>2, <1>3

LEMMA ExpensesParts ==
    \A d \in {Panel!ExpenseFormDialog, Panel!DeleteExpense, Panel!AnomalyDialog,
               Panel!RecomputeButton} : PanelPart(d)
<1>1. PanelPart(Panel!ExpenseFormDialog)
  <2>1. Panel!ExpenseFormDialog \in PartIs({Panel!useCreateExpense, Panel!useUpdateExpense}, "reset", "form", {})
    BY PanelForms, PanelBuilders, PanelEdits DEF PanelShown, Panel!ExpenseFormDialog
  <2> QED
    BY <2>1, ShownQueries, ExpenseHooks DEF PanelPart, PartIs
<1>2. PanelPart(Panel!DeleteExpense)
  <2>1. Panel!DeleteExpense \in PartIs({Panel!useDeleteExpense}, "keep", "toast", {})
    BY PanelForms, PanelBuilders, PanelEdits DEF PanelShown, Panel!DeleteExpense
  <2> QED
    BY <2>1, ShownQueries, ExpenseHooks DEF PanelPart, PartIs
<1>3. PanelPart(Panel!AnomalyDialog)
  <2>1. Panel!AnomalyDialog \in PartIs({Panel!useReviewExpense}, "unmount", "toast", {Panel!useExpense})
    BY PanelForms, PanelBuilders, PanelEdits DEF PanelShown, Panel!AnomalyDialog
  <2> QED
    BY <2>1, ShownQueries, ExpenseHooks DEF PanelPart, PartIs, PanelShown
<1>4. PanelPart(Panel!RecomputeButton)
  <2>1. Panel!RecomputeButton \in PartIs({Panel!useRecomputeAnomalies}, "page", "toast", {})
    BY PanelForms, PanelBuilders, PanelEdits DEF PanelShown, Panel!RecomputeButton
  <2> QED
    BY <2>1, ShownQueries, ExpenseHooks DEF PanelPart, PartIs
<1> QED
  BY <1>1, <1>2, <1>3, <1>4

LEMMA NewsParts ==
    \A d \in {Panel!NewsDialog, Panel!DeleteNews} : PanelPart(d)
<1>1. PanelPart(Panel!NewsDialog)
  <2>1. Panel!NewsDialog \in PartIs({Panel!useCreateNews, Panel!useUpdateNews}, "reset", "form", {})
    BY PanelForms, PanelBuilders, PanelEdits DEF PanelShown, Panel!NewsDialog
  <2> QED
    BY <2>1, ShownQueries, NewsHooks DEF PanelPart, PartIs
<1>2. PanelPart(Panel!DeleteNews)
  <2>1. Panel!DeleteNews \in PartIs({Panel!useDeleteNews}, "keep", "toast", {})
    BY PanelForms, PanelBuilders, PanelEdits DEF PanelShown, Panel!DeleteNews
  <2> QED
    BY <2>1, ShownQueries, NewsHooks DEF PanelPart, PartIs
<1> QED
  BY <1>1, <1>2

LEMMA SettingsParts ==
    \A d \in {Panel!InviteDialog, Panel!TeamSection, Panel!ClubForm,
               Panel!ProfileSection} : PanelPart(d)
<1>1. PanelPart(Panel!InviteDialog)
  <2>1. Panel!InviteDialog \in PartIs({Panel!useInviteStaff}, "keep", "toast", {})
    BY PanelForms, PanelBuilders, PanelEdits DEF PanelShown, Panel!InviteDialog
  <2> QED
    BY <2>1, ShownQueries, SettingsHooks DEF PanelPart, PartIs
<1>2. PanelPart(Panel!TeamSection)
  <2>1. Panel!TeamSection \in PartIs({Panel!useRevokeStaff}, "keep", "toast", {})
    BY PanelForms, PanelBuilders, PanelEdits DEF PanelShown, Panel!TeamSection
  <2> QED
    BY <2>1, ShownQueries, SettingsHooks DEF PanelPart, PartIs
<1>3. PanelPart(Panel!ClubForm)
  <2>1. Panel!ClubForm \in PartIs({Panel!useUpdateClub}, "page", "toast", {})
    BY PanelForms, PanelBuilders, PanelEdits DEF PanelShown, Panel!ClubForm
  <2> QED
    BY <2>1, ShownQueries, SettingsHooks DEF PanelPart, PartIs
<1>4. PanelPart(Panel!ProfileSection)
  <2>1. Panel!ProfileSection \in PartIs({Panel!useUpdateProfile}, "page", "toast", {})
    BY PanelForms, PanelBuilders, PanelEdits DEF PanelShown, Panel!ProfileSection
  <2> QED
    BY <2>1, ShownQueries, SettingsHooks DEF PanelPart, PartIs
<1> QED
  BY <1>1, <1>2, <1>3, <1>4

LEMMA OtherQueries ==
    /\ OnlyQuery(Panel!useSession) /\ OnlyQuery(Panel!useFeesSummary)
    /\ OnlyQuery(Panel!useReservationGrid) /\ OnlyQuery(Panel!usePendingCount)
    /\ OnlyQuery(Panel!useReservationHistory) /\ OnlyQuery(Panel!useMemberStats)
    /\ OnlyQuery(Panel!useStockStats) /\ OnlyQuery(Panel!useStockCategories)
    /\ OnlyQuery(Panel!useExpenseStats) /\ OnlyQuery(Panel!useDashboardFinance)
    /\ OnlyQuery(Panel!useDashboardOperations) /\ OnlyQuery(Panel!useMemberSearch)
    /\ OnlyQuery(Panel!useStockMovements)
<1>1. OnlyQuery(Panel!useSession) /\ OnlyQuery(Panel!useFeesSummary)
  BY DEF OnlyQuery, Panel!Query, Panel!useSession, Panel!useFeesSummary
<1>2. /\ OnlyQuery(Panel!useReservationGrid) /\ OnlyQuery(Panel!usePendingCount)
      /\ OnlyQuery(Panel!useReservationHistory) /\ OnlyQuery(Panel!useMemberStats)
  BY DEF OnlyQuery, Panel!Query, Panel!useReservationGrid, Panel!usePendingCount,
         Panel!useReservationHistory, Panel!useMemberStats
<1>3. /\ OnlyQuery(Panel!useStockStats) /\ OnlyQuery(Panel!useStockCategories)
      /\ OnlyQuery(Panel!useExpenseStats) /\ OnlyQuery(Panel!useStockMovements)
  BY DEF OnlyQuery, Panel!Query, Panel!useStockStats, Panel!useStockCategories,
         Panel!useExpenseStats, Panel!useStockMovements
<1>4. /\ OnlyQuery(Panel!useDashboardFinance) /\ OnlyQuery(Panel!useDashboardOperations)
      /\ OnlyQuery(Panel!useMemberSearch)
  BY DEF OnlyQuery, Panel!Query, Panel!useDashboardFinance, Panel!useDashboardOperations,
         Panel!useMemberSearch
<1> QED
  BY <1>1, <1>2, <1>3, <1>4

PanelScreenOK(s) ==
    /\ s.tab = FALSE
    /\ \A q \in s.queries : OnlyQuery(q)
    /\ \A d \in s.writers : PanelPart(d)

LEMMA PanelScreenIs ==
    ASSUME NEW queries, NEW writers, \A q \in queries : OnlyQuery(q),
           \A d \in writers : PanelPart(d)
    PROVE  PanelScreenOK(Panel!PanelScreen(queries, writers))
BY OtherQueries DEF PanelScreenOK, Panel!PanelScreen, Panel!Screen

LEMMA PanelScreens == \A s \in Panel!Screens : PanelScreenOK(s)
<1> USE PanelScreenIs, ShownQueries, OtherQueries DEF PanelShown
<1>1. PanelScreenOK(Panel!CashView)
  BY CashParts DEF Panel!CashView
<1>2. PanelScreenOK(Panel!FeesView)
  BY FeesParts DEF Panel!FeesView
<1>3. PanelScreenOK(Panel!CourtsView)
  BY CourtsParts DEF Panel!CourtsView
<1>4. PanelScreenOK(Panel!ReservationsView)
  BY ReservationsParts DEF Panel!ReservationsView
<1>5. PanelScreenOK(Panel!MembersView)
  BY MembersParts DEF Panel!MembersView
<1>6. PanelScreenOK(Panel!StockView)
  BY StockParts DEF Panel!StockView
<1>7. PanelScreenOK(Panel!ExpensesView)
  BY ExpensesParts DEF Panel!ExpensesView
<1>8. PanelScreenOK(Panel!NewsView)
  BY NewsParts DEF Panel!NewsView
<1>9. PanelScreenOK(Panel!SettingsView)
  BY SettingsParts DEF Panel!SettingsView
<1>10. PanelScreenOK(Panel!DashboardView)
  BY DEF Panel!DashboardView
<1> QED
  BY <1>1, <1>2, <1>3, <1>4, <1>5, <1>6, <1>7, <1>8, <1>9, <1>10 DEF Panel!Screens

LEMMA PanelQueries == \A q \in Panel!Queries : OnlyQuery(q)
<1> SUFFICES ASSUME NEW q \in Panel!Queries PROVE OnlyQuery(q)
  OBVIOUS
<1>1. CASE \E s \in Panel!Screens : q \in s.queries
  BY <1>1, PanelScreens DEF PanelScreenOK
<1>2. CASE \E s \in Panel!Screens : \E d \in s.writers : q \in d.shows
  BY <1>2, PanelScreens DEF PanelScreenOK, PanelPart
<1>3. CASE q \in {Panel!useMemberSearch, Panel!useStockMovements}
  BY <1>3, OtherQueries
<1> QED
  BY <1>1, <1>2, <1>3 DEF Panel!Queries, Panel!Dialogs

-----------------------------------------------------------------------------
(* The player's app                                                            *)

MobileQuery(q) == q.family = "profile" => q = Mobile!useProfile

MobileReaches(h) ==
    /\ h.awaits
    /\ \A q : MobileQuery(q) /\ q.family \in h.changes =>
                q.family \in h.leaves \cup h.invalidates \/ q \in h.sets
    /\ h.always => h.changes \subseteq h.leaves \cup h.invalidates
    /\ \A q \in h.sets : q.family \in h.invalidates => q \notin Mobile!Tabbed

MobilePart(d) ==
    /\ d.observer = "page" /\ d.errors \in {"form", "call"} /\ d.locks = "all"
    /\ \A h \in d.hooks : MobileReaches(h)

MobileScreenOK(s) ==
    /\ s.tab => s.queries \subseteq Mobile!Tabbed
    /\ \A q \in s.queries : MobileQuery(q)
    /\ \A d \in s.writers : MobilePart(d)

(* The only query that is filled and invalidated at once is not in a tab.      *)
LEMMA ReservationLeaves == Mobile!useReservation \notin Mobile!Tabbed
<1> DEFINE r == Mobile!useReservation
<1>1. r \notin {Mobile!useSession, Mobile!useMyMemberships, Mobile!useClubsDirectory, Mobile!useMyNews}
  BY DEF Mobile!Query, Mobile!useReservation, Mobile!useSession, Mobile!useMyMemberships,
         Mobile!useClubsDirectory, Mobile!useMyNews
<1>2. r \notin {Mobile!useAvailability, Mobile!useMyReservations, Mobile!useUpcomingReservations,
                Mobile!useProfile}
  BY DEF Mobile!Query, Mobile!useReservation, Mobile!useAvailability, Mobile!useMyReservations,
         Mobile!useUpcomingReservations, Mobile!useProfile
<1> HIDE DEF r
<1>3. \A s \in Mobile!Screens : s.tab => r \notin s.queries
  <2>1. r \notin Mobile!BookingView.queries /\ r \notin Mobile!ReservationsView.queries
    BY <1>1, <1>2 DEF Mobile!BookingView, Mobile!ReservationsView, Mobile!Tab, Mobile!Screen
  <2>2. r \notin Mobile!ClubDirectory.queries /\ r \notin Mobile!HomeView.queries
    BY <1>1, <1>2 DEF Mobile!ClubDirectory, Mobile!HomeView, Mobile!Tab, Mobile!Screen
  <2>3. r \notin Mobile!ProfileView.queries
    BY <1>1, <1>2 DEF Mobile!ProfileView, Mobile!Tab, Mobile!Screen
  <2>4. ~Mobile!ReservationDetail.tab /\ ~Mobile!EditProfile.tab
    BY DEF Mobile!ReservationDetail, Mobile!EditProfile, Mobile!Screen
  <2> QED
    BY <2>1, <2>2, <2>3, <2>4 DEF Mobile!Screens
<1> QED
  BY <1>3 DEF Mobile!Tabbed, r

MobileHook(c, i, s, a) ==
    [changes : {c}, leaves : {{}}, invalidates : {i}, sets : {s}, always : {a}, awaits : {TRUE},
     silent : {TRUE}]

LEMMA MobileHooks ==
    ASSUME NEW c, NEW i, NEW s
    PROVE  /\ Mobile!Awaiting(c, i) \in MobileHook(c, i, {}, FALSE)
           /\ Mobile!Always(Mobile!Awaiting(c, i)) \in MobileHook(c, i, {}, TRUE)
           /\ Mobile!Setting(Mobile!Awaiting(c, i), s) \in MobileHook(c, i, s, FALSE)
           /\ Mobile!Always(Mobile!Setting(Mobile!Awaiting(c, i), s)) \in MobileHook(c, i, s, TRUE)
BY DEF MobileHook, Mobile!Awaiting, Mobile!Always, Mobile!Setting, Mobile!Silent, Mobile!Toasted

LEMMA MobileMutations ==
    \A h \in {Mobile!useCreateReservation, Mobile!useCancelReservation, Mobile!useMembershipMutation,
              Mobile!useAcceptInvitation, Mobile!useUpdateProfile} : MobileReaches(h)
<1> DEFINE slots == {"availability", "reservations"}
<1>1. MobileReaches(Mobile!useCreateReservation)
  <2>1. Mobile!useCreateReservation \in MobileHook(slots, slots, {}, TRUE)
    BY MobileHooks DEF Mobile!useCreateReservation
  <2> QED
    BY <2>1 DEF MobileHook, MobileReaches
<1>2. MobileReaches(Mobile!useCancelReservation)
  <2>1. Mobile!useCancelReservation \in MobileHook(slots, slots, {Mobile!useReservation}, TRUE)
    BY MobileHooks DEF Mobile!useCancelReservation
  <2> QED
    BY <2>1, ReservationLeaves DEF MobileHook, MobileReaches
<1>3. MobileReaches(Mobile!useMembershipMutation) /\ MobileReaches(Mobile!useAcceptInvitation)
  <2> DEFINE h == Mobile!useMembershipMutation
             g == Mobile!Leaving(h, {"news"})
  <2>1. h \in MobileHook({"clubs", "auth"}, {"clubs", "auth"}, {}, FALSE)
    BY MobileHooks DEF Mobile!useMembershipMutation
  <2>2. /\ g.changes = h.changes \cup {"news"} /\ g.leaves = {"news"} /\ g.awaits
        /\ g.invalidates = h.invalidates /\ g.sets = {} /\ ~g.always
    BY <2>1 DEF MobileHook, Mobile!Leaving
  <2>3. MobileReaches(h)
    BY <2>1 DEF MobileHook, MobileReaches
  <2>4. MobileReaches(g)
    <3> HIDE DEF g
    <3> QED
      BY <2>1, <2>2 DEF MobileHook, MobileReaches
  <2> QED
    BY <2>3, <2>4 DEF Mobile!useAcceptInvitation
<1>4. MobileReaches(Mobile!useUpdateProfile)
  <2>1. Mobile!useUpdateProfile
          \in MobileHook({"profile", "auth"}, {"auth"}, {Mobile!useProfile}, FALSE)
    BY MobileHooks DEF Mobile!useUpdateProfile
  <2>2. Mobile!useProfile.family = "profile"
    BY DEF Mobile!useProfile, Mobile!Query
  <2> QED
    BY <2>1, <2>2 DEF MobileHook, MobileReaches, MobileQuery
<1> QED
  BY <1>1, <1>2, <1>3, <1>4

MobileShown == {Mobile!useReservation, Mobile!useMyMemberships, Mobile!useProfile}

MobilePage(hooks, errors) ==
    [hooks : {hooks}, observer : {"page"}, closes : {"no"}, errors : {errors}, locks : {"all"},
     tabs : {FALSE}, shows : {{}}, inside : SUBSET MobileShown, drawn : SUBSET MobileShown,
     loses : {FALSE}, needs : {{}}]

LEMMA MobileBuilders ==
    ASSUME NEW hooks
    PROVE  /\ Mobile!Page(hooks) \in MobilePage(hooks, "toast")
           /\ \A d \in MobilePage(hooks, "toast") : /\ Mobile!Calling(d) \in MobilePage(hooks, "call")
                                                    /\ [d EXCEPT !.errors = "form"] \in MobilePage(hooks, "form")
           /\ \A e \in {"form", "call"}, q \in MobileShown : \A d \in MobilePage(hooks, e) :
                 Mobile!Inside(d, q) \in MobilePage(hooks, e) /\ Mobile!Drawn(d, q) \in MobilePage(hooks, e)
BY DEF MobilePage, Mobile!Page, Mobile!Form, Mobile!Calling, Mobile!Inside, Mobile!Drawn

LEMMA MobileParts ==
    \A d \in {Mobile!BookingSummary, Mobile!CancelButton, Mobile!RequestButton, Mobile!InvitationCard,
              Mobile!EditProfileForm} : MobilePart(d)
<1>1. MobilePart(Mobile!BookingSummary)
  <2>1. Mobile!BookingSummary \in MobilePage({Mobile!useCreateReservation}, "call")
    BY MobileBuilders DEF Mobile!BookingSummary
  <2> QED
    BY <2>1, MobileMutations DEF MobilePage, MobilePart
<1>2. MobilePart(Mobile!CancelButton)
  <2>1. Mobile!CancelButton \in MobilePage({Mobile!useCancelReservation}, "call")
    BY MobileBuilders DEF Mobile!CancelButton, MobileShown
  <2> QED
    BY <2>1, MobileMutations DEF MobilePage, MobilePart
<1>3. MobilePart(Mobile!RequestButton)
  <2>1. Mobile!RequestButton \in MobilePage({Mobile!useMembershipMutation}, "call")
    BY MobileBuilders DEF Mobile!RequestButton, Mobile!useRequestMembership
  <2> QED
    BY <2>1, MobileMutations DEF MobilePage, MobilePart
<1>4. MobilePart(Mobile!InvitationCard)
  <2>1. Mobile!InvitationCard
          \in MobilePage({Mobile!useAcceptInvitation, Mobile!useMembershipMutation}, "call")
    BY MobileBuilders DEF Mobile!InvitationCard, MobileShown, Mobile!useDeclineInvitation
  <2> QED
    BY <2>1, MobileMutations DEF MobilePage, MobilePart
<1>5. MobilePart(Mobile!EditProfileForm)
  <2>1. Mobile!EditProfileForm \in MobilePage({Mobile!useUpdateProfile}, "form")
    BY MobileBuilders DEF Mobile!EditProfileForm, MobileShown
  <2> QED
    BY <2>1, MobileMutations DEF MobilePage, MobilePart
<1> QED
  BY <1>1, <1>2, <1>3, <1>4, <1>5

LEMMA MobileScreens == \A s \in Mobile!Screens : MobileScreenOK(s)
<1>1. \A s \in Mobile!Screens : s.tab => s.queries \subseteq Mobile!Tabbed
  BY DEF Mobile!Tabbed
<1>2. /\ MobileQuery(Mobile!useSession) /\ MobileQuery(Mobile!useMyMemberships)
      /\ MobileQuery(Mobile!useClubsDirectory) /\ MobileQuery(Mobile!useAvailability)
  BY DEF MobileQuery, Mobile!Query, Mobile!useSession, Mobile!useMyMemberships,
         Mobile!useClubsDirectory, Mobile!useAvailability
<1>3. /\ MobileQuery(Mobile!useMyReservations) /\ MobileQuery(Mobile!useUpcomingReservations)
      /\ MobileQuery(Mobile!useReservation) /\ MobileQuery(Mobile!useProfile)
      /\ MobileQuery(Mobile!useMyNews)
  BY DEF MobileQuery, Mobile!Query, Mobile!useMyReservations, Mobile!useUpcomingReservations,
         Mobile!useReservation, Mobile!useMyNews
<1>4. \A s \in Mobile!Screens : \A q \in s.queries : MobileQuery(q)
  BY <1>2, <1>3
  DEF Mobile!Screens, Mobile!BookingView, Mobile!ReservationsView, Mobile!ReservationDetail,
      Mobile!ClubDirectory, Mobile!HomeView, Mobile!ProfileView, Mobile!EditProfile, Mobile!Tab,
      Mobile!Screen
<1>5. \A s \in Mobile!Screens : \A d \in s.writers : MobilePart(d)
  BY MobileParts
  DEF Mobile!Screens, Mobile!BookingView, Mobile!ReservationsView, Mobile!ReservationDetail,
      Mobile!ClubDirectory, Mobile!HomeView, Mobile!ProfileView, Mobile!EditProfile, Mobile!Tab,
      Mobile!Screen
<1> QED
  BY <1>1, <1>4, <1>5 DEF MobileScreenOK

-----------------------------------------------------------------------------
(* What the invariant needs to know of the component and the query picked.     *)
UiOK ==
    /\ ui.app \in {"panel", "mobile"} /\ ui.observer \in {"reset", "unmount", "keep", "page"}
    /\ ui.place \in {"screen", "dialog", "elsewhere"} /\ ui.locks \in {"all", "row"}
    /\ ui.tab => ui.observer = "page"
    /\ ui.silent => ui.errors \in {"form", "call"}
    /\ ui.drawn \in BOOLEAN /\ (ui.left \/ ui.invalidates \/ ui.sets)
    /\ ui.always => ui.left \/ ui.invalidates
    /\ ui.stays => ~(ui.invalidates /\ ui.sets)
    /\ ui.app = "mobile" => ui.awaits
    /\ ui.tab /\ ui.place = "screen" => ui.stays

LEMMA WatchedIs ==
    ASSUME NEW app, NEW screens, NEW queries, NEW u \in Watched(app, screens, queries)
    PROVE  \E s \in screens : \E d \in s.writers : \E h \in d.hooks : \E q \in queries :
              q.family \in h.changes /\ u = Watch(app, s, d, h, q)
BY DEF Watched

(* Whatever is picked is so, in either app.                                    *)
LEMMA PickedIsOK == Init => UiOK
<1> SUFFICES ASSUME Init PROVE UiOK
  OBVIOUS
<1>1. CASE ui \in Watched("panel", Panel!Screens, Panel!Queries)
  <2>1. PICK s \in Panel!Screens : \E d \in s.writers : \E h \in d.hooks : \E q \in Panel!Queries :
            q.family \in h.changes /\ ui = Watch("panel", s, d, h, q)
    BY <1>1, WatchedIs
  <2>a. PICK d \in s.writers : \E h \in d.hooks : \E q \in Panel!Queries :
            q.family \in h.changes /\ ui = Watch("panel", s, d, h, q)
    BY <2>1
  <2>2. PICK h \in d.hooks, q \in Panel!Queries :
            q.family \in h.changes /\ ui = Watch("panel", s, d, h, q)
    BY <2>a
  <2>3. PanelScreenOK(s) /\ PanelPart(d) /\ Reaches(h) /\ OnlyQuery(q)
        /\ (h.silent => d.errors \in {"form", "call"})
    BY PanelScreens, PanelQueries DEF PanelScreenOK, PanelPart
  <2>4. /\ ui.app = "panel" /\ ui.observer = d.observer /\ ui.locks = d.locks /\ ui.errors = d.errors
        /\ ui.tab = s.tab /\ ui.silent = h.silent /\ ui.always = h.always /\ ui.stays = FALSE
        /\ ui.drawn = (q \in d.drawn) /\ ui.left = (q.family \in h.leaves)
        /\ ui.invalidates = (q.family \in h.invalidates) /\ ui.sets = (q \in h.sets)
        /\ ui.place \in {"screen", "dialog", "elsewhere"}
    BY <2>2 DEF Watch
  <2>5. /\ d.observer \in {"reset", "unmount", "keep", "page"} /\ d.locks \in {"all", "row"}
        /\ (h.silent => d.errors \in {"form", "call"}) /\ ~s.tab
    BY <2>3 DEF PanelScreenOK, PanelPart
  <2>6. (ui.left \/ ui.invalidates \/ ui.sets) /\ (ui.always => ui.left \/ ui.invalidates)
    BY <2>2, <2>3, <2>4 DEF Reaches
  <2> QED
    BY <2>4, <2>5, <2>6 DEF UiOK
<1>2. CASE ui \in Watched("mobile", Mobile!Screens, Mobile!Queries)
  <2>1. PICK s \in Mobile!Screens : \E d \in s.writers : \E h \in d.hooks : \E q \in Mobile!Queries :
            q.family \in h.changes /\ ui = Watch("mobile", s, d, h, q)
    BY <1>2, WatchedIs
  <2>a. PICK d \in s.writers : \E h \in d.hooks : \E q \in Mobile!Queries :
            q.family \in h.changes /\ ui = Watch("mobile", s, d, h, q)
    BY <2>1
  <2>2. PICK h \in d.hooks, q \in Mobile!Queries :
            q.family \in h.changes /\ ui = Watch("mobile", s, d, h, q)
    BY <2>a
  <2>3. MobileScreenOK(s) /\ MobilePart(d) /\ MobileReaches(h) /\ MobileQuery(q)
    BY MobileScreens DEF MobileScreenOK, MobilePart, Mobile!Queries
  <2>4. /\ ui.app = "mobile" /\ ui.observer = d.observer /\ ui.locks = d.locks /\ ui.errors = d.errors
        /\ ui.tab = s.tab /\ ui.awaits = h.awaits /\ ui.always = h.always
        /\ ui.stays = (q \in Mobile!Tabbed)
        /\ ui.drawn = (q \in d.drawn) /\ ui.left = (q.family \in h.leaves)
        /\ ui.invalidates = (q.family \in h.invalidates) /\ ui.sets = (q \in h.sets)
        /\ ui.place \in {"screen", "dialog", "elsewhere"}
    BY <2>2 DEF Watch
  <2>5. ui.place = "screen" => q \in s.queries
    BY <2>2 DEF Watch
  <2>6. d.observer = "page" /\ d.errors \in {"form", "call"} /\ d.locks = "all" /\ h.awaits
    BY <2>3 DEF MobilePart, MobileReaches
  <2>7. (ui.left \/ ui.invalidates \/ ui.sets) /\ (ui.always => ui.left \/ ui.invalidates)
    BY <2>2, <2>3, <2>4 DEF MobileReaches
  <2>8. ui.stays => ~(ui.invalidates /\ ui.sets)
    BY <2>3, <2>4 DEF MobileReaches
  <2>9. ui.tab /\ ui.place = "screen" => ui.stays
    BY <2>3, <2>4, <2>5 DEF MobileScreenOK
  <2> QED
    BY <2>4, <2>6, <2>7, <2>8, <2>9 DEF UiOK
<1> QED
  BY <1>1, <1>2 DEF Init

-----------------------------------------------------------------------------
(* The rest of the invariant                                                   *)

(* No version shown, read or answered is newer than the backend's, and the     *)
(* cache owes what the settled mutations changed.                              *)
Made ==
    /\ owed =< version
    /\ cache.data # None => cache.data =< version
    /\ fetch.val =< version
    /\ \A m \in DOMAIN muts :
          /\ muts[m].made =< version
          /\ muts[m].phase \in {"kept", "lost"} => muts[m].made =< owed

(* A mutation in flight whose opening is not over is the one the component     *)
(* observes, and its dialog is open.                                           *)
Observed ==
    /\ ui.observer = "page" \/ at = "away" => dlg = None
    /\ ~ui.tab /\ at = "away" => cur = 0
    /\ cur \in {0, Len(muts)}
    /\ \A m \in DOMAIN muts : InFlight(m) =>
          /\ muts[m].opening = "open" => cur = m /\ (ui.observer = "page" \/ dlg # None)
          /\ muts[m].opening = "turned" => ui.tabs
          /\ muts[m].opening = "replaced" => ui.locks = "row"
          /\ cur = m /\ ui.observer # "keep" => muts[m].opening = "open"

(* Data older than what the cache owes is marked, or an older answer came      *)
(* after, or the hook leaves it alone; a query on view that is not being       *)
(* fetched has data that is not marked, or shows its error.                    *)
Fresh ==
    /\ fetch.phase = "read" => fetch.old \/ fetch.val >= owed
    /\ cache.data # None => cache.data >= owed \/ late \/ cache.invalid \/ ui.left
    /\ OnView(at, dlg) /\ fetch.phase = "idle"
       => cache.error \/ (cache.data # None /\ ~cache.invalid)

(* A mutation that has waited for its screen is shown by it.                   *)
Shown ==
    ui.app = "mobile" /\ ui.invalidates /\ ui.place = "screen" =>
        \A m \in DOMAIN muts :
            /\ muts[m].phase \in {"kept", "lost"} /\ ~muts[m].reading /\ cur = m
            /\ cache.data # None /\ ~cache.error /\ ~late
            => cache.data >= muts[m].made

ScreensInv == ScreensTypeOK /\ UiOK /\ Made /\ Observed /\ Fresh /\ Shown

-----------------------------------------------------------------------------
(* Helpers of the model                                                        *)

(* Row by row, the same mutations, but for who looks at them.                  *)
SameRows(r, s) ==
    /\ r \in Seq(Mutations) /\ Len(r) = Len(s) /\ DOMAIN r = DOMAIN s
    /\ \A m \in DOMAIN s : r[m].item = s[m].item /\ r[m].made = s[m].made /\ r[m].phase = s[m].phase

LEMMA RowByRow ==
    ASSUME NEW s \in Seq(Mutations), NEW r, r = [m \in DOMAIN s |-> r[m]],
           \A m \in DOMAIN s : r[m] \in Mutations
    PROVE  r \in Seq(Mutations) /\ Len(r) = Len(s) /\ DOMAIN r = DOMAIN s
<1>1. DOMAIN s = 1..Len(s) /\ Len(s) \in Nat
  OBVIOUS
<1> QED
  BY <1>1

LEMMA RowOf ==
    ASSUME NEW s \in Seq(Mutations), NEW m \in DOMAIN s
    PROVE  s[m] \in Mutations /\ DOMAIN s = 1..Len(s) /\ Len(s) \in Nat /\ m \in Nat \ {0} /\ m =< Len(s)
OBVIOUS

LEMMA PartedRows ==
    ASSUME muts \in Seq(Mutations), NEW how \in {"closed", "gone"}
    PROVE  /\ SameRows(Parted(how), muts)
           /\ \A m \in DOMAIN muts :
                 /\ Parted(how)[m].reading = muts[m].reading
                 /\ Parted(how)[m].opening =
                       IF InFlight(m) /\ muts[m].opening = "open" THEN how ELSE muts[m].opening
<1>1. ASSUME NEW m \in DOMAIN muts
      PROVE  /\ Parted(how)[m] \in Mutations
             /\ Parted(how)[m].item = muts[m].item /\ Parted(how)[m].made = muts[m].made
             /\ Parted(how)[m].phase = muts[m].phase /\ Parted(how)[m].reading = muts[m].reading
             /\ Parted(how)[m].opening =
                   IF InFlight(m) /\ muts[m].opening = "open" THEN how ELSE muts[m].opening
  <2>1. muts[m] \in Mutations
    BY RowOf
  <2>2. Parted(how)[m] = IF InFlight(m) /\ muts[m].opening = "open"
                         THEN [muts[m] EXCEPT !.opening = how] ELSE muts[m]
    BY DEF Parted
  <2> QED
    BY <2>1, <2>2 DEF Mutations
<1>2. Parted(how) = [m \in DOMAIN muts |-> Parted(how)[m]]
  BY DEF Parted
<1> QED
  BY <1>1, <1>2, RowByRow DEF SameRows

LEMMA ReadRows ==
    ASSUME NEW s \in Seq(Mutations)
    PROVE  /\ SameRows(Read(s), s)
           /\ \A m \in DOMAIN s : ~Read(s)[m].reading /\ Read(s)[m].opening = s[m].opening
<1>1. ASSUME NEW m \in DOMAIN s
      PROVE  /\ Read(s)[m] \in Mutations /\ Read(s)[m].item = s[m].item
             /\ Read(s)[m].made = s[m].made /\ Read(s)[m].phase = s[m].phase
             /\ Read(s)[m].reading = FALSE /\ Read(s)[m].opening = s[m].opening
  <2>1. s[m] \in Mutations /\ Read(s)[m] = [s[m] EXCEPT !.reading = FALSE]
    BY RowOf DEF Read
  <2> QED
    BY <2>1 DEF Mutations
<1>2. Read(s) = [m \in DOMAIN s |-> Read(s)[m]]
  BY DEF Read
<1> QED
  BY <1>1, <1>2, RowByRow DEF SameRows

LEMMA DroppedRows ==
    ASSUME muts \in Seq(Mutations), cur \in 0..Len(muts), NEW how \in {"replaced", "turned"}
    PROVE  /\ SameRows(Dropped(how), muts)
           /\ \A m \in DOMAIN muts :
                 /\ Dropped(how)[m].reading = muts[m].reading
                 /\ Dropped(how)[m].opening = IF m = cur /\ InFlight(m) THEN how ELSE muts[m].opening
<1>1. CASE ~(cur # 0 /\ InFlight(cur))
  <2>1. Dropped(how) = muts
    BY <1>1 DEF Dropped
  <2>2. \A m \in DOMAIN muts : m # 0
    BY RowOf
  <2> QED
    BY <1>1, <2>1, <2>2 DEF SameRows
<1>2. CASE cur # 0 /\ InFlight(cur)
  <2>1. cur \in DOMAIN muts /\ DOMAIN muts = 1..Len(muts) /\ Len(muts) \in Nat /\ muts[cur] \in Mutations
    BY <1>2
  <2>2. Dropped(how) = [muts EXCEPT ![cur] = [muts[cur] EXCEPT !.opening = how]]
    BY <1>2 DEF Dropped
  <2>3. [muts[cur] EXCEPT !.opening = how] \in Mutations
    BY <2>1 DEF Mutations
  <2>4. Dropped(how) \in Seq(Mutations) /\ Len(Dropped(how)) = Len(muts) /\ DOMAIN Dropped(how) = DOMAIN muts
    BY <2>1, <2>2, <2>3
  <2>5. \A m \in DOMAIN muts : m # cur => Dropped(how)[m] = muts[m]
    BY <2>2
  <2>6. Dropped(how)[cur] = [muts[cur] EXCEPT !.opening = how]
    BY <2>1, <2>2
  <2> QED
    BY <1>2, <2>1, <2>4, <2>5, <2>6 DEF SameRows, Mutations
<1> QED
  BY <1>1, <1>2

(* One row changes.                                                            *)
LEMMA RowChanged ==
    ASSUME NEW s \in Seq(Mutations), NEW m \in DOMAIN s, NEW e \in Mutations
    PROVE  LET r == [s EXCEPT ![m] = e] IN
           /\ r \in Seq(Mutations) /\ Len(r) = Len(s) /\ DOMAIN r = DOMAIN s
           /\ r[m] = e /\ \A n \in DOMAIN s : n # m => r[n] = s[n]
OBVIOUS

LEMMA RowAdded ==
    ASSUME NEW s \in Seq(Mutations), NEW e \in Mutations
    PROVE  /\ Append(s, e) \in Seq(Mutations) /\ Len(Append(s, e)) = Len(s) + 1
           /\ DOMAIN Append(s, e) = DOMAIN s \cup {Len(s) + 1} /\ Len(s) + 1 \notin DOMAIN s
           /\ Append(s, e)[Len(s) + 1] = e /\ \A n \in DOMAIN s : Append(s, e)[n] = s[n]
<1>1. Len(s) \in Nat /\ DOMAIN s = 1..Len(s)
  OBVIOUS
<1>2. Append(s, e) \in Seq(Mutations) /\ Len(Append(s, e)) = Len(s) + 1
  OBVIOUS
<1>3. DOMAIN Append(s, e) = 1..(Len(s) + 1)
  BY <1>1, <1>2
<1> QED
  BY <1>1, <1>2, <1>3

LEMMA MutationTyped ==
    ASSUME NEW i \in Items
    PROVE  /\ Mutation(i) \in Mutations /\ Mutation(i).phase = "sent" /\ Mutation(i).made = 0
           /\ Mutation(i).opening = "open" /\ ~Mutation(i).reading
BY ScreensAssumption DEF Mutation, Mutations, Versions

(* A step of the user through the screens leaves the cache alone.              *)
LEMMA GoFetches ==
    ASSUME NEW a, NEW d, Go(a, d)
    PROVE  at' = a /\ dlg' = d /\ fetch' \in {fetch, Starting, NoFetch}
BY DEF Go, Mount, Unmount

(* What the answer or the error of the query does to the component.            *)
LEMMA VanishRows ==
    ASSUME ScreensTypeOK, Vanish
    PROVE  /\ dlg' \in {dlg, None} /\ cur' = 0 /\ SameRows(muts', muts)
           /\ \A m \in DOMAIN muts :
                 /\ ~muts'[m].reading
                 /\ muts'[m].opening = IF InFlight(m) /\ muts[m].opening = "open" THEN "gone"
                                       ELSE muts[m].opening
<1>1. SameRows(Parted("gone"), muts)
  BY PartedRows DEF ScreensTypeOK
<1>2. /\ SameRows(Read(Parted("gone")), Parted("gone"))
      /\ \A m \in DOMAIN Parted("gone") :
            /\ ~Read(Parted("gone"))[m].reading
            /\ Read(Parted("gone"))[m].opening = Parted("gone")[m].opening
  BY <1>1, ReadRows DEF SameRows
<1> QED
  BY <1>1, <1>2, PartedRows DEF Vanish, SameRows, ScreensTypeOK

LEMMA RemainRows ==
    ASSUME ScreensTypeOK, Remain
    PROVE  /\ UNCHANGED <<dlg, cur>> /\ SameRows(muts', muts)
           /\ \A m \in DOMAIN muts : ~muts'[m].reading /\ muts'[m].opening = muts[m].opening
BY ReadRows DEF Remain, ScreensTypeOK

(* How a mutation ends.                                                        *)
LEMMA FinishRows ==
    ASSUME ScreensTypeOK, NEW m \in DOMAIN muts, NEW well \in BOOLEAN, Finish(m, well)
    PROVE  /\ muts' \in Seq(Mutations) /\ Len(muts') = Len(muts) /\ DOMAIN muts' = DOMAIN muts
           /\ \A n \in DOMAIN muts : n # m => muts'[n] = muts[n]
           /\ muts'[m].phase = IF well THEN "done" ELSE "failed"
           /\ muts'[m].made = 0
           /\ dlg' \in {dlg, None} /\ cur' \in {cur, 0}
           /\ cur # m => UNCHANGED <<dlg, cur>>
           /\ ui.observer \in {"reset", "unmount"} /\ dlg' = None => cur' = 0
<1>1. muts[m] \in Mutations /\ muts \in Seq(Mutations)
  BY RowOf DEF ScreensTypeOK
<1> DEFINE phase == IF well THEN "done" ELSE "failed"
           e == [Mutation(muts[m].item) EXCEPT !.phase = phase]
<1>2. e \in Mutations /\ e.phase = phase /\ e.made = 0
  <2>1. /\ Mutation(muts[m].item) \in Mutations /\ Mutation(muts[m].item).made = 0
    BY <1>1, MutationTyped DEF Mutations
  <2> QED
    BY <2>1 DEF Mutations
<1>3. muts' = [muts EXCEPT ![m] = e]
  BY DEF Finish
<1>4. /\ muts' \in Seq(Mutations) /\ Len(muts') = Len(muts) /\ DOMAIN muts' = DOMAIN muts
      /\ muts'[m] = e /\ \A n \in DOMAIN muts : n # m => muts'[n] = muts[n]
  <2> HIDE DEF e
  <2> QED
    BY <1>1, <1>2, <1>3, RowChanged
<1>5. dlg' \in {dlg, None} /\ (cur # m => dlg' = dlg)
  BY DEF Finish
<1>6. cur' \in {cur, 0} /\ (cur # m => cur' = cur)
  BY DEF Finish, Forget
<1>7. ui.observer \in {"reset", "unmount"} /\ dlg' = None => cur' = 0
  BY <1>5 DEF Finish, Forget, ScreensTypeOK
<1> HIDE DEF e
<1> QED
  BY <1>2, <1>4, <1>5, <1>6, <1>7

(* What a hook does to the cache has the right type.                           *)
LEMMA RefreshTyped ==
    ASSUME ScreensTypeOK, UiOK, NEW m \in DOMAIN muts, NEW well \in BOOLEAN, Refresh(m, well)
    PROVE  /\ cache' \in Caches
           /\ fetch' \in [phase : {"idle", "sent", "read"}, val : Versions, old : BOOLEAN]
           /\ late' \in BOOLEAN /\ owed' \in Versions
<1>1. muts[m].made \in Versions
  BY RowOf DEF ScreensTypeOK, Mutations
<1>2. Filled(m, well) \in Caches
  BY <1>1 DEF Filled, ScreensTypeOK, Caches, UiOK
<1>3. cache' = [Filled(m, well) EXCEPT !.invalid = @ \/ ui.invalidates]
  BY DEF Refresh
<1>4. fetch' \in {Starting, [fetch EXCEPT !.old = @ \/ fetch.phase = "read"]}
  BY DEF Refresh
<1>5. 0 \in Versions
  BY ScreensAssumption DEF Versions
<1>6. fetch' \in [phase : {"idle", "sent", "read"}, val : Versions, old : BOOLEAN]
  <2> DEFINE o == fetch.old \/ fetch.phase = "read"
  <2>1. o \in BOOLEAN
    BY DEF ScreensTypeOK
  <2>2. fetch' \in {Starting, [fetch EXCEPT !.old = o]}
    BY <1>4
  <2>3. fetch \in [phase : {"idle", "sent", "read"}, val : Versions, old : BOOLEAN]
    BY DEF ScreensTypeOK
  <2> HIDE DEF o
  <2>4. /\ Starting \in [phase : {"idle", "sent", "read"}, val : Versions, old : BOOLEAN]
        /\ [fetch EXCEPT !.old = o] \in [phase : {"idle", "sent", "read"}, val : Versions, old : BOOLEAN]
    BY <1>5, <2>1, <2>3 DEF Starting
  <2> QED
    BY <2>2, <2>4
<1>7. late' \in BOOLEAN /\ owed' \in {owed, muts[m].made}
  BY DEF Refresh
<1>8. owed' \in Versions
  BY <1>1, <1>7 DEF ScreensTypeOK
<1>9. cache' \in Caches
  <2> DEFINE c == Filled(m, well)
             i == c.invalid \/ ui.invalidates
  <2>1. i \in BOOLEAN /\ cache' = [c EXCEPT !.invalid = i]
    BY <1>2, <1>3 DEF Caches
  <2> HIDE DEF c, i
  <2> QED
    BY <1>2, <2>1 DEF Caches, c
<1> QED
  BY <1>6, <1>7, <1>8, <1>9

(* The row of a mutation the backend answers, or a hook keeps waiting.         *)
LEMMA RowWritten ==
    ASSUME ScreensTypeOK, NEW m \in DOMAIN muts, NEW e \in Mutations,
           muts' = [muts EXCEPT ![m] = e]
    PROVE  /\ muts' \in Seq(Mutations) /\ Len(muts') = Len(muts) /\ DOMAIN muts' = DOMAIN muts
           /\ muts'[m] = e /\ \A n \in DOMAIN muts : n # m => muts'[n] = muts[n]
BY RowChanged DEF ScreensTypeOK

LEMMA ServeRows ==
    ASSUME ScreensTypeOK, NEW m \in DOMAIN muts, Serve(m)
    PROVE  /\ muts' \in Seq(Mutations) /\ Len(muts') = Len(muts) /\ DOMAIN muts' = DOMAIN muts
           /\ \A n \in DOMAIN muts : n # m => muts'[n] = muts[n]
           /\ muts'[m].phase \in {"served", "refused"} /\ muts'[m].opening = muts[m].opening
           /\ muts[m].phase = "sent"
           /\ version' \in Versions /\ version =< version' /\ muts'[m].made \in {muts[m].made, version'}
<1>1. muts[m] \in Mutations /\ version \in Nat /\ version =< MaxVersion /\ MaxVersion \in Nat
  BY RowOf, ScreensAssumption DEF ScreensTypeOK, Versions
<1>2. version' \in Versions /\ version =< version'
  BY <1>1 DEF Serve, Versions
<1>3. PICK p \in {"served", "refused"}, v \in {muts[m].made, version'} :
         muts' = [muts EXCEPT ![m] = [muts[m] EXCEPT !.phase = p, !.made = v]]
  BY <1>1 DEF Serve, ScreensTypeOK
<1> DEFINE e == [muts[m] EXCEPT !.phase = p, !.made = v]
<1>4. e \in Mutations /\ e.phase = p /\ e.made = v /\ e.opening = muts[m].opening
  BY <1>1, <1>2 DEF Mutations
<1>5. muts' = [muts EXCEPT ![m] = e]
  BY <1>3
<1> HIDE DEF e
<1>6. /\ muts' \in Seq(Mutations) /\ Len(muts') = Len(muts) /\ DOMAIN muts' = DOMAIN muts
      /\ muts'[m] = e /\ \A n \in DOMAIN muts : n # m => muts'[n] = muts[n]
  BY <1>4, <1>5, RowWritten
<1>7. muts[m].phase = "sent"
  BY DEF Serve
<1> QED
  BY <1>2, <1>4, <1>6, <1>7

(* A mutation that settles: its row, or how it ended.  The component may go    *)
(* with what its hook filled.                                                  *)
Waits(m, well) ==
    /\ muts' \in Seq(Mutations) /\ Len(muts') = Len(muts) /\ DOMAIN muts' = DOMAIN muts
    /\ \A n \in DOMAIN muts : muts'[n].made = muts[n].made
    /\ \A n \in DOMAIN muts : n # m => /\ muts'[n].phase = muts[n].phase
                                       /\ muts'[n].reading = muts[n].reading
    /\ muts'[m].phase = IF well THEN "kept" ELSE "lost"
    /\ muts'[m].reading = (ui.invalidates /\ OnView(at, dlg))
    /\ UNCHANGED dlg
    /\ \/ cur' = cur /\ \A n \in DOMAIN muts : muts'[n].opening = muts[n].opening
       \/ cur' = 0 /\ \A n \in DOMAIN muts : muts'[n].opening =
                          IF InFlight(n) /\ muts[n].opening = "open" THEN "gone" ELSE muts[n].opening

LEMMA SettleRows ==
    ASSUME ScreensTypeOK, NEW m \in DOMAIN muts, NEW well \in BOOLEAN, Settle(m, well)
    PROVE  IF ui.awaits /\ (well \/ ui.always) THEN Waits(m, well) ELSE Finish(m, well)
<1>1. CASE ui.awaits /\ (well \/ ui.always)
  <2> DEFINE p == IF well THEN "kept" ELSE "lost"
             r == ui.invalidates /\ OnView(at, dlg)
             rows == IF Goes THEN Parted("gone") ELSE muts
             e == [rows[m] EXCEPT !.phase = p, !.reading = r]
  <2>1. /\ rows \in Seq(Mutations) /\ Len(rows) = Len(muts) /\ DOMAIN rows = DOMAIN muts
        /\ \A n \in DOMAIN muts : /\ rows[n].made = muts[n].made /\ rows[n].phase = muts[n].phase
                                   /\ rows[n].reading = muts[n].reading
                                   /\ rows[n].opening =
                                         IF Goes /\ InFlight(n) /\ muts[n].opening = "open"
                                         THEN "gone" ELSE muts[n].opening
    BY PartedRows DEF ScreensTypeOK, SameRows
  <2>2. /\ muts' = [rows EXCEPT ![m].phase = p, ![m].reading = r]
        /\ UNCHANGED dlg /\ cur' = IF Goes THEN 0 ELSE cur
    BY <1>1 DEF Settle
  <2>3. p \in {"kept", "lost"} /\ r \in BOOLEAN
    OBVIOUS
  <2> HIDE DEF p, r, rows
  <2>4. rows[m] \in Mutations
    BY <2>1, RowOf
  <2>5. muts' = [rows EXCEPT ![m] = e]
    BY <2>1, <2>2
  <2>6. /\ e \in Mutations /\ e.phase = p /\ e.reading = r
        /\ e.made = rows[m].made /\ e.opening = rows[m].opening
    BY <2>3, <2>4 DEF Mutations
  <2> HIDE DEF e
  <2>7. /\ muts' \in Seq(Mutations) /\ Len(muts') = Len(muts) /\ DOMAIN muts' = DOMAIN muts
        /\ muts'[m] = e /\ \A n \in DOMAIN muts : n # m => muts'[n] = rows[n]
    BY <2>1, <2>5, <2>6, RowChanged
  <2>8. Waits(m, well)
    BY <2>1, <2>2, <2>6, <2>7 DEF Waits, p, r
  <2> QED
    BY <1>1, <2>8
<1>2. CASE ~(ui.awaits /\ (well \/ ui.always))
  BY <1>2 DEF Settle
<1> QED
  BY <1>1, <1>2

LEMMA SubmitRows ==
    ASSUME ScreensTypeOK, NEW i \in Items, Submit(i)
    PROVE  /\ muts' \in Seq(Mutations) /\ Len(muts') = Len(muts) + 1 /\ Len(muts) \in Nat
           /\ DOMAIN muts' = DOMAIN muts \cup {Len(muts) + 1} /\ Len(muts) + 1 \notin DOMAIN muts
           /\ cur' = Len(muts) + 1 /\ muts'[cur'] = Mutation(i)
           /\ \A m \in DOMAIN muts :
                 /\ muts'[m].phase = muts[m].phase /\ muts'[m].made = muts[m].made
                 /\ muts'[m].opening = IF m = cur /\ InFlight(m) THEN "replaced" ELSE muts[m].opening
<1>1. /\ SameRows(Dropped("replaced"), muts)
      /\ \A m \in DOMAIN muts :
            Dropped("replaced")[m].opening = IF m = cur /\ InFlight(m) THEN "replaced" ELSE muts[m].opening
  BY DroppedRows DEF ScreensTypeOK
<1>2. Mutation(i) \in Mutations /\ muts' = Append(Dropped("replaced"), Mutation(i)) /\ cur' = Len(muts) + 1
  BY MutationTyped DEF Submit
<1>3. Dropped("replaced") \in Seq(Mutations) /\ Len(Dropped("replaced")) = Len(muts) /\ DOMAIN Dropped("replaced") = DOMAIN muts
  BY <1>1 DEF SameRows
<1>4. Len(muts) \in Nat
  BY DEF ScreensTypeOK
<1> QED
  BY <1>1, <1>2, <1>3, <1>4, RowAdded DEF SameRows

-----------------------------------------------------------------------------
(* Types                                                                       *)

Fetches == [phase : {"idle", "sent", "read"}, val : Versions, old : BOOLEAN]

LEMMA GoTyped ==
    ASSUME ScreensTypeOK, NEW a \in {"here", "away"}, NEW d \in Items \cup {None}, Go(a, d)
    PROVE  at' \in {"here", "away"} /\ dlg' \in Items \cup {None} /\ fetch' \in Fetches
<1>1. Starting \in Fetches /\ NoFetch \in Fetches /\ fetch \in Fetches
  BY ScreensAssumption DEF Starting, NoFetch, Fetches, Versions, ScreensTypeOK
<1> QED
  BY <1>1, GoFetches

LEMMA TypeStep ==
    ASSUME ScreensTypeOK, UiOK, Observed, [Next]_vars
    PROVE  ScreensTypeOK' /\ UiOK'
<1>u. UNCHANGED ui
  BY DEF Next, vars, Refetch, ReadServer, Arrive, FailFetch, Close, ChangeTab, Leave, Return,
         ChangeElsewhere, Open, Submit, Serve, Resume, Settle
<1>v. UiOK'
  BY <1>u DEF UiOK
<1>w. Len(muts) \in Nat /\ 0 \in Versions /\ None \notin Items
      /\ \A m \in DOMAIN muts : m \in 1..Len(muts)
  BY ScreensAssumption DEF ScreensTypeOK, Versions
<1>1. CASE UNCHANGED vars
  BY <1>1, <1>v DEF vars, ScreensTypeOK
<1>2. CASE Refetch
  <2>1. fetch' \in Fetches
    BY <1>2, <1>w DEF Refetch, Starting, Fetches
  <2> QED
    BY <1>2, <1>v, <2>1 DEF Refetch, ScreensTypeOK, Fetches
<1>3. CASE ReadServer
  <2>1. fetch' \in Fetches
    BY <1>3 DEF ReadServer, ScreensTypeOK, Fetches
  <2> QED
    BY <1>3, <1>v, <2>1 DEF ReadServer, ScreensTypeOK, Fetches
<1>4. CASE Arrive
  <2>1. fetch' \in Fetches
    BY <1>4, <1>w DEF Arrive, NoFetch, Fetches
  <2>a. PICK e \in BOOLEAN :
            cache' = [data |-> fetch.val, invalid |-> FALSE, error |-> FALSE, empty |-> e]
    BY <1>4 DEF Arrive
  <2>b. fetch.val \in Versions /\ fetch.old \in BOOLEAN
    BY DEF ScreensTypeOK
  <2>c. cache' \in Caches
    BY <2>a, <2>b DEF Caches
  <2>d. late' \in BOOLEAN /\ UNCHANGED <<ui, version, at, owed>> /\ (Remain \/ Vanish)
    BY <1>4, <2>b DEF Arrive
  <2>2. /\ cache' \in Caches
        /\ late' \in BOOLEAN /\ UNCHANGED <<ui, version, at, owed>> /\ (Remain \/ Vanish)
    BY <2>c, <2>d
  <2>3. /\ muts' \in Seq(Mutations) /\ Len(muts') = Len(muts)
        /\ dlg' \in {dlg, None} /\ (UNCHANGED <<dlg, cur>> \/ cur' = 0)
    BY <2>2, VanishRows, RemainRows DEF SameRows
  <2> QED
    BY <1>v, <1>w, <2>1, <2>2, <2>3 DEF ScreensTypeOK, Fetches
<1>5. CASE FailFetch
  <2>1. fetch' \in Fetches
    BY <1>5, <1>w DEF FailFetch, NoFetch, Fetches
  <2>2. /\ cache' \in Caches
        /\ UNCHANGED <<ui, version, at, owed, late>> /\ (Remain \/ Vanish)
    BY <1>5 DEF FailFetch, ScreensTypeOK, Caches
  <2>3. /\ muts' \in Seq(Mutations) /\ Len(muts') = Len(muts)
        /\ dlg' \in {dlg, None} /\ (UNCHANGED <<dlg, cur>> \/ cur' = 0)
    BY <2>2, VanishRows, RemainRows DEF SameRows
  <2> QED
    BY <1>v, <1>w, <2>1, <2>2, <2>3 DEF ScreensTypeOK, Fetches
<1>6. CASE Close
  <2>1. at' = "here" /\ dlg' = None /\ fetch' \in Fetches
    BY <1>6, GoTyped, GoFetches DEF Close
  <2>2. SameRows(muts', muts) /\ cur' \in {0, cur} /\ (ui.observer \in {"reset", "unmount"} => cur' = 0)
    BY <1>6, PartedRows DEF Close, Forget, ScreensTypeOK
  <2> QED
    BY <1>6, <1>v, <1>w, <2>1, <2>2 DEF Close, ScreensTypeOK, Fetches, SameRows
<1>7. CASE ChangeTab
  <2>1. SameRows(muts', muts) /\ cur' = 0
    BY <1>7, DroppedRows DEF ChangeTab, ScreensTypeOK
  <2> QED
    BY <1>7, <1>v, <1>w, <2>1 DEF ChangeTab, ScreensTypeOK, SameRows
<1>8. CASE Leave
  <2>1. at' = "away" /\ dlg' = None /\ fetch' \in Fetches
    BY <1>8, GoTyped, GoFetches DEF Leave
  <2>2. muts' \in Seq(Mutations) /\ Len(muts') = Len(muts)
        /\ (cur' = 0 \/ (ui.tab /\ cur' = cur))
    <3>1. CASE ui.tab
      BY <1>8, <3>1 DEF Leave, ScreensTypeOK
    <3>2. CASE ~ui.tab
      <4>1. /\ Parted("closed") \in Seq(Mutations) /\ Len(Parted("closed")) = Len(muts)
            /\ DOMAIN Parted("closed") = DOMAIN muts
        BY PartedRows DEF ScreensTypeOK, SameRows
      <4>2. Read(Parted("closed")) \in Seq(Mutations) /\ Len(Read(Parted("closed"))) = Len(muts)
        BY <4>1, ReadRows DEF SameRows
      <4> QED
        BY <1>8, <3>2, <4>1, <4>2 DEF Leave
    <3> QED
      BY <3>1, <3>2
  <2> QED
    BY <1>8, <1>v, <1>w, <2>1, <2>2 DEF Leave, ScreensTypeOK, Fetches, UiOK
<1>9. CASE Return
  <2>1. at' = "here" /\ dlg' = None /\ fetch' \in Fetches
    BY <1>9, GoTyped, GoFetches DEF Return
  <2>2. dlg = None
    BY <1>9 DEF Return, Observed
  <2> QED
    BY <1>9, <1>v, <2>1, <2>2 DEF Return, ScreensTypeOK, Fetches
<1>10. CASE ChangeElsewhere
  <2>1. version' \in Versions
    BY <1>10, ScreensAssumption DEF ChangeElsewhere, ScreensTypeOK, Versions
  <2> QED
    BY <1>10, <1>v, <2>1 DEF ChangeElsewhere, ScreensTypeOK
<1>11. ASSUME NEW i \in Items, Open(i) PROVE ScreensTypeOK'
  <2>1. at' = "here" /\ dlg' = i /\ fetch' \in Fetches
    BY <1>11, GoTyped, GoFetches DEF Open
  <2> QED
    BY <1>11, <1>v, <1>w, <2>1 DEF Open, ScreensTypeOK, Fetches
<1>12. ASSUME NEW i \in Items, Submit(i) PROVE ScreensTypeOK'
  <2>1. /\ muts' \in Seq(Mutations) /\ Len(muts') = Len(muts) + 1 /\ cur' = Len(muts) + 1
        /\ UNCHANGED <<ui, version, cache, fetch, at, dlg, owed, late>>
        /\ Len(muts) < MaxMutations /\ (ui.observer = "page" \/ dlg = i)
    BY <1>12, SubmitRows DEF Submit
  <2> QED
    BY <1>w, <2>1, ScreensAssumption DEF ScreensTypeOK
<1>13. ASSUME NEW m \in DOMAIN muts, Serve(m) PROVE ScreensTypeOK'
  <2>1. muts' \in Seq(Mutations) /\ Len(muts') = Len(muts) /\ version' \in Versions
    BY <1>13, ServeRows
  <2> QED
    BY <1>13, <2>1 DEF Serve, ScreensTypeOK
<1>14. ASSUME NEW m \in DOMAIN muts, NEW well \in BOOLEAN, Settle(m, well) PROVE ScreensTypeOK'
  <2>1. /\ cache' \in Caches
        /\ fetch' \in Fetches /\ late' \in BOOLEAN /\ owed' \in Versions
    <3>1. CASE well \/ ui.always
      BY <1>14, <3>1, RefreshTyped DEF Settle, Fetches
    <3>2. CASE ~(well \/ ui.always)
      BY <1>14, <3>2 DEF Settle, ScreensTypeOK, Fetches
    <3> QED
      BY <3>1, <3>2
  <2>2. /\ muts' \in Seq(Mutations) /\ Len(muts') = Len(muts)
        /\ dlg' \in {dlg, None} /\ cur' \in {cur, 0}
        /\ ui.observer \in {"reset", "unmount"} /\ dlg' = None => cur' = 0
    BY <1>14, SettleRows, FinishRows DEF Waits, ScreensTypeOK
  <2> QED
    BY <1>14, <1>w, <2>1, <2>2 DEF Settle, ScreensTypeOK, Fetches
<1>15. ASSUME NEW m \in DOMAIN muts, Resume(m) PROVE ScreensTypeOK'
  <2>1. PICK well \in BOOLEAN : Finish(m, well)
    BY <1>15 DEF Resume
  <2>2. /\ muts' \in Seq(Mutations) /\ Len(muts') = Len(muts)
        /\ dlg' \in {dlg, None} /\ cur' \in {cur, 0}
        /\ ui.observer \in {"reset", "unmount"} /\ dlg' = None => cur' = 0
    BY <2>1, FinishRows
  <2> QED
    BY <1>15, <1>w, <2>2 DEF Resume, ScreensTypeOK
<1> QED
  BY <1>v, <1>1, <1>2, <1>3, <1>4, <1>5, <1>6, <1>7, <1>8, <1>9, <1>10, <1>11, <1>12, <1>13, <1>14,
     <1>15 DEF Next

-----------------------------------------------------------------------------
(* Who observes what                                                           *)

LEMMA ObservedFinish ==
    ASSUME ScreensTypeOK, Observed, NEW m \in DOMAIN muts, NEW well \in BOOLEAN, Finish(m, well),
           UNCHANGED <<ui, at>>
    PROVE  Observed'
<1>1. /\ Len(muts') = Len(muts) /\ DOMAIN muts' = DOMAIN muts
      /\ \A n \in DOMAIN muts : n # m => muts'[n] = muts[n]
      /\ muts'[m].phase \in {"done", "failed"}
      /\ dlg' \in {dlg, None} /\ cur' \in {cur, 0}
      /\ cur # m => UNCHANGED <<dlg, cur>>
  BY FinishRows
<1>2. \A n \in DOMAIN muts : n \in Nat \ {0}
  BY RowOf DEF ScreensTypeOK
<1> QED
  BY <1>1, <1>2 DEF Observed, InFlight

LEMMA ObservedStep ==
    ASSUME ScreensTypeOK, UiOK, Observed, [Next]_vars
    PROVE  Observed'
<1>w. Len(muts) \in Nat /\ None \notin Items /\ \A m \in DOMAIN muts : m \in Nat \ {0}
  BY RowOf, ScreensAssumption DEF ScreensTypeOK
<1>1. CASE UNCHANGED <<ui, at, dlg, muts, cur>>
  BY <1>1 DEF Observed, InFlight
<1>2. ASSUME UNCHANGED <<ui, at>>, Remain \/ Vanish PROVE Observed'
  <2>1. CASE Remain
    BY <1>2, <2>1, RemainRows DEF Observed, InFlight, SameRows
  <2>2. CASE Vanish
    <3>1. /\ dlg' \in {dlg, None} /\ cur' = 0 /\ DOMAIN muts' = DOMAIN muts
          /\ \A m \in DOMAIN muts :
                /\ muts'[m].phase = muts[m].phase
                /\ InFlight(m) => muts'[m].opening # "open"
                /\ muts'[m].opening \in {"replaced", "turned"} => muts'[m].opening = muts[m].opening
      BY <2>2, VanishRows DEF SameRows
    <3> QED
      BY <1>2, <1>w, <3>1 DEF Observed, InFlight
  <2> QED
    BY <1>2, <2>1, <2>2
<1>3. CASE Close
  <2>1. /\ UNCHANGED ui /\ at' = "here" /\ dlg' = None /\ cur' = Forget
        /\ muts' = Parted("closed") /\ dlg # None
    BY <1>3, GoFetches DEF Close
  <2>2. /\ DOMAIN muts' = DOMAIN muts /\ Len(muts') = Len(muts)
        /\ \A m \in DOMAIN muts :
              /\ muts'[m].phase = muts[m].phase
              /\ InFlight(m) => muts'[m].opening # "open"
              /\ muts'[m].opening \in {"replaced", "turned"} => muts'[m].opening = muts[m].opening
    BY <2>1, PartedRows DEF SameRows, ScreensTypeOK
  <2>3. cur' \in {0, Len(muts')} /\ (ui.observer # "keep" => cur' = 0)
    BY <2>1, <2>2 DEF Forget, Observed, ScreensTypeOK
  <2> QED
    BY <1>w, <2>1, <2>2, <2>3 DEF Observed, InFlight
<1>4. CASE ChangeTab
  <2>1. /\ DOMAIN muts' = DOMAIN muts /\ cur' = 0
        /\ \A m \in DOMAIN muts :
              /\ muts'[m].phase = muts[m].phase
              /\ muts'[m].opening = IF m = cur /\ InFlight(m) THEN "turned" ELSE muts[m].opening
    BY <1>4, DroppedRows DEF ChangeTab, SameRows, ScreensTypeOK
  <2>2. UNCHANGED <<ui, at, dlg>> /\ ui.tabs
    BY <1>4 DEF ChangeTab
  <2> QED
    BY <1>w, <2>1, <2>2 DEF Observed, InFlight
<1>5. CASE Leave
  <2>1. UNCHANGED ui /\ at' = "away" /\ dlg' = None
    BY <1>5, GoFetches DEF Leave
  <2>2. CASE ui.tab
    <3>1. UNCHANGED <<cur, muts>> /\ ui.observer = "page"
      BY <1>5, <2>2 DEF Leave, UiOK
    <3> QED
      BY <2>1, <2>2, <3>1 DEF Observed, InFlight
  <2>3. CASE ~ui.tab
    <3>1. cur' = 0 /\ muts' \in {Parted("closed"), Read(Parted("closed"))}
      BY <1>5, <2>3 DEF Leave
    <3>2. /\ SameRows(Parted("closed"), muts)
          /\ \A m \in DOMAIN muts : Parted("closed")[m].opening =
                IF InFlight(m) /\ muts[m].opening = "open" THEN "closed" ELSE muts[m].opening
      BY PartedRows DEF ScreensTypeOK
    <3>3. /\ SameRows(Read(Parted("closed")), Parted("closed"))
          /\ \A m \in DOMAIN Parted("closed") :
                Read(Parted("closed"))[m].opening = Parted("closed")[m].opening
      BY <3>2, ReadRows DEF SameRows
    <3>4. /\ DOMAIN muts' = DOMAIN muts
          /\ \A m \in DOMAIN muts :
                /\ muts'[m].phase = muts[m].phase
                /\ muts'[m].opening =
                      IF InFlight(m) /\ muts[m].opening = "open" THEN "closed" ELSE muts[m].opening
      BY <3>1, <3>2, <3>3 DEF SameRows
    <3> QED
      BY <1>w, <2>1, <3>1, <3>4 DEF Observed, InFlight
  <2> QED
    BY <2>2, <2>3
<1>6. CASE Return
  <2>1. UNCHANGED <<ui, muts, cur>> /\ at = "away" /\ at' = "here" /\ dlg' = None
    BY <1>6, GoFetches DEF Return
  <2> QED
    BY <2>1 DEF Observed, InFlight
<1>7. ASSUME NEW i \in Items, Open(i) PROVE Observed'
  <2>1. UNCHANGED <<ui, muts, cur>> /\ at' = "here" /\ dlg' = i /\ dlg = None /\ ui.observer # "page"
    BY <1>7, GoFetches DEF Open
  <2> QED
    BY <1>w, <2>1 DEF Observed, InFlight
<1>8. ASSUME NEW i \in Items, Submit(i) PROVE Observed'
  <2>1. /\ UNCHANGED <<ui, at, dlg>> /\ at = "here" /\ (ui.observer = "page" \/ dlg = i)
        /\ ~Disabled(i)
    BY <1>8 DEF Submit
  <2>2. /\ Len(muts') = Len(muts) + 1 /\ cur' = Len(muts) + 1
        /\ DOMAIN muts' = DOMAIN muts \cup {Len(muts) + 1} /\ Len(muts) + 1 \notin DOMAIN muts
        /\ muts'[cur'].opening = "open"
        /\ \A m \in DOMAIN muts :
              /\ muts'[m].phase = muts[m].phase
              /\ muts'[m].opening = IF m = cur /\ InFlight(m) THEN "replaced" ELSE muts[m].opening
    BY <1>8, SubmitRows, MutationTyped
  <2>3. \A m \in DOMAIN muts : m = cur /\ InFlight(m) => ui.locks = "row"
    BY <1>w, <2>1 DEF Disabled, UiOK
  <2>4. ASSUME NEW m \in DOMAIN muts', InFlight(m)'
        PROVE  /\ muts'[m].opening = "open" => cur' = m /\ (ui.observer = "page" \/ dlg # None)
               /\ muts'[m].opening = "turned" => ui.tabs
               /\ muts'[m].opening = "replaced" => ui.locks = "row"
               /\ cur' = m /\ ui.observer # "keep" => muts'[m].opening = "open"
    <3>1. CASE m = cur'
      BY <1>w, <2>1, <2>2, <3>1
    <3>2. CASE m # cur'
      <4>1. m \in DOMAIN muts /\ InFlight(m)
        BY <2>2, <2>4, <3>2 DEF InFlight
      <4> QED
        BY <2>2, <2>3, <3>2, <4>1 DEF Observed
    <3> QED
      BY <3>1, <3>2
  <2> QED
    BY <2>1, <2>2, <2>4 DEF Observed
<1>9. ASSUME NEW m \in DOMAIN muts, Serve(m) PROVE Observed'
  <2>1. /\ DOMAIN muts' = DOMAIN muts /\ Len(muts') = Len(muts)
        /\ \A n \in DOMAIN muts : muts'[n].opening = muts[n].opening /\ (InFlight(n)' => InFlight(n))
    BY <1>9, ServeRows DEF InFlight
  <2>2. UNCHANGED <<ui, at, dlg, cur>>
    BY <1>9 DEF Serve
  <2> QED
    BY <2>1, <2>2 DEF Observed
<1>10. ASSUME NEW m \in DOMAIN muts, NEW well \in BOOLEAN, Settle(m, well) PROVE Observed'
  <2>1. UNCHANGED <<ui, at>> /\ muts[m].phase \in {"sent", "served", "refused"}
    BY <1>10 DEF Settle
  <2>2. CASE Waits(m, well)
    <3>1. /\ DOMAIN muts' = DOMAIN muts /\ Len(muts') = Len(muts) /\ UNCHANGED dlg
          /\ \A n \in DOMAIN muts : InFlight(n)' => InFlight(n)
      BY <2>1, <2>2 DEF Waits, InFlight
    <3>2. CASE cur' = cur /\ \A n \in DOMAIN muts : muts'[n].opening = muts[n].opening
      BY <2>1, <3>1, <3>2 DEF Observed
    <3>3. CASE cur' = 0 /\ \A n \in DOMAIN muts : muts'[n].opening =
                 IF InFlight(n) /\ muts[n].opening = "open" THEN "gone" ELSE muts[n].opening
      BY <1>w, <2>1, <3>1, <3>3 DEF Observed
    <3> QED
      BY <2>2, <3>2, <3>3 DEF Waits
  <2>3. CASE Finish(m, well)
    BY <2>1, <2>3, ObservedFinish
  <2> QED
    BY <1>10, <2>2, <2>3, SettleRows
<1>11. ASSUME NEW m \in DOMAIN muts, Resume(m) PROVE Observed'
  <2>1. UNCHANGED <<ui, at>> /\ \E well \in BOOLEAN : Finish(m, well)
    BY <1>11 DEF Resume
  <2> QED
    BY <2>1, ObservedFinish
<1>12. CASE Refetch \/ ReadServer \/ ChangeElsewhere \/ UNCHANGED vars
  BY <1>1, <1>12 DEF Refetch, ReadServer, ChangeElsewhere, vars
<1>13. CASE Arrive \/ FailFetch
  BY <1>2, <1>13 DEF Arrive, FailFetch
<1> QED
  BY <1>3, <1>4, <1>5, <1>6, <1>7, <1>8, <1>9, <1>10, <1>11, <1>12, <1>13 DEF Next

-----------------------------------------------------------------------------
(* Versions                                                                    *)

LEMMA Numbers ==
    ASSUME ScreensTypeOK
    PROVE  /\ version \in Nat /\ owed \in Nat /\ fetch.val \in Nat /\ MaxVersion \in Nat
           /\ cache.data # None => cache.data \in Nat
           /\ \A m \in DOMAIN muts : muts[m] \in Mutations /\ muts[m].made \in Nat
           /\ None \notin Versions
<1>1. Versions \subseteq Nat /\ MaxVersion \in Nat /\ None \notin Versions
  BY ScreensAssumption DEF Versions
<1>2. \A m \in DOMAIN muts : muts[m] \in Mutations
  BY RowOf DEF ScreensTypeOK
<1>3. version \in Versions /\ owed \in Versions /\ fetch.val \in Versions
      /\ cache.data \in Versions \cup {None}
  BY DEF ScreensTypeOK, Caches
<1>4. \A m \in DOMAIN muts : muts[m].made \in Versions
  BY <1>2 DEF Mutations
<1> QED
  BY <1>1, <1>2, <1>3, <1>4

(* What the hook of the mutation m does to the cache, to the request in flight *)
(* and to what is owed.                                                        *)
LEMMA RefreshFacts ==
    ASSUME ScreensTypeOK, UiOK, Made, UNCHANGED version, NEW m \in DOMAIN muts,
           NEW well \in BOOLEAN, Refresh(m, well)
    PROVE  LET sets  == well /\ ui.sets
               again == /\ ui.invalidates /\ OnView(at, dlg)
                        /\ fetch.phase = "idle" \/ cache'.data # None IN
           /\ owed =< owed' /\ muts[m].made =< owed' /\ owed' =< version /\ owed' \in Nat
           /\ owed' \in {owed, muts[m].made}
           /\ cache'.data = IF sets THEN muts[m].made ELSE cache.data
           /\ cache'.invalid = ((~sets /\ cache.invalid) \/ ui.invalidates)
           /\ cache'.error = (~sets /\ cache.error)
           /\ again => fetch' = Starting
           /\ ~again => /\ fetch'.phase = fetch.phase /\ fetch'.val = fetch.val
                        /\ fetch'.old = (fetch.old \/ fetch.phase = "read")
           /\ late' = (late \/ cache'.data \in 0..(owed - 1))
<1> DEFINE filled == Filled(m, well)
           marked == filled.invalid \/ ui.invalidates
           old == fetch.old \/ fetch.phase = "read"
<1>1. /\ filled \in Caches
      /\ filled.data = IF well /\ ui.sets THEN muts[m].made ELSE cache.data
      /\ filled.invalid = (~(well /\ ui.sets) /\ cache.invalid)
      /\ filled.error = (~(well /\ ui.sets) /\ cache.error)
  <2>1. muts[m].made \in Versions
    BY Numbers DEF Mutations
  <2> QED
    BY <2>1 DEF Filled, ScreensTypeOK, Caches, UiOK
<1>2. cache' = [filled EXCEPT !.invalid = marked]
  BY DEF Refresh
<1>3. cache'.data = filled.data /\ cache'.invalid = marked /\ cache'.error = filled.error
  <2> HIDE DEF filled, marked
  <2> QED
    BY <1>1, <1>2 DEF Caches
<1>4. /\ owed' = IF muts[m].made > owed THEN muts[m].made ELSE owed
      /\ late' = (late \/ filled.data \in 0..(owed - 1))
      /\ fetch' = IF ui.invalidates /\ OnView(at, dlg) /\ (fetch.phase = "idle" \/ filled.data # None)
                  THEN Starting ELSE [fetch EXCEPT !.old = old]
  BY DEF Refresh
<1>5. LET f == [fetch EXCEPT !.old = old] IN
      f.phase = fetch.phase /\ f.val = fetch.val /\ f.old = old
  <2> HIDE DEF old
  <2> QED
    BY DEF ScreensTypeOK
<1>6. /\ owed =< owed' /\ muts[m].made =< owed' /\ owed' =< version /\ owed' \in Nat
      /\ owed' \in {owed, muts[m].made}
  BY <1>4, Numbers DEF Made
<1> HIDE DEF filled
<1> QED
  BY <1>1, <1>3, <1>4, <1>5, <1>6

LEMMA MadeStep ==
    ASSUME ScreensTypeOK, UiOK, Made, [Next]_vars
    PROVE  Made'
<1> USE Numbers
<1>0. \A f \in {Starting, NoFetch} : f.val = 0
  BY DEF Starting, NoFetch
\* Rows that say the same of versions.
<1>1. ASSUME UNCHANGED <<version, owed>>,
             cache'.data \in {cache.data, fetch.val}, fetch'.val \in {fetch.val, version, 0},
             DOMAIN muts' = DOMAIN muts,
             \A m \in DOMAIN muts : muts'[m].made = muts[m].made /\ muts'[m].phase = muts[m].phase
      PROVE  Made'
  BY <1>1 DEF Made
<1>2. CASE UNCHANGED <<version, owed, cache, fetch, muts>>
  BY <1>2 DEF Made
<1>3. CASE Refetch \/ ReadServer
  <2>1. fetch'.val \in {version, 0} /\ UNCHANGED <<version, owed, cache, muts>>
    BY <1>0, <1>3 DEF Refetch, ReadServer, ScreensTypeOK
  <2> QED
    BY <1>1, <2>1
<1>4. CASE Arrive \/ FailFetch
  <2>1. UNCHANGED <<version, owed>> /\ cache'.data \in {cache.data, fetch.val} /\ fetch'.val = 0
    <3>1. UNCHANGED <<version, owed>> /\ fetch' = NoFetch
      BY <1>4 DEF Arrive, FailFetch
    <3>2. CASE Arrive
      BY <1>0, <3>1, <3>2 DEF Arrive
    <3>3. CASE FailFetch
      BY <1>0, <3>1, <3>3 DEF FailFetch, ScreensTypeOK
    <3> QED
      BY <1>4, <3>2, <3>3
  <2>2. SameRows(muts', muts)
    BY <1>4, VanishRows, RemainRows DEF Arrive, FailFetch
  <2> QED
    BY <1>1, <2>1, <2>2 DEF SameRows
<1>5. ASSUME NEW a, NEW d, Go(a, d), UNCHANGED <<version, owed, cache>>,
             DOMAIN muts' = DOMAIN muts,
             \A m \in DOMAIN muts : muts'[m].made = muts[m].made /\ muts'[m].phase = muts[m].phase
      PROVE  Made'
  <2>1. fetch'.val \in {fetch.val, 0}
    BY <1>0, <1>5, GoFetches
  <2> QED
    BY <1>1, <1>5, <2>1
<1>6. CASE Close
  BY <1>5, <1>6, PartedRows DEF Close, SameRows, ScreensTypeOK
<1>7. CASE ChangeTab
  BY <1>1, <1>7, DroppedRows DEF ChangeTab, SameRows, ScreensTypeOK
<1>8. CASE Leave
  <2>1. SameRows(Parted("closed"), muts)
    BY PartedRows DEF ScreensTypeOK
  <2>2. SameRows(Read(Parted("closed")), Parted("closed"))
    BY <2>1, ReadRows DEF SameRows
  <2>3. muts' \in {muts, Parted("closed"), Read(Parted("closed"))}
    BY <1>8 DEF Leave
  <2> QED
    BY <1>5, <1>8, <2>1, <2>2, <2>3 DEF Leave, SameRows
<1>9. CASE Return \/ \E i \in Items : Open(i)
  BY <1>5, <1>9 DEF Return, Open
<1>10. CASE ChangeElsewhere
  BY <1>10 DEF ChangeElsewhere, Made
<1>11. ASSUME NEW i \in Items, Submit(i) PROVE Made'
  <2>1. /\ DOMAIN muts' = DOMAIN muts \cup {Len(muts) + 1}
        /\ muts'[Len(muts) + 1].made = 0 /\ muts'[Len(muts) + 1].phase = "sent"
        /\ \A m \in DOMAIN muts : muts'[m].phase = muts[m].phase /\ muts'[m].made = muts[m].made
    BY <1>11, SubmitRows, MutationTyped
  <2>2. UNCHANGED <<version, owed, cache, fetch>>
    BY <1>11 DEF Submit
  <2>3. ASSUME NEW m \in DOMAIN muts'
        PROVE  /\ muts'[m].made =< version
               /\ muts'[m].phase \in {"kept", "lost"} => muts'[m].made =< owed
    <3>1. CASE m \in DOMAIN muts
      BY <2>1, <3>1 DEF Made
    <3>2. CASE m = Len(muts) + 1
      BY <2>1, <3>2
    <3> QED
      BY <2>1, <3>1, <3>2
  <2> QED
    BY <2>2, <2>3 DEF Made
<1>12. ASSUME NEW m \in DOMAIN muts, Serve(m) PROVE Made'
  <2>1. /\ DOMAIN muts' = DOMAIN muts /\ \A n \in DOMAIN muts : n # m => muts'[n] = muts[n]
        /\ muts'[m].phase \in {"served", "refused"}
        /\ version =< version' /\ muts'[m].made \in {muts[m].made, version'} /\ version' \in Nat
    BY <1>12, ServeRows DEF Versions
  <2>2. \A n \in DOMAIN muts : muts'[n].made =< version'
    BY <2>1 DEF Made
  <2> QED
    BY <1>12, <2>1, <2>2 DEF Serve, Made
<1>13. ASSUME NEW m \in DOMAIN muts, NEW well \in BOOLEAN, Settle(m, well) PROVE Made'
  <2>1. UNCHANGED version
    BY <1>13 DEF Settle
  <2>2. /\ DOMAIN muts' = DOMAIN muts
        /\ \A n \in DOMAIN muts :
              n # m => muts'[n].made = muts[n].made /\ muts'[n].phase = muts[n].phase
        /\ \/ muts'[m].phase \in {"done", "failed"} /\ muts'[m].made = 0
           \/ muts'[m].made = muts[m].made /\ (well \/ ui.always)
    BY <1>13, SettleRows, FinishRows DEF Waits
  <2>3. CASE well \/ ui.always
    <3>1. /\ owed =< owed' /\ muts[m].made =< owed' /\ owed' =< version /\ owed' \in Nat
          /\ cache'.data \in {cache.data, muts[m].made} /\ fetch'.val \in {fetch.val, 0}
      BY <1>0, <1>13, <2>1, <2>3, RefreshFacts DEF Settle
    <3> QED
      BY <2>1, <2>2, <3>1 DEF Made
  <2>4. CASE ~(well \/ ui.always)
    BY <1>13, <2>1, <2>2, <2>4 DEF Settle, Made
  <2> QED
    BY <2>3, <2>4
<1>14. ASSUME NEW m \in DOMAIN muts, Resume(m) PROVE Made'
  <2>1. \E well \in BOOLEAN : Finish(m, well)
    BY <1>14 DEF Resume
  <2>2. /\ DOMAIN muts' = DOMAIN muts /\ \A n \in DOMAIN muts : n # m => muts'[n] = muts[n]
        /\ muts'[m].phase \in {"done", "failed"} /\ muts'[m].made = 0
    BY <2>1, FinishRows
  <2> QED
    BY <1>14, <2>2 DEF Resume, Made
<1> QED
  BY <1>2, <1>3, <1>4, <1>6, <1>7, <1>8, <1>9, <1>10, <1>11, <1>12, <1>13, <1>14 DEF Next, vars

-----------------------------------------------------------------------------
(* Freshness                                                                   *)

LEMMA FreshGo ==
    ASSUME Fresh, UiOK, NEW a, NEW d, Go(a, d), UNCHANGED <<ui, cache, owed, late>>
    PROVE  Fresh'
<1>1. at' = a /\ dlg' = d /\ fetch' \in {fetch, Starting, NoFetch}
  BY GoFetches
<1>2. Starting.phase = "sent" /\ NoFetch.phase = "idle"
  BY DEF Starting, NoFetch
<1>3. ASSUME OnView(at, dlg)', fetch'.phase = "idle"
      PROVE  cache.error \/ (cache.data # None /\ ~cache.invalid)
  <2>1. OnView(a, d)
    <3>1. Visited' => Visited
      BY <1>3 DEF Visited
    <3> QED
      BY <1>1, <1>3, <3>1 DEF OnView, UiOK
  <2>2. CASE OnView(at, dlg)
    <3>1. fetch' = fetch
      BY <2>1, <2>2 DEF Go
    <3> QED
      BY <1>3, <2>2, <3>1 DEF Fresh
  <2>3. CASE ~OnView(at, dlg)
    <3>1. Mount
      BY <2>1, <2>3 DEF Go
    <3> QED
      BY <1>2, <1>3, <3>1 DEF Mount
  <2> QED
    BY <2>2, <2>3
<1> QED
  BY <1>1, <1>2, <1>3 DEF Fresh

(* A mutation that settles leaves nothing old that is not known to be so.      *)
LEMMA FreshSettled ==
    ASSUME ScreensTypeOK, UiOK, Made, Fresh, UNCHANGED <<ui, version, at>>, dlg' \in {dlg, None},
           NEW m \in DOMAIN muts, NEW well \in BOOLEAN, well \/ ui.always, Refresh(m, well)
    PROVE  Fresh'
<1> DEFINE sets  == well /\ ui.sets
           again == ui.invalidates /\ OnView(at, dlg) /\ (fetch.phase = "idle" \/ cache'.data # None)
<1>1. /\ owed =< owed' /\ muts[m].made =< owed' /\ owed' \in {owed, muts[m].made}
      /\ cache'.data = IF sets THEN muts[m].made ELSE cache.data
      /\ cache'.invalid = ((~sets /\ cache.invalid) \/ ui.invalidates)
      /\ cache'.error = (~sets /\ cache.error)
      /\ again => fetch' = Starting
      /\ ~again => /\ fetch'.phase = fetch.phase
                   /\ fetch'.old = (fetch.old \/ fetch.phase = "read")
      /\ late' = (late \/ cache'.data \in 0..(owed - 1))
  BY RefreshFacts
<1>2. Starting.phase = "sent"
  BY DEF Starting
<1>3. owed \in Nat /\ muts[m].made \in Nat /\ muts[m].made # None
  BY Numbers DEF Mutations
<1>4. ui.left \/ ui.invalidates \/ sets
  BY DEF UiOK
<1> HIDE DEF sets
<1>5. fetch'.phase = "read" => fetch'.old \/ fetch'.val >= owed'
  <2> HIDE DEF again
  <2> QED
    BY <1>1, <1>2
<1>6. cache'.data # None => cache'.data >= owed' \/ late' \/ cache'.invalid \/ ui'.left
  <2>1. CASE ui.invalidates \/ ui.left
    BY <1>1, <2>1
  <2>2. CASE ~ui.invalidates /\ ~ui.left
    <3>1. cache'.data = muts[m].made
      BY <1>1, <1>4, <2>2
    <3>2. cache'.data < owed => late'
      <4>1. cache'.data \in 0..(owed - 1) => late'
        BY <1>1
      <4> QED
        BY <1>3, <3>1, <4>1
    <3>3. owed' \in Nat /\ (owed' = owed \/ owed' = muts[m].made)
      BY <1>1, <1>3
    <3> QED
      BY <1>3, <3>1, <3>2, <3>3
  <2> QED
    BY <2>1, <2>2
<1>7. ASSUME OnView(at, dlg)', fetch'.phase = "idle"
      PROVE  cache'.error \/ (cache'.data # None /\ ~cache'.invalid)
  <2>0. CASE sets /\ ~ui.invalidates
    BY <1>1, <1>3, <2>0
  <2>1. CASE ~sets /\ ~ui.invalidates
    <3>1. /\ cache'.data = cache.data /\ cache'.invalid = cache.invalid /\ cache'.error = cache.error
          /\ fetch'.phase = fetch.phase
      BY <1>1, <2>1 DEF ScreensTypeOK, Caches
    <3>2. OnView(at, dlg)
      BY <1>7, <3>1 DEF OnView, Visited, UiOK
    <3> QED
      BY <1>7, <3>1, <3>2 DEF Fresh
  <2>2. CASE ui.invalidates
    <3>1. ~OnView(at, dlg) /\ fetch.phase = "idle"
      BY <1>1, <1>2, <1>7, <2>2
    <3>2. CASE ui.place = "dialog"
      BY <1>7, <3>1, <3>2 DEF OnView
    <3>3. CASE ui.place \in {"screen", "elsewhere"}
      <4>1. Visited' /\ ~Visited
        BY <1>7, <3>1, <3>3 DEF OnView
      <4>2. ui.stays /\ ~sets
        BY <2>2, <4>1 DEF Visited, UiOK, sets
      <4>3. cache'.data = cache.data /\ cache'.error = cache.error
        BY <1>1, <4>2 DEF ScreensTypeOK, Caches
      <4> QED
        BY <1>7, <4>1, <4>3 DEF Visited
    <3> QED
      BY <3>2, <3>3 DEF UiOK
  <2> QED
    BY <2>0, <2>1, <2>2
<1> QED
  BY <1>5, <1>6, <1>7 DEF Fresh

LEMMA FreshStep ==
    ASSUME ScreensTypeOK, UiOK, Made, Fresh, [Next]_vars
    PROVE  Fresh'
\* The cache and the request stay as they are, and the dialog may close.
<1>1. ASSUME UNCHANGED <<ui, at, cache, fetch, owed, late>>, dlg' \in {dlg, None} PROVE Fresh'
  <2>1. OnView(at, dlg)' => OnView(at, dlg)
    BY <1>1 DEF OnView, Visited, UiOK
  <2> QED
    BY <1>1, <2>1 DEF Fresh
<1>2. CASE Refetch
  <2>1. UNCHANGED <<ui, cache, owed, late>> /\ fetch'.phase = "sent"
    BY <1>2 DEF Refetch, Starting
  <2> QED
    BY <2>1 DEF Fresh
<1>3. CASE ReadServer
  <2>1. UNCHANGED <<ui, cache, owed, late>> /\ fetch'.phase = "read" /\ fetch'.val = version
    BY <1>3 DEF ReadServer, ScreensTypeOK
  <2> QED
    BY <2>1, Numbers DEF Fresh, Made
<1>4. CASE Arrive
  <2>1. /\ fetch.phase = "read" /\ UNCHANGED owed /\ late' = fetch.old
        /\ cache'.data = fetch.val /\ ~cache'.invalid /\ ~cache'.error
        /\ fetch'.phase = "idle"
    BY <1>4 DEF Arrive, NoFetch
  <2>2. fetch.val # None
    BY Numbers DEF ScreensTypeOK
  <2> QED
    BY <2>1, <2>2 DEF Fresh
<1>5. CASE FailFetch
  <2>1. cache'.invalid /\ cache'.error /\ fetch'.phase = "idle"
    BY <1>5 DEF FailFetch, NoFetch, ScreensTypeOK, Caches
  <2> QED
    BY <2>1 DEF Fresh
<1>6. CASE Close \/ Leave \/ Return \/ \E i \in Items : Open(i)
  <2>1. UNCHANGED <<ui, cache, owed, late>> /\ \E a, d : Go(a, d)
    BY <1>6 DEF Close, Leave, Return, Open
  <2> QED
    BY <2>1, FreshGo
<1>7. CASE ChangeTab \/ ChangeElsewhere \/ UNCHANGED vars
  BY <1>1, <1>7 DEF ChangeTab, ChangeElsewhere, vars
<1>8. ASSUME NEW i \in Items, Submit(i) PROVE Fresh'
  BY <1>1, <1>8 DEF Submit
<1>9. ASSUME NEW m \in DOMAIN muts, Serve(m) PROVE Fresh'
  BY <1>1, <1>9 DEF Serve
<1>10. ASSUME NEW m \in DOMAIN muts, Resume(m) PROVE Fresh'
  <2>1. UNCHANGED <<ui, at, cache, fetch, owed, late>> /\ \E well \in BOOLEAN : Finish(m, well)
    BY <1>10 DEF Resume
  <2> QED
    BY <1>1, <2>1, FinishRows
<1>11. ASSUME NEW m \in DOMAIN muts, NEW well \in BOOLEAN, Settle(m, well) PROVE Fresh'
  <2>1. UNCHANGED <<ui, version, at>> /\ dlg' \in {dlg, None}
    BY <1>11, SettleRows, FinishRows DEF Settle, Waits
  <2>2. CASE well \/ ui.always
    BY <1>11, <2>1, <2>2, FreshSettled DEF Settle
  <2>3. CASE ~(well \/ ui.always)
    BY <1>1, <1>11, <2>1, <2>3 DEF Settle
  <2> QED
    BY <2>2, <2>3
<1> QED
  BY <1>2, <1>3, <1>4, <1>5, <1>6, <1>7, <1>8, <1>9, <1>10, <1>11 DEF Next

-----------------------------------------------------------------------------
(* What a screen shows when its mutation goes on                               *)

LEMMA SameComponent ==
    ASSUME [Next]_vars
    PROVE  UNCHANGED ui
BY DEF Next, Refetch, ReadServer, Arrive, FailFetch, Close, ChangeTab, Leave, Return,
       ChangeElsewhere, Open, Submit, Serve, Resume, Settle, vars

(* The mutation m has waited for its screen, and is still observed.            *)
Waited(m) == muts[m].phase \in {"kept", "lost"} /\ ~muts[m].reading /\ cur = m

(* No step but the end of a mutation makes it wait.                            *)
LEMMA ShownSame ==
    ASSUME Shown, UNCHANGED <<ui, cache, late>>,
           \A m \in DOMAIN muts' : Waited(m)' =>
              m \in DOMAIN muts /\ Waited(m) /\ muts'[m].made = muts[m].made
    PROVE  Shown'
BY DEF Shown, Waited

LEMMA ShownSettled ==
    ASSUME ScreensTypeOK, UiOK, Made, Observed, Shown, NEW n \in DOMAIN muts, NEW well \in BOOLEAN,
           Settle(n, well), well \/ ui.always
    PROVE  Shown'
<1> SUFFICES ASSUME ui.app = "mobile", ui.invalidates, ui.place = "screen",
                    NEW m \in DOMAIN muts', Waited(m)',
                    cache'.data # None, ~cache'.error, ~late'
             PROVE  cache'.data >= muts'[m].made
  <2>1. UNCHANGED ui
    BY DEF Settle
  <2> QED
    BY <2>1 DEF Shown, Waited
<1>1. UNCHANGED <<ui, version, at>> /\ Refresh(n, well) /\ ui.awaits
  BY DEF Settle, UiOK
<1>2. Waits(n, well)
  BY <1>1, SettleRows
<1> DEFINE sets == well /\ ui.sets
<1>3. /\ cache'.data = IF sets THEN muts[n].made ELSE cache.data
      /\ cache'.error = (~sets /\ cache.error)
      /\ late' = (late \/ cache'.data \in 0..(owed - 1))
  BY <1>1, RefreshFacts
<1>4. owed \in Nat /\ muts[n].made \in Nat /\ \A k \in DOMAIN muts : muts[k].made \in Nat
  BY Numbers DEF Mutations
<1>5. m \in DOMAIN muts /\ cur = m /\ m # 0 /\ muts'[m].made = muts[m].made
  BY <1>2, RowOf DEF Waits, Waited, ScreensTypeOK
<1>6. CASE m = n
  <2>1. ~OnView(at, dlg)
    BY <1>2, <1>6 DEF Waits, Waited
  <2>2. at # "here" /\ ~Visited
    BY <2>1 DEF OnView
  <2>3. ui.tab
    BY <1>5, <2>2 DEF Observed, ScreensTypeOK
  <2>4. ui.stays /\ ~sets
    BY <2>3 DEF UiOK
  <2>5. cache.data = None
    BY <2>2, <2>4 DEF Visited
  <2> QED
    BY <1>3, <2>4, <2>5
<1>7. CASE m # n
  <2>1. muts'[m].phase = muts[m].phase /\ muts'[m].reading = muts[m].reading
    BY <1>2, <1>5, <1>7 DEF Waits
  <2>2. Waited(m)
    BY <1>5, <2>1 DEF Waited
  <2>3. CASE sets
    <3>1. cache'.data >= owed
      <4>1. cache'.data = muts[n].made /\ cache'.data \notin 0..(owed - 1)
        BY <1>3, <2>3
      <4> QED
        BY <1>4, <4>1
    <3>2. muts[m].made =< owed
      BY <1>5, <2>2 DEF Made, Waited
    <3> QED
      BY <1>3, <1>4, <1>5, <2>3, <3>1, <3>2
  <2>4. CASE ~sets
    <3>1. cache'.data = cache.data /\ ~cache.error /\ ~late
      BY <1>3, <2>4
    <3> QED
      BY <1>5, <2>2, <3>1 DEF Shown, Waited
  <2> QED
    BY <2>3, <2>4
<1> QED
  BY <1>6, <1>7

LEMMA ShownStep ==
    ASSUME ScreensTypeOK, UiOK, Made, Observed, Fresh, Shown, [Next]_vars
    PROVE  Shown'
<1>w. UNCHANGED ui /\ \A m \in DOMAIN muts : m # 0
  BY SameComponent, RowOf DEF ScreensTypeOK
\* A request answered, or failed for good.
<1>1. CASE Arrive
  <2>1. SameRows(muts', muts) /\ cur' \in {cur, 0}
    BY <1>1, VanishRows, RemainRows DEF Arrive
  <2>2. cache'.data = fetch.val /\ late' = fetch.old /\ fetch.phase = "read" /\ UNCHANGED owed
    BY <1>1 DEF Arrive
  <2>3. ASSUME NEW m \in DOMAIN muts, muts'[m].phase \in {"kept", "lost"}, ~late'
        PROVE  cache'.data >= muts'[m].made
    <3>1. muts'[m].made = muts[m].made /\ muts[m].made =< owed
      BY <2>1, <2>3 DEF SameRows, Made
    <3>2. fetch.val >= owed
      BY <2>2, <2>3 DEF Fresh
    <3> QED
      BY <2>2, <3>1, <3>2, Numbers DEF Mutations
  <2> QED
    BY <2>1, <2>3 DEF Shown, SameRows
<1>2. CASE FailFetch
  <2>1. cache'.error
    BY <1>2 DEF FailFetch, ScreensTypeOK, Caches
  <2> QED
    BY <2>1 DEF Shown
\* The user leaves the mutation, or stays with it.
<1>3. ASSUME UNCHANGED <<cache, late, muts, cur>> PROVE Shown'
  BY <1>w, <1>3, ShownSame DEF Waited
<1>4. ASSUME UNCHANGED <<cache, late>>, cur' = 0, DOMAIN muts' = DOMAIN muts PROVE Shown'
  BY <1>w, <1>4, ShownSame DEF Waited
<1>5. CASE Close
  <2>1. UNCHANGED <<cache, late>> /\ cur' \in {cur, 0} /\ muts' = Parted("closed")
    BY <1>5 DEF Close, Forget
  <2>2. /\ SameRows(muts', muts)
        /\ \A m \in DOMAIN muts : muts'[m].reading = muts[m].reading
    BY <2>1, PartedRows DEF ScreensTypeOK
  <2> QED
    BY <1>w, <2>1, <2>2, ShownSame DEF Waited, SameRows
<1>6. CASE ChangeTab
  BY <1>4, <1>6, DroppedRows DEF ChangeTab, SameRows, ScreensTypeOK
<1>7. CASE Leave
  <2>1. CASE ui.tab
    BY <1>3, <1>7, <2>1 DEF Leave
  <2>2. CASE ~ui.tab
    <3>1. UNCHANGED <<cache, late>> /\ cur' = 0
          /\ muts' \in {Parted("closed"), Read(Parted("closed"))}
      BY <1>7, <2>2 DEF Leave
    <3>2. SameRows(Parted("closed"), muts)
      BY PartedRows DEF ScreensTypeOK
    <3>3. SameRows(Read(Parted("closed")), Parted("closed"))
      BY <3>2, ReadRows DEF SameRows
    <3> QED
      BY <1>4, <3>1, <3>2, <3>3 DEF SameRows
  <2> QED
    BY <2>1, <2>2
<1>8. CASE Refetch \/ ReadServer \/ Return \/ ChangeElsewhere \/ (\E i \in Items : Open(i))
           \/ UNCHANGED vars
  BY <1>3, <1>8 DEF Refetch, ReadServer, Return, ChangeElsewhere, Open, vars
\* The mutations themselves.
<1>9. ASSUME NEW i \in Items, Submit(i) PROVE Shown'
  <2>1. UNCHANGED <<cache, late>>
    BY <1>9 DEF Submit
  <2>2. muts'[cur'].phase = "sent"
    BY <1>9, SubmitRows, MutationTyped
  <2>3. \A m \in DOMAIN muts' : ~Waited(m)'
    BY <2>2 DEF Waited
  <2> QED
    BY <1>w, <2>1, <2>3, ShownSame
<1>10. ASSUME NEW n \in DOMAIN muts, UNCHANGED <<cache, late>>, cur' \in {cur, 0},
              DOMAIN muts' = DOMAIN muts, muts'[n].phase \notin {"kept", "lost"},
              \A m \in DOMAIN muts : m # n => muts'[m] = muts[m]
       PROVE  Shown'
  <2>1. ASSUME NEW m \in DOMAIN muts', Waited(m)'
        PROVE  m \in DOMAIN muts /\ Waited(m) /\ muts'[m].made = muts[m].made
    <3>1. m \in DOMAIN muts /\ m # n /\ m # 0
      BY <1>w, <1>10, <2>1 DEF Waited
    <3>2. muts'[m] = muts[m] /\ cur' = cur
      BY <1>10, <2>1, <3>1 DEF Waited
    <3> QED
      BY <2>1, <3>1, <3>2 DEF Waited
  <2> QED
    BY <1>w, <1>10, <2>1, ShownSame
<1>11. ASSUME NEW m \in DOMAIN muts, Serve(m) PROVE Shown'
  <2>1. UNCHANGED <<cache, late, cur>>
    BY <1>11 DEF Serve
  <2> QED
    BY <1>10, <1>11, <2>1, ServeRows
<1>12. ASSUME NEW m \in DOMAIN muts, Resume(m) PROVE Shown'
  <2>1. UNCHANGED <<cache, late>> /\ \E well \in BOOLEAN : Finish(m, well)
    BY <1>12 DEF Resume
  <2>2. /\ DOMAIN muts' = DOMAIN muts /\ cur' \in {cur, 0} /\ muts'[m].phase \in {"done", "failed"}
        /\ \A n \in DOMAIN muts : n # m => muts'[n] = muts[n]
    BY <2>1, FinishRows
  <2> QED
    BY <1>10, <2>1, <2>2
<1>13. ASSUME NEW m \in DOMAIN muts, NEW well \in BOOLEAN, Settle(m, well) PROVE Shown'
  <2>1. CASE well \/ ui.always
    BY <1>13, <2>1, ShownSettled
  <2>2. CASE ~(well \/ ui.always)
    <3>1. UNCHANGED <<cache, late>> /\ Finish(m, well)
      BY <1>13, <2>2 DEF Settle
    <3>2. /\ DOMAIN muts' = DOMAIN muts /\ cur' \in {cur, 0} /\ muts'[m].phase \in {"done", "failed"}
          /\ \A n \in DOMAIN muts : n # m => muts'[n] = muts[n]
      BY <3>1, FinishRows
    <3> QED
      BY <1>10, <3>1, <3>2
  <2> QED
    BY <2>1, <2>2
<1> QED
  BY <1>1, <1>2, <1>5, <1>6, <1>7, <1>8, <1>9, <1>11, <1>12, <1>13 DEF Next

-----------------------------------------------------------------------------
(* The invariant                                                               *)

LEMMA ScreensInit == Init => ScreensInv
<1> SUFFICES ASSUME Init PROVE ScreensInv
  OBVIOUS
<1>1. UiOK
  BY PickedIsOK
<1>2. muts = << >> /\ cur = 0 /\ DOMAIN muts = {} /\ Len(muts) = 0 /\ muts \in Seq(Mutations)
  BY DEF Init
<1>3. 0 \in Versions /\ MaxMutations \in Nat
  BY ScreensAssumption DEF Versions
<1>4. /\ version = 0 /\ owed = 0 /\ late = FALSE /\ at = "here" /\ dlg = None
      /\ cache = [data |-> None, invalid |-> FALSE, error |-> FALSE, empty |-> FALSE]
      /\ fetch = IF ui.place = "screen" THEN Starting ELSE NoFetch
  BY DEF Init
<1>5. ScreensTypeOK
  <2>1. {Starting, NoFetch} \subseteq [phase : {"idle", "sent", "read"}, val : Versions, old : BOOLEAN]
    BY <1>3 DEF Starting, NoFetch
  <2>2. fetch \in [phase : {"idle", "sent", "read"}, val : Versions, old : BOOLEAN]
    BY <1>4, <2>1
  <2>3. cache \in Caches
    BY <1>4 DEF Caches
  <2>4. Len(muts) <= MaxMutations /\ cur \in 0..Len(muts)
    BY <1>2, <1>3
  <2> QED
    BY <1>1, <1>2, <1>3, <1>4, <2>2, <2>3, <2>4 DEF ScreensTypeOK, UiOK
<1>6. Made
  BY <1>2, <1>4 DEF Made, Starting, NoFetch
<1>7. Observed /\ Shown
  BY <1>2, <1>4 DEF Observed, Shown
<1>8. Fresh
  BY <1>1, <1>4 DEF Fresh, OnView, Visited, Starting, NoFetch, UiOK
<1> QED
  BY <1>1, <1>5, <1>6, <1>7, <1>8 DEF ScreensInv

LEMMA ScreensStep ==
    ASSUME ScreensInv, [Next]_vars
    PROVE  ScreensInv'
BY TypeStep, MadeStep, ObservedStep, FreshStep, ShownStep DEF ScreensInv

(* What a screen of either app, its query and its mutations keep true together,*)
(* whatever the order in which requests are answered.                          *)
THEOREM ScreensAlways == Spec => []ScreensInv
BY ScreensInit, ScreensStep, PTL DEF Spec

-----------------------------------------------------------------------------
(* Theorems                                                                    *)

(* A mutation ends when it settles and its hook does not wait, or when the     *)
(* hook has waited enough.                                                     *)
LEMMA EndsOnly ==
    ASSUME ScreensTypeOK, [Next]_vars, NEW m \in DOMAIN muts, Ends(m)
    PROVE  \/ \E well \in BOOLEAN :
                 Settle(m, well) /\ ~(ui.awaits /\ (well \/ ui.always)) /\ Finish(m, well)
           \/ Resume(m) /\ \E well \in BOOLEAN : Finish(m, well)
<1>1. muts'[m].phase # muts[m].phase /\ muts'[m].phase \in {"done", "failed"}
  BY DEF Ends, InFlight
<1>2. CASE UNCHANGED muts
  BY <1>1, <1>2
<1>3. CASE Arrive \/ FailFetch
  BY <1>1, <1>3, VanishRows, RemainRows DEF Arrive, FailFetch, SameRows
<1>4. CASE Close
  BY <1>1, <1>4, PartedRows DEF Close, SameRows, ScreensTypeOK
<1>5. CASE ChangeTab
  BY <1>1, <1>5, DroppedRows DEF ChangeTab, SameRows, ScreensTypeOK
<1>6. CASE Leave
  <2>1. SameRows(Parted("closed"), muts)
    BY PartedRows DEF ScreensTypeOK
  <2>2. SameRows(Read(Parted("closed")), Parted("closed"))
    BY <2>1, ReadRows DEF SameRows
  <2>3. muts' \in {muts, Parted("closed"), Read(Parted("closed"))}
    BY <1>6 DEF Leave
  <2> QED
    BY <1>1, <2>1, <2>2, <2>3 DEF SameRows
<1>7. CASE \E i \in Items : Submit(i)
  BY <1>1, <1>7, SubmitRows
<1>8. CASE \E n \in DOMAIN muts : Serve(n)
  BY <1>1, <1>8, ServeRows
<1>9. ASSUME NEW n \in DOMAIN muts, Resume(n)
      PROVE  Resume(m) /\ \E well \in BOOLEAN : Finish(m, well)
  <2>1. \E well \in BOOLEAN : Finish(n, well)
    BY <1>9 DEF Resume
  <2>2. n = m
    BY <1>1, <2>1, FinishRows
  <2> QED
    BY <1>9, <2>1, <2>2
<1>10. ASSUME NEW n \in DOMAIN muts, NEW well \in BOOLEAN, Settle(n, well)
       PROVE  n = m /\ ~(ui.awaits /\ (well \/ ui.always)) /\ Finish(n, well)
  <2>1. ~Waits(n, well)
    BY <1>1 DEF Waits
  <2>2. ~(ui.awaits /\ (well \/ ui.always)) /\ Finish(n, well)
    BY <1>10, <2>1, SettleRows
  <2> QED
    BY <1>1, <2>2, FinishRows
<1>11. CASE Refetch \/ ReadServer \/ Return \/ ChangeElsewhere \/ (\E i \in Items : Open(i))
            \/ UNCHANGED vars
  BY <1>2, <1>11 DEF Refetch, ReadServer, Return, ChangeElsewhere, Open, vars
<1> QED
  BY <1>3, <1>4, <1>5, <1>6, <1>7, <1>8, <1>9, <1>10, <1>11 DEF Next

(* Every variable keeps its type, for every component and query of the two     *)
(* apps: the mutation observed is one that was sent, and a dialog that mounts  *)
(* its form or resets it when it closes observes none while it is closed.      *)
THEOREM ScreensTypeCorrect == Spec => []ScreensTypeOK
BY ScreensAlways, PTL DEF ScreensInv

(* What is on view and at rest is not older than the changes the user made,    *)
(* wherever it is shown, when the hook touches it (invalidateQueries,          *)
(* setQueryData); unless the screen shows an error or an older answer came     *)
(* after theirs.  Of a family its endpoint changes and the hook leaves alone,  *)
(* as the dashboard, nothing is said.                                          *)
THEOREM RestIsFresh == Spec => []FreshAtRest
<1>1. ScreensInv => FreshAtRest
  BY DEF ScreensInv, Fresh, FreshAtRest
<1> QED
  BY <1>1, ScreensAlways, PTL

(* A component with its mutation in flight sends no other                      *)
(* (disabled={isPending}), unless the user closed or left it, its data took it *)
(* off the screen, or the user turned to another part of its dialog, which     *)
(* gives the button back.                                                      *)
THEOREM OneMutationInFlight == Spec => []OneInFlight
<1>1. ScreensInv => OneInFlight
  <2> SUFFICES ASSUME ScreensInv, ui.locks = "all",
                      NEW m \in DOMAIN muts, NEW n \in DOMAIN muts, m < n, InFlight(m)
               PROVE  muts[m].opening \in {"closed", "gone", "turned"}
    BY DEF OneInFlight
  <2>1. muts[m] \in Mutations /\ m \in Nat \ {0} /\ n \in Nat /\ n =< Len(muts) /\ Len(muts) \in Nat
    BY RowOf DEF ScreensInv, ScreensTypeOK
  <2>2. cur # m
    BY <2>1 DEF ScreensInv, Observed
  <2>3. muts[m].opening \notin {"open", "replaced"}
    BY <2>2 DEF ScreensInv, Observed
  <2> QED
    BY <2>1, <2>3 DEF Mutations
<1> QED
  BY <1>1, ScreensAlways, PTL

(* The callback that closes a dialog (onSuccess of mutate, onOpenChange) is    *)
(* the one of a mutation sent from that opening, never of one sent before the  *)
(* user closed it and opened it again; the confirmations are left out.         *)
THEOREM DialogsCloseTheirOwn == Spec => ClosesItsOwn
<1>1. ASSUME ScreensInv, [Next]_vars
      PROVE  [\A m \in DOMAIN muts :
                 Ends(m) /\ dlg # None /\ dlg' = None /\ ui.observer # "keep"
                 => muts[m].opening = "open"]_vars
  <2> SUFFICES ASSUME NEW m \in DOMAIN muts, Ends(m), dlg # None, dlg' = None, ui.observer # "keep"
               PROVE  muts[m].opening = "open"
    OBVIOUS
  <2>1. PICK well \in BOOLEAN : Finish(m, well)
    BY <1>1, EndsOnly DEF ScreensInv
  <2>2. cur = m
    BY <1>1, <2>1, FinishRows DEF ScreensInv
  <2> QED
    BY <1>1, <2>2 DEF ScreensInv, Observed, Ends
<1> QED
  BY <1>1, ScreensAlways, PTL DEF Spec, ClosesItsOwn

(* A failure is told of by the toast of the panel, by the error the form draws *)
(* or by the callback of the call.  The ones that are not come from a hook     *)
(* that is silent (meta.silent), after the user closed or left the component,  *)
(* its data took it off the screen, the user turned to another part of its     *)
(* dialog, or another row took its place in the table of courts.               *)
THEOREM FailuresAreTold == Spec => FailureIsTold
<1>1. ASSUME ScreensInv, [Next]_vars
      PROVE  [\A m \in DOMAIN muts :
                 Fails(m) /\ ~Told(m) =>
                     /\ ui.silent
                     /\ \/ muts[m].opening \in {"closed", "gone"}
                        \/ muts[m].opening = "turned" /\ ui.tabs
                        \/ muts[m].opening = "replaced" /\ ui.locks = "row"]_vars
  <2> SUFFICES ASSUME NEW m \in DOMAIN muts, Fails(m), ~Told(m)
               PROVE  /\ ui.silent
                      /\ \/ muts[m].opening \in {"closed", "gone"}
                         \/ muts[m].opening = "turned" /\ ui.tabs
                         \/ muts[m].opening = "replaced" /\ ui.locks = "row"
    OBVIOUS
  <2>1. ui.silent /\ ui.errors \in {"form", "call"} /\ InFlight(m)
    BY <1>1 DEF ScreensInv, UiOK, Told, Fails
  <2>2. muts[m].opening # "open"
    BY <1>1, <2>1 DEF ScreensInv, Observed, Told
  <2>3. muts[m].opening \in {"open", "replaced", "turned", "closed", "gone"}
    BY <1>1, RowOf DEF ScreensInv, ScreensTypeOK, Mutations
  <2> QED
    BY <1>1, <2>1, <2>2, <2>3 DEF ScreensInv, Observed
<1> QED
  BY <1>1, ScreensAlways, PTL DEF Spec, FailureIsTold

(* When the app goes on after a mutation, the screen it was sent from shows    *)
(* nothing older than the answer: every hook of the app waits for what it      *)
(* invalidated (await Promise.all of the invalidations).                       *)
THEOREM ScreenGoesOnUpToDate == Spec => GoesOnUpToDate
<1>1. ASSUME ScreensInv, [Next]_vars
      PROVE  [\A m \in DOMAIN muts :
                 /\ ui.app = "mobile" /\ ui.invalidates /\ (ui.always \/ muts'[m].phase = "done")
                 /\ Ends(m)
                 /\ cur = m /\ ui.place = "screen" /\ cache.data # None /\ ~cache.error /\ ~late
                 => cache.data >= muts[m].made]_vars
  <2> SUFFICES ASSUME NEW m \in DOMAIN muts, ui.app = "mobile", ui.invalidates,
                      ui.always \/ muts'[m].phase = "done", Ends(m), cur = m,
                      ui.place = "screen", cache.data # None, ~cache.error, ~late
               PROVE  cache.data >= muts[m].made
    OBVIOUS
  <2>1. ASSUME NEW well \in BOOLEAN, ~(ui.awaits /\ (well \/ ui.always)), Finish(m, well)
        PROVE  FALSE
    <3>1. muts'[m].phase = "failed" /\ ~ui.always
      BY <1>1, <2>1, FinishRows DEF ScreensInv, UiOK
    <3> QED
      BY <3>1
  <2>2. Resume(m)
    BY <1>1, <2>1, EndsOnly DEF ScreensInv
  <2> QED
    BY <1>1, <2>2 DEF Resume, ScreensInv, Shown
<1> QED
  BY <1>1, ScreensAlways, PTL DEF Spec, GoesOnUpToDate

=============================================================================
