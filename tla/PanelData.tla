------------------------------- MODULE PanelData -------------------------------
(* What each screen of the web panel reads and writes: the queries and the     *)
(* mutations of features/*/api.ts, and the dialogs, confirmations and buttons  *)
(* of the components that use them.                                            *)
EXTENDS ScreenParts

(* ---------------------------- features/*/api.ts ---------------------------- *)

useCashDay                   == Query("cash", "useCashDay")
useFees                      == Query("fees", "useFees")
useFeesSummary               == Query("fees", "useFeesSummary")
useCourts                    == Query("courts", "useCourts")
useCourtUpcomingReservations == Query("courts", "useCourtUpcomingReservations")
useReservationGrid           == Query("reservations", "useReservationGrid")
usePendingCount              == Query("reservations", "usePendingCount")
useReservationHistory        == Query("reservations", "useReservationHistory")
useReservation               == Query("reservations", "useReservation")
useMembers                   == Query("members", "useMembers")
useMemberStats               == Query("members", "useMemberStats")
useMemberSearch              == Query("members", "useMemberSearch")
useMemberInvitations         == Query("members", "useMemberInvitations")
useMembershipRequests        == Query("members", "useMembershipRequests")
usePlans                     == Query("members", "usePlans")
useStockItems                == Query("stock", "useStockItems")
useStockStats                == Query("stock", "useStockStats")
useStockCategories           == Query("stock", "useStockCategories")
useStockMovements            == Query("stock", "useStockMovements")
useExpenses                  == Query("expenses", "useExpenses")
useExpenseStats              == Query("expenses", "useExpenseStats")
useExpense                   == Query("expenses", "useExpense")
useNews                      == Query("news", "useNews")
useClubSettings              == Query("club", "useClubSettings")
useStaff                     == Query("staff", "useStaff")
useProfile                   == Query("me", "useProfile")
useSession                   == Query("session", "useSession")
useDashboardFinance          == Query("dashboard", "useDashboardFinance")
useDashboardOperations       == Query("dashboard", "useDashboardOperations")

(* Mutant of invalidateLedger: the fees are forgotten.                         *)
ledgerWithoutFees == {"cash", "dashboard"}

(* What a mutation changes is what its endpoint does to the answers of the     *)
(* queries.  Whatever moves money is seen in the cash, in the fees and in the  *)
(* dashboard; a charge of a reservation that is voided, in the reservation.    *)
Money            == {"cash", "fees", "dashboard"}
invalidateLedger == {"cash", "fees", "dashboard"}
useCreatePayment == Silent(Money, invalidateLedger)
useVoidPayment   == Leaving(Silent(Money, invalidateLedger), {"reservations"})

invalidateFees   == {"fees", "dashboard"}
useGenerateFees  == Silent({"fees", "dashboard"}, invalidateFees)
usePayFee        == Silent(Money, invalidateLedger)

(* Mutant of useCancelFee: silent, in a confirmation that shows no errors.     *)
useCancelFeeSilently == Silent({"fees", "dashboard"}, invalidateFees)

useCancelFee == Toasted({"fees", "dashboard"}, invalidateFees)

(* The grid of reservations has a column per active court; the dashboard       *)
(* counts them, the cash names them.  Deactivating one cancels reservations,   *)
(* one begun may have been the last of its member.                             *)
Courts              == {"courts", "reservations"}
useInvalidateCourts == {"courts", "reservations"}
useCreateCourt      == Leaving(Silent(Courts, useInvalidateCourts), {"dashboard"})
useUpdateCourt      == Leaving(Silent(Courts, useInvalidateCourts), {"dashboard", "cash"})
useSetCourtActive   == Leaving(Silent(Courts, useInvalidateCourts), {"dashboard"})
useDeactivateCourt  ==
    Leaving(Always(Toasted(Courts, useInvalidateCourts)), {"dashboard", "members"})
useDeleteCourt      == Leaving(Toasted(Courts, useInvalidateCourts), {"dashboard"})

useOnReservationChange(hook) == [Setting(hook, {useReservation}) EXCEPT !.invalidates = {"reservations"}]
(* The dashboard shows the reservations of the day; a court counts its         *)
(* upcoming ones, a member has the last one, the cash the time of one charged. *)
useCreateReservation  ==
    Leaving(useOnReservationChange(Silent({"reservations"}, {})), {"dashboard", "courts", "members"})
useUpdateReservation  ==
    Leaving(useOnReservationChange(Silent({"reservations"}, {})),
            {"dashboard", "courts", "members", "cash"})
useConfirmReservation == Leaving(useOnReservationChange(Toasted({"reservations"}, {})), {"dashboard"})
useCancelReservation  ==
    Leaving(useOnReservationChange(Toasted({"reservations"}, {})), {"dashboard", "courts", "members"})

(* Fees, charges and reservations show the number of the member; the dashboard *)
(* counts the requests (one is approved also by inviting its person) and the   *)
(* fees, which go with the invitation they were generated for.                 *)
Numbered             == {"fees", "cash", "reservations"}
useInvalidateMembers == {"members"}
useCreateMember      ==
    Leaving(Silent({"members"}, useInvalidateMembers), Numbered \cup {"dashboard"})
useUpdateMember(silent) ==
    Leaving([Toasted({"members"}, useInvalidateMembers) EXCEPT !.silent = silent], Numbered)
useCancelInvitation  == Leaving(Toasted({"members"}, useInvalidateMembers), {"fees", "dashboard"})
useApproveRequest    ==
    Leaving(Silent({"members"}, useInvalidateMembers), Numbered \cup {"dashboard"})
useRejectRequest     == Leaving(Toasted({"members"}, useInvalidateMembers), {"dashboard"})
useCreatePlan        == Silent({"members"}, useInvalidateMembers)
useUpdatePlan(silent) ==
    [Toasted({"members"}, useInvalidateMembers) EXCEPT !.silent = silent]
useDeletePlan        == Toasted({"members"}, useInvalidateMembers)

(* The dashboard lists what is low, and sums the expenses.                     *)
useInvalidateStock == {"stock"}
useCreateStockItem == Leaving(Silent({"stock"}, useInvalidateStock), {"dashboard"})
useUpdateStockItem == Leaving(Silent({"stock"}, useInvalidateStock), {"dashboard"})
useDeleteStockItem == Leaving(Toasted({"stock"}, useInvalidateStock), {"dashboard"})
useCreateMovement  == Leaving(Silent({"stock"}, useInvalidateStock), {"dashboard"})

useInvalidateExpenses == {"expenses"}
useCreateExpense      == Leaving(Silent({"expenses"}, useInvalidateExpenses), {"dashboard"})
useUpdateExpense      == Leaving(Silent({"expenses"}, useInvalidateExpenses), {"dashboard"})
useDeleteExpense      == Leaving(Toasted({"expenses"}, useInvalidateExpenses), {"dashboard"})
useReviewExpense      == Setting(Toasted({"expenses"}, useInvalidateExpenses), {useExpense})
useRecomputeAnomalies == Toasted({"expenses"}, useInvalidateExpenses)

useCreateNews == Silent({"news"}, {"news"})
useUpdateNews == Silent({"news"}, {"news"})
useDeleteNews == Toasted({"news"}, {"news"})

(* The hours of the club bound the grid and the occupancy; the name of the     *)
(* user is shown wherever something of theirs is.                              *)
useUpdateClub    ==
    Leaving(Setting(Toasted({"club", "session"}, {"session"}), {useClubSettings}),
            {"reservations", "dashboard"})
useInviteStaff   == Setting(Toasted({"staff"}, {}), {useStaff})
useRevokeStaff   == Toasted({"staff"}, {"staff"})
useUpdateProfile ==
    Leaving(Setting(Toasted({"me", "session"}, {"session"}), {useProfile}),
            {"staff", "cash", "stock", "news", "members", "fees", "reservations", "dashboard"})

(* ------------------------- features/*/components --------------------------- *)

CashMovementDialog == Form({useCreatePayment})
VoidDialog         == Losing(Inside(Form({useVoidPayment}), useCashDay))

PayDialog      == Drawn(Inside(Form({usePayFee}), useFees), useFees)
FeesList       == Drawn(Inside(ConfirmDialog({useCancelFee}), useFees), useFees)
GenerateDialog == [Form({useGenerateFees}) EXCEPT !.closes = "result"]

CourtFormDialog       == Form({useCreateCourt, useUpdateCourt})
DeactivateCourtDialog ==
    OfRow([ConfirmDialog({useDeactivateCourt}) EXCEPT !.shows = {useCourtUpcomingReservations}],
          useCourts)
CourtsTable ==
    Inside([Calling(Page({useSetCourtActive})) EXCEPT !.locks = "row"], useCourts)
DeleteCourt == OfRow([ConfirmDialog({useDeleteCourt}) EXCEPT !.closes = "settled"], useCourts)

CreateReservationForm == Mounted(Form({useCreateReservation}))

(* The detail stays open whatever its parts do.  Reprogramar and Volver swap   *)
(* the form for the notes and the actions, and back, and unmount the other.    *)
DetailBody(form)   ==
    [Inside(Mounted(form), useReservation) EXCEPT !.closes = "no", !.tabs = TRUE,
                                                  !.shows = {useReservation}]
RescheduleForm     == DetailBody(Form({useUpdateReservation}))
NotesForm          == DetailBody(Form({useUpdateReservation}))
ConfirmReservation == DetailBody(ConfirmDialog({useConfirmReservation}))
CancelReservation  == DetailBody(ConfirmDialog({useCancelReservation}))

MemberCreateDialog   == Form({useCreateMember})
MemberEditDialog     == OfRow(Form({useUpdateMember(TRUE)}), useMembers)
MembersTab           == OfRow(ConfirmDialog({useUpdateMember(FALSE)}), useMembers)
ApproveRequestDialog ==
    Drawn(Inside(Form({useApproveRequest}), useMembershipRequests), useMembershipRequests)
RequestsTab          ==
    Drawn(Inside(ConfirmDialog({useRejectRequest}), useMembershipRequests), useMembershipRequests)
InvitationsTab       ==
    Drawn(Inside(ConfirmDialog({useCancelInvitation}), useMemberInvitations), useMemberInvitations)
PlanFormDialog       == Form({useCreatePlan, useUpdatePlan(TRUE)})
PlansTab             == OfRow(ConfirmDialog({useUpdatePlan(FALSE), useDeletePlan}), usePlans)

StockItemDialog == Form({useCreateStockItem, useUpdateStockItem})
MovementDialog  == OfRow([Form({useCreateMovement}) EXCEPT !.tabs = TRUE], useStockItems)
DeleteStockItem == OfRow(ConfirmDialog({useDeleteStockItem}), useStockItems)

ExpenseFormDialog == Form({useCreateExpense, useUpdateExpense})
DeleteExpense     == OfRow(ConfirmDialog({useDeleteExpense}), useExpenses)
AnomalyDialog     ==
    OfRow([Mounted(ConfirmDialog({useReviewExpense})) EXCEPT !.closes = "no", !.shows = {useExpense}],
          useExpenses)
RecomputeButton   == Page({useRecomputeAnomalies})

NewsDialog == Form({useCreateNews, useUpdateNews})
DeleteNews == OfRow(ConfirmDialog({useDeleteNews}), useNews)

InviteDialog   == ConfirmDialog({useInviteStaff})
TeamSection    == OfRow(ConfirmDialog({useRevokeStaff}), useStaff)
ClubForm       == Inside(Page({useUpdateClub}), useClubSettings)
ProfileSection == OfRow(Page({useUpdateProfile}), useProfile)

(* ------------------------------- screens ----------------------------------- *)

(* The shell of the panel shows the session on every screen.                   *)
PanelScreen(queries, writers) == Screen(queries \cup {useSession}, writers)

CashView == PanelScreen({useCashDay}, {CashMovementDialog, VoidDialog})
FeesView == PanelScreen({useFees, useFeesSummary}, {PayDialog, FeesList, GenerateDialog})
CourtsView ==
    PanelScreen({useCourts}, {CourtFormDialog, CourtsTable, DeactivateCourtDialog, DeleteCourt})
ReservationsView ==
    PanelScreen({useReservationGrid, usePendingCount, useReservationHistory},
           {CreateReservationForm, RescheduleForm, NotesForm, ConfirmReservation, CancelReservation})
MembersView ==
    PanelScreen({useMembers, useMemberStats, useMembershipRequests, useMemberInvitations, usePlans},
           {MemberCreateDialog, MemberEditDialog, MembersTab, ApproveRequestDialog, RequestsTab,
            InvitationsTab, PlanFormDialog, PlansTab})
StockView ==
    PanelScreen({useStockItems, useStockStats, useStockCategories},
           {StockItemDialog, MovementDialog, DeleteStockItem})
ExpensesView ==
    PanelScreen({useExpenses, useExpenseStats},
           {ExpenseFormDialog, DeleteExpense, AnomalyDialog, RecomputeButton})
NewsView     == PanelScreen({useNews}, {NewsDialog, DeleteNews})
SettingsView ==
    PanelScreen({useClubSettings, useStaff, useProfile}, {InviteDialog, TeamSection, ClubForm, ProfileSection})
DashboardView == PanelScreen({useDashboardFinance, useDashboardOperations}, {})

Screens == {CashView, FeesView, CourtsView, ReservationsView, MembersView, StockView,
            ExpensesView, NewsView, SettingsView, DashboardView}
Dialogs == UNION {s.writers : s \in Screens}
Queries == (UNION ({s.queries : s \in Screens} \cup {d.shows : d \in Dialogs}))
           \cup {useMemberSearch, useStockMovements}
=============================================================================
