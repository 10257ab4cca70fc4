------------------------------ MODULE MobileData ------------------------------
(* What each screen of the player's app reads and writes: the hooks of         *)
(* features/*/hooks.ts of apps/mobile and the components that use them.        *)
EXTENDS ScreenParts

(* --------------------------- features/*/hooks.ts --------------------------- *)

useSession              == Query("auth", "useSession")
useMyMemberships        == Query("clubs", "useMyMemberships")
useClubsDirectory       == Query("clubs", "useClubsDirectory")
useAvailability         == Query("availability", "useAvailability")
useMyReservations       == Query("reservations", "useMyReservations")
useUpcomingReservations == Query("reservations", "useUpcomingReservations")
useReservation          == Query("reservations", "useReservation")
useProfile              == Query("profile", "useProfile")
useMyNews               == Query("news", "useMyNews")

(* Well or not, the slot was taken by this user or by somebody else.           *)
useCreateReservation ==
    Always(Awaiting({"availability", "reservations"}, {"availability", "reservations"}))
useCancelReservation ==
    Always(Setting(Awaiting({"availability", "reservations"}, {"availability", "reservations"}),
                   {useReservation}))

(* Mutant of useMembershipMutation: it does not wait for the screens.          *)
useMembershipUnawaited == Silent({"clubs", "auth"}, {"clubs", "auth"})

useMembershipMutation == Awaiting({"clubs", "auth"}, {"clubs", "auth"})
useRequestMembership  == useMembershipMutation
useDeclineInvitation  == useMembershipMutation

(* The news of the home are the ones of the clubs of the member.               *)
useAcceptInvitation   == Leaving(useMembershipMutation, {"news"})

useUpdateProfile == Setting(Awaiting({"profile", "auth"}, {"auth"}), {useProfile})

(* ------------------------- features/*/components --------------------------- *)

BookingSummary  == Calling(Page({useCreateReservation}))
CancelButton    ==
    Drawn(Inside(Calling(Page({useCancelReservation})), useReservation), useReservation)
RequestButton   == Calling(Page({useRequestMembership}))
InvitationCard  ==
    Drawn(Calling(Page({useAcceptInvitation, useDeclineInvitation})), useMyMemberships)
EditProfileForm == Inside([Page({useUpdateProfile}) EXCEPT !.errors = "form"], useProfile)

(* -------------------------- app/(app): the screens ------------------------- *)

BookingView       == Tab({useMyMemberships, useAvailability}, {BookingSummary})
ReservationsView  == Tab({useMyReservations}, {})
ReservationDetail == Screen({useReservation}, {CancelButton})
ClubDirectory     == Tab({useClubsDirectory, useSession}, {RequestButton})
HomeView ==
    Tab({useSession, useMyMemberships, useUpcomingReservations, useMyNews}, {InvitationCard})
ProfileView       == Tab({useProfile, useMyMemberships}, {InvitationCard})
EditProfile       == Screen({useProfile}, {EditProfileForm})

Screens == {BookingView, ReservationsView, ReservationDetail, ClubDirectory, HomeView,
            ProfileView, EditProfile}
Queries == UNION {s.queries : s \in Screens}

(* A tab stays mounted: its queries never leave the view.  The others' do, and *)
(* one that hands its signal to the request has it aborted.                    *)
Tabbed   == UNION {s.queries : s \in {t \in Screens : t.tab}}
Aborting == {useReservation}
=============================================================================
