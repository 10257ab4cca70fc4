----------------------------- MODULE PanelSession -----------------------------
(* The session of the web panel: the tabs of one browser share the cookies of  *)
(* the backend, each with a single refresh in flight (packages/api client.ts)  *)
(* and its own cached session.  apps/web: lib/api.ts, proxy.ts, features/auth  *)
(* and features/shell.  A cookie travels with the request when it is sent and  *)
(* is stored when the answer arrives.                                          *)
EXTENDS AuthServer

CONSTANTS
    Tabs,
    Calls,        \* requests in flight, of any tab
    Home,         \* the club a login opens the panel on
    MaxLate       \* bound: requests nobody waits for and not yet served

ASSUME PanelAssumption == Home \in Clubs /\ MaxLate \in Nat

VARIABLES
    jar,          \* cookies: access token, refresh token, hint of a session
    page,         \* what each tab shows: the login or the panel
    shown,        \* the club of the session each tab has in its cache
    rf,           \* the refresh in flight of each tab
    req,          \* requests
    late,         \* requests nobody waits for that the backend may still serve
    why           \* history: the answer to a request that changes the session was
                  \* lost (cut, and then nothing else is kept), a new password
                  \* closed the sessions, of this browser (closed) or of another
                  \* device (elsewhere), a renewal overlapped a switch of club
                  \* (crossed), a token was used twice (reuse)

vars == <<rows, version, jar, page, shown, rf, req, late, why>>

Sids  == 1..MaxRows
Kinds == {"login", "session", "call", "switch", "logout", "password"}
NoJar == [sid |-> None, club |-> None, refresh |-> None, hint |-> FALSE]
NoReq == [tab |-> None, kind |-> "call", phase |-> "idle", sid |-> None, club |-> None]
NoRefresh == [phase |-> "idle", tok |-> None]

PanelTypeOK ==
    /\ ServerTypeOK
    /\ jar \in [sid : Sids \cup {None}, club : Clubs \cup {None}, refresh : Sids \cup {None},
                hint : BOOLEAN]
    /\ page \in [Tabs -> {"login", "panel"}]
    /\ shown \in [Tabs -> Clubs \cup {None}]
    /\ rf \in [Tabs -> [phase : {"idle", "sent", "answered", "refused"}, tok : Sids \cup {None}]]
    /\ req \in [Calls -> [tab : Tabs \cup {None}, kind : Kinds,
                          phase : {"idle", "sent", "waiting", "resent", "answered"},
                          sid : Sids \cup {None}, club : Clubs \cup {None}]]
    /\ late \in SUBSET [kind : Kinds \cup {"refresh"}, sid : Sids \cup {None},
                       club : Clubs \cup {None}]
    /\ why \in SUBSET {"cut", "closed", "elsewhere", "crossed", "reuse"}

Init ==
    /\ ServerInit
    /\ jar = NoJar
    /\ page = [t \in Tabs |-> "login"] /\ shown = [t \in Tabs |-> None]
    /\ rf = [t \in Tabs |-> NoRefresh] /\ req = [q \in Calls |-> NoReq]
    /\ late = {} /\ why = {}

(* ----------------------------- navigation ---------------------------------- *)

Of(t) == {q \in Calls : req[q].tab = t}
Without(Q) == [q \in Calls |-> IF q \in Q THEN NoReq ELSE req[q]]

Pending(q) == req[q].phase \in {"sent", "resent"}
Renewing   == {t \in Tabs : rf[t].phase \in {"sent", "answered"}}

(* Requests of Q that change the session and whose answer has not arrived.     *)
Unheard(Q) == {q \in Q : /\ req[q].kind \notin {"session", "call"}
                         /\ Pending(q) \/ req[q].phase = "answered"}

(* The first answer lost takes the place of the history: no property speaks of *)
(* what comes after it.                                                        *)
Mark(m) == IF "cut" \in why THEN why ELSE why \cup m

(* Nobody waits any more for the requests Q and the renewals of the tabs T:    *)
(* those on their way that the backend would accept may still be served.       *)
Drop(Q, T) ==
    /\ late' = late
          \cup {[kind |-> req[q].kind, sid |-> req[q].sid, club |-> req[q].club] :
                    q \in {p \in Unheard(Q) : Pending(p) /\ (req[p].kind = "login" \/ AccessOk(req[p].sid))}}
          \cup {[kind |-> "refresh", sid |-> rf[t].tok, club |-> None] :
                    t \in {u \in T : rf[u].phase = "sent" /\ rf[u].tok # None}}
    /\ Cardinality(late') <= MaxLate
    /\ why' = IF Unheard(Q) # {} \/ T \cap Renewing # {} THEN {"cut"} ELSE why

(* Mutant of Goto: the tab navigates without a full load and keeps its cache.  *)
Push(t, p) ==
    /\ page' = [page EXCEPT ![t] = p]
    /\ rf' = [rf EXCEPT ![t] = NoRefresh]
    /\ req' = Without(Of(t))
    /\ UNCHANGED shown

(* A full load of tab t: nothing of the client survives it.                    *)
Goto(t, p) ==
    /\ page' = [page EXCEPT ![t] = p]
    /\ shown' = [shown EXCEPT ![t] = None]
    /\ rf' = [rf EXCEPT ![t] = NoRefresh]
    /\ req' = Without(Of(t))

(* The proxy lets the panel load if there is a hint of a session.              *)
Load(t) ==
    /\ Goto(t, IF jar.hint THEN "panel" ELSE "login")
    /\ Drop(Of(t), {t})
    /\ UNCHANGED <<server, jar>>

(* ------------------------------ requests ----------------------------------- *)

Switching == {q \in Calls : req[q].kind = "switch"}

(* A request leaves with the access cookie of the moment.  The club is the one *)
(* the backend will answer with: the default one for a login, the one asked    *)
(* for by a switch, the one of the cookie for the session.                     *)
Sent(q, t, kind, club) ==
    [tab |-> t, kind |-> kind, phase |-> "sent", sid |-> IF kind = "login" THEN None ELSE jar.sid,
     club |-> club]

(* The controls of the switch and of the change of password are disabled while *)
(* theirs is pending; the button of the logout never is.                       *)
Send(q, t, kind, club) ==
    /\ req[q] = NoReq
    /\ \/ kind = "login" /\ page[t] = "login" /\ Of(t) = {} /\ club = Home
       \/ kind = "session" /\ page[t] = "panel" /\ club = jar.club
          /\ \A p \in Of(t) : req[p].kind # "session"
       \/ kind \in {"call", "logout"} /\ page[t] = "panel" /\ shown[t] # None /\ club = None
       \/ kind \in {"switch", "password"} /\ page[t] = "panel" /\ shown[t] # None
          /\ \A p \in Of(t) : req[p].kind # kind
          /\ (club = None) = (kind = "password")
    /\ req' = [req EXCEPT ![q] = Sent(q, t, kind, club)]
    /\ why' = IF kind = "switch" /\ Renewing # {} THEN Mark({"crossed"}) ELSE why
    /\ UNCHANGED <<server, jar, page, shown, rf, late>>

(* Mutant of SwitchedRows: the club goes into the access token only.           *)
UnswitchedRows(s, c) == rows

SwitchedRows(s, c) == [rows EXCEPT ![s].club = c]

(* What an accepted request of the session of row s does.                      *)
Does(kind, s, c) ==
    \/ kind = "switch" /\ rows' = SwitchedRows(s, c) /\ UNCHANGED version
    \/ kind = "logout" /\ rows' = Revoked(Family(s)) /\ UNCHANGED version
    \/ kind = "password" /\ RevokeAll(rows[s].user)
    \/ kind \in {"session", "call"} /\ UNCHANGED server

Closing(kind) == IF kind = "password" THEN {"closed"} ELSE {}

Serve(q) ==
    /\ Pending(q)
    /\ LET r == req[q] IN
       /\ \/ /\ r.kind = "login" /\ CanIssue
             /\ \E u \in Users : rows' = StartSession(u, r.club)
             /\ UNCHANGED version
             /\ req' = [req EXCEPT ![q].phase = "answered", ![q].sid = Len(rows) + 1]
          \/ /\ r.kind # "login" /\ AccessOk(r.sid)
             /\ Does(r.kind, r.sid, r.club)
             /\ req' = [req EXCEPT ![q].phase = "answered"]
       /\ why' = Mark(Closing(r.kind))
    /\ UNCHANGED <<jar, page, shown, rf, late>>

(* The backend refuses it for a reason of its own: a wrong password, the rate  *)
(* limit, a club the user has no access to.                                    *)
Reject(q) ==
    /\ Pending(q) /\ req[q].kind # "logout"
    /\ req' = Without({q})
    /\ UNCHANGED <<server, jar, page, shown, rf, late, why>>

(* The answer arrives: its cookies are stored and onSuccess runs.  queryClient *)
(* .clear and setQueryData leave only the session of the new club.  A change   *)
(* of password goes to the login and leaves the cookies as they are.           *)
Deliver(q) ==
    /\ req[q].phase = "answered"
    /\ LET r == req[q] IN
       \/ /\ r.kind = "login"
          /\ jar' = [sid |-> r.sid, club |-> r.club, refresh |-> r.sid, hint |-> TRUE]
          /\ page' = [page EXCEPT ![r.tab] = "panel"]
          /\ shown' = [shown EXCEPT ![r.tab] = r.club]
          /\ req' = Without({q}) /\ UNCHANGED <<rf, late, why>>
       \/ /\ r.kind = "session"
          /\ shown' = [shown EXCEPT ![r.tab] = r.club]
          /\ req' = Without({q}) /\ UNCHANGED <<jar, page, rf, late, why>>
       \/ /\ r.kind = "call"
          /\ req' = Without({q}) /\ UNCHANGED <<jar, page, shown, rf, late, why>>
       \/ /\ r.kind = "switch"
          /\ jar' = [jar EXCEPT !.sid = r.sid, !.club = r.club]
          /\ shown' = [shown EXCEPT ![r.tab] = r.club]
          /\ req' = Without({q} \cup {p \in Of(r.tab) : req[p].kind = "session"})
          /\ UNCHANGED <<page, rf, late, why>>
       \/ /\ r.kind \in {"logout", "password"}
          /\ jar' = IF r.kind = "logout" THEN NoJar ELSE jar
          /\ Goto(r.tab, "login") /\ Drop(Of(r.tab) \ {q}, {r.tab})
    /\ UNCHANGED server

(* Timeout or network error.  The logout goes to the login page all the same.  *)
Fail(q) ==
    /\ Pending(q) \/ req[q].phase = "answered"
    /\ IF req[q].kind = "logout"
       THEN Goto(req[q].tab, "login") /\ Drop(Of(req[q].tab), {req[q].tab})
       ELSE req' = Without({q}) /\ UNCHANGED <<page, shown, rf>> /\ Drop({q}, {})
    /\ UNCHANGED <<server, jar>>

(* ------------------------------- refresh ----------------------------------- *)

(* Mutant of StartsRefresh: every 401 starts a refresh of its own.             *)
StartsItsOwn(q) == req[q].phase = "sent"

StartsRefresh(q) == req[q].phase = "sent" /\ rf[req[q].tab] = NoRefresh

(* 401: the first request starts the renewal and the others wait for it; a 401 *)
(* to the retry is the answer, which the logout takes like any other.          *)
Unauthorized(q) ==
    /\ req[q].kind # "login" /\ Pending(q) /\ ~AccessOk(req[q].sid)
    /\ LET t == req[q].tab
           starts == StartsRefresh(q) IN
       \/ /\ req[q].phase = "sent"
          /\ req' = [req EXCEPT ![q].phase = "waiting", ![q].sid = None]
          /\ rf' = IF starts THEN [rf EXCEPT ![t] = [phase |-> "sent", tok |-> jar.refresh]] ELSE rf
          /\ why' = IF starts /\ Switching \ {q} # {} THEN Mark({"crossed"}) ELSE why
          /\ UNCHANGED <<page, shown, late>>
       \/ /\ req[q].phase = "resent" /\ req[q].kind = "logout"
          /\ Goto(t, "login") /\ Drop(Of(t) \ {q}, {t})
       \/ /\ req[q].phase = "resent" /\ req[q].kind # "logout"
          /\ req' = Without({q})
          /\ UNCHANGED <<page, shown, rf, late, why>>
    /\ UNCHANGED <<server, jar>>

(* web_refresh rotates the row of the cookie; the new one keeps its club.      *)
ServeRefresh(t) ==
    /\ rf[t].phase = "sent"
    /\ LET s == rf[t].tok IN
       \/ s = None /\ UNCHANGED <<rows, why>>
          /\ rf' = [rf EXCEPT ![t].phase = "refused"]
       \/ /\ s # None /\ Renewable(s) /\ CanIssue
          /\ rows' = Rotate(s, rows[s].club, {})
          /\ rf' = [rf EXCEPT ![t] = [phase |-> "answered", tok |-> Len(rows) + 1]]
          /\ UNCHANGED why
       \/ /\ s # None /\ ~Renewable(s)
          /\ rows' = CutFamily(s)
          /\ rf' = [rf EXCEPT ![t].phase = "refused"]
          /\ why' = IF rows[s].rotated THEN Mark({"reuse"}) ELSE why
    /\ UNCHANGED <<version, jar, page, shown, req, late>>

(* The rotation and the revocation of every session of the account overlap: a  *)
(* change of password of this browser or of another device.                    *)
ServeRefreshWhileRevoking(t) ==
    /\ rf[t].phase = "sent" /\ rf[t].tok # None /\ Renewable(rf[t].tok) /\ CanIssue
    /\ LET s == rf[t].tok
           u == rows[s].user IN
       /\ version[u] < MaxVersion
       /\ version' = [version EXCEPT ![u] = @ + 1]
       /\ rows' = Rotate(s, rows[s].club, RowsOf(u))
       /\ \/ UNCHANGED req /\ why' = Mark({"elsewhere"})
          \/ \E q \in Calls : /\ Pending(q) /\ req[q].kind = "password" /\ AccessOk(req[q].sid)
                              /\ rows[req[q].sid].user = u
                              /\ req' = [req EXCEPT ![q].phase = "answered"]
                              /\ why' = Mark({"closed"})
    /\ rf' = [rf EXCEPT ![t] = [phase |-> "answered", tok |-> Len(rows) + 1]]
    /\ UNCHANGED <<jar, page, shown, late>>

Waiting(t) == {q \in Of(t) : req[q].phase = "waiting"}

(* The renewed cookies are stored and the requests of the tab are sent again.  *)
Renewed(t) ==
    /\ rf[t].phase = "answered"
    /\ LET s == rf[t].tok IN
       /\ jar' = [sid |-> s, club |-> rows[s].club, refresh |-> s, hint |-> TRUE]
       /\ req' = [q \in Calls |-> IF q \in Waiting(t)
                    THEN [req[q] EXCEPT !.phase = "resent", !.sid = s,
                                        !.club = IF req[q].kind = "session" THEN rows[s].club ELSE @]
                    ELSE req[q]]
    /\ rf' = [rf EXCEPT ![t] = NoRefresh]
    /\ UNCHANGED <<server, page, shown, late, why>>

onSessionExpired == [jar EXCEPT !.hint = FALSE]

(* Any answer but a 2xx, of the backend or of the rate limit, ends the session *)
(* of the panel: the hint is dropped and the tab goes to the login.            *)
Refused(t) ==
    /\ rf[t].phase = "refused"
    /\ jar' = onSessionExpired
    /\ Goto(t, "login") /\ Drop(Of(t), {t})
    /\ UNCHANGED server

LimitRefresh(t) ==
    /\ rf[t].phase = "sent"
    /\ rf' = [rf EXCEPT ![t].phase = "refused"]
    /\ UNCHANGED <<server, jar, page, shown, req, late, why>>

(* The connection breaks: refreshSession rejects, and so do the requests.      *)
FailRefresh(t) ==
    /\ rf[t].phase \in {"sent", "answered", "refused"}
    /\ IF \E q \in Waiting(t) : req[q].kind = "logout"
       THEN Goto(t, "login") /\ Drop(Of(t), {t})
       ELSE /\ rf' = [rf EXCEPT ![t] = NoRefresh]
            /\ req' = Without(Waiting(t))
            /\ Drop(Waiting(t), {t})
            /\ UNCHANGED <<page, shown>>
    /\ UNCHANGED <<server, jar>>

(* ------------------------------ environment -------------------------------- *)

(* A request that nobody waits for any more reaches the backend.               *)
ServeLate(r) ==
    /\ late' = late \ {r}
    /\ \/ /\ r.kind = "login" /\ CanIssue
          /\ \E u \in Users : rows' = StartSession(u, r.club)
          /\ UNCHANGED <<version, why>>
       \/ /\ r.kind = "refresh"
          /\ \/ Renewable(r.sid) /\ CanIssue /\ rows' = Rotate(r.sid, rows[r.sid].club, {}) /\ UNCHANGED why
             \/ /\ ~Renewable(r.sid) /\ rows' = CutFamily(r.sid)
                /\ why' = IF rows[r.sid].rotated THEN Mark({"reuse"}) ELSE why
          /\ UNCHANGED version
       \/ /\ r.kind \in {"switch", "logout", "password"} /\ AccessOk(r.sid)
          /\ Does(r.kind, r.sid, r.club)
          /\ why' = Mark(Closing(r.kind))
    /\ UNCHANGED <<jar, page, shown, rf, req>>

(* Elsewhere: another device changes the password, access tokens grow old.     *)
Elsewhere ==
    /\ \/ \E u \in Users : RevokeAll(u) /\ why' = Mark({"elsewhere"})
       \/ \E s \in DOMAIN rows : AccessOk(s) /\ Expire(s) /\ UNCHANGED why
    /\ UNCHANGED <<jar, page, shown, rf, req, late>>

Next ==
    \/ Elsewhere
    \/ \E t \in Tabs : \/ Load(t) \/ ServeRefresh(t) \/ ServeRefreshWhileRevoking(t)
                       \/ Renewed(t) \/ Refused(t) \/ LimitRefresh(t) \/ FailRefresh(t)
                       \/ \E q \in Calls, kind \in Kinds, c \in Clubs \cup {None} : Send(q, t, kind, c)
    \/ \E q \in Calls : Serve(q) \/ Reject(q) \/ Deliver(q) \/ Fail(q) \/ Unauthorized(q)
    \/ \E r \in late : ServeLate(r)

Spec == Init /\ [][Next]_vars

(* ------------------------------ properties --------------------------------- *)

Quiet == (\A q \in Calls : req[q] = NoReq) /\ (\A t \in Tabs : rf[t] = NoRefresh)

(* A tab alone never presents a refresh cookie twice, whatever its requests,   *)
(* unless the answer to a request that changes the session was lost.           *)
ReuseOnlyAfterCut == "reuse" \in why => "cut" \in why

(* At rest the hint that lets a browser into the panel is backed by cookies    *)
(* that can be renewed.  The only session it outlives is one that a change of  *)
(* password of this browser closed, and then no tab shows anything of it.      *)
(* Left out: an answer lost, and what another device closes, of which the      *)
(* browser learns with its next request.                                       *)
HintIsTrue ==
    Quiet /\ why \cap {"cut", "elsewhere"} = {} /\ jar.hint =>
        /\ jar.refresh # None
        /\ ~Renewable(jar.refresh) => "closed" \in why /\ \A t \in Tabs : shown[t] = None

(* At rest a tab shows the club its requests act on, and the next renewal      *)
(* keeps it, unless a switch of club overlapped a renewal or the answer to a   *)
(* request that changes the session was lost.                                  *)
ShowsItsClub ==
    Quiet /\ why \cap {"cut", "crossed"} = {} =>
        \A t \in Tabs : page[t] = "panel" /\ shown[t] # None =>
            jar.club = shown[t] /\ rows[jar.refresh].club = shown[t]
=============================================================================
