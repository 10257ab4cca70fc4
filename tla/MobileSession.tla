---------------------------- MODULE MobileSession ----------------------------
(* The session of the mobile application against the backend: the single       *)
(* refresh in flight of packages/api/src/client.ts, the tokens of              *)
(* shared/api/session.ts in memory and in the secure storage of the phone,     *)
(* login, logout and change of password.  JavaScript runs to the next await    *)
(* without interruption, so a step ends where the code awaits.                 *)
EXTENDS AuthServer

CONSTANTS
    Calls,       \* requests of the screens in flight at the same time
    Logins,      \* submissions of the login form
    MaxKills     \* bound: times the application is killed

ASSUME MobileAssumption == MaxKills \in Nat

VARIABLES
    status,      \* loading, signedIn, signedOut
    boot,        \* restore(): start, refreshing, ending, done
    mem,         \* copy of the access token in memory
    disk,        \* what the secure storage holds, by key
    pend,        \* writes issued to the storage and not yet done, by key
    ends,        \* who is waiting for the deletions of its session.end()
    rf,          \* the refresh in flight
    req,         \* requests
    login,       \* login attempts
    ghosts,      \* refreshes the application gave up on that may still arrive
    why,         \* history: the session was closed (by the user or the backend), the
                 \* rate limit answered a renewal (limited), the answer with new
                 \* tokens was lost (cut), the application was killed before it wrote
                 \* them (torn), a token already used was presented (reuse); after
                 \* a cut or a torn write nothing else is kept
    kills

vars == <<rows, version, status, boot, mem, disk, pend, ends, rf, req, login, ghosts, why, kills>>
storage == <<disk, pend>>
history == <<why, kills>>

Keys  == {"access", "refresh"}
Sids  == 1..MaxRows
Kinds == {"call", "logout", "password"}
Tasks == Calls \cup Logins \cup {"refresh", "restore"}

NoRefresh == [phase |-> "idle", tok |-> None]
Idle      == [phase |-> "idle", kind |-> "call", tok |-> None]
NoLogin   == [phase |-> "idle", tok |-> None]

MobileTypeOK ==
    /\ ServerTypeOK
    /\ status \in {"loading", "signedIn", "signedOut"}
    /\ boot \in {"start", "refreshing", "ending", "done"}
    /\ mem \in Sids \cup {None}
    /\ disk \in [Keys -> Sids \cup {None}]
    /\ pend \in [Keys -> Seq([val : Sids \cup {None}, by : SUBSET Tasks])]
    /\ ends \in SUBSET (Calls \cup {"restore"})
    /\ rf \in [phase : {"idle", "reading", "sent", "answered", "refused", "saving"},
               tok : Sids \cup {None}]
    /\ req \in [Calls -> [phase : {"idle", "sent", "waiting", "resent", "answered"},
                          kind : Kinds, tok : Sids \cup {None}]]
    /\ login \in [Logins -> [phase : {"idle", "sent", "answered", "saving"}, tok : Sids \cup {None}]]
    /\ ghosts \in SUBSET Sids
    /\ why \in SUBSET {"closed", "limited", "cut", "torn", "reuse"}
    /\ kills \in 0..MaxKills

Init ==
    /\ ServerInit
    /\ status = "loading" /\ boot = "start" /\ mem = None
    /\ disk = [k \in Keys |-> None] /\ pend = [k \in Keys |-> << >>]
    /\ ends = {} /\ rf = NoRefresh
    /\ req = [q \in Calls |-> Idle] /\ login = [l \in Logins |-> NoLogin]
    /\ ghosts = {} /\ why = {} /\ kills = 0

(* The first answer or write lost takes the place of the history: no property  *)
(* speaks of what comes after it.                                              *)
Lost == why \cap {"cut", "torn"} # {}
Mark(m) == IF Lost THEN why ELSE why \cup m
Lose(m) == IF Lost \/ m = {} THEN why ELSE m

(* ------------------------------ session.ts --------------------------------- *)

(* Mutant of Written: the writes are issued and not awaited.                   *)
NotAwaited(t) == TRUE

Written(t) == \A k \in Keys : \A i \in DOMAIN pend[k] : t \notin pend[k][i].by

(* Mutant of saveTokens: only the access token is replaced.                    *)
saveAccess(t, s) ==
    /\ mem' = s
    /\ pend' = [pend EXCEPT !["access"] = Append(@, [val |-> s, by |-> {t}])]

(* saveTokens: the copy in memory at once, and one write per key.              *)
saveTokens(t, s) ==
    /\ mem' = s
    /\ pend' = [k \in Keys |-> Append(pend[k], [val |-> s, by |-> {t}])]

(* end(), called by each of T in the same turn.                                *)
end(T) ==
    /\ mem' = None
    /\ pend' = [k \in Keys |-> Append(pend[k], [val |-> None, by |-> T])]
    /\ ends' = ends \cup T

(* One write reaches the storage; each key keeps the order of its writes.      *)
Store(k) ==
    /\ pend[k] # << >>
    /\ disk' = [disk EXCEPT ![k] = Head(pend[k]).val]
    /\ pend' = [pend EXCEPT ![k] = Tail(@)]
    /\ UNCHANGED <<server, status, boot, mem, ends, rf, req, login, ghosts, history>>

(* The deletions of an end() are done: the navigation goes to the login.       *)
Ended(t) ==
    /\ t \in ends /\ Written(t)
    /\ status' = "signedOut"
    /\ boot' = IF t = "restore" THEN "done" ELSE boot
    /\ ends' = ends \ {t}
    /\ UNCHANGED <<server, mem, storage, rf, req, login, ghosts, history>>

(* Mutant of Entering: an expired access token ends the session.               *)
EnteringUnexpired ==
    \/ end({"restore"}) /\ boot' = "ending" /\ UNCHANGED <<status, rf>>
    \/ /\ disk["access"] # None
       /\ mem' = disk["access"] /\ boot' = "done" /\ status' = "signedIn"
       /\ UNCHANGED <<rf, pend, ends>>

(* A session is stored.  Whether its access token counts as expired, and is    *)
(* renewed before entering, depends on the clock of the phone.                 *)
Entering ==
    /\ mem' = disk["access"]
    /\ UNCHANGED <<pend, ends>>
    /\ \/ /\ rf' = [NoRefresh EXCEPT !.phase = "reading"] /\ boot' = "refreshing"
          /\ UNCHANGED status
       \/ /\ disk["access"] # None
          /\ boot' = "done" /\ status' = "signedIn" /\ UNCHANGED rf

(* restore() at the start of the application.                                  *)
Restore ==
    /\ boot = "start"
    /\ IF disk["refresh"] = None
       THEN end({"restore"}) /\ boot' = "ending" /\ UNCHANGED <<status, rf>>
       ELSE Entering
    /\ UNCHANGED <<server, disk, req, login, ghosts, history>>

(* ------------------------------- client.ts --------------------------------- *)

Waiting == {q \in Calls : req[q].phase = "waiting"}
Leaving(Q) == {q \in Q : req[q].kind = "logout"}

(* The refresh settles: everyone waiting on it goes on in the same turn.       *)
Resend == /\ req' = [q \in Calls |-> IF q \in Waiting
                                     THEN [req[q] EXCEPT !.phase = "resent", !.tok = mem] ELSE req[q]]
          /\ UNCHANGED <<mem, pend, ends>>

(* Mutant of Refuse: only the requests in Q learn that the refresh failed.     *)
RefuseOnly(Q) == /\ req' = [q \in Calls |-> IF q \in Q THEN Idle ELSE req[q]]
                 /\ IF Q = {} THEN UNCHANGED <<mem, pend, ends>> ELSE end(Q)

Refuse(Q) == /\ req' = [q \in Calls |-> IF q \in Waiting THEN Idle ELSE req[q]]
             /\ IF Q = {} THEN UNCHANGED <<mem, pend, ends>> ELSE end(Q)

(* Mutant of Open: restore() does not catch a refresh that fails.              *)
OpenUncaught(outcome) ==
    \/ /\ outcome = "refused"
       /\ end({"restore"}) /\ boot' = "ending" /\ UNCHANGED status
    \/ /\ outcome = "renewed"
       /\ boot' = "done" /\ status' = "signedIn" /\ UNCHANGED <<mem, pend, ends>>
    \/ outcome = "error" /\ UNCHANGED <<boot, status, mem, pend, ends>>

(* restore() goes on: without network the application enters all the same.     *)
Open(outcome) ==
    \/ /\ outcome = "refused"
       /\ end({"restore"}) /\ boot' = "ending" /\ UNCHANGED status
    \/ /\ outcome # "refused"
       /\ boot' = "done" /\ status' = "signedIn" /\ UNCHANGED <<mem, pend, ends>>

Settle(outcome) ==
    /\ rf' = NoRefresh
    /\ IF boot = "refreshing"
       THEN Open(outcome) /\ UNCHANGED req
       ELSE /\ UNCHANGED <<boot, status>>
            /\ CASE outcome = "renewed" -> Resend
                 [] outcome = "refused" -> Refuse(Waiting)
                 [] outcome = "error"   -> Refuse(Leaving(Waiting))

(* refreshSession: the stored refresh token is read and posted.                *)
ReadRefresh ==
    /\ rf.phase = "reading"
    /\ IF disk["refresh"] = None
       THEN Settle("refused")
       ELSE rf' = [phase |-> "sent", tok |-> disk["refresh"]]
            /\ UNCHANGED <<status, boot, mem, pend, ends, req>>
    /\ UNCHANGED <<server, disk, login, ghosts, history>>

(* What the backend does with a refresh token, and the row it answers with.    *)
Presented(s) == IF rows[s].rotated THEN {"reuse"} ELSE {}
Refresh(s, c, S) ==
    \/ Renewable(s) /\ CanIssue /\ rows' = Rotate(s, c, S)
    \/ ~Renewable(s) /\ rows' = CutFamily(s)

ServeRefresh ==
    /\ rf.phase = "sent"
    /\ Refresh(rf.tok, None, {})
    /\ rf' = IF Renewable(rf.tok) THEN [phase |-> "answered", tok |-> Len(rows) + 1]
                                  ELSE [phase |-> "refused", tok |-> None]
    /\ why' = Mark(Presented(rf.tok))
    /\ UNCHANGED <<version, status, boot, mem, storage, ends, req, login, ghosts, kills>>

(* The rotation and the revocation of every session of the user overlap.       *)
ServeRefreshWhileRevoking ==
    /\ rf.phase = "sent" /\ Renewable(rf.tok)
    /\ LET u == rows[rf.tok].user IN
          /\ version[u] < MaxVersion
          /\ version' = [version EXCEPT ![u] = @ + 1]
          /\ Refresh(rf.tok, None, RowsOf(u))
    /\ rf' = [phase |-> "answered", tok |-> Len(rows) + 1]
    /\ why' = Mark({"closed"})
    /\ UNCHANGED <<status, boot, mem, storage, ends, req, login, ghosts, kills>>

(* The rate limit answers 429: for refreshSession that is a refusal, not an    *)
(* error, and the application ends a session that nobody closed.               *)
LimitRefresh ==
    /\ rf.phase = "sent"
    /\ rf' = [phase |-> "refused", tok |-> None]
    /\ why' = Mark({"limited"})
    /\ UNCHANGED <<server, status, boot, mem, storage, ends, req, login, ghosts, kills>>

DeliverRefresh ==
    \/ /\ rf.phase = "answered"
       /\ saveTokens("refresh", rf.tok)
       /\ rf' = [rf EXCEPT !.phase = "saving"]
       /\ UNCHANGED <<server, status, boot, disk, ends, req, login, ghosts, history>>
    \/ /\ rf.phase = "refused"
       /\ Settle("refused")
       /\ UNCHANGED <<server, disk, login, ghosts, history>>

RefreshSaved ==
    /\ rf.phase = "saving" /\ Written("refresh")
    /\ Settle("renewed")
    /\ UNCHANGED <<server, disk, login, ghosts, history>>

(* Timeout, network error or 5xx: refreshSession rejects.  The request may     *)
(* still be on its way, or its answer is the one that is lost.                 *)
FailRefresh ==
    /\ rf.phase \in {"sent", "answered", "refused"}
    /\ Settle("error")
    /\ ghosts' = IF rf.phase = "sent" THEN ghosts \cup {rf.tok} ELSE ghosts
    /\ why' = Lose(IF rf.phase = "refused" THEN {} ELSE {"cut"})
    /\ UNCHANGED <<server, disk, login, kills>>

(* ------------------------------- requests ---------------------------------- *)

(* One logout or change of password at a time: its button shows it pending.    *)
Send(q, kind) ==
    /\ status = "signedIn" /\ req[q] = Idle /\ q \notin ends
    /\ kind # "call" => \A p \in Calls : req[p].phase = "idle" \/ req[p].kind = "call"
    /\ req' = [req EXCEPT ![q] = [phase |-> "sent", kind |-> kind, tok |-> mem]]
    /\ why' = IF kind = "call" THEN why ELSE Mark({"closed"})
    /\ UNCHANGED <<server, status, boot, mem, storage, ends, rf, login, ghosts, kills>>

(* A screen's request is answered.                                             *)
Answer(q) ==
    /\ req[q].phase \in {"sent", "resent"} /\ req[q].kind = "call" /\ AccessOk(req[q].tok)
    /\ req' = [req EXCEPT ![q] = Idle]
    /\ UNCHANGED <<server, status, boot, mem, storage, ends, rf, login, ghosts, history>>

(* 401: the first one starts the refresh, the others wait for the same one. A  *)
(* 401 to the retry is the answer of the request.                              *)
refreshOnce == IF rf.phase = "idle" THEN [NoRefresh EXCEPT !.phase = "reading"] ELSE rf

Unauthorized(q) ==
    /\ ~AccessOk(req[q].tok)
    /\ \/ /\ req[q].phase = "sent"
          /\ req' = [req EXCEPT ![q].phase = "waiting"]
          /\ rf' = refreshOnce
          /\ UNCHANGED <<mem, pend, ends>>
       \/ /\ req[q].phase = "resent"
          /\ req' = [req EXCEPT ![q] = Idle]
          /\ IF req[q].kind = "logout" THEN end({q}) ELSE UNCHANGED <<mem, pend, ends>>
          /\ UNCHANGED rf
    /\ UNCHANGED <<server, status, boot, disk, login, ghosts, history>>

(* What the backend does with the logout or the new password of the row s.     *)
CloseSessions(op, s) ==
    IF op = "logout" THEN rows' = Revoked(Family(s)) /\ UNCHANGED version
                     ELSE RevokeAll(rows[s].user)

ServeClosing(q) ==
    /\ req[q].phase \in {"sent", "resent"} /\ req[q].kind # "call" /\ AccessOk(req[q].tok)
    /\ CloseSessions(req[q].kind, req[q].tok)
    /\ req' = [req EXCEPT ![q].phase = "answered"]
    /\ UNCHANGED <<status, boot, mem, storage, ends, rf, login, ghosts, history>>

(* onSettled of the logout, onSuccess of the change of password.               *)
Close(q) ==
    /\ req[q].phase = "answered"
    /\ req' = [req EXCEPT ![q] = Idle]
    /\ end({q})
    /\ UNCHANGED <<server, status, boot, disk, rf, login, ghosts, history>>

(* A closing the application gives up on was served or never will be.          *)
Unheard(Q) ==
    \/ UNCHANGED server
    \/ \E q \in Q : /\ req[q].phase \in {"sent", "resent"} /\ req[q].kind # "call"
                    /\ AccessOk(req[q].tok)
                    /\ CloseSessions(req[q].kind, req[q].tok)

Fail(q) ==
    /\ req[q].phase \in {"sent", "resent", "answered"}
    /\ Unheard({q})
    /\ req' = [req EXCEPT ![q] = Idle]
    /\ IF req[q].kind = "logout" THEN end({q}) ELSE UNCHANGED <<mem, pend, ends>>
    /\ UNCHANGED <<status, boot, disk, rf, login, ghosts, history>>

(* -------------------------------- login ------------------------------------ *)

SubmitLogin(l) ==
    /\ status = "signedOut" /\ login[l] = NoLogin
    /\ login' = [login EXCEPT ![l].phase = "sent"]
    /\ UNCHANGED <<server, status, boot, mem, storage, ends, rf, req, ghosts, history>>

ServeLogin(l, u) ==
    /\ login[l].phase = "sent" /\ CanIssue
    /\ rows' = StartSession(u, None)
    /\ login' = [login EXCEPT ![l] = [phase |-> "answered", tok |-> Len(rows) + 1]]
    /\ UNCHANGED <<version, status, boot, mem, storage, ends, rf, req, ghosts, history>>

(* session.start: the tokens are saved and then the navigation enters.         *)
StartLogin(l) ==
    /\ login[l].phase = "answered"
    /\ saveTokens(l, login[l].tok)
    /\ login' = [login EXCEPT ![l].phase = "saving"]
    /\ UNCHANGED <<server, status, boot, disk, ends, rf, req, ghosts, history>>

Enter(l) ==
    /\ login[l].phase = "saving" /\ Written(l)
    /\ status' = "signedIn"
    /\ login' = [login EXCEPT ![l] = NoLogin]
    /\ UNCHANGED <<server, boot, mem, storage, ends, rf, req, ghosts, history>>

FailLogin(l) ==
    /\ login[l].phase \in {"sent", "answered"}
    /\ login' = [login EXCEPT ![l] = NoLogin]
    /\ why' = Lose(IF login[l].phase = "sent" THEN {} ELSE {"cut"})
    /\ UNCHANGED <<server, status, boot, mem, storage, ends, rf, req, ghosts, kills>>

(* ------------------------------ environment -------------------------------- *)

(* A refresh the application no longer waits for is served.                    *)
ServeGhost(g) ==
    /\ ghosts' = ghosts \ {g}
    /\ Refresh(g, None, {})
    /\ why' = Mark(Presented(g))
    /\ UNCHANGED <<version, status, boot, mem, storage, ends, rf, req, login, kills>>

(* A new refresh token on its way to the storage.                              *)
Unwritten == \E i \in DOMAIN pend["refresh"] : pend["refresh"][i].val # None

(* The system kills the application: what was in memory is gone, and so are    *)
(* the writes not yet done.                                                    *)
Kill ==
    /\ kills < MaxKills
    /\ kills' = kills + 1
    /\ status' = "loading" /\ boot' = "start" /\ mem' = None
    /\ pend' = [k \in Keys |-> << >>] /\ ends' = {}
    /\ rf' = NoRefresh /\ req' = [q \in Calls |-> Idle] /\ login' = [l \in Logins |-> NoLogin]
    /\ ghosts' = IF rf.phase = "sent" THEN ghosts \cup {rf.tok} ELSE ghosts
    /\ Unheard(Calls)
    /\ why' = Lose({m \in {"cut", "torn"} :
                     \/ /\ m = "cut"
                        /\ rf.phase \in {"sent", "answered"} \/ \E l \in Logins : login[l].phase = "answered"
                     \/ m = "torn" /\ Unwritten})
    /\ UNCHANGED disk

(* Elsewhere: another device changes the password, tokens grow old.            *)
Elsewhere ==
    /\ \/ \E u \in Users : RevokeAll(u) /\ why' = Mark({"closed"})
       \/ \E s \in DOMAIN rows : AccessOk(s) /\ Expire(s) /\ UNCHANGED why
    /\ UNCHANGED <<status, boot, mem, storage, ends, rf, req, login, ghosts, kills>>

Next ==
    \/ Restore \/ ReadRefresh \/ ServeRefresh \/ ServeRefreshWhileRevoking \/ LimitRefresh
    \/ DeliverRefresh \/ RefreshSaved \/ FailRefresh \/ Kill \/ Elsewhere
    \/ \E k \in Keys : Store(k)
    \/ \E t \in Calls \cup {"restore"} : Ended(t)
    \/ \E q \in Calls : \/ \E kind \in Kinds : Send(q, kind)
                        \/ Answer(q) \/ Unauthorized(q) \/ ServeClosing(q)
                        \/ Close(q) \/ Fail(q)
    \/ \E l \in Logins : \/ SubmitLogin(l) \/ StartLogin(l) \/ Enter(l) \/ FailLogin(l)
                         \/ \E u \in Users : ServeLogin(l, u)
    \/ \E g \in ghosts : ServeGhost(g)

Spec == Init /\ [][Next]_vars

(* Fairness: the phone finishes what it has begun.  The storage does the       *)
(* writes, the code goes on after an await, and a refresh that nobody answers  *)
(* times out (15 seconds in client.ts).  Nothing is assumed of the backend, of *)
(* the network or of the user.                                                 *)
RefreshGoesOn == ReadRefresh \/ DeliverRefresh \/ RefreshSaved \/ FailRefresh
StorageGoesOn == (\E k \in Keys : Store(k)) \/ (\E t \in ends : Ended(t))

FairSpec == Spec /\ WF_vars(Restore) /\ WF_vars(RefreshGoesOn) /\ WF_vars(StorageGoesOn)

(* ------------------------------ properties --------------------------------- *)

Still == /\ rf = NoRefresh /\ ends = {} /\ \A l \in Logins : login[l] = NoLogin
         /\ \A k \in Keys : pend[k] = << >>

(* The application presents a refresh token it has already used only after an  *)
(* answer with new tokens was lost or it was killed before it wrote them:      *)
(* however many requests fail at once, they share one refresh, and the next    *)
(* one reads the new token.                                                    *)
ReuseOnlyAfterCut == "reuse" \in why => why \cap {"cut", "torn"} # {}

(* The session a user opened ends only if the user or the backend closed it,   *)
(* the rate limit answered its renewal, the answer with new tokens was lost or *)
(* the application was killed before it wrote the refresh token.  Expired      *)
(* access tokens, several requests refused at once and a kill at any other     *)
(* moment, such as between the two writes of a renewal once the refresh token  *)
(* is written, never end it.                                                   *)
SessionKept ==
    status = "signedOut" /\ Still /\ rows # << >> => why \cap {"closed", "limited", "cut", "torn"} # {}

(* A signed in application at rest holds in its storage a refresh token the    *)
(* backend will still rotate, so that the session survives a restart.  Left    *)
(* out: a session closed, or ended by the rate limit, before; an answer with   *)
(* new tokens that was lost; a kill before the refresh token was written.      *)
RestartKeepsSession ==
    status = "signedIn" /\ Still /\ why \cap {"closed", "limited", "cut", "torn"} = {}
        => disk["refresh"] # None /\ Renewable(disk["refresh"])

(* Nobody waits forever for the refresh that another request started.          *)
WaitersGoOn == Waiting # {} ~> Waiting = {}

(* The application leaves the splash screen, with or without network.          *)
AppOpens == status = "loading" ~> status # "loading"

(* hooks.ts: the logout closes the local session however it goes.  Once signed *)
(* out, nothing is left in the storage for the next start to enter with.       *)
LogoutEmptiesStorage == status = "signedOut" /\ Still => disk["refresh"] = None
=============================================================================
