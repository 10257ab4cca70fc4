------------------------- MODULE MobileSessionProofs -------------------------
(* Theorems about the session of the mobile application, for any number of     *)
(* requests, logins, accounts and sessions.                                    *)
EXTENDS MobileSession, AuthServerProofs

-----------------------------------------------------------------------------
(* Types: and a token that the phone names is one the server issued.           *)

Known == DOMAIN rows \cup {None}

WriteSet(D)   == [val : D, by : SUBSET Tasks]
RefreshSet(D) == [phase : {"idle", "reading", "sent", "answered", "refused", "saving"}, tok : D]
RequestSet(D) == [phase : {"idle", "sent", "waiting", "resent", "answered"}, kind : Kinds, tok : D]
LoginSet(D)   == [phase : {"idle", "sent", "answered", "saving"}, tok : D]

StorageTyped(D) ==
    /\ mem \in D
    /\ pend \in [Keys -> Seq(WriteSet(D))]
    /\ ends \subseteq Calls \cup {"restore"}

Reasons == {"closed", "limited", "cut", "torn", "reuse"}

FlowTyped ==
    /\ status \in {"loading", "signedIn", "signedOut"}
    /\ boot \in {"start", "refreshing", "ending", "done"}
    /\ why \subseteq Reasons
    /\ kills \in 0..MaxKills

RefreshTyped(D) == rf \in RefreshSet(D) /\ (rf.phase \in {"sent", "answered", "saving"} => rf.tok # None)
LoginTyped(D) ==
    /\ login \in [Logins -> LoginSet(D)]
    /\ \A l \in Logins : login[l].phase \in {"answered", "saving"} <=> login[l].tok # None

ClientTyped(D) ==
    /\ StorageTyped(D) /\ disk \in [Keys -> D] /\ FlowTyped
    /\ RefreshTyped(D) /\ req \in [Calls -> RequestSet(D)] /\ LoginTyped(D)
    /\ ghosts \subseteq D \ {None}

TypeInv == ServerTypeOK /\ ClientTyped(Known)

LEMMA KnownSids ==
    ASSUME ServerTypeOK
    PROVE  /\ Known \subseteq Sids \cup {None} /\ DOMAIN rows \subseteq Sids /\ None \notin DOMAIN rows
           /\ Len(rows) \in Nat /\ DOMAIN rows = 1..Len(rows)
<1>1. Len(rows) \in Nat /\ DOMAIN rows = 1..Len(rows) /\ Len(rows) =< MaxRows
  BY DEF ServerTypeOK
<1> QED
  BY <1>1, AuthAssumption DEF Known, Sids

-----------------------------------------------------------------------------
(* The history: a loss stays, and as long as nothing is lost nothing is erased *)

LEMMA Marks ==
    ASSUME NEW m \in SUBSET Reasons, why' = Mark(m), why \subseteq Reasons
    PROVE  why' \subseteq Reasons
BY DEF Mark

LEMMA MarksStay == ASSUME [Next]_vars, ~Lost' PROVE ~Lost /\ why \subseteq why'
<1>1. ASSUME NEW m, why' = Mark(m) PROVE ~Lost /\ why \subseteq why'
  BY <1>1 DEF Mark, Lost
<1>2. ASSUME NEW m \in SUBSET {"cut", "torn"}, why' = Lose(m) PROVE ~Lost /\ why \subseteq why'
  BY <1>2 DEF Lose, Lost
<1>3. ASSUME UNCHANGED why PROVE ~Lost /\ why \subseteq why'
  BY <1>3 DEF Lost
<1>4. CASE \/ UNCHANGED vars \/ Restore \/ ReadRefresh \/ DeliverRefresh \/ RefreshSaved
           \/ \E k \in Keys : Store(k)
           \/ \E t \in Calls \cup {"restore"} : Ended(t)
           \/ \E q \in Calls : Answer(q) \/ Unauthorized(q) \/ ServeClosing(q) \/ Close(q) \/ Fail(q)
           \/ \E l \in Logins : SubmitLogin(l) \/ StartLogin(l) \/ Enter(l) \/ \E u \in Users : ServeLogin(l, u)
  BY <1>3, <1>4 DEF vars, Restore, ReadRefresh, DeliverRefresh, RefreshSaved, Store, Ended, Answer, Unauthorized,
                    ServeClosing, Close, Fail, SubmitLogin, StartLogin, Enter, ServeLogin, history
<1>5. CASE \/ ServeRefresh \/ ServeRefreshWhileRevoking \/ LimitRefresh \/ Elsewhere
           \/ \E g \in ghosts : ServeGhost(g)
           \/ \E q \in Calls, kind \in Kinds : Send(q, kind)
  BY <1>1, <1>3, <1>5 DEF ServeRefresh, ServeRefreshWhileRevoking, LimitRefresh, Elsewhere, ServeGhost, Send
<1>6. CASE FailRefresh \/ Kill \/ \E l \in Logins : FailLogin(l)
  BY <1>2, <1>6 DEF FailRefresh, Kill, FailLogin
<1> QED
  BY <1>4, <1>5, <1>6 DEF Next

\* What is typed over some names is typed over more.
LEMMA Wider ==
    ASSUME NEW D, NEW E, D \subseteq E, ClientTyped(D)
    PROVE  ClientTyped(E)
<1> USE DEF ClientTyped
<1>1. disk \in [Keys -> E] /\ ghosts \subseteq E \ {None}
  OBVIOUS
<1>2. StorageTyped(E)
  <2>1. WriteSet(D) \subseteq WriteSet(E)
    BY DEF WriteSet
  <2>2. ASSUME NEW k \in Keys PROVE pend[k] \in Seq(WriteSet(E))
    BY <2>1 DEF StorageTyped
  <2> QED
    BY <2>2 DEF StorageTyped
<1>3. RefreshTyped(E)
  BY DEF RefreshTyped, RefreshSet
<1>4. req \in [Calls -> RequestSet(E)]
  <2>1. RequestSet(D) \subseteq RequestSet(E)
    BY DEF RequestSet
  <2> QED
    BY <2>1
<1>5. LoginTyped(E)
  <2>1. LoginSet(D) \subseteq LoginSet(E)
    BY DEF LoginSet
  <2> QED
    BY <2>1 DEF LoginTyped
<1> QED
  BY <1>1, <1>2, <1>3, <1>4, <1>5

LEMMA TypesNamed == TypeInv => MobileTypeOK
<1> SUFFICES ASSUME TypeInv PROVE MobileTypeOK
  OBVIOUS
<1>1. ClientTyped(Sids \cup {None})
  BY KnownSids, Wider DEF TypeInv
<1> QED
  BY <1>1 DEF TypeInv, ClientTyped, StorageTyped, FlowTyped, RefreshTyped, LoginTyped, MobileTypeOK,
              WriteSet, RefreshSet, RequestSet, LoginSet, Reasons

-----------------------------------------------------------------------------
(* What the steps do to the table of sessions                                  *)

\* The rows stay, with the same rotations.
SameRows ==
    /\ ServerTypeOK' /\ DOMAIN rows' = DOMAIN rows
    /\ \A i \in DOMAIN rows : rows'[i].rotated = rows[i].rotated

LEMMA SameServer == ASSUME ServerTypeOK, UNCHANGED server PROVE SameRows
BY DEF SameRows, server, ServerTypeOK

LEMMA RevokesAll ==
    ASSUME ServerTypeOK, NEW u \in Users, RevokeAll(u)
    PROVE  SameRows
<1>1. Cut(rows', RowsOf(u))
  BY RevokedRows, ServerTyped DEF RevokeAll
<1>2. version' \in [Users -> 0..MaxVersion]
  <2>1. version[u] + 1 \in 0..MaxVersion
    BY AuthAssumption DEF ServerTypeOK, RevokeAll
  <2> QED
    BY <2>1 DEF ServerTypeOK, RevokeAll
<1>3. TypedRows(rows')
  BY <1>1 DEF Cut
<1>4. ServerTypeOK'
  BY <1>2, <1>3 DEF ServerTypeOK, TypedRows
<1> QED
  BY <1>1, <1>4 DEF Cut, SameRows

LEMMA Closes ==
    ASSUME ServerTypeOK, NEW op, NEW s \in DOMAIN rows, CloseSessions(op, s)
    PROVE  SameRows
<1>1. CASE op = "logout"
  <2>1. Cut(rows', Family(s)) /\ version' = version
    BY <1>1, RevokedRows, ServerTyped DEF CloseSessions
  <2> QED
    BY <2>1 DEF Cut, SameRows, ServerTypeOK, TypedRows
<1>2. CASE op # "logout"
  <2>1. rows[s].user \in Users
    BY RowTyped, ServerTyped DEF AuthRow
  <2> QED
    BY <1>2, <2>1, RevokesAll DEF CloseSessions
<1> QED
  BY <1>1, <1>2

LEMMA UnheardCloses ==
    ASSUME TypeInv, NEW C \in SUBSET Calls, Unheard(C)
    PROVE  SameRows /\ (rows' = rows \/ \E q \in Calls : req[q].kind # "call")
<1>1. CASE UNCHANGED server
  BY <1>1, SameServer DEF TypeInv, server
<1>2. ASSUME NEW q \in C, req[q].kind # "call", AccessOk(req[q].tok), CloseSessions(req[q].kind, req[q].tok)
      PROVE  SameRows
  <2>1. req[q].tok \in DOMAIN rows
    BY <1>2 DEF TypeInv, ClientTyped, RequestSet, Known, AccessOk
  <2> QED
    BY <1>2, <2>1, Closes DEF TypeInv
<1> QED
  BY <1>1, <1>2 DEF Unheard

\* A refresh token that the backend rotates or refuses.
Grown(s, S) == Rotated(rows', Len(rows) + 1, s, None, S)
Severed(s)  == Cut(rows', Family(s) \ {s})

LEMMA Refreshes ==
    ASSUME ServerTypeOK, NEW s \in DOMAIN rows, NEW S, Refresh(s, None, S), version' \in [Users -> 0..MaxVersion]
    PROVE  /\ ServerTypeOK' /\ Known \subseteq Known'
           /\ \/ Renewable(s) /\ Grown(s, S) /\ Len(rows) + 1 \in DOMAIN rows' \ {None}
              \/ ~Renewable(s) /\ Severed(s)
<1>1. CASE Renewable(s) /\ CanIssue /\ rows' = Rotate(s, None, S)
  <2>1. Grown(s, S)
    BY <1>1, RotatedRows DEF Grown
  <2> QED
    BY <1>1, <2>1, AuthAssumption DEF Grown, Rotated, Grows, ServerTypeOK, TypedRows, Known
<1>2. CASE ~Renewable(s) /\ rows' = CutFamily(s)
  <2>1. Severed(s)
    BY <1>2, RevokedRows, ServerTyped DEF Severed, CutFamily
  <2> QED
    BY <1>2, <2>1 DEF Severed, Cut, ServerTypeOK, TypedRows, Known
<1> QED
  BY <1>1, <1>2 DEF Refresh

-----------------------------------------------------------------------------
(* What the steps do to the storage, the refresh and the requests              *)

LEMMA WritesTyped ==
    ASSUME TypeInv, NEW w \in WriteSet(Known)
    PROVE  [k \in Keys |-> Append(pend[k], w)] \in [Keys -> Seq(WriteSet(Known))]
<1>1. ASSUME NEW k \in Keys PROVE Append(pend[k], w) \in Seq(WriteSet(Known))
  BY DEF TypeInv, ClientTyped, StorageTyped
<1> QED
  BY <1>1

LEMMA EndTyped ==
    ASSUME TypeInv, Known' = Known, NEW T \in SUBSET (Calls \cup {"restore"}), end(T)
    PROVE  StorageTyped(Known)'
<1>1. [val |-> None, by |-> T] \in WriteSet(Known)
  BY DEF WriteSet, Tasks, Known
<1>2. pend' \in [Keys -> Seq(WriteSet(Known))]
  BY <1>1, WritesTyped DEF end
<1>3. mem' \in Known /\ ends' \subseteq Calls \cup {"restore"}
  BY DEF end, Known, TypeInv, ClientTyped, StorageTyped
<1> QED
  BY <1>2, <1>3 DEF StorageTyped

LEMMA SaveTyped ==
    ASSUME TypeInv, Known' = Known, NEW t \in Tasks, NEW s \in Known, saveTokens(t, s), UNCHANGED ends
    PROVE  StorageTyped(Known)'
<1>1. [val |-> s, by |-> {t}] \in WriteSet(Known)
  BY DEF WriteSet
<1>2. pend' \in [Keys -> Seq(WriteSet(Known))]
  BY <1>1, WritesTyped DEF saveTokens
<1> QED
  BY <1>2 DEF saveTokens, TypeInv, ClientTyped, StorageTyped

LEMMA IdleTyped ==
    ASSUME NEW D, None \in D
    PROVE  Idle \in RequestSet(D) /\ NoRefresh \in RefreshSet(D) /\ NoLogin \in LoginSet(D)
BY DEF Idle, NoRefresh, NoLogin, RequestSet, RefreshSet, LoginSet, Kinds

\* What a refresh that settles can do.
LEMMA Settles ==
    ASSUME TypeInv, NEW outcome \in {"renewed", "refused", "error"}, Settle(outcome)
    PROVE  /\ rf' = NoRefresh /\ req' \in [Calls -> RequestSet(Known)]
           /\ \/ /\ boot # "refreshing" /\ UNCHANGED <<status, boot>>
                 /\ \/ UNCHANGED <<mem, pend, ends>>
                    \/ outcome # "renewed" /\ \E T \in SUBSET Calls : end(T)
                 /\ \A q \in Calls : \/ req'[q] = Idle \/ req'[q] = req[q]
                                     \/ /\ req[q].phase = "waiting"
                                        /\ req'[q] = [req[q] EXCEPT !.phase = "resent", !.tok = mem]
              \/ /\ boot = "refreshing" /\ outcome = "refused" /\ UNCHANGED <<status, req>>
                 /\ boot' = "ending" /\ end({"restore"})
              \/ /\ boot = "refreshing" /\ outcome # "refused" /\ UNCHANGED <<req, mem, pend, ends>>
                 /\ boot' = "done" /\ status' = "signedIn"
<1> USE DEF TypeInv, ClientTyped
<1>1. Idle \in RequestSet(Known)
  BY IdleTyped DEF Known
<1>2. CASE boot = "refreshing"
  BY <1>2 DEF Settle, Open
<1>3. CASE boot # "refreshing" /\ outcome = "renewed"
  <2>1. ASSUME NEW q \in Calls PROVE [req[q] EXCEPT !.phase = "resent", !.tok = mem] \in RequestSet(Known)
    <3>1. req[q] \in RequestSet(Known) /\ mem \in Known
      BY DEF StorageTyped
    <3> QED
      BY <3>1 DEF RequestSet
  <2> QED
    BY <1>3, <2>1 DEF Settle, Resend, Waiting
<1>4. ASSUME NEW Q \in SUBSET Calls, Refuse(Q)
      PROVE  /\ UNCHANGED <<mem, pend, ends>> \/ \E T \in SUBSET Calls : end(T)
             /\ \A q \in Calls : req'[q] = Idle \/ req'[q] = req[q]
             /\ req' \in [Calls -> RequestSet(Known)]
  BY <1>1, <1>4 DEF Refuse
<1>5. CASE boot # "refreshing" /\ outcome # "renewed"
  <2>1. Waiting \in SUBSET Calls /\ Leaving(Waiting) \in SUBSET Calls
    BY DEF Waiting, Leaving
  <2>2. rf' = NoRefresh /\ UNCHANGED <<status, boot>> /\ (Refuse(Waiting) \/ Refuse(Leaving(Waiting)))
    BY <1>5 DEF Settle
  <2> QED
    BY <1>4, <1>5, <2>1, <2>2
<1> QED
  BY <1>2, <1>3, <1>5

LEMMA SettleTyped ==
    ASSUME TypeInv, Known' = Known, NEW outcome \in {"renewed", "refused", "error"}, Settle(outcome)
    PROVE  /\ StorageTyped(Known)' /\ RefreshTyped(Known)' /\ req' \in [Calls -> RequestSet(Known)']
           /\ status' \in {"loading", "signedIn", "signedOut"} /\ boot' \in {"start", "refreshing", "ending", "done"}
<1>1. StorageTyped(Known)'
  <2>1. CASE UNCHANGED <<mem, pend, ends>>
    BY <2>1 DEF TypeInv, ClientTyped, StorageTyped
  <2>2. ASSUME NEW T \in SUBSET (Calls \cup {"restore"}), end(T) PROVE StorageTyped(Known)'
    BY <2>2, EndTyped
  <2> QED
    BY <2>1, <2>2, Settles
<1>2. RefreshTyped(Known)'
  <2>1. rf' = NoRefresh /\ NoRefresh \in RefreshSet(Known)
    BY Settles, IdleTyped DEF Known
  <2> QED
    BY <2>1 DEF RefreshTyped, NoRefresh, RefreshSet
<1>3. req' \in [Calls -> RequestSet(Known)']
  BY Settles DEF RequestSet
<1> QED
  BY <1>1, <1>2, <1>3, Settles DEF TypeInv, ClientTyped, FlowTyped

LEMMA Untouched ==
    ASSUME TypeInv, Known' = Known
    PROVE  /\ UNCHANGED <<mem, pend, ends>> => StorageTyped(Known)'
           /\ UNCHANGED disk => disk' \in [Keys -> Known']
           /\ UNCHANGED <<status, boot, why, kills>> => FlowTyped'
           /\ UNCHANGED rf => RefreshTyped(Known)'
           /\ UNCHANGED req => req' \in [Calls -> RequestSet(Known')]
           /\ UNCHANGED login => LoginTyped(Known)'
           /\ UNCHANGED ghosts => ghosts' \subseteq Known' \ {None}
<1> USE DEF TypeInv, ClientTyped
<1>1. UNCHANGED <<mem, pend, ends>> => StorageTyped(Known)'
  BY DEF StorageTyped
<1>2. UNCHANGED rf => RefreshTyped(Known)'
  BY DEF RefreshTyped
<1>3. UNCHANGED login => LoginTyped(Known)'
  BY DEF LoginTyped
<1> QED
  BY <1>1, <1>2, <1>3 DEF FlowTyped

LEMMA Retyped ==
    ASSUME TypeInv, Known' = Known
    PROVE  /\ \A q \in Calls, r \in RequestSet(Known) :
                 req' = [req EXCEPT ![q] = r] => req' \in [Calls -> RequestSet(Known')]
           /\ \A l \in Logins, r \in LoginSet(Known) :
                 (r.phase \in {"answered", "saving"} <=> r.tok # None) /\ login' = [login EXCEPT ![l] = r]
                    => LoginTyped(Known)'
<1> USE DEF TypeInv, ClientTyped
<1>1. ASSUME NEW l \in Logins, NEW r \in LoginSet(Known),
             r.phase \in {"answered", "saving"} <=> r.tok # None, login' = [login EXCEPT ![l] = r]
      PROVE  LoginTyped(Known)'
  <2>1. login' \in [Logins -> LoginSet(Known)] /\ \A k \in Logins : login'[k] = IF k = l THEN r ELSE login[k]
    BY <1>1 DEF LoginTyped
  <2> QED
    BY <1>1, <2>1 DEF LoginTyped
<1> QED
  BY <1>1

\* The steps that leave the table of sessions alone.
LEMMA ClientTypeStep ==
    ASSUME TypeInv, UNCHANGED server,
           \/ Restore \/ ReadRefresh \/ LimitRefresh \/ DeliverRefresh \/ RefreshSaved \/ FailRefresh
           \/ \E k \in Keys : Store(k)
           \/ \E t \in Calls \cup {"restore"} : Ended(t)
    PROVE  TypeInv'
<1> USE DEF TypeInv, ClientTyped
<1>s. Known' = Known /\ ServerTypeOK' /\ Known \ {None} = DOMAIN rows
  BY KnownSids DEF server, Known, ServerTypeOK
<1>1. CASE Restore
  <2>1. StorageTyped(Known)'
    <3>1. CASE disk["refresh"] = None
      BY <1>1, <1>s, <3>1, EndTyped DEF Restore
    <3>2. CASE disk["refresh"] # None
      BY <1>1, <1>s, <3>2 DEF Restore, Entering, StorageTyped, Keys
    <3> QED
      BY <3>1, <3>2
  <2>2. FlowTyped'
    BY <1>1 DEF Restore, Entering, FlowTyped, history
  <2>3. RefreshTyped(Known)'
    BY <1>1, <1>s, IdleTyped DEF Restore, Entering, RefreshTyped, RefreshSet, NoRefresh, Known
  <2> QED
    BY <1>1, <1>s, <2>1, <2>2, <2>3, Untouched DEF Restore
<1>2. CASE ReadRefresh
  <2>1. CASE disk["refresh"] = None
    <3>1. Settle("refused")
      BY <1>2, <2>1 DEF ReadRefresh
    <3> QED
      BY <1>2, <1>s, <3>1, SettleTyped, Untouched DEF ReadRefresh, FlowTyped, history
  <2>2. CASE disk["refresh"] # None
    <3>1. RefreshTyped(Known)'
      BY <1>2, <1>s, <2>2 DEF ReadRefresh, RefreshTyped, RefreshSet, Keys
    <3> QED
      BY <1>2, <1>s, <2>2, <3>1, Untouched DEF ReadRefresh, history
  <2> QED
    BY <2>1, <2>2
<1>3. CASE LimitRefresh
  <2>1. RefreshTyped(Known)'
    BY <1>3, <1>s DEF LimitRefresh, RefreshTyped, RefreshSet, Known
  <2> QED
    BY <1>3, <1>s, <2>1, Marks, Untouched DEF LimitRefresh, FlowTyped, storage, Reasons
<1>4. CASE DeliverRefresh
  <2>1. CASE rf.phase = "answered"
    <3>1. rf.tok \in Known /\ "refresh" \in Tasks
      BY DEF RefreshTyped, RefreshSet, Tasks
    <3>2. StorageTyped(Known)'
      BY <1>4, <1>s, <2>1, <3>1, SaveTyped DEF DeliverRefresh
    <3>3. RefreshTyped(Known)'
      BY <1>4, <1>s, <2>1 DEF DeliverRefresh, RefreshTyped, RefreshSet
    <3> QED
      BY <1>4, <1>s, <2>1, <3>2, <3>3, Untouched DEF DeliverRefresh, history
  <2>2. CASE rf.phase # "answered"
    <3>1. Settle("refused")
      BY <1>4, <2>2 DEF DeliverRefresh
    <3> QED
      BY <1>4, <1>s, <2>2, <3>1, SettleTyped, Untouched DEF DeliverRefresh, FlowTyped, history
  <2> QED
    BY <2>1, <2>2
<1>5. CASE RefreshSaved
  BY <1>5, <1>s, SettleTyped, Untouched DEF RefreshSaved, FlowTyped, history
<1>6. CASE FailRefresh
  <2>1. ghosts' \subseteq Known' \ {None}
    BY <1>6, <1>s DEF FailRefresh, RefreshTyped, RefreshSet
  <2> QED
    BY <1>6, <1>s, <2>1, SettleTyped, Untouched DEF FailRefresh, FlowTyped, Lose, Reasons
<1>7. ASSUME NEW k \in Keys, Store(k) PROVE TypeInv'
  <2>1. pend[k] \in Seq(WriteSet(Known)) /\ pend[k] # << >>
    BY <1>7 DEF Store, StorageTyped
  <2>2. Head(pend[k]) \in WriteSet(Known) /\ Tail(pend[k]) \in Seq(WriteSet(Known))
    BY <2>1
  <2>3. disk' \in [Keys -> Known]
    BY <1>7, <2>2 DEF Store, WriteSet
  <2>4. StorageTyped(Known)'
    BY <1>7, <1>s, <2>2 DEF Store, StorageTyped
  <2> QED
    BY <1>7, <1>s, <2>3, <2>4, Untouched DEF Store, history
<1>8. ASSUME NEW t \in Calls \cup {"restore"}, Ended(t) PROVE TypeInv'
  <2>1. FlowTyped' /\ StorageTyped(Known)'
    BY <1>8, <1>s DEF Ended, FlowTyped, StorageTyped, storage, history
  <2> QED
    BY <1>8, <1>s, <2>1, Untouched DEF Ended, storage
<1> QED
  BY <1>1, <1>2, <1>3, <1>4, <1>5, <1>6, <1>7, <1>8

LEMMA RequestTypeStep ==
    ASSUME TypeInv, NEW q \in Calls,
           (\E kind \in Kinds : Send(q, kind)) \/ Answer(q) \/ Unauthorized(q) \/ ServeClosing(q) \/ Close(q) \/ Fail(q)
    PROVE  TypeInv'
<1> USE DEF TypeInv, ClientTyped
<1>i. Idle \in RequestSet(Known) /\ req[q] \in RequestSet(Known) /\ mem \in Known
  BY IdleTyped DEF Known, StorageTyped
<1>s. UNCHANGED server => Known' = Known /\ ServerTypeOK'
  BY DEF server, Known, ServerTypeOK
<1>r. SameRows => Known' = Known /\ ServerTypeOK'
  BY DEF SameRows, Known
<1>1. ASSUME NEW kind \in Kinds, Send(q, kind) PROVE TypeInv'
  <2>1. [phase |-> "sent", kind |-> kind, tok |-> mem] \in RequestSet(Known)
    BY <1>i DEF RequestSet
  <2>2. FlowTyped'
    BY <1>1, Marks DEF Send, FlowTyped, Reasons
  <2>3. Known' = Known /\ ServerTypeOK'
    BY <1>1, <1>s DEF Send
  <2> QED
    BY <1>1, <2>1, <2>2, <2>3, Untouched, Retyped DEF Send, storage
<1>2. CASE Answer(q)
  <2>1. Known' = Known /\ ServerTypeOK'
    BY <1>2, <1>s DEF Answer
  <2> QED
    BY <1>2, <1>i, <2>1, Untouched, Retyped DEF Answer, storage, history
<1>3. CASE Unauthorized(q)
  <2>1. Known' = Known /\ ServerTypeOK'
    BY <1>3, <1>s DEF Unauthorized
  <2>2. [req[q] EXCEPT !.phase = "waiting"] \in RequestSet(Known)
    BY <1>i DEF RequestSet
  <2>3. req' \in [Calls -> RequestSet(Known')]
    BY <1>3, <1>i, <2>1, <2>2 DEF Unauthorized
  <2>4. StorageTyped(Known)'
    <3>1. {q} \in SUBSET (Calls \cup {"restore"})
      OBVIOUS
    <3>2. UNCHANGED <<mem, pend, ends>> \/ end({q})
      BY <1>3 DEF Unauthorized
    <3> QED
      BY <2>1, <3>1, <3>2, EndTyped, Untouched
  <2>5. RefreshTyped(Known)'
    BY <1>3, <2>1 DEF Unauthorized, refreshOnce, NoRefresh, RefreshTyped, RefreshSet, Known
  <2> QED
    BY <1>3, <2>1, <2>3, <2>4, <2>5, Untouched DEF Unauthorized, history
<1>4. CASE ServeClosing(q)
  <2>1. req[q].tok \in DOMAIN rows
    BY <1>4, <1>i DEF ServeClosing, AccessOk, RequestSet, Known
  <2>2. Known' = Known /\ ServerTypeOK'
    BY <1>4, <1>r, <2>1, Closes DEF ServeClosing
  <2>3. [req[q] EXCEPT !.phase = "answered"] \in RequestSet(Known)
    BY <1>i DEF RequestSet
  <2>4. req' \in [Calls -> RequestSet(Known')]
    BY <1>4, <2>2, <2>3 DEF ServeClosing
  <2> QED
    BY <1>4, <2>2, <2>4, Untouched DEF ServeClosing, storage, history
<1>5. CASE Close(q)
  <2>1. Known' = Known /\ ServerTypeOK'
    BY <1>5, <1>s DEF Close
  <2>2. StorageTyped(Known)'
    BY <1>5, <2>1, EndTyped DEF Close
  <2> QED
    BY <1>5, <1>i, <2>1, <2>2, Untouched, Retyped DEF Close, history
<1>6. CASE Fail(q)
  <2>1. Known' = Known /\ ServerTypeOK'
    BY <1>6, <1>r, UnheardCloses DEF Fail
  <2>2. StorageTyped(Known)'
    <3>1. {q} \in SUBSET (Calls \cup {"restore"})
      OBVIOUS
    <3>2. UNCHANGED <<mem, pend, ends>> \/ end({q})
      BY <1>6 DEF Fail
    <3> QED
      BY <2>1, <3>1, <3>2, EndTyped, Untouched
  <2> QED
    BY <1>6, <1>i, <2>1, <2>2, Untouched, Retyped DEF Fail, history
<1> QED
  BY <1>1, <1>2, <1>3, <1>4, <1>5, <1>6

LEMMA LoginTypeStep ==
    ASSUME TypeInv, NEW l \in Logins, SubmitLogin(l) \/ StartLogin(l) \/ Enter(l) \/ FailLogin(l)
    PROVE  TypeInv'
<1> USE DEF TypeInv, ClientTyped
<1>i. /\ NoLogin \in LoginSet(Known) /\ NoLogin.phase = "idle" /\ NoLogin.tok = None
      /\ login[l] \in LoginSet(Known) /\ (login[l].phase \in {"answered", "saving"} <=> login[l].tok # None)
  BY IdleTyped DEF Known, LoginTyped, NoLogin
<1>s. Known' = Known /\ ServerTypeOK'
  BY DEF server, Known, ServerTypeOK, SubmitLogin, StartLogin, Enter, FailLogin
<1>1. CASE SubmitLogin(l)
  <2> DEFINE r == [login[l] EXCEPT !.phase = "sent"]
  <2>1. r \in LoginSet(Known) /\ r.phase = "sent" /\ r.tok = None
    BY <1>1, <1>i DEF LoginSet, SubmitLogin
  <2>2. LoginTyped(Known)'
    BY <1>1, <1>s, <2>1, Retyped DEF SubmitLogin
  <2> QED
    BY <1>1, <1>s, <2>2, Untouched DEF SubmitLogin, storage, history
<1>2. CASE StartLogin(l)
  <2> DEFINE r == [login[l] EXCEPT !.phase = "saving"]
  <2>1. r \in LoginSet(Known) /\ r.phase = "saving" /\ r.tok # None
    BY <1>2, <1>i DEF LoginSet, StartLogin
  <2>2. LoginTyped(Known)'
    BY <1>2, <1>s, <2>1, Retyped DEF StartLogin
  <2>3. l \in Tasks /\ login[l].tok \in Known
    BY <1>i DEF Tasks, LoginSet
  <2>4. StorageTyped(Known)'
    BY <1>2, <1>s, <2>3, SaveTyped DEF StartLogin
  <2> QED
    BY <1>2, <1>s, <2>2, <2>4, Untouched DEF StartLogin, history
<1>3. CASE Enter(l)
  <2>1. LoginTyped(Known)'
    BY <1>3, <1>i, <1>s, Retyped DEF Enter
  <2> QED
    BY <1>3, <1>s, <2>1, Untouched DEF Enter, storage, FlowTyped, history
<1>4. CASE FailLogin(l)
  <2>1. LoginTyped(Known)'
    BY <1>4, <1>i, <1>s, Retyped DEF FailLogin
  <2> QED
    BY <1>4, <1>s, <2>1, Untouched DEF FailLogin, storage, FlowTyped, Lose, Reasons
<1> QED
  BY <1>1, <1>2, <1>3, <1>4

\* The steps of the backend: the table grows or is cut, what the phone knew stays.
LEMMA ServerTypeStep ==
    ASSUME TypeInv,
           \/ ServeRefresh \/ ServeRefreshWhileRevoking \/ Elsewhere
           \/ \E l \in Logins, u \in Users : ServeLogin(l, u)
           \/ \E g \in ghosts : ServeGhost(g)
    PROVE  TypeInv'
<1> USE DEF TypeInv, ClientTyped
<1>w. ASSUME ServerTypeOK', Known \subseteq Known', UNCHANGED <<mem, pend, ends, disk, req>>, FlowTyped',
             UNCHANGED rf \/ RefreshTyped(Known)', UNCHANGED login \/ LoginTyped(Known)', ghosts' \subseteq ghosts
      PROVE  TypeInv'
  <2>1. ClientTyped(Known')
    BY <1>w, Wider
  <2>2. StorageTyped(Known)' /\ disk' \in [Keys -> Known'] /\ req' \in [Calls -> RequestSet(Known')]
    BY <1>w, <2>1 DEF StorageTyped
  <2>3. ghosts' \subseteq Known' \ {None}
    BY <1>w
  <2>4. RefreshTyped(Known)'
    BY <1>w, <2>1 DEF RefreshTyped
  <2>5. LoginTyped(Known)'
    BY <1>w, <2>1 DEF LoginTyped
  <2> QED
    BY <1>w, <2>2, <2>3, <2>4, <2>5
<1>p. rf.phase = "sent" => rf.tok \in DOMAIN rows
  BY DEF RefreshTyped, RefreshSet, Known
<1>1. CASE ServeRefresh
  <2>1. rf.tok \in DOMAIN rows /\ Refresh(rf.tok, None, {}) /\ version' \in [Users -> 0..MaxVersion]
    BY <1>1, <1>p, ServerTyped DEF ServeRefresh
  <2>2. /\ ServerTypeOK' /\ Known \subseteq Known'
        /\ Renewable(rf.tok) => Len(rows) + 1 \in DOMAIN rows' \ {None}
    BY <2>1, Refreshes
  <2>3. RefreshTyped(Known)'
    <3>1. CASE Renewable(rf.tok)
      <4>1. rf' = [phase |-> "answered", tok |-> Len(rows) + 1]
        BY <1>1, <3>1 DEF ServeRefresh
      <4> QED
        BY <2>2, <3>1, <4>1 DEF RefreshTyped, RefreshSet, Known
    <3>2. CASE ~Renewable(rf.tok)
      BY <1>1, <3>2 DEF ServeRefresh, RefreshTyped, RefreshSet, Known
    <3> QED
      BY <3>1, <3>2
  <2>4. FlowTyped'
    BY <1>1, Marks DEF ServeRefresh, FlowTyped, Presented, Reasons
  <2> QED
    BY <1>1, <1>w, <2>2, <2>3, <2>4 DEF ServeRefresh, storage
<1>2. CASE ServeRefreshWhileRevoking
  <2> DEFINE u == rows[rf.tok].user
  <2>1. rf.tok \in DOMAIN rows /\ u \in Users
    BY <1>2, <1>p, RowTyped, ServerTyped DEF ServeRefreshWhileRevoking, AuthRow
  <2>2. Refresh(rf.tok, None, RowsOf(u)) /\ version' \in [Users -> 0..MaxVersion]
    <3>1. version[u] + 1 \in 0..MaxVersion
      BY <1>2, <2>1, AuthAssumption DEF ServeRefreshWhileRevoking, ServerTypeOK
    <3> QED
      BY <1>2, <2>1, <3>1 DEF ServeRefreshWhileRevoking, ServerTypeOK
  <2>3. ServerTypeOK' /\ Known \subseteq Known' /\ Len(rows) + 1 \in DOMAIN rows' \ {None}
    BY <1>2, <2>1, <2>2, Refreshes DEF ServeRefreshWhileRevoking
  <2>4. RefreshTyped(Known)'
    <3>1. rf' = [phase |-> "answered", tok |-> Len(rows) + 1]
      BY <1>2 DEF ServeRefreshWhileRevoking
    <3> QED
      BY <2>3, <3>1 DEF RefreshTyped, RefreshSet, Known
  <2>5. FlowTyped'
    BY <1>2, Marks DEF ServeRefreshWhileRevoking, FlowTyped, Reasons
  <2> QED
    BY <1>2, <1>w, <2>3, <2>4, <2>5 DEF ServeRefreshWhileRevoking, storage
<1>3. CASE Elsewhere
  <2>1. ServerTypeOK' /\ Known' = Known
    <3>1. ASSUME NEW u \in Users, RevokeAll(u) PROVE SameRows
      BY <3>1, RevokesAll
    <3>2. ASSUME NEW s \in DOMAIN rows, Expire(s) PROVE SameRows
      BY <3>2, ExpiredRows DEF SameRows, ServerTypeOK, TypedRows, Expire
    <3> QED
      BY <1>3, <3>1, <3>2 DEF Elsewhere, SameRows, Known
  <2>2. FlowTyped'
    BY <1>3, Marks DEF Elsewhere, FlowTyped, Reasons
  <2> QED
    BY <1>3, <1>w, <2>1, <2>2 DEF Elsewhere, storage
<1>4. ASSUME NEW l \in Logins, NEW u \in Users, ServeLogin(l, u) PROVE TypeInv'
  <2> DEFINE n == Len(rows) + 1
  <2>1. Started(rows', n, None)
    BY <1>4, StartedRows DEF ServeLogin
  <2>2. ServerTypeOK' /\ Known \subseteq Known' /\ n \in Known' /\ n # None
    <3>1. TypedRows(rows') /\ DOMAIN rows' = DOMAIN rows \cup {n} /\ n \in 1..MaxRows /\ version' = version
      BY <1>4, <2>1 DEF Started, Grows, ServeLogin
    <3> QED
      BY <3>1, AuthAssumption DEF ServerTypeOK, TypedRows, Known
  <2>3. LoginTyped(Known)'
    <3>1. login' = [login EXCEPT ![l] = [phase |-> "answered", tok |-> n]]
      BY <1>4 DEF ServeLogin
    <3>2. LoginTyped(Known')
      BY <2>2, Wider
    <3>3. [phase |-> "answered", tok |-> n] \in LoginSet(Known')
      BY <2>2 DEF LoginSet
    <3>4. login' \in [Logins -> LoginSet(Known')]
      BY <3>1, <3>2, <3>3 DEF LoginTyped
    <3>5. \A k \in Logins : login'[k].phase \in {"answered", "saving"} <=> login'[k].tok # None
      <4>1. \A k \in Logins : k # l => login'[k] = login[k]
        BY <3>1, <3>2 DEF LoginTyped
      <4>2. login'[l] = [phase |-> "answered", tok |-> n]
        BY <3>1, <3>2 DEF LoginTyped
      <4> QED
        BY <2>2, <3>2, <4>1, <4>2 DEF LoginTyped
    <3> QED
      BY <3>4, <3>5 DEF LoginTyped
  <2>4. FlowTyped'
    BY <1>4 DEF ServeLogin, FlowTyped, history
  <2> QED
    BY <1>4, <1>w, <2>2, <2>3, <2>4 DEF ServeLogin, storage
<1>5. ASSUME NEW g \in ghosts, ServeGhost(g) PROVE TypeInv'
  <2>1. g \in DOMAIN rows /\ Refresh(g, None, {}) /\ version' \in [Users -> 0..MaxVersion]
    BY <1>5, ServerTyped DEF ServeGhost, Known
  <2>2. ServerTypeOK' /\ Known \subseteq Known'
    BY <2>1, Refreshes
  <2>3. FlowTyped'
    BY <1>5, Marks DEF ServeGhost, FlowTyped, Presented, Reasons
  <2> QED
    BY <1>5, <1>w, <2>2, <2>3 DEF ServeGhost, storage
<1> QED
  BY <1>1, <1>2, <1>3, <1>4, <1>5

LEMMA KillTypeStep == ASSUME TypeInv, Kill PROVE TypeInv'
<1> USE DEF TypeInv, ClientTyped
<1>1. SameRows
  BY UnheardCloses DEF Kill
<1>2. Known' = Known /\ ServerTypeOK' /\ None \in Known
  BY <1>1 DEF SameRows, Known
<1>3. StorageTyped(Known)'
  <2>1. << >> \in Seq(WriteSet(Known))
    OBVIOUS
  <2> QED
    BY <1>2, <2>1 DEF Kill, StorageTyped
<1>4. FlowTyped'
  <2>1. kills' \in 0..MaxKills
    BY MobileAssumption DEF Kill, FlowTyped
  <2> QED
    BY <2>1 DEF Kill, FlowTyped, Lose, Reasons
<1>5. RefreshTyped(Known)' /\ req' \in [Calls -> RequestSet(Known')] /\ LoginTyped(Known)'
  <2>1. NoRefresh.phase = "idle" /\ NoLogin.phase = "idle" /\ NoLogin.tok = None
    BY DEF NoRefresh, NoLogin
  <2> QED
    BY <1>2, <2>1, IdleTyped DEF Kill, RefreshTyped, LoginTyped
<1>6. ghosts' \subseteq Known' \ {None}
  BY <1>2 DEF Kill, RefreshTyped, RefreshSet
<1> QED
  BY <1>2, <1>3, <1>4, <1>5, <1>6, Untouched DEF Kill

LEMMA MobileTypeStep == TypeInv /\ [Next]_vars => TypeInv'
<1> SUFFICES ASSUME TypeInv, [Next]_vars PROVE TypeInv'
  OBVIOUS
<1>1. CASE UNCHANGED vars
  <2>1. Known' = Known /\ ServerTypeOK'
    BY <1>1 DEF vars, Known, TypeInv, ServerTypeOK
  <2> QED
    BY <1>1, <2>1, Untouched DEF vars, TypeInv, ClientTyped
<1>2. CASE Next
  <2>1. CASE UNCHANGED server /\ \/ Restore \/ ReadRefresh \/ LimitRefresh \/ DeliverRefresh \/ RefreshSaved \/ FailRefresh
                                 \/ \E k \in Keys : Store(k)
                                 \/ \E t \in Calls \cup {"restore"} : Ended(t)
    BY <2>1, ClientTypeStep
  <2>2. \/ Restore \/ ReadRefresh \/ LimitRefresh \/ DeliverRefresh \/ RefreshSaved \/ FailRefresh
        \/ \E k \in Keys : Store(k)
        \/ \E t \in Calls \cup {"restore"} : Ended(t)
        => UNCHANGED server
    BY DEF Restore, ReadRefresh, LimitRefresh, DeliverRefresh, RefreshSaved, FailRefresh, Store, Ended
  <2> QED
    BY <1>2, <2>1, <2>2, RequestTypeStep, LoginTypeStep, ServerTypeStep, KillTypeStep DEF Next
<1> QED
  BY <1>1, <1>2

LEMMA InitMobileTypes == Init => TypeInv
<1> SUFFICES ASSUME Init PROVE TypeInv
  OBVIOUS
<1>1. ServerTypeOK
  BY AuthAssumption DEF Init, ServerInit, ServerTypeOK
<1>2. StorageTyped(Known) /\ FlowTyped /\ disk \in [Keys -> Known] /\ ghosts \subseteq Known \ {None}
  BY MobileAssumption DEF Init, StorageTyped, FlowTyped, Known
<1>3. RefreshTyped(Known) /\ req \in [Calls -> RequestSet(Known)] /\ LoginTyped(Known)
  <2>1. NoRefresh.phase = "idle" /\ NoLogin.phase = "idle" /\ NoLogin.tok = None /\ None \in Known
    BY DEF NoRefresh, NoLogin, Known
  <2> QED
    BY <2>1, IdleTyped DEF Init, RefreshTyped, LoginTyped
<1> QED
  BY <1>1, <1>2, <1>3 DEF TypeInv, ClientTyped

LEMMA TypeInvCorrect == Spec => []TypeInv
<1>1. TypeInv /\ [Next]_vars => TypeInv'
  BY MobileTypeStep
<1> QED
  BY <1>1, InitMobileTypes, PTL DEF Spec

(* Every token the phone holds, in memory, in its storage or in a request, is  *)
(* one of the sessions of the backend: nothing else is ever presented.         *)
THEOREM MobileTypeCorrect == Spec => []MobileTypeOK
BY TypeInvCorrect, TypesNamed, PTL

-----------------------------------------------------------------------------
(* Where the application is: while it loads there is no request, no login and  *)
(* no refresh but the one of restore().                                        *)

Closing(q) == req[q].kind # "call" \/ req[q].phase = "answered"

Shape ==
    /\ status = "loading" <=> boot # "done"
    /\ status = "loading" => /\ \A q \in Calls : req[q] = Idle
                             /\ \A l \in Logins : login[l] = NoLogin
                             /\ ends \subseteq {"restore"}
    /\ boot \in {"start", "ending"} => rf = NoRefresh
    /\ boot = "start" => ends = {} /\ \A k \in Keys : pend[k] = << >>
    /\ ghosts # {} => Lost
    /\ \A q \in Calls : Closing(q) => Lost \/ "closed" \in why

LEMMA ShapeStep == ASSUME TypeInv, Shape, [Next]_vars PROVE Shape'
<1> USE DEF TypeInv, ClientTyped, FlowTyped
<1>n. Idle.kind = "call" /\ Idle.phase = "idle" /\ NoRefresh.phase = "idle" /\ NoLogin.phase = "idle"
  BY DEF Idle, NoRefresh, NoLogin
<1>m. Lost' \/ (~Lost /\ why \subseteq why')
  BY MarksStay
<1>k. ASSUME boot = "done", UNCHANGED <<boot, status>>, UNCHANGED ghosts,
             \A q \in Calls : Closing(q)' => Closing(q) \/ "closed" \in why' \/ Lost'
      PROVE  Shape'
  BY <1>k, <1>m DEF Shape
<1>b. ASSUME rf.phase # "idle", boot # "refreshing" PROVE boot = "done"
  BY <1>n, <1>b DEF Shape
<1>q. ASSUME NEW q \in Calls, req[q] # Idle PROVE boot = "done"
  BY <1>q DEF Shape
<1>l. ASSUME NEW l \in Logins, login[l] # NoLogin PROVE boot = "done"
  BY <1>l DEF Shape
<1>s. ASSUME NEW outcome \in {"renewed", "refused", "error"}, Settle(outcome), rf.phase # "idle",
             UNCHANGED login, ghosts' # {} => Lost'
      PROVE  Shape'
  <2>1. CASE boot # "refreshing"
    <3>1. \A q \in Calls : Closing(q)' => Closing(q)
      <4> SUFFICES ASSUME NEW q \in Calls, Closing(q)' PROVE Closing(q)
        OBVIOUS
      <4> DEFINE e == [req[q] EXCEPT !.phase = "resent", !.tok = mem]
      <4>1. e.kind = req[q].kind /\ e.phase = "resent"
        <5>1. req[q] \in RequestSet(Known)
          OBVIOUS
        <5> QED
          BY <5>1 DEF RequestSet
      <4>2. req'[q] = Idle \/ req'[q] = req[q] \/ req'[q] = e
        BY <1>s, <2>1, Settles
      <4> QED
        BY <1>n, <4>1, <4>2 DEF Closing
    <3>2. boot = "done" /\ UNCHANGED <<boot, status>>
      BY <1>b, <1>s, <2>1, Settles
    <3> QED
      BY <1>m, <1>s, <3>1, <3>2 DEF Shape
  <2>2. CASE boot = "refreshing"
    <3>1. rf' = NoRefresh /\ UNCHANGED req /\ \/ boot' = "ending" /\ status' = status /\ end({"restore"})
                                              \/ boot' = "done" /\ status' = "signedIn"
      BY <1>s, <2>2, Settles
    <3> QED
      BY <1>m, <1>s, <2>2, <3>1 DEF Shape, Closing, end
  <2> QED
    BY <2>1, <2>2
<1>1. CASE UNCHANGED vars
  BY <1>1 DEF vars, Shape, Closing, Lost
<1>2. CASE Restore
  BY <1>2, <1>m DEF Restore, Entering, end, Shape, Closing, history
<1>3. CASE ReadRefresh
  <2>1. CASE disk["refresh"] = None
    BY <1>3, <1>m, <1>s, <2>1 DEF ReadRefresh, history, Shape, Closing
  <2>2. CASE disk["refresh"] # None
    BY <1>3, <1>m, <1>n, <2>2 DEF ReadRefresh, history, Shape, Closing
  <2> QED
    BY <2>1, <2>2
<1>4. CASE ServeRefresh
  BY <1>4, <1>m, <1>n DEF ServeRefresh, storage, Shape, Closing
<1>5. CASE ServeRefreshWhileRevoking
  BY <1>5, <1>m, <1>n DEF ServeRefreshWhileRevoking, storage, Shape, Closing
<1>6. CASE LimitRefresh
  BY <1>6, <1>m, <1>n DEF LimitRefresh, storage, Shape, Closing
<1>7. CASE DeliverRefresh
  <2>1. CASE rf.phase = "answered"
    BY <1>7, <1>m, <1>n, <2>1 DEF DeliverRefresh, history, Shape, Closing
  <2>2. CASE rf.phase # "answered"
    BY <1>7, <1>m, <1>s, <2>2 DEF DeliverRefresh, history, Shape, Closing
  <2> QED
    BY <2>1, <2>2
<1>8. CASE RefreshSaved
  BY <1>8, <1>m, <1>s DEF RefreshSaved, history, Shape, Closing
<1>9. CASE FailRefresh
  <2>1. ghosts' # {} => Lost'
    BY <1>9, <1>m DEF FailRefresh, Shape, Lose, Lost
  <2> QED
    BY <1>9, <1>s, <2>1 DEF FailRefresh
<1>10. CASE Kill
  <2>1. ghosts' # {} => Lost'
    <3>1. CASE rf.phase = "sent"
      BY <1>10, <3>1 DEF Kill, Lose, Lost
    <3>2. CASE rf.phase # "sent"
      BY <1>10, <1>m, <3>2 DEF Kill, Shape
    <3> QED
      BY <3>1, <3>2
  <2> QED
    BY <1>10, <1>m, <1>n, <2>1 DEF Kill, Shape, Closing
<1>11. CASE Elsewhere
  BY <1>11, <1>m DEF Elsewhere, storage, Shape, Closing
<1>12. ASSUME NEW k \in Keys, Store(k) PROVE Shape'
  BY <1>12, <1>m DEF Store, Shape, Closing, history
<1>13. ASSUME NEW t \in Calls \cup {"restore"}, Ended(t) PROVE Shape'
  BY <1>13, <1>m DEF Ended, Shape, Closing, storage, history
<1>14. ASSUME NEW q \in Calls, NEW kind \in Kinds, Send(q, kind) PROVE Shape'
  <2>1. boot = "done" /\ UNCHANGED <<boot, status, ghosts>>
    BY <1>14, <1>m DEF Send, Shape, Closing
  <2>2. \A p \in Calls : req'[p] = IF p = q THEN [phase |-> "sent", kind |-> kind, tok |-> mem] ELSE req[p]
    BY <1>14, <1>m DEF Send
  <2>3. kind = "call" \/ "closed" \in why' \/ Lost'
    BY <1>14, <1>m DEF Send, Mark, Lost
  <2> QED
    BY <1>k, <2>1, <2>2, <2>3 DEF Closing
<1>15. ASSUME NEW q \in Calls, Answer(q) \/ Unauthorized(q) \/ ServeClosing(q) \/ Close(q) \/ Fail(q) PROVE Shape'
  <2>1. boot = "done"
    BY <1>15, <1>n, <1>q DEF Answer, Unauthorized, ServeClosing, Close, Fail
  <2>2. UNCHANGED <<boot, status, ghosts, why>>
    BY <1>15, <1>m DEF Answer, Unauthorized, ServeClosing, Close, Fail, history
  <2>3. \A p \in Calls : Closing(p)' => Closing(p)
    <3>1. req[q] \in RequestSet(Known)
      OBVIOUS
    <3>2. \A p \in Calls : \/ req'[p] \in {Idle, req[p]}
                           \/ p = q /\ req'[p] = [req[p] EXCEPT !.phase = "waiting"]
                           \/ p = q /\ req[p].kind # "call"
      BY <1>15, <1>m DEF Answer, Unauthorized, ServeClosing, Close, Fail
    <3>3. [req[q] EXCEPT !.phase = "waiting"].kind = req[q].kind /\ [req[q] EXCEPT !.phase = "waiting"].phase = "waiting"
      BY <3>1 DEF RequestSet
    <3> QED
      BY <1>n, <3>2, <3>3 DEF Closing
  <2> QED
    BY <1>k, <2>1, <2>2, <2>3
<1>16. ASSUME NEW l \in Logins, SubmitLogin(l) \/ StartLogin(l) \/ FailLogin(l) \/ \E u \in Users : ServeLogin(l, u)
       PROVE  Shape'
  <2>1. boot = "done" /\ UNCHANGED <<boot, status, ghosts, req>>
    BY <1>16, <1>m, <1>n, <1>l DEF SubmitLogin, StartLogin, FailLogin, ServeLogin, history, Shape, Closing
  <2> QED
    BY <1>k, <2>1 DEF Closing
<1>17. ASSUME NEW l \in Logins, Enter(l) PROVE Shape'
  BY <1>17, <1>m, <1>n, <1>l DEF Enter, Shape, Closing, storage, history
<1>18. ASSUME NEW g \in ghosts, ServeGhost(g) PROVE Shape'
  BY <1>18, <1>m DEF ServeGhost, Shape, Closing, storage
<1> QED
  BY <1>1, <1>2, <1>3, <1>4, <1>5, <1>6, <1>7, <1>8, <1>9, <1>10, <1>11, <1>12, <1>13, <1>14, <1>15, <1>16,
     <1>17, <1>18 DEF Next

-----------------------------------------------------------------------------
(* The refresh tokens of the phone, as long as none is lost: each is in        *)
(* one place only, and none was presented but the one that is being replaced.  *)

Queue == pend["refresh"]
InQueue(s) == \E i \in DOMAIN Queue : Queue[i].val = s
Writes(t)  == \E i \in DOMAIN Queue : t \in Queue[i].by
Logged(l)  == login[l].phase = "answered"
InLogin(s) == \E l \in Logins : Logged(l) /\ login[l].tok = s
Stored     == disk["refresh"]
DiskFresh  == Stored # None => ~rows[Stored].rotated

Renews     == \E i \in DOMAIN Queue : "refresh" \in Queue[i].by /\ Queue[i].val # None

QueuedOnce == \A i, j \in DOMAIN Queue : Queue[i].val = Queue[j].val /\ Queue[i].val # None => i = j

Once ==
    /\ QueuedOnce
    /\ \A k, l \in Logins : Logged(k) /\ Logged(l) /\ login[k].tok = login[l].tok => k = l
    /\ \A s \in DOMAIN rows : InLogin(s) => ~InQueue(s) /\ s # Stored
    /\ Stored # None => ~InQueue(Stored)
    /\ rf.phase \in {"sent", "answered"} => ~InQueue(rf.tok) /\ ~InLogin(rf.tok)
    /\ rf.phase = "answered" => rf.tok # Stored

Fresh ==
    /\ \A s \in DOMAIN rows : InQueue(s) \/ InLogin(s) => ~rows[s].rotated
    /\ rf.phase \in {"sent", "answered"} => ~rows[rf.tok].rotated
    /\ DiskFresh \/ rf.phase = "answered" \/ (rf.phase = "saving" /\ Renews)

TokensInv == ~Lost => Once /\ Fresh

LEMMA QueueTyped ==
    ASSUME TypeInv
    PROVE  /\ Queue \in Seq(WriteSet(Known)) /\ Len(Queue) \in Nat /\ DOMAIN Queue = 1..Len(Queue)
           /\ \A i \in DOMAIN Queue : Queue[i] \in WriteSet(Known) /\ Queue[i].val \in Known
           /\ Stored \in Known
<1>1. Queue \in Seq(WriteSet(Known)) /\ Stored \in Known
  BY DEF TypeInv, ClientTyped, StorageTyped, Queue, Keys, Stored
<1>2. Len(Queue) \in Nat /\ DOMAIN Queue = 1..Len(Queue) /\ \A i \in DOMAIN Queue : Queue[i] \in WriteSet(Known)
  BY <1>1
<1> QED
  BY <1>1, <1>2 DEF WriteSet

LEMMA Enqueued ==
    ASSUME TypeInv, NEW w \in WriteSet(Known), Queue' = Append(Queue, w)
    PROVE  /\ \A s : InQueue(s)' <=> InQueue(s) \/ s = w.val
           /\ \A t : Writes(t)' <=> Writes(t) \/ t \in w.by
           /\ Renews \/ ("refresh" \in w.by /\ w.val # None) => Renews'
           /\ QueuedOnce /\ (w.val # None => ~InQueue(w.val)) => QueuedOnce'
<1> DEFINE n == Len(Queue) + 1
<1>1. /\ DOMAIN Queue' = DOMAIN Queue \cup {n} /\ n \notin DOMAIN Queue /\ Queue'[n] = w
      /\ \A i \in DOMAIN Queue : Queue'[i] = Queue[i]
  BY QueueTyped
<1> QED
  BY <1>1 DEF InQueue, Writes, Renews, QueuedOnce

\* A queue left alone, or with a deletion more.
Deletion(T) == [val |-> None, by |-> T]
Stays == Queue' = Queue \/ \E T \in SUBSET Tasks : Queue' = Append(Queue, Deletion(T))

LEMMA StaysQueued ==
    ASSUME TypeInv, Stays
    PROVE  /\ \A s : s # None => (InQueue(s)' <=> InQueue(s))
           /\ \A t : Writes(t) => Writes(t)'
           /\ Renews => Renews'
           /\ QueuedOnce => QueuedOnce'
<1>1. CASE Queue' = Queue
  BY <1>1 DEF InQueue, Writes, Renews, QueuedOnce
<1>2. ASSUME NEW T \in SUBSET Tasks, Queue' = Append(Queue, Deletion(T))
      PROVE  /\ \A s : s # None => (InQueue(s)' <=> InQueue(s))
             /\ \A t : Writes(t) => Writes(t)'
             /\ Renews => Renews'
             /\ QueuedOnce => QueuedOnce'
  <2>1. Deletion(T) \in WriteSet(Known) /\ Deletion(T).val = None
    BY DEF Deletion, WriteSet, Known
  <2> QED
    BY <1>2, <2>1, Enqueued
<1> QED
  BY <1>1, <1>2 DEF Stays

LEMMA EndStays == ASSUME NEW T \in SUBSET (Calls \cup {"restore"}), end(T) PROVE Stays
BY DEF end, Stays, Deletion, Queue, Keys, Tasks

LEMMA SettleStays ==
    ASSUME TypeInv, NEW outcome \in {"renewed", "refused", "error"}, Settle(outcome)
    PROVE  Stays /\ rf' = NoRefresh
<1>1. CASE UNCHANGED <<mem, pend, ends>>
  BY <1>1, Settles DEF Stays, Queue
<1>2. ASSUME NEW T \in SUBSET (Calls \cup {"restore"}), end(T) PROVE Stays
  BY <1>2, EndStays
<1> QED
  BY <1>1, <1>2, Settles

SameMarks == DOMAIN rows' = DOMAIN rows /\ \A i \in DOMAIN rows : rows'[i].rotated = rows[i].rotated

\* No token moves, and a refresh that is left was over.
LEMMA SameTokens ==
    ASSUME TypeInv, Once, Fresh, SameMarks, Stays, Stored' = Stored,
           \A l \in Logins : Logged(l)' => login'[l] = login[l],
           rf' = rf \/ (rf'.phase \notin {"sent", "answered", "saving"} /\ DiskFresh)
    PROVE  Once' /\ Fresh'
<1> USE DEF TypeInv, ClientTyped
<1>1. Stored \in Known /\ None \notin DOMAIN rows
  BY QueueTyped, KnownSids
<1>2. \A l \in Logins : Logged(l)' => Logged(l) /\ login'[l] = login[l]
  BY DEF Logged
<1>3. \A s : InLogin(s)' => InLogin(s)
  BY <1>2 DEF InLogin
<1>4. rf.phase \in {"sent", "answered"} => rf.tok \in DOMAIN rows
  BY DEF RefreshTyped, RefreshSet, Known
<1>5. \A s : s # None => (InQueue(s)' <=> InQueue(s))
  BY StaysQueued
<1>6. Once'
  BY <1>1, <1>2, <1>3, <1>4, <1>5, StaysQueued DEF Once, SameMarks
<1>7. Fresh'
  <2>1. \A s \in DOMAIN rows' : InQueue(s)' \/ InLogin(s)' => ~rows'[s].rotated
    BY <1>1, <1>3, <1>5 DEF Fresh, SameMarks
  <2>2. rf'.phase \in {"sent", "answered"} => ~rows'[rf'.tok].rotated
    BY <1>4 DEF Fresh, SameMarks
  <2>3. DiskFresh => DiskFresh'
    BY <1>1 DEF DiskFresh, SameMarks, Known
  <2> QED
    BY <2>1, <2>2, <2>3, StaysQueued DEF Fresh
<1> QED
  BY <1>6, <1>7

\* A token moves from an answer to the writes of the storage.
LEMMA MovedTokens ==
    ASSUME TypeInv, Once, Fresh, UNCHANGED rows, Stored' = Stored,
           NEW t \in Tasks, NEW v \in DOMAIN rows, Queue' = Append(Queue, [val |-> v, by |-> {t}]),
           ~InQueue(v), v # Stored, ~rows[v].rotated, ~InLogin(v)',
           \A l \in Logins : Logged(l)' => login'[l] = login[l],
           rf'.phase \in {"sent", "answered"} => rf'.tok # v,
           rf' = rf \/ (rf'.phase = "saving" /\ t = "refresh")
    PROVE  Once' /\ Fresh'
<1> USE DEF TypeInv, ClientTyped
<1> DEFINE w == [val |-> v, by |-> {t}]
<1>1. Stored \in Known /\ None \notin DOMAIN rows
  BY QueueTyped, KnownSids
<1>2. w \in WriteSet(Known) /\ w.val = v /\ w.by = {t}
  BY DEF WriteSet, Known
<1> HIDE DEF w
<1>3. /\ \A s : InQueue(s)' <=> InQueue(s) \/ s = v
      /\ Renews \/ t = "refresh" => Renews'
      /\ QueuedOnce => QueuedOnce'
  <2>1. \A s : InQueue(s)' <=> InQueue(s) \/ s = v
    BY <1>2, Enqueued DEF w
  <2>2. Renews \/ t = "refresh" => Renews'
    <3>1. v # None
      BY <1>1
    <3> QED
      BY <1>2, <3>1, Enqueued DEF w
  <2>3. QueuedOnce => QueuedOnce'
    BY <1>2, Enqueued DEF w
  <2> QED
    BY <2>1, <2>2, <2>3
<1>4. \A l \in Logins : Logged(l)' => Logged(l) /\ login'[l] = login[l]
  BY DEF Logged
<1>5. \A s : InLogin(s)' => InLogin(s) /\ s # v
  BY <1>4 DEF InLogin
<1>6. Once'
  BY <1>1, <1>3, <1>4, <1>5 DEF Once
<1>7. Fresh'
  BY <1>1, <1>3, <1>5 DEF Fresh, DiskFresh
<1> QED
  BY <1>6, <1>7

\* The backend rotates the token that was presented.
LEMMA RotatedTokens ==
    ASSUME TypeInv, Once, Fresh, rf.phase = "sent", NEW S, Grown(rf.tok, S),
           rf' = [phase |-> "answered", tok |-> Len(rows) + 1],
           UNCHANGED <<disk, pend, login>>
    PROVE  Once' /\ Fresh'
<1> USE DEF TypeInv, ClientTyped
<1> DEFINE n == Len(rows) + 1
           s == rf.tok
<1>1. Stored \in Known /\ None \notin DOMAIN rows /\ \A i \in DOMAIN Queue : Queue[i].val \in Known
  BY QueueTyped, KnownSids
<1>2. \A l \in Logins : login[l].tok \in Known
  BY DEF LoginTyped, LoginSet
<1>3. s \in DOMAIN rows
  BY DEF RefreshTyped, RefreshSet, Known
<1>4. /\ DOMAIN rows' = DOMAIN rows \cup {n} /\ n \notin DOMAIN rows /\ n # None /\ ~rows'[n].rotated
      /\ \A i \in DOMAIN rows : rows'[i].rotated = (rows[i].rotated \/ i = s)
  BY AuthAssumption DEF Grown, Rotated, Grows
<1>5. rf'.phase = "answered" /\ rf'.tok = n
  OBVIOUS
<1> HIDE DEF n, s
<1>6. ~InQueue(n) /\ ~InLogin(n) /\ n # Stored
  BY <1>1, <1>2, <1>4 DEF InQueue, InLogin, Known
<1>7. /\ \A a : (InQueue(a)' <=> InQueue(a)) /\ (InLogin(a)' <=> InLogin(a))
      /\ \A l \in Logins : (Logged(l)' <=> Logged(l)) /\ login'[l] = login[l]
      /\ QueuedOnce' <=> QueuedOnce
      /\ Stored' = Stored
  BY DEF InQueue, InLogin, Logged, QueuedOnce, Queue, Stored
<1>8. Once'
  BY <1>4, <1>5, <1>6, <1>7 DEF Once
<1>9. Fresh'
  <2>1. ~InQueue(s) /\ ~InLogin(s)
    BY DEF Once, s
  <2> QED
    BY <1>4, <1>5, <1>6, <1>7, <2>1 DEF Fresh
<1> QED
  BY <1>8, <1>9

\* A kill that loses no token finds none on its way.
LEMMA KillsKept ==
    ASSUME Kill, ~Lost'
    PROVE  /\ ~Unwritten /\ rf.phase \notin {"sent", "answered"}
           /\ \A l \in Logins : login[l].phase # "answered"
<1> DEFINE cut  == rf.phase \in {"sent", "answered"} \/ \E l \in Logins : login[l].phase = "answered"
           gone == {m \in {"cut", "torn"} : (m = "cut" /\ cut) \/ (m = "torn" /\ Unwritten)}
<1>1. why' = Lose(gone)
  BY DEF Kill
<1>2. gone = {}
  BY <1>1 DEF Lose, Lost
<1>3. ~cut /\ ~Unwritten
  BY <1>2
<1> QED
  BY <1>3

LEMMA TokensStep == ASSUME TypeInv, TypeInv', Shape, TokensInv, [Next]_vars PROVE TokensInv'
<1> SUFFICES ASSUME ~Lost' PROVE Once' /\ Fresh'
  BY DEF TokensInv
<1> USE DEF TypeInv, ClientTyped
<1>n. NoRefresh.phase = "idle" /\ NoLogin.phase = "idle" /\ NoLogin.tok = None
  BY DEF NoRefresh, NoLogin
<1>m. Once /\ Fresh /\ ghosts = {}
  BY MarksStay DEF TokensInv, Shape
<1>r. UNCHANGED rows => SameMarks
  BY DEF SameMarks
<1>p. rf.phase \in {"sent", "answered", "saving"} => rf.tok \in DOMAIN rows
  BY DEF RefreshTyped, RefreshSet, Known
<1>e. ASSUME NEW outcome \in {"renewed", "refused", "error"}, Settle(outcome), UNCHANGED <<rows, disk, login>>, DiskFresh
      PROVE  Once' /\ Fresh'
  BY <1>e, <1>m, <1>n, <1>r, SettleStays, SameTokens DEF Stored
<1>1. CASE UNCHANGED vars
  BY <1>1, <1>m, <1>r, SameTokens DEF vars, Stays, Stored, Queue
<1>2. CASE Restore
  <2>1. UNCHANGED <<rows, disk, login>> /\ boot = "start"
    BY <1>2 DEF Restore, server, history
  <2>2. rf' = rf \/ rf'.phase = "reading"
    BY <1>2 DEF Restore, Entering, NoRefresh
  <2>3. rf.phase = "idle"
    BY <1>n, <2>1 DEF Shape
  <2>4. Stays
    BY <1>2, EndStays DEF Restore, Entering, Stays, Queue
  <2>5. DiskFresh
    BY <1>m, <2>1, <2>3 DEF Fresh
  <2> QED
    BY <1>m, <1>r, <2>1, <2>2, <2>4, <2>5, SameTokens DEF Stored
<1>3. CASE ReadRefresh
  <2>1. rf.phase = "reading" /\ UNCHANGED <<rows, disk, login>>
    BY <1>3 DEF ReadRefresh, server, history
  <2>2. DiskFresh /\ Once /\ Fresh
    BY <1>m, <2>1 DEF Fresh
  <2>3. CASE Stored = None
    BY <1>3, <1>e, <2>1, <2>2, <2>3 DEF ReadRefresh, Stored
  <2>4. CASE Stored # None
    <3>1. rf' = [phase |-> "sent", tok |-> Stored] /\ UNCHANGED pend
      BY <1>3, <2>4 DEF ReadRefresh, Stored
    <3>2. rf'.phase = "sent" /\ rf'.tok = Stored
      BY <3>1
    <3>3. /\ \A a : (InQueue(a)' <=> InQueue(a)) /\ (InLogin(a)' <=> InLogin(a))
          /\ \A l \in Logins : (Logged(l)' <=> Logged(l)) /\ login'[l] = login[l]
          /\ QueuedOnce' <=> QueuedOnce
          /\ Stored' = Stored
      BY <2>1, <3>1 DEF InQueue, InLogin, Logged, QueuedOnce, Queue, Stored
    <3>4. Stored \in DOMAIN rows
      BY <2>4, QueueTyped DEF Known
    <3>5. Once'
      BY <2>1, <2>2, <2>4, <3>2, <3>3, <3>4 DEF Once
    <3>6. Fresh'
      BY <2>1, <2>2, <2>4, <3>2, <3>3 DEF Fresh, DiskFresh
    <3> QED
      BY <3>5, <3>6
  <2> QED
    BY <2>3, <2>4
<1>4. CASE ServeRefresh
  <2>1. /\ rf.phase = "sent" /\ rf.tok \in DOMAIN rows /\ Refresh(rf.tok, None, {})
        /\ UNCHANGED <<disk, pend, login>> /\ version' \in [Users -> 0..MaxVersion]
    BY <1>4, <1>p, ServerTyped DEF ServeRefresh, storage
  <2>2. Once /\ Fresh /\ ServerTypeOK
    BY <1>m, <2>1
  <2>3. CASE Renewable(rf.tok)
    <3>1. Grown(rf.tok, {})
      BY <2>1, <2>2, <2>3, Refreshes
    <3>2. rf' = [phase |-> "answered", tok |-> Len(rows) + 1]
      BY <1>4, <2>3 DEF ServeRefresh
    <3> QED
      BY <2>1, <2>2, <3>1, <3>2, RotatedTokens
  <2>4. CASE ~Renewable(rf.tok)
    <3>1. Severed(rf.tok)
      BY <2>1, <2>2, <2>4, Refreshes
    <3>2. SameMarks
      BY <3>1 DEF Severed, Cut, SameMarks
    <3>3. rf'.phase = "refused"
      BY <1>4, <2>4 DEF ServeRefresh
    <3>4. DiskFresh
      BY <2>1, <2>2 DEF Fresh
    <3> QED
      BY <2>1, <2>2, <3>2, <3>3, <3>4, SameTokens DEF Stays, Queue, Stored
  <2> QED
    BY <2>3, <2>4
<1>5. CASE ServeRefreshWhileRevoking
  <2>1. /\ rf.phase = "sent" /\ rf.tok \in DOMAIN rows /\ Renewable(rf.tok)
        /\ UNCHANGED <<disk, pend, login>> /\ version' \in [Users -> 0..MaxVersion]
    BY <1>5, <1>p DEF ServeRefreshWhileRevoking, storage, ServerTypeOK
  <2>2. Refresh(rf.tok, None, RowsOf(rows[rf.tok].user)) /\ rf' = [phase |-> "answered", tok |-> Len(rows) + 1]
    BY <1>5 DEF ServeRefreshWhileRevoking
  <2>3. Grown(rf.tok, RowsOf(rows[rf.tok].user))
    BY <2>1, <2>2, Refreshes
  <2> QED
    BY <1>m, <2>1, <2>2, <2>3, RotatedTokens
<1>6. CASE LimitRefresh
  <2>1. rf.phase = "sent" /\ rf'.phase = "refused" /\ UNCHANGED <<rows, disk, pend, login>>
    BY <1>6 DEF LimitRefresh, server, storage
  <2>2. DiskFresh
    BY <1>m, <2>1 DEF Fresh
  <2> QED
    BY <1>m, <1>r, <2>1, <2>2, SameTokens DEF Stays, Queue, Stored
<1>7. CASE DeliverRefresh
  <2>1. CASE rf.phase = "answered"
    <3>v. PICK v \in DOMAIN rows : v = rf.tok
      BY <1>p, <2>1
    <3>1. /\ saveTokens("refresh", v) /\ rf' = [rf EXCEPT !.phase = "saving"]
          /\ UNCHANGED <<rows, disk, login>>
      BY <1>7, <2>1, <3>v DEF DeliverRefresh, server, history
    <3>2. Queue' = Append(Queue, [val |-> v, by |-> {"refresh"}]) /\ rf'.phase = "saving" /\ "refresh" \in Tasks
      BY <3>1 DEF saveTokens, Queue, Keys, Tasks, RefreshTyped, RefreshSet
    <3>3. Once /\ Fresh /\ Stored' = Stored /\ \A l \in Logins : login'[l] = login[l]
      BY <1>m, <3>1 DEF Stored
    <3>4. ~InQueue(v) /\ v # Stored /\ ~rows[v].rotated /\ ~InLogin(v)'
      BY <2>1, <3>1, <3>3, <3>v DEF Once, Fresh, InLogin, Logged
    <3> QED
      BY <3>1, <3>2, <3>3, <3>4, MovedTokens
  <2>2. CASE rf.phase # "answered"
    <3>1. rf.phase = "refused" /\ Settle("refused") /\ UNCHANGED <<rows, disk, login>>
      BY <1>7, <2>2 DEF DeliverRefresh, server, history
    <3>2. DiskFresh
      BY <1>m, <3>1 DEF Fresh
    <3> QED
      BY <1>e, <3>1, <3>2
  <2> QED
    BY <2>1, <2>2
<1>8. CASE RefreshSaved
  <2>1. rf.phase = "saving" /\ Written("refresh") /\ Settle("renewed") /\ UNCHANGED <<rows, disk, login>>
    BY <1>8 DEF RefreshSaved, server, history
  <2>2. ~Renews
    BY <2>1 DEF Written, Renews, Queue, Keys
  <2>3. DiskFresh
    BY <1>m, <2>1, <2>2 DEF Fresh
  <2> QED
    BY <1>e, <2>1, <2>3
<1>9. CASE FailRefresh
  <2>1. rf.phase = "refused" /\ Settle("error") /\ UNCHANGED <<rows, disk, login>>
    BY <1>9 DEF FailRefresh, server, Lose, Lost
  <2>2. DiskFresh
    BY <1>m, <2>1 DEF Fresh
  <2> QED
    BY <1>e, <2>1, <2>2
<1>10. CASE Kill
  <2>1. ~Unwritten /\ rf.phase \notin {"sent", "answered"}
    BY <1>10, KillsKept
  <2>2. /\ Stored' = Stored /\ rf' = NoRefresh /\ Queue' = << >>
        /\ \A l \in Logins : login'[l] = NoLogin
    BY <1>10 DEF Kill, Queue, Keys, Stored
  <2>3. SameMarks /\ Stored \in Known
    BY <1>10, UnheardCloses, QueueTyped DEF Kill, SameRows, SameMarks
  <2>4. DiskFresh'
    <3>1. ~Renews
      BY <2>1 DEF Unwritten, Renews, Queue
    <3> QED
      BY <1>m, <2>1, <2>2, <2>3, <3>1 DEF Fresh, DiskFresh, SameMarks, Known
  <2>5. (\A s : ~InQueue(s)' /\ ~InLogin(s)') /\ QueuedOnce' /\ \A l \in Logins : ~Logged(l)'
    BY <1>n, <2>2 DEF InQueue, InLogin, Logged, QueuedOnce
  <2> QED
    BY <1>n, <2>2, <2>4, <2>5 DEF Once, Fresh
<1>11. CASE Elsewhere
  <2>1. UNCHANGED <<disk, pend, login, rf>>
    BY <1>11 DEF Elsewhere, storage
  <2>2. SameMarks
    BY <1>11, RevokesAll, ExpiredRows DEF Elsewhere, SameRows, SameMarks
  <2> QED
    BY <1>m, <2>1, <2>2, SameTokens DEF Stays, Queue, Stored
<1>12. ASSUME NEW k \in Keys, Store(k) PROVE Once' /\ Fresh'
  <2>1. UNCHANGED <<rows, login, rf>> /\ Once /\ Fresh
    BY <1>12, <1>m DEF Store, server, history
  <2>2. CASE k = "access"
    <3>1. Queue' = Queue /\ Stored' = Stored
      BY <1>12, <2>2 DEF Store, Queue, Stored, StorageTyped, Keys
    <3> QED
      BY <1>r, <2>1, <3>1, SameTokens DEF Stays
  <2>3. CASE k = "refresh"
    <3>1. Queue # << >> /\ Queue' = Tail(Queue) /\ Stored' = Head(Queue).val
      BY <1>12, <2>3 DEF Store, Queue, Stored, StorageTyped, Keys
    <3>2. Queue \in Seq(WriteSet(Known)) /\ Stored \in Known
      BY QueueTyped
    <3>3. 1 \in DOMAIN Queue /\ Stored' = Queue[1].val /\ Stored' \in Known
      BY <3>1, <3>2, QueueTyped
    <3>4. \A i \in DOMAIN Queue' : i + 1 \in DOMAIN Queue /\ i + 1 # 1 /\ Queue'[i] = Queue[i + 1] /\ i \in Nat
      BY <3>1, <3>2
    <3>5. \A a : InQueue(a)' => InQueue(a)
      BY <3>4 DEF InQueue
    <3>6. QueuedOnce'
      BY <2>1, <3>4 DEF Once, QueuedOnce
    <3>7. Stored' # None => InQueue(Stored') /\ Stored' \in DOMAIN rows
      BY <3>3 DEF InQueue, Known
    <3>8. Stored' # None => ~InQueue(Stored)'
      <4> SUFFICES ASSUME NEW i \in DOMAIN Queue', Queue'[i].val = Queue[1].val, Queue[1].val # None PROVE FALSE
        BY <3>3 DEF InQueue
      <4> QED
        BY <2>1, <3>3, <3>4 DEF Once, QueuedOnce
    <3>9. /\ \A a : InLogin(a)' <=> InLogin(a)
          /\ \A l \in Logins : (Logged(l)' <=> Logged(l)) /\ login'[l] = login[l]
      BY <2>1 DEF InLogin, Logged
    <3>10. Once'
      BY <1>p, <2>1, <3>5, <3>6, <3>7, <3>8, <3>9, KnownSids DEF Once
    <3>11. Fresh'
      BY <2>1, <3>5, <3>7, <3>9 DEF Fresh, DiskFresh
    <3> QED
      BY <3>10, <3>11
  <2> QED
    BY <2>2, <2>3 DEF Keys
<1>13. ASSUME NEW t \in Calls \cup {"restore"}, Ended(t) PROVE Once' /\ Fresh'
  <2>1. UNCHANGED <<rows, disk, pend, login, rf>>
    BY <1>13 DEF Ended, server, storage, history
  <2> QED
    BY <1>m, <1>r, <2>1, SameTokens DEF Stays, Queue, Stored
<1>14. ASSUME NEW q \in Calls, NEW kind \in Kinds, Send(q, kind) PROVE Once' /\ Fresh'
  <2>1. UNCHANGED <<rows, disk, pend, login, rf>>
    BY <1>14 DEF Send, server, storage
  <2> QED
    BY <1>m, <1>r, <2>1, SameTokens DEF Stays, Queue, Stored
<1>15. ASSUME NEW q \in Calls, Answer(q) \/ Unauthorized(q) \/ ServeClosing(q) \/ Close(q) \/ Fail(q)
       PROVE  Once' /\ Fresh'
  <2>1. UNCHANGED <<disk, login>>
    BY <1>15 DEF Answer, Unauthorized, ServeClosing, Close, Fail, storage, history
  <2>2. Stays
    <3>1. {q} \in SUBSET (Calls \cup {"restore"})
      OBVIOUS
    <3>2. UNCHANGED pend \/ end({q})
      BY <1>15 DEF Answer, Unauthorized, ServeClosing, Close, Fail, storage
    <3> QED
      BY <3>1, <3>2, EndStays DEF Stays, Queue
  <2>3. SameMarks
    <3>1. UNCHANGED rows \/ ServeClosing(q) \/ Unheard({q})
      BY <1>15 DEF Answer, Unauthorized, Close, Fail, server
    <3>2. CASE ServeClosing(q)
      <4>1. req[q].tok \in DOMAIN rows
        BY <3>2 DEF ServeClosing, AccessOk, RequestSet, Known
      <4> QED
        BY <3>2, <4>1, Closes DEF ServeClosing, SameRows, SameMarks
    <3> QED
      BY <1>r, <3>1, <3>2, UnheardCloses DEF SameRows, SameMarks
  <2>4. rf' = rf \/ (rf.phase = "idle" /\ rf'.phase = "reading")
    BY <1>15 DEF Answer, Unauthorized, ServeClosing, Close, Fail, refreshOnce, NoRefresh
  <2>5. rf.phase = "idle" => DiskFresh
    BY <1>m, <2>1 DEF Fresh
  <2> QED
    BY <1>m, <2>1, <2>2, <2>3, <2>4, <2>5, SameTokens DEF Stored
<1>16. ASSUME NEW l \in Logins, SubmitLogin(l) \/ Enter(l) \/ FailLogin(l) PROVE Once' /\ Fresh'
  <2>1. UNCHANGED <<rows, disk, pend, rf>>
    BY <1>16 DEF SubmitLogin, Enter, FailLogin, server, storage, history
  <2>2. /\ \A k \in Logins : k # l => login'[k] = login[k]
        /\ login'[l] \in {[login[l] EXCEPT !.phase = "sent"], NoLogin}
    BY <1>16 DEF SubmitLogin, Enter, FailLogin, LoginTyped
  <2>3. ~Logged(l)'
    BY <1>n, <2>2 DEF Logged, LoginTyped, LoginSet
  <2> QED
    BY <1>m, <1>r, <2>1, <2>2, <2>3, SameTokens DEF Stays, Queue, Stored
<1>17. ASSUME NEW l \in Logins, StartLogin(l) PROVE Once' /\ Fresh'
  <2>v. PICK v \in DOMAIN rows : v = login[l].tok
    BY <1>17 DEF StartLogin, LoginTyped, LoginSet, Known
  <2>1. /\ Logged(l) /\ saveTokens(l, v) /\ login' = [login EXCEPT ![l].phase = "saving"]
        /\ UNCHANGED <<rows, disk, rf>> /\ Once /\ Fresh
    BY <1>17, <1>m, <2>v DEF StartLogin, server, history, Logged
  <2>3. Queue' = Append(Queue, [val |-> v, by |-> {l}]) /\ l \in Tasks /\ Stored' = Stored
    BY <2>1 DEF saveTokens, Queue, Keys, Tasks, Stored
  <2>4. ~Logged(l)' /\ \A k \in Logins : k # l => login'[k] = login[k]
    BY <2>1 DEF Logged, LoginTyped, LoginSet
  <2>5. InLogin(v)
    BY <2>1, <2>v DEF InLogin
  <2>6. ~InLogin(v)'
    BY <2>1, <2>4, <2>v DEF InLogin, Once, Logged
  <2>7. ~InQueue(v) /\ v # Stored /\ ~rows[v].rotated /\ (rf.phase \in {"sent", "answered"} => rf.tok # v)
    BY <2>1, <2>5 DEF Once, Fresh
  <2> QED
    BY <2>1, <2>3, <2>4, <2>6, <2>7, MovedTokens
<1>18. ASSUME NEW l \in Logins, NEW u \in Users, ServeLogin(l, u) PROVE Once' /\ Fresh'
  <2> DEFINE n == Len(rows) + 1
  <2>1. /\ UNCHANGED <<disk, pend, rf>> /\ Once /\ Fresh
        /\ login' = [login EXCEPT ![l] = [phase |-> "answered", tok |-> n]]
    BY <1>18, <1>m DEF ServeLogin, storage, history
  <2>2. Started(rows', n, None)
    BY <1>18, StartedRows DEF ServeLogin
  <2>3. /\ DOMAIN rows' = DOMAIN rows \cup {n} /\ n \notin DOMAIN rows /\ n # None /\ ~rows'[n].rotated
        /\ \A i \in DOMAIN rows : rows'[i] = rows[i]
    BY <2>2, AuthAssumption DEF Started, Grows
  <2>4. Logged(l)' /\ login'[l].tok = n /\ \A k \in Logins : k # l => login'[k] = login[k]
    BY <2>1 DEF Logged, LoginTyped
  <2> HIDE DEF n
  <2>5. Stored \in Known /\ n \notin Known /\ \A i \in DOMAIN Queue : Queue[i].val \in Known
    BY <2>3, QueueTyped DEF Known
  <2>6. \A k \in Logins : login[k].tok # n
    BY <2>5 DEF LoginTyped, LoginSet
  <2>7. \A s : InLogin(s)' => InLogin(s) \/ s = n
    BY <2>4 DEF InLogin, Logged
  <2>8. /\ \A s : InQueue(s)' <=> InQueue(s)
        /\ Stored' = Stored /\ (QueuedOnce' <=> QueuedOnce) /\ (Renews' <=> Renews)
    BY <2>1 DEF InQueue, Queue, Stored, QueuedOnce, Renews
  <2>9. ~InQueue(n) /\ Stored # n
    BY <2>5 DEF InQueue
  <2>10. Once'
    <3>1. \A k, j \in Logins : Logged(k)' /\ Logged(j)' /\ login'[k].tok = login'[j].tok => k = j
      BY <2>1, <2>4, <2>6 DEF Once, Logged
    <3>2. \A s \in DOMAIN rows' : InLogin(s)' => ~InQueue(s)' /\ s # Stored'
      BY <2>1, <2>3, <2>7, <2>8, <2>9 DEF Once
    <3>3. (rf.phase \in {"sent", "answered"} => ~InQueue(rf.tok) /\ ~InLogin(rf.tok))'
      BY <1>p, <2>1, <2>3, <2>7, <2>8 DEF Once
    <3> QED
      BY <2>1, <2>8, <3>1, <3>2, <3>3 DEF Once
  <2>11. Fresh'
    <3>1. \A s \in DOMAIN rows' : InQueue(s)' \/ InLogin(s)' => ~rows'[s].rotated
      BY <2>1, <2>3, <2>7, <2>8 DEF Fresh
    <3>2. rf'.phase \in {"sent", "answered"} => ~rows'[rf'.tok].rotated
      BY <1>p, <2>1, <2>3 DEF Fresh
    <3>3. DiskFresh => DiskFresh'
      BY <2>3, <2>5, <2>8 DEF DiskFresh, Known
    <3> QED
      BY <2>1, <2>8, <3>1, <3>2, <3>3 DEF Fresh
  <2> QED
    BY <2>10, <2>11
<1>19. ASSUME NEW g \in ghosts, ServeGhost(g) PROVE Once' /\ Fresh'
  BY <1>19, <1>m DEF ServeGhost
<1> QED
  BY <1>1, <1>2, <1>3, <1>4, <1>5, <1>6, <1>7, <1>8, <1>9, <1>10, <1>11, <1>12, <1>13, <1>14, <1>15, <1>16,
     <1>17, <1>18, <1>19 DEF Next

-----------------------------------------------------------------------------
(* As long as nobody closes the session and no token is lost, the phone does   *)
(* not lose it: what it stores is never deleted once a session was opened.     *)

Opened == DOMAIN rows # {}
NoneRevoked == \A s \in DOMAIN rows : ~rows[s].revoked
Deleting == \A i \in DOMAIN Queue : "restore" \in Queue[i].by
Saving(l) == login[l].phase = "saving"

Kept ==
    /\ NoneRevoked
    /\ rf.phase # "refused"
    /\ rf.phase = "reading" => Stored # None
    /\ boot = "ending" => ~Opened /\ Deleting
    /\ boot # "ending" => ends = {} /\ ~InQueue(None)
    /\ status = "signedIn" \/ (status = "loading" /\ Opened) => Stored # None
    /\ status = "signedOut" /\ Opened => \E l \in Logins : login[l].tok # None
    /\ \A l \in Logins : Saving(l) => Stored # None \/ Writes(l)
    /\ \A q \in Calls : req[q] # Idle => status = "signedIn"

KeptInv == why \cap {"closed", "limited", "cut", "torn"} = {} => Kept

\* The application stays where it is, and only writes of tokens are issued.
LEMMA SameKept ==
    ASSUME TypeInv, Shape, Kept, NoneRevoked', UNCHANGED <<ends, status, boot>>, Stored' = Stored,
           Opened' => Opened \/ (boot = "done" /\ \E l \in Logins : login'[l].tok # None),
           Queue' = Queue \/ (boot # "ending" /\ ~InQueue(None)' /\ \A l \in Logins : Writes(l) => Writes(l)'),
           \A l \in Logins : login[l].tok # None => login'[l].tok # None,
           \A l \in Logins : Saving(l)' => Saving(l) \/ Writes(l)',
           rf'.phase # "refused", rf'.phase = "reading" => Stored # None,
           \A q \in Calls : req'[q] # Idle => status = "signedIn"
    PROVE  Kept'
<1>1. \/ /\ \A a : InQueue(a)' <=> InQueue(a)
         /\ \A l \in Logins : Writes(l) => Writes(l)'
         /\ Deleting' <=> Deleting
      \/ boot # "ending" /\ ~InQueue(None)' /\ \A l \in Logins : Writes(l) => Writes(l)'
  BY DEF InQueue, Writes, Deleting
<1>2. boot = "done" <=> status # "loading"
  BY DEF Shape, TypeInv, ClientTyped, FlowTyped
<1>3. boot' = "ending" => ~Opened' /\ Deleting'
  BY <1>1 DEF Kept
<1>4. boot' # "ending" => ends' = {} /\ ~InQueue(None)'
  BY <1>1 DEF Kept
<1>5. status' = "signedIn" \/ (status' = "loading" /\ Opened') => Stored' # None
  BY <1>2 DEF Kept
<1>6. status' = "signedOut" /\ Opened' => \E l \in Logins : login'[l].tok # None
  BY DEF Kept
<1>7. \A l \in Logins : Saving(l)' => Stored' # None \/ Writes(l)'
  BY <1>1 DEF Kept
<1> QED
  BY <1>3, <1>4, <1>5, <1>6, <1>7 DEF Kept

\* Tokens that are saved.
LEMMA SavedTokens ==
    ASSUME TypeInv, Kept, boot # "ending", NEW t \in Tasks, NEW v \in DOMAIN rows,
           Queue' = Append(Queue, [val |-> v, by |-> {t}])
    PROVE  ~InQueue(None)' /\ Writes(t)' /\ \A l \in Logins : Writes(l) => Writes(l)'
<1> DEFINE w == [val |-> v, by |-> {t}]
<1>1. w \in WriteSet(Known) /\ w.val = v /\ w.by = {t} /\ v # None
  BY KnownSids DEF WriteSet, Known, TypeInv
<1> HIDE DEF w
<1> QED
  BY <1>1, Enqueued DEF Kept, w

LEMMA KeptStep == ASSUME TypeInv, TypeInv', Shape, TokensInv, KeptInv, [Next]_vars PROVE KeptInv'
<1> SUFFICES ASSUME ~Lost', "closed" \notin why', "limited" \notin why' PROVE Kept'
  BY DEF KeptInv, Lost
<1> USE DEF TypeInv, ClientTyped, FlowTyped
<1>n. NoRefresh.phase = "idle" /\ NoLogin.phase = "idle" /\ NoLogin.tok = None /\ Idle.phase = "idle"
  BY DEF NoRefresh, NoLogin, Idle
<1>m. Kept /\ Fresh /\ ghosts = {} /\ \A q \in Calls : req[q].kind = "call" /\ req[q].phase # "answered"
  BY MarksStay DEF TokensInv, KeptInv, Shape, Closing, Lost
<1>c. why' # Mark({"closed"}) /\ why' # Mark({"limited"})
  BY MarksStay DEF Mark
<1>r. UNCHANGED rows => (NoneRevoked' <=> NoneRevoked) /\ (Opened' <=> Opened)
  BY DEF NoneRevoked, Opened
<1>p. rf.phase \in {"sent", "answered", "saving"} => rf.tok \in DOMAIN rows /\ Opened
  BY DEF RefreshTyped, RefreshSet, Known, Opened
<1>b. rf.phase # "idle" => boot # "ending"
  BY <1>n DEF Shape
<1>u. ASSUME Kept, UNCHANGED <<rows, disk, pend, ends, status, boot, login>>,
             rf'.phase # "refused", rf'.phase = "reading" => Stored # None,
             \A q \in Calls : req'[q] # Idle => status = "signedIn"
      PROVE  Kept'
  <2>1. NoneRevoked' /\ Stored' = Stored /\ Queue' = Queue /\ (Opened' => Opened)
    BY <1>r, <1>u DEF Kept, Stored, Queue
  <2>2. \A l \in Logins : Saving(l)' => Saving(l)
    BY <1>u DEF Saving
  <2> QED
    BY <1>u, <2>1, <2>2, SameKept
<1>1. CASE UNCHANGED vars
  BY <1>1, <1>m, <1>u DEF vars, Kept
<1>2. CASE Restore
  <2>1. /\ UNCHANGED <<rows, disk, req, login, ghosts>> /\ boot = "start" /\ status = "loading"
        /\ rf = NoRefresh /\ Queue = << >> /\ ends = {} /\ Kept
        /\ \A q \in Calls : req[q] = Idle
        /\ \A l \in Logins : login[l] = NoLogin
    BY <1>2, <1>m DEF Restore, server, history, Shape, Queue, Keys
  <2>2. NoneRevoked' /\ (Opened' <=> Opened) /\ Stored' = Stored /\ ~InQueue(None)
    BY <1>r, <2>1 DEF Kept, Stored
  <2>3. \A l \in Logins : ~Saving(l)'
    BY <1>n, <2>1 DEF Saving
  <2>4. CASE Stored = None
    <3>1. end({"restore"}) /\ boot' = "ending" /\ UNCHANGED <<status, rf>>
      BY <1>2, <2>4 DEF Restore, Stored
    <3>2. ~Opened
      BY <2>1, <2>4 DEF Kept
    <3>3. Deleting'
      <4>1. Queue' = Append(Queue, Deletion({"restore"}))
        BY <3>1 DEF end, Queue, Keys, Deletion
      <4> HIDE DEF TypeInv
      <4>2. \A i \in DOMAIN Queue' : Queue'[i] = Deletion({"restore"})
        BY <2>1, <4>1
      <4> QED
        BY <4>2 DEF Deletion, Deleting
    <3> QED
      BY <1>n, <2>1, <2>2, <2>3, <3>1, <3>2, <3>3 DEF Kept
  <2>5. CASE Stored # None
    <3>1. /\ UNCHANGED <<pend, ends>> /\ rf'.phase # "refused" /\ boot' # "ending"
          /\ status' \in {"loading", "signedIn"}
      BY <1>2, <1>n, <2>1, <2>5 DEF Restore, Entering, Stored, NoRefresh
    <3>2. ~InQueue(None)'
      BY <2>2, <3>1 DEF InQueue, Queue
    <3> QED
      BY <2>1, <2>2, <2>3, <2>5, <3>1, <3>2 DEF Kept
  <2> QED
    BY <2>4, <2>5
<1>3. CASE ReadRefresh
  <2>1. rf.phase = "reading" /\ UNCHANGED <<rows, disk, login>> /\ Kept /\ Stored # None
    BY <1>3, <1>m DEF ReadRefresh, server, history, Kept
  <2>2. rf'.phase = "sent" /\ UNCHANGED <<status, boot, pend, ends, req>>
    BY <1>3, <2>1 DEF ReadRefresh, Stored
  <2> QED
    BY <1>u, <2>1, <2>2 DEF Kept
<1>4. CASE ServeRefresh
  <2>1. /\ rf.phase = "sent" /\ rf.tok \in DOMAIN rows /\ Refresh(rf.tok, None, {}) /\ Kept /\ Fresh
        /\ UNCHANGED <<disk, pend, ends, status, boot, login, req>>
    BY <1>4, <1>m, <1>p DEF ServeRefresh, storage
  <2>2. Renewable(rf.tok)
    BY <2>1 DEF Renewable, Kept, NoneRevoked, Fresh
  <2>3. Grown(rf.tok, {})
    BY <2>1, <2>2, Refreshes DEF ServerTypeOK
  <2>4. NoneRevoked'
    BY <2>1, <2>3 DEF Grown, Rotated, Grows, NoneRevoked, Kept
  <2>5. rf'.phase = "answered"
    BY <1>4, <2>2 DEF ServeRefresh
  <2>6. Opened
    BY <2>1 DEF Opened
  <2>7. \A l \in Logins : Saving(l)' => Saving(l)
    BY <2>1 DEF Saving
  <2> QED
    BY <2>1, <2>4, <2>5, <2>6, <2>7, SameKept DEF Kept, Queue, Stored
<1>5. CASE ServeRefreshWhileRevoking
  BY <1>5, <1>c DEF ServeRefreshWhileRevoking
<1>6. CASE LimitRefresh
  BY <1>6, <1>c DEF LimitRefresh
<1>7. CASE DeliverRefresh
  <2>1. Kept /\ UNCHANGED <<rows, disk, login, req>> /\ rf.phase = "answered"
    BY <1>7, <1>m DEF DeliverRefresh, server, history, Kept
  <2>2. PICK v \in DOMAIN rows : v = rf.tok
    BY <1>p, <2>1
  <2>3. saveTokens("refresh", v) /\ rf'.phase = "saving" /\ UNCHANGED <<status, boot, ends>>
    BY <1>7, <2>1, <2>2 DEF DeliverRefresh, RefreshTyped, RefreshSet
  <2>4. Queue' = Append(Queue, [val |-> v, by |-> {"refresh"}]) /\ "refresh" \in Tasks
    BY <2>3 DEF saveTokens, Queue, Keys, Tasks
  <2>5. boot # "ending" /\ ~InQueue(None)' /\ \A l \in Logins : Writes(l) => Writes(l)'
    BY <1>b, <2>1, <2>4, SavedTokens
  <2>6. NoneRevoked' /\ Stored' = Stored /\ (Opened' => Opened) /\ \A l \in Logins : Saving(l)' => Saving(l)
    BY <1>r, <2>1 DEF Kept, Stored, Saving
  <2> QED
    BY <2>1, <2>3, <2>5, <2>6, SameKept DEF Kept
<1>8. CASE RefreshSaved
  <2>1. rf.phase = "saving" /\ Settle("renewed") /\ UNCHANGED <<rows, disk, login>> /\ Kept
    BY <1>8, <1>m DEF RefreshSaved, server, history
  <2>2. rf' = NoRefresh /\ UNCHANGED <<mem, pend, ends>>
    BY <2>1, Settles
  <2>3. CASE boot # "refreshing"
    <3>1. UNCHANGED <<status, boot>>
      BY <2>1, <2>3, Settles
    <3>2. \A q \in Calls : req'[q] # Idle => req[q] # Idle
      BY <1>n, <2>1, <2>3, Settles
    <3> QED
      BY <1>n, <1>u, <2>1, <2>2, <3>1, <3>2 DEF Kept
  <2>4. CASE boot = "refreshing"
    <3>1. boot' = "done" /\ status' = "signedIn" /\ UNCHANGED req
      BY <2>1, <2>4, Settles
    <3>2. Stored # None
      BY <1>p, <2>1, <2>4 DEF Kept, Shape
    <3>3. NoneRevoked' /\ Stored' = Stored /\ ends' = {} /\ ~InQueue(None)'
      BY <1>r, <2>1, <2>2, <2>4 DEF Kept, Stored, InQueue, Queue
    <3> QED
      BY <1>n, <2>2, <3>1, <3>2, <3>3 DEF Kept
  <2> QED
    BY <2>3, <2>4
<1>9. CASE FailRefresh
  BY <1>9, <1>m DEF FailRefresh, Lose, Lost, Kept
<1>10. CASE Kill
  <2>1. Kept /\ \A q \in Calls : req[q].kind = "call"
    BY <1>m
  <2>2. rows' = rows /\ UNCHANGED disk
    BY <1>10, <2>1, UnheardCloses DEF Kill
  <2>3. ~Unwritten /\ \A l \in Logins : login[l].phase # "answered"
    BY <1>10, KillsKept
  <2>4. status' = "loading" /\ boot' = "start" /\ ends' = {} /\ Queue' = << >> /\ rf'.phase = "idle"
    BY <1>10, <1>n DEF Kill, Queue, Keys
  <2>5. (\A q \in Calls : req'[q] = Idle) /\ \A l \in Logins : ~Saving(l)'
    BY <1>10, <1>n DEF Kill, Saving
  <2>6. Opened => Stored # None
    <3>1. boot # "ending" => \A l \in Logins : ~Writes(l)
      BY <2>1, <2>3 DEF Kept, Unwritten, InQueue, Writes, Queue
    <3>2. ASSUME NEW l \in Logins, login[l].tok # None, boot # "ending" PROVE Stored # None
      BY <2>1, <2>3, <3>1, <3>2 DEF Kept, LoginTyped, Saving
    <3> QED
      BY <2>1, <3>2 DEF Kept
  <2>7. NoneRevoked' /\ Stored' = Stored /\ (Opened' <=> Opened) /\ ~InQueue(None)'
    BY <1>r, <2>1, <2>2, <2>4 DEF Kept, Stored, InQueue
  <2> QED
    BY <2>4, <2>5, <2>6, <2>7 DEF Kept
<1>11. CASE Elsewhere
  <2>1. PICK s \in DOMAIN rows : Expire(s) /\ UNCHANGED why
    BY <1>11, <1>c DEF Elsewhere
  <2>2. Kept /\ UNCHANGED <<disk, pend, ends, status, boot, login, rf, req>>
    BY <1>11, <1>m, <2>1 DEF Elsewhere, storage
  <2>3. NoneRevoked' /\ (Opened' => Opened)
    BY <2>1, <2>2, ExpiredRows DEF Kept, NoneRevoked, Opened
  <2>4. \A l \in Logins : Saving(l)' => Saving(l)
    BY <2>2 DEF Saving
  <2> QED
    BY <2>2, <2>3, <2>4, SameKept DEF Kept, Queue, Stored
<1>12. ASSUME NEW k \in Keys, Store(k) PROVE Kept'
  <2>1. UNCHANGED <<rows, status, boot, ends, rf, req, login>> /\ Kept
    BY <1>12, <1>m DEF Store, server, history
  <2>2. NoneRevoked' /\ (Opened' <=> Opened) /\ \A l \in Logins : Saving(l)' <=> Saving(l)
    BY <1>r, <2>1 DEF Kept, Saving
  <2>3. CASE k = "access"
    <3>1. Queue' = Queue /\ Stored' = Stored
      BY <1>12, <2>3 DEF Store, Queue, Stored, StorageTyped, Keys
    <3> QED
      BY <2>1, <2>2, <3>1, SameKept DEF Kept
  <2>4. CASE k = "refresh"
    <3>1. Queue # << >> /\ Queue' = Tail(Queue) /\ Stored' = Head(Queue).val
      BY <1>12, <2>4 DEF Store, Queue, Stored, StorageTyped, Keys
    <3>2. Queue \in Seq(WriteSet(Known))
      BY QueueTyped
    <3>3. 1 \in DOMAIN Queue /\ Stored' = Queue[1].val
      BY <3>1, <3>2, QueueTyped
    <3>4. \A i \in DOMAIN Queue' : i + 1 \in DOMAIN Queue /\ Queue'[i] = Queue[i + 1]
      BY <3>1, <3>2
    <3>5. CASE boot = "ending"
      <4>1. /\ ~Opened /\ Deleting' /\ status = "loading" /\ rf.phase = "idle"
            /\ \A l \in Logins : ~Saving(l)
        BY <1>n, <2>1, <3>4, <3>5 DEF Kept, Deleting, Shape, Saving
      <4> QED
        BY <2>1, <2>2, <3>5, <4>1 DEF Kept
    <3>6. CASE boot # "ending"
      <4>1. ~InQueue(None)' /\ Stored' # None
        BY <2>1, <3>3, <3>4, <3>6 DEF Kept, InQueue
      <4> QED
        BY <2>1, <2>2, <3>6, <4>1 DEF Kept
    <3> QED
      BY <3>5, <3>6
  <2> QED
    BY <2>3, <2>4 DEF Keys
<1>13. ASSUME NEW t \in Calls \cup {"restore"}, Ended(t) PROVE Kept'
  <2>1. /\ UNCHANGED <<rows, disk, pend, rf, req, login>> /\ Kept /\ t \in ends
        /\ status' = "signedOut" /\ ends' = ends \ {t}
    BY <1>13, <1>m DEF Ended, server, storage, history
  <2>2. boot = "ending" /\ ~Opened /\ Deleting
    BY <2>1 DEF Kept
  <2>3. t = "restore" /\ ends' = {} /\ boot' = "done"
    BY <1>13, <2>1, <2>2 DEF Ended, Shape
  <2>4. ~InQueue(None)
    BY <1>13, <2>2, <2>3 DEF Ended, Written, Deleting, InQueue, Queue, Keys
  <2>5. rf.phase = "idle" /\ (\A l \in Logins : ~Saving(l)) /\ \A q \in Calls : req[q] = Idle
    BY <1>n, <2>2 DEF Shape, Saving
  <2>6. NoneRevoked' /\ ~Opened' /\ ~InQueue(None)' /\ \A l \in Logins : ~Saving(l)'
    BY <1>r, <2>1, <2>2, <2>4, <2>5 DEF Kept, InQueue, Queue, Saving
  <2> QED
    BY <2>1, <2>3, <2>5, <2>6 DEF Kept
<1>14. ASSUME NEW q \in Calls, NEW kind \in Kinds, Send(q, kind) PROVE Kept'
  <2>1. UNCHANGED <<rows, disk, pend, ends, status, boot, login, rf>> /\ status = "signedIn"
    BY <1>14 DEF Send, server, storage
  <2> QED
    BY <1>m, <1>u, <2>1 DEF Kept
<1>15. ASSUME NEW q \in Calls, Answer(q) \/ Unauthorized(q) \/ ServeClosing(q) \/ Close(q) \/ Fail(q)
       PROVE  Kept'
  <2>1. /\ UNCHANGED <<disk, login, status, boot>> /\ Kept
        /\ \A p \in Calls : req[p].kind = "call" /\ req[p].phase # "answered"
    BY <1>15, <1>m DEF Answer, Unauthorized, ServeClosing, Close, Fail, storage, history
  <2>2. Answer(q) \/ Unauthorized(q) \/ Fail(q)
    BY <1>15, <2>1 DEF ServeClosing, Close
  <2>3. rows' = rows
    BY <2>1, <2>2, UnheardCloses DEF Answer, Unauthorized, Fail, server
  <2>4. UNCHANGED <<pend, ends>>
    BY <2>1, <2>2 DEF Answer, Unauthorized, Fail, storage
  <2>5. req[q] # Idle /\ status = "signedIn" /\ Stored # None
    BY <1>n, <2>1, <2>2 DEF Answer, Unauthorized, Fail, Kept
  <2>6. rf' = rf \/ rf'.phase = "reading"
    BY <2>2 DEF Answer, Unauthorized, Fail, refreshOnce, NoRefresh
  <2> QED
    BY <1>u, <2>1, <2>3, <2>4, <2>5, <2>6 DEF Kept
<1>16. ASSUME NEW l \in Logins, SubmitLogin(l) \/ FailLogin(l) PROVE Kept'
  <2>1. UNCHANGED <<rows, disk, pend, ends, status, boot, rf, req>>
    BY <1>16 DEF SubmitLogin, FailLogin, server, storage, history
  <2>2. login[l].tok = None
    BY <1>16, <1>n DEF SubmitLogin, FailLogin, LoginTyped, Lose, Lost
  <2>3. /\ \A k \in Logins : k # l => login'[k] = login[k]
        /\ login'[l] \in {[login[l] EXCEPT !.phase = "sent"], NoLogin}
    BY <1>16 DEF SubmitLogin, FailLogin, LoginTyped
  <2>4. ~Saving(l)'
    BY <1>n, <2>3 DEF Saving, LoginTyped, LoginSet
  <2>5. \A k \in Logins : (Saving(k)' => Saving(k)) /\ (login[k].tok # None => login'[k].tok # None)
    BY <2>2, <2>3, <2>4 DEF Saving
  <2>6. Kept /\ NoneRevoked' /\ Queue' = Queue /\ Stored' = Stored /\ (Opened' => Opened)
    BY <1>m, <1>r, <2>1 DEF Kept, Queue, Stored
  <2> QED
    BY <2>1, <2>5, <2>6, SameKept DEF Kept
<1>17. ASSUME NEW l \in Logins, Enter(l) PROVE Kept'
  <2>1. /\ UNCHANGED <<rows, boot, disk, pend, ends, rf, req>> /\ Kept /\ status' = "signedIn"
        /\ login' = [login EXCEPT ![l] = NoLogin] /\ Saving(l)
    BY <1>17, <1>m DEF Enter, server, storage, history, Saving
  <2>2. ~Writes(l)
    BY <1>17 DEF Enter, Written, Writes, Queue, Keys
  <2>3. Stored # None
    BY <2>1, <2>2 DEF Kept
  <2>4. boot = "done"
    BY <1>n, <2>1 DEF Saving, Shape
  <2>5. NoneRevoked' /\ Stored' = Stored /\ ~InQueue(None)'
    BY <1>r, <2>1, <2>4 DEF Kept, Stored, InQueue, Queue
  <2> QED
    BY <2>1, <2>3, <2>4, <2>5 DEF Kept
<1>18. ASSUME NEW l \in Logins, StartLogin(l) PROVE Kept'
  <2>1. PICK v \in DOMAIN rows : v = login[l].tok
    BY <1>18 DEF StartLogin, LoginTyped, LoginSet, Known
  <2>2. /\ login[l].phase = "answered" /\ saveTokens(l, v) /\ login' = [login EXCEPT ![l].phase = "saving"]
        /\ UNCHANGED <<rows, disk, ends, status, boot, rf, req>> /\ Kept
    BY <1>18, <1>m, <2>1 DEF StartLogin, server, history
  <2>3. Queue' = Append(Queue, [val |-> v, by |-> {l}]) /\ l \in Tasks
    BY <2>2 DEF saveTokens, Queue, Keys, Tasks
  <2>4. boot = "done"
    BY <1>n, <2>2 DEF Shape
  <2>5. ~InQueue(None)' /\ Writes(l)' /\ \A k \in Logins : Writes(k) => Writes(k)'
    BY <2>2, <2>3, <2>4, SavedTokens
  <2>6. \A k \in Logins : (Saving(k)' => Saving(k) \/ Writes(k)') /\ (login[k].tok # None => login'[k].tok # None)
    <3>1. \A k \in Logins : k # l => login'[k] = login[k]
      BY <2>2 DEF LoginTyped
    <3>2. login'[l].tok = login[l].tok
      BY <2>2 DEF LoginTyped, LoginSet
    <3> QED
      BY <2>5, <3>1, <3>2 DEF Saving
  <2>7. NoneRevoked' /\ Stored' = Stored /\ (Opened' => Opened)
    BY <1>r, <2>2 DEF Kept, Stored
  <2> QED
    BY <2>2, <2>4, <2>5, <2>6, <2>7, SameKept DEF Kept
<1>19. ASSUME NEW l \in Logins, NEW u \in Users, ServeLogin(l, u) PROVE Kept'
  <2> DEFINE n == Len(rows) + 1
  <2>1. /\ UNCHANGED <<disk, pend, ends, status, boot, rf, req>> /\ Kept /\ login[l].phase = "sent"
        /\ login' = [login EXCEPT ![l] = [phase |-> "answered", tok |-> n]]
    BY <1>19, <1>m DEF ServeLogin, storage, history
  <2>2. Started(rows', n, None)
    BY <1>19, StartedRows DEF ServeLogin
  <2>3. NoneRevoked' /\ n # None
    BY <2>1, <2>2, AuthAssumption DEF Started, Grows, NoneRevoked, Kept
  <2>4. boot = "done"
    BY <1>n, <2>1 DEF Shape
  <2>5. login'[l].tok = n /\ ~Saving(l)' /\ \A k \in Logins : k # l => login'[k] = login[k]
    BY <2>1 DEF Saving, LoginTyped
  <2>6. \A k \in Logins : (Saving(k)' => Saving(k)) /\ (login[k].tok # None => login'[k].tok # None)
    BY <2>3, <2>5 DEF Saving
  <2> HIDE DEF n
  <2> QED
    BY <2>1, <2>3, <2>4, <2>5, <2>6, SameKept DEF Kept, Queue, Stored
<1>20. ASSUME NEW g \in ghosts, ServeGhost(g) PROVE Kept'
  BY <1>20, <1>m DEF ServeGhost
<1> QED
  BY <1>1, <1>2, <1>3, <1>4, <1>5, <1>6, <1>7, <1>8, <1>9, <1>10, <1>11, <1>12, <1>13, <1>14, <1>15, <1>16,
     <1>17, <1>18, <1>19, <1>20 DEF Next

-----------------------------------------------------------------------------
(* What the phone can rely on                                                  *)

MobileInv == TypeInv /\ Shape /\ TokensInv /\ KeptInv /\ ReuseOnlyAfterCut

LEMMA InitMobile == Init => MobileInv
<1> SUFFICES ASSUME Init PROVE MobileInv
  OBVIOUS
<1>1. /\ \A q \in Calls : req[q] = Idle /\ Idle.kind = "call" /\ Idle.phase = "idle"
      /\ \A l \in Logins : login[l] = NoLogin /\ NoLogin.phase = "idle"
      /\ rf = NoRefresh /\ NoRefresh.phase = "idle" /\ Stored = None /\ Queue = << >> /\ DOMAIN rows = {}
  BY DEF Init, ServerInit, Idle, NoLogin, NoRefresh, Stored, Queue, Keys
<1>2. Shape
  BY <1>1 DEF Init, Shape, Closing
<1>3. Once /\ Fresh
  BY <1>1 DEF Once, Fresh, QueuedOnce, InQueue, InLogin, Logged, DiskFresh
<1>4. Kept
  BY <1>1 DEF Init, Kept, NoneRevoked, Opened, InQueue, Saving
<1> QED
  BY <1>2, <1>3, <1>4, InitMobileTypes DEF Init, MobileInv, TokensInv, KeptInv, ReuseOnlyAfterCut

LEMMA ReuseStep == ASSUME TypeInv, Shape, TokensInv, ReuseOnlyAfterCut, [Next]_vars PROVE ReuseOnlyAfterCut'
<1> SUFFICES ASSUME ~Lost' PROVE "reuse" \notin why'
  BY DEF ReuseOnlyAfterCut, Lost
<1>m. ~Lost /\ "reuse" \notin why
  BY MarksStay DEF ReuseOnlyAfterCut, Lost
<1>1. ASSUME UNCHANGED why \/ why' = Mark({"closed"}) \/ why' = Mark({"limited"}) PROVE "reuse" \notin why'
  BY <1>1, <1>m DEF Mark
<1>2. CASE ServeRefresh
  <2>1. rf.phase = "sent"
    BY <1>2 DEF ServeRefresh
  <2>2. ~rows[rf.tok].rotated
    BY <1>m, <2>1 DEF TokensInv, Fresh
  <2> QED
    BY <1>2, <1>m, <2>2 DEF ServeRefresh, Presented, Mark
<1>3. ASSUME NEW g \in ghosts, ServeGhost(g) PROVE FALSE
  BY <1>3, <1>m DEF ServeGhost, Shape
<1>4. CASE \/ UNCHANGED vars \/ Restore \/ ReadRefresh \/ ServeRefreshWhileRevoking \/ LimitRefresh
           \/ DeliverRefresh \/ RefreshSaved \/ Elsewhere
           \/ \E k \in Keys : Store(k)
           \/ \E t \in Calls \cup {"restore"} : Ended(t)
  BY <1>1, <1>4 DEF vars, Restore, ReadRefresh, ServeRefreshWhileRevoking, LimitRefresh, DeliverRefresh,
                    RefreshSaved, Elsewhere, Store, Ended, history
<1>5. CASE FailRefresh \/ Kill
  BY <1>1, <1>5 DEF FailRefresh, Kill, Lose, Lost
<1>6. ASSUME NEW q \in Calls, \/ \E kind \in Kinds : Send(q, kind)
                              \/ Answer(q) \/ Unauthorized(q) \/ ServeClosing(q) \/ Close(q) \/ Fail(q)
      PROVE  "reuse" \notin why'
  BY <1>1, <1>6 DEF Send, Answer, Unauthorized, ServeClosing, Close, Fail, history
<1>7. ASSUME NEW l \in Logins, \/ SubmitLogin(l) \/ StartLogin(l) \/ Enter(l) \/ FailLogin(l)
                               \/ \E u \in Users : ServeLogin(l, u)
      PROVE  "reuse" \notin why'
  BY <1>1, <1>7 DEF SubmitLogin, StartLogin, Enter, FailLogin, ServeLogin, history, Lose, Lost
<1> QED
  BY <1>2, <1>3, <1>4, <1>5, <1>6, <1>7 DEF Next

\* What the flow of tokens between the requests, the refresh, the storage and
\* the backend maintains.
THEOREM MobileInvCorrect == Spec => []MobileInv
<1>1. MobileInv /\ [Next]_vars => MobileInv'
  BY MobileTypeStep, ShapeStep, TokensStep, KeptStep, ReuseStep DEF MobileInv
<1> QED
  BY <1>1, InitMobile, PTL DEF Spec

(* However the requests of its screens, its refresh, the writes of its storage *)
(* and its restarts interleave, the application presents a refresh token that  *)
(* was already used only after an answer with new tokens was lost or it was    *)
(* killed before it wrote them.                                                *)
THEOREM NoReuseWithoutCut == Spec => []ReuseOnlyAfterCut
BY MobileInvCorrect, PTL DEF MobileInv

(* The session a user opened does not end on its own.  At rest and signed out, *)
(* it was closed by someone, the rate limit answered its renewal, an answer    *)
(* with new tokens was lost, or a kill came before the refresh token was       *)
(* written; never for an expired access token, for requests refused at once,   *)
(* or for a kill at any other moment.                                          *)
THEOREM SessionIsKept == Spec => []SessionKept
<1>1. MobileInv => SessionKept
  <2> SUFFICES ASSUME MobileInv, status = "signedOut", Still, rows # << >>, why \cap {"closed", "limited", "cut", "torn"} = {} PROVE FALSE
    BY DEF SessionKept
  <2>1. Opened
    BY DEF MobileInv, TypeInv, ServerTypeOK, Opened
  <2>2. \A l \in Logins : login[l].tok = None
    BY DEF Still, NoLogin
  <2> QED
    BY <2>1, <2>2 DEF MobileInv, KeptInv, Kept
<1> QED
  BY <1>1, MobileInvCorrect, PTL

(* A signed in application at rest has stored a refresh token the backend will *)
(* rotate, unless its session was closed or ended by the rate limit, or the    *)
(* answer with new tokens, or their write, was lost.                           *)
THEOREM RestartFindsSession == Spec => []RestartKeepsSession
<1>1. MobileInv => RestartKeepsSession
  <2> SUFFICES ASSUME MobileInv, status = "signedIn", Still, why \cap {"closed", "limited", "cut", "torn"} = {}
               PROVE  Stored # None /\ Renewable(Stored)
    BY DEF RestartKeepsSession, Stored
  <2>1. rf.phase = "idle"
    BY DEF Still, NoRefresh
  <2>2. Kept /\ DiskFresh
    BY <2>1 DEF MobileInv, KeptInv, TokensInv, Fresh, Lost
  <2>3. Stored # None /\ Stored \in DOMAIN rows
    BY <2>2, QueueTyped DEF MobileInv, Kept, Known
  <2> QED
    BY <2>2, <2>3 DEF Kept, NoneRevoked, DiskFresh, Renewable
<1> QED
  BY <1>1, MobileInvCorrect, PTL
=============================================================================
