------------------------- MODULE PanelSessionProofs -------------------------
(* Theorems about the session of the web panel, for any number of requests,    *)
(* accounts, clubs and sessions.                                               *)
EXTENDS PanelSession, AuthServerProofs

-----------------------------------------------------------------------------
(* Types: and a token that the client names is one the server issued.          *)

Known == DOMAIN rows \cup {None}

JarSet(D) == [sid : D, club : Clubs \cup {None}, refresh : D, hint : BOOLEAN]
RefreshSet(D) == [phase : {"idle", "sent", "answered", "refused"}, tok : D]
RequestSet(D) ==
    [tab : Tabs \cup {None}, kind : Kinds, phase : {"idle", "sent", "waiting", "resent", "answered"},
     sid : D, club : Clubs \cup {None}]

LateSet(D) == [kind : Kinds \cup {"refresh"}, sid : D, club : Clubs \cup {None}]
Reasons == {"cut", "closed", "elsewhere", "crossed", "reuse"}

ClientTyped(D) ==
    /\ jar \in JarSet(D)
    /\ page \in [Tabs -> {"login", "panel"}]
    /\ shown \in [Tabs -> Clubs \cup {None}]
    /\ rf \in [Tabs -> RefreshSet(D)]
    /\ req \in [Calls -> RequestSet(D)]
    /\ late \subseteq LateSet(D)
    /\ why \subseteq Reasons

Answered(q, kind) == req[q].phase = "answered" /\ req[q].kind = kind

Named ==
    /\ \A t \in Tabs : rf[t].phase = "answered" => rf[t].tok # None
    /\ \A q \in Calls : req[q] # NoReq => req[q].tab \in Tabs
    /\ \A q \in Calls : Answered(q, "login") => req[q].sid # None
    /\ \A r \in late : r.kind = "refresh" => r.sid # None

TypeInv == ServerTypeOK /\ ClientTyped(Known) /\ Named

LEMMA KnownSids == ServerTypeOK => Known \subseteq Sids \cup {None} /\ Len(rows) \in Nat /\ DOMAIN rows = 1..Len(rows)
BY AuthAssumption DEF ServerTypeOK, Known, Sids

LEMMA TypesNamed == TypeInv => PanelTypeOK
<1> SUFFICES ASSUME TypeInv PROVE PanelTypeOK
  OBVIOUS
<1>1. Known \subseteq Sids \cup {None}
  BY KnownSids DEF TypeInv
<1>2. jar \in JarSet(Sids \cup {None}) /\ rf \in [Tabs -> RefreshSet(Sids \cup {None})]
  BY <1>1 DEF TypeInv, ClientTyped, JarSet, RefreshSet
<1>3. req \in [Calls -> RequestSet(Sids \cup {None})]
  BY <1>1 DEF TypeInv, ClientTyped, RequestSet
<1>4. late \subseteq LateSet(Sids \cup {None})
  BY <1>1 DEF TypeInv, ClientTyped, LateSet
<1> QED
  BY <1>2, <1>3, <1>4 DEF TypeInv, ClientTyped, PanelTypeOK, JarSet, RefreshSet, RequestSet, LateSet, Reasons

\* A table that grows leaves what the client names in it.
LEMMA TypedAgain ==
    ASSUME TypedRows(rows'), version' \in [Users -> 0..MaxVersion], NEW D, D \subseteq Known',
           jar' \in JarSet(D), page' \in [Tabs -> {"login", "panel"}], shown' \in [Tabs -> Clubs \cup {None}],
           rf' \in [Tabs -> RefreshSet(D)], req' \in [Calls -> RequestSet(D)],
           late' \subseteq LateSet(D), why' \subseteq Reasons, Named'
    PROVE  TypeInv'
<1>1. jar' \in JarSet(Known')
  BY DEF JarSet
<1>2. rf' \in [Tabs -> RefreshSet(Known')]
  BY DEF RefreshSet
<1>3. req' \in [Calls -> RequestSet(Known')]
  BY DEF RequestSet
<1>4. late' \subseteq LateSet(Known')
  BY DEF LateSet
<1>5. ServerTypeOK'
  BY DEF ServerTypeOK, TypedRows
<1> QED
  BY <1>1, <1>2, <1>3, <1>4, <1>5 DEF TypeInv, ClientTyped

\* The same names over a larger table.
LEMMA Wider ==
    ASSUME NEW D, NEW E, D \subseteq E
    PROVE  /\ JarSet(D) \subseteq JarSet(E) /\ RefreshSet(D) \subseteq RefreshSet(E)
           /\ RequestSet(D) \subseteq RequestSet(E) /\ LateSet(D) \subseteq LateSet(E)
BY DEF JarSet, RefreshSet, RequestSet, LateSet

LEMMA Blank ==
    ASSUME NEW D, None \in D
    PROVE  /\ NoReq \in RequestSet(D) /\ NoRefresh \in RefreshSet(D) /\ NoJar \in JarSet(D)
           /\ NoReq.phase = "idle" /\ NoReq.kind = "call" /\ NoReq.tab = None /\ NoReq.sid = None
           /\ NoRefresh.phase = "idle"
BY DEF NoReq, NoRefresh, NoJar, RequestSet, RefreshSet, JarSet, Kinds

LEMMA Marks ==
    ASSUME NEW m \in SUBSET Reasons, why \subseteq Reasons, why' = Mark(m)
    PROVE  why' \subseteq Reasons
BY DEF Mark

\* What becomes of the requests and the renewals that are dropped.
LEMMA Drops ==
    ASSUME TypeInv, NEW Q \in SUBSET Calls, NEW T \in SUBSET Tabs, Drop(Q, T)
    PROVE  /\ late' \subseteq LateSet(Known) /\ \A r \in late' : r.kind = "refresh" => r.sid # None
           /\ why' \subseteq Reasons
<1> USE DEF TypeInv, ClientTyped
<1>1. ASSUME NEW q \in Calls
      PROVE  [kind |-> req[q].kind, sid |-> req[q].sid, club |-> req[q].club] \in LateSet(Known)
             /\ req[q].kind # "refresh"
  <2>1. req[q] \in RequestSet(Known)
    OBVIOUS
  <2> QED
    BY <2>1 DEF RequestSet, LateSet, Kinds
<1>2. ASSUME NEW t \in Tabs
      PROVE  [kind |-> "refresh", sid |-> rf[t].tok, club |-> None] \in LateSet(Known)
  <2>1. rf[t] \in RefreshSet(Known)
    OBVIOUS
  <2> QED
    BY <2>1 DEF RefreshSet, LateSet
<1>3. ASSUME NEW r \in late'
      PROVE  \/ r \in late
             \/ \E q \in Calls : r = [kind |-> req[q].kind, sid |-> req[q].sid, club |-> req[q].club]
             \/ \E t \in Tabs : rf[t].tok # None /\ r = [kind |-> "refresh", sid |-> rf[t].tok, club |-> None]
  <2> DEFINE L == {[kind |-> req[q].kind, sid |-> req[q].sid, club |-> req[q].club] :
                      q \in {p \in Unheard(Q) : Pending(p) /\ (req[p].kind = "login" \/ AccessOk(req[p].sid))}}
             R == {[kind |-> "refresh", sid |-> rf[t].tok, club |-> None] :
                      t \in {u \in T : rf[u].phase = "sent" /\ rf[u].tok # None}}
  <2>1. late' = late \cup L \cup R
    BY DEF Drop
  <2>2. \A l \in L : \E q \in Calls : l = [kind |-> req[q].kind, sid |-> req[q].sid, club |-> req[q].club]
    BY DEF Unheard
  <2>3. \A l \in R : \E t \in Tabs : rf[t].tok # None /\ l = [kind |-> "refresh", sid |-> rf[t].tok, club |-> None]
    OBVIOUS
  <2> HIDE DEF L, R
  <2>4. r \in late \/ r \in L \/ r \in R
    BY <2>1
  <2> QED
    BY <2>2, <2>3, <2>4
<1>4. ASSUME NEW r \in late' PROVE r \in LateSet(Known) /\ (r.kind = "refresh" => r.sid # None)
  BY <1>1, <1>2, <1>3 DEF Named
<1> QED
  BY <1>4 DEF Drop, Reasons

\* A full load of a tab, and requests withdrawn.
LEMMA WithoutTyped ==
    ASSUME TypeInv, NEW Q, req' = Without(Q)
    PROVE  /\ req' \in [Calls -> RequestSet(Known)]
           /\ \A q \in Calls : req'[q] = NoReq \/ (req'[q] = req[q] /\ q \notin Q)
           /\ \A q \in Calls : req'[q] # NoReq => req'[q].tab \in Tabs
           /\ \A q \in Calls : Answered(q, "login")' => req'[q].sid # None
<1>1. NoReq \in RequestSet(Known) /\ NoReq.phase = "idle"
  BY Blank DEF Known
<1> QED
  BY <1>1 DEF Without, TypeInv, ClientTyped, Named, Answered

LEMMA GotoTyped ==
    ASSUME TypeInv, NEW t \in Tabs, NEW p \in {"login", "panel"}, Goto(t, p)
    PROVE  /\ page' \in [Tabs -> {"login", "panel"}] /\ shown' \in [Tabs -> Clubs \cup {None}]
           /\ rf' \in [Tabs -> RefreshSet(Known)] /\ req' \in [Calls -> RequestSet(Known)]
           /\ \A u \in Tabs : rf'[u].phase = "answered" => rf'[u].tok # None
           /\ \A q \in Calls : req'[q] # NoReq => req'[q].tab \in Tabs
           /\ \A q \in Calls : Answered(q, "login")' => req'[q].sid # None
<1>1. NoRefresh \in RefreshSet(Known) /\ NoRefresh.phase = "idle"
  BY Blank DEF Known
<1>2. page' \in [Tabs -> {"login", "panel"}] /\ shown' \in [Tabs -> Clubs \cup {None}]
  BY DEF Goto, TypeInv, ClientTyped
<1>3. rf' \in [Tabs -> RefreshSet(Known)] /\ \A u \in Tabs : rf'[u] = rf[u] \/ rf'[u] = NoRefresh
  BY <1>1 DEF Goto, TypeInv, ClientTyped
<1>4. req' = Without(Of(t))
  BY DEF Goto
<1> QED
  BY <1>1, <1>2, <1>3, <1>4, WithoutTyped DEF TypeInv, Named

LEMMA SwitchedTyped ==
    ASSUME TypedRows(rows), NEW s \in DOMAIN rows, NEW c \in Clubs \cup {None}
    PROVE  /\ TypedRows(SwitchedRows(s, c)) /\ DOMAIN SwitchedRows(s, c) = DOMAIN rows
           /\ SwitchedRows(s, c)[s].club = c
           /\ \A i \in DOMAIN rows :
                 /\ SwitchedRows(s, c)[i].family = rows[i].family /\ SwitchedRows(s, c)[i].user = rows[i].user
                 /\ SwitchedRows(s, c)[i].rotated = rows[i].rotated
                 /\ SwitchedRows(s, c)[i].revoked = rows[i].revoked
                 /\ i # s => SwitchedRows(s, c)[i] = rows[i]
<1> DEFINE r == SwitchedRows(s, c)
<1>1. ASSUME NEW i \in DOMAIN rows
      PROVE  /\ r[i] \in AuthRow /\ r[i].family = rows[i].family /\ r[i].user = rows[i].user
             /\ r[i].rotated = rows[i].rotated /\ r[i].revoked = rows[i].revoked
             /\ IF i = s THEN r[i].club = c ELSE r[i] = rows[i]
  <2>1. rows[i] \in AuthRow
    BY RowTyped
  <2>2. r[i] = IF i = s THEN [rows[i] EXCEPT !.club = c] ELSE rows[i]
    BY DEF SwitchedRows
  <2> QED
    BY <2>1, <2>2 DEF AuthRow
<1>2. r = [i \in DOMAIN rows |-> r[i]]
  BY DEF SwitchedRows
<1> HIDE DEF r
<1>3. TypedRows(r) /\ DOMAIN r = DOMAIN rows
  BY <1>1, <1>2, RowByRow
<1> QED
  BY <1>1, <1>3 DEF r

\* A change of password, and what an accepted request does to the sessions.
LEMMA RevokeAllRows ==
    ASSUME ServerTypeOK, NEW u \in Users, RevokeAll(u)
    PROVE  Cut(rows', RowsOf(u)) /\ version' \in [Users -> 0..MaxVersion]
<1>1. Cut(rows', RowsOf(u))
  BY RevokedRows, ServerTyped DEF RevokeAll
<1>2. version[u] + 1 \in 0..MaxVersion
  BY AuthAssumption DEF RevokeAll, ServerTypeOK
<1> QED
  BY <1>1, <1>2 DEF RevokeAll, ServerTypeOK

\* The same rows, those of S revoked besides.
Kept(S) ==
    /\ DOMAIN rows \subseteq DOMAIN rows'
    /\ \A i \in DOMAIN rows :
          /\ rows'[i].family = rows[i].family /\ rows'[i].user = rows[i].user
          /\ rows'[i].revoked = (rows[i].revoked \/ i \in S)

SameRotated == \A i \in DOMAIN rows : rows'[i].rotated = rows[i].rotated
SameClubs   == \A i \in DOMAIN rows : rows'[i].club = rows[i].club

LEMMA CutKeeps ==
    ASSUME NEW S, Cut(rows', S)
    PROVE  Kept(S) /\ SameRotated /\ SameClubs /\ TypedRows(rows') /\ DOMAIN rows' = DOMAIN rows
BY DEF Cut, SameRow, Kept, SameRotated, SameClubs

LEMMA StillKeeps ==
    ASSUME TypedRows(rows), UNCHANGED rows
    PROVE  Kept({}) /\ SameRotated /\ SameClubs /\ TypedRows(rows') /\ DOMAIN rows' = DOMAIN rows
<1>1. \A i \in DOMAIN rows : rows[i].revoked \in BOOLEAN
  BY RowTyped DEF AuthRow
<1> QED
  BY <1>1 DEF Kept, SameRotated, SameClubs

LEMMA DoesRows ==
    ASSUME ServerTypeOK, NEW s \in DOMAIN rows, NEW c \in Clubs \cup {None}, NEW kind, Does(kind, s, c)
    PROVE  /\ TypedRows(rows') /\ DOMAIN rows' = DOMAIN rows /\ version' \in [Users -> 0..MaxVersion]
           /\ SameRotated
           /\ Kept(IF kind = "logout" THEN Family(s) ELSE IF kind = "password" THEN RowsOf(rows[s].user) ELSE {})
           /\ kind # "switch" => SameClubs
<1>1. TypedRows(rows) /\ version \in [Users -> 0..MaxVersion]
  BY ServerTyped
<1>2. rows[s].user \in Users
  BY <1>1, RowTyped DEF AuthRow
<1>3. CASE kind = "switch" /\ rows' = SwitchedRows(s, c) /\ UNCHANGED version
  <2>1. \A i \in DOMAIN rows : rows[i].revoked \in BOOLEAN
    BY <1>1, RowTyped DEF AuthRow
  <2> QED
    BY <1>1, <1>3, <2>1, SwitchedTyped DEF Kept, SameRotated
<1>4. CASE kind = "logout" /\ rows' = Revoked(Family(s)) /\ UNCHANGED version
  BY <1>1, <1>4, RevokedRows, CutKeeps
<1>5. CASE kind = "password" /\ RevokeAll(rows[s].user)
  BY <1>2, <1>5, RevokeAllRows, CutKeeps
<1>6. CASE kind \in {"session", "call"} /\ UNCHANGED server
  BY <1>1, <1>6, StillKeeps DEF server
<1> QED
  BY <1>3, <1>4, <1>5, <1>6 DEF Does

\* The row s rotated in favour of a new row n, and those of S revoked besides.
RotatedBy(s, S, n) ==
    /\ TypedRows(rows') /\ DOMAIN rows' = DOMAIN rows \cup {n} /\ n \in 1..MaxRows /\ n # None
    /\ Kept(S) /\ SameClubs /\ ~rows'[n].rotated /\ ~rows'[n].revoked /\ rows'[n].club = rows[s].club
    /\ rows'[n].family = rows[s].family /\ rows'[n].user = rows[s].user
    /\ \A i \in DOMAIN rows : rows'[i].rotated = (rows[i].rotated \/ i = s)

LEMMA RotateRows ==
    ASSUME ServerTypeOK, CanIssue, NEW s \in DOMAIN rows, NEW S, rows' = Rotate(s, rows[s].club, S), NEW n, n = Len(rows) + 1
    PROVE  RotatedBy(s, S, n)
<1>1. rows[s].club \in Clubs \cup {None} /\ TypedRows(rows)
  BY RowTyped, ServerTyped DEF AuthRow
<1>2. Rotated(rows', n, s, rows[s].club, S)
  BY <1>1, RotatedRows
<1> QED
  BY <1>2, AuthAssumption DEF RotatedBy, Rotated, Grows, SameRow, Kept, SameClubs

LEMMA StartRows ==
    ASSUME ServerTypeOK, CanIssue, NEW u \in Users, NEW c \in Clubs \cup {None}, rows' = StartSession(u, c), NEW n, n = Len(rows) + 1
    PROVE  /\ TypedRows(rows') /\ DOMAIN rows' = DOMAIN rows \cup {n} /\ n \in 1..MaxRows /\ n # None
           /\ Kept({}) /\ SameRotated /\ SameClubs /\ ~rows'[n].rotated /\ ~rows'[n].revoked /\ rows'[n].club = c
<1>1. Started(rows', n, c)
  BY StartedRows
<1>2. \A i \in DOMAIN rows : rows[i].revoked \in BOOLEAN
  BY RowTyped, ServerTyped DEF AuthRow
<1> QED
  BY <1>1, <1>2, AuthAssumption DEF Started, Grows, Kept, SameRotated, SameClubs

LEMMA PanelTypeStep == TypeInv /\ [Next]_vars => TypeInv'
<1> SUFFICES ASSUME TypeInv, [Next]_vars PROVE TypeInv'
  OBVIOUS
<1> DEFINE D == Known
           NamedRf == \A t \in Tabs : rf[t].phase = "answered" => rf[t].tok # None
           NamedReq == /\ \A q \in Calls : req[q] # NoReq => req[q].tab \in Tabs
                       /\ \A q \in Calls : Answered(q, "login") => req[q].sid # None
           NamedLate == \A r \in late : r.kind = "refresh" => r.sid # None
<1>a. /\ TypedRows(rows) /\ version \in [Users -> 0..MaxVersion] /\ jar \in JarSet(D)
      /\ page \in [Tabs -> {"login", "panel"}] /\ shown \in [Tabs -> Clubs \cup {None}]
      /\ rf \in [Tabs -> RefreshSet(D)] /\ req \in [Calls -> RequestSet(D)]
      /\ late \subseteq LateSet(D) /\ why \subseteq Reasons
      /\ NamedRf /\ NamedReq /\ NamedLate
  BY ServerTyped DEF TypeInv, ClientTyped, Named
<1>t. ASSUME TypedRows(rows'), version' \in [Users -> 0..MaxVersion], NEW E, E \subseteq Known', D \subseteq E,
             jar' \in JarSet(E), page' \in [Tabs -> {"login", "panel"}], shown' \in [Tabs -> Clubs \cup {None}],
             rf' \in [Tabs -> RefreshSet(E)], req' \in [Calls -> RequestSet(E)],
             late' \subseteq LateSet(D), why' \subseteq Reasons,
             NamedRf', NamedReq', NamedLate'
      PROVE  TypeInv'
  <2>1. LateSet(D) \subseteq LateSet(E)
    BY <1>t, Wider
  <2>2. Named'
    BY <1>t DEF Named
  <2> QED
    BY <1>t, <2>1, <2>2, TypedAgain
<1>s. ASSUME UNCHANGED rows PROVE TypedRows(rows') /\ D \subseteq Known'
  BY <1>a, <1>s DEF Known
<1>d. DOMAIN rows \subseteq D /\ None \in D
  BY DEF Known
<1>n. NoReq \in RequestSet(D) /\ NoRefresh \in RefreshSet(D) /\ NoRefresh.phase = "idle" /\ NoReq.phase = "idle"
  BY Blank, <1>d
<1>o. ASSUME NEW Q \in SUBSET Calls, NEW T \in SUBSET Tabs, Drop(Q, T)
      PROVE  late' \subseteq LateSet(D) /\ NamedLate' /\ why' \subseteq Reasons
  BY <1>o, Drops
<1>g. ASSUME NEW t \in Tabs, NEW p \in {"login", "panel"}, Goto(t, p)
      PROVE  /\ page' \in [Tabs -> {"login", "panel"}] /\ shown' \in [Tabs -> Clubs \cup {None}]
             /\ rf' \in [Tabs -> RefreshSet(D)] /\ req' \in [Calls -> RequestSet(D)]
             /\ NamedRf' /\ NamedReq'
  BY <1>g, GotoTyped
<1>w. ASSUME NEW Q, req' = Without(Q) PROVE req' \in [Calls -> RequestSet(D)] /\ NamedReq'
  BY <1>w, WithoutTyped
<1>f. \A t \in Tabs : Of(t) \subseteq Calls /\ Waiting(t) \subseteq Calls
  BY DEF Of, Waiting
<1>q. ASSUME NEW q \in Calls, req[q] # NoReq PROVE req[q].tab \in Tabs
  BY <1>a, <1>q
<1>e. ASSUME rf' = rf PROVE rf' \in [Tabs -> RefreshSet(D)] /\ NamedRf'
  BY <1>a, <1>e
<1>b. ASSUME req' = req PROVE req' \in [Calls -> RequestSet(D)] /\ NamedReq'
  BY <1>a, <1>b DEF Answered
<1>l. ASSUME late' = late PROVE late' \subseteq LateSet(D) /\ NamedLate'
  BY <1>a, <1>l
<1>v. ASSUME NEW q \in Calls, NEW ph \in {"waiting", "answered"}, NEW s \in D,
             ph = "answered" => req[q].kind # "login", req[q] # NoReq,
             req' = [req EXCEPT ![q].phase = ph, ![q].sid = s]
      PROVE  req' \in [Calls -> RequestSet(D)] /\ NamedReq'
  <2>1. req[q] \in RequestSet(D)
    BY <1>a
  <2>2. [req[q] EXCEPT !.phase = ph, !.sid = s] \in RequestSet(D)
    BY <1>v, <2>1 DEF RequestSet
  <2>3. /\ [req[q] EXCEPT !.phase = ph, !.sid = s].phase = ph
        /\ [req[q] EXCEPT !.phase = ph, !.sid = s].kind = req[q].kind
        /\ [req[q] EXCEPT !.phase = ph, !.sid = s].tab = req[q].tab
    BY <2>1 DEF RequestSet
  <2>4. \A p \in Calls : req'[p] = IF p = q THEN [req[q] EXCEPT !.phase = ph, !.sid = s] ELSE req[p]
    BY <1>a, <1>v DEF RequestSet
  <2>5. req' = [p \in Calls |-> req'[p]]
    BY <1>a, <1>v
  <2>6. req' \in [Calls -> RequestSet(D)]
    BY <1>a, <2>2, <2>4, <2>5
  <2>7. NamedReq'
    BY <1>a, <1>v, <2>3, <2>4 DEF Answered
  <2> QED
    BY <2>6, <2>7
<1>z. ASSUME NEW q \in Calls, NEW s, s = req[q].sid,
             req' = [req EXCEPT ![q].phase = "answered"]
      PROVE  req' = [req EXCEPT ![q].phase = "answered", ![q].sid = s]
  <2>1. req[q] \in RequestSet(D)
    BY <1>a
  <2> QED
    BY <1>a, <1>z, <2>1 DEF RequestSet
<1>k. ASSUME NEW t \in Tabs, NEW ph \in {"answered", "refused"}, NEW E, D \subseteq E, NEW s \in E,
             ph = "answered" => s # None, rf' = [rf EXCEPT ![t] = [phase |-> ph, tok |-> s]]
      PROVE  rf' \in [Tabs -> RefreshSet(E)] /\ NamedRf'
  <2>1. [phase |-> ph, tok |-> s] \in RefreshSet(E) /\ rf \in [Tabs -> RefreshSet(E)]
    BY <1>a, <1>k DEF RefreshSet
  <2> QED
    BY <1>a, <1>k, <2>1
<1>r. ASSUME NEW t \in Tabs, rf' = [rf EXCEPT ![t].phase = "refused"]
      PROVE  rf' \in [Tabs -> RefreshSet(D)] /\ NamedRf'
  BY <1>a, <1>r DEF RefreshSet
<1>i. ASSUME NEW t \in Tabs, rf' = [rf EXCEPT ![t] = NoRefresh]
      PROVE  rf' \in [Tabs -> RefreshSet(D)] /\ NamedRf'
  BY <1>a, <1>i, <1>n
<1> HIDE DEF D, NamedRf, NamedReq, NamedLate
<1>1. CASE UNCHANGED vars
  BY <1>1, <1>a, <1>s, <1>t, <1>e, <1>b, <1>l DEF vars, server
<1>2. CASE Elsewhere
  <2>1. TypedRows(rows') /\ DOMAIN rows' = DOMAIN rows /\ version' \in [Users -> 0..MaxVersion] /\ why' \subseteq Reasons
    <3>1. ASSUME NEW u \in Users, RevokeAll(u), why' = Mark({"elsewhere"})
          PROVE  TypedRows(rows') /\ DOMAIN rows' = DOMAIN rows /\ version' \in [Users -> 0..MaxVersion] /\ why' \subseteq Reasons
      BY <1>a, <3>1, RevokeAllRows, CutKeeps DEF TypeInv, Mark, Reasons
    <3>2. ASSUME NEW s \in DOMAIN rows, Expire(s), why' = why
          PROVE  TypedRows(rows') /\ DOMAIN rows' = DOMAIN rows /\ version' \in [Users -> 0..MaxVersion] /\ why' \subseteq Reasons
      BY <1>a, <3>2, ExpiredRows DEF TypeInv, Expire
    <3> QED
      BY <1>2, <3>1, <3>2 DEF Elsewhere
  <2>2. D \subseteq Known'
    BY <2>1 DEF D, Known
  <2> QED
    BY <1>2, <1>a, <1>t, <1>e, <1>b, <1>l, <2>1, <2>2 DEF Elsewhere
<1>3. ASSUME NEW t \in Tabs, Load(t) PROVE TypeInv'
  <2>1. Of(t) \in SUBSET Calls /\ {t} \in SUBSET Tabs
    BY <1>f
  <2>2. PICK p \in {"login", "panel"} : Goto(t, p)
    BY <1>3 DEF Load
  <2>3. /\ page' \in [Tabs -> {"login", "panel"}] /\ shown' \in [Tabs -> Clubs \cup {None}]
        /\ rf' \in [Tabs -> RefreshSet(D)] /\ req' \in [Calls -> RequestSet(D)]
        /\ NamedRf' /\ NamedReq'
    BY <1>g, <2>2
  <2>4. late' \subseteq LateSet(D) /\ NamedLate' /\ why' \subseteq Reasons
    BY <1>3, <1>o, <2>1 DEF Load
  <2> QED
    BY <1>3, <1>a, <1>s, <1>t, <2>3, <2>4 DEF Load, server
<1>4. ASSUME NEW t \in Tabs, NEW q \in Calls, NEW kind \in Kinds, NEW c \in Clubs \cup {None}, Send(q, t, kind, c)
      PROVE  TypeInv'
  <2>1. Sent(q, t, kind, c) \in RequestSet(D) /\ Sent(q, t, kind, c).tab = t /\ Sent(q, t, kind, c).phase = "sent"
    BY <1>a, <1>d DEF Sent, RequestSet, JarSet
  <2>2. req' = [req EXCEPT ![q] = Sent(q, t, kind, c)]
    BY <1>4 DEF Send
  <2>3. req' \in [Calls -> RequestSet(D)] /\ NamedReq'
    BY <1>a, <2>1, <2>2 DEF NamedReq, Answered
  <2>4. why' \subseteq Reasons
    BY <1>4, <1>a DEF Send, Mark, Reasons
  <2> QED
    BY <1>4, <1>a, <1>s, <1>t, <1>e, <1>l, <2>3, <2>4 DEF Send, server
<1>5. ASSUME NEW t \in Tabs, ServeRefresh(t) PROVE TypeInv'
  <2> DEFINE s == rf[t].tok
  <2>1. rf[t] \in RefreshSet(D) /\ s \in Known
    BY <1>a DEF RefreshSet, D
  <2>0. UNCHANGED <<version, jar, page, shown, req, late>>
    BY <1>5 DEF ServeRefresh
  <2>2. CASE s = None /\ UNCHANGED <<rows, why>> /\ rf' = [rf EXCEPT ![t].phase = "refused"]
    BY <1>a, <1>s, <1>t, <1>r, <1>b, <1>l, <2>0, <2>2
  <2>3. CASE /\ s # None /\ CanIssue /\ rows' = Rotate(s, rows[s].club, {}) /\ why' = why
             /\ rf' = [rf EXCEPT ![t] = [phase |-> "answered", tok |-> Len(rows) + 1]]
    <3>1. PICK n : n = Len(rows) + 1
      OBVIOUS
    <3> DEFINE E == DOMAIN rows \cup {n, None}
    <3>2. s \in DOMAIN rows
      BY <2>1, <2>3 DEF Known
    <3>3. TypedRows(rows') /\ DOMAIN rows' = DOMAIN rows \cup {n} /\ n # None
      BY <2>3, <3>1, <3>2, RotateRows DEF TypeInv, RotatedBy
    <3>4. D \subseteq E /\ E \subseteq Known' /\ n \in E
      BY <3>3 DEF D, Known
    <3> HIDE DEF E
    <3>5. jar \in JarSet(E) /\ req' \in [Calls -> RequestSet(E)] /\ NamedReq'
      BY <1>a, <1>b, <2>0, <3>4, Wider
    <3>6. rf' \in [Tabs -> RefreshSet(E)] /\ NamedRf'
      BY <1>k, <2>3, <3>1, <3>3, <3>4
    <3> QED
      BY <1>a, <1>t, <1>l, <2>0, <2>3, <3>3, <3>4, <3>5, <3>6
  <2>4. CASE s # None /\ rows' = CutFamily(s) /\ rf' = [rf EXCEPT ![t].phase = "refused"] /\ why' \in {why, Mark({"reuse"})}
    <3>1. TypedRows(rows') /\ DOMAIN rows' = DOMAIN rows
      BY <2>4, <1>a, RevokedRows DEF CutFamily, Cut
    <3>2. D \subseteq Known'
      BY <3>1 DEF D, Known
    <3>3. why' \subseteq Reasons
      BY <1>a, <2>4 DEF Mark, Reasons
    <3> QED
      BY <1>a, <1>t, <1>r, <1>b, <1>l, <2>0, <2>4, <3>1, <3>2, <3>3
  <2> QED
    BY <1>5, <2>2, <2>3, <2>4 DEF ServeRefresh
<1>6. ASSUME NEW t \in Tabs, ServeRefreshWhileRevoking(t) PROVE TypeInv'
  <2> DEFINE s == rf[t].tok
             u == rows[s].user
  <2>1. s \in DOMAIN rows /\ CanIssue
    BY <1>6, <1>a DEF RefreshSet, D, Known, ServeRefreshWhileRevoking
  <2>2. u \in Users
    BY <1>a, <2>1, RowTyped DEF AuthRow
  <2>3. /\ version[u] < MaxVersion /\ version' = [version EXCEPT ![u] = @ + 1]
        /\ rows' = Rotate(s, rows[s].club, RowsOf(u))
        /\ rf' = [rf EXCEPT ![t] = [phase |-> "answered", tok |-> Len(rows) + 1]]
        /\ UNCHANGED <<jar, page, shown, late>>
    BY <1>6 DEF ServeRefreshWhileRevoking
  <2>4. PICK n : n = Len(rows) + 1
    OBVIOUS
  <2> DEFINE E == DOMAIN rows \cup {n, None}
  <2>5. TypedRows(rows') /\ DOMAIN rows' = DOMAIN rows \cup {n} /\ n # None
    BY <2>1, <2>3, <2>4, RotateRows DEF TypeInv, RotatedBy
  <2>6. D \subseteq E /\ E \subseteq Known' /\ n \in E
    BY <2>5 DEF D, Known
  <2>7. version' \in [Users -> 0..MaxVersion]
    <3>1. version[u] + 1 \in 0..MaxVersion
      BY <1>a, <2>2, <2>3, AuthAssumption
    <3> QED
      BY <1>a, <2>2, <2>3, <3>1
  <2>8. req' \in [Calls -> RequestSet(D)] /\ NamedReq' /\ why' \subseteq Reasons
    <3>1. why' \subseteq Reasons
      BY <1>6, <1>a DEF ServeRefreshWhileRevoking, Mark, Reasons
    <3>2. ASSUME NEW q \in Calls, Pending(q), req[q].kind = "password", req' = [req EXCEPT ![q].phase = "answered"]
          PROVE  req' \in [Calls -> RequestSet(D)] /\ NamedReq'
      <4>1. req[q].sid \in D /\ req[q] # NoReq
        BY <1>a, <1>n, <3>2 DEF RequestSet, Pending
      <4> QED
        BY <1>v, <1>z, <3>2, <4>1
    <3> QED
      BY <1>6, <1>b, <3>1, <3>2 DEF ServeRefreshWhileRevoking
  <2> HIDE DEF E, u
  <2>9. rf' \in [Tabs -> RefreshSet(E)] /\ NamedRf'
    BY <1>k, <2>3, <2>4, <2>5, <2>6
  <2>10. jar' \in JarSet(E) /\ req' \in [Calls -> RequestSet(E)]
    BY <1>a, <2>3, <2>6, <2>8, Wider
  <2> QED
    BY <1>a, <1>t, <1>l, <2>3, <2>5, <2>6, <2>7, <2>8, <2>9, <2>10
<1>7. ASSUME NEW t \in Tabs, Renewed(t) PROVE TypeInv'
  <2> DEFINE s == rf[t].tok
             c == rows[s].club
  <2>1. rf[t] \in RefreshSet(D) /\ s \in D /\ s # None
    BY <1>7, <1>a DEF RefreshSet, Renewed, NamedRf
  <2>2. c \in Clubs \cup {None}
    BY <1>a, <2>1, RowTyped DEF D, Known, AuthRow
  <2>3. /\ jar' = [sid |-> s, club |-> c, refresh |-> s, hint |-> TRUE]
        /\ req' = [q \in Calls |-> IF q \in Waiting(t)
                     THEN [req[q] EXCEPT !.phase = "resent", !.sid = s,
                                         !.club = IF req[q].kind = "session" THEN c ELSE @]
                     ELSE req[q]]
        /\ rf' = [rf EXCEPT ![t] = NoRefresh]
        /\ UNCHANGED <<rows, version, page, shown, late, why>>
    BY <1>7 DEF Renewed, server
  <2> HIDE DEF s, c
  <2>4. jar' \in JarSet(D)
    BY <2>1, <2>2, <2>3 DEF JarSet
  <2>5. req' \in [Calls -> RequestSet(D)] /\ NamedReq'
    <3> DEFINE e(q) == [req[q] EXCEPT !.phase = "resent", !.sid = s, !.club = IF req[q].kind = "session" THEN c ELSE @]
    <3>1. ASSUME NEW q \in Calls
          PROVE  e(q) \in RequestSet(D) /\ e(q).phase = "resent" /\ e(q).tab = req[q].tab
      BY <1>a, <2>1, <2>2 DEF RequestSet
    <3>2. \A q \in Waiting(t) : req[q] # NoReq
      BY <1>n DEF Waiting
    <3>3. \A q \in Calls : req'[q] = IF q \in Waiting(t) THEN e(q) ELSE req[q]
      BY <2>3
    <3>4. req' = [q \in Calls |-> req'[q]]
      BY <2>3
    <3> HIDE DEF e
    <3>5. req' \in [Calls -> RequestSet(D)]
      BY <1>a, <3>1, <3>3, <3>4
    <3> QED
      BY <1>a, <3>1, <3>2, <3>3, <3>5 DEF NamedReq, Answered
  <2> QED
    BY <1>a, <1>s, <1>t, <1>i, <1>l, <2>3, <2>4, <2>5
<1>8. ASSUME NEW t \in Tabs, Refused(t) PROVE TypeInv'
  <2>1. jar' \in JarSet(D)
    BY <1>8, <1>a DEF Refused, onSessionExpired, JarSet
  <2>2. late' \subseteq LateSet(D) /\ NamedLate' /\ why' \subseteq Reasons
    BY <1>8, <1>o, <1>f DEF Refused
  <2> QED
    BY <1>8, <1>a, <1>s, <1>t, <1>g, <2>1, <2>2 DEF Refused, server
<1>9. ASSUME NEW t \in Tabs, LimitRefresh(t) PROVE TypeInv'
  BY <1>9, <1>a, <1>s, <1>t, <1>r, <1>b, <1>l DEF LimitRefresh, server
<1>10. ASSUME NEW t \in Tabs, FailRefresh(t) PROVE TypeInv'
  <2>1. CASE Goto(t, "login") /\ Drop(Of(t), {t})
    <3>1. late' \subseteq LateSet(D) /\ NamedLate' /\ why' \subseteq Reasons
      BY <1>o, <1>f, <2>1
    <3> QED
      BY <1>10, <1>a, <1>s, <1>t, <1>g, <2>1, <3>1 DEF FailRefresh, server
  <2>2. CASE /\ rf' = [rf EXCEPT ![t] = NoRefresh] /\ req' = Without(Waiting(t)) /\ Drop(Waiting(t), {t})
             /\ UNCHANGED <<page, shown>>
    <3>1. late' \subseteq LateSet(D) /\ NamedLate' /\ why' \subseteq Reasons
      BY <1>o, <1>f, <2>2
    <3> QED
      BY <1>10, <1>a, <1>s, <1>t, <1>i, <1>w, <2>2, <3>1 DEF FailRefresh, server
  <2> QED
    BY <1>10, <2>1, <2>2 DEF FailRefresh
<1>11. ASSUME NEW q \in Calls, Serve(q) PROVE TypeInv'
  <2> DEFINE r == req[q]
  <2>r. r \in RequestSet(D) /\ r # NoReq /\ UNCHANGED <<jar, page, shown, rf, late>>
    BY <1>11, <1>a, <1>n DEF Serve, Pending
  <2>w. why' \subseteq Reasons
    BY <1>11, <1>a DEF Serve, Mark, Closing, Reasons
  <2>1. CASE r.kind = "login" /\ CanIssue
    <3>1. PICK u \in Users : rows' = StartSession(u, r.club)
      BY <1>11, <2>1 DEF Serve
    <3>2. PICK n : n = Len(rows) + 1
      OBVIOUS
    <3> DEFINE E == DOMAIN rows \cup {n, None}
               e == [req[q] EXCEPT !.phase = "answered", !.sid = n]
    <3>3. req' = [req EXCEPT ![q].phase = "answered", ![q].sid = n] /\ version' = version
      BY <1>11, <2>1, <3>2 DEF Serve
    <3>4. TypedRows(rows') /\ DOMAIN rows' = DOMAIN rows \cup {n} /\ n # None
      <4>1. r.club \in Clubs \cup {None}
        BY <2>r DEF RequestSet
      <4> QED
        BY <2>1, <3>1, <3>2, <4>1, StartRows DEF TypeInv
    <3>5. D \subseteq E /\ E \subseteq Known' /\ n \in E
      BY <3>4 DEF D, Known
    <3> HIDE DEF E
    <3>6. jar \in JarSet(E) /\ rf \in [Tabs -> RefreshSet(E)]
      BY <1>a, <3>5, Wider
    <3>7. req' \in [Calls -> RequestSet(E)] /\ NamedReq'
      <4>1. \A p \in Calls : req[p] \in RequestSet(E)
        BY <1>a, <3>5, Wider
      <4>2. e \in RequestSet(E) /\ e.sid = n /\ e.tab = r.tab
        BY <3>5, <4>1 DEF RequestSet
      <4>3. \A p \in Calls : req'[p] = IF p = q THEN e ELSE req[p]
        BY <1>a, <3>3 DEF RequestSet
      <4>4. req' = [p \in Calls |-> req'[p]]
        BY <1>a, <3>3
      <4> HIDE DEF e
      <4>5. req' \in [Calls -> RequestSet(E)]
        BY <4>1, <4>2, <4>3, <4>4
      <4>6. NamedReq'
        BY <1>a, <2>r, <3>4, <4>2, <4>3 DEF NamedReq, Answered
      <4> QED
        BY <4>5, <4>6
    <3> QED
      BY <1>a, <1>t, <1>e, <1>l, <2>r, <2>w, <3>3, <3>4, <3>5, <3>6, <3>7
  <2>2. CASE r.kind # "login" /\ AccessOk(r.sid) /\ Does(r.kind, r.sid, r.club) /\ req' = [req EXCEPT ![q].phase = "answered"]
    <3>1. r.sid \in DOMAIN rows /\ r.club \in Clubs \cup {None} /\ r.sid \in D
      BY <2>r, <2>2 DEF AccessOk, RequestSet, D, Known
    <3>2. TypedRows(rows') /\ DOMAIN rows' = DOMAIN rows /\ version' \in [Users -> 0..MaxVersion]
      BY <2>2, <3>1, DoesRows DEF TypeInv
    <3>3. req' \in [Calls -> RequestSet(D)] /\ NamedReq'
      BY <1>v, <1>z, <2>r, <2>2, <3>1
    <3>4. D \subseteq Known'
      BY <3>2 DEF D, Known
    <3> QED
      BY <1>a, <1>t, <1>e, <1>l, <2>r, <2>w, <3>2, <3>3, <3>4
  <2> QED
    BY <1>11, <2>1, <2>2 DEF Serve
<1>12. ASSUME NEW q \in Calls, Reject(q) PROVE TypeInv'
  BY <1>12, <1>a, <1>s, <1>t, <1>e, <1>l, <1>w DEF Reject, server
<1>13. ASSUME NEW q \in Calls, Deliver(q) PROVE TypeInv'
  <2> DEFINE r == req[q]
  <2>r. /\ r.tab \in Tabs /\ r.club \in Clubs \cup {None} /\ r.sid \in D /\ UNCHANGED <<rows, version>>
    BY <1>13, <1>a, <1>n, <1>q DEF Deliver, RequestSet, server
  <2>1. jar' \in JarSet(D)
    <3>1. jar' \in {jar, NoJar, [sid |-> r.sid, club |-> r.club, refresh |-> r.sid, hint |-> TRUE],
                    [jar EXCEPT !.sid = r.sid, !.club = r.club]}
      BY <1>13 DEF Deliver
    <3>2. NoJar \in JarSet(D) /\ [sid |-> r.sid, club |-> r.club, refresh |-> r.sid, hint |-> TRUE] \in JarSet(D)
      BY <1>d, <2>r DEF JarSet, NoJar
    <3>3. [jar EXCEPT !.sid = r.sid, !.club = r.club] \in JarSet(D)
      BY <1>a, <2>r DEF JarSet
    <3> QED
      BY <1>a, <3>1, <3>2, <3>3
  <2>2. CASE Goto(r.tab, "login") /\ Drop(Of(r.tab) \ {q}, {r.tab})
    <3>1. Of(r.tab) \ {q} \in SUBSET Calls /\ {r.tab} \in SUBSET Tabs
      BY <1>f, <2>r
    <3>2. late' \subseteq LateSet(D) /\ NamedLate' /\ why' \subseteq Reasons
      BY <1>o, <2>2, <3>1
    <3> QED
      BY <1>a, <1>g, <1>s, <1>t, <2>r, <2>1, <2>2, <3>2
  <2>3. CASE ~(Goto(r.tab, "login") /\ Drop(Of(r.tab) \ {q}, {r.tab}))
    <3>1. rf' = rf /\ late' = late /\ why' = why /\ \E Q : req' = Without(Q)
      BY <1>13, <2>3 DEF Deliver
    <3>2. page' \in [Tabs -> {"login", "panel"}] /\ shown' \in [Tabs -> Clubs \cup {None}]
      BY <1>13, <1>a, <2>r, <2>3 DEF Deliver
    <3> QED
      BY <1>a, <1>w, <1>e, <1>l, <1>s, <1>t, <2>r, <2>1, <3>1, <3>2
  <2> QED
    BY <2>2, <2>3
<1>14. ASSUME NEW q \in Calls, Fail(q) PROVE TypeInv'
  <2>1. req[q].tab \in Tabs /\ UNCHANGED <<rows, version, jar>>
    BY <1>14, <1>n, <1>q DEF Fail, Pending, server
  <2>2. CASE Goto(req[q].tab, "login") /\ Drop(Of(req[q].tab), {req[q].tab})
    <3>1. late' \subseteq LateSet(D) /\ NamedLate' /\ why' \subseteq Reasons
      BY <1>o, <1>f, <2>1, <2>2
    <3> QED
      BY <1>a, <1>g, <1>s, <1>t, <2>1, <2>2, <3>1
  <2>3. CASE req' = Without({q}) /\ UNCHANGED <<page, shown, rf>> /\ Drop({q}, {})
    <3>1. late' \subseteq LateSet(D) /\ NamedLate' /\ why' \subseteq Reasons
      BY <1>o, <2>3
    <3> QED
      BY <1>a, <1>w, <1>e, <1>s, <1>t, <2>1, <2>3, <3>1
  <2> QED
    BY <1>14, <2>2, <2>3 DEF Fail
<1>15. ASSUME NEW q \in Calls, Unauthorized(q) PROVE TypeInv'
  <2>1. UNCHANGED <<rows, version, jar>> /\ req[q] # NoReq /\ req[q].tab \in Tabs
    BY <1>15, <1>n, <1>q DEF Unauthorized, Pending, server
  <2> DEFINE t == req[q].tab
  <2>2. CASE /\ req' = [req EXCEPT ![q].phase = "waiting", ![q].sid = None]
             /\ rf' = rf \/ rf' = [rf EXCEPT ![t] = [phase |-> "sent", tok |-> jar.refresh]]
             /\ why' \in {why, Mark({"crossed"})} /\ UNCHANGED <<page, shown, late>>
    <3>1. req' \in [Calls -> RequestSet(D)] /\ NamedReq'
      BY <1>v, <1>d, <2>1, <2>2
    <3>2. rf' \in [Tabs -> RefreshSet(D)] /\ NamedRf'
      <4>1. [phase |-> "sent", tok |-> jar.refresh] \in RefreshSet(D)
        BY <1>a DEF JarSet, RefreshSet
      <4>2. CASE rf' = [rf EXCEPT ![t] = [phase |-> "sent", tok |-> jar.refresh]]
        BY <1>a, <4>1, <4>2 DEF NamedRf
      <4> QED
        BY <1>e, <2>2, <4>2
    <3>3. why' \subseteq Reasons
      BY <1>a, <2>2 DEF Mark, Reasons
    <3> QED
      BY <1>a, <1>l, <1>s, <1>t, <2>1, <2>2, <3>1, <3>2, <3>3
  <2>3. CASE Goto(t, "login") /\ Drop(Of(t) \ {q}, {t})
    <3>1. Of(t) \ {q} \in SUBSET Calls /\ {t} \in SUBSET Tabs
      BY <1>f, <2>1
    <3>2. late' \subseteq LateSet(D) /\ NamedLate' /\ why' \subseteq Reasons
      BY <1>o, <2>3, <3>1
    <3> QED
      BY <1>a, <1>g, <1>s, <1>t, <2>1, <2>3, <3>2
  <2>4. CASE req' = Without({q}) /\ UNCHANGED <<page, shown, rf, late, why>>
    BY <1>a, <1>w, <1>e, <1>l, <1>s, <1>t, <2>1, <2>4
  <2> QED
    BY <1>15, <2>2, <2>3, <2>4 DEF Unauthorized
<1>16. ASSUME NEW r \in late, ServeLate(r) PROVE TypeInv'
  <2>1. /\ r \in LateSet(D) /\ late' \subseteq LateSet(D) /\ NamedLate'
        /\ UNCHANGED <<jar, page, shown, rf, req>>
    BY <1>16, <1>a DEF ServeLate, NamedLate
  <2>2. why' \subseteq Reasons
    BY <1>16, <1>a DEF ServeLate, Mark, Closing, Reasons
  <2>3. ASSUME TypedRows(rows'), version' \in [Users -> 0..MaxVersion], DOMAIN rows \subseteq DOMAIN rows'
        PROVE  TypeInv'
    <3>1. D \subseteq Known'
      BY <2>3 DEF D, Known
    <3> QED
      BY <1>a, <1>b, <1>e, <1>t, <2>1, <2>2, <2>3, <3>1
  <2>4. r.club \in Clubs \cup {None} /\ (r.sid # None => r.sid \in DOMAIN rows)
    BY <2>1 DEF LateSet, D, Known
  <2>5. CASE r.kind = "login"
    <3>1. PICK u \in Users : rows' = StartSession(u, r.club) /\ CanIssue /\ version' = version
      BY <1>16, <2>5 DEF ServeLate
    <3>2. TypedRows(rows') /\ DOMAIN rows \subseteq DOMAIN rows'
      BY <2>4, <3>1, StartRows DEF TypeInv, Kept
    <3> QED
      BY <1>a, <2>3, <3>1, <3>2
  <2>6. CASE r.kind = "refresh"
    <3>1. r.sid \in DOMAIN rows /\ version' = version
      BY <1>16, <1>a, <2>4, <2>6 DEF NamedLate, ServeLate
    <3>2. CASE CanIssue /\ rows' = Rotate(r.sid, rows[r.sid].club, {})
      <4>1. TypedRows(rows') /\ DOMAIN rows \subseteq DOMAIN rows'
        BY <3>1, <3>2, RotateRows DEF TypeInv, Kept, RotatedBy
      <4> QED
        BY <1>a, <2>3, <3>1, <4>1
    <3>3. CASE rows' = CutFamily(r.sid)
      <4>1. TypedRows(rows') /\ DOMAIN rows \subseteq DOMAIN rows'
        BY <1>a, <3>3, RevokedRows DEF CutFamily, Cut
      <4> QED
        BY <1>a, <2>3, <3>1, <4>1
    <3> QED
      BY <1>16, <2>6, <3>2, <3>3 DEF ServeLate
  <2>7. CASE AccessOk(r.sid) /\ Does(r.kind, r.sid, r.club)
    <3>1. r.sid \in DOMAIN rows
      BY <2>4, <2>7 DEF AccessOk
    <3>2. TypedRows(rows') /\ DOMAIN rows' = DOMAIN rows /\ version' \in [Users -> 0..MaxVersion]
      BY <2>4, <2>7, <3>1, DoesRows DEF TypeInv
    <3> QED
      BY <2>3, <3>2
  <2> QED
    BY <1>16, <2>5, <2>6, <2>7 DEF ServeLate
<1> QED
  BY <1>1, <1>2, <1>3, <1>4, <1>5, <1>6, <1>7, <1>8, <1>9, <1>10, <1>11, <1>12, <1>13, <1>14, <1>15, <1>16 DEF Next

LEMMA InitPanelTypes == Init => TypeInv
<1> SUFFICES ASSUME Init PROVE TypeInv
  OBVIOUS
<1>1. ServerTypeOK
  BY AuthAssumption DEF Init, ServerInit, ServerTypeOK
<1>2. NoReq \in RequestSet(Known) /\ NoRefresh \in RefreshSet(Known) /\ NoJar \in JarSet(Known)
      /\ NoRefresh.phase = "idle" /\ NoReq.phase = "idle"
  BY Blank DEF Known
<1>3. Named
  BY <1>2 DEF Init, Named, Answered
<1> QED
  BY <1>1, <1>2, <1>3 DEF Init, TypeInv, ClientTyped

LEMMA TypeInvCorrect == Spec => []TypeInv
<1>1. TypeInv /\ [Next]_vars => TypeInv'
  BY PanelTypeStep
<1> QED
  BY InitPanelTypes, <1>1, PTL DEF Spec

(* Whatever the tabs of the browser do, cookies, requests and renewals keep    *)
(* their types, and the tokens they carry are tokens the backend issued.       *)
THEOREM PanelTypeCorrect == Spec => []PanelTypeOK
BY TypeInvCorrect, TypesNamed, PTL

-----------------------------------------------------------------------------
(* A tab alone: the requests and the renewal that each page allows             *)

OneTab == Tabs # {} /\ \A t, u \in Tabs : t = u

Shape ==
    /\ jar.hint => jar.refresh # None
    /\ \A t \in Tabs : /\ page[t] = "login" => rf[t] = NoRefresh
                       /\ page[t] = "panel" => jar.hint
    /\ \A q \in Calls :
          req[q] # NoReq =>
             /\ req[q].kind = "login" <=> page[req[q].tab] = "login"
             /\ req[q].kind = "login" => req[q].phase \in {"sent", "answered"}
                                         /\ \A p \in Calls : req[p] # NoReq => p = q
    /\ \A p, q \in Calls : req[p].kind = "switch" /\ req[q].kind = "switch" => p = q

\* What the history says of answers that were not heard, and of passwords.
Heard ==
    /\ late # {} => "cut" \in why
    /\ \A q \in Calls : Answered(q, "password") => why \cap {"cut", "closed"} # {}

LEMMA NothingDropped ==
    ASSUME NEW Q, NEW T \in SUBSET Tabs, Drop(Q, T), "cut" \notin why'
    PROVE  why' = why /\ late' = late /\ Unheard(Q) = {} /\ T \cap Renewing = {}
<1>1. why' = why /\ Unheard(Q) = {} /\ T \cap Renewing = {}
  BY DEF Drop
<1> DEFINE U == {q \in Unheard(Q) : Pending(q) /\ (req[q].kind = "login" \/ AccessOk(req[q].sid))}
           V == {u \in T : rf[u].phase = "sent" /\ rf[u].tok # None}
           L == {[kind |-> req[q].kind, sid |-> req[q].sid, club |-> req[q].club] : q \in U}
           R == {[kind |-> "refresh", sid |-> rf[t].tok, club |-> None] : t \in V}
<1>2. U = {} /\ V = {}
  BY <1>1 DEF Renewing
<1>3. late' = late \cup L \cup R
  BY DEF Drop
<1>4. L = {} /\ R = {}
  <2> HIDE DEF U, V
  <2> QED
    BY <1>2
<1> HIDE DEF L, R
<1> QED
  BY <1>1, <1>3, <1>4

\* The history only grows as long as nothing is lost.
LEMMA HistoryGrows == ASSUME [Next]_vars, "cut" \notin why' PROVE "cut" \notin why /\ why \subseteq why'
<1>1. ASSUME NEW Q, NEW T, Drop(Q, T) PROVE "cut" \notin why /\ why \subseteq why'
  BY <1>1 DEF Drop
<1>2. ASSUME NEW m, why' = Mark(m) PROVE "cut" \notin why /\ why \subseteq why'
  BY <1>2 DEF Mark
<1>3. ASSUME why' = why PROVE "cut" \notin why /\ why \subseteq why'
  BY <1>3
<1>4. ASSUME NEW t \in Tabs, \/ Load(t) \/ ServeRefresh(t) \/ ServeRefreshWhileRevoking(t)
                             \/ Renewed(t) \/ Refused(t) \/ LimitRefresh(t) \/ FailRefresh(t)
      PROVE  "cut" \notin why /\ why \subseteq why'
  BY <1>1, <1>2, <1>3, <1>4
     DEF Load, ServeRefresh, ServeRefreshWhileRevoking, Renewed, Refused, LimitRefresh, FailRefresh
<1>5. ASSUME NEW q \in Calls, Serve(q) \/ Reject(q) \/ Fail(q) \/ Unauthorized(q)
      PROVE  "cut" \notin why /\ why \subseteq why'
  BY <1>1, <1>2, <1>3, <1>5 DEF Serve, Reject, Fail, Unauthorized
<1>6. ASSUME NEW q \in Calls, Deliver(q) PROVE "cut" \notin why /\ why \subseteq why'
  BY <1>1, <1>3, <1>6 DEF Deliver
<1>7. ASSUME NEW r \in late, ServeLate(r) PROVE "cut" \notin why /\ why \subseteq why'
  BY <1>2, <1>3, <1>7 DEF ServeLate
<1>8. CASE Elsewhere
  BY <1>2, <1>3, <1>8 DEF Elsewhere
<1>9. ASSUME NEW q \in Calls, NEW t \in Tabs, NEW kind, NEW c, Send(q, t, kind, c)
      PROVE  "cut" \notin why /\ why \subseteq why'
  BY <1>2, <1>3, <1>9 DEF Send
<1> QED
  BY <1>3, <1>4, <1>5, <1>6, <1>7, <1>8, <1>9 DEF Next, vars

\* A full load of the only tab.
Cleared(p) ==
    /\ \A t \in Tabs : page'[t] = p /\ shown'[t] = None /\ rf'[t] = NoRefresh
    /\ \A q \in Calls : req'[q] = NoReq

LEMMA AllOfTab ==
    ASSUME OneTab, TypeInv, NEW t \in Tabs
    PROVE  (\A q \in Calls : req[q] # NoReq => q \in Of(t)) /\ \A u \in Tabs : u = t
BY DEF OneTab, TypeInv, Named, Of

LEMMA GotoClears ==
    ASSUME OneTab, TypeInv, NEW t \in Tabs, NEW p, Goto(t, p)
    PROVE  Cleared(p)
<1>1. \A q \in Calls : req[q] # NoReq => q \in Of(t)
  BY AllOfTab
<1>2. \A u \in Tabs : page'[u] = p /\ shown'[u] = None /\ rf'[u] = NoRefresh
  BY DEF OneTab, Goto, TypeInv, ClientTyped
<1> QED
  BY <1>1, <1>2 DEF Goto, Without, Cleared

LEMMA ClearedShape ==
    ASSUME TypeInv, NEW p \in {"login", "panel"}, Cleared(p), p = "panel" => jar'.hint, jar'.hint => jar'.refresh # None
    PROVE  Shape'
<1>1. NoReq.kind = "call" /\ NoReq.phase = "idle"
  BY DEF NoReq
<1> QED
  BY <1>1 DEF Cleared, Shape, Answered

\* A renewal sends again the requests that waited for it.
LEMMA RenewedRequests ==
    ASSUME TypeInv, NEW t \in Tabs, Renewed(t), NEW q \in Calls
    PROVE  /\ req'[q].kind = req[q].kind /\ req'[q].tab = req[q].tab
           /\ \/ req'[q] = req[q] /\ q \notin Waiting(t)
              \/ /\ req[q].phase = "waiting" /\ req'[q].phase = "resent" /\ req'[q].sid = rf[t].tok
                 /\ req'[q].club = IF req[q].kind = "session" THEN rows[rf[t].tok].club ELSE req[q].club
<1> DEFINE c == rows[rf[t].tok].club
           s == rf[t].tok
           e == [req[q] EXCEPT !.phase = "resent", !.sid = s, !.club = IF req[q].kind = "session" THEN c ELSE @]
<1>1. req'[q] = IF q \in Waiting(t) THEN e ELSE req[q]
  BY DEF Renewed
<1>2. req[q] \in RequestSet(Known)
  BY DEF TypeInv, ClientTyped
<1>3. /\ e.phase = "resent" /\ e.kind = req[q].kind /\ e.tab = req[q].tab /\ e.sid = s
      /\ e.club = IF req[q].kind = "session" THEN c ELSE req[q].club
  <2> HIDE DEF c, s
  <2> QED
    BY <1>2 DEF RequestSet
<1> QED
  BY <1>1, <1>3 DEF Waiting

\* What a served request becomes, and what becomes of the others.
ServedOne(q) ==
    /\ \A p \in Calls : p # q => req'[p] = req[p]
    /\ req[q] # NoReq /\ req[q].phase # "answered" /\ req'[q].phase = "answered"
    /\ req'[q].tab = req[q].tab /\ req'[q].kind = req[q].kind /\ req'[q].club = req[q].club

LEMMA ServedRequest ==
    ASSUME TypeInv, NEW q \in Calls, Serve(q)
    PROVE  /\ ServedOne(q) /\ UNCHANGED <<jar, page, shown, rf, late>>
           /\ req'[q].sid = IF req[q].kind = "login" THEN Len(rows) + 1 ELSE req[q].sid
<1>1. NoReq.phase = "idle" /\ req[q] \in RequestSet(Known) /\ req \in [Calls -> RequestSet(Known)]
  BY Blank DEF TypeInv, ClientTyped, NoReq
<1> QED
  BY <1>1 DEF Serve, Pending, RequestSet, ServedOne

LEMMA ServedPassword ==
    ASSUME TypeInv, NEW t \in Tabs, ServeRefreshWhileRevoking(t)
    PROVE  \/ req' = req /\ "elsewhere" \in why' \cup (IF "cut" \in why THEN {"elsewhere"} ELSE {})
           \/ \E q \in Calls : ServedOne(q) /\ req[q].kind = "password" /\ req'[q].sid = req[q].sid /\ req[q].sid # None
                               /\ rows[req[q].sid].user = rows[rf[t].tok].user /\ why' = Mark({"closed"})
<1>1. NoReq.phase = "idle" /\ req \in [Calls -> RequestSet(Known)] /\ \A q \in Calls : req[q] \in RequestSet(Known)
  BY Blank DEF TypeInv, ClientTyped, NoReq
<1>2. ASSUME NEW q \in Calls, Pending(q), req' = [req EXCEPT ![q].phase = "answered"]
      PROVE  ServedOne(q) /\ req'[q].sid = req[q].sid
  BY <1>1, <1>2 DEF Pending, RequestSet, ServedOne
<1> QED
  BY <1>2 DEF ServeRefreshWhileRevoking, AccessOk, Mark

LEMMA ShapeStep == ASSUME OneTab, TypeInv, TypeInv', Shape, [Next]_vars PROVE Shape'
<1> USE DEF TypeInv, ClientTyped
<1>n. NoReq.kind = "call" /\ NoReq.phase = "idle" /\ NoReq.tab = None
  BY DEF NoReq
<1>q. \A q \in Calls : req[q] # NoReq => req[q].tab \in Tabs
  BY DEF Named
<1>w. ASSUME NEW Q, req' = Without(Q)
      PROVE  \A q \in Calls : req'[q] = NoReq \/ (req'[q] = req[q] /\ q \notin Q)
  BY <1>w DEF Without
<1>k. ASSUME NEW Q, req' = Without(Q), jar'.hint = jar.hint, jar'.refresh = jar.refresh, page' = page, rf' = rf
      PROVE  Shape'
  BY <1>k, <1>n, <1>w DEF Shape
<1>s. ASSUME UNCHANGED <<jar, page>>, \A t \in Tabs : rf'[t] = rf[t] \/ rf[t] # NoRefresh,
             \A q \in Calls : req'[q] = req[q] \/ ServedOne(q)
      PROVE  Shape'
  BY <1>s, <1>n DEF Shape, ServedOne
<1>1. CASE UNCHANGED vars
  BY <1>1, <1>s DEF vars
<1>2. CASE Elsewhere
  BY <1>2, <1>s DEF Elsewhere
<1>3. ASSUME NEW t \in Tabs, Load(t) PROVE Shape'
  BY <1>3, GotoClears, ClearedShape DEF Load, Shape
<1>4. ASSUME NEW t \in Tabs, NEW q \in Calls, NEW kind \in Kinds, NEW c \in Clubs \cup {None}, Send(q, t, kind, c)
      PROVE  Shape'
  <2>1. req[q] = NoReq /\ UNCHANGED <<jar, page, rf>> /\ \A p \in Calls : p # q => req'[p] = req[p]
    BY <1>4 DEF Send
  <2>2. req'[q].tab = t /\ req'[q].kind = kind /\ req'[q].phase = "sent"
    BY <1>4 DEF Send, Sent
  <2>3. \A p \in Calls : req[p] # NoReq => p \in Of(t)
    BY AllOfTab
  <2>4. kind = "login" <=> page[t] = "login"
    BY <1>4 DEF Send
  <2>5. kind = "login" => \A p \in Calls : req[p] = NoReq
    BY <1>4, <2>3 DEF Send
  <2>6. kind = "switch" => \A p \in Calls : req[p].kind # "switch"
    BY <1>4, <1>n, <2>3 DEF Send
  <2>7. \A p \in Calls : req'[p] # NoReq =>
           /\ req'[p].kind = "login" <=> page'[req'[p].tab] = "login"
           /\ req'[p].kind = "login" => req'[p].phase \in {"sent", "answered"}
                                        /\ \A o \in Calls : req'[o] # NoReq => o = p
    BY <1>q, <2>1, <2>2, <2>3, <2>4, <2>5 DEF Shape, OneTab, Of
  <2>8. \A p, o \in Calls : req'[p].kind = "switch" /\ req'[o].kind = "switch" => p = o
    BY <2>1, <2>2, <2>6 DEF Shape
  <2> QED
    BY <2>1, <2>7, <2>8 DEF Shape
<1>5. ASSUME NEW t \in Tabs, ServeRefresh(t) \/ LimitRefresh(t) PROVE Shape'
  <2>1. rf[t] # NoRefresh /\ UNCHANGED <<jar, page, req>> /\ \A u \in Tabs : u # t => rf'[u] = rf[u]
    BY <1>5 DEF ServeRefresh, LimitRefresh, NoRefresh
  <2> QED
    BY <1>s, <2>1
<1>6. ASSUME NEW t \in Tabs, ServeRefreshWhileRevoking(t) PROVE Shape'
  <2>1. rf[t] # NoRefresh /\ UNCHANGED <<jar, page>> /\ \A u \in Tabs : u # t => rf'[u] = rf[u]
    BY <1>6 DEF ServeRefreshWhileRevoking, NoRefresh
  <2>2. \A p \in Calls : req'[p] = req[p] \/ ServedOne(p)
    BY <1>6, ServedPassword DEF ServedOne
  <2> QED
    BY <1>s, <2>1, <2>2
<1>7. ASSUME NEW t \in Tabs, Renewed(t) PROVE Shape'
  <2>1. rf[t].phase = "answered" /\ rf[t].tok # None /\ rf[t] # NoRefresh /\ page' = page
        /\ jar'.hint /\ jar'.refresh = rf[t].tok /\ \A u \in Tabs : rf'[u] = rf[u] \/ rf'[u] = NoRefresh
    BY <1>7 DEF Renewed, NoRefresh, Named
  <2>2. \A q \in Calls :
          /\ req'[q].kind = req[q].kind /\ req'[q].tab = req[q].tab
          /\ req'[q] = req[q] \/ (req[q].phase = "waiting" /\ req'[q].phase = "resent")
    BY <1>7, RenewedRequests
  <2>3. \A q \in Calls : req[q] = NoReq => req'[q] = NoReq
    BY <1>n, <2>2
  <2>4. \A q \in Calls : req[q] # NoReq => req[q].kind # "login" /\ page[req[q].tab] # "login"
    BY <1>q, <2>1 DEF Shape, OneTab
  <2> QED
    BY <2>1, <2>2, <2>3, <2>4 DEF Shape
<1>8. ASSUME NEW t \in Tabs, Refused(t) PROVE Shape'
  <2>1. ~jar'.hint
    BY <1>8 DEF Refused, onSessionExpired, JarSet
  <2> QED
    BY <1>8, <2>1, GotoClears, ClearedShape DEF Refused
<1>9. ASSUME NEW t \in Tabs, FailRefresh(t) PROVE Shape'
  <2>1. CASE Goto(t, "login")
    BY <1>9, <2>1, GotoClears, ClearedShape DEF FailRefresh, Shape
  <2>2. CASE rf' = [rf EXCEPT ![t] = NoRefresh] /\ req' = Without(Waiting(t)) /\ UNCHANGED <<page, shown, server, jar>>
    BY <1>n, <1>w, <2>2 DEF Shape
  <2> QED
    BY <1>9, <2>1, <2>2 DEF FailRefresh
<1>10. ASSUME NEW q \in Calls, Serve(q) PROVE Shape'
  BY <1>10, <1>s, ServedRequest DEF ServedOne
<1>11. ASSUME NEW q \in Calls, Reject(q) PROVE Shape'
  BY <1>11, <1>k DEF Reject
<1>12. ASSUME NEW q \in Calls, Deliver(q) PROVE Shape'
  <2> DEFINE r == req[q]
  <2>r. r # NoReq /\ r.tab \in Tabs /\ r.phase = "answered"
    BY <1>12, <1>n, <1>q DEF Deliver
  <2>1. CASE r.kind = "login"
    <3>1. /\ jar'.hint /\ jar'.refresh = r.sid /\ page' = [page EXCEPT ![r.tab] = "panel"] /\ rf' = rf
          /\ req' = Without({q})
      BY <1>12, <2>1 DEF Deliver
    <3>2. \A p \in Calls : req'[p] = NoReq
      BY <2>r, <2>1, <3>1 DEF Without, Shape
    <3>3. r.sid # None
      BY <2>r, <2>1 DEF Named, Answered
    <3>4. \A t \in Tabs : page'[t] = "panel"
      BY <2>r, <3>1 DEF OneTab
    <3> QED
      BY <1>n, <3>1, <3>2, <3>3, <3>4 DEF Shape
  <2>2. CASE r.kind \in {"session", "call", "switch"}
    <3>1. jar'.hint = jar.hint /\ jar'.refresh = jar.refresh /\ UNCHANGED <<page, rf>>
      BY <1>12, <2>2 DEF Deliver, JarSet
    <3>2. \E Q : req' = Without(Q)
      BY <1>12, <2>2 DEF Deliver
    <3> QED
      BY <3>1, <3>2, <1>k
  <2>3. CASE r.kind \in {"logout", "password"}
    <3>1. (jar' = NoJar \/ jar' = jar) /\ Goto(r.tab, "login") /\ ~NoJar.hint
      BY <1>12, <2>3 DEF Deliver, NoJar
    <3> QED
      BY <2>r, <3>1, GotoClears, ClearedShape DEF Shape
  <2> QED
    BY <2>1, <2>2, <2>3 DEF RequestSet, Kinds
<1>13. ASSUME NEW q \in Calls, Fail(q) PROVE Shape'
  <2>1. req[q].tab \in Tabs /\ jar' = jar
    BY <1>13, <1>n, <1>q DEF Fail, Pending
  <2>2. CASE Goto(req[q].tab, "login")
    BY <2>1, <2>2, GotoClears, ClearedShape DEF Shape
  <2>3. CASE req' = Without({q}) /\ UNCHANGED <<page, shown, rf>>
    BY <2>1, <2>3, <1>k
  <2> QED
    BY <1>13, <2>2, <2>3 DEF Fail
<1>14. ASSUME NEW q \in Calls, Unauthorized(q) PROVE Shape'
  <2>1. req[q] # NoReq /\ req[q].kind # "login" /\ req[q].tab \in Tabs /\ jar' = jar
    BY <1>14, <1>n, <1>q DEF Unauthorized, Pending
  <2>2. \A t \in Tabs : page[t] # "login"
    BY <2>1 DEF Shape, OneTab
  <2>3. CASE req' = [req EXCEPT ![q].phase = "waiting", ![q].sid = None] /\ page' = page
    <3>1. /\ \A p \in Calls : p # q => req'[p] = req[p]
          /\ req'[q].tab = req[q].tab /\ req'[q].kind = req[q].kind
      BY <2>3 DEF RequestSet
    <3> QED
      BY <1>n, <2>1, <2>2, <2>3, <3>1 DEF Shape
  <2>4. CASE Goto(req[q].tab, "login")
    BY <2>1, <2>4, GotoClears, ClearedShape DEF Shape
  <2>5. CASE req' = Without({q}) /\ UNCHANGED <<page, rf>>
    BY <1>k, <2>1, <2>5
  <2> QED
    BY <1>14, <2>3, <2>4, <2>5 DEF Unauthorized
<1>15. ASSUME NEW r \in late, ServeLate(r) PROVE Shape'
  BY <1>15, <1>s DEF ServeLate
<1> QED
  BY <1>1, <1>2, <1>3, <1>4, <1>5, <1>6, <1>7, <1>8, <1>9, <1>10, <1>11, <1>12, <1>13, <1>14, <1>15 DEF Next

LEMMA HeardStep == ASSUME TypeInv, Heard, [Next]_vars PROVE Heard'
<1> USE DEF TypeInv, ClientTyped
<1>n. NoReq.phase = "idle"
  BY DEF NoReq
<1>1. CASE "cut" \in why'
  BY <1>1 DEF Heard
<1>2. CASE "cut" \notin why'
  <2>1. "cut" \notin why /\ why \subseteq why' /\ late = {}
    BY <1>2, HistoryGrows DEF Heard
  <2>d. ASSUME NEW Q, NEW T \in SUBSET Tabs, Drop(Q, T) PROVE late' = {}
    BY <1>2, <2>1, <2>d, NothingDropped
  <2>2. ASSUME late' = {}, \A q \in Calls : Answered(q, "password")' => Answered(q, "password") \/ "closed" \in why'
        PROVE  Heard'
    BY <2>1, <2>2 DEF Heard
  <2>g. ASSUME NEW t \in Tabs, NEW p, Goto(t, p), late' = {} PROVE Heard'
    <3>1. \A q \in Calls : Answered(q, "password")' => Answered(q, "password")
      BY <1>n, <2>g DEF Goto, Without, Answered
    <3> QED
      BY <2>2, <2>g, <3>1
  <2>w. ASSUME NEW Q, req' = Without(Q), late' = {} PROVE Heard'
    <3>1. \A q \in Calls : Answered(q, "password")' => Answered(q, "password")
      BY <1>n, <2>w DEF Without, Answered
    <3> QED
      BY <2>2, <2>w, <3>1
  <2>s. ASSUME req' = req, late' = late PROVE Heard'
    BY <2>1, <2>2, <2>s DEF Answered
  <2>t. \A q \in Calls : req[q].phase # "idle" => req[q].tab \in Tabs
    BY <1>n DEF Named
  <2>3. CASE UNCHANGED vars
    BY <2>3, <2>s DEF vars
  <2>4. CASE Elsewhere
    BY <2>4, <2>s DEF Elsewhere
  <2>5. ASSUME NEW t \in Tabs, Load(t) \/ Refused(t) PROVE Heard'
    BY <2>5, <2>d, <2>g DEF Load, Refused
  <2>6. ASSUME NEW t \in Tabs, NEW q \in Calls, NEW kind, NEW c, Send(q, t, kind, c) PROVE Heard'
    <3>1. \A p \in Calls : Answered(p, "password")' => Answered(p, "password")
      BY <2>6 DEF Send, Sent, Answered
    <3> QED
      BY <2>1, <2>2, <2>6, <3>1 DEF Send
  <2>7. ASSUME NEW t \in Tabs, ServeRefresh(t) \/ LimitRefresh(t) PROVE Heard'
    BY <2>7, <2>s DEF ServeRefresh, LimitRefresh
  <2>8. ASSUME NEW t \in Tabs, ServeRefreshWhileRevoking(t) PROVE Heard'
    <3>1. \A p \in Calls : Answered(p, "password")' => Answered(p, "password") \/ "closed" \in why'
      BY <2>1, <2>8, ServedPassword DEF ServedOne, Answered, Mark
    <3> QED
      BY <2>1, <2>2, <2>8, <3>1 DEF ServeRefreshWhileRevoking
  <2>9. ASSUME NEW t \in Tabs, Renewed(t) PROVE Heard'
    <3>1. \A p \in Calls : Answered(p, "password")' => Answered(p, "password")
      BY <2>9, RenewedRequests DEF Answered
    <3> QED
      BY <2>1, <2>2, <2>9, <3>1 DEF Renewed
  <2>10. ASSUME NEW t \in Tabs, FailRefresh(t) PROVE Heard'
    BY <2>10, <2>d, <2>g, <2>w DEF FailRefresh
  <2>11. ASSUME NEW q \in Calls, Serve(q) PROVE Heard'
    <3>1. \A p \in Calls : Answered(p, "password")' => Answered(p, "password") \/ "closed" \in why'
      BY <2>1, <2>11, ServedRequest DEF ServedOne, Answered, Mark, Closing, Serve
    <3> QED
      BY <2>1, <2>2, <2>11, <3>1 DEF Serve
  <2>12. ASSUME NEW q \in Calls, Reject(q) PROVE Heard'
    BY <2>1, <2>12, <2>w DEF Reject
  <2>13. ASSUME NEW q \in Calls, Deliver(q) PROVE Heard'
    <3>1. CASE req[q].kind \in {"login", "session", "call", "switch"}
      BY <2>1, <2>13, <2>w, <3>1 DEF Deliver
    <3>2. CASE Goto(req[q].tab, "login") /\ Drop(Of(req[q].tab) \ {q}, {req[q].tab})
      BY <2>13, <2>d, <2>g, <2>t, <3>2 DEF Deliver
    <3> QED
      BY <2>13, <3>1, <3>2 DEF Deliver
  <2>14. ASSUME NEW q \in Calls, Fail(q) PROVE Heard'
    BY <2>14, <2>d, <2>g, <2>w, <2>t DEF Fail, Pending
  <2>15. ASSUME NEW q \in Calls, Unauthorized(q) PROVE Heard'
    <3>1. CASE req' = [req EXCEPT ![q].phase = "waiting", ![q].sid = None] /\ late' = late
      <4>1. \A p \in Calls : Answered(p, "password")' => Answered(p, "password")
        BY <3>1 DEF RequestSet, Answered
      <4> QED
        BY <2>1, <2>2, <3>1, <4>1
    <3>2. CASE Goto(req[q].tab, "login") /\ Drop(Of(req[q].tab) \ {q}, {req[q].tab})
      BY <2>15, <2>d, <2>g, <2>t, <3>2 DEF Unauthorized, Pending
    <3>3. CASE req' = Without({q}) /\ late' = late
      BY <2>1, <2>w, <3>3
    <3> QED
      BY <2>15, <3>1, <3>2, <3>3 DEF Unauthorized
  <2>16. ASSUME NEW r \in late, ServeLate(r) PROVE Heard'
    BY <2>1, <2>16
  <2> QED
    BY <2>3, <2>4, <2>5, <2>6, <2>7, <2>8, <2>9, <2>10, <2>11, <2>12, <2>13, <2>14, <2>15, <2>16 DEF Next
<1> QED
  BY <1>1, <1>2

-----------------------------------------------------------------------------
(* The tokens of a tab alone, as long as no answer is lost                     *)

Fresh ==
    /\ \A t \in Tabs :
          /\ rf[t].phase = "sent" => rf[t].tok = jar.refresh
          /\ rf[t].phase # "answered" /\ jar.refresh # None => ~rows[jar.refresh].rotated
          /\ rf[t].phase = "answered" => ~rows[rf[t].tok].rotated
    /\ \A q \in Calls : Answered(q, "login") => ~rows[req[q].sid].rotated

\* Row a is of the session of row b, and closed if that one is.
Kin(a, b) ==
    /\ rows[a].family = rows[b].family /\ rows[a].user = rows[b].user
    /\ rows[b].revoked => rows[a].revoked

\* The same of the rows after a step.
KinNext(a, b) ==
    /\ rows'[a].family = rows'[b].family /\ rows'[a].user = rows'[b].user
    /\ rows'[b].revoked => rows'[a].revoked

Kinship ==
    /\ jar.sid # None => jar.refresh # None /\ Kin(jar.sid, jar.refresh)
    /\ \A t \in Tabs : rf[t].phase = "answered" => jar.refresh # None /\ Kin(jar.refresh, rf[t].tok)
    /\ \A q \in Calls : req[q].kind # "login" /\ req[q].sid # None =>
          jar.refresh # None /\ Kin(req[q].sid, jar.refresh)

TokensInv == "cut" \notin why => Fresh /\ Kinship

\* A revocation takes whole sessions.
Whole(S) ==
    \A i, j \in DOMAIN rows :
        rows[i].family = rows[j].family /\ rows[i].user = rows[j].user /\ j \in S => i \in S \/ rows[i].revoked

LEMMA KinKept ==
    ASSUME NEW S, Kept(S), Whole(S), NEW a \in DOMAIN rows, NEW b \in DOMAIN rows, Kin(a, b)
    PROVE  KinNext(a, b)
BY DEF Kept, Whole, Kin, KinNext

LEMMA WholeSets ==
    ASSUME NEW s \in DOMAIN rows, NEW u
    PROVE  Whole({}) /\ Whole(Family(s)) /\ Whole(RowsOf(u)) /\ (rows[s].revoked => Whole(Family(s) \ {s}))
BY DEF Whole, Family, RowsOf

LEMMA NamedRows ==
    ASSUME TypeInv
    PROVE  /\ jar.refresh # None => jar.refresh \in DOMAIN rows
           /\ jar.sid # None => jar.sid \in DOMAIN rows
           /\ \A t \in Tabs : rf[t].tok # None => rf[t].tok \in DOMAIN rows
           /\ \A q \in Calls : req[q].sid # None => req[q].sid \in DOMAIN rows
BY DEF TypeInv, ClientTyped, JarSet, RefreshSet, RequestSet, Known

\* A step that leaves the refresh cookie where it is.
LEMMA SameTokens ==
    ASSUME TypeInv, Fresh, Kinship, NEW S, Kept(S), Whole(S), SameRotated, jar'.refresh = jar.refresh,
           \/ jar'.sid = jar.sid
           \/ \E q \in Calls : req[q].kind # "login" /\ jar'.sid = req[q].sid,
           \A t \in Tabs : \/ rf'[t] = rf[t]
                           \/ /\ rf[t].phase # "answered"
                              /\ \/ rf'[t].phase \in {"idle", "refused"}
                                 \/ rf'[t].phase = "sent" /\ rf'[t].tok = jar.refresh,
           \A q \in Calls :
              /\ Answered(q, "login")' => \/ req'[q] = req[q]
                                          \/ ~rows'[req'[q].sid].rotated
              /\ req'[q].kind # "login" /\ req'[q].sid # None =>
                    \/ req'[q].sid = jar.sid
                    \/ req[q].kind # "login" /\ req'[q].sid = req[q].sid
    PROVE  Fresh' /\ Kinship'
<1>1. Fresh'
  <2>1. ASSUME NEW t \in Tabs
        PROVE  /\ rf'[t].phase = "sent" => rf'[t].tok = jar'.refresh
               /\ rf'[t].phase # "answered" /\ jar'.refresh # None => ~rows'[jar'.refresh].rotated
               /\ rf'[t].phase = "answered" => ~rows'[rf'[t].tok].rotated
    <3>1. rf[t].phase # "answered" /\ jar.refresh # None => ~rows'[jar.refresh].rotated
      BY NamedRows DEF Fresh, SameRotated
    <3>2. rf[t].phase = "answered" => ~rows'[rf[t].tok].rotated
      BY NamedRows DEF Fresh, SameRotated, TypeInv, Named
    <3> QED
      BY <3>1, <3>2 DEF Fresh
  <2>2. ASSUME NEW q \in Calls, Answered(q, "login")' PROVE ~rows'[req'[q].sid].rotated
    <3>1. CASE req'[q] = req[q]
      <4>1. Answered(q, "login") /\ req[q].sid \in DOMAIN rows
        BY <2>2, <3>1, NamedRows DEF Answered, TypeInv, Named
      <4> QED
        BY <3>1, <4>1 DEF Fresh, SameRotated
    <3> QED
      BY <2>2, <3>1
  <2> QED
    BY <2>1, <2>2 DEF Fresh
<1>2. \A a, b \in DOMAIN rows : Kin(a, b) => KinNext(a, b)
  BY KinKept
<1>3. Kinship'
  <2>1. \A q \in Calls : req[q].kind # "login" /\ req[q].sid # None =>
           jar.refresh # None /\ KinNext(req[q].sid, jar.refresh)
    BY <1>2, NamedRows DEF Kinship
  <2>2. jar.sid # None => jar.refresh # None /\ KinNext(jar.sid, jar.refresh)
    BY <1>2, NamedRows DEF Kinship
  <2>3. \A t \in Tabs : rf[t].phase = "answered" => jar.refresh # None /\ KinNext(jar.refresh, rf[t].tok)
    BY <1>2, NamedRows DEF Kinship, TypeInv, Named
  <2>4. /\ jar'.sid # None => jar'.refresh # None /\ KinNext(jar'.sid, jar'.refresh)
        /\ \A q \in Calls : req'[q].kind # "login" /\ req'[q].sid # None =>
              jar'.refresh # None /\ KinNext(req'[q].sid, jar'.refresh)
    BY <2>1, <2>2
  <2>5. \A t \in Tabs : rf'[t].phase = "answered" => jar'.refresh # None /\ KinNext(jar'.refresh, rf'[t].tok)
    BY <2>3
  <2> QED
    BY <2>4, <2>5 DEF Kinship, Kin, KinNext
<1> QED
  BY <1>1, <1>3

\* Nothing is pending once a tab is loaded again.
LEMMA ClearedTokens ==
    ASSUME TypeInv, Fresh, Kinship, UNCHANGED rows, NEW p, Cleared(p),
           \/ jar'.sid = None /\ jar'.refresh = None
           \/ /\ jar'.sid = jar.sid /\ jar'.refresh = jar.refresh
              /\ \A t \in Tabs : rf[t].phase # "answered"
    PROVE  Fresh' /\ Kinship'
<1>1. NoReq.phase = "idle" /\ NoReq.sid = None /\ NoRefresh.phase = "idle"
  BY DEF NoReq, NoRefresh
<1>2. CASE jar'.sid = None /\ jar'.refresh = None
  BY <1>1, <1>2 DEF Cleared, Fresh, Kinship, Answered
<1>3. CASE jar'.sid = jar.sid /\ jar'.refresh = jar.refresh /\ \A t \in Tabs : rf[t].phase # "answered"
  <2>1. Fresh'
    BY <1>1, <1>3 DEF Cleared, Fresh, Answered
  <2>2. Kinship'
    BY <1>1, <1>3 DEF Cleared, Kinship, Kin
  <2> QED
    BY <2>1, <2>2
<1> QED
  BY <1>2, <1>3

\* The renewal of the only tab is served.
LEMMA RotatedTokens ==
    ASSUME OneTab, TypeInv, Shape, Fresh, Kinship, NEW t \in Tabs, rf[t].phase = "sent", rf[t].tok # None, CanIssue,
           NEW S, Whole(S), rows' = Rotate(rf[t].tok, rows[rf[t].tok].club, S),
           rf' = [rf EXCEPT ![t] = [phase |-> "answered", tok |-> Len(rows) + 1]], jar' = jar,
           \A q \in Calls : req'[q].kind = req[q].kind /\ req'[q].sid = req[q].sid
    PROVE  Fresh' /\ Kinship'
<1> DEFINE s == rf[t].tok
<1>1. PICK n : n = Len(rows) + 1
  OBVIOUS
<1>2. s \in DOMAIN rows /\ s = jar.refresh
  BY NamedRows DEF Fresh
<1>3. /\ Kept(S) /\ ~rows'[n].rotated /\ ~rows'[n].revoked
      /\ rows'[n].family = rows[s].family /\ rows'[n].user = rows[s].user
  <2>1. ServerTypeOK
    BY DEF TypeInv
  <2>2. PICK i \in DOMAIN rows : i = s
    BY <1>2
  <2>3. rows' = Rotate(i, rows[i].club, S)
    BY <2>2
  <2>4. RotatedBy(i, S, n)
    BY <1>1, <2>1, <2>3, RotateRows
  <2> QED
    BY <2>2, <2>4 DEF RotatedBy
<1>4. \A u \in Tabs : rf'[u].phase = "answered" /\ rf'[u].tok = n
  BY <1>1 DEF OneTab, TypeInv, ClientTyped
<1>5. \A q \in Calls : req[q].kind # "login"
  <2>1. page[t] # "login"
    BY DEF Shape, NoRefresh
  <2>2. ASSUME NEW q \in Calls, req[q].kind = "login" PROVE FALSE
    <3>1. req[q] # NoReq
      BY <2>2 DEF NoReq
    <3> QED
      BY <2>1, <2>2, <3>1 DEF Shape, TypeInv, Named, OneTab
  <2> QED
    BY <2>2
<1>6. Fresh'
  BY <1>3, <1>4, <1>5 DEF Fresh, Answered
<1>7. \A a, b \in DOMAIN rows : Kin(a, b) => KinNext(a, b)
  BY <1>3, KinKept
<1>8. KinNext(s, n)
  BY <1>2, <1>3 DEF KinNext, Kept
<1>9. jar.sid # None => KinNext(jar.sid, jar.refresh)
  BY <1>7, NamedRows DEF Kinship
<1>10. \A q \in Calls : req[q].sid # None => KinNext(req[q].sid, jar.refresh)
  BY <1>5, <1>7, NamedRows DEF Kinship
<1>11. Kinship'
  <2>1. jar'.sid # None => jar'.refresh # None /\ KinNext(jar'.sid, jar'.refresh)
    BY <1>2, <1>9
  <2>2. \A q \in Calls : req'[q].sid # None => jar'.refresh # None /\ KinNext(req'[q].sid, jar'.refresh)
    BY <1>2, <1>10
  <2>3. \A u \in Tabs : jar'.refresh # None /\ KinNext(jar'.refresh, rf'[u].tok)
    BY <1>2, <1>4, <1>8
  <2> QED
    BY <2>1, <2>2, <2>3 DEF Kinship, Kin, KinNext
<1> QED
  BY <1>6, <1>11

LEMMA TokensStep == ASSUME OneTab, TypeInv, Shape, Heard, TokensInv, [Next]_vars PROVE TokensInv'
<1> SUFFICES ASSUME "cut" \notin why' PROVE Fresh' /\ Kinship'
  BY DEF TokensInv
<1> USE DEF TypeInv, ClientTyped
<1>n. NoReq.kind = "call" /\ NoReq.phase = "idle" /\ NoReq.tab = None /\ NoReq.sid = None /\ NoRefresh.phase = "idle"
  BY DEF NoReq, NoRefresh
<1>m. "cut" \notin why /\ late = {} /\ Fresh /\ Kinship
  BY HistoryGrows DEF Heard, TokensInv
<1>r. UNCHANGED rows => Kept({}) /\ SameRotated
  BY StillKeeps, ServerTyped
<1>e. Whole({})
  BY DEF Whole
<1>s. ASSUME UNCHANGED <<jar, rf, req>>, NEW S, Kept(S), Whole(S), SameRotated PROVE Fresh' /\ Kinship'
  BY <1>m, <1>s, SameTokens
<1>w. ASSUME UNCHANGED <<rows, jar, rf>>, NEW Q, req' = Without(Q) PROVE Fresh' /\ Kinship'
  <2>1. \A q \in Calls : req'[q] = req[q] \/ req'[q] = NoReq
    BY <1>w DEF Without
  <2> QED
    BY <1>m, <1>n, <1>r, <1>e, <1>w, <2>1, SameTokens DEF Answered
<1>g. ASSUME UNCHANGED rows, NEW t \in Tabs, NEW p, Goto(t, p), NEW Q, Drop(Q, {t}),
             jar' = NoJar \/ (jar'.sid = jar.sid /\ jar'.refresh = jar.refresh)
      PROVE  Fresh' /\ Kinship'
  <2>1. Cleared(p)
    BY <1>g, GotoClears
  <2>2. \A u \in Tabs : rf[u].phase # "answered"
    BY <1>g, NothingDropped DEF OneTab, Renewing
  <2>3. NoJar.sid = None /\ NoJar.refresh = None
    BY DEF NoJar
  <2> QED
    BY <1>g, <1>m, <2>1, <2>2, <2>3, ClearedTokens
<1>t. \A q \in Calls : req[q].phase # "idle" => req[q].tab \in Tabs
  BY <1>n DEF Named
<1>1. CASE UNCHANGED vars
  BY <1>1, <1>r, <1>e, <1>s DEF vars
<1>2. CASE Elsewhere
  <2>1. ASSUME NEW u \in Users, RevokeAll(u) PROVE Kept(RowsOf(u)) /\ SameRotated
    BY <2>1, RevokeAllRows, CutKeeps
  <2>2. ASSUME NEW s \in DOMAIN rows, Expire(s) PROVE Kept({}) /\ SameRotated
    <3>1. \A i \in DOMAIN rows : rows[i].revoked \in BOOLEAN
      BY RowTyped, ServerTyped DEF AuthRow
    <3> QED
      BY <2>2, <3>1, ExpiredRows DEF Kept, SameRotated
  <2>3. \A u \in Users : Whole(RowsOf(u))
    BY DEF Whole, RowsOf
  <2>4. UNCHANGED <<jar, rf, req>>
    BY <1>2 DEF Elsewhere
  <2>5. \/ \E u \in Users : Kept(RowsOf(u)) /\ SameRotated
        \/ Kept({}) /\ SameRotated
    BY <1>2, <2>1, <2>2 DEF Elsewhere
  <2> QED
    BY <1>e, <1>s, <2>3, <2>4, <2>5
<1>3. ASSUME NEW t \in Tabs, Load(t) PROVE Fresh' /\ Kinship'
  BY <1>3, <1>g DEF Load, server
<1>4. ASSUME NEW t \in Tabs, NEW q \in Calls, NEW kind \in Kinds, NEW c \in Clubs \cup {None}, Send(q, t, kind, c)
      PROVE  Fresh' /\ Kinship'
  <2>1. /\ \A p \in Calls : p # q => req'[p] = req[p]
        /\ req'[q].phase = "sent" /\ req'[q].kind = kind /\ (kind # "login" => req'[q].sid = jar.sid)
    BY <1>4 DEF Send, Sent
  <2>2. UNCHANGED <<jar, rf, rows>>
    BY <1>4 DEF Send, server
  <2>3. \A p \in Calls :
           /\ Answered(p, "login")' => req'[p] = req[p]
           /\ req'[p].kind # "login" /\ req'[p].sid # None =>
                 \/ req'[p].sid = jar.sid
                 \/ req[p].kind # "login" /\ req'[p].sid = req[p].sid
    <3> SUFFICES ASSUME NEW p \in Calls
                 PROVE  /\ Answered(p, "login")' => req'[p] = req[p]
                        /\ req'[p].kind # "login" /\ req'[p].sid # None =>
                              \/ req'[p].sid = jar.sid
                              \/ req[p].kind # "login" /\ req'[p].sid = req[p].sid
      OBVIOUS
    <3>1. CASE p = q
      BY <2>1, <3>1 DEF Answered
    <3>2. CASE p # q
      BY <2>1, <3>2
    <3> QED
      BY <3>1, <3>2
  <2> QED
    BY <1>m, <1>r, <1>e, <2>2, <2>3, SameTokens
<1>5. ASSUME NEW t \in Tabs, ServeRefresh(t) PROVE Fresh' /\ Kinship'
  <2> DEFINE s == rf[t].tok
  <2>1. rf[t].phase = "sent" /\ UNCHANGED <<jar, req>>
    BY <1>5 DEF ServeRefresh
  <2>2. \A q \in Calls : Answered(q, "login")' => req'[q] = req[q]
    BY <2>1
  <2>3. CASE rf' = [rf EXCEPT ![t].phase = "refused"] /\ s = None /\ UNCHANGED rows
    <3>1. \A u \in Tabs : rf'[u] = rf[u] \/ (rf[u].phase # "answered" /\ rf'[u].phase = "refused")
      BY <2>1, <2>3 DEF RefreshSet
    <3> QED
      BY <1>m, <1>r, <1>e, <2>1, <2>3, <3>1, SameTokens
  <2>4. CASE /\ s # None /\ CanIssue /\ rows' = Rotate(s, rows[s].club, {})
             /\ rf' = [rf EXCEPT ![t] = [phase |-> "answered", tok |-> Len(rows) + 1]]
    BY <1>m, <1>e, <2>1, <2>4, RotatedTokens
  <2>5. CASE s # None /\ ~Renewable(s) /\ rows' = CutFamily(s) /\ rf' = [rf EXCEPT ![t].phase = "refused"]
    <3>1. s \in DOMAIN rows /\ rows[s].revoked
      BY <1>m, <2>1, <2>5, NamedRows DEF Fresh, Renewable
    <3>2. PICK S : S = Family(s) \ {s}
      OBVIOUS
    <3>3. Kept(S) /\ SameRotated
      BY <2>5, <3>2, RevokedRows, CutKeeps, ServerTyped DEF CutFamily
    <3>4. Whole(S)
      BY <3>1, <3>2, WholeSets
    <3>5. \A u \in Tabs : rf'[u] = rf[u] \/ (rf[u].phase # "answered" /\ rf'[u].phase = "refused")
      BY <2>1, <2>5 DEF RefreshSet
    <3> QED
      BY <1>m, <2>1, <3>3, <3>4, <3>5, SameTokens
  <2> QED
    BY <1>5, <2>3, <2>4, <2>5 DEF ServeRefresh
<1>6. ASSUME NEW t \in Tabs, ServeRefreshWhileRevoking(t) PROVE Fresh' /\ Kinship'
  <2>1. PICK S : S = RowsOf(rows[rf[t].tok].user)
    OBVIOUS
  <2>2. Whole(S)
    BY <2>1 DEF Whole, RowsOf
  <2>3. \A q \in Calls : req'[q].kind = req[q].kind /\ req'[q].sid = req[q].sid
    BY <1>6, ServedPassword DEF ServedOne
  <2>4. /\ rf[t].phase = "sent" /\ rf[t].tok # None /\ CanIssue /\ jar' = jar
        /\ rows' = Rotate(rf[t].tok, rows[rf[t].tok].club, S)
        /\ rf' = [rf EXCEPT ![t] = [phase |-> "answered", tok |-> Len(rows) + 1]]
    BY <1>6, <2>1 DEF ServeRefreshWhileRevoking
  <2> QED
    BY <1>m, <2>2, <2>3, <2>4, RotatedTokens
<1>7. ASSUME NEW t \in Tabs, Renewed(t) PROVE Fresh' /\ Kinship'
  <2> DEFINE s == rf[t].tok
  <2>1. rf[t].phase = "answered" /\ jar'.refresh = s /\ jar'.sid = s /\ s # None /\ UNCHANGED rows
        /\ \A u \in Tabs : rf'[u].phase = "idle"
    BY <1>7, <1>n DEF Renewed, OneTab, server, Named
  <2>2. ~rows[s].rotated /\ Kin(jar.refresh, s) /\ jar.refresh # None
    BY <1>m, <2>1 DEF Fresh, Kinship
  <2>3. \A q \in Calls : ~Answered(q, "login")
    <3>1. page[t] # "login"
      BY <1>n, <2>1 DEF Shape
    <3> QED
      BY <1>n, <3>1 DEF Shape, OneTab, Answered, Named
  <2>4. \A q \in Calls : /\ req'[q].kind = req[q].kind
                         /\ Answered(q, "login")' => Answered(q, "login")
                         /\ req'[q].sid = req[q].sid \/ req'[q].sid = s
    BY <1>7, RenewedRequests DEF Answered
  <2>5. Kin(s, s)
    BY DEF Kin
  <2>6. \A q \in Calls : req'[q].kind # "login" /\ req'[q].sid # None => Kin(req'[q].sid, s)
    <3>1. ASSUME NEW q \in Calls, req[q].kind # "login", req[q].sid # None PROVE Kin(req[q].sid, s)
      <4>1. Kin(req[q].sid, jar.refresh)
        BY <1>m, <3>1 DEF Kinship
      <4> QED
        BY <2>2, <4>1 DEF Kin
    <3> QED
      BY <2>4, <2>5, <3>1
  <2> HIDE DEF s
  <2>7. Fresh'
    BY <2>1, <2>2, <2>3, <2>4 DEF Fresh
  <2>8. Kinship'
    BY <2>1, <2>5, <2>6 DEF Kinship, Kin
  <2> QED
    BY <2>7, <2>8
<1>8. ASSUME NEW t \in Tabs, Refused(t) PROVE Fresh' /\ Kinship'
  <2>1. jar'.sid = jar.sid /\ jar'.refresh = jar.refresh
    BY <1>8 DEF Refused, onSessionExpired, JarSet
  <2> QED
    BY <1>8, <1>g, <2>1 DEF Refused, server
<1>9. ASSUME NEW t \in Tabs, LimitRefresh(t) PROVE Fresh' /\ Kinship'
  <2>1. \A u \in Tabs : rf'[u] = rf[u] \/ (rf[u].phase # "answered" /\ rf'[u].phase = "refused")
    BY <1>9 DEF LimitRefresh, RefreshSet
  <2> QED
    BY <1>9, <1>m, <1>r, <1>e, <2>1, SameTokens DEF LimitRefresh, server
<1>10. ASSUME NEW t \in Tabs, FailRefresh(t) PROVE Fresh' /\ Kinship'
  <2>1. CASE Goto(t, "login") /\ Drop(Of(t), {t})
    BY <1>10, <1>g, <2>1 DEF FailRefresh, server
  <2>2. CASE rf' = [rf EXCEPT ![t] = NoRefresh] /\ req' = Without(Waiting(t)) /\ Drop(Waiting(t), {t})
    <3>1. rf[t].phase # "answered"
      BY <2>2, NothingDropped DEF Renewing
    <3>2. \A u \in Tabs : rf'[u] = rf[u] \/ (rf[u].phase # "answered" /\ rf'[u].phase = "idle")
      BY <1>n, <2>2, <3>1
    <3>3. \A q \in Calls : req'[q] = req[q] \/ req'[q] = NoReq
      BY <2>2 DEF Without
    <3>4. \A q \in Calls :
             /\ Answered(q, "login")' => req'[q] = req[q]
             /\ req'[q].kind # "login" /\ req'[q].sid # None => req[q].kind # "login" /\ req'[q].sid = req[q].sid
      BY <1>n, <3>3 DEF Answered
    <3>5. UNCHANGED <<jar, rows>>
      BY <1>10 DEF FailRefresh, server
    <3> QED
      BY <1>m, <1>r, <1>e, <3>2, <3>4, <3>5, SameTokens
  <2> QED
    BY <1>10, <2>1, <2>2 DEF FailRefresh
<1>11. ASSUME NEW q \in Calls, Serve(q) PROVE Fresh' /\ Kinship'
  <2> DEFINE r == req[q]
  <2>1. ServedOne(q) /\ UNCHANGED <<jar, rf>> /\ req'[q].sid = IF r.kind = "login" THEN Len(rows) + 1 ELSE r.sid
    BY <1>11, ServedRequest
  <2>2. \A p \in Calls : req'[p].kind # "login" => req'[p].sid = req[p].sid /\ req[p].kind # "login"
    BY <2>1 DEF ServedOne
  <2>3. \A p \in Calls : Answered(p, "login")' => req'[p] = req[p] \/ p = q
    BY <2>1 DEF ServedOne
  <2>4. CASE r.kind = "login"
    <3>1. PICK u \in Users : rows' = StartSession(u, r.club) /\ CanIssue
      BY <1>11, <2>4 DEF Serve
    <3>2. PICK n \in Nat, c \in Clubs \cup {None} : n = Len(rows) + 1 /\ c = r.club
      <4>1. r \in RequestSet(Known) /\ Len(rows) + 1 \in Nat
        BY KnownSids
      <4> QED
        BY <4>1 DEF RequestSet
    <3>3. Kept({}) /\ SameRotated
      BY <3>1, <3>2, StartRows
    <3>4. ~rows'[n].rotated
      BY <3>1, <3>2, StartRows
    <3> QED
      BY <1>m, <1>e, <2>1, <2>2, <2>3, <2>4, <3>2, <3>3, <3>4, SameTokens
  <2>5. CASE r.kind # "login"
    <3>1. AccessOk(r.sid) /\ Does(r.kind, r.sid, r.club)
      BY <1>11, <2>5 DEF Serve
    <3>2. r.sid \in DOMAIN rows
      BY <3>1, NamedRows DEF AccessOk
    <3>3. PICK s \in DOMAIN rows, c \in Clubs \cup {None}, kind \in Kinds : s = r.sid /\ c = r.club /\ kind = r.kind
      BY <3>2 DEF RequestSet
    <3>4. PICK S : S = IF kind = "logout" THEN Family(s) ELSE IF kind = "password" THEN RowsOf(rows[s].user) ELSE {}
      OBVIOUS
    <3>5. Does(kind, s, c)
      BY <3>1, <3>3
    <3>6. SameRotated /\ Kept(S)
      BY <3>4, <3>5, DoesRows
    <3>7. Whole(S)
      BY <3>4, WholeSets
    <3>8. \A p \in Calls : ~Answered(p, "login")' \/ req'[p] = req[p]
      BY <2>1, <2>3, <2>5 DEF Answered, ServedOne
    <3> QED
      BY <1>m, <2>1, <2>2, <3>6, <3>7, <3>8, SameTokens
  <2> QED
    BY <2>4, <2>5
<1>12. ASSUME NEW q \in Calls, Reject(q) PROVE Fresh' /\ Kinship'
  BY <1>12, <1>w DEF Reject, server
<1>13. ASSUME NEW q \in Calls, Deliver(q) PROVE Fresh' /\ Kinship'
  <2> DEFINE r == req[q]
  <2>r. r # NoReq /\ r.tab \in Tabs /\ r.phase = "answered" /\ UNCHANGED rows
    BY <1>13, <1>n, <1>t DEF Deliver, server
  <2>1. CASE r.kind = "login"
    <3>1. /\ jar' = [sid |-> r.sid, club |-> r.club, refresh |-> r.sid, hint |-> TRUE] /\ rf' = rf /\ req' = Without({q})
      BY <1>13, <2>1 DEF Deliver
    <3>2. \A p \in Calls : req'[p] = NoReq
      BY <2>r, <2>1, <3>1 DEF Without, Shape
    <3>3. ~rows[r.sid].rotated /\ r.sid # None
      BY <1>m, <2>r, <2>1 DEF Fresh, Answered, Named
    <3>4. \A t \in Tabs : rf[t].phase = "idle"
      BY <1>n, <2>r, <2>1 DEF Shape, OneTab
    <3>5. jar'.sid = r.sid /\ jar'.refresh = r.sid
      BY <3>1
    <3>6. Fresh'
      BY <1>n, <2>r, <3>1, <3>2, <3>3, <3>4, <3>5 DEF Fresh, Answered
    <3>7. Kinship'
      BY <1>n, <2>r, <3>1, <3>2, <3>3, <3>4, <3>5 DEF Kinship, Kin
    <3> QED
      BY <3>6, <3>7
  <2>2. CASE r.kind \in {"session", "call"}
    BY <1>13, <1>w, <2>2 DEF Deliver, server
  <2>3. CASE r.kind = "switch"
    <3>1. rf' = rf /\ jar'.refresh = jar.refresh /\ jar'.sid = r.sid
      BY <1>13, <2>3 DEF Deliver, JarSet
    <3>2. \A p \in Calls : req'[p] = req[p] \/ req'[p] = NoReq
      BY <1>13, <2>3 DEF Deliver, Without
    <3>3. \A p \in Calls :
             /\ Answered(p, "login")' => req'[p] = req[p]
             /\ req'[p].kind # "login" /\ req'[p].sid # None => req[p].kind # "login" /\ req'[p].sid = req[p].sid
      BY <1>n, <3>2 DEF Answered
    <3> QED
      BY <1>m, <1>r, <1>e, <2>r, <2>3, <3>1, <3>3, SameTokens
  <2>4. CASE r.kind \in {"logout", "password"}
    <3>1. (jar' = NoJar \/ jar' = jar) /\ Goto(r.tab, "login") /\ Drop(Of(r.tab) \ {q}, {r.tab})
      BY <1>13, <2>4 DEF Deliver
    <3> QED
      BY <1>g, <2>r, <3>1
  <2> QED
    BY <2>1, <2>2, <2>3, <2>4 DEF RequestSet, Kinds
<1>14. ASSUME NEW q \in Calls, Fail(q) PROVE Fresh' /\ Kinship'
  BY <1>14, <1>g, <1>w, <1>t DEF Fail, Pending, server
<1>15. ASSUME NEW q \in Calls, Unauthorized(q) PROVE Fresh' /\ Kinship'
  <2>1. req[q].tab \in Tabs /\ UNCHANGED <<jar, rows>> /\ req[q].kind # "login"
    BY <1>15, <1>t DEF Unauthorized, Pending, server
  <2>2. CASE /\ req' = [req EXCEPT ![q].phase = "waiting", ![q].sid = None]
             /\ rf' = IF StartsRefresh(q) THEN [rf EXCEPT ![req[q].tab] = [phase |-> "sent", tok |-> jar.refresh]] ELSE rf
    <3>1. \A t \in Tabs : \/ rf'[t] = rf[t]
                          \/ rf[t].phase # "answered" /\ rf'[t].phase = "sent" /\ rf'[t].tok = jar.refresh
      BY <1>n, <2>2 DEF StartsRefresh
    <3>2. \A p \in Calls :
             /\ Answered(p, "login")' => req'[p] = req[p]
             /\ req'[p].kind # "login" /\ req'[p].sid # None => req[p].kind # "login" /\ req'[p].sid = req[p].sid
      <4>1. (\A p \in Calls : p # q => req'[p] = req[p]) /\ req'[q].phase = "waiting" /\ req'[q].sid = None
        BY <2>2 DEF RequestSet
      <4> QED
        BY <4>1 DEF Answered
    <3> QED
      BY <1>m, <1>r, <1>e, <2>1, <3>1, <3>2, SameTokens
  <2>3. CASE Goto(req[q].tab, "login") /\ Drop(Of(req[q].tab) \ {q}, {req[q].tab})
    BY <1>g, <2>1, <2>3
  <2>4. CASE req' = Without({q}) /\ rf' = rf
    BY <1>w, <2>1, <2>4
  <2> QED
    BY <1>15, <2>2, <2>3, <2>4 DEF Unauthorized
<1>16. ASSUME NEW r \in late, ServeLate(r) PROVE Fresh' /\ Kinship'
  BY <1>16, <1>m
<1> QED
  BY <1>1, <1>2, <1>3, <1>4, <1>5, <1>6, <1>7, <1>8, <1>9, <1>10, <1>11, <1>12, <1>13, <1>14, <1>15, <1>16 DEF Next

-----------------------------------------------------------------------------
(* What is behind the hint of a tab alone, as long as no answer is lost and no *)
(* other device closes the sessions of the account                             *)

\* The token whose row the next request will act on.
Current(t) == IF rf[t].phase = "answered" THEN rf[t].tok ELSE jar.refresh

Leaving == \E q \in Calls : Answered(q, "logout") \/ Answered(q, "password")
Backed  == \A t \in Tabs : Renewable(Current(t))

Ended(s) == s # None => rows[s].revoked

\* A password of this browser closed its session: the next request tells it.
Gone ==
    /\ "closed" \in why
    /\ \A t \in Tabs : shown[t] = None /\ rf[t].phase # "answered"
    /\ Ended(jar.refresh) /\ Ended(jar.sid)
    /\ \A q \in Calls : \/ req[q] = NoReq \/ req[q].kind = "login"
                        \/ req[q].kind = "session" /\ req[q].phase \in {"sent", "waiting"} /\ Ended(req[q].sid)

LoginLives == \A q \in Calls : Answered(q, "login") => Renewable(req[q].sid)

Live == LoginLives /\ (jar.hint => Leaving \/ Backed \/ Gone)

LiveInv == why \cap {"cut", "elsewhere"} = {} => Live

LEMMA GoneStays ==
    ASSUME TypeInv, Gone, NEW S, Kept(S), "closed" \in why',
           jar'.refresh = jar.refresh, jar'.sid = jar.sid,
           \A t \in Tabs : shown'[t] = None /\ rf'[t].phase # "answered",
           \A q \in Calls : \/ req'[q] = req[q] \/ req'[q] = NoReq \/ req'[q].kind = "login"
                            \/ /\ req'[q].kind = "session" /\ req'[q].phase \in {"sent", "waiting"}
                               /\ req'[q].sid \in {None, jar.sid}
    PROVE  Gone'
<1>1. \A s \in DOMAIN rows : rows[s].revoked => rows'[s].revoked
  BY DEF Kept
<1>2. (jar.refresh # None => rows'[jar.refresh].revoked) /\ (jar.sid # None => rows'[jar.sid].revoked)
  BY <1>1, NamedRows DEF Gone, Ended
<1>3. Ended(jar.refresh)' /\ Ended(jar.sid)'
  BY <1>2 DEF Ended
<1>4. ASSUME NEW q \in Calls, req'[q] # NoReq, req'[q].kind # "login"
      PROVE  req'[q].kind = "session" /\ req'[q].phase \in {"sent", "waiting"} /\ (req'[q].sid # None => rows'[req'[q].sid].revoked)
  <2>1. CASE req'[q] = req[q]
    <3>1. req[q].kind = "session" /\ req[q].phase \in {"sent", "waiting"} /\ (req[q].sid # None => rows[req[q].sid].revoked)
      BY <1>4, <2>1 DEF Gone, Ended
    <3> QED
      BY <1>1, <2>1, <3>1, NamedRows
  <2> QED
    BY <1>2, <1>4, <2>1
<1> QED
  BY <1>3, <1>4 DEF Gone, Ended

LEMMA CurrentRow ==
    ASSUME TypeInv, Shape, jar.hint, NEW t \in Tabs
    PROVE  Current(t) \in DOMAIN rows
BY NamedRows DEF Shape, Current, TypeInv, Named

\* A step that marks no row and leaves the current token what it is.
LEMMA SameLive ==
    ASSUME TypeInv, Shape, Live, Kept({}), SameRotated, jar'.hint => jar.hint,
           \A t \in Tabs : Current(t)' = Current(t),
           \A q \in Calls : Answered(q, "login")' => req'[q] = req[q] \/ (~rows'[req'[q].sid].rotated /\ ~rows'[req'[q].sid].revoked),
           Leaving => Leaving', Gone => Gone' \/ ~jar'.hint
    PROVE  Live'
<1>1. \A s \in DOMAIN rows : Renewable(s) => ~rows'[s].rotated /\ ~rows'[s].revoked
  BY DEF Kept, SameRotated, Renewable
<1>2. LoginLives'
  <2> SUFFICES ASSUME NEW q \in Calls, Answered(q, "login")' PROVE ~rows'[req'[q].sid].rotated /\ ~rows'[req'[q].sid].revoked
    BY DEF LoginLives, Renewable
  <2>1. CASE req'[q] = req[q]
    <3>1. Answered(q, "login") /\ req[q].sid \in DOMAIN rows /\ Renewable(req[q].sid)
      BY <2>1, NamedRows DEF Answered, TypeInv, Named, Live, LoginLives
    <3> QED
      BY <1>1, <2>1, <3>1
  <2> QED
    BY <2>1
<1>3. ASSUME jar'.hint, Backed PROVE Backed'
  <2> SUFFICES ASSUME NEW t \in Tabs PROVE Renewable(Current(t))'
    BY DEF Backed
  <2>1. Current(t) \in DOMAIN rows /\ Renewable(Current(t)) /\ Current(t)' = Current(t)
    BY <1>3, CurrentRow DEF Backed
  <2> QED
    BY <1>1, <2>1 DEF Renewable
<1> QED
  BY <1>2, <1>3 DEF Live

LEMMA LiveStep ==
    ASSUME OneTab, TypeInv, Shape, Heard, TokensInv, LiveInv, [Next]_vars PROVE LiveInv'
<1> SUFFICES ASSUME "cut" \notin why', "elsewhere" \notin why' PROVE Live'
  BY DEF LiveInv
<1> USE DEF TypeInv, ClientTyped
<1>n. /\ NoReq.kind = "call" /\ NoReq.phase = "idle" /\ NoReq.tab = None /\ NoReq.sid = None /\ NoRefresh.phase = "idle"
      /\ ~NoJar.hint
  BY DEF NoReq, NoRefresh, NoJar
<1>m. "cut" \notin why /\ why \subseteq why' /\ late = {} /\ Fresh /\ Kinship /\ Live
  BY HistoryGrows DEF Heard, TokensInv, LiveInv
<1>r. UNCHANGED rows => Kept({}) /\ SameRotated
  BY StillKeeps, ServerTyped
<1>t. \A q \in Calls : req[q].phase # "idle" => req[q].tab \in Tabs
  BY <1>n DEF Named
<1>f. \A t \in Tabs : Of(t) \subseteq Calls
  BY DEF Of
<1>o. \A t \in Tabs : (\A q \in Calls : req[q].phase # "idle" => q \in Of(t)) /\ \A u \in Tabs : u = t
  BY <1>n, AllOfTab
<1>p. ASSUME NEW t \in Tabs, rf[t].phase # "idle"
      PROVE  jar.hint /\ \A q \in Calls : req[q].kind # "login"
  <2>1. page[t] # "login" /\ jar.hint
    BY <1>n, <1>p DEF Shape
  <2> QED
    BY <1>n, <2>1 DEF Shape, OneTab, Named
\* Cookies, renewals and what is answered of the logout and the password stay.
<1>s. ASSUME Kept({}), SameRotated, UNCHANGED jar, \A t \in Tabs : Current(t)' = Current(t),
             \A q \in Calls : Answered(q, "login")' => req'[q] = req[q] \/ (~rows'[req'[q].sid].rotated /\ ~rows'[req'[q].sid].revoked),
             \A q \in Calls : Answered(q, "logout") \/ Answered(q, "password") => req'[q] = req[q],
             Gone => /\ \A t \in Tabs : shown'[t] = None /\ rf'[t].phase # "answered"
                     /\ \A q \in Calls : \/ req'[q] = req[q] \/ req'[q] = NoReq \/ req'[q].kind = "login"
                                         \/ /\ req'[q].kind = "session" /\ req'[q].phase \in {"sent", "waiting"}
                                            /\ req'[q].sid \in {None, jar.sid}
      PROVE  Live'
  <2>1. Leaving => Leaving'
    BY <1>s DEF Leaving, Answered
  <2>2. Gone => Gone'
    <3> SUFFICES ASSUME Gone PROVE Gone'
      OBVIOUS
    <3>1. "closed" \in why'
      BY <1>m DEF Gone
    <3> QED
      BY <1>s, <3>1, GoneStays
  <2> QED
    BY <1>m, <1>s, <2>1, <2>2, SameLive
<1>w. ASSUME UNCHANGED <<rows, jar, shown, rf>>, NEW Q, req' = Without(Q),
             \A q \in Q : ~Answered(q, "logout") /\ ~Answered(q, "password")
      PROVE  Live'
  <2>1. \A q \in Calls : req'[q] = NoReq \/ req'[q] = req[q]
    BY <1>w DEF Without
  <2>2. \A q \in Calls : Answered(q, "logout") \/ Answered(q, "password") => req'[q] = req[q]
    BY <1>w DEF Without
  <2>3. \A t \in Tabs : Current(t)' = Current(t)
    BY <1>w DEF Current
  <2>4. \A q \in Calls : Answered(q, "login")' => req'[q] = req[q]
    BY <1>n, <2>1 DEF Answered
  <2>5. Gone => \A t \in Tabs : shown'[t] = None /\ rf'[t].phase # "answered"
    BY <1>w DEF Gone
  <2> QED
    BY <1>r, <1>s, <1>w, <2>1, <2>2, <2>3, <2>4, <2>5
<1>g. ASSUME UNCHANGED <<rows, jar>>, NEW t \in Tabs, NEW p, Goto(t, p), NEW Q, Drop(Q, {t}),
             \A q \in Calls : Answered(q, "logout") \/ Answered(q, "password") => q \in Q
      PROVE  Live'
  <2>1. Cleared(p)
    BY <1>g, GotoClears
  <2>2. Unheard(Q) = {} /\ \A u \in Tabs : rf[u].phase # "answered"
    BY <1>g, NothingDropped DEF OneTab, Renewing
  <2>3. \A q \in Calls : ~Answered(q, "logout") /\ ~Answered(q, "password")
    BY <1>g, <2>2 DEF Unheard, Answered
  <2>4. \A u \in Tabs : Current(u)' = Current(u)
    BY <1>g, <1>n, <2>1, <2>2 DEF Cleared, Current
  <2> QED
    BY <1>g, <1>n, <1>r, <1>s, <2>1, <2>3, <2>4 DEF Cleared, Answered
\* A renewal that is served leaves the token of a session that can be renewed.
<1>v. ASSUME NEW t \in Tabs, rf[t].phase = "sent", rf[t].tok # None, CanIssue, NEW S,
             rows' = Rotate(rf[t].tok, rows[rf[t].tok].club, S),
             rf' = [rf EXCEPT ![t] = [phase |-> "answered", tok |-> Len(rows) + 1]],
             \A q \in Calls : req'[q].kind = req[q].kind
      PROVE  Live'
  <2>1. PICK n : n = Len(rows) + 1
    OBVIOUS
  <2>2. PICK i \in DOMAIN rows : i = rf[t].tok
    BY <1>v, NamedRows
  <2>3. RotatedBy(i, S, n)
    <3>1. rows' = Rotate(i, rows[i].club, S) /\ ServerTypeOK
      BY <1>v, <2>2
    <3> QED
      BY <1>v, <2>1, <3>1, RotateRows
  <2>4. \A u \in Tabs : rf'[u].phase = "answered" /\ rf'[u].tok = n
    BY <1>v, <2>1 DEF OneTab
  <2>5. Backed'
    BY <2>3, <2>4 DEF Backed, Current, Renewable, RotatedBy
  <2>6. LoginLives'
    BY <1>p, <1>v DEF LoginLives, Answered
  <2> QED
    BY <2>5, <2>6 DEF Live
<1>1. CASE UNCHANGED vars
  <2>1. req' = Without({})
    BY <1>1 DEF vars, Without
  <2> QED
    BY <1>1, <1>w, <2>1 DEF vars
<1>2. CASE Elsewhere
  <2>1. PICK s \in DOMAIN rows : Expire(s)
    BY <1>2, <1>m DEF Elsewhere, Mark
  <2>2. Kept({}) /\ SameRotated
    <3>1. \A i \in DOMAIN rows : rows[i].revoked \in BOOLEAN
      BY RowTyped, ServerTyped DEF AuthRow
    <3> QED
      BY <2>1, <3>1, ExpiredRows DEF Kept, SameRotated
  <2>3. UNCHANGED <<jar, shown, rf, req>>
    BY <1>2 DEF Elsewhere
  <2> QED
    BY <1>s, <2>2, <2>3 DEF Current, Gone
<1>3. ASSUME NEW t \in Tabs, Load(t) PROVE Live'
  BY <1>3, <1>g, <1>o DEF Load, server, Answered
<1>4. ASSUME NEW t \in Tabs, NEW q \in Calls, NEW kind \in Kinds, NEW c \in Clubs \cup {None}, Send(q, t, kind, c)
      PROVE  Live'
  <2>1. /\ \A p \in Calls : p # q => req'[p] = req[p]
        /\ req'[q].phase = "sent" /\ req'[q].kind = kind /\ (kind # "login" => req'[q].sid = jar.sid)
        /\ req[q].phase = "idle"
    BY <1>4, <1>n DEF Send, Sent
  <2>2. UNCHANGED <<jar, rf, rows, shown>>
    BY <1>4 DEF Send, server
  <2>3. \A p \in Calls : /\ Answered(p, "login")' => req'[p] = req[p]
                         /\ Answered(p, "logout") \/ Answered(p, "password") => req'[p] = req[p]
    BY <2>1 DEF Answered
  <2>4. Gone => kind \in {"login", "session"}
    BY <1>4 DEF Send, Gone
  <2>5. Gone => \A p \in Calls : \/ req'[p] = req[p] \/ req'[p].kind = "login"
                                 \/ req'[p].kind = "session" /\ req'[p].phase = "sent" /\ req'[p].sid = jar.sid
    BY <2>1, <2>4
  <2>6. Gone => \A u \in Tabs : shown'[u] = None /\ rf'[u].phase # "answered"
    BY <2>2 DEF Gone
  <2>7. \A u \in Tabs : Current(u)' = Current(u)
    BY <2>2 DEF Current
  <2> QED
    BY <1>r, <1>s, <2>2, <2>3, <2>5, <2>6, <2>7
<1>5. ASSUME NEW t \in Tabs, ServeRefresh(t) PROVE Live'
  <2> DEFINE s == rf[t].tok
  <2>1. rf[t].phase = "sent" /\ UNCHANGED <<jar, req, shown>>
    BY <1>5 DEF ServeRefresh
  <2>2. s = jar.refresh /\ jar.hint /\ s # None
    BY <1>m, <1>p, <2>1 DEF Fresh, Shape
  <2>3. CASE CanIssue /\ rows' = Rotate(s, rows[s].club, {}) /\ rf' = [rf EXCEPT ![t] = [phase |-> "answered", tok |-> Len(rows) + 1]]
    BY <1>v, <2>1, <2>2, <2>3
  <2>4. CASE ~Renewable(s) /\ rows' = CutFamily(s) /\ rf' = [rf EXCEPT ![t].phase = "refused"]
    <3>1. Kept(Family(s) \ {s})
      BY <2>4, RevokedRows, CutKeeps, ServerTyped DEF CutFamily
    <3>2. \A u \in Tabs : rf'[u].phase = "refused"
      BY <2>4 DEF OneTab, RefreshSet
    <3>3. ~Backed
      BY <2>1, <2>2, <2>4 DEF Backed, Current
    <3>4. Leaving => Leaving'
      BY <2>1 DEF Leaving, Answered
    <3>5. Gone => Gone'
      <4> SUFFICES ASSUME Gone PROVE Gone'
        OBVIOUS
      <4>1. "closed" \in why' /\ \A u \in Tabs : shown'[u] = None /\ rf'[u].phase # "answered"
        BY <1>m, <2>1, <3>2 DEF Gone
      <4> QED
        BY <2>1, <3>1, <4>1, GoneStays
    <3>6. LoginLives'
      BY <1>p, <2>1 DEF LoginLives, Answered
    <3> QED
      BY <1>m, <2>2, <3>3, <3>4, <3>5, <3>6 DEF Live
  <2> QED
    BY <1>5, <2>2, <2>3, <2>4 DEF ServeRefresh
<1>6. ASSUME NEW t \in Tabs, ServeRefreshWhileRevoking(t) PROVE Live'
  <2>1. \A q \in Calls : req'[q].kind = req[q].kind
    BY <1>6, ServedPassword DEF ServedOne
  <2> QED
    BY <1>6, <1>v, <2>1 DEF ServeRefreshWhileRevoking
<1>7. ASSUME NEW t \in Tabs, Renewed(t) PROVE Live'
  <2> DEFINE s == rf[t].tok
  <2>1. rf[t].phase = "answered" /\ jar'.refresh = s /\ UNCHANGED rows /\ \A u \in Tabs : rf'[u].phase = "idle"
    BY <1>7, <1>n DEF Renewed, OneTab, server
  <2>2. jar.hint /\ \A q \in Calls : req[q].kind # "login"
    BY <1>p, <2>1
  <2>3. \A q \in Calls : req'[q].kind = req[q].kind /\ (Answered(q, "logout") \/ Answered(q, "password") => req'[q] = req[q])
    BY <1>7, RenewedRequests DEF Answered
  <2>4. ~Gone
    BY <2>1 DEF Gone
  <2>5. \A u \in Tabs : Current(u)' = Current(u)
    BY <2>1 DEF Current, OneTab
  <2>6. LoginLives'
    BY <2>2, <2>3 DEF LoginLives, Answered
  <2>7. Leaving => Leaving'
    BY <2>3 DEF Leaving, Answered
  <2>8. Backed => Backed'
    BY <2>1, <2>5 DEF Backed, Renewable
  <2> QED
    BY <1>m, <2>2, <2>4, <2>6, <2>7, <2>8 DEF Live
<1>8. ASSUME NEW t \in Tabs, Refused(t) PROVE Live'
  <2>1. Cleared("login") /\ ~jar'.hint
    BY <1>8, GotoClears DEF Refused, onSessionExpired, JarSet
  <2> QED
    BY <1>n, <2>1 DEF Cleared, Live, LoginLives, Answered
<1>9. ASSUME NEW t \in Tabs, LimitRefresh(t) PROVE Live'
  <2>1. UNCHANGED <<jar, rows, shown, req>> /\ \A u \in Tabs : rf[u].phase # "answered" /\ rf'[u].phase # "answered"
    BY <1>9 DEF LimitRefresh, server, RefreshSet, OneTab
  <2>2. \A u \in Tabs : Current(u)' = Current(u)
    BY <2>1 DEF Current
  <2> QED
    BY <1>r, <1>s, <2>1, <2>2 DEF Gone
<1>10. ASSUME NEW t \in Tabs, FailRefresh(t) PROVE Live'
  <2>1. UNCHANGED <<rows, jar>>
    BY <1>10 DEF FailRefresh, server
  <2>2. CASE Goto(t, "login") /\ Drop(Of(t), {t})
    BY <1>g, <1>o, <2>1, <2>2 DEF Answered
  <2>3. CASE /\ rf' = [rf EXCEPT ![t] = NoRefresh] /\ req' = Without(Waiting(t)) /\ Drop(Waiting(t), {t})
             /\ UNCHANGED shown
    <3>1. rf[t].phase # "answered"
      BY <2>3, NothingDropped DEF Renewing
    <3>2. \A u \in Tabs : rf[u].phase # "answered" /\ rf'[u].phase # "answered"
      BY <1>n, <2>3, <3>1 DEF OneTab
    <3>3. \A q \in Calls : req'[q] = NoReq \/ (req'[q] = req[q] /\ q \notin Waiting(t))
      BY <2>3 DEF Without
    <3>4. \A q \in Calls : Answered(q, "logout") \/ Answered(q, "password") => req'[q] = req[q]
      BY <2>3 DEF Without, Waiting, Answered
    <3>5. \A u \in Tabs : Current(u)' = Current(u)
      BY <2>1, <3>2 DEF Current
    <3>6. \A q \in Calls : Answered(q, "login")' => req'[q] = req[q]
      BY <1>n, <3>3 DEF Answered
    <3> QED
      BY <1>r, <1>s, <2>1, <2>3, <3>2, <3>3, <3>4, <3>5, <3>6 DEF Gone
  <2> QED
    BY <1>10, <2>2, <2>3 DEF FailRefresh
<1>11. ASSUME NEW q \in Calls, Serve(q) PROVE Live'
  <2> DEFINE r == req[q]
  <2>1. ServedOne(q) /\ UNCHANGED <<jar, rf, shown>> /\ req'[q].sid = IF r.kind = "login" THEN Len(rows) + 1 ELSE r.sid
    BY <1>11, ServedRequest
  <2>2. \A p \in Calls : Answered(p, "logout") \/ Answered(p, "password") => req'[p] = req[p]
    BY <2>1 DEF ServedOne, Answered
  <2>3. \A u \in Tabs : Current(u)' = Current(u)
    BY <2>1 DEF Current
  <2>4. CASE r.kind = "login"
    <3>1. PICK u \in Users : rows' = StartSession(u, r.club) /\ CanIssue
      BY <1>11, <2>4 DEF Serve
    <3>2. PICK n \in Nat, c \in Clubs \cup {None} : n = Len(rows) + 1 /\ c = r.club
      <4>1. r \in RequestSet(Known) /\ Len(rows) + 1 \in Nat
        BY KnownSids
      <4> QED
        BY <4>1 DEF RequestSet
    <3>3. Kept({}) /\ SameRotated
      BY <3>1, <3>2, StartRows
    <3>4. ~rows'[n].rotated /\ ~rows'[n].revoked
      BY <3>1, <3>2, StartRows
    <3>5. \A p \in Calls : Answered(p, "login")' => req'[p] = req[p] \/ (~rows'[req'[p].sid].rotated /\ ~rows'[req'[p].sid].revoked)
      BY <2>1, <2>4, <3>2, <3>4 DEF ServedOne
    <3>6. Gone => /\ \A t \in Tabs : shown'[t] = None /\ rf'[t].phase # "answered"
                  /\ \A p \in Calls : req'[p] = req[p] \/ req'[p].kind = "login"
      BY <2>1, <2>4 DEF Gone, ServedOne
    <3> QED
      BY <1>s, <2>1, <2>2, <2>3, <3>3, <3>5, <3>6
  <2>5. CASE r.kind # "login"
    <3>1. AccessOk(r.sid) /\ Does(r.kind, r.sid, r.club) /\ r # NoReq
      BY <1>11, <1>n, <2>5 DEF Serve, Pending
    <3>2. r.sid \in DOMAIN rows
      BY <3>1, NamedRows DEF AccessOk
    <3>3. ~Gone
      BY <2>5, <3>1 DEF Gone, Ended, AccessOk
    <3>4. \A p \in Calls : req[p].kind # "login"
      <4>1. ASSUME NEW p \in Calls, req[p].kind = "login" PROVE FALSE
        <5>1. req[p] # NoReq
          BY <1>n, <4>1
        <5> QED
          BY <2>5, <3>1, <4>1, <5>1 DEF Shape
      <4> QED
        BY <4>1
    <3>5. \A p \in Calls : ~Answered(p, "login")'
      BY <2>1, <3>4 DEF Answered, ServedOne
    <3>6. CASE r.kind \in {"logout", "password"}
      <4>1. Leaving'
        BY <2>1, <3>6 DEF Leaving, Answered, ServedOne
      <4> QED
        BY <3>5, <4>1 DEF Live, LoginLives
    <3>7. CASE r.kind \notin {"logout", "password"}
      <4>1. PICK s \in DOMAIN rows, c \in Clubs \cup {None}, kind \in Kinds : s = r.sid /\ c = r.club /\ kind = r.kind
        BY <3>2 DEF RequestSet
      <4>2. Does(kind, s, c)
        BY <3>1, <4>1
      <4>3. SameRotated /\ Kept(IF kind = "logout" THEN Family(s) ELSE IF kind = "password" THEN RowsOf(rows[s].user) ELSE {})
        BY <4>2, DoesRows
      <4>4. SameRotated /\ Kept({})
        BY <3>7, <4>1, <4>3
      <4> QED
        BY <1>s, <2>1, <2>2, <2>3, <3>3, <3>5, <4>4
    <3> QED
      BY <3>6, <3>7
  <2> QED
    BY <2>4, <2>5
<1>12. ASSUME NEW q \in Calls, Reject(q) PROVE Live'
  BY <1>12, <1>w DEF Reject, server, Pending, Answered
<1>13. ASSUME NEW q \in Calls, Deliver(q) PROVE Live'
  <2> DEFINE r == req[q]
  <2>r. r # NoReq /\ r.tab \in Tabs /\ r.phase = "answered" /\ UNCHANGED rows
    BY <1>13, <1>n, <1>t DEF Deliver, server
  <2>1. CASE r.kind = "login"
    <3>1. jar' = [sid |-> r.sid, club |-> r.club, refresh |-> r.sid, hint |-> TRUE] /\ rf' = rf /\ req' = Without({q})
      BY <1>13, <2>1 DEF Deliver
    <3>2. \A p \in Calls : req'[p] = NoReq
      BY <2>r, <2>1, <3>1 DEF Without, Shape
    <3>3. Renewable(r.sid)
      BY <1>m, <2>r, <2>1 DEF Live, LoginLives, Answered
    <3>4. \A t \in Tabs : rf[t].phase = "idle"
      BY <1>n, <2>r, <2>1 DEF Shape, OneTab
    <3>5. jar'.refresh = r.sid
      BY <3>1
    <3>6. Backed'
      BY <2>r, <3>1, <3>3, <3>4, <3>5 DEF Backed, Current, Renewable
    <3> QED
      BY <1>n, <3>2, <3>6 DEF Live, LoginLives, Answered
  <2>2. CASE r.kind \in {"session", "call", "switch"}
    <3>1. rf' = rf /\ jar'.refresh = jar.refresh /\ jar'.hint = jar.hint
      BY <1>13, <2>2 DEF Deliver, JarSet
    <3>2. PICK Q : req' = Without(Q) /\ \A p \in Q : req[p].kind \notin {"logout", "password"}
      <4>1. req' = Without({q}) \/ req' = Without({q} \cup {p \in Of(r.tab) : req[p].kind = "session"})
        BY <1>13, <2>2 DEF Deliver
      <4> QED
        BY <2>2, <4>1
    <3>3. \A p \in Calls : req'[p] = NoReq \/ req'[p] = req[p]
      BY <3>2 DEF Without
    <3>4. Leaving => Leaving'
      BY <3>2 DEF Leaving, Without, Answered
    <3>5. ~Gone
      BY <2>r, <2>2 DEF Gone
    <3>6. \A p \in Calls : Answered(p, "login")' => req'[p] = req[p]
      BY <1>n, <3>3 DEF Answered
    <3>7. \A t \in Tabs : Current(t)' = Current(t)
      BY <3>1 DEF Current
    <3> QED
      BY <1>m, <1>r, <2>r, <3>1, <3>4, <3>5, <3>6, <3>7, SameLive
  <2>3. CASE r.kind = "logout"
    <3>1. Cleared("login") /\ ~jar'.hint
      BY <1>13, <1>n, <2>r, <2>3, GotoClears DEF Deliver
    <3> QED
      BY <1>n, <3>1 DEF Cleared, Live, LoginLives, Answered
  <2>4. CASE r.kind = "password"
    <3>1. Cleared("login") /\ jar' = jar /\ Drop(Of(r.tab) \ {q}, {r.tab})
      BY <1>13, <2>r, <2>4, GotoClears DEF Deliver
    <3>2. \A u \in Tabs : rf[u].phase # "answered"
      BY <2>r, <3>1, NothingDropped DEF OneTab, Renewing
    <3>3. "closed" \in why'
      BY <1>m, <2>r, <2>4 DEF Heard, Answered
    <3>4. LoginLives'
      BY <1>n, <3>1 DEF Cleared, LoginLives, Answered
    <3>5. CASE ~jar.hint
      BY <3>1, <3>4, <3>5 DEF Live
    <3>6. CASE jar.hint /\ Renewable(jar.refresh)
      <4>1. Backed'
        BY <1>n, <2>r, <3>1, <3>6 DEF Backed, Current, Cleared, Renewable
      <4> QED
        BY <3>4, <4>1 DEF Live
    <3>7. CASE jar.hint /\ ~Renewable(jar.refresh)
      <4>1. rows[jar.refresh].revoked
        BY <1>m, <3>2, <3>7 DEF Fresh, Renewable, Shape, OneTab
      <4>2. jar.sid # None => rows[jar.sid].revoked
        BY <1>m, <4>1 DEF Kinship, Kin
      <4>3. Ended(jar.refresh)' /\ Ended(jar.sid)'
        BY <2>r, <3>1, <4>1, <4>2 DEF Ended
      <4>4. Gone'
        BY <1>n, <3>1, <3>3, <4>3 DEF Gone, Cleared
      <4> QED
        BY <3>4, <4>4 DEF Live
    <3> QED
      BY <3>5, <3>6, <3>7
  <2> QED
    BY <2>1, <2>2, <2>3, <2>4 DEF RequestSet, Kinds
<1>14. ASSUME NEW q \in Calls, Fail(q) PROVE Live'
  <2>1. UNCHANGED <<rows, jar>> /\ req[q].tab \in Tabs /\ (Pending(q) \/ req[q].phase = "answered")
    BY <1>14, <1>t DEF Fail, server, Pending
  <2>2. CASE Goto(req[q].tab, "login") /\ Drop(Of(req[q].tab), {req[q].tab})
    BY <1>g, <1>o, <2>1, <2>2 DEF Answered
  <2>3. CASE req' = Without({q}) /\ UNCHANGED <<page, shown, rf>> /\ Drop({q}, {})
    <3>1. Unheard({q}) = {}
      BY <2>3, NothingDropped
    <3>2. ~Answered(q, "logout") /\ ~Answered(q, "password")
      BY <3>1 DEF Unheard, Answered
    <3> QED
      BY <1>w, <2>1, <2>3, <3>2
  <2> QED
    BY <1>14, <2>2, <2>3 DEF Fail
<1>15. ASSUME NEW q \in Calls, Unauthorized(q) PROVE Live'
  <2>1. req[q].tab \in Tabs /\ UNCHANGED <<jar, rows>> /\ req[q].kind # "login" /\ Pending(q) /\ req[q] # NoReq
    BY <1>15, <1>n, <1>t DEF Unauthorized, Pending, server
  <2>2. CASE /\ req' = [req EXCEPT ![q].phase = "waiting", ![q].sid = None] /\ UNCHANGED shown
             /\ rf' = IF StartsRefresh(q) THEN [rf EXCEPT ![req[q].tab] = [phase |-> "sent", tok |-> jar.refresh]] ELSE rf
    <3>1. \A t \in Tabs : \/ rf'[t] = rf[t]
                          \/ rf[t].phase # "answered" /\ rf'[t].phase # "answered"
      BY <1>n, <2>2 DEF StartsRefresh
    <3>2. /\ \A p \in Calls : p # q => req'[p] = req[p]
          /\ req'[q].phase = "waiting" /\ req'[q].sid = None /\ req'[q].kind = req[q].kind
      BY <2>2 DEF RequestSet
    <3>3. \A p \in Calls : /\ Answered(p, "login")' => req'[p] = req[p]
                           /\ Answered(p, "logout") \/ Answered(p, "password") => req'[p] = req[p]
      BY <2>1, <3>2 DEF Answered, Pending
    <3>4. \A t \in Tabs : Current(t)' = Current(t)
      BY <2>1, <3>1 DEF Current
    <3>5. Gone => /\ \A t \in Tabs : shown'[t] = None /\ rf'[t].phase # "answered"
                  /\ \A p \in Calls : \/ req'[p] = req[p]
                                      \/ req'[p].kind = "session" /\ req'[p].phase = "waiting" /\ req'[p].sid = None
      BY <2>1, <2>2, <3>1, <3>2 DEF Gone
    <3> QED
      BY <1>r, <1>s, <2>1, <3>3, <3>4, <3>5
  <2>3. CASE Goto(req[q].tab, "login") /\ Drop(Of(req[q].tab) \ {q}, {req[q].tab})
    <3>1. \A p \in Calls : Answered(p, "logout") \/ Answered(p, "password") => p \in Of(req[q].tab) \ {q}
      BY <1>o, <2>1 DEF Answered, Pending
    <3> QED
      BY <1>g, <2>1, <2>3, <3>1
  <2>4. CASE req' = Without({q}) /\ UNCHANGED <<shown, rf>>
    BY <1>w, <2>1, <2>4 DEF Answered, Pending
  <2> QED
    BY <1>15, <2>2, <2>3, <2>4 DEF Unauthorized
<1>16. ASSUME NEW r \in late, ServeLate(r) PROVE Live'
  BY <1>16, <1>m
<1> QED
  BY <1>1, <1>2, <1>3, <1>4, <1>5, <1>6, <1>7, <1>8, <1>9, <1>10, <1>11, <1>12, <1>13, <1>14, <1>15, <1>16 DEF Next

-----------------------------------------------------------------------------
(* The club of a tab alone, as long as no renewal overlaps a switch of club    *)

SwitchAlone ==
    \A q \in Calls : req[q].kind = "switch" /\ req[q].phase # "waiting" => req[q].sid = jar.sid /\ Renewing = {}

RequestClubs ==
    \A q \in Calls : /\ Answered(q, "login") => rows[req[q].sid].club = req[q].club
                     /\ req[q].kind = "session" => req[q].club = jar.club

RowClub ==
    jar.hint => \A t \in Tabs :
        /\ \A q \in Calls : Answered(q, "switch") => rows[Current(t)].club = req[q].club
        /\ (\A q \in Calls : ~Answered(q, "switch")) => rows[Current(t)].club = jar.club

ShownClub == \A t \in Tabs : page[t] = "panel" /\ shown[t] # None => shown[t] = jar.club

Club == jar.sid = jar.refresh /\ SwitchAlone /\ RequestClubs /\ RowClub /\ ShownClub

ClubInv == why \cap {"cut", "crossed"} = {} => Club

\* Nothing of the session survives a full load but the cookies.
LEMMA ClearedClub ==
    ASSUME TypeInv, Shape, Club, SameClubs, NEW p, Cleared(p), jar'.sid = jar'.refresh,
           jar'.hint => /\ jar' = jar /\ \A q \in Calls : ~Answered(q, "switch")
                        /\ \A t \in Tabs : rf[t].phase # "answered"
    PROVE  Club'
<1> USE DEF TypeInv, ClientTyped
<1>n. NoReq.kind = "call" /\ NoReq.phase = "idle" /\ NoRefresh.phase = "idle"
  BY DEF NoReq, NoRefresh
<1>1. \A q \in Calls, k \in {"login", "switch"} : ~Answered(q, k)' /\ req'[q].kind = "call"
  BY <1>n DEF Cleared, Answered
<1>2. RowClub'
  <2> SUFFICES ASSUME jar'.hint, NEW t \in Tabs PROVE (rows[Current(t)].club = jar.club)'
    BY <1>1 DEF RowClub
  <2>1. rows[jar.refresh].club = jar.club /\ jar.refresh \in DOMAIN rows /\ jar' = jar
    BY DEF Club, RowClub, Current, Shape, JarSet, Known
  <2> QED
    BY <1>n, <2>1 DEF Cleared, Current, SameClubs
<1> QED
  BY <1>1, <1>2 DEF Club, SwitchAlone, RequestClubs, ShownClub, Cleared

\* A step that leaves the cookies and what is answered alone.
LEMMA SameClub ==
    ASSUME TypeInv, Shape, Club, SameClubs, UNCHANGED <<jar, page, shown>>,
           \A q \in Calls :
              /\ Answered(q, "login") \/ Answered(q, "switch") => req'[q] = req[q]
              /\ Answered(q, "login")' \/ Answered(q, "switch")' => req'[q] = req[q]
              /\ req'[q].kind = "session" => req'[q].club = jar.club,
           SwitchAlone',
           \A t \in Tabs : Current(t)' = Current(t)
    PROVE  Club'
<1> USE DEF TypeInv, ClientTyped
<1>1. \A q \in Calls, k \in {"login", "switch"} : Answered(q, k)' <=> Answered(q, k)
  BY DEF Answered
<1>2. RequestClubs'
  <2> SUFFICES ASSUME NEW q \in Calls, Answered(q, "login")' PROVE rows'[req'[q].sid].club = req'[q].club
    BY DEF RequestClubs
  <2>1. req'[q] = req[q] /\ Answered(q, "login") /\ req[q].sid \in DOMAIN rows
    BY <1>1, NamedRows DEF Answered, Named
  <2> QED
    BY <2>1 DEF Club, RequestClubs, SameClubs
<1>3. RowClub'
  <2> SUFFICES ASSUME jar.hint, NEW t \in Tabs
               PROVE  /\ \A q \in Calls : Answered(q, "switch") => rows'[Current(t)].club = req[q].club
                      /\ (\A q \in Calls : ~Answered(q, "switch")) => rows'[Current(t)].club = jar.club
    BY <1>1 DEF RowClub, Answered
  <2>1. Current(t) \in DOMAIN rows
    BY CurrentRow
  <2> QED
    BY <2>1 DEF SameClubs, Club, RowClub
<1> QED
  BY <1>2, <1>3 DEF Club, ShownClub

LEMMA ClubStep ==
    ASSUME OneTab, TypeInv, Shape, Heard, TokensInv, ClubInv, [Next]_vars PROVE ClubInv'
<1> SUFFICES ASSUME "cut" \notin why', "crossed" \notin why' PROVE Club'
  BY DEF ClubInv
<1> USE DEF TypeInv, ClientTyped
<1>n. /\ NoReq.kind = "call" /\ NoReq.phase = "idle" /\ NoReq.tab = None
      /\ NoRefresh.phase = "idle" /\ ~NoJar.hint /\ NoJar.sid = NoJar.refresh
  BY DEF NoReq, NoRefresh, NoJar
<1>m. "cut" \notin why /\ late = {} /\ Fresh /\ Club /\ jar.sid = jar.refresh
  <2>1. "cut" \notin why /\ why \subseteq why'
    BY HistoryGrows
  <2> QED
    BY <2>1 DEF Heard, TokensInv, ClubInv, Club
<1>r. UNCHANGED rows => SameClubs
  BY DEF SameClubs
<1>t. \A q \in Calls : req[q].phase # "idle" => req[q].tab \in Tabs
  BY <1>n DEF Named
<1>o. \A t \in Tabs : (\A q \in Calls : req[q].phase # "idle" => q \in Of(t)) /\ \A u \in Tabs : u = t
  BY <1>n, AllOfTab
<1>y. \A t \in Tabs : page[t] = "login" => rf[t].phase = "idle"
  BY <1>n DEF Shape
\* Nothing in flight starts, and what is answered of login and switch stays.
<1>s. ASSUME SameClubs, UNCHANGED <<jar, page, shown>>, \A t \in Tabs : Current(t)' = Current(t),
             Renewing' \subseteq Renewing,
             \A q \in Calls :
                /\ Answered(q, "login") \/ Answered(q, "switch") => req'[q] = req[q]
                /\ Answered(q, "login")' \/ Answered(q, "switch")' => req'[q] = req[q]
                /\ req'[q].kind = "session" => req'[q].club = jar.club
                /\ req'[q].kind = "switch" => \/ req'[q].phase = "waiting"
                                              \/ req[q].kind = "switch" /\ req[q].phase # "waiting" /\ req'[q].sid = req[q].sid
      PROVE  Club'
  <2>1. SwitchAlone'
    BY <1>m, <1>s DEF Club, SwitchAlone
  <2> QED
    BY <1>m, <1>s, <2>1, SameClub
\* Requests withdrawn, none of them answered.
<1>w. ASSUME UNCHANGED <<rows, jar, page, shown>>, \A t \in Tabs : Current(t)' = Current(t),
             Renewing' \subseteq Renewing, NEW Q, req' = Without(Q),
             \A q \in Q : ~Answered(q, "login") /\ ~Answered(q, "switch")
      PROVE  Club'
  <2>1. \A q \in Calls : (req'[q] = NoReq /\ q \in Q) \/ (req'[q] = req[q] /\ q \notin Q)
    <3>1. \A q \in Calls : req'[q] = IF q \in Q THEN NoReq ELSE req[q]
      BY <1>w DEF Without
    <3> QED
      BY <3>1
  <2>2. \A q \in Calls : req[q].kind = "session" => req[q].club = jar.club
    BY <1>m DEF Club, RequestClubs
  <2>3. ASSUME NEW q \in Calls
        PROVE  /\ Answered(q, "login") \/ Answered(q, "switch") => req'[q] = req[q]
               /\ Answered(q, "login")' \/ Answered(q, "switch")' => req'[q] = req[q]
               /\ req'[q].kind = "session" => req'[q].club = jar.club
               /\ req'[q].kind = "switch" => \/ req'[q].phase = "waiting"
                                             \/ req[q].kind = "switch" /\ req[q].phase # "waiting" /\ req'[q].sid = req[q].sid
    BY <1>n, <1>w, <2>1, <2>2 DEF Answered
  <2> QED
    BY <1>r, <1>s, <1>w, <2>3
\* A full load: nothing that changes the session is in flight.
<1>g. ASSUME UNCHANGED rows, jar' = jar \/ (~jar'.hint /\ jar'.sid = jar'.refresh), NEW t \in Tabs, NEW p, Goto(t, p),
             NEW Q, Drop(Q, {t}), \A q \in Calls : Answered(q, "switch") => q \in Q
      PROVE  Club'
  <2>1. Cleared(p)
    BY <1>g, GotoClears
  <2>2. Unheard(Q) = {} /\ \A u \in Tabs : rf[u].phase # "answered"
    BY <1>g, NothingDropped DEF OneTab, Renewing
  <2>3. \A q \in Calls : ~Answered(q, "switch")
    BY <1>g, <2>2 DEF Unheard, Answered
  <2> QED
    BY <1>g, <1>m, <1>r, <2>1, <2>2, <2>3, ClearedClub
\* A renewal that is served: the new row has the club of the old one.
<1>v. ASSUME NEW t \in Tabs, rf[t].phase = "sent", rf[t].tok # None, CanIssue, NEW S,
             rows' = Rotate(rf[t].tok, rows[rf[t].tok].club, S),
             rf' = [rf EXCEPT ![t] = [phase |-> "answered", tok |-> Len(rows) + 1]], UNCHANGED <<jar, page, shown>>,
             \A q \in Calls : req'[q] = req[q] \/ (ServedOne(q) /\ req[q].kind = "password")
      PROVE  Club'
  <2> DEFINE s == rf[t].tok
  <2>1. PICK n : n = Len(rows) + 1
    OBVIOUS
  <2>2. s \in DOMAIN rows /\ s = jar.refresh /\ t \in Renewing
    BY <1>m, <1>v, NamedRows DEF Fresh, Renewing
  <2>3. rows'[n].club = rows[s].club
    <3>1. PICK i \in DOMAIN rows : i = s
      BY <2>2
    <3>2. RotatedBy(i, S, n)
      BY <1>v, <2>1, <3>1, RotateRows
    <3> QED
      BY <3>1, <3>2 DEF RotatedBy
  <2>4. \A u \in Tabs : Current(u)' = n /\ Current(u) = s
    BY <1>v, <2>1, <2>2 DEF OneTab, Current
  <2>5. \A q \in Calls : ~(req[q].kind = "switch" /\ req[q].phase # "waiting")
    BY <1>m, <2>2 DEF Club, SwitchAlone
  <2>6. \A q \in Calls : req[q].kind # "login"
    <3>1. page[t] # "login"
      BY <1>y, <1>v
    <3> QED
      BY <1>n, <3>1 DEF Shape, OneTab, Named
  <2>7. \A q \in Calls : req'[q] = req[q] \/ (req'[q].kind = "password" /\ req[q].kind = "password")
    BY <1>v DEF ServedOne
  <2>8. \A q \in Calls : ~Answered(q, "switch") /\ ~Answered(q, "switch")' /\ ~Answered(q, "login")'
    BY <2>5, <2>6, <2>7 DEF Answered
  <2>9. SwitchAlone' /\ RequestClubs'
    BY <1>m, <1>v, <2>5, <2>7, <2>8 DEF Club, SwitchAlone, RequestClubs
  <2>10. RowClub'
    <3>1. jar.hint => rows[s].club = jar.club
      BY <1>m, <1>v, <2>4, <2>8 DEF Club, RowClub
    <3> QED
      BY <1>v, <2>3, <2>4, <2>8, <3>1 DEF RowClub
  <2>11. ShownClub' /\ jar'.sid = jar'.refresh
    BY <1>m, <1>v DEF Club, ShownClub
  <2> QED
    BY <2>9, <2>10, <2>11 DEF Club
<1>1. CASE UNCHANGED vars
  <2>1. \A t \in Tabs : Current(t)' = Current(t)
    BY <1>1 DEF vars, Current
  <2>2. Club'
    BY <1>1, <1>m DEF vars, Club, SwitchAlone, RequestClubs, RowClub, ShownClub, Renewing, Current, Answered
  <2> QED
    BY <2>2
<1>2. CASE Elsewhere
  <2>1. SameClubs
    <3>1. ASSUME NEW u \in Users, RevokeAll(u) PROVE SameClubs
      BY <3>1, RevokeAllRows, CutKeeps
    <3>2. ASSUME NEW s \in DOMAIN rows, Expire(s) PROVE SameClubs
      BY <3>2, ExpiredRows, ServerTyped DEF SameClubs
    <3> QED
      BY <1>2, <3>1, <3>2 DEF Elsewhere
  <2>2. UNCHANGED <<jar, page, shown, rf, req>>
    BY <1>2 DEF Elsewhere
  <2>3. SwitchAlone' /\ \A t \in Tabs : Current(t)' = Current(t)
    BY <1>m, <2>2 DEF Club, SwitchAlone, Renewing, Current
  <2> QED
    BY <1>m, <2>1, <2>2, <2>3, SameClub DEF Club, RequestClubs
<1>3. ASSUME NEW t \in Tabs, Load(t) PROVE Club'
  BY <1>3, <1>g, <1>o DEF Load, server, Answered
<1>4. ASSUME NEW t \in Tabs, NEW q \in Calls, NEW kind \in Kinds, NEW c \in Clubs \cup {None}, Send(q, t, kind, c)
      PROVE  Club'
  <2>1. req[q] = NoReq /\ UNCHANGED <<jar, page, shown, rf, rows>> /\ \A p \in Calls : p # q => req'[p] = req[p]
    BY <1>4 DEF Send, server
  <2>2. req'[q].kind = kind /\ req'[q].phase = "sent" /\ (kind # "login" => req'[q].sid = jar.sid) /\ req'[q].club = c
    BY <1>4 DEF Send, Sent
  <2>3. (kind = "session" => c = jar.club) /\ (kind = "switch" => Renewing = {})
    BY <1>4, <1>m DEF Send, Mark
  <2>4. SwitchAlone'
    BY <1>m, <2>1, <2>2, <2>3 DEF Club, SwitchAlone, Renewing
  <2>5. \A p \in Calls :
           /\ Answered(p, "login") \/ Answered(p, "switch") => req'[p] = req[p]
           /\ Answered(p, "login")' \/ Answered(p, "switch")' => req'[p] = req[p]
           /\ req'[p].kind = "session" => req'[p].club = jar.club
    BY <1>m, <1>n, <2>1, <2>2, <2>3 DEF Answered, Club, RequestClubs
  <2>6. \A u \in Tabs : Current(u)' = Current(u)
    BY <2>1 DEF Current
  <2> QED
    BY <1>r, <1>m, <2>1, <2>4, <2>5, <2>6, SameClub
<1>k. \A q \in Calls : req[q].kind = "session" => req[q].club = jar.club
  BY <1>m DEF Club, RequestClubs
<1>5. ASSUME NEW t \in Tabs, ServeRefresh(t) PROVE Club'
  <2> DEFINE s == rf[t].tok
  <2>1. rf[t].phase = "sent" /\ UNCHANGED <<jar, page, shown, req>>
    BY <1>5 DEF ServeRefresh
  <2>2. CASE s # None /\ CanIssue /\ rows' = Rotate(s, rows[s].club, {})
             /\ rf' = [rf EXCEPT ![t] = [phase |-> "answered", tok |-> Len(rows) + 1]]
    BY <1>v, <2>1, <2>2
  <2>3. CASE SameClubs /\ rf' = [rf EXCEPT ![t].phase = "refused"]
    <3>1. \A u \in Tabs : rf'[u] = rf[u] \/ (rf[u].phase = "sent" /\ rf'[u].phase = "refused")
      BY <2>1, <2>3 DEF RefreshSet
    <3>2. Renewing' \subseteq Renewing /\ \A u \in Tabs : Current(u)' = Current(u)
      BY <2>1, <3>1 DEF Renewing, Current
    <3> QED
      BY <1>k, <1>s, <2>1, <2>3, <3>2
  <2>4. s = None => \/ s # None /\ CanIssue
                    \/ SameClubs /\ rf' = [rf EXCEPT ![t].phase = "refused"]
    BY <1>5, <1>r DEF ServeRefresh
  <2>5. rows' = CutFamily(s) => SameClubs
    BY RevokedRows, CutKeeps, ServerTyped DEF CutFamily
  <2> QED
    BY <1>5, <1>r, <2>2, <2>3, <2>4, <2>5 DEF ServeRefresh
<1>6. ASSUME NEW t \in Tabs, ServeRefreshWhileRevoking(t) PROVE Club'
  <2>1. \A q \in Calls : req'[q] = req[q] \/ (ServedOne(q) /\ req[q].kind = "password")
    BY <1>6, ServedPassword DEF ServedOne
  <2> QED
    BY <1>6, <1>v, <2>1 DEF ServeRefreshWhileRevoking
<1>7. ASSUME NEW t \in Tabs, Renewed(t) PROVE Club'
  <2> DEFINE s == rf[t].tok
  <2>1. /\ rf[t].phase = "answered" /\ s # None /\ UNCHANGED <<rows, page, shown>>
        /\ jar' = [sid |-> s, club |-> rows[s].club, refresh |-> s, hint |-> TRUE]
        /\ \A u \in Tabs : rf'[u].phase = "idle"
    BY <1>7, <1>n DEF Renewed, OneTab, server, Named
  <2>2. t \in Renewing /\ page[t] # "login" /\ jar.hint
    BY <1>y, <2>1 DEF Renewing, Shape
  <2>3. \A q \in Calls : ~(req[q].kind = "switch" /\ req[q].phase # "waiting") /\ ~Answered(q, "switch")
    BY <1>m, <2>2 DEF Club, SwitchAlone, Answered
  <2>4. rows[s].club = jar.club
    BY <1>m, <2>1, <2>2, <2>3 DEF Club, RowClub, Current
  <2>5. jar'.club = jar.club /\ jar'.sid = s /\ jar'.refresh = s
    BY <2>1, <2>4
  <2>6. SwitchAlone'
    <3>1. Renewing' = {}
      BY <2>1 DEF Renewing
    <3> QED
      BY <1>7, <2>3, <2>5, <3>1, RenewedRequests DEF SwitchAlone
  <2>7. \A q \in Calls : /\ ~Answered(q, "login")' /\ ~Answered(q, "switch")'
                         /\ req'[q].kind = "session" => req'[q].club = jar.club
    <3> SUFFICES ASSUME NEW q \in Calls
                 PROVE  /\ ~Answered(q, "login")' /\ ~Answered(q, "switch")'
                        /\ req'[q].kind = "session" => req'[q].club = jar.club
      OBVIOUS
    <3>1. ~Answered(q, "login") /\ ~Answered(q, "switch") /\ (req[q].kind = "session" => req[q].club = jar.club)
      BY <1>k, <1>n, <2>2, <2>3 DEF Answered, Shape, OneTab, Named
    <3> QED
      BY <1>7, <2>4, <3>1, RenewedRequests DEF Answered
  <2>8. RowClub'
    <3>1. \A u \in Tabs : Current(u)' = s
      BY <2>1, <2>5 DEF Current
    <3> QED
      BY <2>1, <2>4, <2>5, <2>7, <3>1 DEF RowClub
  <2>9. ShownClub'
    BY <1>m, <2>1, <2>5 DEF Club, ShownClub
  <2> QED
    BY <2>5, <2>6, <2>7, <2>8, <2>9 DEF Club, RequestClubs
<1>8. ASSUME NEW t \in Tabs, Refused(t) PROVE Club'
  <2>1. ~jar'.hint /\ jar'.refresh = jar.refresh /\ jar'.sid = jar.sid
    BY <1>8 DEF Refused, onSessionExpired, JarSet
  <2> QED
    BY <1>8, <1>g, <1>m, <1>o, <2>1 DEF Refused, server, Answered
<1>9. ASSUME NEW t \in Tabs, LimitRefresh(t) PROVE Club'
  <2>1. rf[t].phase = "sent" /\ rf' = [rf EXCEPT ![t].phase = "refused"] /\ UNCHANGED <<jar, rows, page, shown, req>>
    BY <1>9 DEF LimitRefresh, server
  <2>2. \A u \in Tabs : rf'[u] = rf[u] \/ (rf[u].phase = "sent" /\ rf'[u].phase = "refused")
    BY <2>1 DEF RefreshSet
  <2>3. Renewing' \subseteq Renewing /\ \A u \in Tabs : Current(u)' = Current(u)
    BY <2>1, <2>2 DEF Renewing, Current
  <2> QED
    BY <1>k, <1>r, <1>s, <2>1, <2>3
<1>10. ASSUME NEW t \in Tabs, FailRefresh(t) PROVE Club'
  <2>1. UNCHANGED <<rows, jar>>
    BY <1>10 DEF FailRefresh, server
  <2>2. CASE Goto(t, "login") /\ Drop(Of(t), {t})
    BY <1>g, <1>o, <2>1, <2>2 DEF Answered
  <2>3. CASE /\ rf' = [rf EXCEPT ![t] = NoRefresh] /\ req' = Without(Waiting(t)) /\ Drop(Waiting(t), {t})
             /\ UNCHANGED <<page, shown>>
    <3>1. \A u \in Tabs : rf[u].phase # "answered" /\ rf'[u] = NoRefresh
      BY <2>3, NothingDropped DEF OneTab, Renewing
    <3>2. Renewing' \subseteq Renewing /\ \A u \in Tabs : Current(u)' = Current(u)
      BY <1>n, <2>1, <3>1 DEF Renewing, Current
    <3> QED
      BY <1>w, <2>1, <2>3, <3>2 DEF Waiting, Answered
  <2> QED
    BY <1>10, <2>2, <2>3 DEF FailRefresh
<1>11. ASSUME NEW q \in Calls, Serve(q) PROVE Club'
  <2> DEFINE r == req[q]
  <2>1. ServedOne(q) /\ UNCHANGED <<jar, page, shown, rf>> /\ Pending(q)
        /\ req'[q].sid = IF r.kind = "login" THEN Len(rows) + 1 ELSE r.sid
    BY <1>11, ServedRequest DEF Serve
  <2>2. /\ \A p \in Calls : p # q => req'[p] = req[p]
        /\ req'[q].kind = r.kind /\ req'[q].club = r.club /\ req'[q].phase = "answered" /\ r # NoReq
        /\ r.phase \in {"sent", "resent"}
    BY <2>1 DEF ServedOne, Pending
  <2>3. SwitchAlone'
    BY <1>m, <2>1, <2>2 DEF Club, SwitchAlone, Renewing
  <2>4. ShownClub' /\ jar'.sid = jar'.refresh
    BY <1>m, <2>1 DEF Club, ShownClub
  <2>5. \A p \in Calls : req'[p].kind = "session" => req'[p].club = jar.club
    BY <1>k, <2>2
  <2>6. \A u \in Tabs : Current(u)' = Current(u) /\ Current(u) \in Known
    BY <2>1 DEF Current, JarSet, RefreshSet
  <2>7. CASE r.kind = "login"
    <3>1. PICK n : n = Len(rows) + 1
      OBVIOUS
    <3>2. SameClubs /\ rows'[n].club = r.club /\ req'[q].sid = n
      <4>1. PICK u \in Users, c \in Clubs \cup {None} : c = r.club /\ rows' = StartSession(u, c) /\ CanIssue
        BY <1>11, <2>7 DEF Serve, RequestSet
      <4> QED
        BY <2>1, <2>7, <3>1, <4>1, StartRows
    <3>3. \A p \in Calls : p # q => req[p] = NoReq
      BY <2>2, <2>7 DEF Shape
    <3>4. \A p \in Calls : ~Answered(p, "switch") /\ ~Answered(p, "switch")' /\ (Answered(p, "login")' => p = q)
      BY <1>n, <2>2, <2>7, <3>3 DEF Answered
    <3>5. RequestClubs'
      BY <2>2, <2>5, <3>2, <3>4, <2>1 DEF RequestClubs
    <3>6. RowClub'
      <4> SUFFICES ASSUME jar.hint, NEW t \in Tabs PROVE rows'[Current(t)].club = jar.club
        BY <2>1, <2>6, <3>4 DEF RowClub
      <4>1. rows[Current(t)].club = jar.club /\ Current(t) \in DOMAIN rows
        BY <1>m, <3>4, CurrentRow DEF Club, RowClub
      <4> QED
        BY <3>2, <4>1 DEF SameClubs
    <3> QED
      BY <2>3, <2>4, <3>5, <3>6 DEF Club
  <2>8. CASE r.kind = "switch"
    <3>1. r.sid = jar.sid /\ Renewing = {} /\ jar.sid = jar.refresh
      BY <1>m, <2>2, <2>8 DEF Club, SwitchAlone
    <3>2. rows' = SwitchedRows(r.sid, r.club) /\ r.sid \in DOMAIN rows /\ r.club \in Clubs \cup {None}
      BY <1>11, <2>8, NamedRows DEF Serve, Does, AccessOk, RequestSet
    <3>3. rows'[r.sid].club = r.club
      BY <3>2, SwitchedTyped, ServerTyped
    <3>4. \A u \in Tabs : Current(u)' = r.sid
      BY <2>6, <3>1 DEF Current, Renewing
    <3>5. \A p \in Calls : p # q => req[p].kind # "switch"
      BY <2>8 DEF Shape
    <3>6. \A p \in Calls : (Answered(p, "switch")' <=> p = q) /\ ~Answered(p, "login")'
      BY <1>n, <2>2, <2>8, <3>5 DEF Answered, Shape, OneTab, Named
    <3>7. RowClub'
      BY <2>1, <2>2, <3>3, <3>4, <3>6 DEF RowClub
    <3>8. RequestClubs'
      BY <2>1, <2>5, <3>6 DEF RequestClubs
    <3> QED
      BY <2>3, <2>4, <3>7, <3>8 DEF Club
  <2>9. CASE r.kind \notin {"login", "switch"}
    <3>1. SameClubs
      <4>1. PICK s \in DOMAIN rows, c \in Clubs \cup {None}, k \in Kinds : s = r.sid /\ c = r.club /\ k = r.kind
        BY <1>11, <2>9, NamedRows DEF Serve, AccessOk, RequestSet
      <4>2. Does(k, s, c)
        BY <1>11, <2>9, <4>1 DEF Serve
      <4> QED
        BY <2>9, <4>1, <4>2, DoesRows
    <3>2. \A p \in Calls :
             /\ Answered(p, "login") \/ Answered(p, "switch") => req'[p] = req[p]
             /\ Answered(p, "login")' \/ Answered(p, "switch")' => req'[p] = req[p]
      BY <2>2, <2>9 DEF Answered
    <3> QED
      BY <1>m, <2>1, <2>3, <2>5, <2>6, <3>1, <3>2, SameClub
  <2> QED
    BY <2>7, <2>8, <2>9
<1>12. ASSUME NEW q \in Calls, Reject(q) PROVE Club'
  <2>1. UNCHANGED <<rows, jar, page, shown, rf>> /\ req' = Without({q}) /\ req[q].phase # "answered"
    BY <1>12 DEF Reject, Pending, server
  <2>2. Renewing' = Renewing /\ \A t \in Tabs : Current(t)' = Current(t)
    BY <2>1 DEF Renewing, Current
  <2> QED
    BY <1>w, <2>1, <2>2 DEF Answered
<1>13. ASSUME NEW q \in Calls, Deliver(q) PROVE Club'
  <2> DEFINE r == req[q]
  <2>r. r # NoReq /\ r.tab \in Tabs /\ r.phase = "answered" /\ UNCHANGED rows
    BY <1>13, <1>n, <1>t DEF Deliver, server
  <2>1. CASE r.kind = "login"
    <3>1. /\ jar' = [sid |-> r.sid, club |-> r.club, refresh |-> r.sid, hint |-> TRUE] /\ rf' = rf
          /\ req' = Without({q}) /\ shown' = [shown EXCEPT ![r.tab] = r.club]
      BY <1>13, <2>1 DEF Deliver
    <3>2. \A p \in Calls : req'[p] = NoReq
      BY <2>r, <2>1, <3>1 DEF Without, Shape
    <3>3. rows[r.sid].club = r.club
      BY <1>m, <2>r, <2>1 DEF Club, RequestClubs, Answered
    <3>4. \A t \in Tabs : rf[t].phase = "idle" /\ shown'[t] = r.club
      BY <1>y, <2>r, <2>1, <3>1 DEF Shape, OneTab
    <3>5. jar'.sid = r.sid /\ jar'.refresh = r.sid /\ jar'.club = r.club
      BY <3>1
    <3>6. \A p \in Calls : req'[p].kind = "call" /\ req'[p].phase = "idle"
      BY <1>n, <3>2
    <3>7. RowClub'
      <4>1. \A t \in Tabs : Current(t)' = r.sid
        BY <3>1, <3>4, <3>5 DEF Current
      <4> QED
        BY <2>r, <3>3, <3>5, <3>6, <4>1 DEF RowClub, Answered
    <3>8. SwitchAlone' /\ RequestClubs'
      BY <3>6 DEF SwitchAlone, RequestClubs, Answered
    <3>9. ShownClub'
      BY <3>4, <3>5 DEF ShownClub
    <3> QED
      BY <3>5, <3>7, <3>8, <3>9 DEF Club
  <2>2. CASE r.kind \in {"session", "call"}
    <3>1. UNCHANGED <<jar, page, rf>> /\ req' = Without({q})
      BY <1>13, <2>2 DEF Deliver
    <3>2. \A p \in Calls : req'[p] = IF p = q THEN NoReq ELSE req[p]
      BY <3>1 DEF Without
    <3>3. Renewing' = Renewing /\ \A t \in Tabs : Current(t)' = Current(t)
      BY <3>1 DEF Renewing, Current
    <3>4. ASSUME NEW p \in Calls, req'[p].kind # "call" PROVE req'[p] = req[p]
      BY <1>n, <3>2, <3>4
    <3>5. SwitchAlone' /\ RequestClubs'
      <4>1. SwitchAlone'
        <5> SUFFICES ASSUME NEW p \in Calls, req'[p].kind = "switch", req'[p].phase # "waiting"
                     PROVE  req'[p].sid = jar'.sid /\ Renewing' = {}
          BY DEF SwitchAlone
        <5>1. req'[p] = req[p]
          BY <3>4
        <5>2. req[p].sid = jar.sid /\ Renewing = {}
          BY <1>m, <5>1 DEF Club, SwitchAlone
        <5> QED
          BY <3>1, <3>3, <5>1, <5>2
      <4>2. RequestClubs'
        BY <1>m, <2>r, <3>1, <3>4 DEF Club, RequestClubs, Answered
      <4> QED
        BY <4>1, <4>2
    <3>6. ShownClub'
      <4>1. \A t \in Tabs : shown'[t] = shown[t] \/ (r.kind = "session" /\ shown'[t] = r.club)
        BY <1>13, <2>2 DEF Deliver
      <4> QED
        BY <1>k, <1>m, <3>1, <4>1 DEF Club, ShownClub
    <3>7. RowClub'
      <4>1. \A p \in Calls : Answered(p, "switch")' <=> Answered(p, "switch")
        BY <1>n, <2>2, <3>2 DEF Answered
      <4>2. \A p \in Calls : Answered(p, "switch") => req'[p] = req[p]
        BY <2>2, <3>2 DEF Answered
      <4>3. RowClub
        BY <1>m DEF Club
      <4>4. ASSUME jar'.hint, NEW t \in Tabs, NEW p \in Calls, Answered(p, "switch")'
            PROVE  rows'[Current(t)'].club = req'[p].club
        <5>1. rows[Current(t)].club = req[p].club
          BY <3>1, <4>1, <4>3, <4>4 DEF RowClub
        <5> QED
          BY <2>r, <3>3, <4>1, <4>2, <4>4, <5>1
      <4>5. ASSUME jar'.hint, NEW t \in Tabs, \A p \in Calls : ~Answered(p, "switch")'
            PROVE  rows'[Current(t)'].club = jar'.club
        <5>1. rows[Current(t)].club = jar.club
          BY <3>1, <4>1, <4>3, <4>5 DEF RowClub
        <5> QED
          BY <2>r, <3>1, <3>3, <5>1
      <4> QED
        BY <4>4, <4>5 DEF RowClub
    <3> QED
      BY <1>m, <3>1, <3>5, <3>6, <3>7 DEF Club
  <2>3. CASE r.kind = "switch"
    <3>1. /\ jar' = [jar EXCEPT !.sid = r.sid, !.club = r.club] /\ UNCHANGED <<page, rf>>
          /\ shown' = [shown EXCEPT ![r.tab] = r.club]
          /\ req' = Without({q} \cup {p \in Of(r.tab) : req[p].kind = "session"})
      BY <1>13, <2>3 DEF Deliver
    <3>2. r.sid = jar.sid /\ jar.sid = jar.refresh
      BY <1>m, <2>r, <2>3 DEF Club, SwitchAlone
    <3>3. jar'.sid = jar.sid /\ jar'.refresh = jar.refresh /\ jar'.club = r.club /\ jar'.hint = jar.hint
      BY <3>1, <3>2 DEF JarSet
    <3>4. \A p \in Calls : req[p].kind \in {"session", "switch", "login"} => req'[p] = NoReq
      <4>1. \A p \in Calls : req[p].kind = "switch" => p = q
        BY <2>3 DEF Shape
      <4>2. \A p \in Calls : req[p].kind = "session" => p \in Of(r.tab)
        BY <1>n, <2>r, AllOfTab
      <4>3. \A p \in Calls : req[p].kind # "login"
        BY <1>n, <2>r, <2>3 DEF OneTab, Shape, Named
      <4> QED
        BY <3>1, <4>1, <4>2, <4>3 DEF Without
    <3>5. \A p \in Calls : req'[p].kind \notin {"session", "switch", "login"}
      <4>1. \A p \in Calls : req'[p] = req[p] \/ req'[p] = NoReq
        BY <3>1 DEF Without
      <4> QED
        BY <1>n, <3>4, <4>1
    <3>6. SwitchAlone' /\ RequestClubs' /\ ShownClub'
      <4>1. \A t \in Tabs : shown'[t] = r.club
        BY <2>r, <3>1 DEF OneTab
      <4> QED
        BY <3>3, <3>5, <4>1 DEF SwitchAlone, RequestClubs, ShownClub, Answered
    <3>7. RowClub'
      <4> SUFFICES ASSUME jar.hint, NEW t \in Tabs PROVE rows'[Current(t)'].club = r.club
        BY <3>3, <3>5 DEF RowClub, Answered
      <4>1. rows[Current(t)].club = r.club
        BY <1>m, <2>r, <2>3 DEF Club, RowClub, Answered
      <4>2. Current(t)' = Current(t)
        BY <3>1, <3>3 DEF Current
      <4> QED
        BY <2>r, <4>1, <4>2
    <3> QED
      BY <3>2, <3>3, <3>6, <3>7 DEF Club
  <2>4. CASE r.kind \in {"logout", "password"}
    <3>1. (jar' = NoJar \/ jar' = jar) /\ Goto(r.tab, "login") /\ Drop(Of(r.tab) \ {q}, {r.tab})
      BY <1>13, <2>4 DEF Deliver
    <3>2. \A p \in Calls : Answered(p, "switch") => p \in Of(r.tab) \ {q}
      BY <1>o, <2>r, <2>4 DEF Answered
    <3> QED
      BY <1>g, <1>n, <2>r, <3>1, <3>2
  <2> QED
    BY <2>1, <2>2, <2>3, <2>4 DEF RequestSet, Kinds
<1>14. ASSUME NEW q \in Calls, Fail(q) PROVE Club'
  <2>1. UNCHANGED <<rows, jar>> /\ req[q].tab \in Tabs
    BY <1>14, <1>t DEF Fail, server, Pending
  <2>2. CASE Goto(req[q].tab, "login") /\ Drop(Of(req[q].tab), {req[q].tab})
    BY <1>g, <1>o, <2>1, <2>2 DEF Answered
  <2>3. CASE req' = Without({q}) /\ UNCHANGED <<page, shown, rf>> /\ Drop({q}, {})
    <3>1. ~Answered(q, "login") /\ ~Answered(q, "switch")
      BY <2>3, NothingDropped DEF Unheard, Answered
    <3>2. Renewing' = Renewing /\ \A t \in Tabs : Current(t)' = Current(t)
      BY <2>1, <2>3 DEF Renewing, Current
    <3> QED
      BY <1>w, <2>1, <2>3, <3>1, <3>2
  <2> QED
    BY <1>14, <2>2, <2>3 DEF Fail
<1>15. ASSUME NEW q \in Calls, Unauthorized(q) PROVE Club'
  <2>1. /\ req[q].tab \in Tabs /\ UNCHANGED <<jar, rows>> /\ req[q].kind # "login" /\ Pending(q)
        /\ req[q].phase # "answered"
    BY <1>15, <1>t DEF Unauthorized, Pending, server
  <2>2. CASE /\ req' = [req EXCEPT ![q].phase = "waiting", ![q].sid = None] /\ UNCHANGED <<page, shown>>
             /\ rf' = IF StartsRefresh(q) THEN [rf EXCEPT ![req[q].tab] = [phase |-> "sent", tok |-> jar.refresh]] ELSE rf
             /\ why' = IF StartsRefresh(q) /\ Switching \ {q} # {} THEN Mark({"crossed"}) ELSE why
    <3>1. \A t \in Tabs : \/ rf'[t] = rf[t]
                          \/ rf[t].phase # "answered" /\ rf'[t].phase # "answered" /\ Switching \ {q} = {}
      <4>1. StartsRefresh(q) => Switching \ {q} = {}
        BY <1>m, <2>2 DEF Mark
      <4> QED
        BY <1>n, <2>2, <4>1 DEF StartsRefresh
    <3>2. /\ \A p \in Calls : p # q => req'[p] = req[p]
          /\ req'[q].phase = "waiting" /\ req'[q].kind = req[q].kind /\ req'[q].club = req[q].club
      BY <2>2 DEF RequestSet
    <3>3. \A p \in Calls :
             /\ Answered(p, "login") \/ Answered(p, "switch") => req'[p] = req[p]
             /\ Answered(p, "login")' \/ Answered(p, "switch")' => req'[p] = req[p]
             /\ req'[p].kind = "session" => req'[p].club = jar.club
      BY <1>k, <2>1, <3>2 DEF Answered
    <3>4. \A t \in Tabs : Current(t)' = Current(t)
      BY <2>1, <3>1 DEF Current
    <3>5. SwitchAlone'
      <4> SUFFICES ASSUME NEW p \in Calls, req'[p].kind = "switch", req'[p].phase # "waiting"
                   PROVE  req'[p].sid = jar'.sid /\ Renewing' = {}
        BY DEF SwitchAlone
      <4>1. p # q /\ req'[p] = req[p] /\ p \in Switching \ {q}
        BY <3>2 DEF Switching
      <4>2. req[p].sid = jar.sid /\ Renewing = {}
        BY <1>m, <4>1 DEF Club, SwitchAlone
      <4>3. \A t \in Tabs : rf'[t] = rf[t]
        BY <3>1, <4>1
      <4> QED
        BY <2>1, <4>1, <4>2, <4>3 DEF Renewing
    <3> QED
      BY <1>m, <1>r, <2>1, <2>2, <3>3, <3>4, <3>5, SameClub
  <2>3. CASE Goto(req[q].tab, "login") /\ Drop(Of(req[q].tab) \ {q}, {req[q].tab})
    <3>1. \A p \in Calls : Answered(p, "switch") => p \in Of(req[q].tab) \ {q}
      BY <1>o, <2>1 DEF Answered
    <3> QED
      BY <1>g, <2>1, <2>3, <3>1
  <2>4. CASE req' = Without({q}) /\ UNCHANGED <<page, shown, rf>>
    <3>1. Renewing' = Renewing /\ \A t \in Tabs : Current(t)' = Current(t)
      BY <2>1, <2>4 DEF Renewing, Current
    <3> QED
      BY <1>w, <2>1, <2>4, <3>1 DEF Answered
  <2> QED
    BY <1>15, <2>2, <2>3, <2>4 DEF Unauthorized
<1>16. ASSUME NEW r \in late, ServeLate(r) PROVE Club'
  BY <1>16, <1>m
<1> QED
  BY <1>1, <1>2, <1>3, <1>4, <1>5, <1>6, <1>7, <1>8, <1>9, <1>10, <1>11, <1>12, <1>13, <1>14, <1>15, <1>16 DEF Next

-----------------------------------------------------------------------------
(* What a tab alone can rely on                                                *)

TabInv == TypeInv /\ Shape /\ Heard /\ TokensInv /\ LiveInv /\ ClubInv /\ ReuseOnlyAfterCut

LEMMA InitTab == Init => TabInv
<1> SUFFICES ASSUME Init PROVE TabInv
  OBVIOUS
<1>1. \A q \in Calls : req[q] = NoReq /\ req[q].phase = "idle" /\ req[q].kind = "call" /\ req[q].sid = None
  BY DEF Init, NoReq
<1>2. \A t \in Tabs : rf[t] = NoRefresh /\ rf[t].phase = "idle" /\ page[t] = "login" /\ shown[t] = None
  BY DEF Init, NoRefresh
<1>3. jar.sid = None /\ jar.refresh = None /\ ~jar.hint /\ late = {} /\ why = {}
  BY DEF Init, NoJar
<1>4. Shape /\ Heard
  BY <1>1, <1>2, <1>3 DEF Shape, Heard, Answered
<1>5. Fresh /\ Kinship
  BY <1>1, <1>2, <1>3 DEF Fresh, Kinship, Answered
<1>6. Live
  BY <1>1, <1>3 DEF Live, LoginLives, Answered
<1>7. Club
  BY <1>1, <1>2, <1>3 DEF Club, SwitchAlone, RequestClubs, RowClub, ShownClub, Answered
<1> QED
  BY <1>3, <1>4, <1>5, <1>6, <1>7, InitPanelTypes DEF TabInv, TokensInv, LiveInv, ClubInv, ReuseOnlyAfterCut

LEMMA ReuseStep ==
    ASSUME TypeInv, Heard, TokensInv, ReuseOnlyAfterCut, [Next]_vars PROVE ReuseOnlyAfterCut'
<1> SUFFICES ASSUME "cut" \notin why' PROVE "reuse" \notin why'
  BY DEF ReuseOnlyAfterCut
<1>m. "cut" \notin why /\ "reuse" \notin why /\ late = {} /\ Fresh
  BY HistoryGrows DEF Heard, TokensInv, ReuseOnlyAfterCut
<1>k. ASSUME NEW m, why' = Mark(m), "reuse" \notin m PROVE "reuse" \notin why'
  BY <1>k, <1>m DEF Mark
<1>d. ASSUME NEW Q, NEW T, Drop(Q, T) PROVE "reuse" \notin why'
  BY <1>d, <1>m DEF Drop
<1>u. why' = why => "reuse" \notin why'
  BY <1>m
<1>1. ASSUME NEW t \in Tabs, ServeRefresh(t) PROVE "reuse" \notin why'
  <2>1. rf[t].phase = "sent" /\ (rf[t].tok # None => ~rows[rf[t].tok].rotated)
    BY <1>1, <1>m DEF ServeRefresh, Fresh
  <2> QED
    BY <1>1, <1>u, <2>1 DEF ServeRefresh
<1>2. ASSUME NEW t \in Tabs, \/ Load(t) \/ ServeRefreshWhileRevoking(t) \/ Renewed(t) \/ Refused(t)
                             \/ LimitRefresh(t) \/ FailRefresh(t)
      PROVE  "reuse" \notin why'
  BY <1>2, <1>k, <1>d, <1>u
     DEF Load, ServeRefreshWhileRevoking, Renewed, Refused, LimitRefresh, FailRefresh
<1>3. ASSUME NEW q \in Calls, Serve(q) \/ Reject(q) \/ Fail(q) \/ Unauthorized(q)
      PROVE  "reuse" \notin why'
  BY <1>3, <1>k, <1>d, <1>u DEF Serve, Reject, Fail, Unauthorized, Closing
<1>4. ASSUME NEW q \in Calls, Deliver(q) PROVE "reuse" \notin why'
  BY <1>4, <1>d, <1>u DEF Deliver
<1>5. CASE Elsewhere
  BY <1>5, <1>k, <1>u DEF Elsewhere
<1>6. ASSUME NEW q \in Calls, NEW t \in Tabs, NEW kind, NEW c, Send(q, t, kind, c) PROVE "reuse" \notin why'
  BY <1>6, <1>k, <1>u DEF Send
<1> QED
  BY <1>m, <1>u, <1>1, <1>2, <1>3, <1>4, <1>5, <1>6 DEF Next, vars

\* What one tab, its requests and its renewal maintain together.
THEOREM TabInvCorrect == OneTab => (Spec => []TabInv)
<1> SUFFICES ASSUME OneTab PROVE Spec => []TabInv
  OBVIOUS
<1>1. TabInv /\ [Next]_vars => TabInv'
  BY PanelTypeStep, ShapeStep, HeardStep, TokensStep, LiveStep, ClubStep, ReuseStep DEF TabInv
<1> QED
  BY InitTab, <1>1, PTL DEF Spec

(* However its requests, its renewals and changes of password interleave, a    *)
(* tab alone presents no refresh cookie twice, unless the answer to a request  *)
(* that changes the session was lost.                                          *)
THEOREM NoReuseWithoutCut == OneTab => (Spec => []ReuseOnlyAfterCut)
BY TabInvCorrect, PTL DEF TabInv

(* At rest the hint that lets a tab alone into the panel is backed by a        *)
(* session that can still be renewed, or by one that the browser closed with a *)
(* change of password, of which the tab shows nothing; unless an answer was    *)
(* lost or another device changed the password.                                *)
THEOREM HintStaysTrue == OneTab => (Spec => []HintIsTrue)
<1> SUFFICES ASSUME OneTab PROVE Spec => []HintIsTrue
  OBVIOUS
<1>1. TabInv => HintIsTrue
  <2> SUFFICES ASSUME TabInv, Quiet, why \cap {"cut", "elsewhere"} = {}, jar.hint
               PROVE  /\ jar.refresh # None
                      /\ ~Renewable(jar.refresh) => "closed" \in why /\ \A t \in Tabs : shown[t] = None
    BY DEF HintIsTrue
  <2>1. ~Leaving
    BY DEF Quiet, NoReq, Answered, Leaving
  <2>2. PICK t \in Tabs : Current(t) = jar.refresh
    BY DEF Quiet, NoRefresh, OneTab, Current
  <2>3. Backed \/ Gone
    BY <2>1 DEF TabInv, LiveInv, Live
  <2>4. Backed => Renewable(jar.refresh)
    BY <2>2 DEF Backed
  <2> QED
    BY <2>3, <2>4 DEF TabInv, Shape, Gone
<1> QED
  BY <1>1, TabInvCorrect, PTL

(* At rest a tab alone shows the club of its cookies and of the row that the   *)
(* next renewal rotates, unless the answer to a request that changes the       *)
(* session was lost or a renewal overlapped a switch of club.                  *)
THEOREM ClubStaysShown == OneTab => (Spec => []ShowsItsClub)
<1>1. TabInv => ShowsItsClub
  <2> SUFFICES ASSUME TabInv, Quiet, why \cap {"cut", "crossed"} = {}, NEW t \in Tabs, page[t] = "panel", shown[t] # None
               PROVE  jar.club = shown[t] /\ rows[jar.refresh].club = shown[t]
    BY DEF ShowsItsClub
  <2>1. jar.hint /\ Club /\ jar.club = shown[t]
    BY DEF TabInv, Shape, ClubInv, Club, ShownClub
  <2>2. Current(t) = jar.refresh /\ \A q \in Calls : ~Answered(q, "switch")
    BY DEF Quiet, NoReq, NoRefresh, Current, Answered
  <2> QED
    BY <2>1, <2>2 DEF Club, RowClub
<1> QED
  BY <1>1, TabInvCorrect, PTL
=============================================================================
