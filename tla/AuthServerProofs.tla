-------------------------- MODULE AuthServerProofs --------------------------
(* What each operation of AuthServer does to the table of sessions: the rows   *)
(* it keeps, those it changes and how, for the proofs of both clients.         *)
EXTENDS AuthServer, TLAPS

TypedRows(r) ==
    r \in Seq(AuthRow) /\ Len(r) =< MaxRows /\ \A s \in DOMAIN r : r[s].family \in 1..s

\* The row s of r, but for what the marks say.
SameRow(r, s) ==
    /\ r[s].user = rows[s].user /\ r[s].family = rows[s].family /\ r[s].ver = rows[s].ver
    /\ r[s].expired = rows[s].expired

LEMMA ServerTyped == ServerTypeOK <=> TypedRows(rows) /\ version \in [Users -> 0..MaxVersion]
BY DEF ServerTypeOK, TypedRows

LEMMA RowTyped ==
    ASSUME TypedRows(rows), NEW s \in DOMAIN rows
    PROVE  rows[s] \in AuthRow /\ rows[s].family \in 1..s /\ s \in 1..MaxRows
<1>1. DOMAIN rows = 1..Len(rows) /\ Len(rows) \in Nat
  BY DEF TypedRows
<1> QED
  BY <1>1, AuthAssumption DEF TypedRows

\* A table of the same length, row by row of the right type.
LEMMA RowByRow ==
    ASSUME TypedRows(rows), NEW r, r = [i \in DOMAIN rows |-> r[i]],
           \A i \in DOMAIN rows : r[i] \in AuthRow /\ r[i].family = rows[i].family
    PROVE  TypedRows(r) /\ Len(r) = Len(rows) /\ DOMAIN r = DOMAIN rows
<1>1. DOMAIN rows = 1..Len(rows) /\ Len(rows) \in Nat
  BY DEF TypedRows
<1>2. r \in Seq(AuthRow) /\ Len(r) = Len(rows)
  BY <1>1
<1> QED
  BY <1>1, <1>2 DEF TypedRows

\* A table where the rows S are revoked.
Cut(r, S) ==
    /\ TypedRows(r) /\ Len(r) = Len(rows) /\ DOMAIN r = DOMAIN rows
    /\ \A i \in DOMAIN rows :
          /\ SameRow(r, i) /\ r[i].club = rows[i].club /\ r[i].rotated = rows[i].rotated
          /\ r[i].revoked = (rows[i].revoked \/ i \in S)

LEMMA RevokedRows ==
    ASSUME TypedRows(rows), NEW S
    PROVE  Cut(Revoked(S), S)
<1>1. ASSUME NEW i \in DOMAIN rows
      PROVE  /\ Revoked(S)[i] \in AuthRow /\ Revoked(S)[i].family = rows[i].family
             /\ SameRow(Revoked(S), i) /\ Revoked(S)[i].club = rows[i].club
             /\ Revoked(S)[i].rotated = rows[i].rotated
             /\ Revoked(S)[i].revoked = (rows[i].revoked \/ i \in S)
  <2>1. rows[i] \in AuthRow /\ Revoked(S)[i] = [rows[i] EXCEPT !.revoked = @ \/ i \in S]
    BY RowTyped DEF Revoked
  <2> QED
    BY <2>1 DEF AuthRow, SameRow
<1>2. Revoked(S) = [i \in DOMAIN rows |-> Revoked(S)[i]]
  BY DEF Revoked
<1>3. TypedRows(Revoked(S)) /\ Len(Revoked(S)) = Len(rows) /\ DOMAIN Revoked(S) = DOMAIN rows
  BY <1>1, <1>2, RowByRow
<1> QED
  BY <1>1, <1>3 DEF Cut

\* A row appended to a table.
LEMMA AppendedRow ==
    ASSUME NEW r, TypedRows(r), Len(r) < MaxRows, NEW e \in AuthRow, e.family \in 1..(Len(r) + 1)
    PROVE  /\ TypedRows(Append(r, e)) /\ Len(Append(r, e)) = Len(r) + 1
           /\ DOMAIN Append(r, e) = DOMAIN r \cup {Len(r) + 1} /\ Len(r) + 1 \notin DOMAIN r
           /\ Len(r) + 1 \in 1..MaxRows
           /\ Append(r, e)[Len(r) + 1] = e
           /\ \A i \in DOMAIN r : Append(r, e)[i] = r[i]
<1> DEFINE a == Append(r, e)
<1>1. r \in Seq(AuthRow) /\ Len(r) \in Nat /\ DOMAIN r = 1..Len(r)
  BY DEF TypedRows
<1>2. a \in Seq(AuthRow) /\ Len(a) = Len(r) + 1 /\ DOMAIN a = 1..(Len(r) + 1)
  BY <1>1
<1>3. a[Len(r) + 1] = e /\ \A i \in DOMAIN r : a[i] = r[i]
  BY <1>1
<1>4. \A s \in DOMAIN a : a[s].family \in 1..s
  BY <1>1, <1>2, <1>3 DEF TypedRows
<1>5. Len(a) =< MaxRows /\ Len(r) + 1 \in 1..MaxRows
  BY <1>1, <1>2, AuthAssumption
<1> QED
  BY <1>1, <1>2, <1>3, <1>4, <1>5 DEF TypedRows

\* A table with a new row n.
Grows(r, n) ==
    /\ TypedRows(r) /\ DOMAIN r = DOMAIN rows \cup {n} /\ n \notin DOMAIN rows /\ n \in 1..MaxRows
    /\ ~r[n].rotated /\ ~r[n].revoked

Started(r, n, c) == Grows(r, n) /\ r[n].club = c /\ \A i \in DOMAIN rows : r[i] = rows[i]

LEMMA StartedRows ==
    ASSUME ServerTypeOK, CanIssue, NEW u \in Users, NEW c \in Clubs \cup {None}
    PROVE  Started(StartSession(u, c), Len(rows) + 1, c)
<1>1. TypedRows(rows) /\ Len(rows) < MaxRows /\ Len(rows) \in Nat
  BY ServerTyped DEF CanIssue, TypedRows
<1>2. Len(rows) + 1 \in 1..MaxRows
  BY <1>1, AuthAssumption
<1>3. NewRow(u, Len(rows) + 1, c) \in AuthRow /\ NewRow(u, Len(rows) + 1, c).family \in 1..(Len(rows) + 1)
  BY <1>1, <1>2 DEF NewRow, AuthRow, ServerTypeOK
<1> DEFINE e == NewRow(u, Len(rows) + 1, c)
<1>4. ~e.rotated /\ ~e.revoked /\ e.club = c
  BY DEF NewRow
<1>5. StartSession(u, c) = Append(rows, e)
  BY DEF StartSession
<1> HIDE DEF e
<1>6. /\ TypedRows(Append(rows, e)) /\ DOMAIN Append(rows, e) = DOMAIN rows \cup {Len(rows) + 1}
      /\ Len(rows) + 1 \notin DOMAIN rows /\ Append(rows, e)[Len(rows) + 1] = e
      /\ \A i \in DOMAIN rows : Append(rows, e)[i] = rows[i]
  BY <1>1, <1>3, AppendedRow DEF e
<1> QED
  BY <1>2, <1>4, <1>5, <1>6 DEF Started, Grows

Rotated(r, n, s, c, S) ==
    /\ Grows(r, n) /\ r[n].club = c /\ r[n].family = rows[s].family /\ r[n].user = rows[s].user
    /\ \A i \in DOMAIN rows :
          /\ SameRow(r, i) /\ r[i].club = rows[i].club
          /\ r[i].rotated = (rows[i].rotated \/ i = s)
          /\ r[i].revoked = (rows[i].revoked \/ i \in S)

LEMMA RotatedRows ==
    ASSUME ServerTypeOK, CanIssue, NEW s \in DOMAIN rows, NEW c \in Clubs \cup {None}, NEW S
    PROVE  Rotated(Rotate(s, c, S), Len(rows) + 1, s, c, S)
<1> DEFINE m == [Revoked(S) EXCEPT ![s].rotated = TRUE]
           e == NewRow(rows[s].user, rows[s].family, c)
<1>1. TypedRows(rows) /\ Len(rows) < MaxRows /\ Len(rows) \in Nat /\ DOMAIN rows = 1..Len(rows)
  BY ServerTyped DEF CanIssue, TypedRows
<1>2. ASSUME NEW i \in DOMAIN rows
      PROVE  /\ m[i] \in AuthRow /\ m[i].family = rows[i].family
             /\ SameRow(m, i) /\ m[i].club = rows[i].club
             /\ m[i].rotated = (rows[i].rotated \/ i = s)
             /\ m[i].revoked = (rows[i].revoked \/ i \in S)
  <2>1. Revoked(S)[i] \in AuthRow
    <3>1. TypedRows(Revoked(S)) /\ i \in DOMAIN Revoked(S)
      BY <1>1, RevokedRows DEF Cut
    <3> QED
      BY <3>1 DEF TypedRows
  <2>2. m[i] = IF i = s THEN [Revoked(S)[i] EXCEPT !.rotated = TRUE] ELSE Revoked(S)[i]
    BY <1>1, RevokedRows DEF Cut
  <2>3. rows[i].rotated \in BOOLEAN
    BY <1>1, RowTyped DEF AuthRow
  <2>4. /\ SameRow(Revoked(S), i) /\ Revoked(S)[i].club = rows[i].club
        /\ Revoked(S)[i].rotated = rows[i].rotated
        /\ Revoked(S)[i].revoked = (rows[i].revoked \/ i \in S)
    BY <1>1, RevokedRows DEF Cut
  <2> DEFINE b == Revoked(S)[i]
  <2> HIDE DEF m, b
  <2>5. b \in AuthRow /\ m[i] = IF i = s THEN [b EXCEPT !.rotated = TRUE] ELSE b
    BY <2>1, <2>2 DEF b
  <2>6. /\ m[i] \in AuthRow /\ m[i].user = b.user /\ m[i].family = b.family /\ m[i].ver = b.ver
        /\ m[i].club = b.club /\ m[i].expired = b.expired /\ m[i].revoked = b.revoked
    BY <2>5 DEF AuthRow
  <2>7. m[i].rotated = (b.rotated \/ i = s)
    <3>1. CASE i = s
      BY <2>5, <3>1 DEF AuthRow
    <3>2. CASE i # s
      BY <2>5, <3>2 DEF AuthRow
    <3> QED
      BY <3>1, <3>2
  <2> QED
    BY <2>4, <2>6, <2>7 DEF SameRow, b
<1>3. m = [i \in DOMAIN rows |-> m[i]]
  BY DEF Revoked
<1>4. TypedRows(m) /\ Len(m) = Len(rows) /\ DOMAIN m = DOMAIN rows
  <2> HIDE DEF m
  <2> QED
    BY <1>1, <1>2, <1>3, RowByRow
<1>5. e \in AuthRow /\ e.family \in 1..(Len(rows) + 1)
  <2>1. rows[s] \in AuthRow /\ rows[s].family \in 1..s
    BY <1>1, RowTyped
  <2> QED
    BY <1>1, <2>1 DEF NewRow, AuthRow, ServerTypeOK
<1>6. /\ Rotate(s, c, S) = Append(m, e) /\ ~e.rotated /\ ~e.revoked /\ e.club = c
      /\ e.family = rows[s].family /\ e.user = rows[s].user
  BY DEF Rotate, NewRow
<1> HIDE DEF m, e
<1>7. /\ TypedRows(Append(m, e)) /\ DOMAIN Append(m, e) = DOMAIN rows \cup {Len(rows) + 1}
      /\ Len(rows) + 1 \notin DOMAIN rows /\ Len(rows) + 1 \in 1..MaxRows
      /\ Append(m, e)[Len(rows) + 1] = e
      /\ \A i \in DOMAIN rows : Append(m, e)[i] = m[i]
  BY <1>1, <1>4, <1>5, AppendedRow
<1> QED
  BY <1>2, <1>6, <1>7 DEF Rotated, Grows, SameRow

LEMMA ExpiredRows ==
    ASSUME ServerTypeOK, NEW s \in DOMAIN rows, Expire(s)
    PROVE  /\ TypedRows(rows') /\ Len(rows') = Len(rows) /\ DOMAIN rows' = DOMAIN rows
           /\ \A i \in DOMAIN rows :
                 /\ rows'[i].club = rows[i].club /\ rows'[i].user = rows[i].user
                 /\ rows'[i].family = rows[i].family /\ rows'[i].ver = rows[i].ver
                 /\ rows'[i].rotated = rows[i].rotated /\ rows'[i].revoked = rows[i].revoked
<1>1. TypedRows(rows)
  BY ServerTyped
<1>2. ASSUME NEW i \in DOMAIN rows
      PROVE  /\ rows'[i] \in AuthRow /\ rows'[i].family = rows[i].family
             /\ rows'[i].club = rows[i].club /\ rows'[i].user = rows[i].user
             /\ rows'[i].ver = rows[i].ver
             /\ rows'[i].rotated = rows[i].rotated /\ rows'[i].revoked = rows[i].revoked
  <2>1. rows[i] \in AuthRow
    BY <1>1, RowTyped
  <2>2. rows'[i] = IF i = s THEN [rows[i] EXCEPT !.expired = TRUE] ELSE rows[i]
    BY DEF Expire
  <2> QED
    BY <2>1, <2>2 DEF AuthRow
<1>3. rows' = [i \in DOMAIN rows |-> rows'[i]]
  BY DEF Expire
<1> QED
  BY <1>1, <1>2, <1>3, RowByRow
=============================================================================
