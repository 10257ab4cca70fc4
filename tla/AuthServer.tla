------------------------------ MODULE AuthServer ------------------------------
(* The sessions the backend keeps (table auth_sessions) and what a token is    *)
(* worth: services/auth.py and api/deps.py.  A row is one refresh token and    *)
(* the access token issued with it, so both are named by the position of the   *)
(* row; the rows a login starts and its rotations add form a family.  The      *)
(* clients of the two applications (MobileSession, PanelSession) extend it.    *)
EXTENDS Naturals, Sequences, FiniteSets

CONSTANTS
    Users,       \* accounts
    Clubs,       \* clubs a panel session can be opened on
    MaxRows,     \* bound: rows of auth_sessions
    MaxVersion,  \* bound: changes of token_version
    None

ASSUME AuthAssumption == /\ MaxRows \in Nat \ {0}
                         /\ MaxVersion \in Nat
                         /\ None \notin Clubs \cup (1..MaxRows)

VARIABLES
    rows,        \* auth_sessions, in the order they were inserted
    version      \* users.token_version

server == <<rows, version>>

AuthRow == [user : Users, family : 1..MaxRows, club : Clubs \cup {None}, ver : 0..MaxVersion,
            rotated : BOOLEAN, revoked : BOOLEAN, expired : BOOLEAN]

ServerTypeOK == /\ rows \in Seq(AuthRow)
                /\ Len(rows) <= MaxRows
                /\ \A s \in DOMAIN rows : rows[s].family \in 1..s
                /\ version \in [Users -> 0..MaxVersion]

ServerInit == rows = << >> /\ version = [u \in Users |-> 0]

NewRow(u, f, c) == [user |-> u, family |-> f, club |-> c, ver |-> version[u], rotated |-> FALSE,
                    revoked |-> FALSE, expired |-> FALSE]

CanIssue == Len(rows) < MaxRows

(* get_auth: the access token of row s is accepted.                            *)
AccessOk(s) == /\ s # None
               /\ ~rows[s].expired
               /\ ~rows[s].revoked
               /\ rows[s].ver = version[rows[s].user]

Renewable(s) == ~rows[s].rotated /\ ~rows[s].revoked

Family(s) == {i \in DOMAIN rows : rows[i].family = rows[s].family}
RowsOf(u) == {i \in DOMAIN rows : rows[i].user = u}
Revoked(S) == [i \in DOMAIN rows |-> [rows[i] EXCEPT !.revoked = @ \/ i \in S]]

(* Mutant of StartSession: the family is the row before.                       *)
StartSessionBefore(u, c) == Append(rows, NewRow(u, Len(rows), c))

(* A login starts a family of its own.                                         *)
StartSession(u, c) == Append(rows, NewRow(u, Len(rows) + 1, c))

(* refresh: the row is rotated and a new one of its family takes over.  A      *)
(* revocation of the rows S that overlaps the rotation waits for the lock of   *)
(* the row, and its UPDATE does not see the row inserted meanwhile.            *)
Rotate(s, c, S) ==
    Append([Revoked(S) EXCEPT ![s].rotated = TRUE], NewRow(rows[s].user, rows[s].family, c))

(* A token already used shows up again: the rest of its family is cut off.     *)
CutFamily(s) == Revoked(Family(s) \ {s})

(* revoke_all: a new password closes every session of the user.                *)
RevokeAll(u) == /\ version[u] < MaxVersion
                /\ version' = [version EXCEPT ![u] = @ + 1]
                /\ rows' = Revoked(RowsOf(u))

(* Time: an access token expires.  A refresh token that expires, a month        *)
(* later, is refused like a revoked one and is not told apart from it.         *)
Expire(s) == /\ ~rows[s].expired
             /\ rows' = [rows EXCEPT ![s].expired = TRUE]
             /\ UNCHANGED version
=============================================================================
