# clubsystem in TLA+

Models, model checks and machine-checked proofs about clubsystem: the reservations, members,
cash and expenses of sports clubs. The code is a FastAPI application over PostgreSQL
(`src/backend/app`), a web panel for the staff (`src/apps/web`), an app for the players
(`src/apps/mobile`) and the HTTP client the two share (`src/packages/api`). Paths below
without a prefix are under `src/backend/app`.

What can go wrong in the backend goes wrong between the statements of transactions that run at
once: most checks ("is the court free of reservations", "what has been collected", "is the fee
pending") read something that another request, or a job, may be changing. So the models of the
backend keep the statements of a transaction apart, with the locks they take, and abstract what
the rows say. What can go wrong in the clients goes wrong between an `await` and what comes
after it: a token was rotated meanwhile, a query was read before the mutation, the dialog is no
longer there. So the models of the clients have one step per stretch of JavaScript between two
awaits, and abstract what the screens look like.

## 1. Inventory

| Component | State | Operations | Interacts with |
|---|---|---|---|
| Courts (`services/courts.py`) | `courts`: active, deleted | create, update, deactivate, delete | cancels reservations; locked by every booking |
| Reservations (`services/reservations.py`) | `reservations`: court, interval, status, who, reason | staff: create, confirm, cancel, update; members: create, cancel | courts, cash (price and balance), members |
| Reservation job (`workers/reservations.py`) | none | expire unconfirmed, complete past ones | same rows as staff and members; one per API process |
| Scheduler (`workers/scheduler.py`) | none | runs each job, logs a failure, sleeps, runs it again | both jobs |
| Cash (`services/cash.py`) | `payments` | create (movement, charge, refund), void | reservations, fees |
| Fees (`services/fees.py`) | `membership_fees` | generate a month, pay, cancel | members, payments |
| Expenses (`services/expenses.py`) | `expenses` with their analysis | create, update, delete, review, recompute | explanation job |
| Explanations (`services/anomaly_explanations.py`) | batch id and explanation of `expenses`, `anomaly_llm_usage` | collect batches, reserve budget, explain, send a batch | Anthropic API, expenses |
| Sessions (`services/auth.py`) | `auth_sessions`, one-time tokens, `token_version` | login, refresh with rotation, revoke one or all, switch of club, change and reset of the password | the two clients |
| Client refresh (`packages/api/src/client.ts`, `apps/mobile/shared/api/session.ts`, `apps/web/lib/api.ts`, `apps/web/proxy.ts`) | tokens in memory and in secure storage; cookies and their hint | single-flight refresh, save, restore, logout | sessions |
| Screens of the panel (`apps/web/features`) | react-query cache, open dialogs, mutations in flight | 31 queries and 47 mutations, dialogs, confirmations | every service, through the API |
| Screens of the app (`apps/mobile/features`) | the same; chips and selection of the booking screen | 10 queries, 12 mutations, booking | members' part of the API |
| Members and plans (`services/members.py`) | `club_memberships`, `membership_plans` | invite, request, accept, approve, reject, deactivate, decline | fees, reservations, email |
| Stock (`services/stock.py`) | `stock_items`, movements | create, edit, delete, move, adjust | cash only in reports |
| Staff (`services/staff.py`) | `club_staff` | invite, accept, change roles, revoke | sessions |
| Slots, pricing, statistics (`domain/`) | none, pure | free starts, price, severity | reservations, expenses |
| Clubs, news, dashboard, email, rate limit | own rows or none | edits, reads | |

What is hard, by component, and what makes each correct:

* **Reservations and courts.** A booking takes the court `FOR SHARE`, whoever puts a court out
  of use takes it `FOR UPDATE`, a move takes the reservation and then the court, closing takes
  the court and then the reservations, the job takes many reservations in an order nobody
  chooses. Correct when no court is promised twice, a court out of use hosts nobody, a closing
  cancels no more than the user agreed to, and final states are final.
* **The job** judges with one `utcnow()` rows that others are changing, in several processes,
  and may be rolled back. Correct when it settles nothing before its time, expires nothing
  confirmed, and in the end settles everything.
* **Cash and fees.** Two users charge the same thing; a payment is voided while its fee is
  charged again; the price changes while the balance is computed; two generations of a month
  overlap. Correct when each fee is charged by one valid payment exactly when it is paid, nobody
  owes a month twice, nothing is collected beyond the price or returned beyond what was collected.
* **Expenses and explanations.** The model is called outside of any transaction and a batch
  takes up to a day; meanwhile the expense is edited, analysed again or explained by another
  process, and the process may die. Correct when an explanation is not replaced by another, a
  day's budget is not exceeded and no expense waits for ever.
* **Sessions and clients.** Each refresh token is good once; presenting it again cuts the family.
  Several requests fail at once, the answer to a refresh is lost, the app is killed between two
  writes, a logout or a new password meets a refresh. Correct when a well-behaved client is not
  thrown out by its own requests, keeps its session over a restart, and nobody waits for ever.
* **Screens.** Each mutation names by hand the families of queries it makes stale, while those
  queries are loading, hidden or being read again; a dialog may be closed, reopened for another
  row or taken off the screen while its mutation is in flight. Correct when what is shown is not
  older than what the user did, the same thing is not sent twice, a failure is told, and a dialog
  is closed by its own answer.

`PROJECT.json` has the same inventory by file, and the hazards line by line.

## 2. The modules and how they correspond to the code

| Module | Models | Variables |
|---|---|---|
| `CourtCalendar` | what a calendar promises, with no transactions | `clock`, `court`, `agenda` |
| `Booking` | `services/courts.py`, `services/reservations.py`, `workers/reservations.py` | `clock`, `court`, `res`, `txn` |
| `Ledger` | `services/fees.py`, `services/cash.py` | `member`, `fee`, `payment`, `res`, `txn` |
| `Explanations` | `services/expenses.py`, `services/anomaly_explanations.py`, `workers/anomalies.py` | `expense`, `batch`, `run`, `recompute`, `day`, `used`, `sent` |
| `AuthServer` | `services/auth.py`, the check of `api/deps.py` | `rows`, `version` |
| `MobileSession` | extends `AuthServer`: `client.ts` with bearer tokens, `session.ts`, login, logout and change of password of the app | `status`, `boot`, `mem`, `disk`, `pend`, `ends`, `rf`, `req`, `login`, `ghosts` |
| `PanelSession` | extends `AuthServer`: `client.ts` with cookies, `lib/api.ts`, `proxy.ts`, `features/auth`, the switch of club, the change of password of `features/settings` | `jar`, `page`, `shown`, `rf`, `req`, `late` |
| `ScreenParts` | vocabulary: a query, a mutation hook, a component that writes, a screen | |
| `PanelData`, `MobileData` | the tables of both clients, in that vocabulary: hook by hook, component by component, screen by screen | |
| `Screens` | one query, one component and its mutations at work, for every choice of those tables | `ui`, `version`, `cache`, `fetch`, `at`, `dlg`, `muts`, `cur` |
| `MobileBooking` | `BookingView` and its parts, `booking/hooks.ts` | `offers`, `taken`, `params`, `slots`, `prev`, `fetch`, `sel`, `ask` |
| `MC*` | instances for TLC | |
| `BookingProofs`, `LedgerProofs`, `ExplanationsProofs`, `AuthServerProofs`, `MobileSessionProofs`, `PanelSessionProofs`, `ScreensProofs`, `MobileBookingProofs` | theorems, each about the module it is named after | |

**Transactions.** One request is one transaction (`core/db.py`, `get_session`), READ COMMITTED.
A transaction is a record in `txn` (or `run`, `recompute`): its program counter says which
statement comes next, its fields hold what it has read. Locks are not a separate variable: a lock
lives from the statement that takes it to the end of the transaction, so who holds what follows
from the counters (`CanShare`, `CanUpdate`, `RowFree`, `ResFree`, `PaymentFree`). An `UPDATE` of
many rows first fixes the rows of its snapshot, then reaches them one by one, waiting for each
lock and evaluating its condition again on the row as it is then, as PostgreSQL does. The last
write and the commit are one step, since nobody sees the write before. `Abort` is every way to
end without effect: a failed check, a constraint, `statement_timeout`, the victim of a deadlock,
a process that ends.

**Requests of a client.** A request is a record with a phase: sent, then served by the backend (or
refused by it), then heard. Between any two, others happen; at any of them it may be lost, and
then the client ends it by itself 15 seconds later (`AbortSignal.timeout` in `client.ts`), while
the backend may still serve what was sent (`ghosts` on the phone, `late` in the panel).

Abstractions, by module:

* **Booking.** Time is one clock that passes between statements; the opening hours, the local
  days and the 30 minute grid are two constants, `OpenSlots` and `GridSlots`. Members are in good
  standing. Price, notes and payments are left to `Ledger`. A reservation that is edited without
  moving changes none of this state. `MemberCancel`, `Confirm` and `StaffCancel` are one step:
  they take their only lock first.
* **Ledger.** The fees are those of one month and cost `Dues`; whether a member is billable
  (approved, with a plan that has a fee) is open at each generation. A reservation is its status
  and price: what the other services do to it under its lock is `SetPrice` and `EndReservation`.
* **Explanations.** One club. `Contents` stands for the five fields an explanation talks about.
  The severity an analysis gives depends on the other expenses of the club and is left open.
  An explanation is *who* wrote it and *about what* (the fields and severity the model was told):
  that is what its properties tell apart. Recompute works on the rows as it loaded them, and
  its flush writes the columns that differ from them, which is what the ORM does. The retries
  inside the provider's client library are not counted as requests.
* **AuthServer.** A row of `auth_sessions` is a refresh token and the access token issued with it,
  named by its position; the clock is an `expired` mark a row can get. A rotation and the
  revocation of all the sessions that overlap are one step more (`ServeRefreshWhileRevoking`);
  a logout and a rotation of its family come one after the other. Registration and one-time
  tokens are left out; of a password there is what changing it does to the sessions.
* **MobileSession.** The secure storage does the writes of each key in order, some time later;
  a kill loses what was not done. The log of what happened to the session (`why`) is a history
  variable: it was closed by the user or the backend, the rate limit answered a renewal (limited),
  the answer with new tokens was lost (cut), the app was killed before it wrote the refresh token
  (torn), or a token was used twice.
* **PanelSession.** A cookie travels with the request when it is sent and is stored when the
  answer arrives; the browser shares the jar between tabs, each tab has its own refresh. A full
  load (`window.location`) forgets all the client knew; the requests it drops, and the ones given
  up by time, may be served later. `why` is a history variable here too: an answer lost (cut), the
  sessions closed by a new password of this browser (closed) or of another device (elsewhere), a
  switch of club that met a renewal (crossed), a token used twice.
* **Screens.** The backend's data of a family is a version number; a query holds the version it
  was read at. `Init` picks a component, one of its mutations and a query of a family that the
  mutation's endpoint changes, shown on the same screen, in the dialog or on another screen. What
  an endpoint changes is taken from the services (`changes` in the tables), what is refreshed from
  the hook (`invalidates`, `sets`); the difference is written down entry by entry with `Leaving`:
  the dashboard after whatever is not cash or fees, the court's and the member's reservations, the
  number and the name of a member shown in other lists, the news of the app after an invitation.
  What react-query does (one request per query, invalidation, a mutation observer that follows the
  last mutation, callbacks of the hook before those of the call) is modelled from how the code uses
  it and marked external. Filters, forms' validation and layout are left out. Of the panel there
  are 29 of the 31 queries (not `useInvitation` nor `useReservationQuote`, the price asked for
  while the form is being filled) and 38 of the 47 mutations; four more (login, logout, switch of
  club, change of password) are in `PanelSession`. Of the app there are 9 of the 10 queries (not
  `useClubCourts`, which nothing in the app changes) and 6 of the 12 mutations; three more (login,
  logout, change of password) are in `MobileSession`. Section 5 names the rest.
* **MobileBooking.** A choice of chips has a set of slots on offer; slots are names that choices
  may share, which is how a court and an hour are offered for two durations.

The definitions marked `Mutant` are the way a plausible bug would change the definition that
follows; no specification uses them, they show that each property notices.

## 3. What the runs check

| Run | Instance | States | Checks |
|---|---|---|---|
| `booking_agenda` | 1 court, 2 reservations, 2 requests, 1 job, nested slots | 213 000 | types; no double booking; what a transaction read still holds when it writes; a court out of use hosts nobody; a closing keeps its word; `Booking` implements `CourtCalendar` |
| `booking_live` | 1 court, 1 reservation, 1 request, 2 jobs | 96 000 | no reservation outlives its court; nothing is settled early; final is final; confirmed never expires; a pending reservation is decided |
| `ledger_book` | 1 member, 2 fees, 1 reservation, 3 payments, 2 requests | 210 000 | types; a fee is charged once; nobody owes a month twice; the balance of a reservation is between zero and the price; no income on a cancelled one |
| `ledger_revived` | 1 member, 2 generations | | **violated**: a cancelled fee is not generated again |
| `expl_direct` | 1 expense, 2 contents, 2 processes, 1 recompute, limit 1, 2 days | 2.06 M | requests of a day within the limit; a text is not replaced by another |
| `expl_batch` | 1 expense, 2 batches, 2 processes | 107 000 | types; an expense with an answer is in no batch; an expense gets out of its batch |
| `expl_stale` | 1 expense, 1 batch, 1 process | | **violated**: an explanation is about the expense as it is |
| `mobile_phone` | 2 requests, 1 login, 1 kill, 2 tokens | 621,738 | types; no token is used twice unless an answer was lost or the app killed before writing; a session ends only when it is closed, limited, cut or torn; it survives a restart; nobody waits for ever for a refresh; the app leaves its splash screen |
| `mobile_logout` | 2 requests, 1 login | | **violated**: a logout leaves nothing in the storage |
| `panel_tab` | 1 tab, 3 requests, 2 clubs, 2 tokens, 1 revocation of all, 1 request served late | 876 000 | types; no cookie is used twice unless an answer was lost; the hint that the proxy trusts is true; the tab shows the club it acts on |
| `screens_all` | every component, mutation and query of the tables; 2 rows, 2 mutations, 2 versions | 2,283,667 | types; what is shown is not older than what the user did; nothing is sent twice; a dialog is closed by its own answer; a failure is told; the app goes on when the screen is up to date |
| `mobile_booking` | 2 choices, 2 slots | 479 000 | the app asks for what it offers under the chips that were tapped; a confirmation returns |

The three violations are disagreements between the code and what it says of itself, each with
its quotation under `findings`:

1. *Cancelled fees come back* (`fees.py:104`): the generation that overlapped another inserts
   again a fee that was generated and cancelled in between, because the unique index leaves
   cancelled fees out.
2. *Stale batch* (`anomaly_explanations.py:159`): an edit between the read and the attachment
   is not noticed, since it clears a batch id that is still empty.
3. *Tokens after a logout* (`apps/mobile/features/auth/hooks.ts:40`): the answer of a refresh
   that was in flight stores its tokens after `end()` has emptied the storage, and the next start
   of the app enters with them.

`CHECK_DEADLOCK` is off in the models whose ids, clock or tokens run out, since they stop there;
it is on in `screens_all` and `mobile_booking`.

### Known behaviour that no property claims

The models contain these, and a property that denied them would fail:

* Two requests of a member pass the cap of pending reservations together (`reservations.py:546`).
* After the price is lowered below what was collected, a partial refund is refused for exceeding
  the price it brings the balance closer to (`cash.py:291`).
* A review committed while `recompute` has the row loaded survives the change of severity
  (`expenses.py:387`). With batches, a recompute can also lead to a replaced text: it loads a row
  whose answer was "unavailable", the row is analysed again and explained, the flush clears the
  date (which differs from what it loaded) and not the text (which it had not loaded), a batch
  that was asked for before is attached, and its answer replaces the text. `NeverRewritten` is
  therefore checked of direct calls only, with recompute.
* Two tabs of the panel can present the same refresh cookie, and the second cuts the session. A
  switch of club that overlaps a renewal may leave the tab showing one club and acting on another
  until it is loaded again.
* A session that is being renewed while all are revoked survives with a new token
  (`ServeRefreshWhileRevoking`).
* A renewal that the rate limit answers 429 ends a session that nobody closed: the app deletes its
  tokens (`client.ts:21` of the app returns false for anything under 500), and the panel drops its
  hint and goes to the login (`lib/api.ts:5`). The same cookie would still be good.
* A change of password in the panel closes every session and leaves the hint and the cookies
  (`settings/api.ts:88`): the proxy lets the panel load, its first request finds out and goes to
  the login. `HintIsTrue` says that this is the only session the hint outlives.
* A logout, a switch, a change of password or a renewal that the panel gives up by time may be
  served later (`ServeLate`), and leaves the hint over a session that is gone; until the next
  request the panel does not know. The properties of the panel exclude it as an answer lost. What
  another device closes is learnt in the same way.
* What a mutation changes and its hook does not touch (`leaves` in `PanelData` and `MobileData`) is
  read again only when `staleTime` has passed and the screen or the window is looked at: the
  dashboard after reservations, courts, requests, stock and expenses, the fees of an invitation
  that was cancelled, the news of the app after an invitation is accepted. `FreshAtRest` is about
  what hooks do touch.
* Two answers written with `setQueryData` in the opposite order leave the older one (`late` in
  `FreshAtRest`).
* The confirmations of courts, stock, news and others (`keep`) outlive their dialog and can close
  the one opened next; `ClosesItsOwn` leaves them out.
* Inside one opening a button stays disabled while its mutation is in flight. It comes back, and can
  send again, when the dialog is closed and opened, when its data takes the table off the screen
  and brings it back (the row is kept by the component above, so that the dialog comes back by
  itself), when the movement of stock changes tab, and with Reprogramar and Volver in the detail of
  a reservation. `OneInFlight` names them.
* The failure of a movement of stock after a change of tab, and of the notes or the new time of a
  reservation after Reprogramar or Volver, is told nowhere although the dialog is still open: the
  mutations are silent and their form has forgotten them (`stock/api.ts:131`,
  `movement-dialog.tsx:79`). So are those whose dialog was closed or whose data took it off, and the
  alert of the app whose component is gone. `FailureIsTold` names them.

### Bounds

* *Booking.* `MaxTime` 3 and slots `[1,3)` and `[2,3)`: there is a time before, at the start of,
  during and after each; the slots overlap, so a move onto the same court always has something to
  clash with. Two requests and a job, or one request and two jobs: every conflict is between two,
  with a third party (the other reservation, the clock, `EnableCourt`, the single-statement
  operations, which need no process) changing the state between them. One court in the runs; what
  happens with several is covered by the proofs, which hold for any number.
* *Ledger.* Three payments of one unit and prices 1 and 2: two charges fit the higher price and one
  the lower, a refund can be partial, and a charge, a refund and a void can be in flight over them.
  Two fees of one member: two generations, or a cancellation between them. Members only meet in
  the set of rows an insert goes through.
* *Explanations.* One expense: the rows of different expenses do not interact, save for the budget,
  for which the proof has any number; with one expense and limit 1, what competes for it is two
  runs. Two contents: an edit, and an edit back. Severities: one that is explained and one that is
  not, or two explained ones and one that is not; the code only compares them for equality and for
  being explained. `BatchMin` 1 sends batches; one more than the expenses sends none. `MaxDay` 1
  lets a request be sent on the day after its budget was reserved.
* *Sessions.* Two tokens are a login and one renewal, or two logins: a token that is used twice is
  the first one after the second was issued. Two requests of a phone: one starts the refresh and the
  other joins it, comes late or closes the session. Three of the panel, so that a switch, a request
  that fails and a session read can be in flight together. One revocation of all the sessions
  (`MaxVersion`), by this tab or another device, before, while or after the token is renewed. One
  request served late (`MaxLate`); since no property speaks of what comes after an answer is lost,
  the run goes on from there only to serve it (`UntilLost` in `MCPanelSession`).
* *Screens.* Two mutations and two rows: a mutation and the one that takes its place, a dialog and
  the one opened next. Two versions of the data, so that an answer can be older, equal or newer
  than the change.
* *Booking screen.* Two choices and two slots: a slot on offer for both choices, for one or none.

### Fairness

* `booking_live`. `Tick`: time passes. A request that holds locks goes on or is rolled back:
  `statement_timeout` is 15 s (`core/config.py`) and a process that ends loses its locks. A job
  that is enabled runs, because `_loop` in `workers/scheduler.py` runs it again every 300 s after
  any outcome. Strong fairness of `Visit`: an `UPDATE` waits in the queue of the lock, so one that
  is released again and again reaches it. Only finitely many runs of the job are rolled back: a
  database that aborted every run would settle nothing. With one reservation, since two jobs over
  two of them can wait for each other, and nothing says they will not do it again.
* `expl_batch`. The job goes on (`WF` on its steps: every 60 s, also after a failure), although it
  can be aborted at any point (`AbortRun` is not fair and not bounded). The provider ends every
  batch within a day. `Collect` is strongly fair: asking for a batch may fail many times, but not
  for ever. Nothing is assumed of requests, edits or the loss of batches.
* `mobile_phone`. The phone finishes what it began: `Restore` runs once at the start, the storage
  does its writes, and a refresh ends, answered or by time (`RefreshGoesOn`, `StorageGoesOn`).
  Nothing is assumed of the backend, of the network or of the user.
* `mobile_booking`. A request ends (answered or by time) and the callbacks of a promise run.
  `Arrive \/ FailFetch` is strongly fair: the user may start the read of the slots again and again
  by leaving and coming back, but not always before its answer.

## 4. What is proved

Every safety invariant and every action property of the passing runs is a theorem. What is left to
TLC is liveness. The theorems hold for every value of the constants that satisfies the named
assumptions, which TLC evaluates in the runs:

* `SlotAssumption`: slots are non-empty intervals of naturals. `IdAssumption`: finitely many
  reservation ids; requests and replicas are different. `LimitAssumption`: the limits of the club
  and of the model are naturals.
* `AmountAssumption`: amounts are positive (`CHECK (amount > 0)`) and prices are not negative.
  `PaymentsAssumption`: a club has finitely many payments, so that they have a sum.
* `SizeAssumption`: expenses are numbered (their order is that of `ORDER BY`) and, like the
  replicas, finitely many. `SeverityAssumption`: the severities of the enumeration.
* `AuthAssumption`, `MobileAssumption`, `ScreensAssumption`, `BookingAssumption`: the bounds of the
  models are naturals, and `None` is none of the values it stands beside.

The bounds on what grows (`MaxTime`, `MaxRows`, `MaxKills`, `MaxMutations`...) are constants like
the others: the theorems hold for any of them.

### Reservations and courts

`BookingProofs`. The inductive invariant `Inv` is the conjunction of `TypeOK`, `Shape` (which
fields a transaction has filled in at each counter), `LockDiscipline` (a court locked
`FOR UPDATE` has no other lock), `ReadsStillHold`, `ReasonMeansCancelled`, `NoDoubleBooking`,
`ClosedCourtIsEmpty`, `ReservationsHaveCourt` and `SettledInTime`. None of the interesting ones
is inductive alone: that a court out of use is empty depends on what the transaction that
disables it has read still being true (`ReadsStillHold`), which depends on nobody booking on a
court that is locked `FOR UPDATE` (`LockDiscipline`), which depends on the shape of the
transactions. `InvCorrect` has one step per action and under it one per conjunct that the action
can disturb. From it follow the invariants and, with one more look at the actions,
`TerminalIsFinal`, `ConfirmedNeverExpires` and `ClosingCancelsAgreed`. The last is the one with an
argument of its own: `deactivate` evaluates its condition twice, at two times, and what is
counted at the first bounds what is cancelled at the second, because time only takes reservations
away from `Upcoming` and the lock keeps others from coming.

The last section of the module proves the refinement, `Spec => CalendarSpec`: under the mapping
that shows a reservation as its court, slot and status, every committed transaction is one step of
the calendar and every other step stutters. The closing of a court is where it matters: cancelling
and closing are one step in the calendar, though the code cancels with the condition evaluated
earlier.

### Cash and fees

`LedgerProofs`. `LedgerInv` is `LedgerTypeOK`, `TxnShape`, `ClaimsHold` (generations in flight bill
different members, who owe nothing), `FeesExist`, `FeeChargedOnce` and `OneFeePerMonth`.
`OneFeePerMonth` needs `ClaimsHold`: an uncommitted insert already excludes others, through the
index. `NoIncomeOnCancelled` needs in addition that what a charge checked under the lock of its
reservation stays so (`IncomeChecked`).

The balance of a reservation is the sum of its valid payments, for any finite set of them.
`CollectedIsSum` says of the fold what the code's `SUM` says, and the lemmas after it give what one
more or one less valid payment does to it. `BalanceInv` adds to `NeverOverRefunded`:
`LocksExclude` (a reservation is locked by one transaction, a payment by one void), `VoidReads`
(a payment being voided is still valid) and `BalanceChecked` (what was checked of the balance is
still so when it is written). `ChargesWithinPrice` follows from the same invariant: it is about
the step that makes the balance grow and the price after it, not about every state, because a
price may be lowered under what was collected.

### Expenses and explanations

`ExplanationsProofs`. `ExplanationsInv` is `ExplanationsTypeOK`, `ReferencesHold` (what a row, a run
or a recompute refers to exists), `BudgetKept` and `InFlightIsUnanswered`. The limit of a day is not
inductive: `BudgetKept` says that what was sent plus what was granted and not sent is at most
`used`, day by day, so that a grant moves from one term to the other when it is sent and is wasted
when its run dies. It rests on `OldestBounded`, that `LIMIT n` gives at most `n` rows, proved by
numbering each row with how many come before it. The invariant on batches needs that a flush of
`recompute` never sets a batch id or a date, only clears them (`FlushedTyped`).

`TextIsNeverRewritten` has the hypothesis `Batches = {} \/ Recomputes = {}`: where a batch meets a
recompute the code can replace a text (section 3), and the theorem would be false. Without
batches, `save` compares the fields, the severity and the absence of a date and of a text with the
row as it is, and a flush or an edit clears the text or leaves it (`TextKept`). Without recomputes,
every text has its date (`TextsDated`), which is all `save_batch_result` looks at.

### Sessions

`AuthServerProofs` has the facts of the table of sessions the two clients share: which rows a
login, a rotation, a reuse, a logout and a revocation change, and that they never forget a row.

* **`MobileSessionProofs`**, for any requests, logins, users, clubs and kills. `MobileInv` is the
  types (in a form that says more: a token the phone names was issued), `Shape` (what may happen
  while the app loads), `TokensInv`, `KeptInv` and `ReuseOnlyAfterCut`. `TokensInv` says, until an
  answer with tokens is lost (cut) or the app is killed before it writes the refresh token (torn),
  where the one good token is: in the storage, on its way to it, or in the answer of the refresh,
  and never in two of these (`Once`, `Fresh`). A kill at any other moment keeps it, between the two
  writes of a renewal too. From it, a refresh presents a token that was never rotated. `KeptInv`
  says, until besides somebody closes the session or the rate limit answers its renewal, that
  nothing is revoked and that the storage is never emptied after a session was opened.
  `SessionKept` and `RestartKeepsSession` are what is left of them at rest.
* **`PanelSessionProofs`**. The types hold for any tabs. The other three theorems have the hypothesis
  `OneTab`, one tab and any number of requests: with two, the code lets the second present the
  cookie the first has rotated (section 3), and they would be false. `TabInv` is the types, `Shape`
  (which requests and which refresh each page allows), `Heard` (nothing is late unless an answer was
  lost), `TokensInv`, `LiveInv`, `ClubInv` and `ReuseOnlyAfterCut`. `TokensInv` has two parts:
  `Fresh`, the cookie in the jar is good, or its successor is in the answer; and `Kinship`, every
  token a request carries is of the session of the cookie, and closed if the cookie's is, so that
  what a logout or a new password closes is all the tab has. `LiveInv` says, unless an answer was
  lost or another device closed the sessions, that a hint is backed by a token that can be renewed,
  or a logout or a new password is being answered, or a new password of this browser has closed the
  session and no tab has read anything since (`Gone`): with a revoked token the only request a tab
  can make is the one of the session, which fails. `ClubInv` says, unless a switch of club met a
  renewal or an answer was lost, which club each answer, cookie and row has: a switch changes the
  row of the session that the jar names, and the answer that tells it comes before anything is
  renewed.

### Screens

`ScreensProofs`, for every component, mutation and query of the tables of both apps, and for any
rows, mutations and versions. `ScreensInv` is the conjunction of

* `UiOK`, what the tables have in common: each hook invalidates or writes every query its endpoint
  changes, or is known to leave it (`leaves`), a hook that refreshes also after a failure
  invalidates, one that is silent is used by components that draw its error, every hook of the app
  waits for what it invalidates, and no tab shows a query that a hook both writes and invalidates.
  It is proved of the tables entry by entry (`PanelScreens`, `MobileScreens`, `PanelQueries`), so a
  hook that forgot a family without its table saying so would break the proof and not only a run;
* `ScreensTypeOK`; `Made`, that no version is newer than the backend's and nothing is owed that no
  mutation made;
* `Observed`: a mutation in flight whose opening is not over is the last one and the one the
  component observes, with its dialog open; only dialogs with tabs are turned, and only the table
  of courts lets a mutation take the place of another;
* `Fresh`: a request in flight that read before the change is marked, data older than the change is
  invalid, is left alone by the hook or an older answer came after, and a query on view that nobody
  is fetching has good data or shows its error;
* `Shown`: once a hook of the app has waited, the screen of its mutation has what the mutation made.

`FreshAtRest` is `Fresh` at rest; `OneInFlight`, `ClosesItsOwn` and `FailureIsTold` follow from
`Observed` with a look at how mutations end (`EndsOnly`); `GoesOnUpToDate` from `Shown`.
`FreshAtRest` is not inductive, because what is on view is read again only if it was marked when it
was not.

`MobileBookingProofs`: `BookingInv` adds `CacheIsOffered` to the types and to `AsksWhatItOffers`:
what the cache holds for a choice, and what the request in flight brings, is on offer for that
choice, so that a late answer never lands under other chips.

### Only model-checked

Liveness under fairness, which is out of the prover's reach: `PendingIsDecided`,
`BatchesAreCollected`, `WaitersGoOn`, `AppOpens` and `ConfirmReturns`. And, of course, the three
violations, which are counterexamples.

What could still be proved: what `OneTab` leaves out, as a weaker statement for any number of tabs
(a tab that renews while no other does), and the mapping of the panel's and the phone's sessions
to one abstract session that both implement.

## 5. What is not modelled

* Row level security and tenancy (one club is modelled everywhere) and the migrations; the HTTP
  layer, validation and permissions; reads (lists, reports, dashboard, CSV) except as the queries
  of a screen, with what makes each stale in `PanelData`; email, which is sent after the commit and
  not retried; the windows of the rate limit, which are a library's.
* The backend of members, staff, stock, news and the settings of a club: each operation changes one
  row, most of them under its lock or by a conditional update; the races across rows that are left
  are among the hazards. Their side of the panel is in `PanelData`.
* Registration, verification of the e-mail and recovery of the password with their one-time tokens,
  the acceptance of an invitation to the staff, and the screens of both clients for them:
  `useForgotPassword`, `useResetPassword`, `useVerifyEmail` and `useAcceptInvitation` of the panel,
  `useRegister`, `useForgotPassword` and `useResendVerification` of the app. The change of password
  of a user who is in is modelled in both sessions. `useUpdateStaffRoles` is in no component of the
  panel, so it is in no screen.
* The pure functions of `domain/` (slots, pricing, statistics): `Booking` and `Explanations` leave
  their results open.
* What the two clients share in `packages/shared`, the components of the visual library
  (`apps/web/components/ui`, `apps/mobile/shared/ui`) but for the ones `Screens` needs, filters in
  the URL (`lib/use-url-params.ts`), tables and formats.
