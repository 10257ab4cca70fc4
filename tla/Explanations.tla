---------------------------- MODULE Explanations ----------------------------
(***************************************************************************)
(* Anomalous expenses of one club and the job that has a model explain     *)
(* them (services/expenses.py, services/anomaly_explanations.py).          *)
(*                                                                         *)
(* Each replica of the API runs the job over and over: a run reads what is *)
(* pending, calls the model outside any transaction and stores the answers *)
(* with conditional UPDATEs, or sends a batch and stores its answers in a  *)
(* later run.  A run ends at any point with an error, a rate limit or the  *)
(* loss of its process.                                                    *)
(*                                                                         *)
(* An explanation is represented by who got it and by what the model was   *)
(* told: the fields and the severity the expense had when the run read it. *)
(***************************************************************************)
EXTENDS Integers, FiniteSets

CONSTANTS
    Expenses,    \* ids, in the order of their creation
    Contents,    \* values of _EXPLAINED_FIELDS
    Severities,  \* severities that the analyses give
    Batches,     \* batches the provider accepts; a bound
    Replicas,    \* API processes, each with its scheduler
    Recomputes,  \* recompute requests in flight
    BatchMin,    \* BATCH_MIN
    DailyLimit,  \* ANOMALY_LLM_DAILY_LIMIT_PER_CLUB
    MaxDay,      \* bound of the calendar, for model checking
    None

ASSUME SeverityAssumption == Severities \subseteq {"none", "low", "medium", "high", "critical"}

ASSUME SizeAssumption ==
    /\ Expenses \subseteq Nat /\ IsFiniteSet(Expenses) /\ IsFiniteSet(Replicas)
    /\ BatchMin \in Nat \ {0} /\ DailyLimit \in Nat /\ MaxDay \in Nat

VARIABLES
    expense,    \* the committed row of each expense id
    batch,      \* what the provider knows of each batch
    run,        \* the run of each replica
    recompute,  \* the rows and severities each recompute has loaded
    day,        \* the day in the club's time zone
    used,       \* AnomalyLlmUsage.requests of each day
    sent        \* requests made to the model on the budget of each day

vars == <<expense, batch, run, recompute, day, used, sent>>

ExplainedSeverities == {"medium", "high", "critical"}
Outcomes == {"explained", "unavailable", "errored"}

Subject == [content : Contents, severity : Severities]
Explanation == [about : Subject, by : Replicas \cup Batches]
Expense == [content : Contents, severity : Severities,
            explanation : Explanation \cup {None},
            explained_at : BOOLEAN,
            batch_id : Batches \cup {None},
            reviewed : Severities \cup {None},   \* the severity that was reviewed
            deleted : BOOLEAN]

\* Functions on some of the expenses.
OfSome(S) == UNION {[D -> S] : D \in SUBSET Expenses}
Nothing == [e \in {} |-> None]

Sent == [state : {"processing", "ended", "gone"}, items : SUBSET Expenses,
         subject : OfSome(Subject), outcome : OfSome(Outcomes)]
Run == [pc : {"idle", "polling", "budgeting", "granted", "submitted", "answered"},
        todo : SUBSET Batches, items : SUBSET Expenses, subject : OfSome(Subject),
        outcome : OfSome(Outcomes), batch : Batches \cup {None}, day : 0 .. MaxDay]
Loaded == [row : Expense, severity : Severities]

ASSUME NoneAssumption ==
    None \notin Expense \cup Explanation \cup Severities \cup Batches \cup Sent

Idle == [pc |-> "idle", todo |-> {}, items |-> {}, subject |-> Nothing, outcome |-> Nothing,
         batch |-> None, day |-> 0]

ExplanationsTypeOK ==
    /\ expense \in [Expenses -> Expense \cup {None}]
    /\ batch \in [Batches -> Sent \cup {None}]
    /\ \A b \in Batches : batch[b] # None =>
          /\ DOMAIN batch[b].subject = batch[b].items
          /\ batch[b].state = "ended" => DOMAIN batch[b].outcome = batch[b].items
    /\ run \in [Replicas -> Run]
    /\ \A p \in Replicas :
          /\ DOMAIN run[p].subject = run[p].items
          /\ run[p].pc = "answered" => DOMAIN run[p].outcome = run[p].items
          /\ run[p].pc = "submitted" => run[p].batch \in Batches
    /\ recompute \in [Recomputes -> OfSome(Loaded)]
    /\ day \in 0 .. MaxDay
    /\ used \in [0 .. MaxDay -> Nat] /\ sent \in [0 .. MaxDay -> Nat]

-----------------------------------------------------------------------------
(* Helpers *)

SubjectOf(x) == [content |-> x.content, severity |-> x.severity]
Exists(e) == expense[e] # None /\ ~expense[e].deleted

\* ORDER BY created_at LIMIT n
Oldest(S, n) == {e \in S : Cardinality({f \in S : f < e}) < n}

Pending == {e \in Expenses :
    /\ Exists(e)
    /\ expense[e].severity \in ExplainedSeverities
    /\ ~expense[e].explained_at /\ expense[e].explanation = None
    /\ expense[e].batch_id = None}

\* reset_explanation
Reset(x) == [x EXCEPT !.explanation = None, !.explained_at = FALSE, !.batch_id = None]

\* _apply_analysis
Analyzed(x, severity) ==
    IF x.severity = severity THEN x
    ELSE [Reset(x) EXCEPT !.severity = severity, !.reviewed = None]

\* Mutant: an answer without a text is stored as an explanation of nothing.
StoredRefusal(x, outcome, subject, by) ==
    [x EXCEPT !.explanation = [about |-> IF outcome = "explained" THEN subject ELSE None, by |-> by],
              !.explained_at = TRUE, !.batch_id = None]

\* The SET of _store.
Stored(x, outcome, subject, by) ==
    [x EXCEPT !.explanation = IF outcome = "explained" THEN [about |-> subject, by |-> by] ELSE None,
              !.explained_at = TRUE, !.batch_id = None]

Goto(p, pc) == run' = [run EXCEPT ![p].pc = pc]
EndRun(p) == run' = [run EXCEPT ![p] = Idle]

-----------------------------------------------------------------------------
Init ==
    /\ expense = [e \in Expenses |-> None]
    /\ batch = [b \in Batches |-> None]
    /\ run = [p \in Replicas |-> Idle]
    /\ recompute = [q \in Recomputes |-> Nothing]
    /\ day = 0
    /\ used = [d \in 0 .. MaxDay |-> 0]
    /\ sent = [d \in 0 .. MaxDay |-> 0]

NewDay ==
    /\ day < MaxDay
    /\ day' = day + 1
    /\ UNCHANGED <<expense, batch, run, recompute, used, sent>>

(* ExpenseService: the severity of an analysis is left open, it depends on
   the other expenses of the club *)

CreateExpense(e, content, severity) ==
    /\ expense[e] = None
    /\ \A f \in Expenses : f < e => expense[f] # None
    /\ expense' = [expense EXCEPT ![e] =
          [content |-> content, severity |-> severity, explanation |-> None, explained_at |-> FALSE,
           batch_id |-> None, reviewed |-> None, deleted |-> FALSE]]
    /\ UNCHANGED <<batch, run, recompute, day, used, sent>>

\* update, under FOR UPDATE from the first read to the commit.
UpdateExpense(e, content, severity) ==
    /\ Exists(e)
    /\ LET x == expense[e]
           y == IF content = x.content THEN x ELSE [Reset(x) EXCEPT !.content = content]
       IN expense' = [expense EXCEPT ![e] = Analyzed(y, severity)]
    /\ UNCHANGED <<batch, run, recompute, day, used, sent>>

DeleteExpense(e) ==
    /\ Exists(e)
    /\ expense' = [expense EXCEPT ![e].deleted = TRUE]
    /\ UNCHANGED <<batch, run, recompute, day, used, sent>>

Review(e) ==
    /\ Exists(e)
    /\ expense[e].severity # "none"
    /\ expense[e].reviewed = None
    /\ expense' = [expense EXCEPT ![e].reviewed = expense[e].severity]
    /\ UNCHANGED <<batch, run, recompute, day, used, sent>>

\* recompute loads the expenses of a period and their signals without a lock ...
LoadSignals(q, S) ==
    /\ recompute[q] = Nothing
    /\ S # {}
    /\ \A e \in S : Exists(e)
    /\ \E verdict \in [S -> Severities] :
          recompute' = [recompute EXCEPT ![q] =
             [e \in S |-> [row |-> expense[e], severity |-> verdict[e]]]]
    /\ UNCHANGED <<expense, batch, run, day, used, sent>>

\* ... and the ORM writes back the columns that differ from the row it loaded.
Flushed(x, loaded, severity) ==
    LET y == Analyzed(loaded, severity)
        Write(new, old, current) == IF new = old THEN current ELSE new
    IN [x EXCEPT !.severity = Write(y.severity, loaded.severity, @),
                 !.explanation = Write(y.explanation, loaded.explanation, @),
                 !.explained_at = Write(y.explained_at, loaded.explained_at, @),
                 !.batch_id = Write(y.batch_id, loaded.batch_id, @),
                 !.reviewed = Write(y.reviewed, loaded.reviewed, @)]

FlushRecompute(q) ==
    /\ recompute[q] # Nothing
    /\ expense' = [e \in Expenses |->
          IF e \in DOMAIN recompute[q]
          THEN Flushed(expense[e], recompute[q][e].row, recompute[q][e].severity)
          ELSE expense[e]]
    /\ recompute' = [recompute EXCEPT ![q] = Nothing]
    /\ UNCHANGED <<batch, run, day, used, sent>>

(* explain_club *)

\* in_flight_batches
StartRun(p) ==
    /\ run[p].pc = "idle"
    /\ run' = [run EXCEPT ![p] = [Idle EXCEPT !.pc = "polling",
          !.todo = {b \in Batches : \E e \in Expenses :
             /\ expense[e] # None /\ expense[e].batch_id = b /\ ~expense[e].explained_at}]]
    /\ UNCHANGED <<expense, batch, recompute, day, used, sent>>

\* The guard of save_batch_result, and release_batch.
BatchStored(x, e, b) ==
    IF x = None \/ x.batch_id # b THEN x
    ELSE IF batch[b].state = "ended" /\ e \in batch[b].items /\ batch[b].outcome[e] # "errored"
            /\ ~x.explained_at /\ ~x.deleted
         THEN Stored(x, batch[b].outcome[e], batch[b].subject[e], b)
         ELSE [x EXCEPT !.batch_id = None]

\* Mutant: a batch that the provider no longer has is an error like any other.
CollectEnded(p, b) ==
    /\ b \in run[p].todo
    /\ batch[b].state = "ended"
    /\ expense' = [e \in Expenses |-> BatchStored(expense[e], e, b)]
    /\ run' = [run EXCEPT ![p].todo = @ \ {b}]
    /\ UNCHANGED <<batch, recompute, day, used, sent>>

\* A batch that has ended, or that the provider no longer has (404): its answers
\* are immutable, and one transaction stores them and releases the rest.
Collect(p, b) ==
    /\ b \in run[p].todo
    /\ batch[b].state \in {"ended", "gone"}
    /\ expense' = [e \in Expenses |-> BatchStored(expense[e], e, b)]
    /\ run' = [run EXCEPT ![p].todo = @ \ {b}]
    /\ UNCHANGED <<batch, recompute, day, used, sent>>

\* It is still processing, or the call failed.
SkipBatch(p, b) ==
    /\ b \in run[p].todo
    /\ run' = [run EXCEPT ![p].todo = @ \ {b}]
    /\ UNCHANGED <<expense, batch, recompute, day, used, sent>>

ReadPending(p) ==
    /\ run[p].pc = "polling"
    /\ run[p].todo = {}
    /\ LET items == Oldest(Pending, DailyLimit) IN
       run' = [run EXCEPT ![p] = [Idle EXCEPT !.pc = "budgeting", !.items = items,
                                     !.subject = [e \in items |-> SubjectOf(expense[e])]]]
    /\ UNCHANGED <<expense, batch, recompute, day, used, sent>>

\* Mutant: the budget forgets what other runs took.
GrantedToAll(wanted, spent) == wanted
Granted(wanted, spent) ==
    IF wanted + spent =< DailyLimit THEN wanted
    ELSE IF spent < DailyLimit THEN DailyLimit - spent ELSE 0

\* reserve_budget, with the row of the day FOR UPDATE.
ReserveBudget(p) ==
    /\ run[p].pc = "budgeting"
    /\ LET granted == Granted(Cardinality(run[p].items), used[day])
           items == Oldest(run[p].items, granted)
       IN /\ used' = [used EXCEPT ![day] = @ + granted]
          /\ run' = [run EXCEPT ![p] =
                IF granted = 0 THEN Idle
                ELSE [Idle EXCEPT !.pc = "granted", !.items = items, !.day = day,
                                  !.subject = [e \in items |-> run[p].subject[e]]]]
    /\ UNCHANGED <<expense, batch, recompute, day, sent>>

Send(p) == sent' = [sent EXCEPT ![run[p].day] = @ + Cardinality(run[p].items)]

SubmitBatch(p, b) ==
    /\ run[p].pc = "granted"
    /\ Cardinality(run[p].items) >= BatchMin
    /\ batch[b] = None
    /\ batch' = [batch EXCEPT ![b] = [state |-> "processing", items |-> run[p].items,
                                      subject |-> run[p].subject, outcome |-> Nothing]]
    /\ run' = [run EXCEPT ![p].pc = "submitted", ![p].batch = b]
    /\ Send(p)
    /\ UNCHANGED <<expense, recompute, day, used>>

\* Mutant: an expense that was explained meanwhile is attached too.
AttachAny(p) ==
    /\ run[p].pc = "submitted"
    /\ expense' = [e \in Expenses |->
          IF e \in run[p].items /\ expense[e].batch_id = None
          THEN [expense[e] EXCEPT !.batch_id = run[p].batch] ELSE expense[e]]
    /\ EndRun(p)
    /\ UNCHANGED <<batch, recompute, day, used, sent>>

AttachBatch(p) ==
    /\ run[p].pc = "submitted"
    /\ expense' = [e \in Expenses |->
          IF e \in run[p].items /\ ~expense[e].explained_at /\ expense[e].batch_id = None
          THEN [expense[e] EXCEPT !.batch_id = run[p].batch] ELSE expense[e]]
    /\ EndRun(p)
    /\ UNCHANGED <<batch, recompute, day, used, sent>>

\* _explain_each
ExplainEach(p) ==
    /\ run[p].pc = "granted"
    /\ Cardinality(run[p].items) < BatchMin
    /\ \E outcome \in [run[p].items -> Outcomes] :
          run' = [run EXCEPT ![p].pc = "answered", ![p].outcome = outcome]
    /\ Send(p)
    /\ UNCHANGED <<expense, batch, recompute, day, used>>

\* Mutant: the answer is stored though the expense has one.
StillTheSame(x, subject) == ~x.deleted /\ SubjectOf(x) = subject

\* The guard of save.
StillAsRead(x, subject) ==
    /\ ~x.deleted
    /\ ~x.explained_at /\ x.explanation = None /\ x.batch_id = None
    /\ SubjectOf(x) = subject

SaveEach(p) ==
    /\ run[p].pc = "answered"
    /\ expense' = [e \in Expenses |->
          IF /\ e \in run[p].items
             /\ run[p].outcome[e] # "errored"
             /\ StillAsRead(expense[e], run[p].subject[e])
          THEN Stored(expense[e], run[p].outcome[e], run[p].subject[e], p) ELSE expense[e]]
    /\ EndRun(p)
    /\ UNCHANGED <<batch, recompute, day, used, sent>>

\* An error, a rate limit, or the process goes away.
AbortRun(p) ==
    /\ run[p].pc # "idle"
    /\ EndRun(p)
    /\ UNCHANGED <<expense, batch, recompute, day, used, sent>>

(* The provider *)

EndBatch(b) ==
    /\ batch[b] # None
    /\ batch[b].state = "processing"
    /\ \E outcome \in [batch[b].items -> Outcomes] :
          batch' = [batch EXCEPT ![b].state = "ended", ![b].outcome = outcome]
    /\ UNCHANGED <<expense, run, recompute, day, used, sent>>

LoseBatch(b) ==
    /\ batch[b] # None
    /\ batch' = [batch EXCEPT ![b].state = "gone"]
    /\ UNCHANGED <<expense, run, recompute, day, used, sent>>

-----------------------------------------------------------------------------
ExpenseStep ==
    \/ \E e \in Expenses :
          \/ \E content \in Contents, severity \in Severities :
                CreateExpense(e, content, severity) \/ UpdateExpense(e, content, severity)
          \/ DeleteExpense(e) \/ Review(e)
    \/ \E q \in Recomputes :
          \/ \E S \in SUBSET Expenses : LoadSignals(q, S)
          \/ FlushRecompute(q)

RunStep(p) ==
    \/ StartRun(p) \/ ReadPending(p) \/ ReserveBudget(p)
    \/ AttachBatch(p) \/ ExplainEach(p) \/ SaveEach(p)
    \/ \E b \in Batches : SubmitBatch(p, b) \/ SkipBatch(p, b)

Next ==
    \/ NewDay
    \/ ExpenseStep
    \/ \E p \in Replicas : RunStep(p) \/ AbortRun(p) \/ \E b \in Batches : Collect(p, b)
    \/ \E b \in Batches : EndBatch(b) \/ LoseBatch(b)

Spec == Init /\ [][Next]_vars

\* The scheduler runs the job every minute and retries a run that fails; the
\* provider ends a batch within a day; asking for it does not fail for ever.
Fairness ==
    /\ \A p \in Replicas : /\ WF_vars(RunStep(p))
                            /\ \A b \in Batches : SF_vars(Collect(p, b))
    /\ \A b \in Batches : WF_vars(EndBatch(b))

FairSpec == Spec /\ Fairness

-----------------------------------------------------------------------------
(* Properties *)

\* "si el gasto cambio mientras tanto, el resultado se descarta": an explanation
\* is about the fields and the severity that the expense has now.
ExplanationIsCurrent ==
    \A e \in Expenses : expense[e] # None /\ expense[e].explanation # None
                        => expense[e].explanation.about = SubjectOf(expense[e])

\* The text staff read is not replaced by another of the same expense: two
\* replicas may be explaining it at once, while it is recomputed.  It is checked
\* of direct calls: save compares the row with what was asked about, and
\* save_batch_result does not, so that a flush of recompute over an answer leaves
\* a text without its date, which a batch may then replace.
NeverRewritten ==
    [][\A e \in Expenses :
          expense[e] # None /\ expense[e].explanation # None
          => expense'[e].explanation \in {None, expense[e].explanation}]_vars

\* However many replicas run and however they fail, no more requests are made on
\* the budget of a day than the limit (reserve_budget).
WithinDailyLimit == \A d \in 0 .. MaxDay : sent[d] =< DailyLimit

\* An expense that waits for a batch has no answer yet: in_flight_batches, which
\* looks for those without, would never release the other.
InFlightIsUnanswered ==
    \A e \in Expenses : expense[e] # None /\ expense[e].batch_id # None => ~expense[e].explained_at

\* No expense waits for ever for a batch: its answer is stored, or it is pending
\* again (_collect_batches, release_batch).
BatchesAreCollected ==
    \A e \in Expenses, b \in Batches :
        (expense[e] # None /\ expense[e].batch_id = b)
        ~> (expense[e] = None \/ expense[e].batch_id # b)
=============================================================================
