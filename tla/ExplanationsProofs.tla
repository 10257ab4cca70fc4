-------------------------- MODULE ExplanationsProofs --------------------------
(* Theorems about the explanation of anomalous expenses, for any expenses,     *)
(* batches, replicas and limits.                                               *)
EXTENDS Explanations, FiniteSetTheorems, TLAPS

(* What the rows refer to exists: ids are never reused, rows never erased.     *)
ReferencesHold ==
    /\ \A e \in Expenses : expense[e] # None /\ expense[e].batch_id # None
                           => batch[expense[e].batch_id] # None
    /\ \A p \in Replicas : /\ run[p].pc = "submitted" => batch[run[p].batch] # None
                           /\ \A e \in run[p].items : expense[e] # None
    /\ \A q \in Recomputes : \A e \in DOMAIN recompute[q] : expense[e] # None

(* The requests of day d that are paid for and not made yet.                   *)
GrantedTo(d) == {pe \in Replicas \X Expenses :
    /\ run[pe[1]].pc = "granted" /\ run[pe[1]].day = d
    /\ pe[2] \in run[pe[1]].items}

(* The budget of a day pays for what was sent and for what is about to be: a   *)
(* run that dies between the two wastes its part.                              *)
BudgetKept ==
    \A d \in 0 .. MaxDay : /\ sent[d] + Cardinality(GrantedTo(d)) =< used[d]
                           /\ used[d] =< DailyLimit

-----------------------------------------------------------------------------
(* Helpers of the model *)

LEMMA OfSomeIs ==
    ASSUME NEW S, NEW f
    PROVE  f \in OfSome(S) <=> \E D \in SUBSET Expenses : f \in [D -> S]
BY DEF OfSome

LEMMA NothingIs ==
    ASSUME NEW S
    PROVE  Nothing \in OfSome(S) /\ DOMAIN Nothing = {}
<1>1. Nothing \in [{} -> S]
  BY DEF Nothing
<1> QED
  BY <1>1 DEF OfSome, Nothing

LEMMA SubsetsFinite ==
    ASSUME NEW S \in SUBSET Expenses
    PROVE  IsFiniteSet(S) /\ Cardinality(S) \in Nat
BY SizeAssumption, FS_Subset, FS_CardinalityType

(* LIMIT n returns at most n of the rows it chooses among.                     *)
LEMMA OldestBounded ==
    ASSUME NEW S \in SUBSET Expenses, NEW n \in Nat
    PROVE  /\ Oldest(S, n) \in SUBSET S
           /\ Cardinality(Oldest(S, n)) =< n
<1> DEFINE Before(e) == {f \in S : f < e}
           O == Oldest(S, n)
           rank == [e \in O |-> Cardinality(Before(e))]
<1>1. O \in SUBSET S
  BY DEF Oldest
<1>2. ASSUME NEW e \in O PROVE Cardinality(Before(e)) \in 0 .. (n - 1)
  <2>1. Cardinality(Before(e)) \in Nat
    BY SubsetsFinite
  <2>2. Cardinality(Before(e)) < n
    BY DEF Oldest
  <2> QED
    BY <2>1, <2>2
<1>3. ASSUME NEW e \in O, NEW g \in O, e < g
      PROVE  Cardinality(Before(e)) < Cardinality(Before(g))
  <2>0. e \in Nat /\ g \in Nat /\ S \subseteq Nat /\ e \in S /\ g \in S
    BY <1>1, SizeAssumption
  <2>1. Before(e) \cup {e} \in SUBSET Before(g)
    <3>1. \A f \in S : f < e => f < g
      BY <1>3, <2>0
    <3> QED
      BY <1>3, <2>0, <3>1
  <2>2. IsFiniteSet(Before(e)) /\ IsFiniteSet(Before(g))
    BY SubsetsFinite
  <2>3. Cardinality(Before(e) \cup {e}) = Cardinality(Before(e)) + 1
    <3>1. e \notin Before(e)
      BY <2>0
    <3> HIDE DEF Before
    <3> QED
      BY <2>2, <3>1, FS_AddElement
  <2>4. Cardinality(Before(e) \cup {e}) =< Cardinality(Before(g))
    <3> HIDE DEF Before
    <3> QED
      BY <2>1, <2>2, FS_Subset
  <2>5. Cardinality(Before(e)) \in Nat /\ Cardinality(Before(g)) \in Nat
    BY SubsetsFinite
  <2> HIDE DEF Before
  <2> QED
    BY <2>3, <2>4, <2>5
<1>4. rank \in Injection(O, 0 .. (n - 1))
  <2>1. rank \in [O -> 0 .. (n - 1)]
    BY <1>2
  <2>2. ASSUME NEW e \in O, NEW g \in O, rank[e] = rank[g] PROVE e = g
    <3>1. e \in Nat /\ g \in Nat
      BY <1>1, SizeAssumption
    <3>2. /\ Cardinality(Before(e)) \in Nat /\ Cardinality(Before(g)) \in Nat
          /\ Cardinality(Before(e)) = Cardinality(Before(g))
      BY <1>2, <2>2
    <3>3. ~(e < g) /\ ~(g < e)
      <4> HIDE DEF Before, O
      <4> QED
        BY <1>3, <3>2
    <3> QED
      BY <3>1, <3>3
  <2> QED
    BY <2>1, <2>2 DEF Injection, IsInjective
<1>5. IsFiniteSet(0 .. (n - 1)) /\ Cardinality(0 .. (n - 1)) = n
  BY FS_Interval
<1>6. Cardinality(O) =< n
  <2> HIDE DEF rank, O
  <2> QED
    BY <1>4, <1>5, FS_Injection
<1> QED
  BY <1>1, <1>6

LEMMA ResetTyped ==
    ASSUME NEW x \in Expense
    PROVE  /\ Reset(x) \in Expense
           /\ Reset(x).explanation = None /\ Reset(x).batch_id = None
           /\ Reset(x).explained_at = FALSE /\ Reset(x).severity = x.severity
BY DEF Reset, Expense

LEMMA AnalyzedTyped ==
    ASSUME NEW x \in Expense, NEW severity \in Severities
    PROVE  /\ Analyzed(x, severity) \in Expense
           /\ Analyzed(x, severity).batch_id \in {x.batch_id, None}
           /\ Analyzed(x, severity).explained_at \in {x.explained_at, FALSE}
           /\ Analyzed(x, severity).batch_id # None
              => Analyzed(x, severity).explained_at = x.explained_at
<1>1. CASE x.severity = severity
  BY <1>1 DEF Analyzed
<1>2. CASE x.severity # severity
  <2> DEFINE r == Reset(x)
             y == [r EXCEPT !.severity = severity, !.reviewed = None]
  <2>1. r \in Expense /\ r.batch_id = None /\ r.explained_at = FALSE
    BY ResetTyped
  <2>2. Analyzed(x, severity) = y
    BY <1>2 DEF Analyzed
  <2>3. y \in Expense /\ y.batch_id = None /\ y.explained_at = FALSE
    <3> HIDE DEF r
    <3> QED
      BY <2>1 DEF Expense
  <2> QED
    BY <2>2, <2>3
<1> QED
  BY <1>1, <1>2

(* A flush keeps the batch id or clears it, and the same of the date: it       *)
(* never sets them.                                                            *)
LEMMA FlushedTyped ==
    ASSUME NEW x \in Expense, NEW loaded \in Expense, NEW severity \in Severities
    PROVE  /\ Flushed(x, loaded, severity) \in Expense
           /\ Flushed(x, loaded, severity).batch_id \in {x.batch_id, None}
           /\ Flushed(x, loaded, severity).explained_at \in {x.explained_at, FALSE}
<1> DEFINE y == Analyzed(loaded, severity)
<1>1. /\ y \in Expense
      /\ y.batch_id \in {loaded.batch_id, None}
      /\ y.explained_at \in {loaded.explained_at, FALSE}
  BY AnalyzedTyped
<1> HIDE DEF y
<1>2. Flushed(x, loaded, severity) =
      [x EXCEPT !.severity = IF y.severity = loaded.severity THEN @ ELSE y.severity,
                !.explanation = IF y.explanation = loaded.explanation THEN @ ELSE y.explanation,
                !.explained_at = IF y.explained_at = loaded.explained_at THEN @ ELSE y.explained_at,
                !.batch_id = IF y.batch_id = loaded.batch_id THEN @ ELSE y.batch_id,
                !.reviewed = IF y.reviewed = loaded.reviewed THEN @ ELSE y.reviewed]
  BY DEF Flushed, y
<1> QED
  BY <1>1, <1>2 DEF Expense

LEMMA StoredTyped ==
    ASSUME NEW x \in Expense, NEW outcome, NEW subject \in Subject,
           NEW by \in Replicas \cup Batches
    PROVE  /\ Stored(x, outcome, subject, by) \in Expense
           /\ Stored(x, outcome, subject, by).batch_id = None
<1> DEFINE t == IF outcome = "explained" THEN [about |-> subject, by |-> by] ELSE None
<1>1. t \in Explanation \cup {None}
  BY DEF Explanation
<1> HIDE DEF t
<1>2. Stored(x, outcome, subject, by) =
      [x EXCEPT !.explanation = t, !.explained_at = TRUE, !.batch_id = None]
  BY DEF Stored, t
<1> QED
  BY <1>1, <1>2 DEF Expense

LEMMA GrantedBounded ==
    ASSUME NEW wanted \in Nat, NEW spent \in Nat, spent =< DailyLimit
    PROVE  /\ Granted(wanted, spent) \in Nat
           /\ spent + Granted(wanted, spent) =< DailyLimit
BY SizeAssumption DEF Granted

-----------------------------------------------------------------------------
(* The three parts of a state that steps change: rows, runs, batches.          *)

(* A step that only writes rows.                                               *)
LEMMA RowStep ==
    ASSUME ExplanationsTypeOK, ReferencesHold,
           expense' \in [Expenses -> Expense \cup {None}],
           \A e \in Expenses : expense[e] # None => expense'[e] # None,
           \A e \in Expenses : expense'[e] # None /\ expense'[e].batch_id # None
                               => batch[expense'[e].batch_id] # None,
           UNCHANGED <<batch, run, recompute, day, used, sent>>
    PROVE  ExplanationsTypeOK' /\ ReferencesHold'
<1>1. ExplanationsTypeOK'
  BY DEF ExplanationsTypeOK
<1>2. \A p \in Replicas : run[p].items \subseteq Expenses
  BY DEF ExplanationsTypeOK, Run
<1>3. \A q \in Recomputes : DOMAIN recompute[q] \subseteq Expenses
  BY DEF ExplanationsTypeOK, OfSome
<1>4. ReferencesHold'
  BY <1>2, <1>3 DEF ReferencesHold
<1> QED
  BY <1>1, <1>4

(* What may be put in the place of a run.                                      *)
RunIsSound(r) ==
    /\ r \in Run
    /\ DOMAIN r.subject = r.items
    /\ r.pc = "answered" => DOMAIN r.outcome = r.items
    /\ r.pc = "submitted" => r.batch \in Batches /\ batch'[r.batch] # None
    /\ \A e \in r.items : expense'[e] # None

LEMMA RunStepSound ==
    ASSUME ExplanationsTypeOK, ReferencesHold,
           NEW p \in Replicas, NEW r, RunIsSound(r), run' = [run EXCEPT ![p] = r],
           batch' \in [Batches -> Sent \cup {None}],
           \A b \in Batches : batch[b] # None => batch'[b] # None
    PROVE  /\ run' \in [Replicas -> Run]
           /\ \A o \in Replicas :
                 /\ DOMAIN run'[o].subject = run'[o].items
                 /\ run'[o].pc = "answered" => DOMAIN run'[o].outcome = run'[o].items
                 /\ run'[o].pc = "submitted"
                    => run'[o].batch \in Batches /\ batch'[run'[o].batch] # None
                 /\ (\A e \in Expenses : expense[e] # None => expense'[e] # None)
                    => \A e \in run'[o].items : expense'[e] # None
<1>1. run \in [Replicas -> Run]
  BY DEF ExplanationsTypeOK
<1>2. run' \in [Replicas -> Run]
  BY <1>1 DEF RunIsSound
<1>3. ASSUME NEW o \in Replicas
      PROVE  /\ DOMAIN run'[o].subject = run'[o].items
             /\ run'[o].pc = "answered" => DOMAIN run'[o].outcome = run'[o].items
             /\ run'[o].pc = "submitted"
                => run'[o].batch \in Batches /\ batch'[run'[o].batch] # None
             /\ (\A e \in Expenses : expense[e] # None => expense'[e] # None)
                => \A e \in run'[o].items : expense'[e] # None
  <2>1. CASE o = p
    <3>1. run'[o] = r
      BY <1>1, <2>1
    <3> QED
      BY <3>1 DEF RunIsSound
  <2>2. CASE o # p
    <3>1. run'[o] = run[o]
      BY <1>1, <2>2
    <3>2. run[o].items \subseteq Expenses
      BY <1>1 DEF Run
    <3> QED
      BY <3>1, <3>2 DEF ExplanationsTypeOK, ReferencesHold
  <2> QED
    BY <2>1, <2>2
<1> QED
  BY <1>2, <1>3

LEMMA IdleSound == RunIsSound(Idle)
BY NothingIs, SizeAssumption DEF RunIsSound, Idle, Run

(* A step of a run, with the rows and the batches it writes.                   *)
LEMMA RunWrites ==
    ASSUME ExplanationsTypeOK, ReferencesHold,
           NEW p \in Replicas, NEW r, RunIsSound(r), run' = [run EXCEPT ![p] = r],
           expense' \in [Expenses -> Expense \cup {None}],
           \A e \in Expenses : expense[e] # None => expense'[e] # None,
           \A e \in Expenses : expense'[e] # None /\ expense'[e].batch_id # None
                               => batch'[expense'[e].batch_id] # None,
           batch' \in [Batches -> Sent \cup {None}],
           \A b \in Batches : batch[b] # None => batch'[b] # None,
           \A b \in Batches : batch'[b] # None =>
              /\ DOMAIN batch'[b].subject = batch'[b].items
              /\ batch'[b].state = "ended" => DOMAIN batch'[b].outcome = batch'[b].items,
           UNCHANGED <<recompute, day>>,
           used' \in [0 .. MaxDay -> Nat], sent' \in [0 .. MaxDay -> Nat]
    PROVE  ExplanationsTypeOK' /\ ReferencesHold'
<1>1. /\ run' \in [Replicas -> Run]
      /\ \A o \in Replicas :
            /\ DOMAIN run'[o].subject = run'[o].items
            /\ run'[o].pc = "answered" => DOMAIN run'[o].outcome = run'[o].items
            /\ run'[o].pc = "submitted"
               => run'[o].batch \in Batches /\ batch'[run'[o].batch] # None
            /\ \A e \in run'[o].items : expense'[e] # None
  BY RunStepSound
<1>2. \A q \in Recomputes : DOMAIN recompute[q] \subseteq Expenses
  BY DEF ExplanationsTypeOK, OfSome
<1>3. ExplanationsTypeOK'
  BY <1>1 DEF ExplanationsTypeOK
<1>4. ReferencesHold'
  BY <1>1, <1>2 DEF ReferencesHold, ExplanationsTypeOK
<1> QED
  BY <1>3, <1>4

(* The same when it writes neither batches nor the budget.                     *)
LEMMA RunWritesRows ==
    ASSUME ExplanationsTypeOK, ReferencesHold,
           NEW p \in Replicas, NEW r, RunIsSound(r), run' = [run EXCEPT ![p] = r],
           expense' \in [Expenses -> Expense \cup {None}],
           \A e \in Expenses : expense[e] # None => expense'[e] # None,
           \A e \in Expenses : expense'[e] # None /\ expense'[e].batch_id # None
                               => batch[expense'[e].batch_id] # None,
           UNCHANGED <<batch, recompute, day, used, sent>>
    PROVE  ExplanationsTypeOK' /\ ReferencesHold'
<1>1. /\ batch' \in [Batches -> Sent \cup {None}]
      /\ \A b \in Batches : batch[b] # None => batch'[b] # None
      /\ \A b \in Batches : batch'[b] # None =>
            /\ DOMAIN batch'[b].subject = batch'[b].items
            /\ batch'[b].state = "ended" => DOMAIN batch'[b].outcome = batch'[b].items
  BY DEF ExplanationsTypeOK
<1>2. used' \in [0 .. MaxDay -> Nat] /\ sent' \in [0 .. MaxDay -> Nat]
  BY DEF ExplanationsTypeOK
<1>3. \A e \in Expenses : expense'[e] # None /\ expense'[e].batch_id # None
                          => batch'[expense'[e].batch_id] # None
  OBVIOUS
<1> QED
  BY <1>1, <1>2, <1>3, RunWrites

(* The same when it only goes on.                                              *)
LEMMA RunGoesOn ==
    ASSUME ExplanationsTypeOK, ReferencesHold,
           NEW p \in Replicas, NEW r, RunIsSound(r), run' = [run EXCEPT ![p] = r],
           UNCHANGED <<expense, batch, recompute, day, used, sent>>
    PROVE  ExplanationsTypeOK' /\ ReferencesHold'
<1>1. /\ expense' \in [Expenses -> Expense \cup {None}]
      /\ \A e \in Expenses : expense[e] # None => expense'[e] # None
      /\ \A e \in Expenses : expense'[e] # None /\ expense'[e].batch_id # None
                             => batch[expense'[e].batch_id] # None
  BY DEF ExplanationsTypeOK, ReferencesHold
<1> QED
  BY <1>1, RunWritesRows

LEMMA BatchStoredTyped ==
    ASSUME ExplanationsTypeOK, ReferencesHold, NEW e \in Expenses, NEW b \in Batches
    PROVE  /\ BatchStored(expense[e], e, b) \in Expense \cup {None}
           /\ BatchStored(expense[e], e, b) = None <=> expense[e] = None
           /\ \/ BatchStored(expense[e], e, b) = expense[e]
              \/ BatchStored(expense[e], e, b).batch_id = None
<1> DEFINE x == expense[e]
           stores == /\ batch[b].state = "ended" /\ e \in batch[b].items
                     /\ batch[b].outcome[e] # "errored" /\ ~x.explained_at /\ ~x.deleted
<1>1. CASE x = None \/ x.batch_id # b
  <2>1. BatchStored(x, e, b) = x
    BY <1>1 DEF BatchStored
  <2> QED
    BY <2>1 DEF ExplanationsTypeOK
<1>2. CASE x # None /\ x.batch_id = b
  <2>1. x \in Expense
    BY <1>2 DEF ExplanationsTypeOK
  <2>2. b # None
    BY NoneAssumption
  <2>3. batch[b] # None
    BY <1>2, <2>2 DEF ReferencesHold
  <2>4. CASE stores
    <3>1. BatchStored(x, e, b) = Stored(x, batch[b].outcome[e], batch[b].subject[e], b)
      BY <1>2, <2>4 DEF BatchStored
    <3>2. batch[b].subject[e] \in Subject
      <4>1. batch[b] \in Sent /\ DOMAIN batch[b].subject = batch[b].items
        BY <2>3 DEF ExplanationsTypeOK
      <4>2. PICK D \in SUBSET Expenses : batch[b].subject \in [D -> Subject]
        BY <4>1 DEF Sent, OfSome
      <4> QED
        BY <2>4, <4>1, <4>2
    <3>3. /\ Stored(x, batch[b].outcome[e], batch[b].subject[e], b) \in Expense
          /\ Stored(x, batch[b].outcome[e], batch[b].subject[e], b).batch_id = None
      BY <2>1, <3>2, StoredTyped
    <3> HIDE DEF x
    <3> QED
      BY <1>2, <3>1, <3>3, NoneAssumption DEF x
  <2>5. CASE ~stores
    <3>1. BatchStored(x, e, b) = [x EXCEPT !.batch_id = None]
      BY <1>2, <2>5 DEF BatchStored
    <3>2. [x EXCEPT !.batch_id = None] \in Expense /\ [x EXCEPT !.batch_id = None].batch_id = None
      <4> HIDE DEF x
      <4> QED
        BY <2>1 DEF Expense
    <3> QED
      BY <1>2, <3>1, <3>2, NoneAssumption
  <2> QED
    BY <2>4, <2>5
<1> QED
  BY <1>1, <1>2

-----------------------------------------------------------------------------
(* Types and references, action by action.                                     *)

LEMMA ExpenseStepTyped ==
    ASSUME ExplanationsTypeOK, ReferencesHold, ExpenseStep
    PROVE  ExplanationsTypeOK' /\ ReferencesHold'
<1>0. /\ expense \in [Expenses -> Expense \cup {None}]
      /\ \A e \in Expenses : Exists(e) => expense[e] \in Expense /\ expense[e] # None
  BY DEF ExplanationsTypeOK, Exists
<1>r. \A e \in Expenses : expense[e] # None /\ expense[e].batch_id # None
                          => batch[expense[e].batch_id] # None
  BY DEF ReferencesHold
<1>n. \A x \in Expense : x # None
  BY NoneAssumption
<1>w. ASSUME NEW e \in Expenses, NEW y \in Expense, expense' = [expense EXCEPT ![e] = y],
             y.batch_id # None => expense[e] # None /\ y.batch_id = expense[e].batch_id,
             UNCHANGED <<batch, run, recompute, day, used, sent>>
      PROVE  ExplanationsTypeOK' /\ ReferencesHold'
  <2>1. expense' \in [Expenses -> Expense \cup {None}]
    BY <1>0, <1>w
  <2>2. \A f \in Expenses : expense[f] # None => expense'[f] # None
    BY <1>0, <1>n, <1>w
  <2>3. \A f \in Expenses : expense'[f] # None /\ expense'[f].batch_id # None
                            => batch[expense'[f].batch_id] # None
    BY <1>0, <1>r, <1>w
  <2> QED
    BY <1>w, <2>1, <2>2, <2>3, RowStep
<1>1. ASSUME NEW e \in Expenses, NEW content \in Contents, NEW severity \in Severities,
             CreateExpense(e, content, severity)
      PROVE  ExplanationsTypeOK' /\ ReferencesHold'
  <2> DEFINE y == [content |-> content, severity |-> severity, explanation |-> None,
                   explained_at |-> FALSE, batch_id |-> None, reviewed |-> None, deleted |-> FALSE]
  <2>1. y \in Expense /\ y.batch_id = None
    BY DEF Expense
  <2>2. expense' = [expense EXCEPT ![e] = y] /\ UNCHANGED <<batch, run, recompute, day, used, sent>>
    BY <1>1 DEF CreateExpense
  <2> HIDE DEF y
  <2> QED
    BY <1>w, <2>1, <2>2
<1>2. ASSUME NEW e \in Expenses, NEW content \in Contents, NEW severity \in Severities,
             UpdateExpense(e, content, severity)
      PROVE  ExplanationsTypeOK' /\ ReferencesHold'
  <2> DEFINE x == expense[e]
             y == IF content = x.content THEN x ELSE [Reset(x) EXCEPT !.content = content]
  <2>1. x \in Expense /\ x # None
    BY <1>0, <1>2 DEF UpdateExpense
  <2>2. y \in Expense /\ y.batch_id \in {x.batch_id, None}
    <3> DEFINE r == Reset(x)
    <3>1. r \in Expense /\ r.batch_id = None
      BY <2>1, ResetTyped
    <3>2. [r EXCEPT !.content = content] \in Expense /\ [r EXCEPT !.content = content].batch_id = None
      <4> HIDE DEF r
      <4> QED
        BY <3>1 DEF Expense
    <3> HIDE DEF r, x
    <3> QED
      BY <2>1, <3>2 DEF r
  <2>3. /\ Analyzed(y, severity) \in Expense
        /\ Analyzed(y, severity).batch_id \in {y.batch_id, None}
    <3> HIDE DEF y
    <3> QED
      BY <2>2, AnalyzedTyped
  <2>4. /\ expense' = [expense EXCEPT ![e] = Analyzed(y, severity)]
        /\ UNCHANGED <<batch, run, recompute, day, used, sent>>
    BY <1>2 DEF UpdateExpense
  <2> HIDE DEF y
  <2> QED
    BY <1>w, <2>1, <2>2, <2>3, <2>4
<1>3. ASSUME NEW e \in Expenses, DeleteExpense(e)
      PROVE  ExplanationsTypeOK' /\ ReferencesHold'
  <2>1. expense[e] \in Expense /\ expense[e] # None
    BY <1>0, <1>3 DEF DeleteExpense
  <2> DEFINE y == [expense[e] EXCEPT !.deleted = TRUE]
  <2>2. y \in Expense /\ y.batch_id = expense[e].batch_id
    BY <2>1 DEF Expense
  <2>3. expense' = [expense EXCEPT ![e] = y] /\ UNCHANGED <<batch, run, recompute, day, used, sent>>
    BY <1>3 DEF DeleteExpense
  <2> HIDE DEF y
  <2> QED
    BY <1>w, <2>1, <2>2, <2>3
<1>4. ASSUME NEW e \in Expenses, Review(e)
      PROVE  ExplanationsTypeOK' /\ ReferencesHold'
  <2>1. expense[e] \in Expense /\ expense[e] # None
    BY <1>0, <1>4 DEF Review
  <2> DEFINE y == [expense[e] EXCEPT !.reviewed = expense[e].severity]
  <2>2. y \in Expense /\ y.batch_id = expense[e].batch_id
    BY <2>1 DEF Expense
  <2>3. expense' = [expense EXCEPT ![e] = y] /\ UNCHANGED <<batch, run, recompute, day, used, sent>>
    BY <1>4 DEF Review
  <2> HIDE DEF y
  <2> QED
    BY <1>w, <2>1, <2>2, <2>3
<1>5. ASSUME NEW q \in Recomputes, NEW S \in SUBSET Expenses, LoadSignals(q, S)
      PROVE  ExplanationsTypeOK' /\ ReferencesHold'
  <2>1. PICK verdict \in [S -> Severities] :
           recompute' = [recompute EXCEPT ![q] =
              [e \in S |-> [row |-> expense[e], severity |-> verdict[e]]]]
    BY <1>5 DEF LoadSignals
  <2> DEFINE loaded == [e \in S |-> [row |-> expense[e], severity |-> verdict[e]]]
  <2>2. \A e \in S : expense[e] \in Expense /\ expense[e] # None
    BY <1>0, <1>5 DEF LoadSignals
  <2>3. loaded \in [S -> Loaded]
    BY <2>2 DEF Loaded
  <2>4. loaded \in OfSome(Loaded) /\ DOMAIN loaded = S
    BY <2>3 DEF OfSome
  <2>5. recompute' \in [Recomputes -> OfSome(Loaded)]
    <3> HIDE DEF loaded
    <3> QED
      BY <2>1, <2>4 DEF ExplanationsTypeOK, loaded
  <2>6. UNCHANGED <<expense, batch, run, day, used, sent>>
    BY <1>5 DEF LoadSignals
  <2>7. ExplanationsTypeOK'
    BY <2>5, <2>6 DEF ExplanationsTypeOK
  <2>8. \A o \in Recomputes : \A e \in DOMAIN recompute'[o] : expense[e] # None
    <3> TAKE o \in Recomputes
    <3>1. recompute \in [Recomputes -> OfSome(Loaded)]
      BY DEF ExplanationsTypeOK
    <3>2. CASE o = q
      <4>1. recompute'[o] = loaded
        BY <2>1, <3>1, <3>2
      <4> QED
        BY <2>2, <2>4, <4>1
    <3>3. CASE o # q
      BY <2>1, <3>1, <3>3 DEF ReferencesHold
    <3> QED
      BY <3>2, <3>3
  <2>9. ReferencesHold'
    BY <2>6, <2>8 DEF ReferencesHold
  <2> QED
    BY <2>7, <2>9
<1>6. ASSUME NEW q \in Recomputes, FlushRecompute(q)
      PROVE  ExplanationsTypeOK' /\ ReferencesHold'
  <2> DEFINE D == DOMAIN recompute[q]
             y(e) == Flushed(expense[e], recompute[q][e].row, recompute[q][e].severity)
  <2>1. D \subseteq Expenses /\ recompute[q] \in [D -> Loaded]
    <3>1. recompute[q] \in OfSome(Loaded)
      BY DEF ExplanationsTypeOK
    <3> QED
      BY <3>1 DEF OfSome
  <2>2. \A e \in D : expense[e] \in Expense
    BY <1>0, <2>1 DEF ReferencesHold
  <2>3. \A e \in D : y(e) \in Expense /\ y(e).batch_id \in {expense[e].batch_id, None}
    <3> TAKE e \in D
    <3>1. recompute[q][e].row \in Expense /\ recompute[q][e].severity \in Severities
      BY <2>1 DEF Loaded
    <3> QED
      BY <2>2, <3>1, FlushedTyped
  <2>4. expense' = [e \in Expenses |-> IF e \in D THEN y(e) ELSE expense[e]]
    BY <1>6 DEF FlushRecompute
  <2> HIDE DEF y
  <2>5. expense' \in [Expenses -> Expense \cup {None}]
    BY <1>0, <2>3, <2>4
  <2>6. \A e \in Expenses : expense[e] # None => expense'[e] # None
    BY <1>n, <2>3, <2>4
  <2>7. \A e \in Expenses : expense'[e] # None /\ expense'[e].batch_id # None
                            => batch[expense'[e].batch_id] # None
    BY <1>n, <1>r, <2>2, <2>3, <2>4
  <2>8. /\ recompute' = [recompute EXCEPT ![q] = Nothing]
        /\ UNCHANGED <<batch, run, day, used, sent>>
    BY <1>6 DEF FlushRecompute
  <2>9. ExplanationsTypeOK'
    BY <2>5, <2>8, NothingIs DEF ExplanationsTypeOK
  <2>10. \A p \in Replicas : run[p].items \subseteq Expenses
    BY DEF ExplanationsTypeOK, Run
  <2>11. \A o \in Recomputes : DOMAIN recompute'[o] \subseteq DOMAIN recompute[o]
    BY <2>8, NothingIs DEF ExplanationsTypeOK
  <2>12. \A o \in Recomputes : DOMAIN recompute[o] \subseteq Expenses
    BY DEF ExplanationsTypeOK, OfSome
  <2>13. ReferencesHold'
    BY <2>6, <2>7, <2>8, <2>10, <2>11, <2>12 DEF ReferencesHold
  <2> QED
    BY <2>9, <2>13
<1> QED
  BY <1>1, <1>2, <1>3, <1>4, <1>5, <1>6 DEF ExpenseStep

LEMMA RunFields ==
    ASSUME ExplanationsTypeOK, NEW p \in Replicas
    PROVE  /\ run[p] \in Run /\ run[p].items \in SUBSET Expenses /\ run[p].day \in 0 .. MaxDay
           /\ run[p].subject \in [run[p].items -> Subject]
           /\ IsFiniteSet(run[p].items) /\ Cardinality(run[p].items) \in Nat
<1>1. run[p] \in Run /\ DOMAIN run[p].subject = run[p].items
  BY DEF ExplanationsTypeOK
<1>2. PICK D \in SUBSET Expenses : run[p].subject \in [D -> Subject]
  BY <1>1 DEF Run, OfSome
<1>3. run[p].items \in SUBSET Expenses /\ run[p].day \in 0 .. MaxDay
  BY <1>1 DEF Run
<1>4. IsFiniteSet(run[p].items) /\ Cardinality(run[p].items) \in Nat
  BY <1>3, SubsetsFinite
<1> QED
  BY <1>1, <1>2, <1>3, <1>4

LEMMA SendTyped ==
    ASSUME ExplanationsTypeOK, NEW p \in Replicas, Send(p)
    PROVE  sent' \in [0 .. MaxDay -> Nat]
<1>1. run[p].day \in 0 .. MaxDay /\ Cardinality(run[p].items) \in Nat
  BY RunFields
<1> QED
  BY <1>1 DEF Send, ExplanationsTypeOK

LEMMA StartRunTyped ==
    ASSUME ExplanationsTypeOK, ReferencesHold, NEW p \in Replicas, StartRun(p)
    PROVE  ExplanationsTypeOK' /\ ReferencesHold'
<1> DEFINE t == {b \in Batches : \E e \in Expenses :
                    /\ expense[e] # None /\ expense[e].batch_id = b /\ ~expense[e].explained_at}
           r == [Idle EXCEPT !.pc = "polling", !.todo = t]
<1>1. run' = [run EXCEPT ![p] = r] /\ UNCHANGED <<expense, batch, recompute, day, used, sent>>
  BY DEF StartRun
<1>2. t \in SUBSET Batches
  OBVIOUS
<1> HIDE DEF t
<1>3. RunIsSound(r)
  BY <1>2, IdleSound DEF RunIsSound, Idle, Run
<1> QED
  BY <1>1, <1>3, RunGoesOn

LEMMA ReadPendingTyped ==
    ASSUME ExplanationsTypeOK, ReferencesHold, NEW p \in Replicas, ReadPending(p)
    PROVE  ExplanationsTypeOK' /\ ReferencesHold'
<1> DEFINE items == Oldest(Pending, DailyLimit)
           subject == [e \in items |-> SubjectOf(expense[e])]
           r == [Idle EXCEPT !.pc = "budgeting", !.items = items, !.subject = subject]
<1>1. run' = [run EXCEPT ![p] = r] /\ UNCHANGED <<expense, batch, recompute, day, used, sent>>
  BY DEF ReadPending
<1>2. items \in SUBSET Expenses /\ \A e \in items : expense[e] \in Expense /\ expense[e] # None
  BY DEF Oldest, Pending, Exists, ExplanationsTypeOK
<1>3. \A e \in items : SubjectOf(expense[e]) \in Subject
  BY <1>2 DEF SubjectOf, Subject, Expense
<1> HIDE DEF items
<1>4. subject \in [items -> Subject]
  BY <1>3
<1>5. subject \in OfSome(Subject) /\ DOMAIN subject = items
  BY <1>2, <1>4 DEF OfSome
<1>6. \A e \in items : expense'[e] # None
  BY <1>1, <1>2
<1> HIDE DEF subject
<1>7. RunIsSound(r)
  BY <1>2, <1>5, <1>6, IdleSound DEF RunIsSound, Idle, Run
<1> QED
  BY <1>1, <1>7, RunGoesOn

LEMMA ReserveBudgetTyped ==
    ASSUME ExplanationsTypeOK, ReferencesHold, used[day] =< DailyLimit,
           NEW p \in Replicas, ReserveBudget(p)
    PROVE  ExplanationsTypeOK' /\ ReferencesHold'
<1> DEFINE granted == Granted(Cardinality(run[p].items), used[day])
           items == Oldest(run[p].items, granted)
           subject == [e \in items |-> run[p].subject[e]]
           r == IF granted = 0 THEN Idle
                ELSE [Idle EXCEPT !.pc = "granted", !.items = items, !.day = day,
                                  !.subject = subject]
<1>1. /\ used' = [used EXCEPT ![day] = @ + granted]
      /\ run' = [run EXCEPT ![p] = r]
      /\ UNCHANGED <<expense, batch, recompute, day, sent>>
  BY DEF ReserveBudget
<1>2. granted \in Nat /\ day \in 0 .. MaxDay
  BY RunFields, GrantedBounded DEF ExplanationsTypeOK
<1>3. items \in SUBSET run[p].items
  BY DEF Oldest
<1> HIDE DEF granted, items
<1>4. subject \in [items -> Subject]
  BY <1>3, RunFields
<1>5. /\ subject \in OfSome(Subject) /\ DOMAIN subject = items
      /\ items \in SUBSET Expenses
  BY <1>3, <1>4, RunFields DEF OfSome
<1>6. \A e \in items : expense'[e] # None
  BY <1>1, <1>3 DEF ReferencesHold
<1> HIDE DEF subject
<1>7. RunIsSound([Idle EXCEPT !.pc = "granted", !.items = items, !.day = day,
                              !.subject = subject])
  BY <1>2, <1>5, <1>6, IdleSound DEF RunIsSound, Idle, Run
<1>8. RunIsSound(r)
  BY <1>7, IdleSound
<1> HIDE DEF r
<1>9. used' \in [0 .. MaxDay -> Nat]
  BY <1>1, <1>2 DEF ExplanationsTypeOK
<1>10. /\ expense' \in [Expenses -> Expense \cup {None}]
       /\ \A e \in Expenses : expense[e] # None => expense'[e] # None
       /\ batch' \in [Batches -> Sent \cup {None}]
       /\ \A b \in Batches : batch[b] # None => batch'[b] # None
       /\ \A b \in Batches : batch'[b] # None =>
             /\ DOMAIN batch'[b].subject = batch'[b].items
             /\ batch'[b].state = "ended" => DOMAIN batch'[b].outcome = batch'[b].items
       /\ sent' \in [0 .. MaxDay -> Nat] /\ UNCHANGED <<recompute, day>>
  BY <1>1 DEF ExplanationsTypeOK
<1>11. \A e \in Expenses : expense'[e] # None /\ expense'[e].batch_id # None
                           => batch'[expense'[e].batch_id] # None
  BY <1>1 DEF ReferencesHold
<1> QED
  BY <1>1, <1>8, <1>9, <1>10, <1>11, RunWrites

LEMMA SubmitBatchTyped ==
    ASSUME ExplanationsTypeOK, ReferencesHold, NEW p \in Replicas, NEW b \in Batches,
           SubmitBatch(p, b)
    PROVE  ExplanationsTypeOK' /\ ReferencesHold'
<1> DEFINE s == [state |-> "processing", items |-> run[p].items,
                 subject |-> run[p].subject, outcome |-> Nothing]
           r == [run[p] EXCEPT !.pc = "submitted", !.batch = b]
<1>0. /\ batch' = [batch EXCEPT ![b] = s]
      /\ run' = [run EXCEPT ![p].pc = "submitted", ![p].batch = b]
      /\ Send(p) /\ UNCHANGED <<expense, recompute, day, used>>
  BY DEF SubmitBatch
<1>1. run' = [run EXCEPT ![p] = r]
  BY <1>0 DEF ExplanationsTypeOK
<1>2. /\ run[p] \in Run /\ run[p].items \in SUBSET Expenses
      /\ run[p].subject \in [run[p].items -> Subject]
  BY RunFields
<1>3. s \in Sent /\ s # None /\ DOMAIN s.subject = s.items /\ s.state # "ended"
  <2>1. run[p].subject \in OfSome(Subject)
    BY <1>2 DEF OfSome
  <2>2. s \in Sent
    BY <1>2, <2>1, NothingIs DEF Sent
  <2> QED
    BY <1>2, <2>2, NoneAssumption
<1> HIDE DEF s
<1>4. /\ batch' \in [Batches -> Sent \cup {None}] /\ batch'[b] = s
      /\ \A c \in Batches : c # b => batch'[c] = batch[c]
  BY <1>0, <1>3 DEF ExplanationsTypeOK
<1>5. /\ \A c \in Batches : batch[c] # None => batch'[c] # None
      /\ \A c \in Batches : batch'[c] # None =>
            /\ DOMAIN batch'[c].subject = batch'[c].items
            /\ batch'[c].state = "ended" => DOMAIN batch'[c].outcome = batch'[c].items
  BY <1>3, <1>4 DEF ExplanationsTypeOK
<1>6. RunIsSound(r)
  <2>1. r \in Run /\ r.pc = "submitted" /\ r.batch = b /\ r.items = run[p].items
        /\ DOMAIN r.subject = r.items
    BY <1>2 DEF Run
  <2>2. \A e \in r.items : expense'[e] # None
    BY <1>0, <2>1 DEF ReferencesHold
  <2> HIDE DEF r
  <2> QED
    BY <1>3, <1>4, <2>1, <2>2 DEF RunIsSound
<1>7. /\ expense' \in [Expenses -> Expense \cup {None}]
      /\ \A e \in Expenses : expense[e] # None => expense'[e] # None
      /\ used' \in [0 .. MaxDay -> Nat] /\ UNCHANGED <<recompute, day>>
  BY <1>0 DEF ExplanationsTypeOK
<1>8. \A e \in Expenses : expense'[e] # None /\ expense'[e].batch_id # None
                          => batch'[expense'[e].batch_id] # None
  <2> SUFFICES ASSUME NEW e \in Expenses, expense[e] # None, expense[e].batch_id # None
               PROVE  batch'[expense[e].batch_id] # None
    BY <1>0
  <2>1. batch[expense[e].batch_id] # None /\ expense[e].batch_id \in Batches
    BY DEF ReferencesHold, ExplanationsTypeOK, Expense
  <2> QED
    BY <1>5, <2>1
<1>9. sent' \in [0 .. MaxDay -> Nat]
  BY <1>0, SendTyped
<1> HIDE DEF r
<1> QED
  BY <1>1, <1>4, <1>5, <1>6, <1>7, <1>8, <1>9, RunWrites

LEMMA CollectTyped ==
    ASSUME ExplanationsTypeOK, ReferencesHold, NEW p \in Replicas, NEW b \in Batches,
           SkipBatch(p, b) \/ Collect(p, b)
    PROVE  ExplanationsTypeOK' /\ ReferencesHold'
<1> DEFINE r == [run[p] EXCEPT !.todo = @ \ {b}]
<1>1. run' = [run EXCEPT ![p] = r] /\ UNCHANGED <<batch, recompute, day, used, sent>>
  BY DEF SkipBatch, Collect, ExplanationsTypeOK
<1>2. /\ expense' \in [Expenses -> Expense \cup {None}]
      /\ \A e \in Expenses : expense[e] # None => expense'[e] # None
      /\ \A e \in Expenses : expense'[e] # None /\ expense'[e].batch_id # None
                             => expense'[e] = expense[e]
  <2>1. CASE SkipBatch(p, b)
    BY <2>1 DEF SkipBatch, ExplanationsTypeOK
  <2>2. CASE Collect(p, b)
    <3>1. expense' = [e \in Expenses |-> BatchStored(expense[e], e, b)]
      BY <2>2 DEF Collect
    <3> QED
      BY <3>1, BatchStoredTyped
  <2> QED
    BY <2>1, <2>2
<1>3. RunIsSound(r)
  <2>1. run[p] \in Run
    BY RunFields
  <2>2. /\ r \in Run /\ r.pc = run[p].pc /\ r.items = run[p].items /\ r.batch = run[p].batch
        /\ r.subject = run[p].subject /\ r.outcome = run[p].outcome
    BY <2>1 DEF Run
  <2>3. \A e \in r.items : expense'[e] # None
    BY <1>2, <2>2, RunFields DEF ReferencesHold
  <2> HIDE DEF r
  <2> QED
    BY <1>1, <2>2, <2>3 DEF RunIsSound, ExplanationsTypeOK, ReferencesHold
<1>4. \A e \in Expenses : expense'[e] # None /\ expense'[e].batch_id # None
                          => batch[expense'[e].batch_id] # None
  BY <1>2 DEF ReferencesHold
<1> HIDE DEF r
<1> QED
  BY <1>1, <1>2, <1>3, <1>4, RunWritesRows

LEMMA AttachBatchTyped ==
    ASSUME ExplanationsTypeOK, ReferencesHold, NEW p \in Replicas, AttachBatch(p)
    PROVE  ExplanationsTypeOK' /\ ReferencesHold'
<1> DEFINE b == run[p].batch
           takes(e) == e \in run[p].items /\ ~expense[e].explained_at /\ expense[e].batch_id = None
           y(e) == [expense[e] EXCEPT !.batch_id = b]
<1>1. b \in Batches /\ batch[b] # None
  BY DEF AttachBatch, ExplanationsTypeOK, ReferencesHold
<1>2. \A e \in run[p].items : e \in Expenses /\ expense[e] \in Expense /\ expense[e] # None
  BY RunFields DEF ExplanationsTypeOK, ReferencesHold
<1>3. /\ expense' = [e \in Expenses |-> IF takes(e) THEN y(e) ELSE expense[e]]
      /\ run' = [run EXCEPT ![p] = Idle]
      /\ UNCHANGED <<batch, recompute, day, used, sent>>
  BY DEF AttachBatch, EndRun
<1> HIDE DEF b
<1>4. \A e \in run[p].items : y(e) \in Expense /\ y(e).batch_id = b /\ y(e) # None
  BY <1>1, <1>2, NoneAssumption DEF Expense
<1>5. /\ expense' \in [Expenses -> Expense \cup {None}]
      /\ \A e \in Expenses : expense[e] # None => expense'[e] # None
      /\ \A e \in Expenses : expense'[e] # None /\ expense'[e].batch_id # None
                             => batch[expense'[e].batch_id] # None
  <2> HIDE DEF y
  <2> QED
    BY <1>1, <1>2, <1>3, <1>4 DEF ExplanationsTypeOK, ReferencesHold
<1> QED
  BY <1>3, <1>5, IdleSound, RunWritesRows

LEMMA ExplainEachTyped ==
    ASSUME ExplanationsTypeOK, ReferencesHold, NEW p \in Replicas, ExplainEach(p)
    PROVE  ExplanationsTypeOK' /\ ReferencesHold'
<1>1. PICK outcome \in [run[p].items -> Outcomes] :
         run' = [run EXCEPT ![p].pc = "answered", ![p].outcome = outcome]
  BY DEF ExplainEach
<1> DEFINE r == [run[p] EXCEPT !.pc = "answered", !.outcome = outcome]
<1>2. run' = [run EXCEPT ![p] = r]
  BY <1>1 DEF ExplanationsTypeOK
<1>3. RunIsSound(r)
  <2>1. run[p] \in Run /\ run[p].items \in SUBSET Expenses
    BY RunFields
  <2>2. outcome \in OfSome(Outcomes)
    BY <2>1 DEF OfSome
  <2>3. /\ r \in Run /\ r.pc = "answered" /\ r.items = run[p].items
        /\ r.subject = run[p].subject /\ DOMAIN r.outcome = r.items
    BY <2>1, <2>2 DEF Run
  <2>4. \A e \in r.items : expense'[e] # None
    BY <2>3 DEF ExplainEach, ReferencesHold
  <2> HIDE DEF r
  <2> QED
    BY <2>3, <2>4 DEF RunIsSound, ExplanationsTypeOK
<1>4. sent' \in [0 .. MaxDay -> Nat]
  BY SendTyped DEF ExplainEach
<1>5. UNCHANGED <<expense, batch, recompute, day, used>>
  BY DEF ExplainEach
<1>6. /\ expense' \in [Expenses -> Expense \cup {None}]
      /\ \A e \in Expenses : expense[e] # None => expense'[e] # None
      /\ batch' \in [Batches -> Sent \cup {None}]
      /\ \A b \in Batches : batch[b] # None => batch'[b] # None
      /\ \A b \in Batches : batch'[b] # None =>
            /\ DOMAIN batch'[b].subject = batch'[b].items
            /\ batch'[b].state = "ended" => DOMAIN batch'[b].outcome = batch'[b].items
      /\ used' \in [0 .. MaxDay -> Nat] /\ UNCHANGED <<recompute, day>>
  BY <1>5 DEF ExplanationsTypeOK
<1>7. \A e \in Expenses : expense'[e] # None /\ expense'[e].batch_id # None
                          => batch'[expense'[e].batch_id] # None
  BY <1>5 DEF ReferencesHold
<1> HIDE DEF r
<1> QED
  BY <1>2, <1>3, <1>4, <1>6, <1>7, RunWrites

LEMMA SaveEachTyped ==
    ASSUME ExplanationsTypeOK, ReferencesHold, NEW p \in Replicas, SaveEach(p)
    PROVE  ExplanationsTypeOK' /\ ReferencesHold'
<1> DEFINE saves(e) == /\ e \in run[p].items /\ run[p].outcome[e] # "errored"
                       /\ StillAsRead(expense[e], run[p].subject[e])
           y(e) == Stored(expense[e], run[p].outcome[e], run[p].subject[e], p)
<1>1. /\ expense' = [e \in Expenses |-> IF saves(e) THEN y(e) ELSE expense[e]]
      /\ run' = [run EXCEPT ![p] = Idle]
      /\ UNCHANGED <<batch, recompute, day, used, sent>>
  BY DEF SaveEach, EndRun
<1>2. \A e \in run[p].items : /\ e \in Expenses /\ expense[e] \in Expense /\ expense[e] # None
                              /\ run[p].subject[e] \in Subject
  BY RunFields DEF ExplanationsTypeOK, ReferencesHold
<1>3. \A e \in run[p].items : y(e) \in Expense /\ y(e).batch_id = None /\ y(e) # None
  BY <1>2, StoredTyped, NoneAssumption
<1>4. /\ expense' \in [Expenses -> Expense \cup {None}]
      /\ \A e \in Expenses : expense[e] # None => expense'[e] # None
      /\ \A e \in Expenses : expense'[e] # None /\ expense'[e].batch_id # None
                             => batch[expense'[e].batch_id] # None
  <2> DEFINE Writes(e) == saves(e)
  <2>0. \A e \in Expenses : Writes(e) => e \in run[p].items
    OBVIOUS
  <2>1. expense' = [e \in Expenses |-> IF Writes(e) THEN y(e) ELSE expense[e]]
    BY <1>1
  <2> HIDE DEF y, Writes
  <2> QED
    BY <1>3, <2>0, <2>1 DEF ExplanationsTypeOK, ReferencesHold
<1> QED
  BY <1>1, <1>4, IdleSound, RunWritesRows

LEMMA AbortRunTyped ==
    ASSUME ExplanationsTypeOK, ReferencesHold, NEW p \in Replicas, AbortRun(p)
    PROVE  ExplanationsTypeOK' /\ ReferencesHold'
BY IdleSound, RunGoesOn DEF AbortRun, EndRun

LEMMA ProviderTyped ==
    ASSUME ExplanationsTypeOK, ReferencesHold, NEW b \in Batches, EndBatch(b) \/ LoseBatch(b)
    PROVE  ExplanationsTypeOK' /\ ReferencesHold'
<1>1. batch[b] # None /\ batch[b] \in Sent
  BY DEF EndBatch, LoseBatch, ExplanationsTypeOK
<1>2. UNCHANGED <<expense, run, recompute, day, used, sent>>
  BY DEF EndBatch, LoseBatch
<1>3. \E s \in Sent : /\ batch' = [batch EXCEPT ![b] = s]
                      /\ DOMAIN s.subject = s.items
                      /\ s.state = "ended" => DOMAIN s.outcome = s.items
  <2>1. CASE EndBatch(b)
    <3>1. PICK outcome \in [batch[b].items -> Outcomes] :
             batch' = [batch EXCEPT ![b].state = "ended", ![b].outcome = outcome]
      BY <2>1 DEF EndBatch
    <3> DEFINE s == [batch[b] EXCEPT !.state = "ended", !.outcome = outcome]
    <3>2. outcome \in OfSome(Outcomes)
      BY <1>1 DEF Sent, OfSome
    <3>3. /\ s \in Sent /\ s.items = batch[b].items /\ s.subject = batch[b].subject
          /\ DOMAIN s.outcome = s.items
      BY <1>1, <3>2 DEF Sent
    <3>4. batch' = [batch EXCEPT ![b] = s]
      BY <3>1 DEF ExplanationsTypeOK
    <3> HIDE DEF s
    <3> QED
      BY <1>1, <3>3, <3>4 DEF ExplanationsTypeOK
  <2>2. CASE LoseBatch(b)
    <3> DEFINE s == [batch[b] EXCEPT !.state = "gone"]
    <3>1. s \in Sent /\ s.items = batch[b].items /\ s.subject = batch[b].subject /\ s.state = "gone"
      BY <1>1 DEF Sent
    <3>2. batch' = [batch EXCEPT ![b] = s]
      BY <2>2 DEF LoseBatch, ExplanationsTypeOK
    <3> HIDE DEF s
    <3> QED
      BY <1>1, <3>1, <3>2 DEF ExplanationsTypeOK
  <2> QED
    BY <2>1, <2>2
<1>4. PICK s \in Sent : /\ batch' = [batch EXCEPT ![b] = s]
                        /\ DOMAIN s.subject = s.items
                        /\ s.state = "ended" => DOMAIN s.outcome = s.items
  BY <1>3
<1>5. s # None
  BY NoneAssumption
<1>6. /\ batch' \in [Batches -> Sent \cup {None}] /\ batch'[b] = s
      /\ \A c \in Batches : c # b => batch'[c] = batch[c]
  BY <1>4 DEF ExplanationsTypeOK
<1>7. \A c \in Batches : batch[c] # None => batch'[c] # None
  BY <1>5, <1>6
<1>8. ExplanationsTypeOK'
  BY <1>2, <1>4, <1>6 DEF ExplanationsTypeOK
<1>9. ReferencesHold'
  <2>1. \A e \in Expenses : expense[e] # None /\ expense[e].batch_id # None
                            => expense[e].batch_id \in Batches
    BY DEF ExplanationsTypeOK, Expense
  <2>2. \A p \in Replicas : run[p].pc = "submitted" => run[p].batch \in Batches
    BY DEF ExplanationsTypeOK
  <2> QED
    BY <1>2, <1>7, <2>1, <2>2 DEF ReferencesHold
<1> QED
  BY <1>8, <1>9

LEMMA NewDayTyped ==
    ASSUME ExplanationsTypeOK, ReferencesHold, NewDay
    PROVE  ExplanationsTypeOK' /\ ReferencesHold'
<1>1. day' \in 0 .. MaxDay
  BY SizeAssumption DEF NewDay, ExplanationsTypeOK
<1>2. UNCHANGED <<expense, batch, run, recompute, used, sent>>
  BY DEF NewDay
<1> QED
  BY <1>1, <1>2 DEF ExplanationsTypeOK, ReferencesHold

-----------------------------------------------------------------------------
(* No row has both an answer and a batch.                                      *)

RowInFlight(x) == x # None /\ x.batch_id # None => ~x.explained_at

LEMMA InFlightStep ==
    ASSUME ExplanationsTypeOK, ReferencesHold, InFlightIsUnanswered, [Next]_vars
    PROVE  InFlightIsUnanswered'
<1>0. /\ expense \in [Expenses -> Expense \cup {None}]
      /\ \A e \in Expenses : RowInFlight(expense[e])
      /\ \A e \in Expenses : Exists(e) => expense[e] \in Expense /\ expense[e] # None
  BY DEF ExplanationsTypeOK, InFlightIsUnanswered, RowInFlight, Exists
<1>w. ASSUME \A e \in Expenses : RowInFlight(expense'[e]) PROVE InFlightIsUnanswered'
  BY <1>w DEF InFlightIsUnanswered, RowInFlight
<1>1. CASE UNCHANGED expense
  BY <1>0, <1>1, <1>w
<1>2. ASSUME NEW e \in Expenses, NEW y, RowInFlight(y), expense' = [expense EXCEPT ![e] = y]
      PROVE  InFlightIsUnanswered'
  BY <1>0, <1>2, <1>w
<1>3. ASSUME NEW e \in Expenses, NEW content \in Contents, NEW severity \in Severities,
             CreateExpense(e, content, severity)
      PROVE  InFlightIsUnanswered'
  <2> DEFINE y == [content |-> content, severity |-> severity, explanation |-> None,
                   explained_at |-> FALSE, batch_id |-> None, reviewed |-> None, deleted |-> FALSE]
  <2>1. RowInFlight(y)
    BY DEF RowInFlight
  <2>2. expense' = [expense EXCEPT ![e] = y]
    BY <1>3 DEF CreateExpense
  <2> HIDE DEF y
  <2> QED
    BY <1>2, <2>1, <2>2
<1>4. ASSUME NEW e \in Expenses, NEW content \in Contents, NEW severity \in Severities,
             UpdateExpense(e, content, severity)
      PROVE  InFlightIsUnanswered'
  <2> DEFINE x == expense[e]
             y == IF content = x.content THEN x ELSE [Reset(x) EXCEPT !.content = content]
  <2>1. x \in Expense /\ x # None /\ RowInFlight(x)
    BY <1>0, <1>4 DEF UpdateExpense
  <2>2. y \in Expense /\ y.batch_id \in {x.batch_id, None}
        /\ (y.batch_id # None => y.explained_at = x.explained_at)
    <3> DEFINE r == Reset(x)
    <3>1. r \in Expense /\ r.batch_id = None
      BY <2>1, ResetTyped
    <3>2. [r EXCEPT !.content = content] \in Expense /\ [r EXCEPT !.content = content].batch_id = None
      <4> HIDE DEF r
      <4> QED
        BY <3>1 DEF Expense
    <3> HIDE DEF r, x
    <3> QED
      BY <2>1, <3>2 DEF r
  <2>3. /\ Analyzed(y, severity).batch_id \in {y.batch_id, None}
        /\ Analyzed(y, severity).batch_id # None
           => Analyzed(y, severity).explained_at = y.explained_at
    <3> HIDE DEF y
    <3> QED
      BY <2>2, AnalyzedTyped
  <2>4. expense' = [expense EXCEPT ![e] = Analyzed(y, severity)]
    BY <1>4 DEF UpdateExpense
  <2> HIDE DEF y
  <2>5. RowInFlight(Analyzed(y, severity))
    BY <2>1, <2>2, <2>3 DEF RowInFlight
  <2> QED
    BY <1>2, <2>4, <2>5
<1>5. ASSUME NEW e \in Expenses, DeleteExpense(e) PROVE InFlightIsUnanswered'
  <2> DEFINE y == [expense[e] EXCEPT !.deleted = TRUE]
  <2>1. expense[e] \in Expense /\ expense[e] # None /\ RowInFlight(expense[e])
    BY <1>0, <1>5 DEF DeleteExpense
  <2>2. RowInFlight(y)
    BY <2>1 DEF RowInFlight, Expense
  <2>3. expense' = [expense EXCEPT ![e] = y]
    BY <1>5 DEF DeleteExpense
  <2> HIDE DEF y
  <2> QED
    BY <1>2, <2>2, <2>3
<1>6. ASSUME NEW e \in Expenses, Review(e) PROVE InFlightIsUnanswered'
  <2> DEFINE y == [expense[e] EXCEPT !.reviewed = expense[e].severity]
  <2>1. expense[e] \in Expense /\ expense[e] # None /\ RowInFlight(expense[e])
    BY <1>0, <1>6 DEF Review
  <2>2. RowInFlight(y)
    BY <2>1 DEF RowInFlight, Expense
  <2>3. expense' = [expense EXCEPT ![e] = y]
    BY <1>6 DEF Review
  <2> HIDE DEF y
  <2> QED
    BY <1>2, <2>2, <2>3
<1>7. ASSUME NEW q \in Recomputes, FlushRecompute(q) PROVE InFlightIsUnanswered'
  <2> DEFINE D == DOMAIN recompute[q]
             y(e) == Flushed(expense[e], recompute[q][e].row, recompute[q][e].severity)
  <2>1. D \subseteq Expenses /\ recompute[q] \in [D -> Loaded]
    <3>1. recompute[q] \in OfSome(Loaded)
      BY DEF ExplanationsTypeOK
    <3> QED
      BY <3>1 DEF OfSome
  <2>2. \A e \in D : RowInFlight(y(e))
    <3> TAKE e \in D
    <3>1. recompute[q][e].row \in Expense /\ recompute[q][e].severity \in Severities
      BY <2>1 DEF Loaded
    <3>2. expense[e] \in Expense /\ expense[e] # None /\ RowInFlight(expense[e])
      BY <1>0, <2>1 DEF ReferencesHold
    <3>3. /\ y(e).batch_id \in {expense[e].batch_id, None}
          /\ y(e).explained_at \in {expense[e].explained_at, FALSE}
      BY <3>1, <3>2, FlushedTyped
    <3> HIDE DEF y
    <3> QED
      BY <3>2, <3>3 DEF RowInFlight
  <2>3. expense' = [e \in Expenses |-> IF e \in D THEN y(e) ELSE expense[e]]
    BY <1>7 DEF FlushRecompute
  <2> HIDE DEF y
  <2> QED
    BY <1>0, <1>w, <2>2, <2>3
<1>8. ASSUME NEW p \in Replicas, NEW b \in Batches, Collect(p, b) PROVE InFlightIsUnanswered'
  <2>1. expense' = [e \in Expenses |-> BatchStored(expense[e], e, b)]
    BY <1>8 DEF Collect
  <2>2. \A e \in Expenses : RowInFlight(BatchStored(expense[e], e, b))
    BY <1>0, BatchStoredTyped DEF RowInFlight
  <2> QED
    BY <1>w, <2>1, <2>2
<1>9. ASSUME NEW p \in Replicas, AttachBatch(p) PROVE InFlightIsUnanswered'
  <2> DEFINE takes(e) == /\ e \in run[p].items /\ ~expense[e].explained_at
                         /\ expense[e].batch_id = None
             y(e) == [expense[e] EXCEPT !.batch_id = run[p].batch]
  <2>1. expense' = [e \in Expenses |-> IF takes(e) THEN y(e) ELSE expense[e]]
    BY <1>9 DEF AttachBatch
  <2>2. \A e \in Expenses : takes(e) => RowInFlight(y(e))
    <3> TAKE e \in Expenses
    <3>1. e \in run[p].items => expense[e] \in Expense
      BY <1>0 DEF ReferencesHold
    <3> QED
      BY <3>1 DEF RowInFlight, Expense
  <2> HIDE DEF takes, y
  <2> QED
    BY <1>0, <1>w, <2>1, <2>2
<1>10. ASSUME NEW p \in Replicas, SaveEach(p) PROVE InFlightIsUnanswered'
  <2> DEFINE saves(e) == /\ e \in run[p].items /\ run[p].outcome[e] # "errored"
                         /\ StillAsRead(expense[e], run[p].subject[e])
             y(e) == Stored(expense[e], run[p].outcome[e], run[p].subject[e], p)
  <2>1. expense' = [e \in Expenses |-> IF saves(e) THEN y(e) ELSE expense[e]]
    BY <1>10 DEF SaveEach
  <2>2. \A e \in Expenses : saves(e) => RowInFlight(y(e))
    <3> TAKE e \in Expenses
    <3>1. e \in run[p].items => expense[e] \in Expense /\ run[p].subject[e] \in Subject
      BY <1>0, RunFields DEF ReferencesHold
    <3>2. e \in run[p].items => y(e).batch_id = None
      BY <3>1, StoredTyped
    <3> HIDE DEF y
    <3> QED
      BY <3>2 DEF RowInFlight
  <2> HIDE DEF saves, y
  <2> QED
    BY <1>0, <1>w, <2>1, <2>2
<1>11. ASSUME NEW p \in Replicas, RunStep(p) \/ AbortRun(p), ~AttachBatch(p), ~SaveEach(p)
       PROVE  UNCHANGED expense
  BY <1>11 DEF RunStep, StartRun, ReadPending, ReserveBudget, ExplainEach, SubmitBatch,
               SkipBatch, AbortRun
<1>12. CASE UNCHANGED vars
  BY <1>1, <1>12 DEF vars
<1>13. CASE Next
  <2>1. CASE NewDay
    BY <1>1, <2>1 DEF NewDay
  <2>2. CASE ExpenseStep
    <3>1. ASSUME NEW q \in Recomputes, NEW S \in SUBSET Expenses, LoadSignals(q, S)
          PROVE  UNCHANGED expense
      BY <3>1 DEF LoadSignals
    <3> QED
      BY <1>1, <1>3, <1>4, <1>5, <1>6, <1>7, <2>2, <3>1 DEF ExpenseStep
  <2>3. ASSUME NEW p \in Replicas, RunStep(p) \/ AbortRun(p) \/ \E b \in Batches : Collect(p, b)
        PROVE  InFlightIsUnanswered'
    BY <1>1, <1>8, <1>9, <1>10, <1>11, <2>3
  <2>4. ASSUME NEW b \in Batches, EndBatch(b) \/ LoseBatch(b) PROVE InFlightIsUnanswered'
    BY <1>1, <2>4 DEF EndBatch, LoseBatch
  <2> QED
    BY <1>13, <2>1, <2>2, <2>3, <2>4 DEF Next
<1> QED
  BY <1>12, <1>13

-----------------------------------------------------------------------------
(* The budget of each day.                                                     *)

LEMMA GrantedToFinite ==
    ASSUME NEW d
    PROVE  IsFiniteSet(GrantedTo(d)) /\ Cardinality(GrantedTo(d)) \in Nat
<1>1. IsFiniteSet(Replicas \X Expenses)
  BY SizeAssumption, FS_Product
<1>2. GrantedTo(d) \in SUBSET (Replicas \X Expenses)
  BY DEF GrantedTo
<1> QED
  BY <1>1, <1>2, FS_Subset, FS_CardinalityType

LEMMA GrantedToFiniteNext ==
    ASSUME NEW d
    PROVE  IsFiniteSet(GrantedTo(d)') /\ Cardinality(GrantedTo(d)') \in Nat
<1>1. IsFiniteSet(Replicas \X Expenses)
  BY SizeAssumption, FS_Product
<1>2. GrantedTo(d)' \in SUBSET (Replicas \X Expenses)
  BY DEF GrantedTo
<1> QED
  BY <1>1, <1>2, FS_Subset, FS_CardinalityType

(* The pairs of one replica are as many as its items.                          *)
LEMMA PairsOf ==
    ASSUME NEW p, NEW S \in SUBSET Expenses
    PROVE  /\ IsFiniteSet({p} \X S)
           /\ Cardinality({p} \X S) = Cardinality(S)
<1>1. IsFiniteSet({p}) /\ Cardinality({p}) = 1
  BY FS_Singleton
<1>2. IsFiniteSet(S) /\ Cardinality(S) \in Nat
  BY SubsetsFinite
<1>3. /\ IsFiniteSet({p} \X S)
      /\ Cardinality({p} \X S) = 1 * Cardinality(S)
  BY <1>1, <1>2, FS_Product
<1> QED
  BY <1>2, <1>3

(* A step that grants nothing and sends nothing.                               *)
LEMMA NothingGranted ==
    ASSUME ExplanationsTypeOK, BudgetKept,
           \A o \in Replicas : run'[o].pc = "granted" =>
              /\ run[o].pc = "granted" /\ run'[o].day = run[o].day
              /\ run'[o].items \subseteq run[o].items,
           UNCHANGED <<used, sent>>
    PROVE  BudgetKept'
<1> SUFFICES ASSUME NEW d \in 0 .. MaxDay
             PROVE  /\ sent'[d] + Cardinality(GrantedTo(d)') =< used'[d]
                    /\ used'[d] =< DailyLimit
  BY DEF BudgetKept
<1>1. GrantedTo(d)' \in SUBSET GrantedTo(d)
  BY DEF GrantedTo
<1>2. Cardinality(GrantedTo(d)') =< Cardinality(GrantedTo(d))
  BY <1>1, GrantedToFinite, FS_Subset
<1>3. sent[d] \in Nat /\ used[d] \in Nat
  BY DEF ExplanationsTypeOK
<1>4. Cardinality(GrantedTo(d)') \in Nat /\ Cardinality(GrantedTo(d)) \in Nat
  BY GrantedToFinite, GrantedToFiniteNext
<1>5. sent[d] + Cardinality(GrantedTo(d)) =< used[d] /\ used[d] =< DailyLimit
  BY DEF BudgetKept
<1> QED
  BY <1>2, <1>3, <1>4, <1>5

(* reserve_budget grants no more than it adds to the use of the day.           *)
LEMMA BudgetReserved ==
    ASSUME ExplanationsTypeOK, BudgetKept, NEW p \in Replicas, ReserveBudget(p)
    PROVE  BudgetKept'
<1> DEFINE granted == Granted(Cardinality(run[p].items), used[day])
           items == Oldest(run[p].items, granted)
<1>1. /\ used' = [used EXCEPT ![day] = @ + granted]
      /\ run' = [run EXCEPT ![p] =
            IF granted = 0 THEN Idle
            ELSE [Idle EXCEPT !.pc = "granted", !.items = items, !.day = day,
                              !.subject = [e \in items |-> run[p].subject[e]]]]
      /\ run[p].pc = "budgeting"
      /\ UNCHANGED sent
  BY DEF ReserveBudget
<1>2. /\ day \in 0 .. MaxDay /\ used[day] \in Nat /\ used[day] =< DailyLimit
      /\ run \in [Replicas -> Run] /\ used \in [0 .. MaxDay -> Nat]
  BY DEF ExplanationsTypeOK, BudgetKept
<1>3. granted \in Nat /\ used[day] + granted =< DailyLimit
  BY <1>2, RunFields, GrantedBounded
<1>4. items \in SUBSET run[p].items /\ items \in SUBSET Expenses /\ Cardinality(items) =< granted
  <2> HIDE DEF granted
  <2> QED
    BY <1>3, RunFields, OldestBounded
<1> HIDE DEF granted, items
<1>5. /\ \A o \in Replicas : o # p => run'[o] = run[o]
      /\ run'[p].pc \in {"idle", "granted"}
      /\ run'[p].pc = "granted" => run'[p].day = day /\ run'[p].items = items
  BY <1>1, <1>2 DEF Idle
<1> SUFFICES ASSUME NEW d \in 0 .. MaxDay
             PROVE  /\ sent'[d] + Cardinality(GrantedTo(d)') =< used'[d]
                    /\ used'[d] =< DailyLimit
  BY DEF BudgetKept
<1>6. sent[d] \in Nat /\ used[d] \in Nat /\ sent'[d] = sent[d]
  BY <1>1 DEF ExplanationsTypeOK
<1>7. sent[d] + Cardinality(GrantedTo(d)) =< used[d] /\ used[d] =< DailyLimit
  BY DEF BudgetKept
<1>8. Cardinality(GrantedTo(d)') \in Nat /\ Cardinality(GrantedTo(d)) \in Nat
      /\ IsFiniteSet(GrantedTo(d))
  BY GrantedToFinite, GrantedToFiniteNext
<1>9. CASE d # day
  <2>1. GrantedTo(d)' \in SUBSET GrantedTo(d)
    BY <1>5, <1>9 DEF GrantedTo
  <2>2. Cardinality(GrantedTo(d)') =< Cardinality(GrantedTo(d))
    BY <1>8, <2>1, FS_Subset
  <2>3. used'[d] = used[d]
    BY <1>1, <1>2, <1>9
  <2> QED
    BY <1>6, <1>7, <1>8, <2>2, <2>3
<1>10. CASE d = day
  <2>1. GrantedTo(d)' \in SUBSET (GrantedTo(d) \cup ({p} \X items))
    BY <1>5 DEF GrantedTo
  <2>2. /\ IsFiniteSet({p} \X items) /\ Cardinality({p} \X items) = Cardinality(items)
        /\ Cardinality(items) \in Nat
    BY <1>4, PairsOf, SubsetsFinite
  <2>3. /\ IsFiniteSet(GrantedTo(d) \cup ({p} \X items))
        /\ Cardinality(GrantedTo(d) \cup ({p} \X items))
           = Cardinality(GrantedTo(d)) + Cardinality({p} \X items)
             - Cardinality(GrantedTo(d) \cap ({p} \X items))
    BY <1>8, <2>2, FS_Union
  <2>4. Cardinality(GrantedTo(d) \cap ({p} \X items)) \in Nat
    BY <1>8, FS_Intersection, FS_CardinalityType
  <2>5. Cardinality(GrantedTo(d)') =< Cardinality(GrantedTo(d) \cup ({p} \X items))
    BY <2>1, <2>3, FS_Subset
  <2>6. Cardinality(GrantedTo(d)') =< Cardinality(GrantedTo(d)) + granted
    BY <1>3, <1>4, <1>8, <2>2, <2>3, <2>4, <2>5
  <2>7. used'[d] = used[d] + granted
    BY <1>1, <1>2, <1>10
  <2> QED
    BY <1>3, <1>6, <1>7, <1>8, <1>10, <2>6, <2>7
<1> QED
  BY <1>9, <1>10

(* What is sent was granted before, and is no longer waiting to be sent.       *)
LEMMA BudgetSent ==
    ASSUME ExplanationsTypeOK, BudgetKept, NEW p \in Replicas, run[p].pc = "granted",
           Send(p), UNCHANGED used, run'[p].pc # "granted",
           \A o \in Replicas : o # p => run'[o] = run[o]
    PROVE  BudgetKept'
<1> DEFINE items == run[p].items
<1>1. /\ items \in SUBSET Expenses /\ Cardinality(items) \in Nat /\ run[p].day \in 0 .. MaxDay
  BY RunFields
<1>2. sent' = [sent EXCEPT ![run[p].day] = @ + Cardinality(items)]
  BY DEF Send
<1> SUFFICES ASSUME NEW d \in 0 .. MaxDay
             PROVE  /\ sent'[d] + Cardinality(GrantedTo(d)') =< used'[d]
                    /\ used'[d] =< DailyLimit
  BY DEF BudgetKept
<1>3. sent \in [0 .. MaxDay -> Nat] /\ sent[d] \in Nat /\ used[d] \in Nat /\ used'[d] = used[d]
  BY DEF ExplanationsTypeOK
<1>4. sent[d] + Cardinality(GrantedTo(d)) =< used[d] /\ used[d] =< DailyLimit
  BY DEF BudgetKept
<1>5. Cardinality(GrantedTo(d)') \in Nat /\ Cardinality(GrantedTo(d)) \in Nat
      /\ IsFiniteSet(GrantedTo(d))
  BY GrantedToFinite, GrantedToFiniteNext
<1>6. CASE d # run[p].day
  <2>1. GrantedTo(d)' \in SUBSET GrantedTo(d)
    BY DEF GrantedTo
  <2>2. Cardinality(GrantedTo(d)') =< Cardinality(GrantedTo(d))
    BY <1>5, <2>1, FS_Subset
  <2>3. sent'[d] = sent[d]
    BY <1>2, <1>3, <1>6
  <2> QED
    BY <1>3, <1>4, <1>5, <2>2, <2>3
<1>7. CASE d = run[p].day
  <2>1. GrantedTo(d)' \in SUBSET (GrantedTo(d) \ ({p} \X items))
    BY DEF GrantedTo
  <2>2. {p} \X items \in SUBSET GrantedTo(d)
    BY <1>1, <1>7 DEF GrantedTo
  <2> HIDE DEF items
  <2>3. IsFiniteSet({p} \X items) /\ Cardinality({p} \X items) = Cardinality(items)
    BY <1>1, PairsOf
  <2>4. /\ IsFiniteSet(GrantedTo(d) \ ({p} \X items))
        /\ Cardinality(GrantedTo(d) \ ({p} \X items))
           = Cardinality(GrantedTo(d)) - Cardinality(GrantedTo(d) \cap ({p} \X items))
    BY <1>5, FS_Difference
  <2>5. GrantedTo(d) \cap ({p} \X items) = {p} \X items
    BY <2>2
  <2>6. Cardinality(GrantedTo(d)') =< Cardinality(GrantedTo(d) \ ({p} \X items))
    BY <2>1, <2>4, FS_Subset
  <2>7. sent'[d] = sent[d] + Cardinality(items)
    BY <1>2, <1>3, <1>7
  <2>8. Cardinality(items) \in Nat
    BY <1>1 DEF items
  <2>9. Cardinality(GrantedTo(d)') =< Cardinality(GrantedTo(d)) - Cardinality(items)
    BY <2>3, <2>4, <2>5, <2>6
  <2> QED
    BY <1>3, <1>4, <1>5, <2>7, <2>8, <2>9
<1> QED
  BY <1>6, <1>7

LEMMA BudgetStep ==
    ASSUME ExplanationsTypeOK, BudgetKept, [Next]_vars
    PROVE  BudgetKept'
<1>0. run \in [Replicas -> Run]
  BY DEF ExplanationsTypeOK
<1>1. ASSUME UNCHANGED <<run, used, sent>> PROVE BudgetKept'
  BY <1>1, NothingGranted
<1>2. CASE UNCHANGED vars
  BY <1>1, <1>2 DEF vars
<1>3. ASSUME NEW p \in Replicas, run[p].pc # "granted" \/ run'[p] = Idle,
             run'[p].pc # "granted", \A o \in Replicas : o # p => run'[o] = run[o],
             UNCHANGED <<used, sent>>
      PROVE  BudgetKept'
  BY <1>3, NothingGranted
<1>4. ASSUME NEW p \in Replicas, RunStep(p) PROVE BudgetKept'
  <2>1. CASE StartRun(p) \/ ReadPending(p)
    <3>1. /\ run[p].pc # "granted" /\ run'[p].pc # "granted"
          /\ \A o \in Replicas : o # p => run'[o] = run[o]
          /\ UNCHANGED <<used, sent>>
      BY <1>0, <2>1 DEF StartRun, ReadPending, Idle
    <3> QED
      BY <1>3, <3>1
  <2>2. CASE ReserveBudget(p)
    BY <2>2, BudgetReserved
  <2>3. CASE AttachBatch(p) \/ SaveEach(p)
    <3>1. /\ run' = [run EXCEPT ![p] = Idle] /\ UNCHANGED <<used, sent>>
      BY <2>3 DEF AttachBatch, SaveEach, EndRun
    <3>2. run'[p] = Idle /\ \A o \in Replicas : o # p => run'[o] = run[o]
      BY <1>0, <3>1
    <3>3. Idle.pc # "granted"
      BY DEF Idle
    <3> QED
      BY <1>3, <3>1, <3>2, <3>3
  <2>4. CASE ExplainEach(p)
    <3>1. /\ run[p].pc = "granted" /\ Send(p) /\ UNCHANGED used
      BY <2>4 DEF ExplainEach
    <3>2. PICK outcome : run' = [run EXCEPT ![p].pc = "answered", ![p].outcome = outcome]
      BY <2>4 DEF ExplainEach
    <3>3. run'[p].pc # "granted" /\ \A o \in Replicas : o # p => run'[o] = run[o]
      BY <1>0, <3>2 DEF Run
    <3> QED
      BY <3>1, <3>3, BudgetSent
  <2>5. ASSUME NEW b \in Batches, SubmitBatch(p, b) PROVE BudgetKept'
    <3>1. /\ run[p].pc = "granted" /\ Send(p) /\ UNCHANGED used
          /\ run' = [run EXCEPT ![p].pc = "submitted", ![p].batch = b]
      BY <2>5 DEF SubmitBatch
    <3>2. run'[p].pc # "granted" /\ \A o \in Replicas : o # p => run'[o] = run[o]
      BY <1>0, <3>1 DEF Run
    <3> QED
      BY <3>1, <3>2, BudgetSent
  <2>6. ASSUME NEW b \in Batches, SkipBatch(p, b) PROVE BudgetKept'
    <3>1. run' = [run EXCEPT ![p].todo = @ \ {b}] /\ UNCHANGED <<used, sent>>
      BY <2>6 DEF SkipBatch
    <3>2. \A o \in Replicas : /\ run'[o].pc = run[o].pc /\ run'[o].day = run[o].day
                              /\ run'[o].items = run[o].items
      BY <1>0, <3>1 DEF Run
    <3> QED
      BY <3>1, <3>2, NothingGranted
  <2> QED
    BY <1>4, <2>1, <2>2, <2>3, <2>4, <2>5, <2>6 DEF RunStep
<1>5. ASSUME NEW p \in Replicas, AbortRun(p) PROVE BudgetKept'
  <2>1. run' = [run EXCEPT ![p] = Idle] /\ UNCHANGED <<used, sent>>
    BY <1>5 DEF AbortRun, EndRun
  <2>2. run'[p] = Idle /\ \A o \in Replicas : o # p => run'[o] = run[o]
    BY <1>0, <2>1
  <2>3. Idle.pc # "granted"
    BY DEF Idle
  <2> QED
    BY <1>3, <2>1, <2>2, <2>3
<1>6. ASSUME NEW p \in Replicas, NEW b \in Batches, Collect(p, b) PROVE BudgetKept'
  <2>1. run' = [run EXCEPT ![p].todo = @ \ {b}] /\ UNCHANGED <<used, sent>>
    BY <1>6 DEF Collect
  <2>2. \A o \in Replicas : /\ run'[o].pc = run[o].pc /\ run'[o].day = run[o].day
                            /\ run'[o].items = run[o].items
    BY <1>0, <2>1 DEF Run
  <2> QED
    BY <2>1, <2>2, NothingGranted
<1>7. CASE NewDay
  BY <1>1, <1>7 DEF NewDay
<1>8. CASE ExpenseStep
  <2>1. UNCHANGED <<run, used, sent>>
    BY <1>8 DEF ExpenseStep, CreateExpense, UpdateExpense, DeleteExpense, Review, LoadSignals,
                FlushRecompute
  <2> QED
    BY <1>1, <2>1
<1>9. ASSUME NEW b \in Batches, EndBatch(b) \/ LoseBatch(b) PROVE BudgetKept'
  BY <1>1, <1>9 DEF EndBatch, LoseBatch
<1> QED
  BY <1>2, <1>4, <1>5, <1>6, <1>7, <1>8, <1>9 DEF Next

-----------------------------------------------------------------------------
(* The inductive invariant: types need the references and the budget, as a     *)
(* grant must be a number, and the rest needs the types.                       *)
ExplanationsInv ==
    /\ ExplanationsTypeOK
    /\ ReferencesHold
    /\ BudgetKept
    /\ InFlightIsUnanswered

LEMMA InitExplanations == Init => ExplanationsInv
<1> SUFFICES ASSUME Init PROVE ExplanationsInv
  OBVIOUS
<1>1. Idle \in Run /\ Idle.pc = "idle" /\ Idle.items = {} /\ DOMAIN Idle.subject = {}
  BY NothingIs, SizeAssumption DEF Idle, Run
<1>2. ExplanationsTypeOK
  <2>1. run \in [Replicas -> Run] /\ \A p \in Replicas : run[p] = Idle
    BY <1>1 DEF Init
  <2>2. recompute \in [Recomputes -> OfSome(Loaded)]
    BY NothingIs DEF Init
  <2>3. expense \in [Expenses -> Expense \cup {None}] /\ batch \in [Batches -> Sent \cup {None}]
        /\ \A b \in Batches : batch[b] = None
    BY DEF Init
  <2>4. day \in 0 .. MaxDay /\ used \in [0 .. MaxDay -> Nat] /\ sent \in [0 .. MaxDay -> Nat]
    BY SizeAssumption DEF Init
  <2> QED
    BY <1>1, <2>1, <2>2, <2>3, <2>4 DEF ExplanationsTypeOK
<1>3. ReferencesHold
  <2>1. \A q \in Recomputes : DOMAIN recompute[q] = {}
    BY NothingIs DEF Init
  <2> QED
    BY <1>1, <2>1 DEF Init, ReferencesHold
<1>4. BudgetKept
  <2>1. \A d \in 0 .. MaxDay : GrantedTo(d) = {}
    BY <1>1 DEF Init, GrantedTo
  <2>2. Cardinality({}) = 0
    BY FS_EmptySet
  <2>3. \A d \in 0 .. MaxDay : sent[d] = 0 /\ used[d] = 0
    BY DEF Init
  <2> QED
    BY <2>1, <2>2, <2>3, SizeAssumption DEF BudgetKept
<1>5. InFlightIsUnanswered
  BY DEF Init, InFlightIsUnanswered
<1> QED
  BY <1>2, <1>3, <1>4, <1>5 DEF ExplanationsInv

LEMMA ExplanationsStep == ExplanationsInv /\ [Next]_vars => ExplanationsInv'
<1> SUFFICES ASSUME ExplanationsTypeOK, ReferencesHold, BudgetKept, InFlightIsUnanswered,
                    [Next]_vars
             PROVE  ExplanationsInv'
  BY DEF ExplanationsInv
<1>1. ExplanationsTypeOK' /\ ReferencesHold'
  <2>1. CASE UNCHANGED vars
    BY <2>1 DEF vars, ExplanationsTypeOK, ReferencesHold
  <2>2. CASE Next
    <3>1. used[day] =< DailyLimit
      BY DEF BudgetKept, ExplanationsTypeOK
    <3>2. ASSUME NEW p \in Replicas, RunStep(p) PROVE ExplanationsTypeOK' /\ ReferencesHold'
      BY <3>1, <3>2, StartRunTyped, ReadPendingTyped, ReserveBudgetTyped, SubmitBatchTyped,
         CollectTyped, AttachBatchTyped, ExplainEachTyped, SaveEachTyped DEF RunStep
    <3> QED
      BY <2>2, <3>2, NewDayTyped, ExpenseStepTyped, AbortRunTyped, CollectTyped, ProviderTyped
      DEF Next
  <2> QED
    BY <2>1, <2>2
<1>2. BudgetKept'
  BY BudgetStep
<1>3. InFlightIsUnanswered'
  BY InFlightStep
<1> QED
  BY <1>1, <1>2, <1>3 DEF ExplanationsInv

LEMMA ExplanationsAlways == Spec => []ExplanationsInv
<1> QED
  BY InitExplanations, ExplanationsStep, PTL DEF Spec

(* The rows, the runs, the batches and what recompute holds keep their shape,  *)
(* whatever is lost and however many replicas run.                             *)
THEOREM ExplanationsTypeCorrect == Spec => []ExplanationsTypeOK
<1>1. ExplanationsInv => ExplanationsTypeOK
  BY DEF ExplanationsInv
<1> QED
  BY <1>1, ExplanationsAlways, PTL

(* No expense keeps a batch once it has an answer (save, save_batch_result,    *)
(* attach_batch): in_flight_batches finds every batch that is waited for.      *)
THEOREM AnsweredLeavesItsBatch == Spec => []InFlightIsUnanswered
<1>1. ExplanationsInv => InFlightIsUnanswered
  BY DEF ExplanationsInv
<1> QED
  BY <1>1, ExplanationsAlways, PTL

(* No day pays for more requests than the limit (reserve_budget), for any      *)
(* number of replicas, dying anywhere.                                         *)
THEOREM BudgetNeverExceeded == Spec => []WithinDailyLimit
<1>1. ExplanationsInv => WithinDailyLimit
  <2> SUFFICES ASSUME ExplanationsTypeOK, BudgetKept, NEW d \in 0 .. MaxDay
               PROVE  sent[d] =< DailyLimit
    BY DEF ExplanationsInv, WithinDailyLimit
  <2>1. Cardinality(GrantedTo(d)) \in Nat /\ sent[d] \in Nat /\ used[d] \in Nat
    BY GrantedToFinite DEF ExplanationsTypeOK
  <2>2. sent[d] + Cardinality(GrantedTo(d)) =< used[d] /\ used[d] =< DailyLimit
    BY DEF BudgetKept
  <2> QED
    BY <2>1, <2>2, SizeAssumption
<1> QED
  BY <1>1, ExplanationsAlways, PTL

-----------------------------------------------------------------------------
(* Texts that staff have read                                                  *)

(* What a step may do to the text of a row that has one.                       *)
TextKept(x, y) == x # None /\ x.explanation # None => y.explanation \in {None, x.explanation}

LEMMA AnalyzedText ==
    ASSUME NEW x \in Expense, NEW severity \in Severities
    PROVE  Analyzed(x, severity).explanation \in {None, x.explanation}
<1>1. CASE x.severity = severity
  BY <1>1 DEF Analyzed
<1>2. CASE x.severity # severity
  <2>1. Reset(x) \in Expense /\ Reset(x).explanation = None
    BY ResetTyped
  <2> QED
    BY <1>2, <2>1 DEF Analyzed, Expense
<1> QED
  BY <1>1, <1>2

LEMMA FlushedText ==
    ASSUME NEW x \in Expense, NEW loaded \in Expense, NEW severity \in Severities
    PROVE  Flushed(x, loaded, severity).explanation \in {None, x.explanation}
<1> DEFINE y == Analyzed(loaded, severity)
<1>1. y.explanation \in {None, loaded.explanation}
  BY AnalyzedText
<1> HIDE DEF y
<1>2. Flushed(x, loaded, severity).explanation =
      IF y.explanation = loaded.explanation THEN x.explanation ELSE y.explanation
  BY DEF Flushed, y, Expense
<1> QED
  BY <1>1, <1>2

(* Every step but the collection of a batch keeps the text or takes it away.   *)
LEMMA TextsKept ==
    ASSUME ExplanationsTypeOK, ReferencesHold, [Next]_vars,
           ~\E p \in Replicas, b \in Batches : Collect(p, b),
           NEW e \in Expenses
    PROVE  TextKept(expense[e], expense'[e])
<1> SUFFICES ASSUME expense[e] # None, expense'[e] # expense[e]
             PROVE  TextKept(expense[e], expense'[e])
  BY DEF TextKept
<1>0. expense[e] \in Expense /\ expense \in [Expenses -> Expense \cup {None}]
  BY DEF ExplanationsTypeOK
<1>1. ASSUME NEW f \in Expenses, NEW content \in Contents, NEW severity \in Severities,
             CreateExpense(f, content, severity)
      PROVE  FALSE
  BY <1>0, <1>1 DEF CreateExpense
<1>2. ASSUME NEW f \in Expenses, NEW content \in Contents, NEW severity \in Severities,
             UpdateExpense(f, content, severity)
      PROVE  TextKept(expense[e], expense'[e])
  <2> DEFINE x == expense[f]
             y == IF content = x.content THEN x ELSE [Reset(x) EXCEPT !.content = content]
  <2>1. f = e /\ expense'[f] = Analyzed(y, severity)
    BY <1>0, <1>2 DEF UpdateExpense
  <2>2. y \in Expense /\ y.explanation \in {None, x.explanation}
    <3>1. Reset(x) \in Expense /\ Reset(x).explanation = None
      BY <1>0, <2>1, ResetTyped
    <3> QED
      BY <1>0, <2>1, <3>1 DEF Expense
  <2> HIDE DEF y
  <2> QED
    BY <2>1, <2>2, AnalyzedText DEF TextKept
<1>3. ASSUME NEW f \in Expenses, DeleteExpense(f) \/ Review(f)
      PROVE  TextKept(expense[e], expense'[e])
  BY <1>0, <1>3 DEF DeleteExpense, Review, TextKept, Expense
<1>4. ASSUME NEW q \in Recomputes, NEW S \in SUBSET Expenses, LoadSignals(q, S) PROVE FALSE
  BY <1>4 DEF LoadSignals
<1>5. ASSUME NEW q \in Recomputes, FlushRecompute(q) PROVE TextKept(expense[e], expense'[e])
  <2>1. /\ e \in DOMAIN recompute[q]
        /\ expense'[e] = Flushed(expense[e], recompute[q][e].row, recompute[q][e].severity)
    BY <1>5 DEF FlushRecompute
  <2>2. recompute[q][e].row \in Expense /\ recompute[q][e].severity \in Severities
    <3>1. recompute[q] \in OfSome(Loaded)
      BY DEF ExplanationsTypeOK
    <3> QED
      BY <2>1, <3>1 DEF OfSome, Loaded
  <2> QED
    BY <1>0, <2>1, <2>2, FlushedText DEF TextKept
<1>6. ASSUME NEW p \in Replicas, SaveEach(p) PROVE TextKept(expense[e], expense'[e])
  BY <1>6 DEF SaveEach, StillAsRead, TextKept
<1>7. ASSUME NEW p \in Replicas, AttachBatch(p) PROVE TextKept(expense[e], expense'[e])
  BY <1>0, <1>7 DEF AttachBatch, TextKept, Expense
<1>8. ASSUME NEW p \in Replicas,
             StartRun(p) \/ ReadPending(p) \/ ReserveBudget(p) \/ ExplainEach(p) \/ AbortRun(p)
             \/ \E b \in Batches : SubmitBatch(p, b) \/ SkipBatch(p, b)
      PROVE  FALSE
  BY <1>8 DEF StartRun, ReadPending, ReserveBudget, ExplainEach, AbortRun, SubmitBatch, SkipBatch
<1>9. ASSUME NewDay \/ UNCHANGED vars \/ \E b \in Batches : EndBatch(b) \/ LoseBatch(b)
      PROVE  FALSE
  BY <1>9 DEF NewDay, vars, EndBatch, LoseBatch
<1>10. CASE ExpenseStep
  BY <1>10, <1>1, <1>2, <1>3, <1>4, <1>5 DEF ExpenseStep
<1>11. ASSUME NEW p \in Replicas, RunStep(p) PROVE TextKept(expense[e], expense'[e])
  BY <1>11, <1>6, <1>7, <1>8 DEF RunStep
<1> QED
  BY <1>8, <1>9, <1>10, <1>11 DEF Next

(* A text has its date, unless a flush took the date away.                     *)
Dated(x) == x # None /\ x.explanation # None => x.explained_at

TextsDated == Recomputes = {} => \A e \in Expenses : Dated(expense[e])

LEMMA StoredDated ==
    ASSUME NEW x \in Expense, NEW outcome, NEW subject, NEW by
    PROVE  Dated(Stored(x, outcome, subject, by))
<1> DEFINE t == IF outcome = "explained" THEN [about |-> subject, by |-> by] ELSE None
<1>1. Stored(x, outcome, subject, by) =
      [x EXCEPT !.explanation = t, !.explained_at = TRUE, !.batch_id = None]
  BY DEF Stored, t
<1> HIDE DEF t
<1> QED
  BY <1>1 DEF Expense, Dated

LEMMA AnalyzedDated ==
    ASSUME NEW x \in Expense, NEW severity, Dated(x)
    PROVE  Dated(Analyzed(x, severity))
<1>1. CASE x.severity = severity
  BY <1>1 DEF Analyzed
<1>2. CASE x.severity # severity
  <2> DEFINE r == Reset(x)
  <2>1. r \in Expense /\ r.explanation = None
    BY ResetTyped
  <2>2. Analyzed(x, severity) = [r EXCEPT !.severity = severity, !.reviewed = None]
    BY <1>2 DEF Analyzed
  <2> HIDE DEF r
  <2>3. Analyzed(x, severity).explanation = None
    BY <2>1, <2>2 DEF Expense
  <2> QED
    BY <2>3 DEF Dated
<1> QED
  BY <1>1, <1>2

(* The answer of a batch is stored on a row without a date, or not at all.     *)
LEMMA BatchStoredDated ==
    ASSUME NEW x \in Expense, NEW e \in Expenses, NEW b \in Batches, Dated(x)
    PROVE  Dated(BatchStored(x, e, b)) /\ TextKept(x, BatchStored(x, e, b))
<1> DEFINE s == Stored(x, batch[b].outcome[e], batch[b].subject[e], b)
<1>1. Dated(s)
  BY StoredDated
<1>2. x # None
  BY NoneAssumption
<1>3. LET y == [x EXCEPT !.batch_id = None] IN
      y.explanation = x.explanation /\ y.explained_at = x.explained_at
  BY DEF Expense
<1> HIDE DEF s
<1>4. \/ BatchStored(x, e, b) = x
      \/ BatchStored(x, e, b) = [x EXCEPT !.batch_id = None]
      \/ BatchStored(x, e, b) = s /\ ~x.explained_at
  BY DEF BatchStored, s
<1> QED
  BY <1>1, <1>2, <1>3, <1>4 DEF Dated, TextKept

LEMMA DatedStep ==
    ASSUME ExplanationsTypeOK, ReferencesHold, TextsDated, [Next]_vars
    PROVE  TextsDated'
<1> SUFFICES ASSUME Recomputes = {}, NEW e \in Expenses PROVE Dated(expense'[e])
  BY DEF TextsDated
<1>0. Dated(expense[e]) /\ expense \in [Expenses -> Expense \cup {None}] /\ None \notin Expense
  BY NoneAssumption DEF TextsDated, ExplanationsTypeOK
<1>1. CASE expense'[e] = expense[e]
  BY <1>0, <1>1
<1>2. ASSUME NEW f \in Expenses, NEW content \in Contents, NEW severity \in Severities,
             CreateExpense(f, content, severity)
      PROVE  Dated(expense'[e])
  BY <1>0, <1>2 DEF CreateExpense, Dated
<1>3. ASSUME NEW f \in Expenses, NEW content \in Contents, NEW severity \in Severities,
             UpdateExpense(f, content, severity), expense'[e] # expense[e]
      PROVE  Dated(expense'[e])
  <2> DEFINE x == expense[f]
             y == IF content = x.content THEN x ELSE [Reset(x) EXCEPT !.content = content]
  <2>1. f = e /\ expense'[f] = Analyzed(y, severity) /\ x \in Expense
    BY <1>0, <1>3 DEF UpdateExpense, Exists
  <2>2. y \in Expense /\ Dated(y)
    <3>1. Reset(x) \in Expense /\ Reset(x).explanation = None
      BY <2>1, ResetTyped
    <3> QED
      BY <1>0, <2>1, <3>1 DEF Expense, Dated
  <2> HIDE DEF y
  <2> QED
    BY <2>1, <2>2, AnalyzedDated
<1>4. ASSUME NEW f \in Expenses, DeleteExpense(f) \/ Review(f) PROVE Dated(expense'[e])
  BY <1>0, <1>4 DEF DeleteExpense, Review, Exists, Dated, Expense
<1>5. ASSUME NEW p \in Replicas, SaveEach(p), expense'[e] # expense[e] PROVE Dated(expense'[e])
  <2>1. /\ expense'[e] = Stored(expense[e], run[p].outcome[e], run[p].subject[e], p)
        /\ e \in run[p].items /\ StillAsRead(expense[e], run[p].subject[e])
    BY <1>0, <1>5 DEF SaveEach
  <2>2. expense[e] \in Expense
    BY <1>0, <2>1 DEF ReferencesHold
  <2> QED
    BY <2>1, <2>2, StoredDated
<1>6. ASSUME NEW p \in Replicas, AttachBatch(p) PROVE Dated(expense'[e])
  <2>1. e \in run[p].items => expense[e] # None
    BY <1>6 DEF ReferencesHold
  <2> QED
    BY <1>0, <1>6, <2>1 DEF AttachBatch, Dated, Expense
<1>7. ASSUME NEW p \in Replicas, NEW b \in Batches, Collect(p, b) PROVE Dated(expense'[e])
  <2>1. expense'[e] = BatchStored(expense[e], e, b)
    BY <1>7 DEF Collect
  <2>2. CASE expense[e] = None
    BY <1>0, <2>1, <2>2 DEF BatchStored
  <2>3. CASE expense[e] # None
    BY <1>0, <2>1, <2>3, BatchStoredDated
  <2> QED
    BY <2>2, <2>3
<1>8. ASSUME UNCHANGED expense PROVE Dated(expense'[e])
  BY <1>0, <1>8
<1>9. ASSUME NEW p \in Replicas,
             StartRun(p) \/ ReadPending(p) \/ ReserveBudget(p) \/ ExplainEach(p) \/ AbortRun(p)
             \/ \E b \in Batches : SubmitBatch(p, b) \/ SkipBatch(p, b)
      PROVE  UNCHANGED expense
  BY <1>9 DEF StartRun, ReadPending, ReserveBudget, ExplainEach, AbortRun, SubmitBatch, SkipBatch
<1>10. CASE NewDay \/ UNCHANGED vars \/ \E b \in Batches : EndBatch(b) \/ LoseBatch(b)
  BY <1>8, <1>10 DEF NewDay, vars, EndBatch, LoseBatch
<1>11. CASE ExpenseStep
  BY <1>11, <1>1, <1>2, <1>3, <1>4 DEF ExpenseStep
<1>12. ASSUME NEW p \in Replicas, RunStep(p) PROVE Dated(expense'[e])
  BY <1>12, <1>1, <1>5, <1>6, <1>8, <1>9 DEF RunStep
<1> QED
  BY <1>7, <1>8, <1>9, <1>10, <1>11, <1>12 DEF Next

LEMMA TextsStayDated == Spec => []TextsDated
<1>1. Init => TextsDated
  BY DEF Init, TextsDated, Dated
<1>2. ExplanationsInv /\ TextsDated /\ [Next]_vars => TextsDated'
  BY DatedStep DEF ExplanationsInv
<1> QED
  BY <1>1, <1>2, ExplanationsAlways, PTL DEF Spec

(* The text staff read is never replaced by another, for any number of         *)
(* replicas, batches and recomputes, as long as the two do not meet: save      *)
(* looks at the row it read, and save_batch_result at the date, which a flush  *)
(* of recompute can take from a text.                                          *)
THEOREM TextIsNeverRewritten ==
    Batches = {} \/ Recomputes = {} => (Spec => NeverRewritten)
<1> SUFFICES ASSUME Batches = {} \/ Recomputes = {} PROVE Spec => NeverRewritten
  OBVIOUS
<1>1. ASSUME ExplanationsInv, TextsDated, [Next]_vars
      PROVE  [\A e \in Expenses : expense[e] # None /\ expense[e].explanation # None
                => expense'[e].explanation \in {None, expense[e].explanation}]_vars
  <2>1. ASSUME NEW e \in Expenses PROVE TextKept(expense[e], expense'[e])
    <3>1. CASE \E p \in Replicas, b \in Batches : Collect(p, b)
      <4>1. PICK b \in Batches : expense'[e] = BatchStored(expense[e], e, b)
        BY <3>1 DEF Collect
      <4>2. Dated(expense[e]) /\ expense[e] \in Expense \cup {None}
        BY <1>1 DEF TextsDated, ExplanationsInv, ExplanationsTypeOK
      <4>3. CASE expense[e] = None
        BY <4>3 DEF TextKept
      <4>4. CASE expense[e] # None
        BY <4>1, <4>2, <4>4, BatchStoredDated
      <4> QED
        BY <4>3, <4>4
    <3>2. CASE ~\E p \in Replicas, b \in Batches : Collect(p, b)
      BY <1>1, <3>2, TextsKept DEF ExplanationsInv
    <3> QED
      BY <3>1, <3>2
  <2> QED
    BY <2>1 DEF TextKept
<1> QED
  BY <1>1, ExplanationsAlways, TextsStayDated, PTL DEF Spec, NeverRewritten

=============================================================================
