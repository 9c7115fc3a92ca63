----------------------- MODULE ExecutionStore_proofs -----------------------
(***************************************************************************)
(* Theorems about the execution store, for every number of records, steps, *)
(* failed transactions and restarts.                                       *)
(***************************************************************************)
EXTENDS ExecutionStore, TLAPS

USE CapacityAssumption, BoundAssumption, NoneAssumption

\* What the records and the persistence helpers are typed by.
LEMMA NoRecordType == NoRecord \in Record
  BY DEF NoRecord, Record, StepStatus

LEMMA NewRecordType ==
  ASSUME NEW r \in Reviews, NEW skipped \in SUBSET Steps
  PROVE  NewRecord(r, skipped) \in Record
  BY DEF NewRecord, Record, StepStatus, Active

\* A transaction leaves well-typed rows, whether it succeeds or not.
LEMMA PersistType ==
  ASSUME TypeOK, NEW e \in Execs, NEW rec \in Record, NEW gone, NEW ok \in BOOLEAN,
         Persist(e, rec, gone, ok)
  PROVE  db' \in [Execs -> Record] /\ faults' \in 0..MaxFaults
<1> DEFINE rows == [f \in Execs |-> IF f = e THEN rec
                                  ELSE IF f \in gone THEN NoRecord ELSE db[f]]
<1>1. rows \in [Execs -> Record]
  BY NoRecordType DEF TypeOK
<1>2. db' = rows \/ db' = db
  BY Zenon DEF Persist
<1>3. faults' = faults \/ (faults < MaxFaults /\ faults' = faults + 1)
  BY Zenon DEF Persist
<1>4. QED
  BY <1>1, <1>2, <1>3 DEF TypeOK

LEMMA UpdateType ==
  ASSUME TypeOK, NEW e \in Execs, NEW rec \in Record, NEW ok \in BOOLEAN,
         Update(e, rec, ok)
  PROVE  /\ mem' \in [Execs -> Record]
         /\ db' \in [Execs -> Record]
         /\ faults' \in 0..MaxFaults
  BY PersistType DEF TypeOK, Update

\* The shapes of record update the operations make.
LEMMA StatusNames ==
  /\ {"pending_execution", "running", "completed", "failed", "cancelled"}
        \subseteq Active \cup Terminal
  /\ {"pending", "running", "completed", "failed", "skipped", "cancelled"}
        \subseteq StepStatus
  BY DEF Active, Terminal, StepStatus

LEMMA StepUpdate ==
  ASSUME NEW rec \in Record, NEW s \in Steps, NEW st \in StepStatus
  PROVE  [rec EXCEPT !.steps[s] = st] \in Record
  BY DEF Record

LEMMA EndUpdate ==
  ASSUME NEW rec \in Record, NEW st \in Active \cup Terminal, NEW t \in 0..MaxTime
  PROVE  /\ [rec EXCEPT !.status = st, !.completedAt = t] \in Record
         /\ [rec EXCEPT !.status = st, !.current = None, !.completedAt = t] \in Record
  BY DEF Record

LEMMA StartUpdate ==
  ASSUME NEW rec \in Record, NEW s \in Steps, NEW st \in Active \cup Terminal,
         NEW v \in StepStatus, rec.starts[s] < MaxStarts
  PROVE  [rec EXCEPT !.status = st, !.current = s, !.steps[s] = v,
                     !.starts[s] = @ + 1] \in Record
<1>1. rec.starts[s] \in 0..MaxStarts /\ rec.starts[s] + 1 \in 0..MaxStarts
  BY DEF Record
<1>2. QED
  BY <1>1 DEF Record

LEMMA RetryUpdate ==
  ASSUME NEW rec \in Record, NEW s \in Steps, NEW st \in Active \cup Terminal,
         NEW v \in StepStatus
  PROVE  [rec EXCEPT !.status = st, !.current = None, !.completedAt = 0,
                     !.steps[s] = v] \in Record
<1>1. 0 \in 0..MaxTime
  OBVIOUS
<1>2. QED
  BY <1>1 DEF Record

LEMMA CancelUpdate ==
  ASSUME NEW rec \in Record, NEW x \in [Steps -> StepStatus], NEW t \in 0..MaxTime,
         NEW st \in Active \cup Terminal
  PROVE  [rec EXCEPT !.status = st, !.completedAt = t, !.steps = x] \in Record
  BY DEF Record

LEMMA AfterStepType ==
  ASSUME TypeOK, NEW rec \in Record
  PROVE  AfterStep(rec) \in Record /\ AfterFailure(rec) \in Record
<1>1. now \in 0..MaxTime
  BY DEF TypeOK
<1>2. /\ (IF Settled(rec) THEN "completed" ELSE "running") \in Active \cup Terminal
      /\ (IF Settled(rec) THEN now ELSE 0) \in 0..MaxTime
      /\ "failed" \in Active \cup Terminal
  BY <1>1, StatusNames
<1>3. QED
  BY <1>1, <1>2, EndUpdate DEF AfterStep, AfterFailure

\* One lemma for the types of every action.
LEMMA TypeStep == TypeOK /\ [Next]_vars => TypeOK'
<1>0. TypeOK => now \in 0..MaxTime
  BY DEF TypeOK
<1>2. TypeOK /\ [Next]_vars => TypeOK'
  <2> SUFFICES ASSUME TypeOK, [Next]_vars PROVE TypeOK'
    OBVIOUS
  <2>1. ASSUME NEW e \in Execs, NEW r \in Reviews, NEW skipped \in SUBSET Steps,
               NEW ok \in BOOLEAN, Create(e, r, skipped, ok)
        PROVE  TypeOK'
    <3>1. NewRecord(r, skipped) \in Record
      BY NewRecordType
    <3>2. PICK gone \in EvictionChoices(mem) :
            /\ mem' = [f \in Execs |-> IF f = e THEN NewRecord(r, skipped)
                                       ELSE IF f \in gone THEN NoRecord ELSE mem[f]]
            /\ Persist(e, NewRecord(r, skipped), gone, ok)
      BY <2>1 DEF Create
    <3>3. mem' \in [Execs -> Record]
      BY <3>1, <3>2, NoRecordType DEF TypeOK
    <3>4. db' \in [Execs -> Record] /\ faults' \in 0..MaxFaults
      BY <3>1, <3>2, PersistType
    <3>5. QED
      BY <2>1, <3>3, <3>4 DEF Create, TypeOK
  <2>2. ASSUME NEW r \in Reviews, CreateRefused(r)
        PROVE  TypeOK'
    BY <2>2, NoRecordType DEF CreateRefused, TypeOK
  <2>3. ASSUME NEW e \in Execs, NEW ok \in BOOLEAN, FailBeforeStart(e, ok)
        PROVE  TypeOK'
    <3>1. [mem[e] EXCEPT !.status = "failed", !.completedAt = now] \in Record
      BY <1>0, StatusNames, EndUpdate DEF TypeOK
    <3>2. CASE mem[e].status = "absent"
      BY <2>3, <3>2 DEF FailBeforeStart, TypeOK
    <3>3. CASE mem[e].status # "absent"
      BY <2>3, <3>1, <3>3, UpdateType DEF FailBeforeStart, TypeOK
    <3>4. QED BY <3>2, <3>3
  <2>4. ASSUME NEW e \in Execs, NEW ok \in BOOLEAN, AppendEvent(e, ok)
        PROVE  TypeOK'
    <3>1. mem[e] \in Record
      BY DEF TypeOK
    <3>2. QED BY <2>4, <3>1, UpdateType DEF AppendEvent, TypeOK
  <2>5. ASSUME NEW e \in Execs, NEW s \in Steps, NEW ok \in BOOLEAN, StartStep(e, s, ok)
        PROVE  TypeOK'
    <3>1. [mem[e] EXCEPT !.status = "running", !.current = s, !.steps[s] = "running",
                         !.starts[s] = @ + 1] \in Record
      BY <2>5, StatusNames, StartUpdate DEF StartStep, TypeOK
    <3>2. callers' \in [Execs -> [Steps -> Nat]]
      BY <2>5 DEF StartStep, TypeOK
    <3>3. QED BY <2>5, <3>1, <3>2, UpdateType DEF StartStep, TypeOK
  <2>6. ASSUME NEW e \in Execs, NEW s \in Steps, NEW ok \in BOOLEAN, StartRefused(e, s, ok)
        PROVE  TypeOK'
    <3>1. mem[e] \in Record
      BY DEF TypeOK
    <3>2. QED BY <2>6, <3>1, UpdateType DEF StartRefused, TypeOK
  <2>7. ASSUME NEW e \in Execs, NEW s \in Steps, NEW success \in BOOLEAN,
               NEW ok \in BOOLEAN, FinishStep(e, s, success, ok)
        PROVE  TypeOK'
    <3>1. /\ [mem[e] EXCEPT !.steps[s] = "completed"] \in Record
          /\ [mem[e] EXCEPT !.steps[s] = "failed"] \in Record
      BY StatusNames, StepUpdate DEF TypeOK
    <3>2. /\ AfterStep([mem[e] EXCEPT !.steps[s] = "completed"]) \in Record
          /\ AfterFailure([mem[e] EXCEPT !.steps[s] = "failed"]) \in Record
      BY <3>1, AfterStepType
    <3>3. callers' \in [Execs -> [Steps -> Nat]]
      BY <2>7 DEF FinishStep, TypeOK
    <3>4. mem' \in [Execs -> Record] /\ db' \in [Execs -> Record] /\ faults' \in 0..MaxFaults
      BY <2>7, <3>2, UpdateType DEF FinishStep
    <3>5. QED BY <2>7, <3>3, <3>4 DEF FinishStep, TypeOK
  <2>8. ASSUME NEW e \in Execs, NEW s \in Steps, CallerLost(e, s)
        PROVE  TypeOK'
    BY <2>8 DEF CallerLost, TypeOK
  <2>9. ASSUME NEW e \in Execs, NEW ok \in BOOLEAN, FailRuntime(e, ok)
        PROVE  TypeOK'
    <3>1. AfterFailure(mem[e]) \in Record
      BY AfterStepType DEF TypeOK
    <3>2. QED BY <2>9, <3>1, UpdateType DEF FailRuntime, TypeOK
  <2>10. ASSUME NEW e \in Execs, NEW s \in Steps, NEW ok \in BOOLEAN, RetryStep(e, s, ok)
         PROVE  TypeOK'
    <3>1. [mem[e] EXCEPT !.status = "running", !.current = None, !.completedAt = 0,
                         !.steps[s] = "pending"] \in Record
      BY StatusNames, RetryUpdate DEF TypeOK
    <3>2. QED BY <2>10, <3>1, UpdateType DEF RetryStep, TypeOK
  <2>11. ASSUME NEW e \in Execs, NEW s \in Steps, NEW ok \in BOOLEAN, SkipFailedStep(e, s, ok)
         PROVE  TypeOK'
    <3>1. [mem[e] EXCEPT !.steps[s] = "skipped"] \in Record
      BY StatusNames, StepUpdate DEF TypeOK
    <3>2. AfterStep([mem[e] EXCEPT !.steps[s] = "skipped"]) \in Record
      BY <3>1, AfterStepType
    <3>3. QED BY <2>11, <3>2, UpdateType DEF SkipFailedStep, TypeOK
  <2>12. ASSUME NEW e \in Execs, NEW ok \in BOOLEAN, Cancel(e, ok)
         PROVE  TypeOK'
    <3> DEFINE x == [s \in Steps |-> IF mem[e].steps[s] = "pending"
                                     THEN "cancelled" ELSE mem[e].steps[s]]
    <3>1. x \in [Steps -> StepStatus]
      BY StatusNames DEF TypeOK, Record
    <3>2. [mem[e] EXCEPT !.status = "cancelled", !.completedAt = now, !.steps = x] \in Record
      BY <1>0, <3>1, StatusNames, CancelUpdate DEF TypeOK
    <3>3. QED BY <2>12, <3>2, UpdateType DEF Cancel, TypeOK
  <2>13. CASE Restart
    BY <2>13 DEF Restart, TypeOK
  <2>14. CASE Tick
    BY <2>14 DEF Tick, TypeOK
  <2>15. CASE UNCHANGED vars
    BY <2>15 DEF vars, TypeOK
  <2>16. QED
    BY <2>1, <2>2, <2>3, <2>4, <2>5, <2>6, <2>7, <2>8, <2>9, <2>10, <2>11, <2>12,
       <2>13, <2>14, <2>15 DEF Next, RecordOperation, StepOperation
<1>3. QED
  BY <1>2

\* Type correctness: no operation, failed transaction or restart leaves the
\* sets of statuses, times and counters that the record classes declare.
THEOREM TypeCorrect == Spec => []TypeOK
<1>1. Init => TypeOK
  BY NoRecordType DEF Init, TypeOK
<1>2. QED
  BY <1>1, TypeStep, PTL DEF Spec

----------------------------------------------------------------------------
(* The inductive invariant.  NoDuplicateExecution alone is not inductive: it   *)
(* has to know that the step of a thread in flight is running in memory, so    *)
(* that start_step refuses it, and that the record is never issued again.      *)

\* An id that was not issued yet has no record, no row and no thread.
Fresh ==
  \A e \in Execs \ used :
    /\ mem[e].status = "absent"
    /\ db[e].status = "absent"
    /\ \A s \in Steps : callers[e][s] = 0

\* A thread in flight is alone, and its step is running wherever its record is.
InFlight ==
  \A e \in Execs, s \in Steps : callers[e][s] > 0 =>
    /\ callers[e][s] = 1
    /\ mem[e].status = "absent" \/ mem[e].steps[s] = "running"
    /\ db[e].status = "absent" \/ db[e].steps[s] = "running"

IInv == TypeOK /\ Fresh /\ InFlight /\ OutcomeMatchesSteps /\ OneRecordPerReview

\* A write of a live record that keeps its id's review keeps Fresh.
LEMMA UpdateFresh ==
  ASSUME TypeOK, Fresh, NEW e \in Execs, NEW rec \in Record, NEW ok \in BOOLEAN,
         Update(e, rec, ok), mem[e].status # "absent", used' = used,
         callers' \in [Execs -> [Steps -> Nat]],
         \A f \in Execs : f # e => callers'[f] = callers[f]
  PROVE  Fresh'
<1>1. e \in used
  BY DEF Fresh
<1>2. \A f \in Execs : f # e => mem'[f] = mem[f]
  BY DEF Update, TypeOK
<1>3. \A f \in Execs : f # e => db'[f] = db[f]
  BY DEF Update, Persist, TypeOK
<1>4. QED
  BY <1>1, <1>2, <1>3 DEF Fresh

\* A write keeps InFlight if the written record has every step in flight running
\* and, when the transaction failed, the old row has too.
LEMMA UpdateInFlight ==
  ASSUME TypeOK, InFlight, NEW e \in Execs, NEW rec \in Record, NEW ok \in BOOLEAN,
         Update(e, rec, ok),
         callers' \in [Execs -> [Steps -> Nat]],
         \A f \in Execs : f # e => callers'[f] = callers[f],
         \A s \in Steps : callers'[e][s] > 0 =>
           /\ callers'[e][s] = 1
           /\ rec.steps[s] = "running"
           /\ ok \/ callers[e][s] > 0
  PROVE  InFlight'
<1>1. mem'[e] = rec /\ \A f \in Execs : f # e => mem'[f] = mem[f]
  BY DEF Update, TypeOK
<1>2. \A f \in Execs : f # e => db'[f] = db[f]
  BY DEF Update, Persist, TypeOK
<1>3. db'[e] = rec \/ (db'[e] = db[e] /\ ~ok)
  BY DEF Update, Persist, TypeOK
<1>4. QED
  BY <1>1, <1>2, <1>3 DEF InFlight

\* A write of a consistent record keeps every record consistent.
LEMMA UpdateOutcome ==
  ASSUME TypeOK, OutcomeMatchesSteps, NEW e \in Execs, NEW rec \in Record,
         NEW ok \in BOOLEAN, Update(e, rec, ok), Consistent(rec)
  PROVE  OutcomeMatchesSteps'
<1>1. mem'[e] = rec /\ \A f \in Execs : f # e => mem'[f] = mem[f]
  BY DEF Update, TypeOK
<1>2. \A f \in Execs : db'[f] = db[f] \/ db'[f] = rec
  BY DEF Update, Persist, TypeOK
<1>3. \A f \in Execs : Consistent(mem'[f]) /\ Consistent(db'[f])
  BY <1>1, <1>2 DEF OutcomeMatchesSteps
<1>4. QED
  BY <1>3 DEF OutcomeMatchesSteps, Consistent, Settled

\* A write of a live record under its own review keeps reviews unshared: the
\* UNIQUE constraint does it for the rows.
LEMMA UpdateReview ==
  ASSUME TypeOK, OneRecordPerReview, NEW e \in Execs, NEW rec \in Record,
         NEW ok \in BOOLEAN, Update(e, rec, ok), mem[e].status # "absent",
         rec.review = mem[e].review
  PROVE  OneRecordPerReview'
<1>1. mem'[e] = rec /\ \A f \in Execs : f # e => mem'[f] = mem[f]
  BY DEF Update, TypeOK
<1>2. \A f \in Execs : f # e => db'[f] = db[f]
  BY DEF Update, Persist, TypeOK
<1>3. db'[e] = db[e] \/ (db'[e] = rec /\ ~Clash(e, rec, {}))
  BY DEF Update, Persist, TypeOK
<1>4. \A f, g \in Live(mem') : mem'[f].review = mem'[g].review => f = g
  BY <1>1 DEF OneRecordPerReview, Live
<1>5. \A f, g \in Live(db') : db'[f].review = db'[g].review => f = g
  BY <1>2, <1>3 DEF OneRecordPerReview, Live, Clash
<1>6. QED
  BY <1>4, <1>5 DEF OneRecordPerReview, Live

\* What AfterStep and AfterFailure keep and set.
LEMMA AfterStepFacts ==
  ASSUME TypeOK, NEW rec \in Record,
         \A s \in Steps : TRUE
  PROVE  /\ AfterStep(rec).steps = rec.steps
         /\ AfterStep(rec).review = rec.review
         /\ AfterFailure(rec).steps = rec.steps
         /\ AfterFailure(rec).review = rec.review
         /\ Consistent(AfterStep(rec))
         /\ Consistent(AfterFailure(rec))
<1>1. now # 0
  BY DEF TypeOK
<1>2. Consistent(AfterFailure(rec))
  BY <1>1 DEF AfterFailure, Consistent, Record, Terminal
<1>3. AfterStep(rec).steps = rec.steps
  BY DEF AfterStep, Record
<1>4. CASE Settled(rec)
  <2>1. Settled(AfterStep(rec))
    BY <1>3, <1>4 DEF Settled
  <2>2. Consistent(AfterStep(rec))
    BY <1>1, <1>4, <2>1 DEF AfterStep, Consistent, Record, Terminal
  <2>3. QED
    BY <1>2, <1>3, <2>2 DEF AfterStep, AfterFailure, Record
<1>5. CASE ~Settled(rec)
  <2>1. Consistent(AfterStep(rec))
    BY <1>5 DEF AfterStep, Consistent, Record, Terminal
  <2>2. QED
    BY <1>2, <1>3, <2>1 DEF AfterStep, AfterFailure, Record
<1>6. QED
  BY <1>4, <1>5

\* Each operation on a live record writes a record to which the four update
\* lemmas apply: this is what an operation has to show.
LEMMA UpdateIInv ==
  ASSUME IInv, TypeOK', NEW e \in Execs, NEW rec \in Record, NEW ok \in BOOLEAN,
         Update(e, rec, ok), mem[e].status # "absent", used' = used,
         rec.review = mem[e].review, Consistent(rec),
         \A f \in Execs : f # e => callers'[f] = callers[f],
         \A s \in Steps : callers'[e][s] > 0 =>
           /\ callers'[e][s] = 1
           /\ rec.steps[s] = "running"
           /\ ok \/ callers[e][s] > 0
  PROVE  IInv'
<1>1. callers' \in [Execs -> [Steps -> Nat]]
  BY DEF TypeOK
<1>2. QED
  BY <1>1, UpdateFresh, UpdateInFlight, UpdateOutcome, UpdateReview DEF IInv

LEMMA IInvStep == IInv /\ [Next]_vars => IInv'
<1> SUFFICES ASSUME IInv, [Next]_vars PROVE IInv'
  OBVIOUS
<1>t. TypeOK /\ TypeOK'
  BY TypeStep DEF IInv
<1>a. \A e \in Execs : mem[e] \in Record /\ Consistent(mem[e])
  BY <1>t DEF IInv, TypeOK, OutcomeMatchesSteps
<1>n. now \in 0..MaxTime /\ now # 0
  BY <1>t DEF TypeOK
<1>b. ASSUME NEW e \in Execs, mem[e].status # "absent"
      PROVE  \A s \in Steps : callers[e][s] > 0 =>
               callers[e][s] = 1 /\ mem[e].steps[s] = "running"
  BY <1>b DEF IInv, InFlight
<1>1. ASSUME NEW e \in Execs, NEW r \in Reviews, NEW skipped \in SUBSET Steps,
             NEW ok \in BOOLEAN, Create(e, r, skipped, ok)
      PROVE  IInv'
  <2> DEFINE rec == NewRecord(r, skipped)
  <2>1. PICK gone \in EvictionChoices(mem) :
          /\ mem' = [f \in Execs |-> IF f = e THEN rec
                                     ELSE IF f \in gone THEN NoRecord ELSE mem[f]]
          /\ Persist(e, rec, gone, ok)
    BY <1>1 DEF Create
  <2>2. rec.review = r /\ rec.status = "pending_execution" /\ Consistent(rec)
    BY DEF NewRecord, Consistent, Terminal, Settled
  <2>3. NoRecord.status = "absent" /\ Consistent(NoRecord)
    BY DEF NoRecord, Consistent, Terminal, Settled
  <2>4. \A f \in Execs : f # e => mem'[f] = NoRecord \/ mem'[f] = mem[f]
    BY <2>1
  <2>5. mem'[e] = rec /\ callers' = callers /\ used' = used \cup {e}
    BY <1>1, <2>1 DEF Create
  <2>6. \A f \in Execs : f # e => db'[f] = NoRecord \/ db'[f] = db[f]
    BY <2>1 DEF Persist
  <2>7. db'[e] = db[e] \/ (db'[e] = rec /\ ~Clash(e, rec, gone)
                           /\ \A f \in gone : f # e /\ f \in Execs => db'[f] = NoRecord)
    BY <2>1 DEF Persist, TypeOK
  <2>8. Fresh'
    BY <2>3, <2>4, <2>5, <2>6 DEF IInv, Fresh
  <2>9. InFlight'
    <3>1. \A s \in Steps : callers[e][s] = 0
      BY <1>1 DEF Create, IInv, Fresh
    <3>2. QED
      BY <2>3, <2>4, <2>5, <2>6, <3>1 DEF IInv, InFlight
  <2>10. OutcomeMatchesSteps'
    <3>1. \A f \in Execs : Consistent(mem'[f]) /\ Consistent(db'[f])
      BY <2>2, <2>3, <2>4, <2>5, <2>6, <2>7 DEF IInv, OutcomeMatchesSteps
    <3>2. QED
      BY <3>1 DEF OutcomeMatchesSteps, Consistent, Settled
  <2>11. OneRecordPerReview'
    <3>1. \A f \in Live(mem) : mem[f].review # r
      BY <1>1 DEF Create, HasReview
    <3>2. \A f, g \in Live(mem') : mem'[f].review = mem'[g].review => f = g
      BY <2>2, <2>3, <2>4, <2>5, <3>1 DEF IInv, OneRecordPerReview, Live
    <3>3. \A f, g \in Live(db') : db'[f].review = db'[g].review => f = g
      BY <2>2, <2>3, <2>6, <2>7 DEF IInv, OneRecordPerReview, Live, Clash
    <3>4. QED
      BY <3>2, <3>3 DEF OneRecordPerReview, Live
  <2>12. QED
    BY <1>t, <2>8, <2>9, <2>10, <2>11 DEF IInv
<1>2. ASSUME NEW r \in Reviews, CreateRefused(r)
      PROVE  IInv'
  <2>1. NoRecord.status = "absent" /\ Consistent(NoRecord)
    BY DEF NoRecord, Consistent, Terminal, Settled
  <2>2. \A f \in Execs : mem'[f] = NoRecord \/ mem'[f] = mem[f]
    BY <1>2 DEF CreateRefused
  <2>3. db' = db /\ callers' = callers /\ used' = used
    BY <1>2 DEF CreateRefused
  <2>4. Fresh' /\ InFlight'
    BY <2>1, <2>2, <2>3 DEF IInv, Fresh, InFlight
  <2>5. OutcomeMatchesSteps'
    <3>1. \A f \in Execs : Consistent(mem'[f]) /\ Consistent(db'[f])
      BY <2>1, <2>2, <2>3 DEF IInv, OutcomeMatchesSteps
    <3>2. QED
      BY <3>1 DEF OutcomeMatchesSteps, Consistent, Settled
  <2>6. OneRecordPerReview'
    BY <2>1, <2>2, <2>3 DEF IInv, OneRecordPerReview, Live
  <2>7. QED
    BY <1>t, <2>4, <2>5, <2>6 DEF IInv
<1>3. ASSUME NEW e \in Execs, NEW ok \in BOOLEAN, NEW rec \in Record,
             Update(e, rec, ok), mem[e].status # "absent",
             used' = used, callers' = callers,
             rec.review = mem[e].review, Consistent(rec),
             \A s \in Steps : mem[e].steps[s] = "running" => rec.steps[s] = "running"
      PROVE  IInv'
  <2>1. \A s \in Steps : callers'[e][s] > 0 =>
          callers'[e][s] = 1 /\ rec.steps[s] = "running" /\ (ok \/ callers[e][s] > 0)
    BY <1>b, <1>3
  <2>2. \A f \in Execs : f # e => callers'[f] = callers[f]
    BY <1>3
  <2>3. QED
    BY <1>t, <1>3, <2>1, <2>2, UpdateIInv
<1>4. ASSUME NEW e \in Execs, NEW ok \in BOOLEAN, FailBeforeStart(e, ok)
      PROVE  IInv'
  <2>1. CASE mem[e].status = "absent"
    <3>1. UNCHANGED <<mem, db, used, callers>>
      BY <1>4, <2>1 DEF FailBeforeStart
    <3>2. QED
      BY <1>t, <3>1 DEF IInv, Fresh, InFlight, OutcomeMatchesSteps, Consistent, Settled,
         OneRecordPerReview, Live
  <2>2. CASE mem[e].status # "absent"
    <3> DEFINE rec == [mem[e] EXCEPT !.status = "failed", !.completedAt = now]
    <3>1. rec \in Record
      BY <1>a, <1>n, StatusNames, EndUpdate
    <3>2. rec.review = mem[e].review /\ rec.steps = mem[e].steps
      BY <1>a DEF Record
    <3>3. Consistent(rec)
      BY <1>a, <1>n DEF Record, Consistent, Terminal
    <3>4. Update(e, rec, ok) /\ used' = used /\ callers' = callers
      BY <1>4, <2>2 DEF FailBeforeStart
    <3> HIDE DEF rec
    <3>5. QED
      BY <1>3, <2>2, <3>1, <3>2, <3>3, <3>4
  <2>3. QED
    BY <2>1, <2>2
<1>5. ASSUME NEW e \in Execs, NEW ok \in BOOLEAN,
             AppendEvent(e, ok) \/ \E s \in Steps : StartRefused(e, s, ok)
      PROVE  IInv'
  <2>1. /\ Update(e, mem[e], ok) /\ used' = used /\ callers' = callers
        /\ mem[e].status # "absent"
    BY <1>5 DEF AppendEvent, StartRefused, Live
  <2>2. QED
    BY <1>3, <1>a, <2>1
<1>6. ASSUME NEW e \in Execs, NEW s \in Steps, NEW ok \in BOOLEAN, StartStep(e, s, ok)
      PROVE  IInv'
  <2> DEFINE rec == [mem[e] EXCEPT !.status = "running", !.current = s,
                                   !.steps[s] = "running", !.starts[s] = @ + 1]
  <2>1. mem[e].status \in Active /\ mem[e].steps[s] = "pending" /\ mem[e].starts[s] < MaxStarts
    BY <1>6 DEF StartStep, CanStart
  <2>2. mem[e].status # "absent"
    BY <2>1 DEF Active
  <2>3. rec \in Record
    BY <1>a, <2>1, StatusNames, StartUpdate
  <2>4. /\ rec.review = mem[e].review
        /\ rec.steps[s] = "running"
        /\ \A t \in Steps : t # s => rec.steps[t] = mem[e].steps[t]
    BY <1>a DEF Record
  <2>5. Consistent(rec)
    <3>1. rec.status = "running" /\ rec.current = s /\ rec.completedAt = mem[e].completedAt
      BY <1>a DEF Record
    <3>2. mem[e].completedAt = 0
      BY <1>a, <2>1 DEF Consistent, Active, Terminal
    <3>3. QED
      BY <2>4, <3>1, <3>2 DEF Consistent, Terminal
  <2>6. callers[e][s] = 0
    <3>1. callers[e][s] \in Nat
      BY <1>t DEF TypeOK
    <3>2. mem[e].steps[s] # "running"
      BY <2>1
    <3>3. ~(callers[e][s] > 0)
      BY <1>b, <2>2, <3>2
    <3>4. QED
      BY <3>1, <3>3
  <2>7. /\ \A f \in Execs : f # e => callers'[f] = callers[f]
        /\ \A t \in Steps : t # s => callers'[e][t] = callers[e][t]
        /\ callers'[e][s] = IF ok THEN 1 ELSE 0
    BY <1>t, <1>6, <2>6 DEF StartStep, TypeOK
  <2>8. Update(e, rec, ok) /\ used' = used
    BY <1>6 DEF StartStep
  <2> HIDE DEF rec
  <2>9. \A t \in Steps : callers'[e][t] > 0 =>
          callers'[e][t] = 1 /\ rec.steps[t] = "running" /\ (ok \/ callers[e][t] > 0)
    <3>1. TAKE t \in Steps
    <3>2. CASE t = s
      BY <2>4, <2>7, <3>2
    <3>3. CASE t # s
      BY <1>b, <2>2, <2>4, <2>7, <3>3
    <3>4. QED
      BY <3>2, <3>3
  <2>10. QED
    BY <1>t, <2>2, <2>3, <2>4, <2>5, <2>7, <2>8, <2>9, UpdateIInv
<1>7. ASSUME NEW e \in Execs, NEW s \in Steps, NEW success \in BOOLEAN,
             NEW ok \in BOOLEAN, FinishStep(e, s, success, ok)
      PROVE  IInv'
  <2>1. callers[e][s] > 0 /\ mem[e].steps[s] = "running" /\ mem[e].status # "absent"
    BY <1>7 DEF FinishStep, Live
  <2> DEFINE v    == IF success THEN "completed" ELSE "failed"
             done == [mem[e] EXCEPT !.steps[s] = v]
             rec  == IF success THEN AfterStep(done) ELSE AfterFailure(done)
  <2>2. done \in Record
    BY <1>a, StatusNames, StepUpdate
  <2>3. /\ done.review = mem[e].review
        /\ \A t \in Steps : t # s => done.steps[t] = mem[e].steps[t]
    BY <1>a DEF Record
  <2>5. Update(e, rec, ok) /\ used' = used
    BY <1>7 DEF FinishStep
  <2> HIDE DEF done
  <2>4. rec \in Record /\ rec.steps = done.steps /\ rec.review = done.review /\ Consistent(rec)
    BY <1>t, <2>2, AfterStepType, AfterStepFacts
  <2> HIDE DEF rec
  <2>6. callers[e][s] = 1
    BY <1>b, <2>1
  <2>7. /\ \A f \in Execs : f # e => callers'[f] = callers[f]
        /\ \A t \in Steps : t # s => callers'[e][t] = callers[e][t]
        /\ callers'[e][s] = 0
    BY <1>t, <1>7, <2>6 DEF FinishStep, TypeOK
  <2>8. \A t \in Steps : callers'[e][t] > 0 =>
          callers'[e][t] = 1 /\ rec.steps[t] = "running" /\ (ok \/ callers[e][t] > 0)
    <3>1. TAKE t \in Steps
    <3>2. CASE t = s
      BY <2>7, <3>2
    <3>3. CASE t # s
      BY <1>b, <2>1, <2>3, <2>4, <2>7, <3>3
    <3>4. QED
      BY <3>2, <3>3
  <2>9. QED
    BY <1>t, <2>1, <2>3, <2>4, <2>5, <2>7, <2>8, UpdateIInv
<1>8. ASSUME NEW e \in Execs, NEW s \in Steps, CallerLost(e, s)
      PROVE  IInv'
  <2>1. /\ UNCHANGED <<mem, db, used>>
        /\ \A f \in Execs, t \in Steps :
             callers'[f][t] = callers[f][t] \/ callers'[f][t] = callers[f][t] - 1
    BY <1>t, <1>8 DEF CallerLost, TypeOK
  <2>2. \A f \in Execs, t \in Steps : callers[f][t] \in Nat /\ callers'[f][t] \in Nat
    BY <1>t DEF TypeOK
  <2>3. Fresh' /\ InFlight'
    BY <2>1, <2>2 DEF IInv, Fresh, InFlight
  <2>4. QED
    BY <1>t, <2>1, <2>3 DEF IInv, OutcomeMatchesSteps, Consistent, Settled,
       OneRecordPerReview, Live
<1>9. ASSUME NEW e \in Execs, NEW ok \in BOOLEAN, FailRuntime(e, ok)
      PROVE  IInv'
  <2>1. /\ mem[e].status # "absent"
        /\ Update(e, AfterFailure(mem[e]), ok) /\ used' = used /\ callers' = callers
    BY <1>9 DEF FailRuntime, Active
  <2>2. QED
    BY <1>t, <1>3, <1>a, <2>1, AfterStepType, AfterStepFacts
<1>10. ASSUME NEW e \in Execs, NEW s \in Steps, NEW ok \in BOOLEAN, RetryStep(e, s, ok)
       PROVE  IInv'
  <2> DEFINE rec == [mem[e] EXCEPT !.status = "running", !.current = None,
                                   !.completedAt = 0, !.steps[s] = "pending"]
  <2>1. /\ mem[e].status # "absent" /\ mem[e].steps[s] = "failed"
        /\ Update(e, rec, ok) /\ used' = used /\ callers' = callers
    BY <1>10 DEF RetryStep
  <2>2. rec \in Record
    BY <1>a, StatusNames, RetryUpdate
  <2>3. /\ rec.review = mem[e].review /\ rec.current = None
        /\ rec.status = "running" /\ rec.completedAt = 0
        /\ \A t \in Steps : t # s => rec.steps[t] = mem[e].steps[t]
    BY <1>a DEF Record
  <2> HIDE DEF rec
  <2>4. Consistent(rec)
    BY <2>3 DEF Consistent, Terminal
  <2>5. \A t \in Steps : mem[e].steps[t] = "running" => rec.steps[t] = "running"
    BY <2>1, <2>3
  <2>6. QED
    BY <1>3, <2>1, <2>2, <2>3, <2>4, <2>5
<1>11. ASSUME NEW e \in Execs, NEW s \in Steps, NEW ok \in BOOLEAN, SkipFailedStep(e, s, ok)
       PROVE  IInv'
  <2> DEFINE done == [mem[e] EXCEPT !.steps[s] = "skipped"]
  <2>1. /\ mem[e].status # "absent" /\ mem[e].steps[s] = "failed"
        /\ Update(e, AfterStep(done), ok) /\ used' = used /\ callers' = callers
    BY <1>11 DEF SkipFailedStep
  <2>2. done \in Record
    BY <1>a, StatusNames, StepUpdate
  <2>3. /\ done.review = mem[e].review
        /\ \A t \in Steps : t # s => done.steps[t] = mem[e].steps[t]
    BY <1>a DEF Record
  <2> HIDE DEF done
  <2>4. /\ AfterStep(done) \in Record /\ Consistent(AfterStep(done))
        /\ AfterStep(done).review = mem[e].review
        /\ \A t \in Steps : mem[e].steps[t] = "running" => AfterStep(done).steps[t] = "running"
    BY <1>t, <2>1, <2>2, <2>3, AfterStepType, AfterStepFacts
  <2>5. QED
    BY <1>3, <2>1, <2>4
<1>12. ASSUME NEW e \in Execs, NEW ok \in BOOLEAN, Cancel(e, ok)
       PROVE  IInv'
  <2> DEFINE x   == [s \in Steps |-> IF mem[e].steps[s] = "pending"
                                     THEN "cancelled" ELSE mem[e].steps[s]]
             rec == [mem[e] EXCEPT !.status = "cancelled", !.completedAt = now, !.steps = x]
  <2>1. /\ mem[e].status # "absent" /\ ~Busy(mem[e])
        /\ Update(e, rec, ok) /\ used' = used /\ callers' = callers
    BY <1>12 DEF Cancel, Active
  <2>2. x \in [Steps -> StepStatus]
    BY <1>a, StatusNames DEF Record
  <2>3. rec \in Record
    BY <1>a, <1>n, <2>2, StatusNames, CancelUpdate
  <2>4. /\ rec.review = mem[e].review /\ rec.current = mem[e].current
        /\ rec.status = "cancelled" /\ rec.completedAt # 0 /\ rec.steps = x
    BY <1>a, <1>n DEF Record
  <2>5. \A s \in Steps : mem[e].steps[s] # "running" /\ x[s] \notin {"pending", "running"}
    BY <2>1 DEF Busy
  <2> HIDE DEF x, rec
  <2>6. rec.current = None
    BY <1>a, <2>4, <2>5 DEF Consistent, Record
  <2>7. Consistent(rec)
    BY <2>4, <2>5, <2>6 DEF Consistent, Terminal
  <2>8. QED
    BY <1>3, <2>1, <2>3, <2>4, <2>5, <2>7
<1>13. CASE Restart
  <2>1. /\ mem' = db /\ db' = db /\ used' = used
        /\ callers' = [e \in Execs |-> [s \in Steps |-> 0]]
    BY <1>13 DEF Restart
  <2>2. Fresh' /\ InFlight'
    BY <2>1 DEF IInv, Fresh, InFlight
  <2>3. OneRecordPerReview'
    BY <2>1 DEF IInv, OneRecordPerReview, Live
  <2>4. OutcomeMatchesSteps'
    <3>1. \A e \in Execs : Consistent(mem'[e]) /\ Consistent(db'[e])
      BY <2>1 DEF IInv, OutcomeMatchesSteps
    <3>2. QED
      BY <3>1 DEF OutcomeMatchesSteps, Consistent, Settled
  <2>5. QED
    BY <1>t, <2>2, <2>3, <2>4 DEF IInv
<1>14. CASE Tick \/ UNCHANGED vars
  <2>1. UNCHANGED <<mem, db, used, callers>>
    BY <1>14 DEF Tick, vars
  <2>2. QED
    BY <1>t, <2>1 DEF IInv, Fresh, InFlight, OutcomeMatchesSteps, Consistent, Settled,
       OneRecordPerReview, Live
<1>15. QED
  BY <1>1, <1>2, <1>4, <1>5, <1>6, <1>7, <1>8, <1>9, <1>10, <1>11, <1>12, <1>13, <1>14
     DEF Next, RecordOperation, StepOperation

LEMMA IInvHolds == Spec => []IInv
<1>1. Init => IInv
  <2>1. Init => TypeOK
    BY NoRecordType DEF Init, TypeOK
  <2>2. Init => OutcomeMatchesSteps
    BY DEF Init, NoRecord, OutcomeMatchesSteps, Consistent, Settled, Terminal
  <2>3. QED
    BY <2>1, <2>2 DEF Init, IInv, Fresh, InFlight, NoRecord, OneRecordPerReview, Live
<1>2. QED
  BY <1>1, IInvStep, PTL DEF Spec

\* At most one thread is ever between start_step and finish_step of a step.
THEOREM NoDuplicateExecutionHolds == Spec => []NoDuplicateExecution
<1>1. IInv => NoDuplicateExecution
  BY DEF IInv, TypeOK, InFlight, NoDuplicateExecution
<1>2. QED
  BY <1>1, IInvHolds, PTL

\* While an adapter runs, the row that a restart would restore says so.
THEOREM InFlightIsDurableHolds == Spec => []InFlightIsDurable
<1>1. IInv => InFlightIsDurable
  BY DEF IInv, InFlight, InFlightIsDurable
<1>2. QED
  BY <1>1, IInvHolds, PTL

\* Two records never answer for one review, neither in memory nor in the rows.
THEOREM OneRecordPerReviewHolds == Spec => []OneRecordPerReview
<1>1. IInv => OneRecordPerReview
  BY DEF IInv
<1>2. QED
  BY <1>1, IInvHolds, PTL

\* The status of a record agrees with its steps, in memory and in the rows.
THEOREM OutcomeMatchesStepsHolds == Spec => []OutcomeMatchesSteps
<1>1. IInv => OutcomeMatchesSteps
  BY DEF IInv
<1>2. QED
  BY <1>1, IInvHolds, PTL

----------------------------------------------------------------------------
(* Durable outcomes *)

Skipped(rec) == \A s \in Steps : rec.steps[s] = "skipped"

\* Memory is never behind an outcome in the rows, unless it has forgotten the record.
MemoryAhead ==
  \A e \in Execs :
    /\ db[e].status = "completed" => mem[e].status \in {"completed", "absent"}
    /\ db[e].status = "cancelled" => mem[e].status \in {"cancelled", "absent"} \/ Skipped(db[e])

\* A record without an executable step, while its create request is under way.
OpeningIdle ==
  \A e \in opening :
    e \in used /\ Skipped(mem[e]) /\ Skipped(db[e]) /\ mem[e].status # "completed"

OutcomeInv == IInv /\ MemoryAhead /\ OpeningIdle

\* The action of DurableOutcome.
OutcomesStay ==
  \A e \in Execs :
    /\ db[e].status = "completed" => db'[e].status \in {"completed", "absent"}
    /\ db[e].status = "cancelled" =>
         \/ db'[e].status \in {"cancelled", "absent"}
         \/ \A s \in Steps : db[e].steps[s] = "skipped"

\* An update that takes back no outcome, except that of a record being opened.
LEMMA UpdateOutcomes ==
  ASSUME OutcomeInv, NEW e \in Execs, NEW rec, NEW ok \in BOOLEAN, Update(e, rec, ok),
         mem[e].status # "absent",
         mem[e].status = "completed" => rec.status = "completed",
         mem[e].status = "cancelled" => rec.status = "cancelled" \/ e \in opening,
         e \in opening' => Skipped(rec) /\ rec.status # "completed",
         opening' \in SUBSET opening, used' = used
  PROVE  OutcomesStay /\ MemoryAhead' /\ OpeningIdle'
<1>1. /\ mem'[e] = rec /\ db'[e] \in {rec, db[e]}
      /\ \A f \in Execs \ {e} : mem'[f] = mem[f] /\ db'[f] = db[f]
  BY DEF Update, Persist, OutcomeInv, IInv, TypeOK
<1>2. e \in opening => Skipped(db[e])
  BY DEF OutcomeInv, OpeningIdle
<1>3. \A f \in opening' : f \in Execs /\ f \in opening
  BY DEF OutcomeInv, IInv, TypeOK
<1>4. OutcomesStay
  BY <1>1, <1>2 DEF OutcomesStay, OutcomeInv, MemoryAhead, Skipped
<1>5. MemoryAhead'
  BY <1>1, <1>2 DEF OutcomeInv, MemoryAhead, Skipped
<1>6. OpeningIdle'
  BY <1>1, <1>2, <1>3 DEF OutcomeInv, OpeningIdle, Skipped
<1>. QED
  BY <1>4, <1>5, <1>6

LEMMA OutcomeStep ==
  ASSUME OutcomeInv, [Next]_vars
  PROVE  OutcomesStay /\ MemoryAhead' /\ OpeningIdle'
<1>a. \A e \in Execs : /\ mem[e] \in Record /\ db[e] \in Record
                       /\ Consistent(mem[e]) /\ Consistent(db[e])
  BY DEF OutcomeInv, IInv, TypeOK, OutcomeMatchesSteps
<1>b. \A e \in opening : e \in Execs /\ Skipped(mem[e]) /\ mem[e].status # "completed"
  BY DEF OutcomeInv, IInv, TypeOK, OpeningIdle
<1>1. ASSUME NEW e \in Execs, NEW r \in Reviews, NEW skipped \in SUBSET Steps,
             NEW ok \in BOOLEAN, Create(e, r, skipped, ok)
      PROVE  OutcomesStay /\ MemoryAhead' /\ OpeningIdle'
  <2>1. PICK gone \in EvictionChoices(mem) :
          /\ mem' = [f \in Execs |-> IF f = e THEN NewRecord(r, skipped)
                                    ELSE IF f \in gone THEN NoRecord ELSE mem[f]]
          /\ Persist(e, NewRecord(r, skipped), gone, ok)
    BY <1>1 DEF Create
  <2>2. /\ NoRecord.status = "absent" /\ Skipped(NoRecord)
        /\ NewRecord(r, skipped).status = "pending_execution"
        /\ skipped = Steps => Skipped(NewRecord(r, skipped))
    BY DEF NoRecord, NewRecord, Skipped
  <2>3. mem'[e] = NewRecord(r, skipped)
        /\ \A f \in Execs \ {e} : mem'[f] = mem[f] \/ mem'[f] = NoRecord
    BY <2>1
  <2>4. /\ ok => db'[e] = NewRecord(r, skipped)
        /\ ~ok => db' = db
        /\ \A f \in Execs \ {e} : \/ db'[f] = db[f] /\ (mem'[f] = mem[f] \/ mem'[f] = NoRecord)
                                  \/ db'[f] = NoRecord /\ mem'[f] = NoRecord
    BY <2>1 DEF Persist, OutcomeInv, IInv, TypeOK
  <2>5. e \notin used /\ db[e].status = "absent" /\ mem[e].status = "absent"
    BY <1>1 DEF Create, OutcomeInv, IInv, Fresh
  <2>6. \A f \in opening' : f \in opening \/ (f = e /\ ok /\ skipped = Steps)
    BY <1>1 DEF Create
  <2>7. /\ used' = used \cup {e} /\ e \notin opening
        /\ \A f \in opening : f \in Execs /\ f \in used
    BY <1>1, <1>b, <2>5 DEF Create, OutcomeInv, OpeningIdle
  <2>8. OutcomesStay
    BY <2>2, <2>4, <2>5 DEF OutcomesStay
  <2>9. MemoryAhead'
    <3>1. ASSUME NEW f \in Execs
          PROVE  /\ db'[f].status = "completed" => mem'[f].status \in {"completed", "absent"}
                 /\ db'[f].status = "cancelled" =>
                      mem'[f].status \in {"cancelled", "absent"} \/ Skipped(db'[f])
      <4>1. CASE f = e
        BY <2>2, <2>3, <2>4, <2>5, <4>1
      <4>2. CASE f # e
        BY <2>2, <2>4, <4>2 DEF OutcomeInv, MemoryAhead
      <4>. QED
        BY <4>1, <4>2
    <3>. QED
      BY <3>1 DEF MemoryAhead, Skipped
  <2>10. OpeningIdle'
    <3>1. ASSUME NEW f \in opening'
          PROVE  /\ f \in used' /\ Skipped(mem'[f]) /\ Skipped(db'[f])
                 /\ mem'[f].status # "completed"
      <4>1. CASE f = e
        BY <2>2, <2>3, <2>4, <2>6, <2>7, <4>1
      <4>2. CASE f # e
        BY <2>2, <2>4, <2>6, <2>7, <4>2 DEF OutcomeInv, OpeningIdle
      <4>. QED
        BY <4>1, <4>2
    <3>. QED
      BY <3>1 DEF OpeningIdle, Skipped
  <2>. QED
    BY <2>8, <2>9, <2>10
<1>2. ASSUME NEW r \in Reviews, CreateRefused(r)
      PROVE  OutcomesStay /\ MemoryAhead' /\ OpeningIdle'
  <2>1. NoRecord.status = "absent" /\ Skipped(NoRecord)
    BY DEF NoRecord, Skipped
  <2>2. /\ db' = db /\ opening' = opening /\ used' = used
        /\ \A f \in Execs : mem'[f] = mem[f] \/ mem'[f] = NoRecord
    BY <1>2 DEF CreateRefused
  <2>. QED
    BY <1>b, <2>1, <2>2 DEF OutcomesStay, OutcomeInv, MemoryAhead, OpeningIdle, Skipped
<1>3. ASSUME NEW e \in Execs, NEW ok \in BOOLEAN, FailBeforeStart(e, ok)
      PROVE  OutcomesStay /\ MemoryAhead' /\ OpeningIdle'
  <2>1. CASE mem[e].status = "absent"
    <3>1. UNCHANGED <<mem, db, used>> /\ opening' \in SUBSET opening
      BY <1>3, <2>1 DEF FailBeforeStart
    <3>. QED
      BY <3>1 DEF OutcomesStay, OutcomeInv, MemoryAhead, OpeningIdle, Skipped
  <2>2. CASE mem[e].status # "absent"
    BY <1>3, <1>b, <2>2, UpdateOutcomes DEF FailBeforeStart
  <2>. QED
    BY <2>1, <2>2
<1>4. ASSUME NEW e \in Execs, NEW ok \in BOOLEAN,
             AppendEvent(e, ok) \/ \E s \in Steps : StartRefused(e, s, ok)
      PROVE  OutcomesStay /\ MemoryAhead' /\ OpeningIdle'
  <2>1. Update(e, mem[e], ok) /\ mem[e].status # "absent" /\ opening' = opening /\ used' = used
    BY <1>4 DEF AppendEvent, StartRefused, Live
  <2>. QED
    BY <1>b, <2>1, UpdateOutcomes
<1>5. ASSUME NEW e \in Execs, NEW s \in Steps, NEW ok \in BOOLEAN, StartStep(e, s, ok)
      PROVE  OutcomesStay /\ MemoryAhead' /\ OpeningIdle'
  <2>1. /\ mem[e].status \in Active /\ mem[e].steps[s] = "pending"
        /\ opening' = opening /\ used' = used
        /\ \E rec : Update(e, rec, ok)
    BY <1>5 DEF StartStep, CanStart
  <2>2. e \notin opening
    BY <1>b, <2>1 DEF Skipped
  <2>. QED
    BY <2>1, <2>2, UpdateOutcomes DEF Active
<1>6. ASSUME NEW e \in Execs, NEW s \in Steps, NEW success \in BOOLEAN,
             NEW ok \in BOOLEAN, FinishStep(e, s, success, ok)
      PROVE  OutcomesStay /\ MemoryAhead' /\ OpeningIdle'
  <2>1. /\ mem[e].steps[s] = "running" /\ mem[e].status # "absent"
        /\ opening' = opening /\ used' = used
        /\ \E rec : Update(e, rec, ok)
    BY <1>6 DEF FinishStep, Live
  <2>2. e \notin opening
    BY <1>b, <2>1 DEF Skipped
  <2>3. mem[e].status # "completed" /\ mem[e].status # "cancelled"
    BY <1>a, <2>1 DEF Consistent, Settled
  <2>. QED
    BY <2>1, <2>2, <2>3, UpdateOutcomes
<1>7. ASSUME NEW e \in Execs, NEW s \in Steps, NEW ok \in BOOLEAN,
             RetryStep(e, s, ok) \/ SkipFailedStep(e, s, ok)
      PROVE  OutcomesStay /\ MemoryAhead' /\ OpeningIdle'
  <2>1. /\ mem[e].status = "failed" /\ mem[e].steps[s] = "failed"
        /\ opening' = opening /\ used' = used
        /\ \E rec : Update(e, rec, ok)
    BY <1>7 DEF RetryStep, SkipFailedStep
  <2>2. e \notin opening
    BY <1>b, <2>1 DEF Skipped
  <2>. QED
    BY <2>1, <2>2, UpdateOutcomes
<1>8. ASSUME NEW e \in Execs, NEW ok \in BOOLEAN, FailRuntime(e, ok)
      PROVE  OutcomesStay /\ MemoryAhead' /\ OpeningIdle'
  <2>1. /\ mem[e].status \in Active /\ opening' = opening /\ used' = used
        /\ Update(e, AfterFailure(mem[e]), ok)
    BY <1>8 DEF FailRuntime
  <2>2. AfterFailure(mem[e]).status = "failed" /\ AfterFailure(mem[e]).steps = mem[e].steps
    BY <1>a DEF AfterFailure, Record
  <2>. QED
    BY <1>b, <2>1, <2>2, UpdateOutcomes DEF Active, Skipped
<1>9. ASSUME NEW e \in Execs, NEW ok \in BOOLEAN, Cancel(e, ok)
      PROVE  OutcomesStay /\ MemoryAhead' /\ OpeningIdle'
  <2> DEFINE x   == [s \in Steps |-> IF mem[e].steps[s] = "pending"
                                     THEN "cancelled" ELSE mem[e].steps[s]]
             rec == [mem[e] EXCEPT !.status = "cancelled", !.completedAt = now, !.steps = x]
  <2>1. mem[e].status \in Active /\ opening' = opening /\ used' = used /\ Update(e, rec, ok)
    BY <1>9 DEF Cancel
  <2>2. rec.status = "cancelled" /\ rec.steps = x
    BY <1>a DEF Record
  <2>3. Skipped(mem[e]) => Skipped(rec)
    BY <2>2 DEF Skipped
  <2> HIDE DEF x, rec
  <2>. QED
    BY <1>b, <2>1, <2>2, <2>3, UpdateOutcomes DEF Active
<1>10. CASE Restart
  <2>1. mem' = db /\ db' = db /\ opening' = {}
    BY <1>10 DEF Restart
  <2>. QED
    BY <2>1 DEF OutcomesStay, OutcomeInv, MemoryAhead, OpeningIdle, Skipped
<1>11. CASE (\E e \in Execs, s \in Steps : CallerLost(e, s)) \/ Tick \/ UNCHANGED vars
  <2>1. UNCHANGED <<mem, db, opening, used>>
    BY <1>11 DEF CallerLost, Tick, vars
  <2>. QED
    BY <2>1 DEF OutcomesStay, OutcomeInv, MemoryAhead, OpeningIdle, Skipped
<1>. QED
  BY <1>1, <1>2, <1>3, <1>4, <1>5, <1>6, <1>7, <1>8, <1>9, <1>10, <1>11
     DEF Next, RecordOperation, StepOperation

\* A stored outcome is final: completed and cancelled rows stay so until they are evicted,
\* whatever is retried, finishes late, is written in vain or restarts.
THEOREM DurableOutcomeHolds == Spec => DurableOutcome
<1>1. Init => MemoryAhead /\ OpeningIdle
  BY DEF Init, MemoryAhead, OpeningIdle, NoRecord
<1>2. OutcomeInv /\ [Next]_vars => (MemoryAhead /\ OpeningIdle)'
  BY OutcomeStep
<1>3. OutcomeInv /\ [Next]_vars =>
        [\A e \in Execs :
           /\ db[e].status = "completed" => db'[e].status \in {"completed", "absent"}
           /\ db[e].status = "cancelled" =>
                \/ db'[e].status \in {"cancelled", "absent"}
                \/ \A s \in Steps : db[e].steps[s] = "skipped"]_vars
  BY OutcomeStep DEF OutcomesStay
<1>4. IInv /\ MemoryAhead /\ OpeningIdle <=> OutcomeInv
  BY DEF OutcomeInv
<1>. QED
  BY <1>1, <1>2, <1>3, <1>4, IInvHolds, PTL DEF Spec, DurableOutcome

=============================================================================
