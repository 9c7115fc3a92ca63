--------------------------- MODULE ExecutionStore ---------------------------
(***************************************************************************)
(* The execution records of Cauco Core: ExecutionStore in memory and its   *)
(* SQLite subclass, which changes memory first and then rewrites the whole *)
(* record in one transaction.  Each public method holds the store's RLock, *)
(* so it is one action here; HTTP threads and the task runtime call the    *)
(* methods in any order.  What happens between start_step and finish_step  *)
(* (the adapter call, outside the lock) is the variable callers.           *)
(*                                                                         *)
(* Every write may fail: the call then raises to its caller, and memory is *)
(* ahead of the database.  A restart keeps what the database holds.        *)
(***************************************************************************)
EXTENDS Integers, FiniteSets

CONSTANTS
  Execs,        \* execution ids: random tokens, each issued once
  Reviews,      \* approved plan reviews that ask for a record
  Steps,        \* step indexes of a plan
  MaxRecords,   \* capacity (max_records)
  None,         \* Python None
  MaxTime,      \* bound: clock readings
  MaxStarts,    \* bound: step_started events of one step
  MaxFaults,    \* bound: failed transactions
  MaxRestarts   \* bound: restarts of Core

ASSUME CapacityAssumption == MaxRecords \in Nat \ {0}
ASSUME BoundAssumption ==
  /\ MaxTime \in Nat \ {0}
  /\ MaxStarts \in Nat
  /\ MaxFaults \in Nat
  /\ MaxRestarts \in Nat
ASSUME NoneAssumption == None \notin Reviews \cup Steps

VARIABLES
  mem,       \* _records: execution id -> record, NoRecord when there is none
  db,        \* the executions and execution_steps rows, same shape
  used,      \* execution ids issued so far
  callers,   \* callers[e][s]: threads between start_step and finish_step
  opening,   \* records without an executable step whose create has not returned
  now,       \* the store's clock
  faults,    \* transactions that failed
  restarts   \* restarts of Core

vars == <<mem, db, used, callers, opening, now, faults, restarts>>

----------------------------------------------------------------------------
(* Records *)

Active   == {"pending_execution", "running"}
Terminal == {"completed", "failed", "cancelled"}
StepStatus == {"pending", "running", "completed", "failed", "skipped", "cancelled"}

\* starts counts the step_started audit events of the record, from which the
\* runtime reads the number of attempts; 0 in completedAt is a missing time.
Record ==
  [status      : Active \cup Terminal \cup {"absent"},
   review      : Reviews \cup {None},
   steps       : [Steps -> StepStatus],
   current     : Steps \cup {None},
   completedAt : 0..MaxTime,
   starts      : [Steps -> 0..MaxStarts]]

NoRecord ==
  [status |-> "absent", review |-> None, steps |-> [s \in Steps |-> "skipped"],
   current |-> None, completedAt |-> 0, starts |-> [s \in Steps |-> 0]]

NewRecord(r, skipped) ==
  [status |-> "pending_execution", review |-> r,
   steps |-> [s \in Steps |-> IF s \in skipped THEN "skipped" ELSE "pending"],
   current |-> None, completedAt |-> 0, starts |-> [s \in Steps |-> 0]]

Live(m)      == {e \in Execs : m[e].status # "absent"}
Finished(m)  == {e \in Execs : m[e].status \in Terminal}
HasReview(m, r) == \E e \in Live(m) : m[e].review = r
Settled(rec) == \A s \in Steps : rec.steps[s] \in {"completed", "skipped"}
\* Mutant: only the step of current_step_index is looked at.
Busy_CurrentOnly(rec) == rec.current # None
Busy(rec)    == \E s \in Steps : rec.steps[s] = "running"

\* finish_step: the new step status decides the record's, whatever it was.
AfterStep(rec) ==
  [rec EXCEPT !.status = IF Settled(rec) THEN "completed" ELSE "running",
              !.current = None,
              !.completedAt = IF Settled(rec) THEN now ELSE 0]

AfterFailure(rec) ==
  [rec EXCEPT !.status = "failed", !.current = None, !.completedAt = now]

\* _make_room: as many of the oldest terminal records as make one free slot.
\* Ids are random, so records that ended at the same reading may go in any order.
EvictionChoices(m) ==
  LET excess == Cardinality(Live(m)) - MaxRecords + 1
  IN {gone \in SUBSET Finished(m) :
        /\ Cardinality(gone) = IF excess > 0 THEN excess ELSE 0
        /\ \A e \in gone, f \in Finished(m) \ gone :
             m[e].completedAt <= m[f].completedAt}

----------------------------------------------------------------------------
(* Persistence *)

\* Mutant: the table has no UNIQUE constraint.
Clash_None(e, rec, gone) == FALSE

\* executions.review_id is UNIQUE and the upsert resolves execution_id only.
Clash(e, rec, gone) ==
  \E f \in Live(db) \ (gone \cup {e}) : db[f].review = rec.review

\* Mutant: a failed transaction is swallowed.
Persist_Swallowed(e, rec, gone, ok) ==
  /\ ok
  /\ \/ /\ db' = [f \in Execs |-> IF f = e THEN rec
                                 ELSE IF f \in gone THEN NoRecord ELSE db[f]]
        /\ UNCHANGED faults
     \/ faults < MaxFaults /\ faults' = faults + 1 /\ UNCHANGED db

\* _persist_record: one transaction deletes the evicted rows and rewrites the
\* record; ok is FALSE when it raises, and then no row changes.
Persist(e, rec, gone, ok) ==
  \/ /\ ok
     /\ ~Clash(e, rec, gone)
     /\ db' = [f \in Execs |-> IF f = e THEN rec
                               ELSE IF f \in gone THEN NoRecord ELSE db[f]]
     /\ UNCHANGED faults
  \/ /\ ~ok
     /\ Clash(e, rec, gone)
     /\ UNCHANGED <<db, faults>>
  \/ /\ ~ok
     /\ faults < MaxFaults
     /\ faults' = faults + 1
     /\ UNCHANGED db

\* The shape of every mutator: memory first, then the transaction.
Update(e, rec, ok) ==
  /\ mem' = [mem EXCEPT ![e] = rec]
  /\ Persist(e, rec, {}, ok)

----------------------------------------------------------------------------
(* Operations *)

Init ==
  /\ mem = [e \in Execs |-> NoRecord]
  /\ db = [e \in Execs |-> NoRecord]
  /\ used = {}
  /\ callers = [e \in Execs |-> [s \in Steps |-> 0]]
  /\ opening = {}
  /\ now = 1
  /\ faults = 0
  /\ restarts = 0

Create(e, r, skipped, ok) ==
  /\ e \notin used
  /\ ~HasReview(mem, r)
  /\ \E gone \in EvictionChoices(mem) :
       LET rec == NewRecord(r, skipped)
       IN /\ mem' = [f \in Execs |-> IF f = e THEN rec
                                     ELSE IF f \in gone THEN NoRecord ELSE mem[f]]
          /\ Persist(e, rec, gone, ok)
  /\ used' = used \cup {e}
  /\ opening' = IF ok /\ skipped = Steps THEN opening \cup {e} ELSE opening
  /\ UNCHANGED <<callers, now, restarts>>

\* Too few terminal records: those there are have already left memory when
\* ExecutionCapacityError is raised, and the database keeps them.
CreateRefused(r) ==
  /\ ~HasReview(mem, r)
  /\ EvictionChoices(mem) = {}
  /\ mem' = [e \in Execs |-> IF e \in Finished(mem) THEN NoRecord ELSE mem[e]]
  /\ UNCHANGED <<db, used, callers, opening, now, faults, restarts>>

\* The service found no executable step in the record it has just created.
FailBeforeStart(e, ok) ==
  /\ e \in opening
  /\ opening' = opening \ {e}
  /\ IF mem[e].status = "absent"
     THEN /\ ~ok
          /\ UNCHANGED <<mem, db, faults>>
     ELSE Update(e, [mem[e] EXCEPT !.status = "failed", !.completedAt = now], ok)
  /\ UNCHANGED <<used, callers, now, restarts>>

AppendEvent(e, ok) ==
  /\ e \in Live(mem)
  /\ Update(e, mem[e], ok)
  /\ UNCHANGED <<used, callers, opening, now, restarts>>

\* Mutant: a step that is already running can be started.
CanStart_Running(e, s) ==
  mem[e].status \in Active /\ mem[e].steps[s] \in {"pending", "running"}

CanStart(e, s) ==
  /\ mem[e].status \in Active
  /\ mem[e].steps[s] = "pending"

StartStep(e, s, ok) ==
  /\ CanStart(e, s)
  /\ mem[e].starts[s] < MaxStarts
  /\ Update(e, [mem[e] EXCEPT !.status = "running", !.current = s,
                              !.steps[s] = "running", !.starts[s] = @ + 1], ok)
  /\ callers' = IF ok THEN [callers EXCEPT ![e][s] = @ + 1] ELSE callers
  /\ UNCHANGED <<used, opening, now, restarts>>

\* The refusal is audited and persisted before the exception leaves.
StartRefused(e, s, ok) ==
  /\ e \in Live(mem)
  /\ ~CanStart(e, s)
  /\ Update(e, mem[e], ok)
  /\ UNCHANGED <<used, callers, opening, now, restarts>>

FinishStep(e, s, success, ok) ==
  /\ callers[e][s] > 0
  /\ e \in Live(mem)
  /\ mem[e].steps[s] = "running"
  /\ Update(e, IF success
               THEN AfterStep([mem[e] EXCEPT !.steps[s] = "completed"])
               ELSE AfterFailure([mem[e] EXCEPT !.steps[s] = "failed"]), ok)
  /\ callers' = [callers EXCEPT ![e][s] = @ - 1]
  /\ UNCHANGED <<used, opening, now, restarts>>

\* The caller is gone without finish_step: the record was evicted while the
\* adapter ran, or the adapter raised an exception the service does not catch.
CallerLost(e, s) ==
  /\ callers[e][s] > 0
  /\ callers' = [callers EXCEPT ![e][s] = @ - 1]
  /\ UNCHANGED <<mem, db, used, opening, now, faults, restarts>>

FailRuntime(e, ok) ==
  /\ mem[e].status \in Active
  /\ ~Busy(mem[e])
  /\ Update(e, AfterFailure(mem[e]), ok)
  /\ UNCHANGED <<used, callers, opening, now, restarts>>

RetryStep(e, s, ok) ==
  /\ mem[e].status = "failed"
  /\ mem[e].steps[s] = "failed"
  /\ Update(e, [mem[e] EXCEPT !.status = "running", !.current = None,
                              !.completedAt = 0, !.steps[s] = "pending"], ok)
  /\ UNCHANGED <<used, callers, opening, now, restarts>>

SkipFailedStep(e, s, ok) ==
  /\ mem[e].status = "failed"
  /\ mem[e].steps[s] = "failed"
  /\ Update(e, AfterStep([mem[e] EXCEPT !.steps[s] = "skipped"]), ok)
  /\ UNCHANGED <<used, callers, opening, now, restarts>>

Cancel(e, ok) ==
  /\ mem[e].status \in Active
  /\ ~Busy(mem[e])
  /\ Update(e, [mem[e] EXCEPT
                  !.status = "cancelled", !.completedAt = now,
                  !.steps = [s \in Steps |-> IF mem[e].steps[s] = "pending"
                                             THEN "cancelled" ELSE mem[e].steps[s]]], ok)
  /\ UNCHANGED <<used, callers, opening, now, restarts>>

\* Mutant: a restart puts running steps back to pending.
Restart_Reopens ==
  /\ restarts < MaxRestarts
  /\ restarts' = restarts + 1
  /\ mem' = [e \in Execs |->
               [db[e] EXCEPT !.steps = [s \in Steps |-> IF db[e].steps[s] = "running"
                                                       THEN "pending" ELSE db[e].steps[s]]]]
  /\ callers' = [e \in Execs |-> [s \in Steps |-> 0]]
  /\ opening' = {}
  /\ UNCHANGED <<db, used, now, faults>>

\* _restore: the rows as they are, running steps included.
Restart ==
  /\ restarts < MaxRestarts
  /\ restarts' = restarts + 1
  /\ mem' = db
  /\ callers' = [e \in Execs |-> [s \in Steps |-> 0]]
  /\ opening' = {}
  /\ UNCHANGED <<db, used, now, faults>>

Tick ==
  /\ now < MaxTime
  /\ now' = now + 1
  /\ UNCHANGED <<mem, db, used, callers, opening, faults, restarts>>

RecordOperation(e, ok) ==
  \/ \E r \in Reviews, skipped \in SUBSET Steps : Create(e, r, skipped, ok)
  \/ FailBeforeStart(e, ok)
  \/ AppendEvent(e, ok)
  \/ FailRuntime(e, ok)
  \/ Cancel(e, ok)

StepOperation(e, s, ok) ==
  \/ StartStep(e, s, ok)
  \/ StartRefused(e, s, ok)
  \/ \E success \in BOOLEAN : FinishStep(e, s, success, ok)
  \/ RetryStep(e, s, ok)
  \/ SkipFailedStep(e, s, ok)

Next ==
  \/ \E e \in Execs, ok \in BOOLEAN : RecordOperation(e, ok)
  \/ \E e \in Execs, s \in Steps, ok \in BOOLEAN : StepOperation(e, s, ok)
  \/ \E e \in Execs, s \in Steps : CallerLost(e, s)
  \/ \E r \in Reviews : CreateRefused(r)
  \/ Restart
  \/ Tick

Spec == Init /\ [][Next]_vars

----------------------------------------------------------------------------
(* Properties *)

TypeOK ==
  /\ mem \in [Execs -> Record]
  /\ db \in [Execs -> Record]
  /\ used \in SUBSET Execs
  /\ callers \in [Execs -> [Steps -> Nat]]
  /\ opening \in SUBSET Execs
  /\ now \in 1..MaxTime
  /\ faults \in 0..MaxFaults
  /\ restarts \in 0..MaxRestarts

\* "Store locks prevent concurrent duplicate execution of a step": at most one
\* thread is ever between start_step and finish_step of a step, through retries,
\* cancellations, evictions, failed writes and restarts.
NoDuplicateExecution ==
  \A e \in Execs, s \in Steps : callers[e][s] <= 1

\* The intent is journalled before the effect: while an adapter runs, the row a
\* restart would restore (if it was not evicted) has the step running, so no
\* restart can offer for execution a step whose adapter may have acted.
InFlightIsDurable ==
  \A e \in Execs, s \in Steps :
    callers[e][s] > 0 => \/ db[e].status = "absent"
                         \/ db[e].steps[s] = "running"

\* One record per review, in memory and in the database, whatever evictions,
\* failed writes and restarts did: an approved plan is never executed twice
\* side by side.
OneRecordPerReview ==
  \A m \in {mem, db} : \A e, f \in Live(m) :
    m[e].review = m[f].review => e = f

\* A record's status agrees with its steps, in memory and in the database.
Consistent(rec) ==
  /\ rec.status = "completed" => Settled(rec)
  /\ rec.status = "cancelled" => \A s \in Steps : rec.steps[s] \notin {"pending", "running"}
  /\ rec.status = "pending_execution" =>
       \A s \in Steps : rec.steps[s] \in {"pending", "skipped"} /\ rec.starts[s] = 0
  /\ rec.status \in Terminal <=> rec.completedAt # 0
  /\ rec.current # None => rec.steps[rec.current] = "running"

OutcomeMatchesSteps ==
  \A e \in Execs : Consistent(mem[e]) /\ Consistent(db[e])

\* A durable outcome is final: a row that says completed or cancelled says so
\* until it is evicted, whatever is retried, finishes late or restarts; only a
\* record that had no executable step may turn from cancelled to failed, when its
\* own create request, still under way, finds that out.
DurableOutcome ==
  [][\A e \in Execs :
       /\ db[e].status = "completed" => db'[e].status \in {"completed", "absent"}
       /\ db[e].status = "cancelled" =>
            \/ db'[e].status \in {"cancelled", "absent"}
            \/ \A s \in Steps : db[e].steps[s] = "skipped"]_vars

\* architecture.md: "Execution records transition from pending_execution to
\* running, then completed or failed".  The only way back from failed is recovery (retry or skip) of a step.
FailedLeavesByRecovery ==
  [][\A e \in Execs :
       mem[e].status = "failed" /\ mem'[e].status \in Active /\ restarts' = restarts =>
         \E s \in Steps : mem[e].steps[s] = "failed" /\ mem'[e].steps[s] # "failed"]_vars

=============================================================================
