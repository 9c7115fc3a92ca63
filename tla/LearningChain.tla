---------------------------- MODULE LearningChain ----------------------------
(***************************************************************************)
(* From executed plans to guidance for new ones: an execution is verified  *)
(* against its evidence, the verification is consolidated into an          *)
(* experience with lessons, lessons become memory candidates, approved     *)
(* candidates become notes in the learning memory, and applied notes guide *)
(* planning.  The execution store is the module ExecutionStore, whose      *)
(* writes may fail and leave memory ahead of the row; the candidate store  *)
(* is the module CandidateStore.                                           *)
(*                                                                         *)
(* Each request reads one store and writes the next one under another      *)
(* lock: the variable job is what a request has read and not yet written.  *)
(* Rows refer to their parents' rows and go with them, while the records   *)
(* in memory stay until the next restart.                                  *)
(***************************************************************************)
EXTENDS CandidateStore

CONSTANTS
  Execs, Reviews, Steps, None, MaxRecords, MaxStarts,  \* see ExecutionStore
  Verifications,     \* verification ids: random tokens, numbered as they are issued
  Results,           \* what tool adapters return in this instance
  MaxVerifications,  \* capacity of the verification store
  MaxExperiences,    \* capacity of the experience store
  Run,               \* bound: the executions whose steps are run
  MaxNotes           \* bound: candidates promoted

VARIABLES
  mem, db, used, callers, opening,   \* see ExecutionStore
  result,     \* result[e][s]: what the step's adapter returned, NoResult before
  performed,  \* executions with execution_performed
  resultRow, performedRow,  \* the same in the rows of executions and steps
  verif,      \* verification records ever created, by id
  verMem,     \* verifications in memory
  verRow,     \* verifications that have a row
  exper,      \* experience records ever created, by id
  expMem,     \* experiences in memory
  job,        \* the request that is between its reads and its write
  notes       \* candidates whose learning note was proposed or applied

\* When executions end does not matter here: their clock stands still.
E == INSTANCE ExecutionStore WITH now <- 1, MaxTime <- 1

execVars  == <<mem, db, used, callers, opening, result, performed, resultRow, performedRow>>
chainVars == <<verif, verMem, verRow, exper, expMem>>
vars == <<execVars, chainVars, candidateVars, job, notes>>

----------------------------------------------------------------------------
(* Verification: the deterministic reading of a step's evidence *)

RawResult ==
  [performed : BOOLEAN, given : BOOLEAN, matches : BOOLEAN, truncated : BOOLEAN,
   success : BOOLEAN, verified : {"yes", "no", "unknown"}, mutated : BOOLEAN]

NoResult == [performed |-> FALSE, given |-> FALSE, matches |-> TRUE, truncated |-> FALSE,
             success |-> FALSE, verified |-> "unknown", mutated |-> FALSE]

ASSUME ResultsAssumption == Results \subseteq RawResult
ASSUME NoneAssumption == None \notin Verifications
ASSUME IdsAssumption == Verifications \subseteq Nat /\ Experiences \subseteq Nat

\* _verify_step: the first thing that keeps the step from being proven.
Evidence(r) ==
  IF ~r.performed THEN "not_performed"
  ELSE IF ~r.given THEN "no_result"
  ELSE IF ~r.matches THEN "mismatched"
  ELSE IF r.truncated THEN "truncated"
  ELSE IF ~r.success THEN "failed"
  ELSE IF r.verified = "yes" THEN "proven"
  ELSE IF r.verified = "no" THEN "refuted"
  ELSE IF r.mutated THEN "unproven_mutation"
  ELSE "unproven"

EvidenceKinds == {"not_performed", "no_result", "mismatched", "truncated", "failed",
                  "proven", "refuted", "unproven_mutation", "unproven"}
Failing == {"mismatched", "failed", "refuted"}

\* Mutant: no failure is a success.
Outcome_NothingFailed(evidence) ==
  IF {evidence[s] : s \in Steps} \cap Failing # {} THEN "failed" ELSE "succeeded"

\* _overall_outcome
Outcome(evidence) ==
  LET found == {evidence[s] : s \in Steps}
  IN IF found \cap Failing # {} THEN "failed"
     ELSE IF found = {"proven"} THEN "succeeded"
     ELSE IF "proven" \in found THEN "partial_success"
     ELSE "insufficient_evidence"

\* consolidate: one lesson for each kind of doubt; the same text twice is one lesson.
Lessons(evidence) == {evidence[s] : s \in Steps} \ {"proven"}

ASSUME KindsAssumption ==
  {"not_performed"} \cup {Evidence(r) : r \in Results} \subseteq Kinds \cup {"proven"}

----------------------------------------------------------------------------
(* Executions *)

VerificationRecord == [exec : Execs, evidence : [Steps -> EvidenceKinds]]
ExperienceRecord   == [verif : Verifications]

NoEvidence   == [s \in Steps |-> "not_performed"]
NoVerif      == [exec |-> None, evidence |-> NoEvidence]
NoExperience == [verif |-> None]
Idle         == [task |-> "none", on |-> None, evidence |-> NoEvidence, left |-> {}]

Init ==
  /\ E!Init
  /\ CandidateInit
  /\ result = [e \in Execs |-> [s \in Steps |-> NoResult]]
  /\ performed = {}
  /\ resultRow = result /\ performedRow = {}
  /\ verif = [v \in Verifications |-> NoVerif]
  /\ verMem = {} /\ verRow = {}
  /\ exper = [x \in Experiences |-> NoExperience]
  /\ expMem = {}
  /\ job = Idle
  /\ notes = [c \in Candidates |-> "none"]

\* Mutant: the candidates' table does not cascade.
CascadeFrom_Orphans(execRows) ==
  /\ verRow' = {v \in verRow : verif[v].exec \in execRows}
  /\ expRow' = {x \in expRow : exper[x].verif \in verRow'}
  /\ UNCHANGED candRow

\* Foreign keys with ON DELETE CASCADE, from the executions' rows downwards.
CascadeFrom(execRows) ==
  /\ verRow' = {v \in verRow : verif[v].exec \in execRows}
  /\ expRow' = {x \in expRow : exper[x].verif \in verRow'}
  /\ Cascade(expRow')

CreateExecution(e, r, ok) ==
  /\ E!Create(e, r, {}, ok)
  /\ CascadeFrom(E!Live(db'))
  /\ UNCHANGED <<result, performed, resultRow, performedRow, verif, verMem, exper, expMem,
                 cand, decided, now, job, notes>>

Finish(e, s, r, ok) ==
  /\ E!FinishStep(e, s, r.success, ok)
  /\ result' = [result EXCEPT ![e][s] = r]
  /\ performed' = IF r.performed THEN performed \cup {e} ELSE performed

Retry(e, s, ok) ==
  /\ E!RetryStep(e, s, ok)
  /\ result' = [result EXCEPT ![e][s] = NoResult]
  /\ UNCHANGED performed

\* _persist_record: the whole record with its steps and their results, or nothing.
Written(e, ok) ==
  IF ok
  THEN /\ resultRow' = [resultRow EXCEPT ![e] = result'[e]]
       /\ performedRow' = performedRow \cup (performed' \cap {e})
  ELSE UNCHANGED <<resultRow, performedRow>>

ExecutionStep(e, ok) ==
  /\ e \in Run
  /\ \/ E!FailRuntime(e, ok) /\ UNCHANGED <<result, performed>>
     \/ E!AppendEvent(e, ok) /\ UNCHANGED <<result, performed>>
     \/ \E s \in Steps :
          \/ E!StartStep(e, s, ok) /\ UNCHANGED <<result, performed>>
          \/ \E r \in Results : Finish(e, s, r, ok)
          \/ Retry(e, s, ok)
          \/ E!SkipFailedStep(e, s, ok) /\ UNCHANGED <<result, performed>>
  /\ Written(e, ok)
  /\ UNCHANGED <<chainVars, cand, candRow, decided, expRow, now, job, notes>>

----------------------------------------------------------------------------
(* Verification and experience stores *)

\* Ids count up as they are issued, so the first of some records is the oldest.
First(ids) == {x \in ids : \A y \in ids : x <= y}

\* _make_room: both stores drop their oldest record, whatever depends on it.
Oldest(known, capacity) == IF Cardinality(known) < capacity THEN {} ELSE First(known)

\* A transaction that raises: memory is put back, the request fails.
StoreRolledBack ==
  /\ faults < MaxFaults
  /\ faults' = faults + 1
  /\ UNCHANGED <<chainVars, candRow, expRow>>

\* _validate_execution
Verifiable(e) ==
  /\ e \in E!Live(mem)
  /\ mem[e].status \in {"completed", "failed"}
  /\ e \in performed

\* verify, up to the call of the verification store; it reads memory only.  A review
\* that is not there, approved and intact is refused.
VerifyRead(e) ==
  /\ job = Idle
  /\ Verifiable(e)
  /\ job' = [Idle EXCEPT !.task = "verify", !.on = e,
                         !.evidence = [s \in Steps |-> Evidence(result[e][s])]]
  /\ UNCHANGED <<execVars, chainVars, candidateVars, notes>>

InsertVerification(v) ==
  /\ verif' = [verif EXCEPT ![v] = [exec |-> job.on, evidence |-> job.evidence]]
  /\ verMem' = (verMem \ Oldest(verMem, MaxVerifications)) \cup {v}
  /\ verRow' = (verRow \ Oldest(verMem, MaxVerifications)) \cup {v}
  /\ expRow' = {x \in expRow : exper[x].verif \in verRow'}
  /\ Cascade(expRow')
  /\ UNCHANGED <<exper, expMem, faults>>

\* Mutant: foreign keys are not enforced.
VerifyWrite_NoParent ==
  /\ job.task = "verify"
  /\ job' = Idle
  /\ IF \E v \in verMem : verif[v].exec = job.on
     THEN UNCHANGED <<chainVars, candRow, expRow, faults>>
     ELSE \E v \in First({w \in Verifications : verif[w].exec = None}) : InsertVerification(v)
  /\ UNCHANGED <<execVars, cand, decided, now, restarts, notes>>

\* create: one verification per execution; its row needs the execution's.
VerifyWrite ==
  /\ job.task = "verify"
  /\ job' = Idle
  /\ IF \/ \E v \in verMem : verif[v].exec = job.on
        \/ job.on \notin E!Live(db)
     THEN UNCHANGED <<chainVars, candRow, expRow, faults>>
     ELSE \/ \E v \in First({w \in Verifications : verif[w].exec = None}) : InsertVerification(v)
          \/ StoreRolledBack
  /\ UNCHANGED <<execVars, cand, decided, now, restarts, notes>>

ConsolidateRead(v) ==
  /\ job = Idle
  /\ v \in verMem
  /\ job' = [Idle EXCEPT !.task = "consolidate", !.on = v]
  /\ UNCHANGED <<execVars, chainVars, candidateVars, notes>>

InsertExperience(x) ==
  /\ exper' = [exper EXCEPT ![x] = [verif |-> job.on]]
  /\ expMem' = (expMem \ Oldest(expMem, MaxExperiences)) \cup {x}
  /\ expRow' = (expRow \ Oldest(expMem, MaxExperiences)) \cup {x}
  /\ Cascade(expRow')
  /\ UNCHANGED <<verif, verMem, verRow, faults>>

ConsolidateWrite ==
  /\ job.task = "consolidate"
  /\ job' = Idle
  /\ IF \/ \E x \in expMem : exper[x].verif = job.on
        \/ job.on \notin verRow
     THEN UNCHANGED <<chainVars, candRow, expRow, faults>>
     ELSE \/ \E x \in First({y \in Experiences : exper[y].verif = None}) : InsertExperience(x)
          \/ StoreRolledBack
  /\ UNCHANGED <<execVars, cand, decided, now, restarts, notes>>

----------------------------------------------------------------------------
(* Candidates, promotion, guidance *)

LessonsOf(x) == Lessons(verif[exper[x].verif].evidence)

\* create_for_experience reads the experience; without lessons it refuses.
CandidatesRead(x) ==
  /\ job = Idle
  /\ x \in expMem
  /\ LessonsOf(x) # {}
  /\ job' = [Idle EXCEPT !.task = "candidates", !.on = x, !.left = LessonsOf(x)]
  /\ UNCHANGED <<execVars, chainVars, candidateVars, notes>>

Done(k) == IF job.left = {k} THEN Idle ELSE [job EXCEPT !.left = @ \ {k}]

\* One call of the candidate store per lesson; an exception ends the request
\* and leaves the candidates created before it.
CandidateWrite(k) ==
  LET c == <<job.on, k>>
  IN /\ job.task = "candidates"
     /\ k \in job.left
     /\ \/ /\ cand[c].status # "absent"
           /\ job' = Done(k)
           /\ UNCHANGED candidateVars
        \/ /\ CreateCandidate(c)
           /\ job' = IF cand'[c].status = "absent" THEN Idle ELSE Done(k)
        \/ /\ cand[c].status = "absent"
           /\ Cardinality(Known(cand)) >= MaxCandidates
           /\ Evictable(ExpireAll(cand)) = {}
           /\ job' = Idle
           /\ UNCHANGED candidateVars
     /\ UNCHANGED <<execVars, chainVars, notes>>

\* The person's side of the candidate store.
Review ==
  /\ \/ List
     \/ \E c \in Candidates, d \in Decisions : Decide(c, d)
  /\ UNCHANGED <<execVars, chainVars, job, notes>>

\* promote: get (which may find the candidate overdue), then a stored proposal
\* of an approved candidate's note; the same candidate gives the same proposal.
Promote(c) ==
  /\ Cardinality({d \in Candidates : notes[d] # "none"}) < MaxNotes
  /\ Get(c)
  /\ notes' = IF cand[c].status = "approved" /\ notes[c] = "none"
              THEN [notes EXCEPT ![c] = "proposed"] ELSE notes
  /\ UNCHANGED <<execVars, chainVars, job>>

\* The module MemoryWriting: the person confirms and the note is written.
ApplyNote(c) ==
  /\ notes[c] = "proposed"
  /\ notes' = [notes EXCEPT ![c] = "applied"]
  /\ UNCHANGED <<execVars, chainVars, candidateVars, job>>

\* Mutant: an applied note is enough.
Guidance_Applied == {c \in Candidates : notes[c] = "applied"}

\* resolve: applied notes whose candidate is still there and approved.
Guidance == {c \in Candidates : notes[c] = "applied" /\ cand[c].status = "approved"}

----------------------------------------------------------------------------

\* _restore: what has a row.
RestoreVerifications == verMem' = verRow
RestoreExperiences   == expMem' = expRow

Restart ==
  /\ E!Restart
  /\ CandidateRestart
  /\ RestoreVerifications
  /\ RestoreExperiences
  /\ job' = Idle
  /\ result' = resultRow /\ performed' = performedRow
  /\ UNCHANGED <<resultRow, performedRow, verif, verRow, exper, notes>>

Tick ==
  /\ CandidateTick
  /\ UNCHANGED <<execVars, chainVars, job, notes>>

Next ==
  \/ \E e \in Execs, r \in Reviews, ok \in BOOLEAN : CreateExecution(e, r, ok)
  \/ \E e \in Execs, ok \in BOOLEAN : ExecutionStep(e, ok)
  \/ \E e \in Execs : VerifyRead(e)
  \/ VerifyWrite
  \/ \E v \in Verifications : ConsolidateRead(v)
  \/ ConsolidateWrite
  \/ \E x \in Experiences : CandidatesRead(x)
  \/ \E k \in Kinds : CandidateWrite(k)
  \/ Review
  \/ \E c \in Candidates : Promote(c) \/ ApplyNote(c)
  \/ Restart
  \/ Tick

Spec == Init /\ [][Next]_vars

----------------------------------------------------------------------------
(* Properties *)

\* What the three stores' rows and memories keep between them, through evictions,
\* cascades and failed transactions: a row is always known to memory, and never
\* without its parent's row.
RowsHaveParents ==
  /\ verRow \subseteq verMem
  /\ expRow \subseteq expMem
  /\ \A v \in verRow : verif[v].exec \in E!Live(db)
  /\ \A x \in expRow : exper[x].verif \in verRow

\* The record of e was put back by a restart to a row behind what had happened: it runs
\* for ever, since its unfinished steps are running and no thread is in them.
Interrupted(e) ==
  /\ restarts > 0 /\ mem[e].status = "running"
  /\ \A s \in Steps : mem[e].steps[s] = "completed" \/ (mem[e].steps[s] = "running" /\ callers[e][s] = 0)

\* A verification that says "succeeded" was made of a completed execution, and as long as
\* there is a record nothing fails, retries, skips or runs again a step of it.  The record
\* is completed with every step proven; only when the write of the last steps' results
\* failed (verify reads memory) may a restart bring it back as running, with those steps
\* stuck in running and the others proven.
SucceededIsTrue ==
  \A v \in verMem :
    LET e == verif[v].exec
    IN e \in E!Live(mem) /\ Outcome(verif[v].evidence) = "succeeded" =>
         /\ mem[e].status = "completed" \/ Interrupted(e)
         /\ \A s \in Steps : mem[e].steps[s] = "completed" => Evidence(result[e][s]) = "proven"

\* What guides a new plan is what a person approved last: an applied note whose
\* candidate was evicted, came back and was rejected guides nothing.
GuidanceIsApproved ==
  \A c \in Guidance : decided[c] = "approved"

\* The chain uses the candidate store as that store allows.
ImplementsCandidateStore == CandidateSpec

=============================================================================
