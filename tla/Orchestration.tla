---------------------------- MODULE Orchestration ----------------------------
(***************************************************************************)
(* One approved execution as the threads of Cauco Core drive it: the task  *)
(* runtime (run, resume, cancel), single steps requested over HTTP,        *)
(* previews and their confirmation.  Every store method is one action of   *)
(* ExecutionStore (E) or PreviewStore (P); a service method is a sequence  *)
(* of them, and between two of them any other thread may run, a write may  *)
(* fail or the process may end.  thr says where in its method a thread is. *)
(*                                                                         *)
(* A step reads or mutates.  A read is started directly; a mutation only   *)
(* by confirm, which claims the step's preview first.  What an adapter     *)
(* returns, and whether a preview still matches the workspace, is open.    *)
(***************************************************************************)
EXTENDS Integers, FiniteSets

CONSTANTS
  Threads, Exec, Review, Previews, None,
  Steps,        \* step indexes of the plan, in order
  Mutations,    \* the steps that need a preview
  Sources,      \* Sources[s]: the steps whose output is part of the input of s
  MaxPreviews,  \* capacity of the preview store
  TTL,          \* lifetime of a preview
  MaxTime, MaxStarts, MaxFaults, MaxRestarts   \* bounds, as in the stores

ASSUME StepAssumption == Steps \subseteq Nat /\ Mutations \subseteq Steps
ASSUME NoneAssumption == None \notin Threads \cup Previews \cup Steps

\* A StepOutputBinding names an earlier step and a scalar in what it returned; only
\* the typed inputs of reads have fields that take one.
Bindings ==
  {b \in [Steps -> SUBSET Steps] : \A s \in Steps :
     /\ \A r \in b[s] : r < s
     /\ s \in Mutations => b[s] = {}}

ASSUME SourcesAssumption == Sources \in Bindings

VARIABLES
  mem, db, used, callers, opening,                     \* the execution store
  pmem, active, pdb, pused, granted, holders,          \* the preview store
  now, faults, restarts,                               \* shared by both
  eligible,  \* the review is approved, in time and intact
  lock,      \* the thread in the runtime's lock of this execution
  thr,       \* thr[t]: place, step, preview and adapter outcome of thread t
  invoked    \* invoked[s]: calls of the adapter of step s so far

evars == <<mem, db, used, callers, opening>>
pvars == <<pmem, active, pdb, pused, granted, holders>>
vars  == <<evars, pvars, now, faults, restarts, eligible, lock, thr, invoked>>

E == INSTANCE ExecutionStore WITH Execs <- {Exec}, Reviews <- {Review}, MaxRecords <- 1

P == INSTANCE PreviewStore WITH
       Execs <- {Exec}, MaxRecords <- MaxPreviews, mem <- pmem, db <- pdb, used <- pused,
       rows <- {e \in {Exec} : db[e].status # "absent"}

----------------------------------------------------------------------------
(* Threads *)

\* What the adapters of reads may do: return a result, raise ToolExecutionError
\* (failure; transient for a timeout), or let another exception out (crash).  Only
\* git has a timeout; the connectors turn every error of the broker into a failure.
FileOutcomes     == {"success", "failure", "crash"}
StatusOutcomes   == {"success", "failure", "transient", "crash"}
MailOutcomes     == {"success", "failure"}
CalendarOutcomes == {"success", "failure"}

\* A mutation's adapter may do all of it; WorkspaceMutation has the adapters' steps.
Outcomes == FileOutcomes \cup StatusOutcomes \cup MailOutcomes \cup CalendarOutcomes

\* What WorkspacePolicy says of the target of a read or of a write, as the workspace
\* is when the step is validated or previewed.
PolicyAnswers == {"allowed", "forbidden", "invalid", "no workspace"}

Idle == [at |-> "idle", step |-> None, preview |-> None, outcome |-> None]

At(t, place) == thr[t].at = place
Key(s)       == <<Exec, s>>
Record       == mem[Exec]
Pending(s)   == Record.steps[s] = "pending"
IsRuntime(t) == lock = t
Confirms(t)  == thr[t].preview # None

\* _next_pending.
NextPending ==
  IF \E s \in Steps : Pending(s)
  THEN CHOOSE s \in Steps : Pending(s) /\ \A r \in Steps : Pending(r) => s <= r
  ELSE None

\* The preview that the step waits for, if there is one.
Waiting(s) == {p \in Previews : active[Key(s)] = p /\ P!Pending(p)}

\* resolve_step_output_bindings: every step that the input refers to has completed.
\* (What it returned may lack the path or have the wrong type: then it is refused.)
Produced(s) == \A r \in Sources[s] : Record.steps[r] = "completed"

\* _bound_step of the mutation service.
Bound(s) == Record.status # "absent" /\ eligible /\ Pending(s)

Go(t, place) == thr' = [thr EXCEPT ![t].at = place] /\ UNCHANGED lock

\* Mutant: the runtime returns from inside its lock without releasing it.
Leave_KeepsLock(t) == thr' = [thr EXCEPT ![t] = Idle] /\ UNCHANGED lock

\* The method returns or raises; the runtime's lock is released.
Leave(t) ==
  /\ thr' = [thr EXCEPT ![t] = Idle]
  /\ lock' = IF lock = t THEN None ELSE lock

GoOrLeave(t, ok, place) == IF ok THEN Go(t, place) ELSE Leave(t)

\* The runtime turns a refusal into a stop; a client gets the error.
Refused(t) == IF IsRuntime(t) THEN Go(t, "stop") ELSE Leave(t)

Begin(t, place, s, p) ==
  thr' = [thr EXCEPT ![t] = [at |-> place, step |-> s, preview |-> p, outcome |-> None]]

OnlyRecord  == UNCHANGED <<pvars, eligible, invoked>>
OnlyPreview == UNCHANGED <<evars, eligible, invoked>>
NoStore     == UNCHANGED <<evars, pvars, now, faults, restarts, eligible>>

Init ==
  /\ E!Init
  /\ pmem = [p \in Previews |-> P!NoPreview] /\ pdb = pmem
  /\ active = [k \in P!Keys |-> None]
  /\ pused = {} /\ granted = [p \in Previews |-> 0] /\ holders = {}
  /\ eligible = TRUE
  /\ lock = None
  /\ thr = [t \in Threads |-> Idle]
  /\ invoked = [s \in Steps |-> 0]

\* POST /executions for the approved review.
Open(ok) ==
  /\ eligible
  /\ E!Create(Exec, Review, {}, ok)
  /\ OnlyRecord
  /\ UNCHANGED <<lock, thr>>

----------------------------------------------------------------------------
(* TaskRuntime *)

RunBegin(t, ok) ==
  /\ At(t, "idle") /\ lock = None
  /\ Record.status \in E!Active
  /\ E!AppendEvent(Exec, ok)
  /\ IF ok THEN Begin(t, "advance", None, None) /\ lock' = t ELSE UNCHANGED <<thr, lock>>
  /\ OnlyRecord

\* Nothing left to start: a completed record is noted as such.
AdvanceEnd(t, ok) ==
  /\ At(t, "advance") /\ NextPending = None
  /\ IF Record.status = "completed" THEN E!AppendEvent(Exec, ok)
     ELSE ok /\ UNCHANGED <<evars, now, faults, restarts>>
  /\ Leave(t)
  /\ OnlyRecord

\* A step that is running or failed is passed over.
Advance(t) ==
  /\ At(t, "advance") /\ NextPending # None
  /\ Begin(t, IF NextPending \in Mutations THEN "offer" ELSE "validate", NextPending, None)
  /\ UNCHANGED lock
  /\ NoStore /\ UNCHANGED invoked

\* An open pending preview is what the client has to confirm: the run pauses.
Offer(t, ok) ==
  /\ At(t, "offer")
  /\ \/ \E p \in Waiting(thr[t].step) :
          /\ P!Overdue(p)
          /\ OnlyPreview /\ P!Expire(p, ok)
          /\ GoOrLeave(t, ok, "request")
     \/ /\ ok /\ \E p \in Waiting(thr[t].step) : ~P!Overdue(p)
        /\ Leave(t) /\ NoStore /\ UNCHANGED invoked
     \/ /\ ok /\ Waiting(thr[t].step) = {}
        /\ Go(t, "request") /\ NoStore /\ UNCHANGED invoked

\* _stop: fail_runtime refuses a record that ended or has a running step.
Stop(t, ok) ==
  /\ At(t, "stop")
  /\ IF Record.status \in E!Active /\ ~E!Busy(Record) THEN E!FailRuntime(Exec, ok)
     ELSE ok /\ UNCHANGED <<evars, now, faults, restarts>>
  /\ Leave(t)
  /\ OnlyRecord

Retry(t, ok) ==
  /\ At(t, "retry")
  /\ IF Record.status = "failed" /\ Record.steps[thr[t].step] = "failed"
     THEN E!RetryStep(Exec, thr[t].step, ok) /\ GoOrLeave(t, ok, "advance")
     ELSE ok /\ UNCHANGED <<evars, now, faults, restarts>> /\ Leave(t)
  /\ OnlyRecord

CancelBegin(t) ==
  /\ At(t, "idle") /\ lock = None
  /\ Record.status # "absent" /\ ~E!Busy(Record)
  /\ Begin(t, IF NextPending = None THEN "cancel" ELSE "withdraw", NextPending, None)
  /\ lock' = t
  /\ NoStore /\ UNCHANGED invoked

\* The pending preview of the next step is cancelled before the execution is.
Withdraw(t, ok) ==
  /\ At(t, "withdraw")
  /\ \/ \E p \in Waiting(thr[t].step) :
          /\ P!Overdue(p)
          /\ OnlyPreview /\ P!Expire(p, ok)
          /\ GoOrLeave(t, ok, "cancel")
     \/ /\ \E p \in Waiting(thr[t].step) : ~P!Overdue(p)
        /\ IF Bound(thr[t].step)
           THEN OnlyPreview /\ P!Cancel(Key(thr[t].step), ok) /\ GoOrLeave(t, ok, "cancel")
           ELSE ok /\ Leave(t) /\ NoStore /\ UNCHANGED invoked
     \/ /\ ok /\ Waiting(thr[t].step) = {}
        /\ Go(t, "cancel") /\ NoStore /\ UNCHANGED invoked

Cancel(t, ok) ==
  /\ At(t, "cancel")
  /\ IF Record.status \in E!Active /\ ~E!Busy(Record) THEN E!Cancel(Exec, ok)
     ELSE ok /\ UNCHANGED <<evars, now, faults, restarts>>
  /\ Leave(t)
  /\ OnlyRecord

----------------------------------------------------------------------------
(* ExecutionService.execute_step *)

StepBegin(t, s) ==
  /\ At(t, "idle")
  /\ Record.status # "absent" /\ s \notin Mutations
  /\ Begin(t, "validate", s, None)
  /\ UNCHANGED lock
  /\ NoStore /\ UNCHANGED invoked

\* _deny: the refusal is noted on the record.
Deny(t, ok) ==
  /\ E!AppendEvent(Exec, ok)
  /\ IF ok THEN Refused(t) ELSE Leave(t)

\* Mutant: the sources of the input only have to be done.
Validate_AnyResult(t, answer, ok) ==
  /\ At(t, "validate")
  /\ OnlyRecord
  /\ \/ /\ eligible /\ answer = "allowed"
        /\ \A r \in Sources[thr[t].step] : Record.steps[r] \in {"completed", "failed", "cancelled"}
        /\ E!AppendEvent(Exec, ok) /\ GoOrLeave(t, ok, "start")
     \/ answer # "allowed" /\ Deny(t, ok)

\* The review, the input and the arguments are checked in this order.  That an evicted
\* review is not found is no refusal the runtime knows.
Validate(t, answer, ok) ==
  /\ At(t, "validate")
  /\ OnlyRecord
  /\ \/ /\ eligible /\ Produced(thr[t].step) /\ answer = "allowed"
        /\ E!AppendEvent(Exec, ok) /\ GoOrLeave(t, ok, "start")
     \/ /\ ~eligible \/ ~Produced(thr[t].step) \/ answer # "allowed"
        /\ Deny(t, ok)
     \/ /\ ok /\ ~eligible
        /\ (Refused(t) \/ Leave(t))
        /\ UNCHANGED <<evars, now, faults, restarts>>

\* start_step, from execute_step or from confirm.
Start(t, ok) ==
  LET s == thr[t].step
  IN /\ At(t, "start")
     /\ \/ /\ E!StartStep(Exec, s, ok)
           /\ IF Confirms(t) THEN Go(t, IF ok THEN "announce" ELSE "drop")
              ELSE GoOrLeave(t, ok, "invoke")
        \/ /\ E!StartRefused(Exec, s, ok)
           /\ IF Confirms(t) THEN Go(t, "drop") ELSE IF ok THEN Refused(t) ELSE Leave(t)
     /\ OnlyRecord

\* adapter.execute.  A read may fail for a while (transient) or for good; an
\* exception of another kind leaves execute_step, but not confirm.
Invoke(t, outcome) ==
  /\ At(t, "invoke")
  /\ invoked' = [invoked EXCEPT ![thr[t].step] = @ + 1]
  /\ thr' = [thr EXCEPT ![t].outcome = outcome,
                        ![t].at = IF outcome = "crash" /\ ~Confirms(t) THEN "lost"
                                  ELSE "finish"]
  /\ NoStore /\ UNCHANGED lock

\* Mutant: attempts are not counted.
MayRetry_Always(t) == thr[t].outcome = "transient"

\* RecoveryPolicy.evaluate on the record that finish_step returned.
MayRetry(t) == thr[t].outcome = "transient" /\ Record.starts[thr[t].step] <= 1

AfterFinish(t) ==
  IF Confirms(t) THEN Go(t, "close")
  ELSE IF ~IsRuntime(t) THEN Leave(t)
  ELSE IF thr[t].outcome = "success" THEN Go(t, "advance")
  ELSE IF MayRetry(t) THEN Go(t, "retry")
  ELSE Leave(t)

Finish(t, ok) ==
  /\ At(t, "finish")
  /\ E!FinishStep(Exec, thr[t].step, thr[t].outcome = "success", ok)
  /\ IF ok THEN AfterFinish(t) ELSE IF Confirms(t) THEN Go(t, "drop") ELSE Leave(t)
  /\ OnlyRecord

\* An exception between start_step and finish_step: the step stays running.
Lost(t) ==
  /\ At(t, "lost")
  /\ E!CallerLost(Exec, thr[t].step)
  /\ IF Confirms(t) THEN Go(t, "drop") ELSE Leave(t)
  /\ OnlyRecord

----------------------------------------------------------------------------
(* MutationService *)

PreviewBegin(t, s) ==
  /\ At(t, "idle")
  /\ s \in Mutations /\ Bound(s)
  /\ Begin(t, "request", s, None)
  /\ UNCHANGED lock
  /\ NoStore /\ UNCHANGED invoked

\* create_preview: the bound step, its event, and what the policy and the adapter say.
Request(t, answer, ok) ==
  /\ At(t, "request")
  /\ IF Bound(thr[t].step)
     THEN /\ E!AppendEvent(Exec, ok)
          /\ IF ok /\ answer # "allowed" THEN Refused(t) ELSE GoOrLeave(t, ok, "create")
     ELSE ok /\ Refused(t) /\ UNCHANGED <<evars, now, faults, restarts>>
  /\ OnlyRecord

Create(t, p, ok) ==
  /\ At(t, "create")
  /\ OnlyPreview
  /\ P!Create(p, Key(thr[t].step), ok)
  /\ Leave(t)

\* Another pending preview, or the previews of other executions fill the store.
CreateConflict(t) ==
  /\ At(t, "create")
  /\ Refused(t)
  /\ NoStore /\ UNCHANGED invoked

\* confirm: the bound step and its event come first.
ConfirmBegin(t, p, ok) ==
  /\ At(t, "idle")
  /\ pmem[p].status # "absent"
  /\ Bound(pmem[p].key[2])
  /\ E!AppendEvent(Exec, ok)
  /\ IF ok THEN Begin(t, "verify", pmem[p].key[2], p) ELSE UNCHANGED thr
  /\ UNCHANGED lock
  /\ OnlyRecord

\* The preview as get returns it, the digest, the phrase and the before-state: a preview
\* that is not pending, another digest or phrase, or a memory proposal that has gone ends
\* the request.
Verify(t, ok) ==
  LET p == thr[t].preview
  IN /\ At(t, "verify")
     /\ \/ /\ P!Overdue(p)
           /\ OnlyPreview /\ P!Expire(p, ok) /\ Leave(t)
        \/ /\ ok /\ P!Pending(p) /\ ~P!Overdue(p)
           /\ (Go(t, "claim") \/ Go(t, "stale"))
           /\ NoStore /\ UNCHANGED invoked
        \/ /\ ok /\ ~P!Overdue(p)
           /\ Leave(t) /\ NoStore /\ UNCHANGED invoked

\* _stale cancels what is now the open preview of the step.
Stale(t, ok) ==
  /\ At(t, "stale")
  /\ \/ \E p \in Waiting(thr[t].step) :
          OnlyPreview /\ (P!Cancel(Key(thr[t].step), ok) \/ P!Expire(p, ok))
     \/ ok /\ Waiting(thr[t].step) = {} /\ NoStore /\ UNCHANGED invoked
  /\ Leave(t)

\* Mutant: confirm goes on although the claim could not be saved.
Claim_Swallowed(t, ok) ==
  At(t, "claim") /\ OnlyPreview /\ P!Claim(thr[t].preview, ok) /\ Go(t, "start")

Claim(t, ok) ==
  LET p == thr[t].preview
  IN /\ At(t, "claim")
     /\ \/ /\ OnlyPreview /\ P!Claim(p, ok) /\ GoOrLeave(t, ok, "start")
        \/ /\ P!Overdue(p)
           /\ OnlyPreview /\ P!Expire(p, ok) /\ Leave(t)
        \/ /\ ok /\ ~P!Pending(p)
           /\ Leave(t) /\ NoStore /\ UNCHANGED invoked

\* The adapter_started event, outside the try: if it cannot be written the
\* adapter is not called and the step stays running.
Announce(t, ok) ==
  /\ At(t, "announce")
  /\ E!AppendEvent(Exec, ok)
  /\ Go(t, IF ok THEN "invoke" ELSE "lost")
  /\ OnlyRecord

\* The events after finish_step, and then consume.
Close(t, ok) ==
  /\ At(t, "close")
  /\ E!AppendEvent(Exec, ok)
  /\ Go(t, IF ok THEN "consume" ELSE "drop")
  /\ OnlyRecord

Consume(t, ok) ==
  /\ At(t, "consume")
  /\ OnlyPreview
  /\ P!Consume(thr[t].preview, ok)
  /\ Leave(t)

Drop(t) ==
  /\ At(t, "drop")
  /\ OnlyPreview
  /\ P!HolderLost(thr[t].preview)
  /\ Leave(t)

----------------------------------------------------------------------------
(* The environment *)

\* GET of the step's preview.
LookAt(p, ok) ==
  /\ OnlyPreview /\ UNCHANGED <<lock, thr>>
  /\ P!Expire(p, ok)

CancelPreview(s, ok) ==
  /\ Bound(s) /\ Waiting(s) # {}
  /\ OnlyPreview /\ UNCHANGED <<lock, thr>>
  /\ P!Cancel(Key(s), ok)

\* The review passes its time or is evicted; an approval never comes back.
ReviewLapses ==
  /\ eligible
  /\ eligible' = FALSE
  /\ UNCHANGED <<evars, pvars, now, faults, restarts, lock, thr, invoked>>

Restart ==
  /\ E!Restart
  /\ P!Restart
  /\ thr' = [t \in Threads |-> Idle]
  /\ lock' = None
  /\ UNCHANGED <<eligible, invoked>>

Tick ==
  /\ E!Tick
  /\ UNCHANGED <<pvars, eligible, lock, thr, invoked>>

\* What a thread does once it has begun a method.
ThreadStep(t) ==
  \/ Advance(t) \/ Lost(t) \/ CreateConflict(t) \/ Drop(t)
  \/ \E ok \in BOOLEAN :
       \/ AdvanceEnd(t, ok) \/ Offer(t, ok) \/ Stop(t, ok) \/ Retry(t, ok)
       \/ Withdraw(t, ok) \/ Cancel(t, ok)
       \/ \E answer \in PolicyAnswers : Validate(t, answer, ok) \/ Request(t, answer, ok)
       \/ Start(t, ok) \/ Finish(t, ok)
       \/ Verify(t, ok) \/ Stale(t, ok) \/ Claim(t, ok)
       \/ Announce(t, ok) \/ Close(t, ok) \/ Consume(t, ok)
       \/ \E p \in Previews : Create(t, p, ok)
  \/ \E outcome \in Outcomes : Invoke(t, outcome)

\* The requests a client sends for the execution and for its previews.
ExecutionRequest(t) ==
  \/ CancelBegin(t)
  \/ \E s \in Steps : StepBegin(t, s)
  \/ \E ok \in BOOLEAN : RunBegin(t, ok)

MutationRequest(t) ==
  \/ \E s \in Steps : PreviewBegin(t, s)
  \/ \E ok \in BOOLEAN, p \in Previews : ConfirmBegin(t, p, ok)

Environment ==
  \/ \E ok \in BOOLEAN :
       \/ Open(ok)
       \/ \E p \in Previews : LookAt(p, ok)
       \/ \E s \in Mutations : CancelPreview(s, ok)
  \/ ReviewLapses
  \/ Restart
  \/ Tick

Next ==
  \/ \E t \in Threads : ThreadStep(t) \/ ExecutionRequest(t) \/ MutationRequest(t)
  \/ Environment

Spec == Init /\ [][Next]_vars

\* The pool keeps running a thread that has begun, and adapters return: they are
\* called with a timeout.  No request has to arrive.
LiveSpec == Spec /\ \A t \in Threads : WF_vars(ThreadStep(t))

----------------------------------------------------------------------------
(* Properties *)

\* The adapter of a mutation is called at most once, whatever previews expire,
\* are replaced or confirmed twice, writes fail, threads race and Core restarts;
\* that of a read at most twice, "at most one automatic retry".
EffectOnce == \A s \in Steps : invoked[s] <= IF s \in Mutations THEN 1 ELSE 2

\* When a mutation's adapter is called, a person's confirmation of that very step
\* and the start of the step are both in the rows, so that a restart in the
\* middle of the effect withdraws the preview and does not offer the step again.
IntentBeforeEffect ==
  \A t \in Threads : At(t, "invoke") /\ thr[t].step \in Mutations =>
    /\ db[Exec].steps[thr[t].step] = "running"
    /\ thr[t].preview # None
    /\ pdb[thr[t].preview] =
         [pmem[thr[t].preview] EXCEPT !.status = "confirmed", !.key = Key(thr[t].step)]

\* What was done is never denied: once a mutation's adapter has been called,
\* neither memory nor the rows say that the step is still to be done or that it
\* was cancelled before it ran.
EffectIsOnRecord ==
  \A s \in Mutations : invoked[s] > 0 =>
    \A m \in {mem, db} : m[Exec].steps[s] \in {"running", "completed", "failed"}

\* A read is called only with what earlier steps returned: the steps its input refers
\* to have completed, in memory and in the rows, however the thread's picture of the
\* record has aged and whatever failed, was retried or was restarted in between.
InputsWereProduced ==
  \A t \in Threads : At(t, "invoke") =>
    \A r \in Sources[thr[t].step] : \A m \in {mem, db} : m[Exec].steps[r] = "completed"

\* No adapter is called for an execution that was cancelled or completed before,
\* however long ago the thread validated the step.
NoEffectAfterEnd ==
  [][mem[Exec].status \in {"absent", "completed", "cancelled"} =>
       invoked' = invoked]_vars

\* A request that has begun ends, with the runtime's lock released: the loop of
\* the runtime does not retry for ever and no refusal is met again and again.
RequestsEnd == \A t \in Threads : ~At(t, "idle") ~> At(t, "idle")

LockIsReleased == \A t \in Threads : IsRuntime(t) ~> ~IsRuntime(t)

=============================================================================
