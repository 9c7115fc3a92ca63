# Cauco in TLA+

Cauco is a personal assistant for one person and one Obsidian vault. A Python
backend (Core, FastAPI on localhost) plans work, asks for approval, executes
steps through tools and writes memory files; an Obsidian plugin (TypeScript) is
its user interface; a macOS host (Swift) owns the microphone and the native
applications. This directory specifies what decides *whether something happens
to the person's data*, from the instruction to the plan, its approval, preview
and confirmation, the execution with its durable record, the effect on files
and the repository, and what is learned from the outcome; and, in the macOS
host, *who has the microphone*.

All paths below are relative to `src/`; `core/` stands for
`core/src/cauco_core/`.

## 1. Inventory

Core is one process. HTTP handlers are synchronous functions that Starlette runs
in a thread pool, so any two requests interleave. Each store is a dictionary in
memory guarded by an `RLock`, with a subclass that repeats every change in
SQLite. The pattern is everywhere the same: take the lock, change memory, write
the row in one transaction, release. If the transaction fails the caller gets an
error; whether memory is put back differs from store to store, and that is where
most of the difficulty is. A restart builds the memory of every store from the
rows, with rules of its own for what was in progress.

### Governed execution (Core)

| component | state | operations | interacts with | hard behaviour | what makes it correct |
|---|---|---|---|---|---|
| plan review store, `core/agents/review_store.py`, `sqlite_store.py` | reviews with a status, a deadline and `updated_at` | create, list/get (expire as they read), approve, reject, cancel, restore | approved reviews are read by the execution and mutation services, which go on with a copy | a decision races with expiry and eviction; expiry is written by whoever reads first | one terminal transition; an approval in use is not taken back; capacity never costs a pending review |
| execution store, `core/execution/store.py`, `sqlite_store.py` | a record per plan: status, step statuses, journal, timestamps | create, start_step, finish_step, fail_*, retry_step, skip_failed_step, cancel, append_event, restore | unique per review; its rows are the parents of preview, verification and experience rows (`ON DELETE CASCADE`) | two threads start one step; a write fails between memory and row; eviction loses its delete; restart in the middle of a step | no step executed twice; intent durable before effect; final outcomes; attempts never forgotten; capacity |
| preview store, `core/mutations/store.py`, `sqlite_store.py` | previews and `_active`, the index of the open preview of a step | create, claim, consume, cancel, expire, restore | rows under a partial unique index and a foreign key to executions | the index against eviction and expiry; two confirmations; a confirmed preview at a restart | granted once; one claim per step; the claim durable; the index never dangles |
| task runtime, execution and mutation services, `core/execution/runtime.py`, `service.py`, `recovery.py`, `core/mutations/service.py` | a lock per execution; nothing else outlives a request | run, resume, stop, execute a step, preview, confirm, cancel, recover | call the three stores and the tool adapters; read state under one lock and use it under another | everything between two store calls: a lapse, a second thread, a failed write, a crash | the effect happens at most once, after its durable intent, and is never denied; requests end |
| execution policy and bindings, `policy.py`, `bindings.py` | none | path and argument checks; an input may refer to an earlier step's output | called by the services before a step is started | the record is read long before the step is started | a step runs only on outputs that were produced |
| tool registry and adapters, `tools/src/cauco_tools` | files, git work trees, `.cauco-backups` | prepare, preview, execute | called by the services; one lock for git, one for files | the person works in the same files and repository; commands fail, or time out after their effect | success is what was previewed; failure leaves things as they were; overwritten text is kept; one approved commit is published |
| application composition and routes, `core/main.py`, `core/api` | none | start-up order, request mapping | wires everything | order of restoration | children are restored after their parents |
| SQLite persistence, `core/persistence/sqlite.py` | connection, schema | transaction, migrations | all SQLite stores | constraint failures, cascades | a transaction is all or nothing |

### Memory (Core)

| component | state | operations | hard behaviour | what makes it correct |
|---|---|---|---|---|
| memory writing, `core/memory_writing/store.py`, `sqlite_store.py`, `applier.py` | proposals with a stable id; the Markdown file and its `.bak`; one application lock | put, get/list (expire), apply: read, compare, back up, replace, verify, mark | the person edits the same file; time runs out in the middle; a crash after the replacement | a text is written once; nothing is shown as applied that was not; edits made before the comparison survive |
| analysis and proposal building, `analyzer.py`, `proposal_builder.py`, `core/mutations/memory_adapter.py` | none | classification, formatting | none | the proposal's digest is that of the file it read |
| verification, `core/verification` | one verification per execution | verify | an outcome that changes after it was verified | the verification tells what the record says |
| experience, candidates, promotion: `core/learning`, `core/memory_candidates` | experiences, candidates with decisions | consolidate, decide, promote | rows that disappear by cascade; expiry in memory only; stable ids | a decision is final and durable; a row never lacks its parent |
| learning guidance: `core/learning_guidance` | none | resolve | reads applied notes and candidates that may have been evicted, recreated and decided again | only what a person approved last guides a plan |
| reflection, executive, cognitive cycle | none | read-only resolvers | none | they show what the stores hold |
| memory engine, search, context: `core/memory`, `core/context` | an index rebuilt from the files | scan, search | none | the index covers the vault |

### The rest

| component | state | hard behaviour |
|---|---|---|
| agents, routing, planning: `core/agents`, `agents/src` | none beyond a request: scores, a context, a list of steps | memory files change while they are read |
| reasoning: `core/reasoning`, `reasoning/src` | none | model text that is not JSON |
| perception: `core/perception` | polled feeds and a cache | slow or failing sources |
| connectors, native broker client: `core/connectors`, `core/native_broker/client.py` | permission state lives in macOS | time-outs of the socket |
| wake events: `core/native_broker/wake_events.py` | one-place queues of subscribers | lost and late events |
| hands-free coordination: `NativeHandsFreeCoordinator.swift` | listening state, generation tokens | late callbacks, silence, re-arming |
| macOS host, other | processes, audio, UI | operating system |
| plugin voice: `plugin/src/voice` | session state, generations | late audio and transcripts |
| plugin execution state: `plugin/src/execution` | current plan and request number | answers out of order |
| AI provider, scheduler, wake-model training | none at run time | none |

`PROJECT.json` lists the same components with their status, and the hazards,
each at its line.

## 2. Modules

```
 Planning ------- EXTENDS ---> PlanReview        Planning_proofs (of both)
 Orchestration -- INSTANCE --> ExecutionStore    Orchestration_proofs, ExecutionStore_proofs
             `--- INSTANCE --> PreviewStore      PreviewStore_proofs
 LearningChain -- INSTANCE --> ExecutionStore    LearningChain_proofs (with CandidateStore's)
             `--- EXTENDS ---> CandidateStore
 WorkspaceMutation                              WorkspaceMutation_proofs
 MemoryWriting                                  MemoryWriting_proofs
 HandsFree                                      HandsFree_proofs
```

Along a request: `Planning` turns an instruction into a plan and submits it to
`PlanReview`; `Orchestration` drives the approved execution over the two stores;
`WorkspaceMutation` opens up what `Orchestration` calls "the adapter" for the four
mutations of files and the repository; `LearningChain` takes over when an execution
has ended, and its notes are written as `MemoryWriting` writes. `HandsFree` stands
alone: it is another process.

`Orchestration` instantiates the two stores (`E == INSTANCE ExecutionStore`,
`P == INSTANCE PreviewStore`) and uses their actions unchanged, as `LearningChain`
does with the execution store. An `MC_*` module
declares the symmetry set and the values that a `.cfg` cannot write down; a `.cfg` gives
values to the constants. Definitions marked `Mutant:` are not part of a
specification: each is the plausible bug that the property named beside it in
`PROJECT.json` must catch.

Conventions common to the store modules:

- One public store method is one action, because it holds the store's lock from
  beginning to end. Helpers a method always calls (`_expire`, `_make_room`,
  `_persist_record`) are part of the action.
- `mem` is the dictionary, `db` the rows. An argument `ok` says whether the
  transaction commits; `ok = FALSE` costs one of `MaxFaults` and leaves `mem` as
  the code leaves it (ahead of `db`, or restored, as the method does).
- Ids that the code draws with `secrets.token_urlsafe` are issued once
  (`used`); ids made from contents are not.
- `now` is the clock the store is given. It only moves forward. Statuses, times
  and step indexes are kept; texts, digests, contents and events that no
  decision reads are not.
- `Restart` forgets every thread and everything in memory, and applies the code's
  restoration rules to the rows.

### ExecutionStore

`mem[e]` / `db[e]` are the record's status, `steps`, `current` (the step shown as
current), `starts` (how often the journal says `step_started`, from which the
runtime counts attempts), and its times. `callers[e][s]` counts the threads that
are between `start_step` and `finish_step`; it is the one variable the code does
not have, and stands for the stacks of those threads. `opening` marks records whose
`create` request still has to find out that no step is executable. Actions:
`Create`, `CreateRefused`, `FailBeforeStart`, `AppendEvent`, `StartStep`,
`StartRefused`, `FinishStep`, `CallerLost`, `FailRuntime`, `RetryStep`,
`SkipFailedStep`, `Cancel`, `Restart`, `Tick`. Eviction of the oldest ended
record is part of `Create`; the unique constraint on reviews is `Clash`.

### PreviewStore

`active[k]` is `_active`. `rows` are the executions that still have a row: when
the execution store evicts one (`ExecutionEvicted`) the preview rows go too, and
later inserts fail. `granted` and `holders` record what `claim` answered to whom.
Actions: `Create`, `Expire`, `Claim`, `Consume`, `HolderLost`, `Cancel`,
`ExecutionEvicted`, `Restart`, `Tick`. The partial unique index on open previews
is `Clash`.

### PlanReview

Actions: `Create`, `CreateRefused`, `Look` (`list` and `get`: whatever is seen
and overdue expires, and is written), `Decide` (approve, reject, cancel),
`DecideLate` (the method expires the review and raises before it saves),
`Validate` and `EndOfUse` (a service takes a copy of an approved review and
works with it), `Restart`, `Tick`, and `Damage`: something else than the store
alters a row. `intact` says whether the contents of a review still have the
digest stored with them; `Verified` is `verify_integrity` and, at a restart, the
decoding of the row and its comparison with the index columns.

### Planning

`ask` is the planning request in progress: the agent, what was read so far
(`read[m]` is the length of the excerpt, 0 when nothing was found) and how many
characters of the budget are spent. `Instruction` is what the code recognises in
the words (signals, phrases, an intent, a path, dates, git words); `Routed`,
`Rank`, `Before` and the `...Steps` operators are `AgentRouter.route`, the
resolver's selection and ranking, and the six agents' plans over that record.
`ReadSource` is one round of the resolver's loop, so files may change between two.
`ReviewPlan` is the store's `Create`; with planning in front, the store's routes
are `DecisionRequest` and the store's own actions.

What reading the agents showed, without a property: the write step of the
git recipe has `requires_confirmation` false, although the runtime previews it all the
same (`ChangesAskFirst` states the exception); `memory.read` and `git.diff` are
enabled for planning but not for the runtime, so a project or research plan, and a git plan
with a diff, can be approved and then not be run past that step; a plan without
steps can be reviewed but never becomes ready; guidance is shown in the context
summary and left out of the review's record and digest.

### Orchestration

One approved execution. `thr[t]` is the place a thread has reached in its
service method, `lock` the runtime's lock of this execution, `eligible` whether
the review is still approved and in time, `invoked[s]` how often the adapter of
step `s` was called. Each action is one store call and what the code does around
it, so between two of them other threads run, a write fails or Core stops.
`RunBegin ... Retry` is the loop of the runtime; `CancelBegin ... Cancel` its
stop; `StepBegin ... Lost` a step executed directly; `PreviewBegin ...
CreateConflict` a preview request; `ConfirmBegin ... Drop` a confirmation. What
an adapter answers and whether a preview still matches the workspace are chosen
freely: `FileOutcomes`, `StatusOutcomes`, `MailOutcomes` and `CalendarOutcomes` are
what the reading adapters can do (only git can time out; the connectors turn every
error of the broker into a failure), `PolicyAnswers` what `WorkspacePolicy` says of a
target. `Sources[s]` are the steps whose output the input of `s` refers to
(`bindings.py`): `Validate` reads the review, the sources and the policy in the code's
order and notes a refusal on the record (`Deny`) before it answers.

### WorkspaceMutation

A job is one mutation from its preview to its outcome; `shown` is what the preview
recorded, `seen` what `git add` noted before it ran, `trouble` what went wrong as it ended:
a read of git about the result that failed or timed out (`"unread"`), an index that could
not be put back (`"unrestored"`, `recovery_succeeded` in the answer). `work`, `index`, `commits`,
`heads`, `branch` and `remote` are the workspace as git sees it, `bak` the slots of
`.cauco-backups`. A commit carries its tree, its parent and `past`, all that it descends
from, as `git rev-list` answers; 0 is no commit, for a branch before its first one (which
`inspect_commit` allows) and a remote without the branch. Each adapter is its sequence of steps: compare under the lock
(`Begin`), keep a copy (`CopyFile`, `CopyIndex`), act (`ReplaceFile`, `LinkFile`,
`GitAdd`, `GitCommit`, `GitPush`), look again and put back (`ReadBack`, `CheckAdd`,
`CheckCommit`, `CheckPush`). `Begin` and `CopyIndex` may also end in an error
(`BeginRefused`, `CopyIndexFails`), a write at every point where the disk may refuse
(`WriteFails`): the backup slots are moved one by one before the new copy is written
(`Shifted`), and the directory is synced after the file was replaced. A command may fail without an effect
(`CommandFails`), or have its effect and lose its answer (`answered = FALSE`, a
time-out). `Others...` is anybody else: an editor, git on the command line, a hook
of `git commit`, a colleague. `touched` is a history variable: somebody whom the
adapter's lock does not keep out changed what the job is about while the adapter
was at work. The lock of git is not the lock of files, so two jobs may disturb
each other too.

Git's answers are modelled by what the adapter reads in them. Blobs are read in text mode,
which makes CRLF a LF (`AsText`). Without `-z`, a name outside ASCII is quoted
(`Printed`). `git diff --cached` names the new path only of what it takes for a rename
(`Renamed`, `StagedNames`), `git diff-tree` both, and it names nothing for a commit without
a parent (`ChangedPaths`). So there are mutations whose verification cannot pass although
they did what the preview announced (`Unverifiable`): to stage a file with CRLF line ends, or
one that turns a staged deletion into a rename; to commit for the first time on a branch, a
rename, or a quoted name. Each commit of this kind is made and reported as
`verification_failed`; such a staging is taken back. Not modelled: an index restored only
in part, which git could not read.

Every property has this exception, and it is a statement about the code: inside
that window it cannot tell another's change from its own. The widest case is
`git push`: the command names the branch and not the commit
(`tools/src/cauco_tools/adapters/git.py:983`), so a commit made after the
comparison is published with the approved one, and reported as a failed
verification. Whether a failed commit or push has had its effect is known to two flags,
`head_changed_despite_error` and `remote_updated_despite_error` (`git.py:832`, `:988`), which
are set and never read.

### CandidateStore and LearningChain

`CandidateStore` is the candidate store alone, with the rest of Core reduced to
`ParentsChange`: experience rows come and go, candidate rows go with them. Its
methods restore memory when their transaction fails. `decided` is the last decision
that a person was told. `LearningChain` adds executions (the execution store
of `ExecutionStore`), verifications, experiences, and the notes made of
approved candidates, and `ImplementsCandidateStore` shows that the chain uses the
store as it allows.
A transaction of the execution store may fail (`ok = FALSE` in `ExecutionStep`): memory
keeps the outcome, the row says running, a verification reads memory, and a restart
brings the record back as running. `resultRow` and `performedRow` are the rows beside
`result` and `performed`. Ids of verifications and experiences are numbers in the order of issue,
so a queue in memory is a set whose oldest element is its least. `job` is what a request has read from one store and not yet
written to the next. `Evidence` and `Outcome` are the verification's reading
of a step and of an execution, `CascadeFrom` the foreign keys. The applied
note (`ApplyNote`) stands for the whole of `MemoryWriting`.

### MemoryWriting

`doc` is the target file: how often it holds each proposal's text, and which
lines the person added. `call[t]` is a confirmation in progress with the two
readings it holds. `List` expires each overdue proposal in a transaction of its
own, so it may fail half-way. `EditorAdds` and `EditorRemoves` are the person in
Obsidian, at any moment.

### HandsFree

The host's main actor runs one method or one posted callback at a time; `inbox` are
the callbacks posted and not yet run, in no order. A callback carries the generation
of its making, which is only compared with the current one, so `fresh` says that
they are equal and `AllOld` is `generation.advance`; `own` stands in the same way for the
transcriber's own generation. `asks` are starts of the transcriber that wait for a
permission, `task` the recognition under way, `request` and `speech` the
conversation's. `state` and `Legal` are the state machine, where an illegal transition
leads to the error state. `unanswered` marks a turn for which nothing will come any
more, in the four ways the code has:

- a final result without words ends the recognition without a callback
  (`AppleSpeechAdapters.swift:122`);
- a start is refused because a recognition is left over;
- a recognition is replaced by one that was begun late: after the microphone
  prompt is answered the generation is not compared again (`:50`);
- an instruction is dropped while a typed request is in flight
  (`ConversationView.swift:165`).

Enabling wake listening sets the flag before anything else, so when the microphone is denied
or the detector does not start, the flag stays on in the error state. Enabling it in the error state arms the detector and leaves the state as
it is, so the next wake phrase is ignored; `WakeListeningReturns` excepts
the error state.

## 3. Runs

| run | instance | distinct states |
|---|---|---|
| `execution_store` | three records of two steps for two reviews, one place | 1.06 million |
| `preview_store` | three previews of one step in each of two executions, two places | 348 thousand |
| `plan_review` | six instructions, three memories, two reviews, one place | 1.15 million |
| `orchestration` | two threads on one execution of three steps, two previews | 885 thousand |
| `orchestration_liveness` | two threads, two steps, one preview | 80 thousand |
| `workspace_mutation` | two jobs, two files, two branches and a remote | 4.53 million |
| `learning_chain` | two executions, one verification, one experience | 1.07 million |
| `memory_writing` | two confirmations, an editor, three clock readings | 144 thousand |
| `hands_free` | three callbacks waiting | 51 thousand |
| `failed_is_final`, `preview_persistence`, `expired_write` | statements of the documentation that the code does not keep | counterexamples |

What they show:

- **execution_store.** `NoDuplicateExecution`: at most one thread is between
  `start_step` and `finish_step` of a step, through retries, cancellations, failed writes and a
  restart. `InFlightIsDurable`: while it is there, the row says running.
  `OutcomeMatchesSteps`: a record's status agrees with its steps in memory and in
  the rows. `DurableOutcome`: a stored outcome is final. `OneRecordPerReview`, despite
  lost deletions that bring evicted rows back at a restart.
- **preview_store.** `ClaimedOnce`, `OneClaimPerStep`, `ClaimIsDurable`,
  `SpentStaysSpent`, `IndexIsSound`. `create` does accept a second
  preview of a step while the first is being confirmed; what keeps the second
  claim out is the unique index, when the claim is written.
- **plan_review.** `PlanIsGrounded`: whatever files come and go while the context is
  read, a plan's steps name memories that were quoted, what ranks first was tried
  first, and no limit is passed. `TrustIsAuthorized`, `OneTerminalTransition`,
  `PendingIsKept`; `ReviewsAreOriginal`: a damaged row is not decided on.
- **orchestration.** `EffectOnce`: a mutation's adapter is called at most once
  and a read's at most twice. `IntentBeforeEffect`: when a mutation's adapter is
  called, the claim and the start of the step are both in the rows.
  `EffectIsOnRecord`: afterwards nothing says the step is still to be done.
  `InputsWereProduced`: a read is called only when the steps it takes its input from
  have completed, in memory and in the rows. `NoEffectAfterEnd`: nothing is called for a
  cancelled or completed execution.
- **orchestration_liveness.** `RequestsEnd`, `LockIsReleased`.
- **workspace_mutation.** `SuccessIsExact`: a job that reports success left the
  workspace as its preview announced. `NothingHalfDone`: of one that reports a failure,
  `git add` left the index as it was, unless it says that it could not put it back; a
  write, a commit or a push did nothing or exactly what was announced, and the report does
  not say which, since an error or a time-out after the effect is the same failure as one
  before it. `verification_failed` is always another's doing, but for a failed read of
  git and the mutations that cannot be verified (`Unverifiable`).
  `OverwrittenIsKept`: a text that Cauco replaces is in a backup slot.
  `PublishesOneApproved`: a push moves the remote by exactly the approved commit. All
  four except what others do inside the adapter's window.
- **learning_chain.** `RowsHaveParents`, `SucceededIsTrue`: the execution of a
  verification that says "succeeded" is completed with every step proven. The one exception
  is a failed write of the last results, which a restart forgets: the record then runs for ever,
  its unproven steps stuck in running, but none fails, is tried again or is skipped.
  `CandidatesAreDurable`: a restart shows the
  candidates that memory showed, but for those whose experience went. `DecisionIsFinal`.
  `GuidanceIsApproved`: also after an eviction, a second life of the same candidate and
  another decision, what guides is what was approved last. `ImplementsCandidateStore`:
  the refinement.
- **memory_writing.** `AtMostOneCopy`, `AppliedWasWritten`, `MemoryFollowsRows`,
  `CheckedEditsSurvive`.
- **hands_free.** `MicrophoneHasOneOwner`: the detector and a recognition that can be heard
  never run together, and each belongs to the session that is on. A recognition begun
  too late, after the microphone prompt, is heard by nobody and does run beside the detector. `ClosedIsQuiet`: nothing of a session that
  ended speaks, listens or acts. `WakeListeningReturns`, `TurnsMoveOn`: the two
  ways a person would be left waiting.

### Bounds, and why they are enough

Ids: two or three of each kind, because every property relates at most two
records, threads or steps, and a third record is what eviction needs to choose.
Capacities are one or two, so that every `create` after that evicts. Times-to-live of
one or two and two or three clock readings let a record be fresh, expire, and be
observed after that. One failed transaction, one damaged row and one restart occur anywhere
(two and two in `preview_store`): "memory ahead of the row, then restart" needs exactly one
of each. `MaxStarts`
allows one retry of a step in the store's run, and in `orchestration` one more
than the recovery policy grants (`max_retries`, 1), so that `EffectOnce` is not
the bound's doing. In `orchestration`, step 1 mutates, step 2 reads and step 3 reads
with an input from both: two kinds that take different paths and may run side by side, and
one that has to wait for them; two previews allow one to be replaced. There the constraint
`OneTrouble` follows the second clock reading and the lapse of the review only where no
transaction fails and Core does not restart, and in `execution_store` the second clock
reading likewise. `preview_store` and `plan_review` have expiry, failures and restarts together.
In `plan_review` the context has room for two of three memories and two characters, so
that both limits bite; the instructions are one for each agent's own path, and one
that two agents recognise.
In `workspace_mutation`, one file may be written and staged, either committed, and the
branch may be without a commit, published or ahead, so that every pairing of two mutations
can meet. There are two texts, one with LF and one with CRLF; the name of one file is quoted;
the first commit has both files or only one, so that the other may be its new name.
Other programs act twice, once to disturb and once to hide it; four commits let each of the
jobs and the others make one; two backup slots let the first copy move up. In `learning_chain` there are two executions, so
that a verification can outlive the execution it reads, and one verification and one
experience; that their stores are full and evict is left to the theorems, which cover every
capacity. In `hands_free`, a session produces
at most one callback of its own at a time, so three leave two stale ones beside
it. Symmetry is declared over
ids that the code only compares for equality (executions, reviews, previews, the store's steps,
threads, proposals, jobs) and never for runs with liveness properties.

`CHECK_DEADLOCK FALSE` is set everywhere: these systems serve requests, the
clock, the failures and the ids are bounded, and a state in which nobody asks for
anything and the clock has run out is a legitimate end.

### Fairness

`Orchestration!LiveSpec` assumes weak fairness of `ThreadStep(t)` for each thread, and nothing
else. A request that has begun runs on a thread of the pool, and an
operating-system thread that can proceed eventually does; adapters have
time-outs, and a store lock is held only for a method. No fairness is assumed for
clients sending requests, people confirming, the clock, failures or restarts.
The number of attempts is bounded by the code itself (`attempt_count <=
max_retries`, `recovery.py:68`, counted from the journal).

`HandsFree!Fairness` assumes that the main actor runs each kind of posted callback,
that the speech framework answers a request for authorization, and that a recognition
(silence, thirty seconds), a request (its own time limit) and speech end: these are
the timers of `AppleSpeechAdapters.swift:20-27` and the URL session's. Nobody
has to answer the microphone prompt, to say the wake phrase or to use the window.

## 4. Findings

Three statements of the documentation that the code does not keep, each with
a counterexample:

1. `failed_is_final` - `finish_step` computes the record's status from the
   step that finished last (`core/execution/store.py:201`). With two steps running, a failed record runs
   again without anybody's recovery decision.
2. `preview_persistence` - `create` expires an overdue preview in memory and does
   not write that; the insert of the new one then violates the unique index.
3. `expired_write` - a confirmation whose proposal expires during the write
   leaves the text in the file and answers "expired".

Stale documents, without a run:

- `docs/architecture.md:79` and `docs/api-contract.md:228` say that only pending
  executions can be cancelled; `cancel` (`core/execution/store.py:338`) also accepts a
  running record between two steps. The code's behaviour looks intended.
- `docs/api-contract.md:89,148,232` and the docstring at `core/memory_writing/store.py:39`
  say that proposals and records live in memory only and vanish at a restart; the
  SQLite stores restore them.
- `README.md:34` promises that a push publishes one approved commit; see the window
  in WorkspaceMutation.

Met on the way, outside the models: the broker's client gives up after one to three
seconds while the host goes on (`core/native_broker/client.py:139`), so a mail draft or an event
may exist although its step is recorded as failed; the host accepts texts of 256
characters at most where Core allows 300 for a title and 1000 for notes, so a longer one is
refused after the person confirmed it; the id of a proposed decision contains the
date, so a preview made before midnight is stale after it.

## 5. Proofs

TLC checks the instances above; the `_proofs` modules prove theorems for every
value of the constants: any number of executions, reviews, previews, steps, any capacity,
any number of failed writes and restarts, any instruction and any memory. The only
assumptions are the `ASSUME`s of the modules: capacities and lifetimes are positive,
`None`, `Nobody` and `Absent` are no ids and no texts, ids numbered in order are naturals, no two
memories share a path, steps have the fields their kind needs, a step takes its
input from earlier ones. TLC evaluates them in the runs.

| module | proved | inductive invariant |
|---|---|---|
| `ExecutionStore_proofs` | types, `NoDuplicateExecution`, `InFlightIsDurable`, `OneRecordPerReview`, `OutcomeMatchesSteps`, `DurableOutcome` | `TypeOK /\ Fresh /\ InFlight /\ OutcomeMatchesSteps /\ OneRecordPerReview`; for the last, `/\ MemoryAhead /\ OpeningIdle` too |
| `PreviewStore_proofs` | types, `IndexIsSound`, `ClaimedOnce`, `OneClaimPerStep`, `ClaimIsDurable`, `SpentStaysSpent` | `TypeOK /\ Fresh /\ SameKey /\ Spent /\ Granted /\ HolderConfirmed /\ ...` |
| `MemoryWriting_proofs` | `AtMostOneCopy`, `AppliedWasWritten`, `MemoryFollowsRows`, `CheckedEditsSurvive` | `TypeOK /\ OneWorks /\ Reading /\ Unapplied /\` the first three |
| `Orchestration_proofs` | types, `EffectOnce`, `IntentBeforeEffect`, `EffectIsOnRecord`, `InputsWereProduced`, `NoEffectAfterEnd` | `TypeOK /\ RecordsOK /\ ThreadsOK` |
| `LearningChain_proofs` | `CandidatesAreDurable`, `DecisionIsFinal` of the candidate store alone | `CandidateTypeOK /\ Blank /\ HasParent /\ Acknowledged /\ CandidatesAreDurable` |
| | `ImplementsCandidateStore`, hence both of the chain; `GuidanceIsApproved` | the store's `/\ LinkInv` |
| | `RowsHaveParents`, `SucceededIsTrue` | `ExecutionInv /\ ClaimInv /\ RowsHaveParents` |
| `WorkspaceMutation_proofs` | types, `SuccessIsExact`, `NothingHalfDone`, `OverwrittenIsKept`, `PublishesOneApproved` | `RepoOK /\ ShownOK /\ AtWork /\ Knows` |
| `HandsFree_proofs` | `MicrophoneHasOneOwner`, `ClosedIsQuiet` | `TypeOK /\ Watching /\ OneTurn /\ OneAnswer /\ Silent` |
| `Planning_proofs` | of the review store: types, `TrustIsAuthorized`, `OneTerminalTransition`, `PendingIsKept`, `ReviewsAreOriginal` | `TypeOK /\ Fresh /\ RowsFollow /\ TrustIsAuthorized`; for the last, `TypeOK /\ ReviewsAreOriginal` |
| | `PlanningUsesTheStore` (planning implements the review store), hence `TrustIsAuthorized` of it; `SourcesAreQuoted`, `StepsAreRegistered`, `ChangesAskFirst` of every plan; `PlanIsGrounded` | `Grounded`: what a request has read so far was ranked, quoted and within the limits |

Why the strengthenings are needed:

- *Fresh*: an id that was never issued has no record, row or thread. Without it,
  `Create` could reuse an id that a thread still works on.
- *InFlight*: "at most one caller" is not inductive. `start_step` refuses because
  the step is running in memory, so the invariant has to say that a step in
  flight is running wherever its record is, in memory *and* in the row, since a
  restart copies the row to memory.
- *MemoryAhead, OpeningIdle*: a stored outcome is final because memory is never behind
  it, or the next update of the record, which is computed from memory, would take the
  outcome back. A record created without an executable step is the exception: it may be
  cancelled and is then failed by the request that created it.
- *SameKey, Spent, Granted, HolderConfirmed*: a granted preview must be pending in neither
  place (or a restart would offer it again), and the second claim of a
  step is refused by the unique index only because the first is a row
  under the same step.
- *RowsFollow*: a decision in the rows is a decision in memory, so that a decided
  review is not decided again there. The converse fails after a failed write.
- *OneWorks, Reading, Unapplied*: a confirmation may insert its text only because what it
  read lacks it and is still what the file holds, which needs that no other confirmation
  is at work; and it may mark the proposal applied only because the file has the text,
  while the proposal is applied in neither place yet.
- *RecordsOK*: in memory and in the row alike, a mutation is started once and then never
  pending again, a read is started twice at most (`Sound`), and the adapter was called at
  most as often as the step was started (`Counted`). `EffectOnce` alone says
  nothing of the call to come; the starts bound it, and since the row bounds it too, a
  restart does not forget one.
- *ThreadsOK*: what a thread has been told by the stores holds while it acts on it. From
  `start_step` to `finish_step` its step is running in memory and row; before the call, its
  start is on record and the call is not counted yet; the sources of its input
  have completed in both (`StepOK`); a mutation is reached by a confirmation only, whose
  claim is in both (`ClaimOK`); and no two threads hold one step or one claim (`Apart`).
- *Grounded*: the limits, and that what ranks before a quoted memory was tried first, hold
  of the reading so far, memory by memory, whatever is added or removed meanwhile.
- *ExecutionInv, ClaimInv*: a verification stays true only because a completed record does
  not change any more, and because a row that is behind it still says running of each step
  whose result it lacks, with no thread left to finish or fail it (`Behind`, `Standing`); and while a request still computes, what it is about to write
  is true already (`ClaimInv`), although the record may have been evicted meanwhile.
- *HasParent, Acknowledged*: a candidate's row never outlives its experience's, and what
  memory or row says was decided is what the person was told last. The second makes
  `GuidanceIsApproved` independent of the notes.
- *LinkInv*: an experience has its row and its candidates only after its id was issued, so
  the row of a new experience revives no candidate of an earlier one. This is what the
  store expects of the rest of Core (`ParentsChange`), and why each step of the chain is
  a step of the store or none.
- *ShownOK, AtWork, Knows*: what a preview found out about commits stays true, because
  commits are only added; a job at work holds its lock, so no job that shares it acts
  meanwhile; and an undisturbed job knows, at each place of its window, what the files,
  the index, the branch and the remote are. `RepoOK` says of every commit that its
  history is its parent's and itself; from that follows that a branch exactly one
  commit ahead of the remote has the remote's commit as its tip's parent.
- *OneTurn, OneAnswer*: a turn is asked for, heard and reported one after the other and
  only while the session listens, an answer is spoken only while it speaks, and the two
  generations (the coordinator's and the transcriber's) agree about every start. Without
  them a callback of an earlier turn might be fresh when the session has ended.

The action properties (`DurableOutcome`, `SpentStaysSpent`, `OneTerminalTransition`, `PendingIsKept`,
`CheckedEditsSurvive`, `DecisionIsFinal`, `NoEffectAfterEnd` and `WorkspaceMutation`'s four)
follow from the same invariants, step by step.

Every safety property that a passing run checks is proved. Only model-checked: liveness
(`RequestsEnd`, `LockIsReleased`, `WakeListeningReturns`, `TurnsMoveOn`) and the three
counterexamples of section 4.
The prover handles neither fairness nor
`ENABLED`; nor does it handle induction over data or recursive operators, so
the modules that have theorems use none.

## 6. Not modelled, and why

- Contents: plan texts, digests, previews and Markdown are values that are equal
  or not; parsing and formatting are left out.
- `list` and `get` of executions and previews change nothing and appear only
  where they expire something.
- SQLite's durability, file locking and migrations are taken as the library
  promises: a transaction is all or nothing.
- A step whose adapter was called and whose `finish_step` could not be written
  stays `running`; no code resumes it. The models keep it as it is
  (`CallerLost`), and no property says such a step ends.
- Rewriting of history, deletion of branches and merges by the person: they change
  what a preview showed, as a checkout or a commit does, and are refused by the same
  comparisons.
- Previews of memory, mail and calendar mutations: their contents are one record
  compared for equality, without an adapter that looks again.
- Classification of sentences and formatting of proposals, reasoning over model text,
  memory search, perception, reflection and the executive: functions of their input or
  read-only views.
- Wake events: Core's stream of them to the plugin blocks on a queue without a time limit
  (`native_broker_routes.py:19`), so a lost event leaves it waiting for the next; it is left
  with the plugin's session to a later module.
- Operating-system gateways, user interface, audio and offline tools.

## 7. Plan

The order follows the damage a mistake would do.

1. *Done:* the three stores, their orchestration, planning in front of them, the
   workspace mutations behind them, memory writing, the learning chain and the host's
   voice conversation.
2. *Done:* proofs of every safety property that a passing run checks.
3. `MemoryProposals`: two doors to one proposal (the memory routes and the mutation
   adapter), with the digest of the file that the preview showed.
4. `VoiceSession`: the plugin's conversation session and the request numbers of
   plans; a late answer never replaces a newer one; with the wake events that start it.
5. `GovernedPlan`, an abstract specification (a step is pending, committed to,
   done or failed, with at most one effect), implemented by `Orchestration`.

To check a model: `tlc -workers 2 -config MC_ExecutionStore.cfg MC_ExecutionStore`;
to check a proof: `tlapm ExecutionStore_proofs.tla`.
