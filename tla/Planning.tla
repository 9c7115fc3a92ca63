------------------------------ MODULE Planning ------------------------------
(***************************************************************************)
(* From an instruction to a plan and its review: AgentRouter chooses an    *)
(* agent, AgentContextResolver reads registered memory for it, the agent   *)
(* writes its steps, and AgentPlanReviewService submits them to the store  *)
(* of PlanReview.  A plan is kept nowhere else: what a person approves is  *)
(* what these steps put together.                                          *)
(*                                                                         *)
(* Memory files belong to the user and change at any time, so what a read  *)
(* finds is open: an excerpt, or nothing (the file is gone, unreadable or  *)
(* empty).  An instruction is reduced to what the code recognises in it.   *)
(***************************************************************************)
EXTENDS PlanReview, Sequences

CONSTANTS
  Instructions,  \* the instructions asked, records as in Instruction
  Memories,      \* registered memory objects
  KindOf,        \* memory -> its kind
  PathOrder,     \* memory -> its place by relative path and id
  Hidden,        \* memories under a hidden path, or backups
  Preferred,     \* values of preferred_agent_id, NoAgent when it is left out
  ItemLimits,    \* values of max_context_items
  MaxExcerpt,    \* max_excerpt_chars
  TotalChars,    \* total_context_chars of the resolver
  NoAgent

VARIABLE ask     \* the planning request in progress

planVars == <<mem, db, used, trusted, now, faults, restarts, damage, ask>>

----------------------------------------------------------------------------
(* Instructions and requests *)

Agents == {"calendar", "email", "filesystem", "git", "project", "research"}
Kinds  == {"identity", "projects", "tasks", "decisions", "relationships", "rules", "research",
           "meetings", "reports", "daily", "general", "unknown"}

GitWords == {"add paths", "commit paths", "push", "commit", "diff"}

\* A request for mail: a draft or a look; whether limit, references or details are right;
\* the references that came along.
MailRequest == [draft : BOOLEAN, valid : BOOLEAN, account : BOOLEAN, mailbox : BOOLEAN]

EventRequest ==
  [create : BOOLEAN, missing : SUBSET {"timezone", "date", "time", "duration", "title"}]

\* What signals and patterns find in the words, agent by agent.
Instruction ==
  [hits      : [Agents -> 0..8],    \* routing signals found
   phrases   : SUBSET Agents,       \* agents of which a two-word signal was found
   intent    : Agents \cup {NoAgent},
   related   : SUBSET Memories,     \* rules, daily or general memory that shares its words
   proposal  : BOOLEAN,             \* names an existing memory proposal
   workspace : {"none", "list", "read", "write"},
   git       : SUBSET GitWords,
   file      : {"none", "read", "write", "invalid"},
   mail      : MailRequest,
   event     : EventRequest]

ASSUME InstructionAssumption == Instructions \subseteq Instruction
ASSUME MemoryAssumption ==
  /\ KindOf \in [Memories -> Kinds] /\ PathOrder \in [Memories -> Nat]
  /\ \A m, q \in Memories : PathOrder[m] = PathOrder[q] => m = q
  /\ Hidden \subseteq Memories
ASSUME SizeAssumption ==
  /\ ItemLimits \subseteq Nat \ {0} /\ MaxExcerpt \in Nat \ {0} /\ TotalChars \in Nat \ {0}
ASSUME AgentAssumption == NoAgent \notin Agents /\ Preferred \subseteq Agents \cup {NoAgent}

NoAsk == [pc |-> "none"]

Least(a, b) == IF a <= b THEN a ELSE b
Most(a, b)  == IF a >= b THEN a ELSE b

----------------------------------------------------------------------------
(* Routing *)

Threshold == 40

Priority == [calendar |-> 25, email |-> 25, filesystem |-> 30, git |-> 20, project |-> 10,
             research |-> 30]

\* The registry lists agents by id.
IdOrder == [calendar |-> 1, email |-> 2, filesystem |-> 3, git |-> 4, project |-> 5,
            research |-> 6]

\* can_handle.  The filesystem agent recognises exact requests only.
Score(a, ins) ==
  LET words   == IF ins.hits[a] = 0 THEN 0
                 ELSE (IF a \in ins.phrases THEN 60 ELSE 50) + 10 * (ins.hits[a] - 1)
      intents == IF ins.intent = a THEN Most(words + 15, 70) ELSE words
  IN IF a = "filesystem" THEN (IF ins.workspace = "none" THEN 0 ELSE 100)
     ELSE Least(intents, 100)

\* The order of the ranked matches.
Outranks(a, b, ins) ==
  \/ Score(a, ins) > Score(b, ins)
  \/ /\ Score(a, ins) = Score(b, ins)
     /\ \/ Priority[a] > Priority[b]
        \/ Priority[a] = Priority[b] /\ IdOrder[a] < IdOrder[b]

\* route: the preferred agent if its score suffices, else the first of the ranking.
Routed(ins, preferred) ==
  IF preferred \in Agents /\ Score(preferred, ins) >= Threshold THEN preferred
  ELSE LET best == CHOOSE a \in Agents : \A b \in Agents \ {a} : Outranks(a, b, ins)
       IN IF Score(best, ins) >= Threshold THEN best ELSE NoAgent

----------------------------------------------------------------------------
(* Context *)

\* safe_registered_markdown.
Listed == Memories \ Hidden

MainRank ==
  [calendar   |-> <<>>, email |-> <<>>, filesystem |-> <<>>,
   project    |-> <<"tasks", "projects", "decisions">>,
   git        |-> <<"tasks", "projects", "decisions">>,
   research   |-> <<"projects", "tasks", "decisions">>]

ExtraKinds ==
  [calendar |-> {}, email |-> {}, filesystem |-> {}, project |-> {"rules"},
   git |-> {"daily"}, research |-> {"general", "daily"}]

\* _selection: the rank of a memory for an agent; 0 when it is not selected.
Rank(a, m, ins) ==
  IF \E i \in DOMAIN MainRank[a] : MainRank[a][i] = KindOf[m]
  THEN CHOOSE i \in DOMAIN MainRank[a] : MainRank[a][i] = KindOf[m]
  ELSE IF KindOf[m] \in ExtraKinds[a] /\ m \in ins.related THEN 4 ELSE 0

Eligible(a, ins) == {m \in Listed : Rank(a, m, ins) > 0}

\* Mutant: the memories are read in the order of their paths.
Before_Path(a, m, q, ins) == PathOrder[m] < PathOrder[q]

\* The order of _ranked_memories.
Before(a, m, q, ins) ==
  \/ Rank(a, m, ins) < Rank(a, q, ins)
  \/ Rank(a, m, ins) = Rank(a, q, ins) /\ PathOrder[m] < PathOrder[q]

\* The memories whose excerpt went into the context.
References(read) == {m \in DOMAIN read : read[m] > 0}

OfKind(refs, kinds) == {m \in refs : KindOf[m] \in kinds}

----------------------------------------------------------------------------
(* Plans: the steps that each agent writes *)

\* A step: its tool operation, the memories it names as sources, requires_confirmation.
Step(op, sources, asks) == [op |-> op, sources |-> sources, asks |-> asks]

ProjectSteps(ins, refs) ==
  <<Step("memory.read", OfKind(refs, {"tasks"}), FALSE),
    Step("memory.read", OfKind(refs, {"projects"}), FALSE),
    Step("memory.read", refs, FALSE),
    Step("memory.read", refs, FALSE),
    Step(IF ins.proposal THEN "memory.confirm_proposal" ELSE "memory.create_proposal",
         OfKind(refs, {"tasks"}), TRUE)>>

ResearchSteps(refs) ==
  <<Step("memory.read", {}, FALSE),
    Step("memory.read", OfKind(refs, {"projects", "tasks", "decisions"}), FALSE),
    Step("memory.read", refs, FALSE),
    Step("memory.read", {}, FALSE),
    Step("memory.read", refs, FALSE)>>

\* What the third step of the git recipe does with a file that the instruction names.
FileOperation ==
  [none |-> "git.diff", read |-> "filesystem.read_file", write |-> "filesystem.write_text_file"]

\* requested_git_operation: only exact paths are staged or committed; a push, or a commit
\* without paths, comes down to a status.
GitOperation(ins) ==
  IF "add paths" \in ins.git THEN "git.add"
  ELSE IF "commit paths" \in ins.git THEN "git.commit"
  ELSE IF "diff" \in ins.git /\ ins.git \cap {"push", "commit"} = {} THEN "git.diff"
  ELSE "git.status"

\* The recipe git.inspect_repository.  Its write step does not ask, although the
\* registry lists the operation as a mutation; the runtime previews it all the same.
GitSteps(ins, refs) ==
  LET sources == OfKind(refs, {"projects", "tasks"})
  IN <<Step("filesystem.list_directory", sources, FALSE),
       Step("git.status", {}, FALSE),
       Step(FileOperation[ins.file], {}, FALSE),
       Step(GitOperation(ins), sources, GitOperation(ins) \in {"git.add", "git.commit"})>>

FilesystemSteps(ins) ==
  CASE ins.workspace = "write" -> <<Step("filesystem.write_text_file", {}, TRUE)>>
    [] ins.workspace = "read"  -> <<Step("filesystem.read_file", {}, FALSE)>>
    [] OTHER                   -> <<Step("filesystem.list_directory", {}, FALSE)>>

\* resolve_email_inbox, resolve_email_draft: without a mailbox the mailboxes are listed,
\* without an account the accounts.
MailOperation(ins) ==
  IF ins.mail.draft THEN "email.draft"
  ELSE IF ins.mail.mailbox THEN "email.list_messages"
  ELSE IF ins.mail.account THEN "email.list_mailboxes" ELSE "email.list_accounts"

EmailSteps(ins) ==
  IF ins.mail.valid THEN <<Step(MailOperation(ins), {}, ins.mail.draft)>> ELSE <<>>

\* resolve_calendar_request: a day to inspect, or the time and length of a new event.
RangeKnown(ins) ==
  ins.event.missing \subseteq (IF ins.event.create THEN {"title"} ELSE {"time", "duration", "title"})

\* An event is created only after a look at its range.
CalendarSteps(ins) ==
  (IF RangeKnown(ins) THEN <<Step("calendar.list_events", {}, FALSE)>> ELSE <<>>)
  \o (IF ins.event.create /\ ins.event.missing = {}
      THEN <<Step("calendar.create_event", {}, TRUE)>> ELSE <<>>)

Steps(a, ins, refs) ==
  CASE a = "project"    -> ProjectSteps(ins, refs)
    [] a = "research"   -> ResearchSteps(refs)
    [] a = "git"        -> GitSteps(ins, refs)
    [] a = "filesystem" -> FilesystemSteps(ins)
    [] a = "email"      -> EmailSteps(ins)
    [] a = "calendar"   -> CalendarSteps(ins)

(* What the tool registry says of the operations that plans may name. *)

Mutating ==
  {"memory.create_proposal", "memory.confirm_proposal", "filesystem.write_text_file",
   "git.add", "git.commit", "git.push", "email.draft", "calendar.create_event"}

Runnable ==
  Mutating \cup
  {"filesystem.read_file", "filesystem.list_directory", "git.status", "email.list_accounts",
   "email.list_mailboxes", "email.list_messages", "calendar.list_events"}

\* Enabled, but without leave for the runtime: such a step is read by a person only.
Enabled == Runnable \cup {"memory.read", "memory.search", "git.diff", "email.send"}

\* evaluate_plan_readiness; the preflight of an adapter may refuse an operation.
Ready(steps, refused) ==
  steps # <<>> /\ \A i \in DOMAIN steps : steps[i].op \in Enabled \ refused

----------------------------------------------------------------------------
(* Actions *)

PlanInit == Init /\ ask = NoAsk

\* AgentPlanningService.plan begins.  Without an agent, and at the endpoint of one agent
\* when another is chosen, the request is refused and leaves nothing.
Ask(goal, ins, preferred, items, include) ==
  LET agent == Routed(ins, preferred)
  IN /\ ask.pc = "none"
     /\ agent # NoAgent
     /\ goal = "explicit" => agent = preferred
     /\ ask' = [pc |-> IF include THEN "reading" ELSE "read", review |-> goal = "review",
                agent |-> agent, ins |-> ins, items |-> items, read |-> <<>>, chars |-> 0]
     /\ UNCHANGED vars

Unread == Eligible(ask.agent, ask.ins) \ DOMAIN ask.read

Full == Cardinality(References(ask.read)) >= ask.items \/ ask.chars >= TotalChars

\* One round of the loop in resolve: the next memory in the ranking gives an excerpt of
\* size characters, or 0 when it cannot be read or holds nothing.
ReadSource(m, size) ==
  /\ ask.pc = "reading"
  /\ ~Full
  /\ m \in Unread
  /\ \A q \in Unread \ {m} : Before(ask.agent, m, q, ask.ins)
  /\ size <= Least(MaxExcerpt, TotalChars - ask.chars)
  /\ ask' = [ask EXCEPT !.read = [q \in DOMAIN @ \cup {m} |-> IF q = m THEN size ELSE @[q]],
                        !.chars = @ + size]
  /\ UNCHANGED vars

EndReading ==
  /\ ask.pc = "reading"
  /\ Full \/ Unread = {}
  /\ ask' = [ask EXCEPT !.pc = "read"]
  /\ UNCHANGED vars

\* A path that leaves the workspace makes the git agent's plan raise.
CanPlan(a, ins) == a = "git" => ins.file # "invalid"

\* The steps of the plan in the answer or in the review.
Plan == Steps(ask.agent, ask.ins, References(ask.read))

\* The endpoints that only plan: the plan goes out with the answer.
AnswerPlan ==
  /\ ask.pc = "read"
  /\ ~ask.review \/ ~CanPlan(ask.agent, ask.ins)
  /\ ask' = NoAsk
  /\ UNCHANGED vars

\* AgentPlanReviewService.create, with the plan at hand.
ReviewPlan(r, ttl, ok) ==
  /\ ask.pc = "read" /\ ask.review /\ CanPlan(ask.agent, ask.ins)
  /\ Create(r, ttl, ok)
  /\ ask' = NoAsk

ReviewRefused ==
  /\ ask.pc = "read" /\ ask.review /\ CanPlan(ask.agent, ask.ins)
  /\ CreateRefused
  /\ ask' = NoAsk

\* The routes approve, reject and cancel: a decision, or a conflict when it comes late.
DecisionRequest(r, target, ok) == Decide(r, target, ok) \/ DecideLate(r)

PlanRestart == Restart /\ ask' = NoAsk

PlanNext ==
  \/ \E goal \in {"plan", "explicit", "review"}, ins \in Instructions,
        preferred \in Preferred, items \in ItemLimits, include \in BOOLEAN :
       Ask(goal, ins, preferred, items, include)
  \/ \E m \in Memories, size \in 0..MaxExcerpt : ReadSource(m, size)
  \/ EndReading
  \/ AnswerPlan
  \/ \E r \in Reviews, ttl \in TTLs, ok \in BOOLEAN : ReviewPlan(r, ttl, ok)
  \/ ReviewRefused
  \/ /\ \/ \E seen \in SUBSET Reviews, ok \in BOOLEAN : Look(seen, ok)
        \/ \E r \in Reviews, target \in Decisions, ok \in BOOLEAN : DecisionRequest(r, target, ok)
        \/ \E r \in Reviews : Validate(r) \/ EndOfUse(r) \/ Damage(r)
        \/ Tick
     /\ UNCHANGED ask
  \/ PlanRestart

PlanSpec == PlanInit /\ [][PlanNext]_planVars

----------------------------------------------------------------------------
(* Properties *)

Chosen == ask.pc # "none"

\* A plan is grounded in the memory that matters most.  While files come and go between
\* the reads, no memory outside the agent's selection is quoted, what ranks before a
\* quoted memory was tried first, nothing readable is left out while there was room,
\* and the steps name only memories that were quoted.
PlanIsGrounded ==
  Chosen =>
    LET refs == References(ask.read)
    IN /\ refs \subseteq Eligible(ask.agent, ask.ins)
       /\ Cardinality(refs) <= ask.items /\ ask.chars <= TotalChars
       /\ \A m \in refs, q \in Eligible(ask.agent, ask.ins) :
            Rank(ask.agent, q, ask.ins) < Rank(ask.agent, m, ask.ins) => q \in DOMAIN ask.read
       /\ ask.pc = "read" /\ ask.read # <<>> => Unread = {} \/ Full
       /\ ask.pc = "read" /\ CanPlan(ask.agent, ask.ins) =>
            \A i \in DOMAIN Plan : Plan[i].sources \subseteq refs

=============================================================================
