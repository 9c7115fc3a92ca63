------------------------- MODULE WorkspaceMutation -------------------------
(***************************************************************************)
(* From a confirmed preview to its effect on the workspace: writing a text *)
(* file, git add, git commit and git push, each as the adapter does it:    *)
(* compare, keep a copy, act, look again, and put back what went wrong.    *)
(*                                                                         *)
(* The person works in the same files and the same repository with other   *)
(* programs, at any moment between two of Cauco's steps.  The adapters of  *)
(* git share a lock; the file adapter has a lock of its own, so a file may *)
(* be written while git runs.                                              *)
(*                                                                         *)
(* A job is one mutation from its preview to its outcome.  That it is      *)
(* confirmed and executed once is the matter of PreviewStore,              *)
(* ExecutionStore and Orchestration.                                       *)
(***************************************************************************)
EXTENDS Integers, Sequences, Functions

CONSTANTS
  Paths, Contents,  \* the files of the workspace and the texts they may hold
  Absent,           \* the content of a file that is not there
  AsText,           \* AsText[c]: c as Python reads it in text mode, line ends made LF
  Printed,          \* Printed[p]: the name of p in an answer of git without -z
  FirstTrees,       \* the trees the first commit may have
  Main, Side,       \* local branches; Main has a counterpart at the remote
  Jobs,             \* the mutations in progress
  Nobody,           \* the holder of a free lock
  Approved,         \* the approved steps of this instance
  MaxBackups,       \* copies kept of each file
  MaxEdits,         \* bound: what other programs do
  MaxCommits        \* bound: commits

ASSUME MaxBackupsAssumption == MaxBackups \in Nat \ {0}
ASSUME BranchesAssumption == Main # Side
ASSUME AbsentAssumption == Absent \notin Contents
ASSUME NobodyAssumption == Nobody \notin Jobs
ASSUME AsTextAssumption == AsText \in [Contents -> Contents]
\* A name outside ASCII is quoted, and is then no path of the workspace.
ASSUME PrintedAssumption ==
  DOMAIN Printed = Paths /\ \A p \in Paths : Printed[p] = p \/ Printed[p] \notin Paths

VARIABLES
  work,     \* work[p]: the file in the worktree
  index,    \* index[p]: the entry in git's index
  commits,  \* all commits anywhere, with their trees, parents and histories, oldest first
  heads,    \* heads[b]: the tip of a local branch, 0 before its first commit
  branch,   \* the branch that is checked out
  remote,   \* the tip of Main at the remote, 0 if it has no such branch
  bak,      \* bak[p]: the slots of .cauco-backups, newest first
  job,      \* what each job has shown, read and done
  gitLock, fsLock,  \* who holds the locks of the adapters
  edits     \* what other programs have done so far

repo == <<work, index, commits, heads, branch, remote>>
vars == <<repo, bak, job, gitLock, fsLock, edits>>

Kinds    == {"write", "add", "commit", "push"}
Branches == {Main, Side}
Slots    == 1..MaxBackups
Trees    == [Paths -> Contents \cup {Absent}]
\* commit: the paths expected in the index; write: one path and its new content.
PlanStep == [kind : Kinds, paths : SUBSET Paths, content : Contents \cup {Absent}]

ASSUME FirstTreesAssumption == FirstTrees \subseteq Trees
ASSUME ApprovedAssumption ==
  /\ Approved \subseteq PlanStep
  /\ \A s \in Approved : s.kind = "write" =>
       (\E p \in Paths : s.paths = {p}) /\ s.content \in Contents

----------------------------------------------------------------------------
(* What git answers *)

\* The tree of a commit, and it with all those it descends from; 0 is no commit.
TreeOf(c)  == IF c = 0 THEN [p \in Paths |-> Absent] ELSE commits[c].tree
History(c) == IF c = 0 THEN {} ELSE commits[c].past

Tip      == heads[branch]
HeadTree == TreeOf(Tip)

\* git diff takes deleted paths and added ones with like texts (here: the same but for
\* line ends) for renames, as many as can be paired; it names the new path only.
Renamed(tree, entries) ==
  LET gone  == {p \in Paths : tree[p] # Absent /\ entries[p] = Absent}
      added == {p \in Paths : tree[p] = Absent /\ entries[p] # Absent}
      CanPair(set) == \E new \in Injection(set, added) :
                        \A p \in set : AsText[tree[p]] = AsText[entries[new[p]]]
  IN CHOOSE set \in SUBSET gone :
       CanPair(set) /\ \A p \in gone \ set : ~CanPair(set \cup {p})

Differing(tree, entries) == {p \in Paths : entries[p] # tree[p]}

\* git diff --cached --name-only -z
StagedNames(tree, entries) == Differing(tree, entries) \ Renamed(tree, entries)
StagedPaths == StagedNames(HeadTree, index)

\* git rev-list remote..head
Outgoing == History(Tip) \ History(remote)

----------------------------------------------------------------------------
(* What a preview shows, and whether it still holds *)

Snapshot == [work |-> work, index |-> index, tree |-> HeadTree, tip |-> Tip,
             main |-> heads[Main], branch |-> branch, remote |-> remote]

\* resolve_target and the overwrite policy: create_only and replace_existing are
\* both allowed, the one that fits the file at the time of the preview.
CanWrite(s) == s.kind = "write"

\* inspect: regular files with an unstaged change and none staged.
CanAdd(s) ==
  /\ s.kind = "add"
  /\ s.paths # {}
  /\ \A p \in s.paths : work[p] # Absent /\ index[p] = HeadTree[p] /\ work[p] # index[p]

\* inspect_commit: also before the first commit, but not for a staged deletion, whose
\* text cannot be shown.
CanCommit(s) ==
  /\ s.kind = "commit"
  /\ StagedPaths # {} /\ StagedPaths = s.paths
  /\ \A p \in s.paths : index[p] # Absent

\* Mutant: whatever descends from the remote's commit may be published.
CanPush_AnyAhead(s) ==
  s.kind = "push" /\ branch = Main /\ StagedPaths = {} /\ remote \in History(Tip) \ {Tip}

\* inspect_push; on another branch than Main the remote branch is absent.
CanPush(s) ==
  /\ s.kind = "push"
  /\ branch = Main
  /\ StagedPaths = {}
  /\ remote # Tip
  /\ remote \in History(Tip)
  /\ Outgoing = {Tip}

Inspected(s) == CanWrite(s) \/ CanAdd(s) \/ CanCommit(s) \/ CanPush(s)

\* The part of the workspace w that a step is about.  (The staged state of git add is
\* the difference of index and HEAD's tree; both together say as much as that and
\* the index.)
Concern(s, w) ==
  LET files == [p \in s.paths |-> w.work[p]]
  IN CASE s.kind = "write"  -> <<files>>
       [] s.kind = "add"    -> <<files, w.index, w.tree>>
       [] s.kind = "commit" -> <<w.index, w.tip, w.branch>>
       [] s.kind = "push"   -> <<w.index, w.main, w.branch, w.remote>>

\* Mutant: git add compares the index and not the files.
StillShown_IndexOnly(s, shown) ==
  IF s.kind = "add" THEN shown.index = index /\ shown.tree = HeadTree
  ELSE Concern(s, shown) = Concern(s, Snapshot)

\* The comparisons of verify_preview, verify_commit_preview, verify_push_preview
\* and of the digest in _write, made by the service before the claim and by the
\* adapter under its lock.
StillShown(s, shown) == Concern(s, shown) = Concern(s, Snapshot)

----------------------------------------------------------------------------
(* Jobs *)

\* Between the adapter's comparison and its last look at the result.
Window == {"checked", "copied", "ran", "erred"}
\* How a job may end: stale before its start, then success; mismatch, the error
\* verification_failed; or failed, any other error.
\* What may go wrong as it ends: a read of git about the result fails or times out, or
\* the index could not be put back (recovery_succeeded is false, or not set).
Troubles == {"unread", "unrestored"}

NoStep == [kind |-> "write", paths |-> {}, content |-> Absent]
NoJob  == [pc |-> "idle", step |-> NoStep, shown |-> <<>>, seen |-> <<>>, trouble |-> {},
           touched |-> FALSE]

\* History variable touched: somebody whom the job's lock does not keep out changed
\* what the job is about while its adapter was at work.
Disturb(j) ==
  LET s == job[j].step
  IN [job[j] EXCEPT !.touched =
        @ \/ (job[j].pc \in Window /\ Concern(s, Snapshot') # Concern(s, Snapshot))]

\* Jobs that use the same lock count on it: they are no disturbance to each other.
SameLock(j, k) == (job[j].step.kind = "write") = (job[k].step.kind = "write")

\* Job j does a step; the others may be disturbed by it.
Advance(j, new) ==
  job' = [k \in Jobs |-> IF k = j THEN new ELSE IF SameLock(j, k) THEN job[k] ELSE Disturb(k)]
To(j, pc)       == [job[j] EXCEPT !.pc = pc]

\* A job that has ended keeps what the properties need and forgets the rest.
FinishIn(j, outcome, trouble) ==
  /\ Advance(j, [To(j, outcome) EXCEPT !.seen = <<>>, !.trouble = trouble])
  /\ gitLock' = IF gitLock = j THEN Nobody ELSE gitLock
  /\ fsLock' = IF fsLock = j THEN Nobody ELSE fsLock
Finish(j, outcome) == FinishIn(j, outcome, {})

\* A repository without a commit, with one that is published, or with another on top.
Init ==
  /\ work \in Trees
  /\ \E base \in FirstTrees :
       LET first  == [tree |-> base, parent |-> 0, past |-> {1}]
           second == [tree |-> work, parent |-> 1, past |-> {1, 2}]
       IN commits \in {<<>>, <<first>>, <<first, second>>}
  /\ remote = IF commits = <<>> THEN 0 ELSE 1
  /\ heads = [b \in Branches |-> IF b = Main THEN Len(commits) ELSE remote]
  /\ branch = Main
  /\ index = HeadTree
  /\ bak = [p \in Paths |-> [k \in Slots |-> Absent]]
  /\ job = [j \in Jobs |-> NoJob]
  /\ gitLock = Nobody /\ fsLock = Nobody
  /\ edits = 0

----------------------------------------------------------------------------
(* The mutation service *)

\* create_preview, for an approved step
Prepare(j, s) ==
  /\ job[j].pc = "idle"
  /\ Inspected(s)
  /\ UNCHANGED <<repo, bak, gitLock, fsLock, edits>>
  /\ Advance(j, [job[j] EXCEPT !.pc = "previewed", !.step = s, !.shown = Snapshot])

\* confirm up to the claim and start_step: _verify_before_state, or _stale.
Confirm(j) ==
  /\ job[j].pc = "previewed"
  /\ UNCHANGED <<repo, bak, gitLock, fsLock, edits>>
  /\ Advance(j, To(j, IF StillShown(job[j].step, job[j].shown) THEN "claimed" ELSE "stale"))

TakeLock(j) ==
  IF job[j].step.kind = "write" THEN /\ fsLock = Nobody
                                     /\ fsLock' = j
                                     /\ UNCHANGED gitLock
  ELSE /\ gitLock = Nobody
       /\ gitLock' = j
       /\ UNCHANGED fsLock

\* execute: take the lock and compare once more; what no longer holds, or cannot be
\* compared for an error of git, is refused.
Begin(j) ==
  /\ job[j].pc = "claimed"
  /\ TakeLock(j)
  /\ StillShown(job[j].step, job[j].shown)
  /\ UNCHANGED <<repo, bak, edits>>
  /\ Advance(j, To(j, "checked"))

BeginRefused(j) ==
  /\ job[j].pc = "claimed"
  /\ IF job[j].step.kind = "write" THEN fsLock = Nobody ELSE gitLock = Nobody
  /\ UNCHANGED <<repo, bak, edits>>
  /\ Finish(j, "failed")

----------------------------------------------------------------------------
(* FilesystemTextMutationAdapter._write *)

Kind(j)   == job[j].step.kind
Target(j) == CHOOSE p \in job[j].step.paths : TRUE

\* The slots after those from MaxBackups down to k have received the slot before them; an
\* empty slot is not moved, so the last one keeps its text if there is none for it.
Shifted(slots, k) ==
  [i \in Slots |-> IF i >= k THEN IF i = MaxBackups /\ slots[i - 1] = Absent THEN slots[i]
                                  ELSE slots[i - 1]
                   ELSE IF i = k - 1 /\ k <= MaxBackups THEN Absent ELSE slots[i]]

\* Mutant: a copy that is there already is kept.
Rotated_KeepFirst(slots, content) ==
  IF slots[1] = Absent THEN [slots EXCEPT ![1] = content] ELSE slots

\* All slots are moved, the new copy goes into the first.
Rotated(slots, content) == [Shifted(slots, 2) EXCEPT ![1] = content]

\* The text that was compared is copied to .cauco-backups.
CopyFile(j) ==
  /\ job[j].pc = "checked" /\ Kind(j) = "write"
  /\ LET p == Target(j) IN
     /\ job[j].shown.work[p] # Absent
     /\ bak' = [bak EXCEPT ![p] = Rotated(@, job[j].shown.work[p])]
  /\ UNCHANGED <<repo, gitLock, fsLock, edits>>
  /\ Advance(j, To(j, "copied"))

\* The disk refuses the temporary file, the move of a slot, the copy or its directory.
WriteFails(j) ==
  LET p == Target(j) IN
  /\ job[j].pc \in {"checked", "copied"} /\ Kind(j) = "write"
  /\ IF job[j].pc = "checked" /\ job[j].shown.work[p] # Absent
     THEN \E k \in 2..(MaxBackups + 1) : bak' = [bak EXCEPT ![p] = Shifted(@, k)]
     ELSE UNCHANGED bak
  /\ UNCHANGED <<repo, edits>>
  /\ Finish(j, "failed")

\* os.replace, whatever is there by now.  Syncing the directory may fail afterwards.
ReplaceFile(j) ==
  /\ job[j].pc = "copied" /\ Kind(j) = "write"
  /\ work' = [work EXCEPT ![Target(j)] = job[j].step.content]
  /\ UNCHANGED <<index, commits, heads, branch, remote, bak, edits>>
  /\ \/ Advance(j, To(j, "ran")) /\ UNCHANGED <<gitLock, fsLock>>
     \/ Finish(j, "failed")

\* os.link for a new file: refused when somebody else has created it.
LinkFile(j) ==
  /\ job[j].pc = "checked" /\ Kind(j) = "write"
  /\ job[j].shown.work[Target(j)] = Absent
  /\ UNCHANGED <<index, commits, heads, branch, remote, bak, edits>>
  /\ \/ /\ work[Target(j)] # Absent
        /\ UNCHANGED work
        /\ Finish(j, "failed")
     \/ /\ work[Target(j)] = Absent
        /\ work' = [work EXCEPT ![Target(j)] = job[j].step.content]
        /\ \/ Advance(j, To(j, "ran")) /\ UNCHANGED <<gitLock, fsLock>>
           \/ Finish(j, "failed")

\* The file is read back.  A file that cannot be read is a failure; another text is
\* replaced by the copy, which leaves its slot, or removed if the file was new.
ReadBack(j) ==
  LET p == Target(j) IN
  /\ job[j].pc = "ran" /\ Kind(j) = "write"
  /\ UNCHANGED <<index, commits, heads, branch, remote, edits>>
  /\ \/ work[p] = job[j].step.content /\ UNCHANGED <<work, bak>> /\ Finish(j, "success")
     \/ UNCHANGED <<work, bak>> /\ Finish(j, "failed")
     \/ /\ work[p] \notin {job[j].step.content, Absent}
        /\ IF job[j].shown.work[p] = Absent
           THEN work' = [work EXCEPT ![p] = Absent] /\ UNCHANGED bak
           ELSE /\ work' = [work EXCEPT ![p] = bak[p][1]]
                /\ bak' = [bak EXCEPT ![p][1] = Absent]
        /\ Finish(j, "mismatch") \/ Finish(j, "failed")

----------------------------------------------------------------------------
(* GitAddAdapter.execute *)

\* What the comparison after git add needs, and the copy of the index.  The files'
\* digests are taken here, after the preview was compared; one that has gone is refused.
CopyIndex(j) ==
  /\ job[j].pc = "checked" /\ Kind(j) = "add"
  /\ \A p \in job[j].step.paths : work[p] # Absent
  /\ UNCHANGED <<repo, bak, gitLock, fsLock, edits>>
  /\ Advance(j, [To(j, "copied") EXCEPT !.seen = Snapshot])

CopyIndexFails(j) ==
  /\ job[j].pc = "checked" /\ Kind(j) = "add"
  /\ UNCHANGED <<repo, bak, edits>>
  /\ Finish(j, "failed")

\* A git command ran into an error, or into its time limit, without an effect.
CommandFails(j) ==
  /\ job[j].pc = (IF Kind(j) = "add" THEN "copied" ELSE "checked")
  /\ Kind(j) # "write"
  /\ UNCHANGED <<repo, bak, gitLock, fsLock, edits>>
  /\ Advance(j, To(j, "erred"))

\* git add -- <paths>; a file that has gone is staged as a deletion if git knows it,
\* and is an error otherwise.  With answered = FALSE the time limit cuts the answer off.
GitAdd(j, answered) ==
  /\ job[j].pc = "copied" /\ Kind(j) = "add"
  /\ \A p \in job[j].step.paths : work[p] # Absent \/ index[p] # Absent
  /\ index' = [p \in Paths |-> IF p \in job[j].step.paths THEN work[p] ELSE index[p]]
  /\ UNCHANGED <<work, commits, heads, branch, remote, bak, gitLock, fsLock, edits>>
  /\ Advance(j, To(j, IF answered THEN "ran" ELSE "erred"))

\* The checks after git add: the staged names grew by the approved paths, the staged
\* text, read in text mode, is the file's, and the files are as before the command.
Staged(j) ==
  LET paths == job[j].step.paths
      seen  == job[j].seen
  IN /\ job[j].pc = "ran"
     /\ StagedPaths = StagedNames(seen.tree, seen.index) \cup paths
     /\ \A p \in paths :
          /\ index[p] # Absent /\ work[p] = AsText[index[p]]
          /\ work[p] = seen.work[p]

\* Mutant: after an error of git add the index is not put back.
CheckAdd_ErrorsKept(j, answered) ==
  /\ job[j].pc \in {"ran", "erred"} /\ Kind(j) = "add"
  /\ UNCHANGED <<work, commits, heads, branch, remote, bak, edits>>
  /\ IF Staged(j) /\ answered THEN UNCHANGED index /\ Finish(j, "success")
     ELSE IF job[j].pc = "erred" THEN UNCHANGED index /\ Finish(j, "failed")
     ELSE index' = job[j].seen.index /\ Finish(j, "mismatch")

\* Anything else: the index is put back from the copy, unless the disk refuses (a copy
\* that breaks off half-way leaves an index git cannot read, which is not modelled).
CheckAdd(j, answered) ==
  /\ job[j].pc \in {"ran", "erred"} /\ Kind(j) = "add"
  /\ UNCHANGED <<work, commits, heads, branch, remote, bak, edits>>
  /\ \/ answered /\ Staged(j) /\ UNCHANGED index /\ Finish(j, "success")
     \/ /\ ~(answered /\ Staged(j))
        /\ \E restored \in BOOLEAN, outcome \in {"mismatch", "failed"} :
             /\ outcome = "mismatch" => job[j].pc = "ran"
             /\ outcome = "failed" => \/ job[j].pc = "erred" \/ ~answered
                                     \/ \E p \in job[j].step.paths : work[p] = Absent
             /\ index' = IF restored THEN job[j].seen.index ELSE index
             /\ FinishIn(j, outcome, (IF answered THEN {} ELSE {"unread"})
                                     \cup (IF restored THEN {} ELSE {"unrestored"}))

----------------------------------------------------------------------------
(* GitCommitAdapter.execute *)

\* What git records: a commit knows its parent, and so all that it descends from.
Record(tree, parent) ==
  Append(commits, [tree |-> tree, parent |-> parent,
                   past |-> History(parent) \cup {Len(commits) + 1}])

\* git commit: the index as it is, on the branch that is checked out.
GitCommit(j, answered) ==
  /\ job[j].pc = "checked" /\ Kind(j) = "commit"
  /\ index # HeadTree
  /\ Len(commits) < MaxCommits
  /\ commits' = Record(index, Tip)
  /\ heads' = [heads EXCEPT ![branch] = Len(commits) + 1]
  /\ UNCHANGED <<work, index, branch, remote, bak, gitLock, fsLock, edits>>
  /\ Advance(j, To(j, IF answered THEN "ran" ELSE "erred"))

\* git diff-tree --name-only: nothing for a commit without a parent; no renames, and
\* names as git prints them.
ChangedPaths(c) ==
  LET parent == commits[c].parent
  IN IF parent = 0 THEN {}
     ELSE {Printed[p] : p \in Differing(commits[parent].tree, commits[c].tree)}

Committed(j) ==
  /\ Tip # job[j].shown.tip
  /\ TreeOf(Tip) = job[j].shown.index
  /\ ChangedPaths(Tip) = job[j].step.paths

\* _verify_commit, three questions to git: a time-out is a failure, an error of git an
\* answer that does not match.  After an error of git commit only
\* head_changed_despite_error is set, which nobody reads.
CheckCommit(j, answered) ==
  /\ job[j].pc \in {"ran", "erred"} /\ Kind(j) = "commit"
  /\ UNCHANGED <<repo, bak, edits>>
  /\ IF job[j].pc = "erred" THEN Finish(j, "failed")
     ELSE IF answered THEN Finish(j, IF Committed(j) THEN "success" ELSE "mismatch")
     ELSE FinishIn(j, "failed", {"unread"}) \/ FinishIn(j, "mismatch", {"unread"})

----------------------------------------------------------------------------
(* GitPushAdapter.execute *)

\* git push refs/heads/main:refs/heads/main without force: the tip of the branch as
\* it is now, if that is ahead of the remote; otherwise it is rejected.  The
\* connection may break when the remote has moved: git reports an error, or the time
\* limit ends the wait.
GitPush(j, answer) ==
  /\ job[j].pc = "checked" /\ Kind(j) = "push"
  /\ remote \in History(heads[Main])
  /\ remote' = heads[Main]
  /\ UNCHANGED <<work, index, commits, heads, branch, bak, edits>>
  /\ \/ answer \in {"ran", "erred"} /\ Advance(j, To(j, answer)) /\ UNCHANGED <<gitLock, fsLock>>
     \/ answer = "rejected" /\ Finish(j, "failed")

GitPushRejected(j) ==
  /\ job[j].pc = "checked" /\ Kind(j) = "push"
  /\ remote \notin History(heads[Main])
  /\ UNCHANGED <<repo, bak, edits>>
  /\ Finish(j, "failed")

\* _remote_head is asked for the approved commit, and may not answer.  After a time-out of
\* git push only remote_updated_despite_error is set, which nobody reads.
CheckPush(j, answered) ==
  /\ job[j].pc \in {"ran", "erred"} /\ Kind(j) = "push"
  /\ UNCHANGED <<repo, bak, edits>>
  /\ IF job[j].pc = "erred" THEN Finish(j, "failed")
     ELSE IF answered
     THEN Finish(j, IF remote = job[j].shown.tip THEN "success" ELSE "mismatch")
     ELSE FinishIn(j, "failed", {"unread"})

----------------------------------------------------------------------------
(* Other programs: the person's editor and git, a hook that git commit runs (the *)
(* adapter allows hooks for this command only), a colleague who pushes           *)

Others ==
  /\ edits < MaxEdits
  /\ edits' = edits + 1
  /\ UNCHANGED <<bak, gitLock, fsLock>>
  /\ job' = [j \in Jobs |-> Disturb(j)]

OthersEdit(p, c) ==
  /\ work[p] # c
  /\ work' = [work EXCEPT ![p] = c]
  /\ UNCHANGED <<index, commits, heads, branch, remote>>
  /\ Others

OthersStage(p) ==
  /\ work[p] # index[p]
  /\ index' = [index EXCEPT ![p] = work[p]]
  /\ UNCHANGED <<work, commits, heads, branch, remote>>
  /\ Others

OthersCommit ==
  /\ index # HeadTree
  /\ Len(commits) < MaxCommits
  /\ commits' = Record(index, Tip)
  /\ heads' = [heads EXCEPT ![branch] = Len(commits) + 1]
  /\ UNCHANGED <<work, index, branch, remote>>
  /\ Others

\* git checkout keeps local changes of files that do not differ between the commits
\* and refuses when others do.
OthersCheckout(b) ==
  LET tree   == TreeOf(heads[b])
      differ == Differing(HeadTree, tree)
  IN /\ b # branch /\ heads[b] # 0
     /\ \A p \in differ : work[p] = HeadTree[p] /\ index[p] = HeadTree[p]
     /\ work' = [p \in Paths |-> IF p \in differ THEN tree[p] ELSE work[p]]
     /\ index' = [p \in Paths |-> IF p \in differ THEN tree[p] ELSE index[p]]
     /\ branch' = b
     /\ UNCHANGED <<commits, heads, remote>>
     /\ Others

OthersPush ==
  /\ Len(commits) < MaxCommits
  /\ commits' = Record(TreeOf(remote), remote)
  /\ remote' = Len(commits) + 1
  /\ UNCHANGED <<work, index, heads, branch>>
  /\ Others

----------------------------------------------------------------------------

JobStep(j) ==
  \/ \E s \in Approved : Prepare(j, s)
  \/ Confirm(j) \/ Begin(j) \/ BeginRefused(j)
  \/ CopyFile(j) \/ WriteFails(j) \/ ReplaceFile(j) \/ LinkFile(j) \/ ReadBack(j)
  \/ CopyIndex(j) \/ CopyIndexFails(j) \/ CommandFails(j)
  \/ \E answered \in BOOLEAN :
       \/ GitAdd(j, answered) \/ CheckAdd(j, answered)
       \/ GitCommit(j, answered) \/ CheckCommit(j, answered) \/ CheckPush(j, answered)
  \/ \E answer \in {"ran", "erred", "rejected"} : GitPush(j, answer)
  \/ GitPushRejected(j)

OthersStep ==
  \/ \E p \in Paths, c \in Contents \cup {Absent} : OthersEdit(p, c)
  \/ \E p \in Paths : OthersStage(p)
  \/ OthersCommit
  \/ \E b \in Branches : OthersCheckout(b)
  \/ OthersPush

Next == (\E j \in Jobs : JobStep(j)) \/ OthersStep

Spec == Init /\ [][Next]_vars

----------------------------------------------------------------------------
(* Properties *)

Ends(j, outcomes) == job[j].pc \notin outcomes /\ job'[j].pc \in outcomes

\* What the job is about is as its preview showed it.
AsShown(j) == Concern(job[j].step, job[j].shown) = Concern(job[j].step, Snapshot)

\* The index that git add is to produce.
ToBeStaged(j) ==
  LET shown == job[j].shown
  IN [p \in Paths |-> IF p \in job[j].step.paths THEN shown.work[p] ELSE shown.index[p]]

\* The workspace after the effect that the preview announced.
Announced(j) ==
  LET s == job[j].step
      shown == job[j].shown
  IN /\ s.kind = "write" => work[Target(j)] = s.content
     /\ s.kind = "add" => index = ToBeStaged(j)
     /\ s.kind = "commit" =>
          /\ branch = shown.branch
          /\ Tip # 0 /\ commits[Tip].tree = shown.index /\ commits[Tip].parent = shown.tip
     /\ s.kind = "push" => remote = shown.tip

\* A mutation reports success only when the workspace is what its preview announced:
\* the file holds the text, the index gained exactly the shown texts, the branch one
\* commit of the shown tree on the shown parent, the remote the shown commit.  The
\* exception is a change that somebody else made between the adapter's comparison and
\* its last look, which the adapter may take for its own.
SuccessIsExact ==
  [][\A j \in Jobs : Ends(j, {"success"}) /\ ~job[j].touched => Announced(j)]_vars

\* The mutations whose verification cannot pass: to stage a file with other line ends than
\* LF, or one that makes a staged deletion a rename; to commit for the first time on a
\* branch, a rename, or a name that git quotes.
Unverifiable(j) ==
  LET s == job[j].step
      shown == job[j].shown
  IN \/ /\ s.kind = "add"
        /\ \/ \E p \in s.paths : AsText[shown.work[p]] # shown.work[p]
           \/ StagedNames(shown.tree, ToBeStaged(j))
                # StagedNames(shown.tree, shown.index) \cup s.paths
     \/ /\ s.kind = "commit"
        /\ \/ shown.tip = 0
           \/ Renamed(shown.tree, shown.index) # {}
           \/ \E p \in s.paths : Printed[p] # p

\* A mutation that reports a failure, and that nobody disturbed, is not half done.  git
\* add has left the index as the preview showed it, unless it says that the index could
\* not be put back.  A write, a commit or a push has left the file, the branch or the
\* remote as shown or exactly as announced; which of the two the report does not say: an
\* error or a time-out after the effect is a failure like one before it.  And
\* verification_failed is always somebody else's doing, but for a read of git that
\* failed, and for the mutations that the code can never verify.
NothingHalfDone ==
  [][\A j \in Jobs :
       Ends(j, {"failed", "mismatch"}) /\ job[j].pc \in Window /\ ~job[j].touched =>
         /\ Kind(j) = "add" => AsShown(j)' \/ "unrestored" \in job'[j].trouble
         /\ Kind(j) # "add" => AsShown(j)' \/ Announced(j)'
         /\ job'[j].pc = "mismatch" => Unverifiable(j) \/ "unread" \in job'[j].trouble]_vars

\* What Cauco overwrites in the worktree it can give back: the text is in a backup
\* slot, unless somebody wrote it between the comparison and the replacement.
OverwrittenIsKept ==
  [][\A p \in Paths, j \in Jobs :
       Kind(j) = "write" /\ job'[j].pc # job[j].pc /\ work'[p] # work[p] =>
         \/ work[p] = Absent
         \/ \E k \in Slots : bak'[p][k] = work[p]
         \/ job[j].touched]_vars

\* A push moves the remote forward along one line of history, and by exactly the one
\* commit the person approved, unless the branch moved between the comparison and the
\* command.
PublishesOneApproved ==
  [][\A j \in Jobs :
       Kind(j) = "push" /\ job[j].pc = "checked" /\ remote' # remote /\ job'[j].pc # "checked" =>
         /\ remote \in History(remote)'
         /\ \/ remote' = job[j].shown.tip /\ commits[remote'].parent = remote
            \/ job[j].touched]_vars

=============================================================================
