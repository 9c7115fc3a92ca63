---------------------- MODULE WorkspaceMutation_proofs ----------------------
(***************************************************************************)
(* Proofs about WorkspaceMutation, for any files, texts, backup slots,     *)
(* approved steps and jobs, and any number of edits and commits.           *)
(*                                                                         *)
(* The argument: the lock keeps out the jobs that could mislead a job      *)
(* between its comparison and its last look, and whatever anybody else     *)
(* does to what the job is about sets touched.  So an untouched job in its *)
(* window knows what the workspace holds (Knows), from what it was shown   *)
(* and from what it has done itself.                                       *)
(***************************************************************************)
EXTENDS WorkspaceMutation, TLAPS

Ids     == Nat \ {0}
Commit  == [tree : Trees, parent : Nat, past : SUBSET Ids]
View    == [work : Trees, index : Trees, tree : Trees, tip : Nat, main : Nat,
            branch : Branches, remote : Nat]
Pcs     == {"idle", "previewed", "claimed", "stale", "success", "failed", "mismatch"} \cup Window
JobType == [pc : Pcs, step : Approved \cup {NoStep}, shown : View \cup {<<>>},
            seen : View \cup {<<>>}, trouble : SUBSET Troubles, touched : BOOLEAN]

----------------------------------------------------------------------------
(* The inductive invariant *)

\* A commit descends from itself and from what its parent descends from, all of them
\* older.
Descends(c) ==
  /\ commits[c].parent \in 0..(c - 1)
  /\ commits[c].past \subseteq 1..c
  /\ commits[c].past =
       {c} \cup (IF commits[c].parent = 0 THEN {} ELSE commits[commits[c].parent].past)

RepoOK ==
  /\ work \in Trees /\ index \in Trees
  /\ commits \in Seq(Commit)
  /\ \A c \in 1..Len(commits) : Descends(c)
  /\ heads \in [Branches -> 0..Len(commits)]
  /\ branch \in Branches
  /\ remote \in 0..Len(commits)
  /\ bak \in [Paths -> [Slots -> Contents \cup {Absent}]]

\* What the inspection of a step found out, of commits that stay as they are.
ShownOK(j) ==
  LET s == job[j].step
      shown == job[j].shown
  IN job[j].pc # "idle" =>
       /\ s \in Approved /\ shown \in View
       /\ shown.tip <= Len(commits) /\ shown.tree = TreeOf(shown.tip)
       /\ s.kind = "add" => \A p \in s.paths : shown.work[p] # Absent
       /\ s.kind = "commit" => s.paths = StagedNames(shown.tree, shown.index)
       /\ s.kind = "push" => shown.tip = shown.main /\ commits[shown.tip].parent = shown.remote
                             /\ shown.tip # 0

\* A job at work holds its lock, and git add has read what it compares with.
AtWork(j) ==
  job[j].pc \in Window =>
    /\ IF Kind(j) = "write" THEN fsLock = j ELSE gitLock = j
    /\ Kind(j) = "add" /\ job[j].pc # "checked" => job[j].seen \in View

\* What a job that nobody has disturbed knows of the workspace.
KnowsFile(j) ==
  LET p == Target(j)
      shown == job[j].shown
  IN /\ job[j].pc \in {"checked", "copied"} => work[p] = shown.work[p]
     /\ job[j].pc = "copied" => bak[p][1] = shown.work[p]
     /\ job[j].pc = "ran" => work[p] = job[j].step.content

KnowsIndex(j) ==
  LET paths == job[j].step.paths
      shown == job[j].shown
      seen  == job[j].seen
  IN /\ HeadTree = shown.tree
     /\ \A p \in paths : work[p] = shown.work[p]
     /\ job[j].pc \in {"checked", "copied"} => index = shown.index
     /\ job[j].pc = "ran" => index = ToBeStaged(j)
     /\ job[j].pc # "checked" =>
          /\ seen.index = shown.index /\ seen.tree = shown.tree
          /\ \A p \in paths : seen.work[p] = shown.work[p]

CommitMade(j) ==
  /\ Tip > job[j].shown.tip
  /\ commits[Tip].tree = job[j].shown.index /\ commits[Tip].parent = job[j].shown.tip

KnowsBranch(j) ==
  LET shown == job[j].shown
  IN /\ index = shown.index /\ branch = shown.branch
     /\ job[j].pc = "checked" => Tip = shown.tip
     /\ job[j].pc = "ran" => CommitMade(j)
     /\ job[j].pc = "erred" => Tip = shown.tip \/ CommitMade(j)

KnowsRemote(j) ==
  LET shown == job[j].shown
  IN /\ index = shown.index /\ branch = shown.branch /\ heads[Main] = shown.main
     /\ job[j].pc = "checked" => remote = shown.remote
     /\ job[j].pc = "ran" => remote = shown.main
     /\ job[j].pc = "erred" => remote \in {shown.remote, shown.main}

Knows(j) ==
  job[j].pc \in Window /\ ~job[j].touched =>
    /\ Kind(j) = "write"  => KnowsFile(j)
    /\ Kind(j) = "add"    => KnowsIndex(j)
    /\ Kind(j) = "commit" => KnowsBranch(j)
    /\ Kind(j) = "push"   => KnowsRemote(j)

JobOK(j) == job[j] \in JobType /\ ShownOK(j) /\ AtWork(j) /\ Knows(j)

IInv ==
  /\ RepoOK
  /\ DOMAIN job = Jobs
  /\ \A j \in Jobs : JobOK(j)

----------------------------------------------------------------------------
(* What a step is about *)

Same(s, v, w) ==
  /\ s.kind \in {"write", "add"} => \A p \in s.paths : v.work[p] = w.work[p]
  /\ s.kind = "add" => v.index = w.index /\ v.tree = w.tree
  /\ s.kind = "commit" => v.index = w.index /\ v.tip = w.tip /\ v.branch = w.branch
  /\ s.kind = "push" =>
       v.index = w.index /\ v.main = w.main /\ v.branch = w.branch /\ v.remote = w.remote

LEMMA ConcernIsSame ==
  ASSUME NEW s, s.kind \in Kinds, NEW v, NEW w
  PROVE  Concern(s, v) = Concern(s, w) <=> Same(s, v, w)
<1>1. CASE s.kind = "write"
  BY <1>1 DEF Concern, Same
<1>2. CASE s.kind = "add"
  BY <1>2 DEF Concern, Same
<1>3. CASE s.kind = "commit"
  BY <1>3 DEF Concern, Same
<1>4. CASE s.kind = "push"
  BY <1>4 DEF Concern, Same
<1> QED
  BY <1>1, <1>2, <1>3, <1>4 DEF Kinds

LEMMA StepType ==
  ASSUME NEW s \in Approved \cup {NoStep}
  PROVE  s \in PlanStep
<1>1. s \in Approved => s \in PlanStep
  BY ApprovedAssumption
<1>2. NoStep \in PlanStep
  BY DEF NoStep, PlanStep, Kinds
<1> QED
  BY <1>1, <1>2

\* A write is about one file.
LEMMA OneTarget ==
  ASSUME NEW j \in Jobs, job[j].step \in Approved, Kind(j) = "write"
  PROVE  /\ Target(j) \in Paths /\ job[j].step.paths = {Target(j)}
         /\ job[j].step.content \in Contents
<1>1. PICK p \in Paths : job[j].step.paths = {p}
  BY ApprovedAssumption DEF Kind
<1>2. Target(j) \in job[j].step.paths
  BY <1>1 DEF Target
<1>3. job[j].step.content \in Contents
  BY ApprovedAssumption DEF Kind
<1> QED
  BY <1>1, <1>2, <1>3

LEMMA TreeIsTree ==
  ASSUME RepoOK, NEW c \in 0..Len(commits)
  PROVE  TreeOf(c) \in Trees
<1>1. CASE c = 0
  BY <1>1 DEF TreeOf, Trees
<1>2. CASE c # 0
  <2>1. c \in 1..Len(commits) /\ commits \in Seq(Commit)
    BY <1>2 DEF RepoOK
  <2>2. commits[c] \in Commit
    BY <2>1
  <2> QED
    BY <1>2, <2>2 DEF TreeOf, Commit
<1> QED
  BY <1>1, <1>2

\* What a preview reads is well typed.
LEMMA SnapshotView ==
  ASSUME RepoOK
  PROVE  /\ Snapshot \in View /\ Tip \in 0..Len(commits)
         /\ HeadTree = TreeOf(Tip)
<1>1. Tip \in 0..Len(commits) /\ heads[Main] \in 0..Len(commits)
  BY DEF RepoOK, Tip, Branches
<1>2. HeadTree \in Trees
  BY <1>1, TreeIsTree DEF HeadTree
<1>3. /\ Tip \in Nat /\ heads[Main] \in Nat /\ remote \in Nat
  <2>1. Len(commits) \in Nat
    BY DEF RepoOK
  <2> QED
    BY <1>1, <2>1 DEF RepoOK
<1>4. work \in Trees /\ index \in Trees /\ branch \in Branches
  BY DEF RepoOK
<1> QED
  BY <1>1, <1>2, <1>3, <1>4 DEF Snapshot, View, HeadTree

----------------------------------------------------------------------------
(* Commits are only added *)

Grown ==
  /\ Len(commits) <= Len(commits')
  /\ \A c \in 1..Len(commits) : commits'[c] = commits[c]

LEMMA RecordGrows ==
  ASSUME RepoOK, NEW tree \in Trees, NEW parent \in 0..Len(commits),
         commits' = Record(tree, parent)
  PROVE  /\ Grown
         /\ commits' \in Seq(Commit)
         /\ Len(commits') = Len(commits) + 1
         /\ commits'[Len(commits')].tree = tree /\ commits'[Len(commits')].parent = parent
         /\ \A c \in 1..Len(commits') : Descends(c)'
<1> DEFINE new == [tree |-> tree, parent |-> parent,
                   past |-> History(parent) \cup {Len(commits) + 1}]
<1>n. commits \in Seq(Commit) /\ Len(commits) \in Nat
  BY DEF RepoOK
<1>1. History(parent) \subseteq 1..Len(commits)
  <2>1. CASE parent = 0
    BY <2>1 DEF History
  <2>2. CASE parent # 0
    <3>1. parent \in 1..Len(commits) /\ Descends(parent)
      BY <2>2, <1>n DEF RepoOK
    <3> QED
      BY <2>2, <3>1, <1>n DEF History, Descends
  <2> QED
    BY <2>1, <2>2
<1>2. new \in Commit
  BY <1>n, <1>1 DEF Commit, Ids
<1>3. commits' = Append(commits, new)
  BY DEF Record
<1>t. /\ new.tree = tree /\ new.parent = parent
      /\ new.past = History(parent) \cup {Len(commits) + 1}
  OBVIOUS
<1> HIDE DEF new
<1>4. /\ commits' \in Seq(Commit) /\ Len(commits') = Len(commits) + 1
      /\ \A c \in 1..Len(commits) : commits'[c] = commits[c]
      /\ commits'[Len(commits) + 1] = new
  BY <1>n, <1>2, <1>3
<1>5. Grown
  BY <1>n, <1>4 DEF Grown
<1>6. ASSUME NEW c \in 1..Len(commits') PROVE Descends(c)'
  <2>1. CASE c \in 1..Len(commits)
    <3>1. Descends(c) /\ commits'[c] = commits[c]
      BY <2>1, <1>4 DEF RepoOK
    <3>2. commits[c].parent # 0 => commits[c].parent \in 1..Len(commits)
      BY <2>1, <3>1, <1>n DEF Descends
    <3> QED
      BY <3>1, <3>2, <1>4 DEF Descends
  <2>2. CASE c = Len(commits) + 1
    <3>1. /\ commits'[c].parent = parent
          /\ commits'[c].past = History(parent) \cup {c}
      BY <2>2, <1>4, <1>t
    <3>2. parent \in 0..(c - 1)
      BY <2>2, <1>n
    <3>3. History(parent) \cup {c} \subseteq 1..c
      BY <2>2, <1>n, <1>1
    <3>4. History(parent) = IF parent = 0 THEN {} ELSE commits'[parent].past
      BY <1>4, <1>n DEF History
    <3> QED
      BY <3>1, <3>2, <3>3, <3>4 DEF Descends
  <2> QED
    BY <1>n, <1>4, <2>1, <2>2
<1> QED
  BY <1>4, <1>5, <1>6, <1>t

LEMMA NothingGrows ==
  ASSUME RepoOK, UNCHANGED commits
  PROVE  Grown
BY DEF Grown, RepoOK

\* What a preview has shown of the commits stays so.
LEMMA ShownStays ==
  ASSUME IInv, RepoOK', Grown, NEW k \in Jobs,
         job'[k].step = job[k].step, job'[k].shown = job[k].shown,
         job[k].pc = "idle" => job'[k].pc = "idle"
  PROVE  ShownOK(k)'
<1>1. CASE job[k].pc = "idle"
  BY <1>1 DEF ShownOK
<1>2. CASE job[k].pc # "idle"
  <2>1. ShownOK(k)
    BY DEF IInv, JobOK
  <2>2. job[k].shown.tip \in Nat
    BY <2>1, <1>2 DEF ShownOK, View
  <2>3. job[k].shown.tip # 0 => commits'[job[k].shown.tip] = commits[job[k].shown.tip]
    BY <2>1, <2>2, <1>2 DEF ShownOK, Grown
  <2>4. job[k].shown.tip <= Len(commits')
    BY <1>2, <2>1, <2>2 DEF ShownOK, Grown, IInv, RepoOK
  <2>5. TreeOf(job[k].shown.tip)' = TreeOf(job[k].shown.tip)
    BY <2>3 DEF TreeOf
  <2> QED
    BY <1>2, <2>1, <2>3, <2>4, <2>5 DEF ShownOK
<1> QED
  BY <1>1, <1>2

----------------------------------------------------------------------------
(* Bystanders *)

\* A job that keeps its locks.
KeepsLocks(k) == (fsLock = k => fsLock' = k) /\ (gitLock = k => gitLock' = k)

LEMMA LocksStay ==
  ASSUME IInv, NEW k \in Jobs, KeepsLocks(k),
         job'[k].step = job[k].step, job'[k].pc = job[k].pc, job'[k].seen = job[k].seen
  PROVE  AtWork(k)'
BY DEF IInv, JobOK, AtWork, KeepsLocks, Kind

\* Somebody whom its lock does not keep out has done something: either the job has been
\* disturbed, or what it is about is as it was.
LEMMA DisturbedKeeps ==
  ASSUME IInv, RepoOK', Grown, NEW k \in Jobs, KeepsLocks(k), job'[k] = Disturb(k),
         Kind(k) = "write" => UNCHANGED bak
  PROVE  JobOK(k)'
<1> DEFINE s == job[k].step
           about == Concern(s, Snapshot') # Concern(s, Snapshot)
<1>t. job[k] \in JobType /\ ShownOK(k) /\ AtWork(k) /\ Knows(k)
  BY DEF IInv, JobOK
<1>1. /\ job'[k].pc = job[k].pc /\ job'[k].step = s
      /\ job'[k].shown = job[k].shown /\ job'[k].seen = job[k].seen
      /\ job'[k].touched = (job[k].touched \/ (job[k].pc \in Window /\ about))
      /\ job'[k] \in JobType
  BY <1>t DEF Disturb, JobType
<1>2. ShownOK(k)' /\ AtWork(k)'
  BY <1>1, ShownStays, LocksStay
<1>3. Knows(k)'
  <2> SUFFICES ASSUME job[k].pc \in Window, ~job'[k].touched
               PROVE  Knows(k)'
    BY <1>1 DEF Knows
  <2>k. s \in Approved /\ s \in PlanStep /\ s.kind \in Kinds
    BY <1>t, StepType DEF ShownOK, Window, PlanStep
  <2>1. ~job[k].touched /\ Same(s, Snapshot', Snapshot)
    <3>1. ~job[k].touched /\ ~about
      BY <1>1
    <3> QED
      BY <3>1, <2>k, ConcernIsSame
  <2>s. Kind(k) = s.kind /\ Kind(k)' = s.kind
    BY <1>1 DEF Kind
  <2> HIDE DEF about
  <2>h. Tip \in 0..Len(commits) /\ Len(commits) \in Nat
        /\ Snapshot.tip = Tip /\ Snapshot'.tip = Tip'
        /\ Snapshot.tree = HeadTree /\ Snapshot'.tree = HeadTree'
        /\ Snapshot.work = work /\ Snapshot'.work = work'
        /\ Snapshot.index = index /\ Snapshot'.index = index'
        /\ Snapshot.branch = branch /\ Snapshot'.branch = branch'
        /\ Snapshot.main = heads[Main] /\ Snapshot'.main = heads'[Main]
        /\ Snapshot.remote = remote /\ Snapshot'.remote = remote'
    BY SnapshotView DEF Snapshot, IInv, RepoOK
  <2>2. CASE s.kind = "write"
    <3>1. Target(k)' = Target(k) /\ s.paths = {Target(k)}
      BY <2>2, <2>s, <2>k, <1>1, OneTarget DEF Target
    <3>2. work'[Target(k)] = work[Target(k)]
      BY <3>1, <2>1, <2>2, <2>h DEF Same
    <3>3. KnowsFile(k)
      BY <1>t, <2>1, <2>2, <2>s DEF Knows
    <3>4. KnowsFile(k)'
      BY <3>1, <3>2, <3>3, <2>2, <2>s, <1>1 DEF KnowsFile
    <3> QED
      BY <3>4, <2>2, <2>s DEF Knows
  <2>3. CASE s.kind = "add"
    <3>1. KnowsIndex(k)
      BY <1>t, <2>1, <2>3, <2>s DEF Knows
    <3>2. index' = index /\ HeadTree' = HeadTree /\ \A p \in s.paths : work'[p] = work[p]
      BY <2>1, <2>3, <2>h DEF Same
    <3>3. KnowsIndex(k)'
      BY <3>1, <3>2, <1>1 DEF KnowsIndex, ToBeStaged
    <3> QED
      BY <3>3, <2>3, <2>s DEF Knows
  <2>4. CASE s.kind = "commit"
    <3>1. KnowsBranch(k)
      BY <1>t, <2>1, <2>4, <2>s DEF Knows
    <3>2. index' = index /\ Tip' = Tip /\ branch' = branch
      BY <2>1, <2>4, <2>h DEF Same
    <3>4. CommitMade(k) => CommitMade(k)'
      <4>1. job[k].shown.tip \in Nat
        BY <1>t DEF ShownOK, View, Window
      <4>2. Tip > job[k].shown.tip => commits'[Tip] = commits[Tip]
        BY <4>1, <2>h DEF Grown
      <4> QED
        BY <4>2, <3>2, <1>1 DEF CommitMade
    <3>3. KnowsBranch(k)'
      BY <3>1, <3>2, <3>4, <1>1 DEF KnowsBranch
    <3> QED
      BY <3>3, <2>4, <2>s DEF Knows
  <2>5. CASE s.kind = "push"
    <3>1. KnowsRemote(k)
      BY <1>t, <2>1, <2>5, <2>s DEF Knows
    <3>2. UNCHANGED <<index, branch, remote>> /\ heads'[Main] = heads[Main]
      BY <2>1, <2>5, <2>h DEF Same
    <3>3. KnowsRemote(k)'
      BY <3>1, <3>2, <1>1 DEF KnowsRemote
    <3> QED
      BY <3>3, <2>5, <2>s DEF Knows
  <2> QED
    BY <2>k, <2>2, <2>3, <2>4, <2>5 DEF Kinds
<1> QED
  BY <1>1, <1>2, <1>3 DEF JobOK

\* A job that is not at work, or while nothing changes, knows what it knew.
LEMMA UndisturbedKeeps ==
  ASSUME IInv, RepoOK', Grown, NEW k \in Jobs, KeepsLocks(k), job'[k] = job[k],
         job[k].pc \notin Window \/ UNCHANGED <<repo, bak>>
  PROVE  JobOK(k)'
<1>1. job[k] \in JobType /\ Knows(k)
  BY DEF IInv, JobOK
<1>2. ShownOK(k)' /\ AtWork(k)'
  BY ShownStays, LocksStay
<1>3. CASE job[k].pc \notin Window
  BY <1>1, <1>2, <1>3 DEF JobOK, Knows
<1>4. CASE UNCHANGED <<repo, bak>>
  <2>1. Knows(k)'
    BY <1>1, <1>4 DEF repo, Knows, KnowsFile, KnowsIndex, KnowsBranch, KnowsRemote, Kind,
       Target, HeadTree, TreeOf, Tip, CommitMade, ToBeStaged
  <2> QED
    BY <1>1, <1>2, <2>1 DEF JobOK
<1> QED
  BY <1>3, <1>4

----------------------------------------------------------------------------
(* A job's step *)

LEMMA StepKeeps ==
  ASSUME IInv, RepoOK', Grown, NEW j \in Jobs, NEW new, Advance(j, new), JobOK(j)',
         \A k \in Jobs \ {j} : KeepsLocks(k),
         job[j].pc \in Window \/ UNCHANGED <<repo, bak>>,
         Kind(j) = "write" \/ UNCHANGED bak
  PROVE  IInv'
<1>1. DOMAIN job' = Jobs
  BY DEF Advance
<1>2. ASSUME NEW k \in Jobs, k # j PROVE JobOK(k)'
  <2>1. AtWork(j) /\ AtWork(k)
    BY DEF IInv, JobOK
  <2>2. CASE SameLock(j, k)
    <3>1. job'[k] = job[k]
      BY <1>2, <2>2 DEF Advance
    <3>2. job[k].pc \notin Window \/ UNCHANGED <<repo, bak>>
      BY <1>2, <2>1, <2>2 DEF AtWork, SameLock, Kind
    <3> QED
      BY <1>2, <3>1, <3>2, UndisturbedKeeps
  <2>3. CASE ~SameLock(j, k)
    <3>1. job'[k] = Disturb(k)
      BY <1>2, <2>3 DEF Advance
    <3>2. Kind(k) = "write" => UNCHANGED bak
      BY <2>3 DEF SameLock, Kind
    <3> QED
      BY <1>2, <3>1, <3>2, DisturbedKeeps
  <2> QED
    BY <2>2, <2>3
<1> QED
  BY <1>1, <1>2 DEF IInv

LEMMA SameRepo ==
  ASSUME RepoOK, UNCHANGED <<repo, bak>>
  PROVE  RepoOK' /\ Grown
BY NothingGrows DEF RepoOK, repo, Descends

\* A job goes on, and knows what it has to know there.
LEMMA GoesOn ==
  ASSUME IInv, RepoOK', Grown, NEW j \in Jobs, NEW new \in JobType, Advance(j, new),
         job[j].pc # "idle", new.step = job[j].step, new.shown = job[j].shown,
         AtWork(j)', Knows(j)',
         \A k \in Jobs \ {j} : KeepsLocks(k),
         job[j].pc \in Window \/ UNCHANGED <<repo, bak>>,
         Kind(j) = "write" \/ UNCHANGED bak
  PROVE  IInv'
<1>1. job'[j] = new
  BY DEF Advance
<1>2. ShownOK(j)'
  BY <1>1, ShownStays
<1>3. JobOK(j)'
  BY <1>1, <1>2 DEF JobOK
<1> QED
  BY <1>3, StepKeeps

Outcomes == Pcs \ (Window \cup {"idle", "previewed", "claimed"})

\* A job ends.
LEMMA EndKeeps ==
  ASSUME IInv, RepoOK', Grown, NEW j \in Jobs, NEW outcome \in Outcomes,
         NEW trouble \in SUBSET Troubles, FinishIn(j, outcome, trouble), job[j].pc # "idle",
         job[j].pc \in Window \/ UNCHANGED <<repo, bak>>,
         Kind(j) = "write" \/ UNCHANGED bak
  PROVE  IInv'
<1> DEFINE new == [To(j, outcome) EXCEPT !.seen = <<>>, !.trouble = trouble]
<1>1. job[j] \in JobType
  BY DEF IInv, JobOK
<1>2. /\ new \in JobType /\ new.pc = outcome
      /\ new.step = job[j].step /\ new.shown = job[j].shown
  BY <1>1 DEF JobType, To, Outcomes
<1>3. Advance(j, new)
  BY DEF FinishIn
<1>4. job'[j] = new
  BY <1>3 DEF Advance
<1> HIDE DEF new
<1>5. AtWork(j)' /\ Knows(j)'
  BY <1>2, <1>4 DEF AtWork, Knows, Outcomes
<1>6. \A k \in Jobs \ {j} : KeepsLocks(k)
  BY DEF FinishIn, KeepsLocks
<1> QED
  BY <1>2, <1>3, <1>5, <1>6, GoesOn

LEMMA OthersKeep ==
  ASSUME IInv, RepoOK', Grown, Others
  PROVE  IInv'
<1>1. DOMAIN job' = Jobs
  BY DEF Others
<1>2. ASSUME NEW k \in Jobs PROVE JobOK(k)'
  <2>1. job'[k] = Disturb(k) /\ KeepsLocks(k) /\ UNCHANGED bak
    BY DEF Others, KeepsLocks
  <2> QED
    BY <2>1, DisturbedKeeps
<1> QED
  BY <1>1, <1>2 DEF IInv

----------------------------------------------------------------------------
(* The service *)

\* The commit to publish is the one after the remote's.
LEMMA OneAhead ==
  ASSUME RepoOK, NEW s, CanPush(s)
  PROVE  commits[Tip].parent = remote /\ Tip # 0
<1>0. /\ Tip \in 0..Len(commits) /\ remote \in 0..Len(commits) /\ Len(commits) \in Nat
      /\ remote # Tip /\ remote \in History(Tip) /\ History(Tip) \ History(remote) = {Tip}
  BY SnapshotView DEF RepoOK, CanPush, Outgoing
<1>a. Tip \in 1..Len(commits) /\ remote \in commits[Tip].past
  BY <1>0 DEF History
<1>b. Descends(Tip)
  BY <1>a DEF RepoOK
<1>c. remote \in 1..Len(commits)
  BY <1>0, <1>a, <1>b DEF Descends
<1>1. /\ Tip \in 1..Len(commits) /\ remote \in 1..Len(commits) /\ Len(commits) \in Nat
      /\ Descends(Tip) /\ Descends(remote)
  BY <1>0, <1>a, <1>b, <1>c DEF RepoOK
<1>2. /\ remote # Tip /\ remote \in commits[Tip].past
      /\ commits[Tip].past \ commits[remote].past = {Tip}
  BY <1>0, <1>1 DEF History
<1> DEFINE q == commits[Tip].parent
<1>3. q # 0 /\ commits[Tip].past = {Tip} \cup commits[q].past
  BY <1>1, <1>2 DEF Descends
<1>4. q \in 1..Len(commits) /\ q < Tip
  BY <1>1, <1>3 DEF Descends
<1>5. Descends(q)
  BY <1>4 DEF RepoOK
<1>6. q \in commits[q].past
  BY <1>5 DEF Descends
<1>7. q \in commits[remote].past
  BY <1>2, <1>3, <1>4, <1>6
<1>8. remote \in commits[q].past
  BY <1>2, <1>3
<1>9. q <= remote /\ remote <= q
  BY <1>1, <1>4, <1>5, <1>7, <1>8 DEF Descends
<1> QED
  BY <1>1, <1>4, <1>9

LEMMA PrepareKeeps ==
  ASSUME IInv, NEW j \in Jobs, NEW s \in Approved, Prepare(j, s)
  PROVE  IInv'
<1> DEFINE new == [job[j] EXCEPT !.pc = "previewed", !.step = s, !.shown = Snapshot]
<1>1. job[j] \in JobType /\ RepoOK
  BY DEF IInv, JobOK
<1>2. Advance(j, new) /\ UNCHANGED <<repo, bak, gitLock, fsLock>>
  BY DEF Prepare
<1>3. /\ new \in JobType /\ new.pc = "previewed" /\ new.step = s /\ new.shown = Snapshot
  BY <1>1, SnapshotView DEF JobType, Pcs
<1>4. job'[j] = new
  BY <1>2 DEF Advance
<1> HIDE DEF new
<1>5. RepoOK' /\ Grown
  BY <1>1, <1>2, SameRepo
<1>6. AtWork(j)' /\ Knows(j)'
  BY <1>3, <1>4 DEF AtWork, Knows, Window
<1>h. /\ Snapshot \in View /\ Snapshot.tip = Tip /\ Snapshot.tree = HeadTree
      /\ Snapshot.work = work /\ Snapshot.index = index
      /\ Snapshot.main = heads[Main] /\ Snapshot.remote = remote
      /\ HeadTree = TreeOf(Tip) /\ commits' = commits
      /\ Tip \in 0..Len(commits) /\ Tip <= Len(commits)
  BY <1>1, <1>2, SnapshotView DEF Snapshot, RepoOK, repo, Tip, TreeOf
<1>k. s.kind \in Kinds /\ Inspected(s)
  BY StepType DEF PlanStep, Prepare
<1>7. s.kind = "add" => \A p \in s.paths : work[p] # Absent
  <2>1. s.paths \subseteq Paths
    BY StepType DEF PlanStep
  <2> QED
    BY <2>1, <1>k DEF Inspected, CanWrite, CanAdd, CanCommit, CanPush
<1>8. s.kind = "commit" => s.paths = StagedNames(HeadTree, index)
  BY <1>k DEF Inspected, CanWrite, CanAdd, CanCommit, CanPush, StagedPaths
<1>9. s.kind = "push" => Tip = heads[Main] /\ commits[Tip].parent = remote /\ Tip # 0
  <2> SUFFICES ASSUME s.kind = "push"
               PROVE  Tip = heads[Main] /\ commits[Tip].parent = remote /\ Tip # 0
    OBVIOUS
  <2>1. CanPush(s)
    BY <1>k DEF Inspected, CanWrite, CanAdd, CanCommit
  <2>2. branch = Main
    BY <2>1 DEF CanPush
  <2> QED
    BY <1>1, <2>1, <2>2, OneAhead DEF Tip
<1>10. ShownOK(j)'
  <2>1. TreeOf(job[j].shown.tip)' = HeadTree
    BY <1>3, <1>4, <1>h DEF TreeOf
  <2>2. job'[j].pc # "idle" /\ job'[j].step = s /\ job'[j].shown = Snapshot
    BY <1>3, <1>4
  <2> QED
    BY <2>1, <2>2, <1>h, <1>7, <1>8, <1>9 DEF ShownOK
<1>11. JobOK(j)'
  BY <1>3, <1>4, <1>6, <1>10 DEF JobOK
<1>12. \A k \in Jobs \ {j} : KeepsLocks(k)
  BY <1>2 DEF KeepsLocks
<1> QED
  BY <1>2, <1>5, <1>11, <1>12, StepKeeps

\* To(j, pc), for a job of which something is known.
LEMMA Moved ==
  ASSUME IInv, NEW j \in Jobs, NEW pc \in Pcs, Advance(j, To(j, pc))
  PROVE  /\ To(j, pc) \in JobType
         /\ To(j, pc).step = job[j].step /\ To(j, pc).shown = job[j].shown
         /\ job'[j].pc = pc /\ job'[j].step = job[j].step /\ job'[j].shown = job[j].shown
         /\ job'[j].seen = job[j].seen /\ job'[j].touched = job[j].touched
         /\ Kind(j)' = Kind(j) /\ Target(j)' = Target(j) /\ ToBeStaged(j)' = ToBeStaged(j)
<1>1. job[j] \in JobType
  BY DEF IInv, JobOK
<1>2. job'[j] = To(j, pc)
  BY DEF Advance
<1> QED
  BY <1>1, <1>2 DEF JobType, To, Kind, Target, ToBeStaged

\* A job that is past its preview: its step is approved, its preview well typed.
LEMMA Prepared ==
  ASSUME IInv, NEW j \in Jobs, job[j].pc # "idle"
  PROVE  /\ job[j] \in JobType /\ RepoOK
         /\ ShownOK(j) /\ AtWork(j) /\ Knows(j)
         /\ job[j].step \in Approved /\ job[j].step.kind \in Kinds
         /\ job[j].step.paths \subseteq Paths
         /\ job[j].shown \in View
         /\ job[j].touched \in BOOLEAN
<1>1. JobOK(j) /\ RepoOK
  BY DEF IInv
<1>2. job[j].step \in Approved /\ job[j].shown \in View
  BY <1>1 DEF JobOK, ShownOK
<1>3. job[j].step \in PlanStep
  BY <1>2, StepType
<1> QED
  BY <1>1, <1>2, <1>3 DEF JobOK, JobType, PlanStep

LEMMA ConfirmKeeps ==
  ASSUME IInv, NEW j \in Jobs, Confirm(j)
  PROVE  IInv'
<1> DEFINE pc == IF StillShown(job[j].step, job[j].shown) THEN "claimed" ELSE "stale"
<1>1. /\ Advance(j, To(j, pc)) /\ job[j].pc = "previewed"
      /\ UNCHANGED <<repo, bak, gitLock, fsLock>>
  BY DEF Confirm
<1>2. pc \in Pcs /\ pc \notin Window
  BY DEF Pcs, Window
<1> HIDE DEF pc
<1>3. RepoOK' /\ Grown
  BY <1>1, SameRepo DEF IInv
<1>4. AtWork(j)' /\ Knows(j)'
  BY <1>1, <1>2, Moved DEF AtWork, Knows
<1>5. \A k \in Jobs \ {j} : KeepsLocks(k)
  BY <1>1 DEF KeepsLocks
<1> QED
  BY <1>1, <1>2, <1>3, <1>4, <1>5, Moved, GoesOn

\* What is still shown is known.
LEMMA ShownIsKnown ==
  ASSUME IInv, NEW j \in Jobs, job[j].pc # "idle", StillShown(job[j].step, job[j].shown)
  PROVE  /\ Kind(j) = "write" => work[Target(j)] = job[j].shown.work[Target(j)]
         /\ Kind(j) = "add" =>
              /\ HeadTree = job[j].shown.tree /\ index = job[j].shown.index
              /\ \A p \in job[j].step.paths : work[p] = job[j].shown.work[p]
         /\ Kind(j) = "commit" =>
              index = job[j].shown.index /\ branch = job[j].shown.branch /\ Tip = job[j].shown.tip
         /\ Kind(j) = "push" =>
              /\ heads[Main] = job[j].shown.main /\ remote = job[j].shown.remote
              /\ index = job[j].shown.index /\ branch = job[j].shown.branch
<1>1. job[j].step \in Approved /\ job[j].step.kind \in Kinds
  BY Prepared
<1>2. Same(job[j].step, job[j].shown, Snapshot)
  BY <1>1, ConcernIsSame DEF StillShown
<1>3. Kind(j) = "write" => Target(j) \in job[j].step.paths
  BY <1>1, OneTarget
<1> QED
  BY <1>2, <1>3 DEF Same, Kind, Snapshot

LEMMA BeginKeeps ==
  ASSUME IInv, NEW j \in Jobs, Begin(j)
  PROVE  IInv'
<1>1. /\ Advance(j, To(j, "checked")) /\ job[j].pc = "claimed" /\ TakeLock(j)
      /\ UNCHANGED <<repo, bak>> /\ StillShown(job[j].step, job[j].shown)
  BY DEF Begin
<1>2. "checked" \in Pcs
  BY DEF Pcs, Window
<1>3. RepoOK' /\ Grown
  BY <1>1, SameRepo DEF IInv
<1>m. /\ job'[j].pc = "checked" /\ job'[j].step = job[j].step /\ job'[j].shown = job[j].shown
      /\ Kind(j)' = Kind(j) /\ Target(j)' = Target(j)
  BY <1>1, <1>2, Moved
<1>4. AtWork(j)'
  BY <1>1, <1>m DEF AtWork, TakeLock, Kind
<1>5. HeadTree' = HeadTree /\ Tip' = Tip
  BY <1>1 DEF HeadTree, TreeOf, Tip, repo
<1>6. Knows(j)'
  <2>1. UNCHANGED <<work, index, branch, heads, remote>>
    BY <1>1 DEF repo
  <2>2. Kind(j) = "write" => KnowsFile(j)'
    BY <1>1, <1>m, <2>1, ShownIsKnown DEF KnowsFile
  <2>3. Kind(j) = "add" => KnowsIndex(j)'
    BY <1>1, <1>m, <1>5, <2>1, ShownIsKnown DEF KnowsIndex
  <2>4. Kind(j) = "commit" => KnowsBranch(j)'
    BY <1>1, <1>m, <1>5, <2>1, ShownIsKnown DEF KnowsBranch
  <2>5. Kind(j) = "push" => KnowsRemote(j)'
    BY <1>1, <1>m, <2>1, ShownIsKnown DEF KnowsRemote
  <2> QED
    BY <1>m, <2>2, <2>3, <2>4, <2>5 DEF Knows
<1>7. \A k \in Jobs \ {j} : KeepsLocks(k)
  BY <1>1, NobodyAssumption DEF KeepsLocks, TakeLock
<1> QED
  BY <1>1, <1>2, <1>3, <1>4, <1>6, <1>7, Moved, GoesOn

\* Jobs that end without an effect.
LEMMA EndsIdly ==
  ASSUME IInv, NEW j \in Jobs, NEW outcome \in Outcomes, NEW trouble \in SUBSET Troubles,
         FinishIn(j, outcome, trouble), job[j].pc # "idle", UNCHANGED <<repo, bak>>
  PROVE  IInv'
<1>1. RepoOK' /\ Grown
  BY SameRepo DEF IInv
<1> QED
  BY <1>1, EndKeeps

LEMMA OutcomeNames ==
  /\ {"success", "failed", "mismatch"} \subseteq Outcomes
  /\ {} \in SUBSET Troubles /\ {"unread"} \in SUBSET Troubles
BY DEF Outcomes, Pcs, Window, Troubles

LEMMA BeginRefusedKeeps ==
  ASSUME IInv, NEW j \in Jobs, BeginRefused(j)
  PROVE  IInv'
BY EndsIdly, OutcomeNames DEF BeginRefused, Finish

----------------------------------------------------------------------------
(* Writing a file *)

LEMMA ShiftedKeeps ==
  ASSUME NEW slots \in [Slots -> Contents \cup {Absent}], NEW k \in 2..(MaxBackups + 1)
  PROVE  Shifted(slots, k) \in [Slots -> Contents \cup {Absent}]
<1>1. ASSUME NEW i \in Slots, i >= k
      PROVE  i - 1 \in Slots
  BY <1>1, MaxBackupsAssumption DEF Slots
<1> QED
  BY <1>1 DEF Shifted

LEMMA RotatedKeeps ==
  ASSUME NEW slots \in [Slots -> Contents \cup {Absent}], NEW content \in Contents \cup {Absent}
  PROVE  /\ Rotated(slots, content) \in [Slots -> Contents \cup {Absent}]
         /\ Rotated(slots, content)[1] = content
<1>1. 1 \in Slots /\ 2 \in 2..(MaxBackups + 1)
  BY MaxBackupsAssumption DEF Slots
<1>2. Shifted(slots, 2) \in [Slots -> Contents \cup {Absent}]
  BY <1>1, ShiftedKeeps
<1> QED
  BY <1>1, <1>2 DEF Rotated

LEMMA CopyFileKeeps ==
  ASSUME IInv, NEW j \in Jobs, CopyFile(j)
  PROVE  IInv'
<1> DEFINE p == Target(j)
           text == job[j].shown.work[p]
<1>1. /\ Advance(j, To(j, "copied")) /\ job[j].pc = "checked" /\ Kind(j) = "write"
      /\ UNCHANGED <<repo, gitLock, fsLock>>
      /\ bak' = [bak EXCEPT ![p] = Rotated(bak[p], text)]
  BY DEF CopyFile
<1>2. "copied" \in Pcs /\ "copied" \in Window /\ "checked" \in Window
  BY DEF Pcs, Window
<1>t. RepoOK /\ AtWork(j) /\ Knows(j) /\ job[j].shown \in View /\ p \in Paths
  BY <1>1, Prepared, OneTarget
<1>3. text \in Contents \cup {Absent} /\ bak[p] \in [Slots -> Contents \cup {Absent}]
  BY <1>t DEF View, Trees, RepoOK
<1>4. /\ bak' \in [Paths -> [Slots -> Contents \cup {Absent}]]
      /\ bak'[p][1] = text
  <2>1. /\ Rotated(bak[p], text) \in [Slots -> Contents \cup {Absent}]
        /\ Rotated(bak[p], text)[1] = text
    BY <1>3, RotatedKeeps
  <2> QED
    BY <1>1, <1>t, <2>1 DEF RepoOK
<1>5. RepoOK' /\ Grown
  BY <1>1, <1>4, <1>t, NothingGrows DEF RepoOK, repo, Descends
<1>m. /\ job'[j].pc = "copied" /\ job'[j].step = job[j].step /\ job'[j].shown = job[j].shown
      /\ Kind(j)' = Kind(j) /\ Target(j)' = Target(j) /\ job'[j].touched = job[j].touched
  BY <1>1, <1>2, Moved
<1>6. AtWork(j)'
  BY <1>1, <1>2, <1>t, <1>m DEF AtWork
<1>7. Knows(j)'
  <2>1. ~job[j].touched => KnowsFile(j)
    BY <1>1, <1>2, <1>t DEF Knows
  <2>2. ~job[j].touched => KnowsFile(j)'
    BY <2>1, <1>1, <1>4, <1>m DEF KnowsFile, repo
  <2> QED
    BY <2>2, <1>1, <1>m DEF Knows
<1>8. \A k \in Jobs \ {j} : KeepsLocks(k)
  BY <1>1 DEF KeepsLocks
<1> QED
  BY <1>1, <1>2, <1>5, <1>6, <1>7, <1>8, Moved, GoesOn

LEMMA WriteFailsKeeps ==
  ASSUME IInv, NEW j \in Jobs, WriteFails(j)
  PROVE  IInv'
<1> DEFINE p == Target(j)
<1>1. /\ job[j].pc \in Window /\ job[j].pc # "idle" /\ Kind(j) = "write"
      /\ UNCHANGED repo /\ FinishIn(j, "failed", {})
  BY DEF WriteFails, Window, Finish
<1>t. RepoOK /\ p \in Paths
  BY <1>1, Prepared, OneTarget
<1>2. bak' \in [Paths -> [Slots -> Contents \cup {Absent}]]
  <2>1. CASE UNCHANGED bak
    BY <2>1, <1>t DEF RepoOK
  <2>2. ASSUME NEW k \in 2..(MaxBackups + 1), bak' = [bak EXCEPT ![p] = Shifted(bak[p], k)]
        PROVE  bak' \in [Paths -> [Slots -> Contents \cup {Absent}]]
    <3>1. Shifted(bak[p], k) \in [Slots -> Contents \cup {Absent}]
      BY <1>t, ShiftedKeeps DEF RepoOK
    <3> QED
      BY <2>2, <3>1, <1>t DEF RepoOK
  <2> QED
    BY <2>1, <2>2 DEF WriteFails
<1>3. RepoOK' /\ Grown
  BY <1>1, <1>2, <1>t, NothingGrows DEF RepoOK, repo, Descends
<1> QED
  BY <1>1, <1>3, EndKeeps, OutcomeNames

\* A file is put in place, by one way or the other.
LEMMA Written ==
  ASSUME IInv, NEW j \in Jobs, Kind(j) = "write", job[j].pc \in {"checked", "copied"},
         work' = [work EXCEPT ![Target(j)] = job[j].step.content],
         UNCHANGED <<index, commits, heads, branch, remote, bak>>,
         \/ Advance(j, To(j, "ran")) /\ UNCHANGED <<gitLock, fsLock>>
         \/ Finish(j, "failed")
  PROVE  IInv'
<1>2. "ran" \in Pcs /\ "ran" \in Window /\ job[j].pc \in Window
  BY DEF Pcs, Window
<1>t. /\ RepoOK /\ AtWork(j) /\ Target(j) \in Paths /\ job[j].step.content \in Contents
  BY Prepared, OneTarget
<1>3. work' \in Trees /\ work'[Target(j)] = job[j].step.content
  BY <1>t DEF RepoOK, Trees
<1>4. RepoOK' /\ Grown
  BY <1>3, <1>t, NothingGrows DEF RepoOK, Descends
<1>5. CASE Finish(j, "failed")
  BY <1>2, <1>4, <1>5, EndKeeps, OutcomeNames DEF Finish
<1>6. CASE Advance(j, To(j, "ran")) /\ UNCHANGED <<gitLock, fsLock>>
  <2>m. /\ job'[j].pc = "ran" /\ job'[j].step = job[j].step
        /\ Kind(j)' = Kind(j) /\ Target(j)' = Target(j)
    BY <1>6, <1>2, Moved
  <2>1. AtWork(j)'
    BY <1>2, <1>6, <1>t, <2>m DEF AtWork
  <2>2. Knows(j)'
    BY <1>3, <2>m DEF Knows, KnowsFile
  <2>3. \A k \in Jobs \ {j} : KeepsLocks(k)
    BY <1>6 DEF KeepsLocks
  <2> QED
    BY <1>2, <1>4, <1>6, <2>1, <2>2, <2>3, Moved, GoesOn
<1> QED
  BY <1>5, <1>6

LEMMA ReplaceFileKeeps ==
  ASSUME IInv, NEW j \in Jobs, ReplaceFile(j)
  PROVE  IInv'
BY Written DEF ReplaceFile

LEMMA LinkFileKeeps ==
  ASSUME IInv, NEW j \in Jobs, LinkFile(j)
  PROVE  IInv'
<1>1. CASE Finish(j, "failed") /\ UNCHANGED work
  BY <1>1, EndsIdly, OutcomeNames DEF LinkFile, repo, Finish
<1>2. CASE work' = [work EXCEPT ![Target(j)] = job[j].step.content]
           /\ (\/ Advance(j, To(j, "ran")) /\ UNCHANGED <<gitLock, fsLock>>
               \/ Finish(j, "failed"))
  BY <1>2, Written DEF LinkFile
<1> QED
  BY <1>1, <1>2 DEF LinkFile

LEMMA ReadBackKeeps ==
  ASSUME IInv, NEW j \in Jobs, ReadBack(j)
  PROVE  IInv'
<1> DEFINE p == Target(j)
<1>1. /\ job[j].pc = "ran" /\ Kind(j) = "write"
      /\ UNCHANGED <<index, commits, heads, branch, remote>>
  BY DEF ReadBack
<1>t. RepoOK /\ p \in Paths /\ 1 \in Slots
  BY <1>1, Prepared, OneTarget, MaxBackupsAssumption DEF Slots
<1>2. PICK outcome \in Outcomes : FinishIn(j, outcome, {})
  BY OutcomeNames DEF ReadBack, Finish
<1>3. work' \in Trees /\ bak' \in [Paths -> [Slots -> Contents \cup {Absent}]]
  <2>1. CASE UNCHANGED <<work, bak>>
    BY <1>t, <2>1 DEF RepoOK
  <2>2. CASE work' = [work EXCEPT ![p] = Absent] /\ UNCHANGED bak
    BY <1>t, <2>2 DEF RepoOK, Trees
  <2>3. CASE work' = [work EXCEPT ![p] = bak[p][1]] /\ bak' = [bak EXCEPT ![p][1] = Absent]
    <3>1. bak[p] \in [Slots -> Contents \cup {Absent}]
      BY <1>t DEF RepoOK
    <3>2. bak[p][1] \in Contents \cup {Absent}
          /\ [bak[p] EXCEPT ![1] = Absent] \in [Slots -> Contents \cup {Absent}]
      BY <1>t, <3>1
    <3>3. bak' = [bak EXCEPT ![p] = [bak[p] EXCEPT ![1] = Absent]]
      BY <2>3
    <3> QED
      BY <1>t, <2>3, <3>2, <3>3 DEF RepoOK, Trees
  <2> QED
    BY <2>1, <2>2, <2>3 DEF ReadBack
<1>4. RepoOK' /\ Grown
  BY <1>1, <1>3, <1>t, NothingGrows DEF RepoOK, Descends
<1> QED
  BY <1>1, <1>2, <1>4, EndKeeps, OutcomeNames DEF Window

----------------------------------------------------------------------------
(* git add *)

LEMMA CopyIndexKeeps ==
  ASSUME IInv, NEW j \in Jobs, CopyIndex(j)
  PROVE  IInv'
<1> DEFINE new == [To(j, "copied") EXCEPT !.seen = Snapshot]
<1>1. job[j].pc = "checked" /\ Kind(j) = "add" /\ UNCHANGED <<repo, bak>>
  BY DEF CopyIndex
<1>3. Advance(j, new) /\ UNCHANGED <<gitLock, fsLock>>
  BY DEF CopyIndex
<1> QED
  <2>1. "copied" \in Pcs /\ "copied" \in Window /\ "checked" \in Window
    BY DEF Pcs, Window
  <2>t. job[j] \in JobType /\ RepoOK /\ AtWork(j) /\ Knows(j) /\ Snapshot \in View
    BY <1>1, Prepared, SnapshotView
  <2>2. /\ new \in JobType /\ new.pc = "copied" /\ new.step = job[j].step
        /\ new.shown = job[j].shown /\ new.touched = job[j].touched /\ new.seen = Snapshot
    BY <2>1, <2>t DEF JobType, To
  <2>3. job'[j] = new
    BY <1>3 DEF Advance
  <2> HIDE DEF new
  <2>4. RepoOK' /\ Grown
    BY <1>1, <2>t, SameRepo
  <2>5. AtWork(j)' /\ Kind(j)' = "add"
    BY <1>1, <1>3, <2>1, <2>2, <2>3, <2>t DEF AtWork, Kind
  <2>6. ~job[j].touched => KnowsIndex(j)
    BY <1>1, <2>1, <2>t DEF Knows
  <2>7. Snapshot.index = index /\ Snapshot.tree = HeadTree /\ Snapshot.work = work
    BY DEF Snapshot
  <2>8. UNCHANGED <<work, index>> /\ HeadTree' = HeadTree
    BY <1>1 DEF repo, HeadTree, TreeOf, Tip
  <2>9. ~job[j].touched => KnowsIndex(j)'
    BY <1>1, <2>t, <2>2, <2>3, <2>6, <2>7, <2>8 DEF KnowsIndex
  <2>10. Knows(j)'
    BY <2>2, <2>3, <2>5, <2>9 DEF Knows
  <2>11. \A k \in Jobs \ {j} : KeepsLocks(k)
    BY <1>3 DEF KeepsLocks
  <2> QED
    BY <1>1, <1>3, <2>1, <2>2, <2>4, <2>5, <2>10, <2>11, GoesOn

LEMMA CopyIndexFailsKeeps ==
  ASSUME IInv, NEW j \in Jobs, CopyIndexFails(j)
  PROVE  IInv'
BY EndsIdly, OutcomeNames DEF CopyIndexFails, Finish

LEMMA CommandFailsKeeps ==
  ASSUME IInv, NEW j \in Jobs, CommandFails(j)
  PROVE  IInv'
<1>1. /\ job[j].pc = (IF Kind(j) = "add" THEN "copied" ELSE "checked") /\ Kind(j) # "write"
      /\ UNCHANGED <<repo, bak, gitLock, fsLock>> /\ Advance(j, To(j, "erred"))
  BY DEF CommandFails
<1>2. "erred" \in Pcs /\ "erred" \in Window /\ job[j].pc \in Window /\ job[j].pc # "idle"
  BY <1>1 DEF Pcs, Window
<1>t. RepoOK /\ AtWork(j) /\ Knows(j)
  BY <1>2, Prepared
<1>m. /\ job'[j].pc = "erred" /\ job'[j].step = job[j].step /\ job'[j].shown = job[j].shown
      /\ job'[j].seen = job[j].seen /\ job'[j].touched = job[j].touched /\ Kind(j)' = Kind(j)
  BY <1>1, <1>2, Moved
<1>3. RepoOK' /\ Grown
  BY <1>1, <1>t, SameRepo
<1>4. AtWork(j)'
  BY <1>1, <1>2, <1>t, <1>m DEF AtWork
<1>5. UNCHANGED <<work, index, branch, heads, remote>> /\ HeadTree' = HeadTree /\ Tip' = Tip
  BY <1>1 DEF repo, HeadTree, TreeOf, Tip
<1>6. Knows(j)'
  <2> SUFFICES ASSUME ~job[j].touched PROVE Knows(j)'
    BY <1>m DEF Knows
  <2>1. CASE Kind(j) = "add"
    <3>1. KnowsIndex(j) /\ job[j].pc = "copied"
      BY <1>1, <1>2, <1>t, <2>1 DEF Knows
    <3>2. KnowsIndex(j)'
      BY <3>1, <1>m, <1>5 DEF KnowsIndex
    <3> QED
      BY <3>2, <2>1, <1>m DEF Knows
  <2>2. CASE Kind(j) = "commit"
    <3>1. KnowsBranch(j)
      BY <1>2, <1>t, <2>2 DEF Knows
    <3>2. KnowsBranch(j)'
      BY <1>1, <2>2, <3>1, <1>m, <1>5 DEF KnowsBranch
    <3> QED
      BY <3>2, <2>2, <1>m DEF Knows
  <2>3. CASE Kind(j) = "push"
    <3>1. KnowsRemote(j)
      BY <1>2, <1>t, <2>3 DEF Knows
    <3>2. KnowsRemote(j)'
      BY <1>1, <2>3, <3>1, <1>m, <1>5 DEF KnowsRemote
    <3> QED
      BY <3>2, <2>3, <1>m DEF Knows
  <2>4. Kind(j) \in Kinds
    BY <1>2, Prepared DEF Kind
  <2> QED
    BY <1>1, <2>1, <2>2, <2>3, <2>4 DEF Kinds
<1>7. \A k \in Jobs \ {j} : KeepsLocks(k)
  BY <1>1 DEF KeepsLocks
<1> QED
  BY <1>1, <1>2, <1>3, <1>4, <1>6, <1>7, Moved, GoesOn

LEMMA GitAddKeeps ==
  ASSUME IInv, NEW j \in Jobs, NEW answered \in BOOLEAN, GitAdd(j, answered)
  PROVE  IInv'
<1> DEFINE pc == IF answered THEN "ran" ELSE "erred"
           paths == job[j].step.paths
<1>1. /\ job[j].pc = "copied" /\ Kind(j) = "add"
      /\ index' = [p \in Paths |-> IF p \in paths THEN work[p] ELSE index[p]]
      /\ UNCHANGED <<work, commits, heads, branch, remote, bak, gitLock, fsLock>>
      /\ Advance(j, To(j, pc))
  BY DEF GitAdd
<1>2. pc \in {"ran", "erred"} /\ pc \in Pcs /\ pc \in Window /\ job[j].pc \in Window
  BY <1>1 DEF Pcs, Window
<1> HIDE DEF pc
<1>t. RepoOK /\ AtWork(j) /\ Knows(j)
  BY <1>1, Prepared
<1>m. /\ job'[j].pc = pc /\ job'[j].step = job[j].step /\ job'[j].shown = job[j].shown
      /\ job'[j].seen = job[j].seen /\ job'[j].touched = job[j].touched /\ Kind(j)' = Kind(j)
      /\ ToBeStaged(j)' = ToBeStaged(j)
  BY <1>1, <1>2, Moved
<1>3. index' \in Trees
  BY <1>1, <1>t DEF RepoOK, Trees
<1>4. RepoOK' /\ Grown
  BY <1>1, <1>3, <1>t, NothingGrows DEF RepoOK, Descends
<1>5. AtWork(j)'
  BY <1>1, <1>2, <1>t, <1>m DEF AtWork
<1>6. HeadTree' = HeadTree
  BY <1>1 DEF HeadTree, TreeOf, Tip
<1>7. Knows(j)'
  <2> SUFFICES ASSUME ~job[j].touched PROVE Knows(j)'
    BY <1>m DEF Knows
  <2>1. KnowsIndex(j)
    BY <1>1, <1>2, <1>t DEF Knows
  <2>2. index' = ToBeStaged(j)
    BY <2>1, <1>1 DEF KnowsIndex, ToBeStaged
  <2>3. KnowsIndex(j)'
    BY <2>1, <2>2, <1>1, <1>2, <1>m, <1>6 DEF KnowsIndex
  <2> QED
    BY <2>3, <1>1, <1>m DEF Knows
<1>8. \A k \in Jobs \ {j} : KeepsLocks(k)
  BY <1>1 DEF KeepsLocks
<1> QED
  BY <1>1, <1>2, <1>4, <1>5, <1>7, <1>8, Moved, GoesOn

LEMMA CheckAddKeeps ==
  ASSUME IInv, NEW j \in Jobs, NEW answered \in BOOLEAN, CheckAdd(j, answered)
  PROVE  IInv'
<1>1. /\ job[j].pc \in {"ran", "erred"} /\ Kind(j) = "add"
      /\ UNCHANGED <<work, commits, heads, branch, remote, bak>>
      /\ index' \in {index, job[j].seen.index}
  BY DEF CheckAdd
<1>2. PICK outcome \in Outcomes, trouble \in SUBSET Troubles : FinishIn(j, outcome, trouble)
  BY OutcomeNames DEF CheckAdd, Finish, Troubles
<1>t. RepoOK /\ job[j].seen \in View
  BY <1>1, Prepared DEF AtWork, Window
<1>3. RepoOK' /\ Grown
  BY <1>1, <1>t, NothingGrows DEF RepoOK, Descends, View
<1> QED
  BY <1>1, <1>2, <1>3, EndKeeps DEF Window

----------------------------------------------------------------------------
(* git commit *)

\* A commit, by whomever.
LEMMA CommitRecorded ==
  ASSUME RepoOK, commits' = Record(index, Tip),
         heads' = [heads EXCEPT ![branch] = Len(commits) + 1],
         UNCHANGED <<work, index, branch, remote, bak>>
  PROVE  /\ RepoOK' /\ Grown
         /\ Len(commits) \in Nat /\ Tip' = Len(commits) + 1
         /\ commits'[Tip'].tree = index /\ commits'[Tip'].parent = Tip
<1>1. index \in Trees /\ Tip \in 0..Len(commits) /\ Len(commits) \in Nat
  BY SnapshotView DEF RepoOK
<1>2. /\ Grown /\ commits' \in Seq(Commit) /\ Len(commits') = Len(commits) + 1
      /\ commits'[Len(commits')].tree = index /\ commits'[Len(commits')].parent = Tip
      /\ \A c \in 1..Len(commits') : Descends(c)'
  BY <1>1, RecordGrows
<1>3. 0..Len(commits) \subseteq 0..Len(commits') /\ Len(commits) + 1 \in 0..Len(commits')
  BY <1>1, <1>2
<1>4. heads' \in [Branches -> 0..Len(commits')] /\ remote' \in 0..Len(commits')
  BY <1>3 DEF RepoOK
<1>5. RepoOK'
  BY <1>2, <1>4 DEF RepoOK
<1>6. Tip' = Len(commits) + 1
  BY DEF Tip, RepoOK
<1> QED
  BY <1>1, <1>2, <1>5, <1>6

LEMMA GitCommitKeeps ==
  ASSUME IInv, NEW j \in Jobs, NEW answered \in BOOLEAN, GitCommit(j, answered)
  PROVE  IInv'
<1> DEFINE pc == IF answered THEN "ran" ELSE "erred"
<1>1. /\ job[j].pc = "checked" /\ Kind(j) = "commit"
      /\ commits' = Record(index, Tip) /\ heads' = [heads EXCEPT ![branch] = Len(commits) + 1]
      /\ UNCHANGED <<work, index, branch, remote, bak, gitLock, fsLock>>
      /\ Advance(j, To(j, pc))
  BY DEF GitCommit
<1>2. pc \in {"ran", "erred"} /\ pc \in Pcs /\ pc \in Window /\ job[j].pc \in Window
  BY <1>1 DEF Pcs, Window
<1> HIDE DEF pc
<1>t. RepoOK /\ AtWork(j) /\ Knows(j)
  BY <1>1, Prepared
<1>m. /\ job'[j].pc = pc /\ job'[j].shown = job[j].shown
      /\ job'[j].touched = job[j].touched /\ Kind(j)' = Kind(j)
  BY <1>1, <1>2, Moved
<1>3. /\ RepoOK' /\ Grown
      /\ Len(commits) \in Nat /\ Tip' = Len(commits) + 1
      /\ commits'[Tip'].tree = index /\ commits'[Tip'].parent = Tip
  BY <1>1, <1>t, CommitRecorded
<1>4. AtWork(j)'
  BY <1>1, <1>2, <1>t, <1>m DEF AtWork
<1>5. Knows(j)'
  <2> SUFFICES ASSUME ~job[j].touched PROVE Knows(j)'
    BY <1>m DEF Knows
  <2>1. KnowsBranch(j)
    BY <1>1, <1>2, <1>t DEF Knows
  <2>2. index = job[j].shown.index /\ branch = job[j].shown.branch /\ Tip = job[j].shown.tip
    BY <2>1, <1>1 DEF KnowsBranch
  <2>3. Tip' > Tip
    BY <1>3, <1>t, SnapshotView
  <2>4. KnowsBranch(j)'
    BY <2>2, <2>3, <1>1, <1>2, <1>3, <1>m DEF KnowsBranch, CommitMade
  <2> QED
    BY <2>4, <1>1, <1>m DEF Knows
<1>6. \A k \in Jobs \ {j} : KeepsLocks(k)
  BY <1>1 DEF KeepsLocks
<1> QED
  BY <1>1, <1>2, <1>3, <1>4, <1>5, <1>6, Moved, GoesOn

LEMMA CheckCommitKeeps ==
  ASSUME IInv, NEW j \in Jobs, NEW answered \in BOOLEAN, CheckCommit(j, answered)
  PROVE  IInv'
<1>1. job[j].pc # "idle" /\ UNCHANGED <<repo, bak>>
  BY DEF CheckCommit
<1>2. PICK outcome \in Outcomes, trouble \in SUBSET Troubles : FinishIn(j, outcome, trouble)
  BY OutcomeNames DEF CheckCommit, Finish
<1> QED
  BY <1>1, <1>2, EndsIdly

----------------------------------------------------------------------------
(* git push *)

LEMMA GitPushKeeps ==
  ASSUME IInv, NEW j \in Jobs, NEW answer \in {"ran", "erred", "rejected"}, GitPush(j, answer)
  PROVE  IInv'
<1>1. /\ job[j].pc = "checked" /\ Kind(j) = "push" /\ remote' = heads[Main]
      /\ UNCHANGED <<work, index, commits, heads, branch, bak>>
  BY DEF GitPush
<1>2. {"ran", "erred"} \subseteq Pcs /\ {"ran", "erred"} \subseteq Window /\ job[j].pc \in Window
  BY <1>1 DEF Pcs, Window
<1>t. RepoOK /\ AtWork(j) /\ Knows(j)
  BY <1>1, Prepared
<1>3. heads[Main] \in 0..Len(commits)
  BY <1>t DEF RepoOK, Branches
<1>4. RepoOK' /\ Grown
  BY <1>1, <1>3, <1>t, NothingGrows DEF RepoOK, Descends
<1>5. CASE Finish(j, "failed")
  BY <1>1, <1>2, <1>4, <1>5, EndKeeps, OutcomeNames DEF Finish
<1>6. CASE /\ answer \in {"ran", "erred"} /\ Advance(j, To(j, answer))
           /\ UNCHANGED <<gitLock, fsLock>>
  <2>m. /\ job'[j].pc = answer /\ job'[j].shown = job[j].shown
        /\ job'[j].touched = job[j].touched /\ Kind(j)' = Kind(j)
    BY <1>6, <1>2, Moved
  <2>1. AtWork(j)'
    BY <1>1, <1>2, <1>6, <1>t, <2>m DEF AtWork
  <2>2. Knows(j)'
    <3> SUFFICES ASSUME ~job[j].touched PROVE Knows(j)'
      BY <2>m DEF Knows
    <3>1. KnowsRemote(j)
      BY <1>1, <1>2, <1>t DEF Knows
    <3>2. KnowsRemote(j)'
      BY <3>1, <1>1, <1>6, <2>m DEF KnowsRemote
    <3> QED
      BY <3>2, <1>1, <2>m DEF Knows
  <2>3. \A k \in Jobs \ {j} : KeepsLocks(k)
    BY <1>6 DEF KeepsLocks
  <2> QED
    BY <1>1, <1>2, <1>4, <1>6, <2>1, <2>2, <2>3, Moved, GoesOn
<1> QED
  BY <1>5, <1>6 DEF GitPush

LEMMA GitPushRejectedKeeps ==
  ASSUME IInv, NEW j \in Jobs, GitPushRejected(j)
  PROVE  IInv'
BY EndsIdly, OutcomeNames DEF GitPushRejected, Finish

LEMMA CheckPushKeeps ==
  ASSUME IInv, NEW j \in Jobs, NEW answered \in BOOLEAN, CheckPush(j, answered)
  PROVE  IInv'
<1>1. job[j].pc # "idle" /\ UNCHANGED <<repo, bak>>
  BY DEF CheckPush
<1>2. PICK outcome \in Outcomes, trouble \in SUBSET Troubles : FinishIn(j, outcome, trouble)
  BY OutcomeNames DEF CheckPush, Finish
<1> QED
  BY <1>1, <1>2, EndsIdly

----------------------------------------------------------------------------
(* Other programs *)

LEMMA OthersEditKeeps ==
  ASSUME IInv, NEW p \in Paths, NEW c \in Contents \cup {Absent}, OthersEdit(p, c)
  PROVE  IInv'
<1>1. /\ work' = [work EXCEPT ![p] = c] /\ Others
      /\ UNCHANGED <<index, commits, heads, branch, remote, bak>>
  BY DEF OthersEdit, Others
<1>2. work' \in Trees
  BY <1>1 DEF IInv, RepoOK, Trees
<1>3. RepoOK' /\ Grown
  BY <1>1, <1>2, NothingGrows DEF IInv, RepoOK, Descends
<1> QED
  BY <1>1, <1>3, OthersKeep

LEMMA OthersStageKeeps ==
  ASSUME IInv, NEW p \in Paths, OthersStage(p)
  PROVE  IInv'
<1>1. /\ index' = [index EXCEPT ![p] = work[p]] /\ Others
      /\ UNCHANGED <<work, commits, heads, branch, remote, bak>>
  BY DEF OthersStage, Others
<1>2. index' \in Trees
  BY <1>1 DEF IInv, RepoOK, Trees
<1>3. RepoOK' /\ Grown
  BY <1>1, <1>2, NothingGrows DEF IInv, RepoOK, Descends
<1> QED
  BY <1>1, <1>3, OthersKeep

LEMMA OthersCommitKeeps ==
  ASSUME IInv, OthersCommit
  PROVE  IInv'
<1>1. /\ commits' = Record(index, Tip) /\ heads' = [heads EXCEPT ![branch] = Len(commits) + 1]
      /\ UNCHANGED <<work, index, branch, remote, bak>> /\ Others
  BY DEF OthersCommit, Others
<1>2. RepoOK' /\ Grown
  BY <1>1, CommitRecorded DEF IInv
<1> QED
  BY <1>1, <1>2, OthersKeep

LEMMA OthersCheckoutKeeps ==
  ASSUME IInv, NEW b \in Branches, OthersCheckout(b)
  PROVE  IInv'
<1> DEFINE tree   == TreeOf(heads[b])
           differ == Differing(HeadTree, tree)
<1>1. /\ work' = [p \in Paths |-> IF p \in differ THEN tree[p] ELSE work[p]]
      /\ index' = [p \in Paths |-> IF p \in differ THEN tree[p] ELSE index[p]]
      /\ branch' = b /\ UNCHANGED <<commits, heads, remote, bak>> /\ Others
  BY DEF OthersCheckout, Others
<1>2. tree \in Trees
  BY TreeIsTree DEF IInv, RepoOK
<1> HIDE DEF tree, differ
<1>3. work' \in Trees /\ index' \in Trees
  BY <1>1, <1>2 DEF IInv, RepoOK, Trees
<1>4. RepoOK' /\ Grown
  BY <1>1, <1>3, NothingGrows DEF IInv, RepoOK, Descends
<1> QED
  BY <1>1, <1>4, OthersKeep

LEMMA OthersPushKeeps ==
  ASSUME IInv, OthersPush
  PROVE  IInv'
<1>1. /\ commits' = Record(TreeOf(remote), remote) /\ remote' = Len(commits) + 1
      /\ UNCHANGED <<work, index, heads, branch, bak>> /\ Others
  BY DEF OthersPush, Others
<1>t. RepoOK /\ remote \in 0..Len(commits) /\ Len(commits) \in Nat
  BY DEF IInv, RepoOK
<1>2. TreeOf(remote) \in Trees
  BY <1>t, TreeIsTree
<1>3. /\ Grown /\ commits' \in Seq(Commit) /\ Len(commits') = Len(commits) + 1
      /\ \A c \in 1..Len(commits') : Descends(c)'
  BY <1>1, <1>2, <1>t, RecordGrows
<1>4. 0..Len(commits) \subseteq 0..Len(commits') /\ Len(commits) + 1 \in 0..Len(commits')
  BY <1>t, <1>3
<1>5. heads' \in [Branches -> 0..Len(commits')] /\ remote' \in 0..Len(commits')
  BY <1>1, <1>t, <1>4 DEF RepoOK
<1>6. RepoOK'
  BY <1>1, <1>t, <1>3, <1>5 DEF RepoOK
<1> QED
  BY <1>1, <1>3, <1>6, OthersKeep

----------------------------------------------------------------------------
(* The invariant *)

LEMMA InitOK ==
  ASSUME Init
  PROVE  IInv
<1>1. PICK base \in FirstTrees :
        commits \in {<<>>, <<[tree |-> base, parent |-> 0, past |-> {1}]>>,
                    <<[tree |-> base, parent |-> 0, past |-> {1}],
                      [tree |-> work, parent |-> 1, past |-> {1, 2}]>>}
  BY DEF Init
<1>2. work \in Trees /\ base \in Trees
  BY FirstTreesAssumption DEF Init
<1>3. /\ [tree |-> base, parent |-> 0, past |-> {1}] \in Commit
      /\ [tree |-> work, parent |-> 1, past |-> {1, 2}] \in Commit
  BY <1>2 DEF Commit, Ids
<1>4. /\ commits \in Seq(Commit) /\ Len(commits) \in {0, 1, 2}
      /\ commits # <<>> => Len(commits) # 0
  <2> DEFINE first  == [tree |-> base, parent |-> 0, past |-> {1}]
             second == [tree |-> work, parent |-> 1, past |-> {1, 2}]
  <2> HIDE DEF first, second
  <2>1. first \in Commit /\ second \in Commit
    BY <1>3 DEF first, second
  <2>2. commits = <<>> \/ commits = <<first>> \/ commits = <<first, second>>
    BY <1>1 DEF first, second
  <2>3. CASE commits = <<>>
    BY <2>3
  <2>4. CASE commits = <<first>>
    BY <2>1, <2>4
  <2>5. CASE commits = <<first, second>>
    BY <2>1, <2>5
  <2> QED
    BY <2>2, <2>3, <2>4, <2>5
<1>5. /\ Len(commits) # 0 => commits[1].parent = 0 /\ commits[1].past = {1}
      /\ Len(commits) = 2 => commits[2].parent = 1 /\ commits[2].past = {1, 2}
  BY <1>1
<1>6. \A c \in 1..Len(commits) : Descends(c)
  <2>1. Len(commits) # 0 => Descends(1)
    BY <1>5 DEF Descends
  <2>2. Len(commits) = 2 => Descends(2)
    BY <1>5 DEF Descends
  <2> SUFFICES ASSUME NEW c \in 1..Len(commits) PROVE Descends(c)
    OBVIOUS
  <2>3. Len(commits) # 0 /\ (c = 1 \/ (c = 2 /\ Len(commits) = 2))
    <3>0. CASE Len(commits) = 0
      BY <3>0
    <3>1. CASE Len(commits) = 1
      BY <3>1
    <3>2. CASE Len(commits) = 2
      BY <3>2
    <3> QED
      BY <1>4, <3>0, <3>1, <3>2
  <2> QED
    BY <2>1, <2>2, <2>3
<1>7. heads \in [Branches -> 0..Len(commits)] /\ branch \in Branches /\ remote \in 0..Len(commits)
  <2>1. remote \in 0..Len(commits)
    BY <1>4 DEF Init
  <2> QED
    BY <2>1, <1>4 DEF Init, Branches
<1>8. index \in Trees
  <2>1. Tip \in 0..Len(commits)
    BY <1>7 DEF Tip
  <2>2. CASE Tip = 0
    BY <2>2 DEF Init, HeadTree, TreeOf, Trees
  <2>3. CASE Tip # 0
    <3>1. Tip \in 1..Len(commits)
      BY <2>1, <2>3, <1>4
    <3>2. commits[Tip] \in Commit
      BY <3>1, <1>4
    <3> QED
      BY <2>3, <3>2 DEF Init, HeadTree, TreeOf, Commit
  <2> QED
    BY <2>2, <2>3
<1>9. bak \in [Paths -> [Slots -> Contents \cup {Absent}]]
  BY DEF Init
<1>10. RepoOK
  BY <1>2, <1>4, <1>6, <1>7, <1>8, <1>9 DEF RepoOK
<1>11. DOMAIN job = Jobs /\ \A j \in Jobs : job[j] = NoJob
  BY DEF Init
<1>12. NoJob \in JobType /\ NoJob.pc = "idle"
  BY DEF NoJob, JobType, Pcs
<1>13. \A j \in Jobs : JobOK(j)
  BY <1>11, <1>12 DEF JobOK, ShownOK, AtWork, Knows, Window
<1> QED
  BY <1>10, <1>11, <1>13 DEF IInv

LEMMA JobStepKeeps ==
  ASSUME IInv, NEW j \in Jobs, JobStep(j)
  PROVE  IInv'
<1>1. CASE \E s \in Approved : Prepare(j, s)
  BY <1>1, PrepareKeeps
<1>2. CASE Confirm(j) \/ Begin(j) \/ BeginRefused(j)
  BY <1>2, ConfirmKeeps, BeginKeeps, BeginRefusedKeeps
<1>3. CASE CopyFile(j) \/ WriteFails(j) \/ ReplaceFile(j) \/ LinkFile(j) \/ ReadBack(j)
  BY <1>3, CopyFileKeeps, WriteFailsKeeps, ReplaceFileKeeps, LinkFileKeeps, ReadBackKeeps
<1>4. CASE CopyIndex(j) \/ CopyIndexFails(j) \/ CommandFails(j)
  BY <1>4, CopyIndexKeeps, CopyIndexFailsKeeps, CommandFailsKeeps
<1>5. CASE \E answered \in BOOLEAN : GitAdd(j, answered) \/ CheckAdd(j, answered)
  BY <1>5, GitAddKeeps, CheckAddKeeps
<1>6. CASE \E answered \in BOOLEAN :
        GitCommit(j, answered) \/ CheckCommit(j, answered) \/ CheckPush(j, answered)
  BY <1>6, GitCommitKeeps, CheckCommitKeeps, CheckPushKeeps
<1>7. CASE \E answer \in {"ran", "erred", "rejected"} : GitPush(j, answer)
  BY <1>7, GitPushKeeps
<1>8. CASE GitPushRejected(j)
  BY <1>8, GitPushRejectedKeeps
<1> QED
  BY <1>1, <1>2, <1>3, <1>4, <1>5, <1>6, <1>7, <1>8 DEF JobStep

LEMMA NextKeeps ==
  ASSUME IInv, [Next]_vars
  PROVE  IInv'
<1>1. CASE \E j \in Jobs : JobStep(j)
  BY <1>1, JobStepKeeps
<1>2. CASE OthersStep
  BY <1>2, OthersEditKeeps, OthersStageKeeps, OthersCommitKeeps, OthersCheckoutKeeps,
     OthersPushKeeps DEF OthersStep
<1>3. CASE UNCHANGED vars
  <2>1. UNCHANGED <<repo, bak, job, gitLock, fsLock>>
    BY <1>3 DEF vars
  <2>2. RepoOK' /\ Grown
    BY <2>1, SameRepo DEF IInv
  <2>3. \A k \in Jobs : JobOK(k)'
    <3>1. \A k \in Jobs : KeepsLocks(k) /\ job'[k] = job[k]
      BY <2>1 DEF KeepsLocks
    <3> QED
      BY <2>1, <2>2, <3>1, UndisturbedKeeps
  <2> QED
    BY <2>1, <2>2, <2>3 DEF IInv
<1> QED
  BY <1>1, <1>2, <1>3 DEF Next

\* The invariant: a well-formed history, held locks, and what untouched jobs know.
THEOREM IInvHolds == Spec => []IInv
<1>1. Init => IInv
  BY InitOK
<1>2. IInv /\ [Next]_vars => IInv'
  BY NextKeeps
<1> QED
  BY <1>1, <1>2, PTL DEF Spec

----------------------------------------------------------------------------
(* The properties *)

\* A job that has ended or changed its place has done so itself.
LEMMA OnesOwnStep ==
  ASSUME IInv, [Next]_vars, NEW j \in Jobs, job'[j].pc # job[j].pc
  PROVE  JobStep(j)
<1>1. job[j] \in JobType
  BY DEF IInv, JobOK
<1>2. Disturb(j).pc = job[j].pc
  BY <1>1 DEF Disturb, JobType
<1>3. ASSUME Others PROVE FALSE
  BY <1>2, <1>3 DEF Others
<1>4. ASSUME NEW k \in Jobs, NEW new, k # j, Advance(k, new) PROVE FALSE
  BY <1>2, <1>4 DEF Advance
<1>5. ASSUME NEW k \in Jobs, k # j, JobStep(k) PROVE FALSE
  <2>1. \E new : Advance(k, new)
    BY <1>5 DEF JobStep, Prepare, Confirm, Begin, BeginRefused, CopyFile, WriteFails,
       ReplaceFile, LinkFile, ReadBack, CopyIndex, CopyIndexFails, CommandFails, CheckAdd, GitAdd,
       GitCommit, CheckCommit, GitPush, GitPushRejected, CheckPush, Finish, FinishIn
  <2> QED
    BY <1>4, <1>5, <2>1
<1>6. ~OthersStep
  BY <1>3 DEF OthersStep, OthersEdit, OthersStage, OthersCommit, OthersCheckout, OthersPush
<1>7. ~UNCHANGED vars
  BY DEF vars
<1> QED
  BY <1>5, <1>6, <1>7 DEF Next

LEMMA Ended ==
  ASSUME IInv, NEW j \in Jobs, NEW outcome, NEW trouble, FinishIn(j, outcome, trouble)
  PROVE  /\ job'[j].pc = outcome /\ job'[j].trouble = trouble
         /\ job'[j].step = job[j].step /\ job'[j].shown = job[j].shown
         /\ Kind(j)' = Kind(j) /\ Target(j)' = Target(j) /\ ToBeStaged(j)' = ToBeStaged(j)
<1>1. job[j] \in JobType
  BY DEF IInv, JobOK
<1>2. job'[j] = [To(j, outcome) EXCEPT !.seen = <<>>, !.trouble = trouble]
  BY DEF FinishIn, Advance
<1> QED
  BY <1>1, <1>2 DEF To, JobType, Kind, Target, ToBeStaged

LEMMA AdvancedPc ==
  ASSUME NEW j \in Jobs, NEW pc, Advance(j, To(j, pc)), IInv
  PROVE  job'[j].pc = pc
<1>1. job[j] \in JobType
  BY DEF IInv, JobOK
<1> QED
  BY <1>1 DEF Advance, To, JobType

\* How a job ends well.
LEMMA SuccessBy ==
  ASSUME IInv, [Next]_vars, NEW j \in Jobs, Ends(j, {"success"})
  PROVE  /\ job[j].pc = "ran" /\ UNCHANGED <<work, index, commits, heads, branch, remote>>
         /\ \/ Kind(j) = "write" /\ ReadBack(j) /\ work[Target(j)] = job[j].step.content
            \/ Kind(j) = "add"
            \/ Kind(j) = "commit"
            \/ Kind(j) = "push" /\ remote = job[j].shown.tip
<1>1. job'[j].pc = "success" /\ job[j].pc # "success"
  BY DEF Ends
<1>2. JobStep(j)
  BY <1>1, OnesOwnStep
<1>3. \A pc : Advance(j, To(j, pc)) => pc = "success"
  BY <1>1, AdvancedPc
<1>4. \A outcome, trouble : FinishIn(j, outcome, trouble) => outcome = "success"
  BY <1>1, Ended
<1>5. ASSUME NEW s \in Approved, Prepare(j, s) PROVE FALSE
  <2>1. job[j] \in JobType
    BY DEF IInv, JobOK
  <2>2. job'[j].pc = "previewed"
    BY <1>5, <2>1 DEF Prepare, Advance, JobType
  <2> QED
    BY <1>1, <2>2
<1>6. CASE Confirm(j) \/ Begin(j) \/ BeginRefused(j)
  BY <1>3, <1>4, <1>6 DEF Confirm, Begin, BeginRefused, Finish
<1>7. CASE CopyFile(j) \/ WriteFails(j) \/ ReplaceFile(j) \/ LinkFile(j)
  BY <1>3, <1>4, <1>7 DEF CopyFile, WriteFails, ReplaceFile, LinkFile, Finish
<1>8. CASE ReadBack(j)
  BY <1>4, <1>8 DEF ReadBack, Finish
<1>9. CASE CopyIndex(j)
  <2>1. job[j] \in JobType
    BY DEF IInv, JobOK
  <2>2. Advance(j, [To(j, "copied") EXCEPT !.seen = Snapshot]) => job'[j].pc = "copied"
    BY <2>1 DEF Advance, To, JobType
  <2> QED
    BY <1>1, <1>9, <2>2 DEF CopyIndex
<1>10. CASE CopyIndexFails(j) \/ CommandFails(j)
  BY <1>3, <1>4, <1>10 DEF CopyIndexFails, CommandFails, Finish
<1>11. CASE \E answered \in BOOLEAN : CheckAdd(j, answered)
  BY <1>4, <1>11 DEF CheckAdd, Staged, Finish
<1>12. CASE \E answered \in BOOLEAN : GitAdd(j, answered) \/ GitCommit(j, answered)
  BY <1>3, <1>12 DEF GitAdd, GitCommit
<1>13. CASE \E answered \in BOOLEAN : CheckCommit(j, answered)
  BY <1>4, <1>13 DEF CheckCommit, repo, Finish
<1>14. CASE \E answer \in {"ran", "erred", "rejected"} : GitPush(j, answer)
  BY <1>3, <1>4, <1>14 DEF GitPush, Finish
<1>15. CASE GitPushRejected(j)
  BY <1>4, <1>15 DEF GitPushRejected, Finish
<1>16. CASE \E answered \in BOOLEAN : CheckPush(j, answered)
  BY <1>4, <1>16 DEF CheckPush, repo, Finish
<1> QED
  BY <1>2, <1>5, <1>6, <1>7, <1>8, <1>9, <1>10, <1>11, <1>12, <1>13, <1>14, <1>15, <1>16
     DEF JobStep

\* Types: every commit descends from older ones, heads and remote are commits, files,
\* index and backup slots hold texts, and a job is of an approved step.
THEOREM TypeCorrect == Spec => [](RepoOK /\ \A j \in Jobs : job[j] \in JobType)
<1>1. IInv => RepoOK /\ \A j \in Jobs : job[j] \in JobType
  BY DEF IInv, JobOK
<1> QED
  BY <1>1, IInvHolds, PTL

LEMMA SuccessStep ==
  ASSUME IInv, [Next]_vars, NEW j \in Jobs, Ends(j, {"success"}), ~job[j].touched
  PROVE  Announced(j)
<1>1. job[j].pc = "ran" /\ job[j].pc \in Window
  BY SuccessBy DEF Window
<1>2. Knows(j) /\ Kind(j) \in Kinds
  BY <1>1, Prepared DEF Kind
<1>3. CASE Kind(j) = "write"
  BY <1>3, SuccessBy DEF Announced, Kind
<1>4. CASE Kind(j) = "add"
  BY <1>1, <1>2, <1>4 DEF Announced, Kind, Knows, KnowsIndex
<1>5. CASE Kind(j) = "commit"
  <2>1. KnowsBranch(j) /\ CommitMade(j)
    BY <1>1, <1>2, <1>5 DEF Knows, KnowsBranch
  <2>2. Tip # 0
    BY <1>1, <2>1, Prepared, SnapshotView DEF CommitMade, View
  <2> QED
    BY <1>5, <2>1, <2>2 DEF Announced, Kind, KnowsBranch, CommitMade
<1>6. CASE Kind(j) = "push"
  BY <1>6, SuccessBy DEF Announced, Kind
<1> QED
  BY <1>2, <1>3, <1>4, <1>5, <1>6 DEF Kinds

\* A mutation reports success only when the workspace is what its preview announced, but
\* for what somebody else did between the adapter's comparison and its last look.
THEOREM SuccessIsExactHolds == Spec => SuccessIsExact
<1>1. IInv /\ [Next]_vars =>
        \A j \in Jobs : Ends(j, {"success"}) /\ ~job[j].touched => Announced(j)
  BY SuccessStep
<1> QED
  BY <1>1, IInvHolds, PTL DEF Spec, SuccessIsExact

----------------------------------------------------------------------------
(* Failures *)

\* An untouched job that looks at its result finds what it has made, if that can be seen.
LEMMA StagedAsShown ==
  ASSUME IInv, NEW j \in Jobs, job[j].pc = "ran", Kind(j) = "add", ~job[j].touched,
         ~Unverifiable(j)
  PROVE  Staged(j) /\ \A p \in job[j].step.paths : work[p] # Absent
<1> DEFINE paths == job[j].step.paths
           shown == job[j].shown
           seen  == job[j].seen
<1>1. /\ ShownOK(j) /\ paths \subseteq Paths /\ job[j].step.kind = "add"
      /\ shown \in View /\ KnowsIndex(j)
  BY Prepared DEF Knows, Window, Kind
<1>2. /\ \A p \in paths : shown.work[p] # Absent
      /\ \A p \in paths : AsText[shown.work[p]] = shown.work[p]
      /\ StagedNames(shown.tree, ToBeStaged(j)) = StagedNames(shown.tree, shown.index) \cup paths
  BY <1>1 DEF ShownOK, Unverifiable
<1>3. /\ HeadTree = shown.tree /\ \A p \in paths : work[p] = shown.work[p]
      /\ index = ToBeStaged(j)
      /\ seen.index = shown.index /\ seen.tree = shown.tree
      /\ \A p \in paths : seen.work[p] = shown.work[p]
  BY <1>1 DEF KnowsIndex
<1>4. \A p \in paths : index[p] = shown.work[p]
  BY <1>1, <1>3 DEF ToBeStaged
<1> HIDE DEF paths, shown, seen
<1>5. StagedPaths = StagedNames(seen.tree, seen.index) \cup paths
  BY <1>2, <1>3 DEF StagedPaths
<1>6. \A p \in paths : /\ index[p] # Absent /\ work[p] = AsText[index[p]]
                       /\ work[p] = seen.work[p]
  BY <1>2, <1>3, <1>4
<1>7. \A p \in paths : work[p] # Absent
  BY <1>2, <1>3
<1> QED
  BY <1>5, <1>6, <1>7 DEF Staged, paths, seen

LEMMA CommittedAsShown ==
  ASSUME IInv, NEW j \in Jobs, job[j].pc = "ran", Kind(j) = "commit", ~job[j].touched,
         ~Unverifiable(j)
  PROVE  Committed(j)
<1> DEFINE shown == job[j].shown
<1>1. /\ ShownOK(j) /\ job[j].step.kind = "commit" /\ shown \in View /\ KnowsBranch(j)
      /\ CommitMade(j) /\ RepoOK
  BY Prepared DEF Knows, KnowsBranch, Window, Kind
<1>2. /\ shown.tip \in Nat /\ shown.tip # 0 /\ shown.tree = commits[shown.tip].tree
      /\ job[j].step.paths = Differing(shown.tree, shown.index)
      /\ \A p \in job[j].step.paths : Printed[p] = p
  <2>1. /\ shown.tip # 0 /\ Renamed(shown.tree, shown.index) = {}
        /\ \A p \in job[j].step.paths : Printed[p] = p
    BY <1>1 DEF Unverifiable
  <2>2. job[j].step.paths = Differing(shown.tree, shown.index)
    BY <1>1, <2>1 DEF ShownOK, StagedNames
  <2> QED
    BY <1>1, <2>1, <2>2 DEF ShownOK, View, TreeOf
<1>3. /\ Tip > shown.tip /\ commits[Tip].tree = shown.index /\ commits[Tip].parent = shown.tip
  BY <1>1 DEF CommitMade
<1>4. Tip \in Nat
  BY <1>1, SnapshotView DEF RepoOK
<1> HIDE DEF shown
<1>5. ChangedPaths(Tip) = {Printed[p] : p \in Differing(shown.tree, shown.index)}
  BY <1>2, <1>3 DEF ChangedPaths
<1>6. ChangedPaths(Tip) = job[j].step.paths
  BY <1>2, <1>5
<1>7. Tip # shown.tip /\ Tip # 0
  BY <1>2, <1>3, <1>4
<1> QED
  BY <1>3, <1>6, <1>7 DEF Committed, TreeOf, shown

\* How a job ends badly.
LEMMA FailureBy ==
  ASSUME IInv, [Next]_vars, NEW j \in Jobs, Ends(j, {"failed", "mismatch"}), job[j].pc \in Window
  PROVE  /\ job[j].pc # "idle"
         /\ \/ WriteFails(j) \/ ReplaceFile(j) \/ LinkFile(j) \/ ReadBack(j)
            \/ CopyIndexFails(j)
            \/ \E answered \in BOOLEAN :
                 CheckAdd(j, answered) \/ CheckCommit(j, answered) \/ CheckPush(j, answered)
            \/ GitPush(j, "rejected") \/ GitPushRejected(j)
<1>1. job'[j].pc \in {"failed", "mismatch"} /\ job[j].pc \notin {"failed", "mismatch", "idle"}
  BY DEF Ends, Window
<1>2. JobStep(j)
  BY <1>1, OnesOwnStep
<1>3. \A pc : Advance(j, To(j, pc)) => pc \in {"failed", "mismatch"}
  BY <1>1, AdvancedPc
<1>4. CASE Confirm(j) \/ Begin(j) \/ BeginRefused(j) \/ \E a \in Approved : Prepare(j, a)
  BY <1>4 DEF Confirm, Begin, BeginRefused, Prepare, Window
<1>5. CASE CopyFile(j) \/ CommandFails(j)
  BY <1>3, <1>5 DEF CopyFile, CommandFails
<1>6. CASE CopyIndex(j)
  <2>1. job[j] \in JobType
    BY DEF IInv, JobOK
  <2>2. job'[j].pc = "copied"
    BY <1>6, <2>1 DEF CopyIndex, Advance, To, JobType
  <2> QED
    BY <1>1, <2>2
<1>7. CASE \E answered \in BOOLEAN : GitAdd(j, answered) \/ GitCommit(j, answered)
  BY <1>3, <1>7 DEF GitAdd, GitCommit
<1>8. ASSUME NEW answer \in {"ran", "erred", "rejected"}, GitPush(j, answer)
      PROVE  GitPush(j, "rejected")
  BY <1>3, <1>8 DEF GitPush
<1> QED
  BY <1>1, <1>2, <1>4, <1>5, <1>6, <1>7, <1>8 DEF JobStep

LEMMA ShownAgain ==
  ASSUME IInv, NEW j \in Jobs, job[j].pc # "idle", job'[j].step = job[j].step,
         job'[j].shown = job[j].shown, Same(job[j].step, job[j].shown, Snapshot')
  PROVE  AsShown(j)'
<1>1. job[j].step.kind \in Kinds
  BY Prepared
<1>2. Concern(job[j].step, job[j].shown) = Concern(job[j].step, Snapshot')
  BY <1>1, ConcernIsSame
<1> QED
  BY <1>2 DEF AsShown

LEMMA WriteFailure ==
  ASSUME IInv, [Next]_vars, NEW j \in Jobs, Ends(j, {"failed", "mismatch"}), job[j].pc \in Window,
         ~job[j].touched, Kind(j) = "write"
  PROVE  (AsShown(j)' \/ Announced(j)') /\ job'[j].pc # "mismatch"
<1> DEFINE p == Target(j)
           s == job[j].step
<1>1. /\ job'[j].pc \in {"failed", "mismatch"} /\ job[j].pc # "idle"
      /\ WriteFails(j) \/ ReplaceFile(j) \/ LinkFile(j) \/ ReadBack(j)
  BY FailureBy DEF Ends, CopyIndexFails, CheckAdd, CheckCommit, CheckPush, GitPush, GitPushRejected
<1>2. /\ KnowsFile(j) /\ RepoOK /\ p \in Paths /\ s.paths = {p} /\ s.content \in Contents
      /\ s.kind = "write"
  BY <1>1, Prepared, OneTarget DEF Knows, Kind
<1>3. \A pc : Advance(j, To(j, pc)) => pc \in {"failed", "mismatch"}
  BY <1>1, AdvancedPc
<1>w. Snapshot'.work = work'
  BY DEF Snapshot
<1>4. ASSUME FinishIn(j, "failed", {}), work'[p] = job[j].shown.work[p]
      PROVE  AsShown(j)' /\ job'[j].pc = "failed"
  <2>1. Same(s, job[j].shown, Snapshot')
    BY <1>2, <1>4, <1>w DEF Same
  <2> QED
    BY <1>1, <1>4, <2>1, Ended, ShownAgain
<1>5. ASSUME FinishIn(j, "failed", {}), work'[p] = s.content
      PROVE  Announced(j)' /\ job'[j].pc = "failed"
  <2>1. /\ job'[j].step = s /\ Target(j)' = p /\ job'[j].pc = "failed"
    BY <1>5, Ended
  <2> QED
    BY <1>2, <1>5, <2>1 DEF Announced
<1>6. CASE WriteFails(j)
  BY <1>2, <1>4, <1>6 DEF WriteFails, KnowsFile, repo, Finish
<1>7. CASE ReplaceFile(j)
  <2>1. FinishIn(j, "failed", {}) /\ work' = [work EXCEPT ![p] = s.content]
    BY <1>3, <1>7 DEF ReplaceFile, Finish
  <2> QED
    BY <1>2, <1>5, <2>1 DEF RepoOK, Trees
<1>8. CASE LinkFile(j)
  <2>1. FinishIn(j, "failed", {}) /\ work' = [work EXCEPT ![p] = s.content]
    BY <1>2, <1>3, <1>8 DEF LinkFile, Finish, KnowsFile
  <2> QED
    BY <1>2, <1>5, <2>1 DEF RepoOK, Trees
<1>9. CASE ReadBack(j)
  <2>1. work[p] = s.content
    BY <1>2, <1>9 DEF ReadBack, KnowsFile
  <2>2. ASSUME FinishIn(j, "success", {}) PROVE FALSE
    BY <1>1, <2>2, Ended
  <2>3. FinishIn(j, "failed", {}) /\ work' = work
    BY <1>9, <2>1, <2>2 DEF ReadBack, Finish
  <2> QED
    BY <1>5, <2>1, <2>3
<1> QED
  BY <1>1, <1>6, <1>7, <1>8, <1>9

LEMMA AddFailure ==
  ASSUME IInv, [Next]_vars, NEW j \in Jobs, Ends(j, {"failed", "mismatch"}), job[j].pc \in Window,
         ~job[j].touched, Kind(j) = "add"
  PROVE  /\ AsShown(j)' \/ "unrestored" \in job'[j].trouble
         /\ job'[j].pc = "mismatch" => Unverifiable(j) \/ "unread" \in job'[j].trouble
<1> DEFINE s == job[j].step
           shown == job[j].shown
<1>1. /\ job'[j].pc \in {"failed", "mismatch"} /\ job[j].pc # "idle"
      /\ CopyIndexFails(j) \/ \E answered \in BOOLEAN : CheckAdd(j, answered)
  BY FailureBy DEF Ends, WriteFails, ReplaceFile, LinkFile, ReadBack, CheckCommit, CheckPush,
     GitPush, GitPushRejected
<1>2. KnowsIndex(j) /\ s.kind = "add"
  BY <1>1, Prepared DEF Knows, Kind
<1>w. /\ Snapshot'.work = work' /\ Snapshot'.index = index' /\ Snapshot'.tree = HeadTree'
  BY DEF Snapshot
<1>3. ASSUME UNCHANGED <<work, commits, heads, branch>>, index' = shown.index,
             job'[j].step = s, job'[j].shown = shown
      PROVE  AsShown(j)'
  <2>1. HeadTree' = HeadTree
    BY <1>3 DEF HeadTree, TreeOf, Tip
  <2>2. Same(s, shown, Snapshot')
    BY <1>2, <1>3, <1>w, <2>1 DEF KnowsIndex, Same
  <2> QED
    BY <1>1, <1>3, <2>2, ShownAgain
<1>4. CASE CopyIndexFails(j)
  <2>1. FinishIn(j, "failed", {}) /\ UNCHANGED <<work, commits, heads, branch, index>>
        /\ job[j].pc = "checked"
    BY <1>4 DEF CopyIndexFails, Finish, repo
  <2>2. index = shown.index
    BY <1>2, <2>1 DEF KnowsIndex
  <2>3. job'[j].step = s /\ job'[j].shown = shown /\ job'[j].pc = "failed"
    BY <2>1, Ended
  <2> QED
    BY <1>3, <2>1, <2>2, <2>3
<1>5. ASSUME NEW answered \in BOOLEAN, CheckAdd(j, answered)
      PROVE  /\ AsShown(j)' \/ "unrestored" \in job'[j].trouble
             /\ job'[j].pc = "mismatch" => Unverifiable(j) \/ "unread" \in job'[j].trouble
  <2>1. ASSUME FinishIn(j, "success", {}) PROVE FALSE
    BY <1>1, <2>1, Ended
  <2>2. PICK restored \in BOOLEAN, outcome \in {"mismatch", "failed"} :
          /\ ~(answered /\ Staged(j))
          /\ outcome = "mismatch" => job[j].pc = "ran"
          /\ index' = IF restored THEN job[j].seen.index ELSE index
          /\ FinishIn(j, outcome, (IF answered THEN {} ELSE {"unread"})
                                  \cup (IF restored THEN {} ELSE {"unrestored"}))
    BY <1>5, <2>1 DEF CheckAdd, Finish
  <2>3. /\ job[j].pc \in {"ran", "erred"} /\ UNCHANGED <<work, commits, heads, branch>>
    BY <1>5 DEF CheckAdd
  <2>4. /\ job'[j].pc = outcome /\ job'[j].step = s /\ job'[j].shown = shown
        /\ ~answered => "unread" \in job'[j].trouble
        /\ ~restored => "unrestored" \in job'[j].trouble
    BY <2>2, Ended
  <2>5. restored => AsShown(j)'
    <3>1. job[j].seen.index = shown.index
      BY <1>2, <2>3 DEF KnowsIndex
    <3> QED
      BY <1>3, <2>2, <2>3, <2>4, <3>1
  <2>6. outcome = "mismatch" => Unverifiable(j) \/ ~answered
    BY <2>2, StagedAsShown
  <2> QED
    BY <2>4, <2>5, <2>6
<1> QED
  BY <1>1, <1>4, <1>5

LEMMA CommitFailure ==
  ASSUME IInv, [Next]_vars, NEW j \in Jobs, Ends(j, {"failed", "mismatch"}), job[j].pc \in Window,
         ~job[j].touched, Kind(j) = "commit"
  PROVE  /\ AsShown(j)' \/ Announced(j)'
         /\ job'[j].pc = "mismatch" => Unverifiable(j) \/ "unread" \in job'[j].trouble
<1> DEFINE s == job[j].step
           shown == job[j].shown
<1>1. /\ job'[j].pc \in {"failed", "mismatch"} /\ job[j].pc # "idle"
      /\ \E answered \in BOOLEAN : CheckCommit(j, answered)
  BY FailureBy DEF Ends, WriteFails, ReplaceFile, LinkFile, ReadBack, CopyIndexFails, CheckAdd,
     CheckPush, GitPush, GitPushRejected
<1>2. KnowsBranch(j) /\ s.kind = "commit" /\ shown \in View /\ RepoOK
  BY <1>1, Prepared DEF Knows, Kind
<1>3. PICK answered \in BOOLEAN : CheckCommit(j, answered)
  BY <1>1
<1>4. job[j].pc \in {"ran", "erred"} /\ UNCHANGED <<repo, bak>>
  BY <1>3 DEF CheckCommit
<1>5. PICK outcome \in {"success", "failed", "mismatch"}, trouble \in SUBSET Troubles :
        /\ FinishIn(j, outcome, trouble)
        /\ outcome = "mismatch" =>
             job[j].pc = "ran" /\ (~Committed(j) \/ "unread" \in trouble)
  BY <1>3, OutcomeNames DEF CheckCommit, Finish
<1>6. /\ job'[j].pc = outcome /\ job'[j].trouble = trouble
      /\ job'[j].step = s /\ job'[j].shown = shown
  BY <1>5, Ended
<1>7. AsShown(j)' \/ Announced(j)'
  <2>w. /\ Snapshot'.index = index /\ Snapshot'.tip = Tip /\ Snapshot'.branch = branch
        /\ index' = index /\ branch' = branch /\ Tip' = Tip /\ commits' = commits
    BY <1>4 DEF Snapshot, repo, Tip
  <2>1. CASE Tip = shown.tip
    <3>1. Same(s, shown, Snapshot')
      BY <1>2, <2>1, <2>w DEF KnowsBranch, Same
    <3> QED
      BY <1>1, <1>6, <3>1, ShownAgain
  <2>2. CASE CommitMade(j)
    <3>1. Tip # 0
      BY <1>2, <2>2, SnapshotView DEF CommitMade, View
    <3> QED
      BY <1>2, <1>6, <2>2, <2>w, <3>1 DEF CommitMade, KnowsBranch, Announced
  <2> QED
    BY <1>2, <1>4, <2>1, <2>2 DEF KnowsBranch
<1>8. job'[j].pc = "mismatch" => Unverifiable(j) \/ "unread" \in job'[j].trouble
  BY <1>5, <1>6, CommittedAsShown
<1> QED
  BY <1>7, <1>8

LEMMA PushFailure ==
  ASSUME IInv, [Next]_vars, NEW j \in Jobs, Ends(j, {"failed", "mismatch"}), job[j].pc \in Window,
         ~job[j].touched, Kind(j) = "push"
  PROVE  (AsShown(j)' \/ Announced(j)') /\ job'[j].pc # "mismatch"
<1> DEFINE s == job[j].step
           shown == job[j].shown
<1>1. /\ job'[j].pc \in {"failed", "mismatch"} /\ job[j].pc # "idle"
      /\ \/ GitPush(j, "rejected") \/ GitPushRejected(j)
         \/ \E answered \in BOOLEAN : CheckPush(j, answered)
  BY FailureBy DEF Ends, WriteFails, ReplaceFile, LinkFile, ReadBack, CopyIndexFails, CheckAdd,
     CheckCommit
<1>2. KnowsRemote(j) /\ s.kind = "push" /\ shown.tip = shown.main
  BY <1>1, Prepared DEF Knows, Kind, ShownOK
<1>w. /\ Snapshot'.index = index' /\ Snapshot'.main = heads'[Main] /\ Snapshot'.branch = branch'
      /\ Snapshot'.remote = remote'
  BY DEF Snapshot
<1>3. ASSUME NEW trouble, FinishIn(j, "failed", trouble),
             UNCHANGED <<index, heads, branch>>, remote' \in {shown.remote, shown.main}
      PROVE  (AsShown(j)' \/ Announced(j)') /\ job'[j].pc = "failed"
  <2>1. job'[j].pc = "failed" /\ job'[j].step = s /\ job'[j].shown = shown
    BY <1>3, Ended
  <2>2. CASE remote' = shown.remote
    <3>1. Same(s, shown, Snapshot')
      BY <1>2, <1>3, <1>w, <2>2 DEF KnowsRemote, Same
    <3> QED
      BY <1>1, <2>1, <3>1, ShownAgain
  <2>3. CASE remote' = shown.main
    BY <1>2, <2>1, <2>3 DEF Announced
  <2> QED
    BY <1>3, <2>1, <2>2, <2>3
<1>4. CASE GitPush(j, "rejected")
  BY <1>2, <1>3, <1>4 DEF GitPush, KnowsRemote, Finish
<1>5. CASE GitPushRejected(j)
  BY <1>2, <1>3, <1>5 DEF GitPushRejected, KnowsRemote, repo, Finish
<1>6. ASSUME NEW answered \in BOOLEAN, CheckPush(j, answered)
      PROVE  (AsShown(j)' \/ Announced(j)') /\ job'[j].pc # "mismatch"
  <2>1. /\ job[j].pc \in {"ran", "erred"} /\ UNCHANGED <<index, heads, branch, remote>>
    BY <1>6 DEF CheckPush, repo
  <2>2. /\ remote' \in {shown.remote, shown.main}
        /\ job[j].pc = "ran" => remote = shown.tip
    BY <1>2, <2>1 DEF KnowsRemote
  <2>3. ASSUME FinishIn(j, "success", {}) PROVE FALSE
    BY <1>1, <2>3, Ended
  <2>4. \E trouble : FinishIn(j, "failed", trouble)
    BY <1>6, <2>2, <2>3 DEF CheckPush, Finish
  <2> QED
    BY <1>3, <2>1, <2>2, <2>4
<1> QED
  BY <1>1, <1>4, <1>5, <1>6

\* An undisturbed mutation that reports a failure is not half done: git add has left the
\* index as shown unless it could not be put back, the others have left everything as
\* shown or have done exactly what was announced; and verification fails only for somebody
\* else's doing, for a read of git that failed, or where it can never pass.
THEOREM NothingHalfDoneHolds == Spec => NothingHalfDone
<1>1. IInv /\ [Next]_vars =>
        \A j \in Jobs :
          Ends(j, {"failed", "mismatch"}) /\ job[j].pc \in Window /\ ~job[j].touched =>
            /\ Kind(j) = "add" => AsShown(j)' \/ "unrestored" \in job'[j].trouble
            /\ Kind(j) # "add" => AsShown(j)' \/ Announced(j)'
            /\ job'[j].pc = "mismatch" => Unverifiable(j) \/ "unread" \in job'[j].trouble
  <2> SUFFICES ASSUME IInv, [Next]_vars, NEW j \in Jobs, Ends(j, {"failed", "mismatch"}),
                      job[j].pc \in Window, ~job[j].touched
               PROVE  /\ Kind(j) = "add" => AsShown(j)' \/ "unrestored" \in job'[j].trouble
                      /\ Kind(j) # "add" => AsShown(j)' \/ Announced(j)'
                      /\ job'[j].pc = "mismatch" =>
                           Unverifiable(j) \/ "unread" \in job'[j].trouble
    OBVIOUS
  <2>1. Kind(j) \in Kinds
    BY Prepared DEF Window, Kind
  <2> QED
    BY <2>1, WriteFailure, AddFailure, CommitFailure, PushFailure DEF Kinds
<1> QED
  BY <1>1, IInvHolds, PTL DEF Spec, NothingHalfDone

----------------------------------------------------------------------------
(* What is overwritten, what is published *)

LEMMA OverwriteStep ==
  ASSUME IInv, [Next]_vars, NEW p \in Paths, NEW j \in Jobs,
         Kind(j) = "write", job'[j].pc # job[j].pc, work'[p] # work[p]
  PROVE  \/ work[p] = Absent
         \/ \E k \in Slots : bak'[p][k] = work[p]
         \/ job[j].touched
<1>2. JobStep(j)
  BY OnesOwnStep
<1>3. work' # work
  OBVIOUS
<1>t. 1 \in Slots /\ RepoOK
  BY MaxBackupsAssumption DEF Slots, IInv
<1>4. CASE ReplaceFile(j)
  <2>1. /\ job[j].pc = "copied" /\ UNCHANGED bak
        /\ work' = [work EXCEPT ![Target(j)] = job[j].step.content]
    BY <1>4 DEF ReplaceFile
  <2>2. Knows(j)
    BY <2>1, Prepared
  <2>3. p = Target(j)
    BY <2>1, <1>t DEF RepoOK, Trees
  <2>4. ~job[j].touched => bak[p][1] = work[p]
    BY <2>1, <2>2, <2>3 DEF Knows, KnowsFile, Window
  <2> QED
    BY <1>t, <2>1, <2>4
<1>5. CASE LinkFile(j)
  <2>1. /\ work[Target(j)] = Absent
        /\ work' = [work EXCEPT ![Target(j)] = job[j].step.content]
    BY <1>3, <1>5 DEF LinkFile
  <2>2. p = Target(j)
    BY <2>1, <1>t DEF RepoOK, Trees
  <2> QED
    BY <2>1, <2>2
<1>6. CASE ReadBack(j)
  <2>1. /\ job[j].pc = "ran" /\ work[Target(j)] # job[j].step.content
    BY <1>3, <1>6 DEF ReadBack
  <2>2. Knows(j)
    BY <2>1, Prepared
  <2> QED
    BY <2>1, <2>2 DEF Knows, KnowsFile, Window
<1>7. CASE \/ \E s \in Approved : Prepare(j, s)
           \/ Confirm(j) \/ Begin(j) \/ BeginRefused(j) \/ CopyFile(j) \/ WriteFails(j)
  BY <1>3, <1>7 DEF Prepare, Confirm, Begin, BeginRefused, CopyFile, WriteFails, repo
<1>8. CASE CopyIndex(j) \/ CopyIndexFails(j) \/ CommandFails(j)
  BY <1>3, <1>8 DEF CopyIndex, CopyIndexFails, CommandFails, repo
<1>9. CASE \E answered \in BOOLEAN :
             \/ GitAdd(j, answered) \/ CheckAdd(j, answered) \/ GitCommit(j, answered)
             \/ CheckCommit(j, answered) \/ CheckPush(j, answered)
  BY <1>3, <1>9 DEF GitAdd, CheckAdd, GitCommit, CheckCommit, CheckPush, repo
<1>10. CASE \/ GitPushRejected(j)
            \/ \E answer \in {"ran", "erred", "rejected"} : GitPush(j, answer)
  BY <1>3, <1>10 DEF GitPush, GitPushRejected, repo
<1> QED
  BY <1>2, <1>4, <1>5, <1>6, <1>7, <1>8, <1>9, <1>10 DEF JobStep

\* A text that a write of Cauco replaces is in a backup slot, unless somebody wrote it
\* between the comparison and the replacement.
THEOREM OverwrittenIsKeptHolds == Spec => OverwrittenIsKept
<1>1. IInv /\ [Next]_vars =>
        \A p \in Paths, j \in Jobs :
          Kind(j) = "write" /\ job'[j].pc # job[j].pc /\ work'[p] # work[p] =>
            \/ work[p] = Absent
            \/ \E k \in Slots : bak'[p][k] = work[p]
            \/ job[j].touched
  BY OverwriteStep
<1> QED
  BY <1>1, IInvHolds, PTL DEF Spec, OverwrittenIsKept

LEMMA PublishStep ==
  ASSUME IInv, [Next]_vars, NEW j \in Jobs,
         Kind(j) = "push", job[j].pc = "checked", remote' # remote, job'[j].pc # "checked"
  PROVE  /\ remote \in History(remote)'
         /\ \/ remote' = job[j].shown.tip /\ commits[remote'].parent = remote
            \/ job[j].touched
<1>1. JobStep(j)
  BY OnesOwnStep
<1>2. PICK answer \in {"ran", "erred", "rejected"} : GitPush(j, answer)
  BY <1>1 DEF JobStep, Prepare, Confirm, Begin, BeginRefused, CopyFile, WriteFails, ReplaceFile,
     LinkFile, ReadBack, CopyIndex, CopyIndexFails, CommandFails, CheckAdd, GitAdd, GitCommit,
     CheckCommit, GitPushRejected, CheckPush, repo
<1>3. remote' = heads[Main] /\ remote \in History(heads[Main]) /\ UNCHANGED commits
  BY <1>2 DEF GitPush
<1>4. remote \in History(remote)'
  BY <1>3 DEF History
<1>5. ASSUME ~job[j].touched
      PROVE  remote' = job[j].shown.tip /\ commits[remote'].parent = remote
  <2>1. Knows(j) /\ ShownOK(j) /\ job[j].step.kind = "push"
    BY Prepared DEF Kind
  <2>2. KnowsRemote(j)
    BY <1>5, <2>1 DEF Knows, Window
  <2>3. /\ job[j].shown.tip = job[j].shown.main
        /\ commits[job[j].shown.tip].parent = job[j].shown.remote
    BY <2>1 DEF ShownOK
  <2> QED
    BY <1>3, <2>2, <2>3 DEF KnowsRemote
<1> QED
  BY <1>4, <1>5

\* A push moves the remote forward, and by exactly the one commit the person approved,
\* unless the branch moved between the comparison and the command.
THEOREM PublishesOneApprovedHolds == Spec => PublishesOneApproved
<1>1. IInv /\ [Next]_vars =>
        \A j \in Jobs :
          Kind(j) = "push" /\ job[j].pc = "checked" /\ remote' # remote /\ job'[j].pc # "checked" =>
            /\ remote \in History(remote)'
            /\ \/ remote' = job[j].shown.tip /\ commits[remote'].parent = remote
               \/ job[j].touched
  BY PublishStep
<1> QED
  BY <1>1, IInvHolds, PTL DEF Spec, PublishesOneApproved

=============================================================================
