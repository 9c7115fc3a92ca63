------------------------ MODULE Orchestration_proofs ------------------------
(***************************************************************************)
(* Theorems about one approved execution, for any number of threads,       *)
(* previews and steps, any input bindings, and every failed transaction,   *)
(* lapse and restart.                                                      *)
(***************************************************************************)
EXTENDS Orchestration, FiniteSetTheorems, WellFoundedInduction, TLAPS

USE StepAssumption, SourcesAssumption, NoneAssumption

----------------------------------------------------------------------------
(* The inductive invariant *)

\* Where a thread has a step, is about to call its adapter or has just called it.
Calling  == {"announce", "invoke"}
Holding  == Calling \cup {"finish", "lost"}
Entering == {"start"} \cup Calling
Granted  == Entering \cup Holding \cup {"close", "consume", "drop"}
Offering == {"verify", "claim", "stale"}
Stepping == Granted \cup Offering \cup
            {"offer", "withdraw", "validate", "retry", "request", "create"}
Mutating == Offering \cup {"offer", "request", "create"}
Places   == Stepping \cup {"idle", "advance", "stop", "cancel"}

RecordType ==
  [status      : E!Active \cup E!Terminal \cup {"absent"},
   review      : {Review, None},
   steps       : [Steps -> E!StepStatus],
   current     : Steps \cup {None},
   completedAt : Nat,
   starts      : [Steps -> Nat]]

\* A preview is one of a mutation.
PreviewType ==
  {prev \in [status  : P!Open \cup P!Closed \cup {"absent"},
             key     : P!Keys \cup {None},
             created : Nat] :
     prev.status # "absent" => \E s \in Mutations : prev.key = Key(s)}

ThreadType ==
  [at : Places, step : Steps \cup {None}, preview : Previews \cup {None},
   outcome : Outcomes \cup {None}]

\* Types.
TypeOK ==
  /\ mem \in [{Exec} -> RecordType] /\ db \in [{Exec} -> RecordType]
  /\ used \in SUBSET {Exec}
  /\ pmem \in [Previews -> PreviewType] /\ pdb \in [Previews -> PreviewType]
  /\ active \in [P!Keys -> Previews \cup {None}]
  /\ pused \in SUBSET Previews
  /\ now \in Nat
  /\ lock \in Threads \cup {None}
  /\ thr \in [Threads -> ThreadType]
  /\ invoked \in [Steps -> Nat]

\* A record, wherever it is: a mutation is started once and then stays on record, a read
\* is started twice at most, and no step runs in a record that is not there or ended well.
Sound(rec) ==
  /\ rec.status = "absent" => \A s \in Steps : rec.steps[s] = "skipped" /\ rec.starts[s] = 0
  /\ rec.status \in {"completed", "cancelled"} => \A s \in Steps : rec.steps[s] # "running"
  /\ \A s \in Mutations :
       \/ rec.starts[s] = 0
       \/ rec.starts[s] = 1 /\ rec.steps[s] \in {"running", "completed", "failed"}
  /\ \A s \in Steps \ Mutations :
       rec.starts[s] <= IF rec.steps[s] = "pending" THEN 1 ELSE 2

\* The starts on record count the calls of the adapter.
Counted(rec) == \A s \in Steps : invoked[s] <= rec.starts[s]

\* An id that was not issued yet has no record and no preview.
Fresh ==
  /\ Exec \notin used => mem[Exec].status = "absent" /\ db[Exec].status = "absent"
  /\ \A p \in Previews \ pused : pmem[p].status = "absent" /\ pdb[p].status = "absent"

RecordsOK ==
  /\ Sound(mem[Exec]) /\ Sound(db[Exec])
  /\ Counted(mem[Exec]) /\ Counted(db[Exec])
  /\ Fresh

\* The step of a thread that holds one runs, in memory and in the rows, and its start is
\* on record before the call; what it takes its input from has completed in both.
StepOK(t) ==
  LET s == thr[t].step
  IN /\ thr[t].at \in Stepping => s \in Steps
     /\ thr[t].at \in Holding =>
          mem[Exec].steps[s] = "running" /\ db[Exec].steps[s] = "running"
     /\ thr[t].at \in Calling =>
          invoked[s] < mem[Exec].starts[s] /\ invoked[s] < db[Exec].starts[s]
     /\ thr[t].at \in Entering =>
          \A r \in Sources[s] :
            mem[Exec].steps[r] = "completed" /\ db[Exec].steps[r] = "completed"
     /\ At(t, "retry") =>
          /\ IsRuntime(t)
          /\ mem[Exec].steps[s] = "failed" /\ mem[Exec].starts[s] <= 1

\* Only a confirmation gets to a mutation, and its claim is in memory and in the rows.
ClaimOK(t) ==
  LET s == thr[t].step
      p == thr[t].preview
  IN /\ At(t, "validate") \/ At(t, "retry") => s \notin Mutations /\ p = None
     /\ thr[t].at \in Mutating => s \in Mutations
     /\ thr[t].at \in {"close", "consume"} => p # None
     /\ thr[t].at \in Entering \cup Holding /\ s \in Mutations => p # None
     /\ thr[t].at \in Offering =>
          p \in pused /\ (pmem[p].status = "absent" \/ pmem[p].key = Key(s))
     /\ thr[t].at \in Granted /\ p # None =>
          /\ p \in pused /\ pdb[p] = pmem[p]
          /\ pmem[p].status = "confirmed" /\ pmem[p].key = Key(s)

\* No two threads hold one step or were granted one preview.
Apart(t, u) ==
  /\ thr[t].at \in Holding /\ thr[u].at \in Holding => thr[t].step # thr[u].step
  /\ thr[t].at \in Granted /\ thr[u].at \in Granted /\ thr[t].preview # None
       => thr[t].preview # thr[u].preview

ThreadsOK ==
  /\ \A t \in Threads : StepOK(t) /\ ClaimOK(t)
  /\ \A t, u \in Threads : t # u => Apart(t, u)

IInv == TypeOK /\ RecordsOK /\ ThreadsOK

----------------------------------------------------------------------------
(* What a step may do to the others *)

\* The record changes in step x and in steps that are pending, and loses no start.
Moved(x) ==
  /\ mem' \in [{Exec} -> RecordType] /\ db' \in [{Exec} -> RecordType]
  /\ used' \in SUBSET {Exec} /\ now' \in Nat
  /\ Exec \notin used' => mem'[Exec].status = "absent" /\ db'[Exec].status = "absent"
  /\ Sound(mem'[Exec]) /\ db'[Exec] \in {mem'[Exec], db[Exec]}
  /\ \A s \in Steps :
       /\ mem'[Exec].starts[s] >= mem[Exec].starts[s]
       /\ s # x /\ mem[Exec].steps[s] # "pending" =>
            /\ mem'[Exec].steps[s] = mem[Exec].steps[s]
            /\ mem'[Exec].starts[s] = mem[Exec].starts[s]
  /\ x \in Steps => mem[Exec].steps[x] \in {"running", "failed"}

\* Previews are issued, or change their status; none that is confirmed changes but y.
PreviewsMoved(y) ==
  /\ pmem' \in [Previews -> PreviewType] /\ pdb' \in [Previews -> PreviewType]
  /\ active' \in [P!Keys -> Previews \cup {None}]
  /\ pused' \in SUBSET Previews /\ pused \in SUBSET pused'
  /\ \A p \in Previews \ pused' : pmem'[p].status = "absent" /\ pdb'[p].status = "absent"
  /\ \A p \in pused :
       /\ pmem[p].status = "absent" => pmem'[p].status = "absent"
       /\ pmem'[p].status = "absent" \/ pmem'[p].key = pmem[p].key
       /\ p # y /\ pmem[p].status = "confirmed" /\ pdb[p] = pmem[p] =>
            pmem'[p] = pmem[p] /\ pdb'[p] = pdb[p]

\* Only the threads of M move, and no other one loses the lock.
OnlyThese(M) ==
  /\ thr' \in [Threads -> ThreadType] /\ lock' \in Threads \cup {None}
  /\ \A u \in Threads \ M : thr'[u] = thr[u] /\ (lock = u => lock' = u)

\* The change of step x and preview y is not in the way of thread u.
Beside(u, x, y) ==
  /\ thr[u].at \in Holding \/ At(u, "retry") => thr[u].step # x
  /\ thr[u].at \in Granted => thr[u].preview # y \/ y = None

LEMMA RecordStays ==
  ASSUME TypeOK, UNCHANGED <<mem, db, used>>, RecordsOK, now' \in Nat
  PROVE  Moved(None)
  BY DEF TypeOK, RecordsOK, Fresh, Moved, RecordType

LEMMA PreviewsStay ==
  ASSUME TypeOK, UNCHANGED pvars, RecordsOK
  PROVE  PreviewsMoved(None)
  BY DEF TypeOK, pvars, RecordsOK, Fresh, PreviewsMoved

\* A thread that does not move keeps what the invariant says of it.
LEMMA Bystander ==
  ASSUME IInv, NEW x, NEW y, Moved(x), PreviewsMoved(y), invoked' = invoked,
         NEW u \in Threads, thr'[u] = thr[u], lock = u => lock' = u, Beside(u, x, y)
  PROVE  StepOK(u)' /\ ClaimOK(u)'
<1> DEFINE s == thr[u].step
           p == thr[u].preview
<1>t. /\ mem[Exec] \in RecordType /\ db[Exec] \in RecordType
      /\ mem'[Exec] \in RecordType /\ db'[Exec] \in RecordType
      /\ thr[u] \in ThreadType /\ invoked \in [Steps -> Nat]
  BY DEF IInv, TypeOK, Moved
<1>o. StepOK(u) /\ ClaimOK(u)
  BY DEF IInv, ThreadsOK
<1>1. thr[u].at \in Stepping => s \in Steps
  BY <1>o DEF StepOK
<1>2. thr[u].at \in Holding =>
        mem'[Exec].steps[s] = "running" /\ db'[Exec].steps[s] = "running"
  BY <1>o, <1>1 DEF StepOK, Moved, Beside, Stepping, Granted
<1>3. thr[u].at \in Calling =>
        invoked'[s] < mem'[Exec].starts[s] /\ invoked'[s] < db'[Exec].starts[s]
  <2> SUFFICES ASSUME thr[u].at \in Calling
               PROVE  invoked[s] < mem'[Exec].starts[s] /\ invoked[s] < db'[Exec].starts[s]
    OBVIOUS
  <2>1. s \in Steps /\ invoked[s] < mem[Exec].starts[s] /\ invoked[s] < db[Exec].starts[s]
    BY <1>o, <1>1 DEF StepOK, Stepping, Granted, Entering
  <2>2. mem'[Exec].starts[s] >= mem[Exec].starts[s] /\ db'[Exec] \in {mem'[Exec], db[Exec]}
    BY <2>1 DEF Moved
  <2>3. /\ invoked[s] \in Nat /\ mem[Exec].starts[s] \in Nat /\ mem'[Exec].starts[s] \in Nat
    BY <1>t, <2>1 DEF RecordType
  <2>. QED
    BY <2>1, <2>2, <2>3
<1>4. thr[u].at \in Entering =>
        \A r \in Sources[s] :
          mem'[Exec].steps[r] = "completed" /\ db'[Exec].steps[r] = "completed"
  <2> SUFFICES ASSUME thr[u].at \in Entering, NEW r \in Sources[s]
               PROVE  mem'[Exec].steps[r] = "completed" /\ db'[Exec].steps[r] = "completed"
    OBVIOUS
  <2>1. s \in Steps
    BY <1>1 DEF Stepping, Granted
  <2>2. r \in Steps /\ mem[Exec].steps[r] = "completed" /\ db[Exec].steps[r] = "completed"
    BY <1>o, <2>1 DEF StepOK, Bindings
  <2>. QED
    BY <2>2 DEF Moved
<1>5. At(u, "retry") => /\ lock' = u
                        /\ mem'[Exec].steps[s] = "failed" /\ mem'[Exec].starts[s] <= 1
  BY <1>o, <1>1 DEF StepOK, Moved, Beside, IsRuntime, Stepping, At
<1>6. StepOK(u)'
  BY <1>1, <1>2, <1>3, <1>4, <1>5 DEF StepOK, At, IsRuntime
<1>7. thr[u].at \in Offering => p \in pused' /\ (pmem'[p].status = "absent" \/ pmem'[p].key = Key(s))
  BY <1>o DEF ClaimOK, PreviewsMoved
<1>8. thr[u].at \in Granted /\ p # None =>
        /\ p \in pused' /\ pdb'[p] = pmem'[p]
        /\ pmem'[p].status = "confirmed" /\ pmem'[p].key = Key(s)
  BY <1>o DEF ClaimOK, PreviewsMoved, Beside
<1>9. ClaimOK(u)'
  BY <1>o, <1>7, <1>8 DEF ClaimOK, At, Key
<1>. QED
  BY <1>6, <1>9

\* Every step but a call, an opening and a restart: the stores move as above, and what is
\* left to show is about the threads that moved.
LEMMA Frame ==
  ASSUME IInv, NEW x, NEW y, Moved(x), PreviewsMoved(y), invoked' = invoked,
         NEW M \in SUBSET Threads, OnlyThese(M),
         \A u \in Threads \ M : Beside(u, x, y),
         \A t \in M : /\ StepOK(t)' /\ ClaimOK(t)'
                      /\ \A u \in Threads : u # t => Apart(t, u)' /\ Apart(u, t)'
  PROVE  IInv'
<1>1. TypeOK'
  BY DEF IInv, TypeOK, Moved, PreviewsMoved, OnlyThese
<1>2. RecordsOK'
  <2>1. Sound(mem'[Exec]) /\ Sound(db'[Exec])
    BY DEF IInv, RecordsOK, Moved
  <2>2. \A s \in Steps : invoked[s] <= mem'[Exec].starts[s] /\ invoked[s] <= db'[Exec].starts[s]
    <3> SUFFICES ASSUME NEW s \in Steps
                 PROVE  invoked[s] <= mem'[Exec].starts[s] /\ invoked[s] <= db'[Exec].starts[s]
      OBVIOUS
    <3>1. /\ invoked[s] \in Nat /\ mem[Exec].starts[s] \in Nat /\ mem'[Exec].starts[s] \in Nat
      <4>1. /\ invoked \in [Steps -> Nat]
            /\ mem[Exec] \in RecordType /\ mem'[Exec] \in RecordType
        BY DEF IInv, TypeOK, Moved
      <4>. QED
        BY <4>1 DEF RecordType
    <3>2. /\ invoked[s] <= mem[Exec].starts[s] /\ invoked[s] <= db[Exec].starts[s]
          /\ mem'[Exec].starts[s] >= mem[Exec].starts[s] /\ db'[Exec] \in {mem'[Exec], db[Exec]}
      BY DEF IInv, RecordsOK, Counted, Moved
    <3>. QED
      BY <3>1, <3>2
  <2>3. Fresh'
    BY DEF Fresh, Moved, PreviewsMoved
  <2>. QED
    BY <2>1, <2>2, <2>3 DEF RecordsOK, Counted, Sound
<1>3. \A u \in Threads \ M : StepOK(u)' /\ ClaimOK(u)'
  BY Bystander DEF OnlyThese
<1>4. \A t, u \in Threads : t # u => Apart(t, u)'
  <2> SUFFICES ASSUME NEW t \in Threads, NEW u \in Threads, t # u
               PROVE  Apart(t, u)'
    OBVIOUS
  <2>1. CASE t \in M \/ u \in M
    BY <2>1
  <2>2. CASE t \notin M /\ u \notin M
    <3>1. thr'[t] = thr[t] /\ thr'[u] = thr[u] /\ Apart(t, u)
      BY <2>2 DEF OnlyThese, IInv, ThreadsOK
    <3>. QED
      BY <3>1 DEF Apart
  <2>. QED
    BY <2>1, <2>2
<1>5. ThreadsOK'
  BY <1>3, <1>4 DEF ThreadsOK
<1>. QED
  BY <1>1, <1>2, <1>5 DEF IInv

----------------------------------------------------------------------------
(* The operations on the record *)

LEMMA Updated ==
  ASSUME IInv, NEW rec \in RecordType, NEW ok \in BOOLEAN, E!Update(Exec, rec, ok)
  PROVE  /\ mem' \in [{Exec} -> RecordType] /\ db' \in [{Exec} -> RecordType]
         /\ mem'[Exec] = rec /\ db'[Exec] \in {rec, db[Exec]}
         /\ ok => db'[Exec] = rec
  BY DEF E!Update, E!Persist, IInv, TypeOK

\* What an operation on a record that is there has to show of the record it writes.
Writable(rec, x) ==
  /\ rec \in RecordType /\ Sound(rec)
  /\ mem[Exec].status # "absent" /\ UNCHANGED <<used, now>>
  /\ \A s \in Steps :
       /\ rec.starts[s] >= mem[Exec].starts[s]
       /\ s # x /\ mem[Exec].steps[s] # "pending" =>
            rec.steps[s] = mem[Exec].steps[s] /\ rec.starts[s] = mem[Exec].starts[s]
  /\ x \in Steps => mem[Exec].steps[x] \in {"running", "failed"}

LEMMA Written ==
  ASSUME IInv, NEW rec, NEW ok \in BOOLEAN, E!Update(Exec, rec, ok), NEW x, Writable(rec, x)
  PROVE  Moved(x) /\ mem'[Exec] = rec /\ (ok => db'[Exec] = rec)
<1>1. Exec \in used /\ used \in SUBSET {Exec} /\ now \in Nat
  BY DEF IInv, RecordsOK, Fresh, TypeOK, Writable
<1>. QED
  BY <1>1, Updated DEF Moved, Writable

LEMMA RecordFacts ==
  ASSUME IInv
  PROVE  /\ mem[Exec] \in RecordType /\ Sound(mem[Exec]) /\ now \in Nat
         /\ \A s \in Steps : /\ mem[Exec].starts[s] \in Nat
                             /\ mem[Exec].starts[s] >= mem[Exec].starts[s]
         /\ mem[Exec].status \in E!Active => mem[Exec].status # "absent"
<1>1. mem[Exec] \in RecordType
  BY DEF IInv, TypeOK
<1>2. \A s \in Steps : mem[Exec].starts[s] \in Nat
  BY <1>1 DEF RecordType
<1>3. mem[Exec].status \in E!Active => mem[Exec].status # "absent"
  BY DEF E!Active
<1>. QED
  BY <1>1, <1>2, <1>3 DEF IInv, TypeOK, RecordsOK

LEMMA Appended ==
  ASSUME IInv, NEW ok \in BOOLEAN,
         E!AppendEvent(Exec, ok) \/ \E s \in Steps : E!StartRefused(Exec, s, ok)
  PROVE  /\ Moved(None) /\ mem'[Exec] = mem[Exec]
         /\ ok => db'[Exec] = mem[Exec]
<1>1. E!Update(Exec, mem[Exec], ok) /\ mem[Exec].status # "absent" /\ UNCHANGED <<used, now>>
  BY DEF E!AppendEvent, E!StartRefused, E!Live
<1>2. Writable(mem[Exec], None)
  BY <1>1, RecordFacts DEF Writable
<1>. QED
  BY <1>1, <1>2, Written

LEMMA Started ==
  ASSUME IInv, NEW s \in Steps, NEW ok \in BOOLEAN, E!StartStep(Exec, s, ok)
  PROVE  /\ Moved(None) /\ mem[Exec].steps[s] = "pending"
         /\ mem'[Exec].steps[s] = "running"
         /\ mem'[Exec].starts[s] = mem[Exec].starts[s] + 1
         /\ \A r \in Steps \ {s} : mem'[Exec].steps[r] = mem[Exec].steps[r]
         /\ ok => db'[Exec] = mem'[Exec]
<1> DEFINE old == mem[Exec]
           rec == [old EXCEPT !.status = "running", !.current = s,
                              !.steps[s] = "running", !.starts[s] = @ + 1]
<1>1. /\ E!Update(Exec, rec, ok) /\ UNCHANGED <<used, now>>
      /\ old.status \in E!Active /\ old.steps[s] = "pending"
  BY DEF E!StartStep, E!CanStart
<1>2. /\ rec \in RecordType /\ rec.status = "running"
      /\ rec.steps = [old.steps EXCEPT ![s] = "running"]
      /\ rec.starts = [old.starts EXCEPT ![s] = @ + 1]
  <2>1. old \in RecordType
    BY RecordFacts
  <2>2. /\ [old.starts EXCEPT ![s] = @ + 1] \in [Steps -> Nat]
        /\ [old.steps EXCEPT ![s] = "running"] \in [Steps -> E!StepStatus]
    BY <2>1 DEF RecordType, E!StepStatus
  <2>3. rec = [old EXCEPT !.status = "running", !.current = s,
                          !.steps = [old.steps EXCEPT ![s] = "running"],
                          !.starts = [old.starts EXCEPT ![s] = @ + 1]]
    BY <2>1 DEF RecordType
  <2>4. "running" \in E!Active
    BY DEF E!Active
  <2> HIDE DEF rec
  <2>. QED
    BY <2>1, <2>2, <2>3, <2>4 DEF RecordType
<1>3. /\ rec.steps[s] = "running" /\ rec.starts[s] = old.starts[s] + 1
      /\ \A r \in Steps \ {s} : rec.steps[r] = old.steps[r] /\ rec.starts[r] = old.starts[r]
  BY <1>2, RecordFacts DEF RecordType
<1>4. Sound(rec)
  <2>1. ASSUME NEW r \in Mutations
        PROVE  rec.starts[r] = 0 \/ (rec.starts[r] = 1 /\ rec.steps[r] \in {"running", "completed", "failed"})
    <3>1. r = s => old.starts[r] = 0
      BY <1>1, RecordFacts DEF Sound
    <3>. QED
      BY <1>3, <3>1, RecordFacts DEF Sound
  <2>2. ASSUME NEW r \in Steps \ Mutations
        PROVE  rec.starts[r] <= IF rec.steps[r] = "pending" THEN 1 ELSE 2
    <3>1. CASE r = s
      BY <1>1, <1>3, <3>1, RecordFacts DEF Sound
    <3>2. CASE r # s
      BY <1>3, <3>2, RecordFacts DEF Sound
    <3>. QED
      BY <3>1, <3>2
  <2>. QED
    BY <1>2, <2>1, <2>2 DEF Sound
<1>5. \A r \in Steps : rec.starts[r] >= old.starts[r]
  BY <1>3, RecordFacts
<1>d. Writable(rec, None)
  BY <1>1, <1>2, <1>3, <1>4, <1>5, RecordFacts DEF Writable
<1> HIDE DEF rec
<1>w. Moved(None) /\ mem'[Exec] = rec /\ (ok => db'[Exec] = rec)
  BY <1>1, <1>d, Written
<1>. QED
  BY <1>w, <1>1, <1>3

LEMMA Finished ==
  ASSUME IInv, NEW s \in Steps, NEW success \in BOOLEAN, NEW ok \in BOOLEAN,
         E!FinishStep(Exec, s, success, ok)
  PROVE  /\ Moved(s)
         /\ mem'[Exec].steps[s] = IF success THEN "completed" ELSE "failed"
         /\ mem'[Exec].starts = mem[Exec].starts
<1> DEFINE old  == mem[Exec]
           st   == IF success THEN "completed" ELSE "failed"
           done == [old EXCEPT !.steps[s] = st]
           rec  == IF success THEN E!AfterStep(done) ELSE E!AfterFailure(done)
<1>1. /\ E!Update(Exec, rec, ok) /\ UNCHANGED <<used, now>>
      /\ old.status # "absent" /\ old.steps[s] = "running"
  BY DEF E!FinishStep, E!Live
<1>2. done \in RecordType /\ done.steps = [old.steps EXCEPT ![s] = st] /\ done.starts = old.starts
  BY RecordFacts DEF RecordType, E!StepStatus
<1>3. /\ rec \in RecordType /\ rec.steps = done.steps /\ rec.starts = done.starts
      /\ rec.status \in {"completed", "failed", "running"}
      /\ rec.status = "completed" => E!Settled(done)
  <2>1. {"completed", "failed", "running"} \subseteq E!Active \cup E!Terminal \cup {"absent"}
    BY DEF E!Active, E!Terminal
  <2>2. now \in Nat
    BY RecordFacts
  <2> HIDE DEF done
  <2>3. CASE success
    <3>1. rec = E!AfterStep(done)
      BY <2>3
    <3> HIDE DEF rec
    <3>. QED
      BY <1>2, <2>1, <2>2, <3>1 DEF RecordType, E!AfterStep
  <2>4. CASE ~success
    <3>1. rec = E!AfterFailure(done)
      BY <2>4
    <3> HIDE DEF rec
    <3>. QED
      BY <1>2, <2>1, <2>2, <3>1 DEF RecordType, E!AfterFailure
  <2>. QED
    BY <2>3, <2>4
<1>4. /\ rec.steps[s] = st /\ \A r \in Steps \ {s} : rec.steps[r] = old.steps[r]
      /\ rec.starts = old.starts
  <2>1. old.steps \in [Steps -> E!StepStatus]
    BY RecordFacts DEF RecordType
  <2> HIDE DEF old, done, rec
  <2>. QED
    BY <1>2, <1>3, <2>1
<1>5. Sound(rec)
  <2>1. rec.status = "completed" => \A r \in Steps : rec.steps[r] # "running"
    BY <1>3 DEF E!Settled
  <2>2. \A r \in Mutations : \/ rec.starts[r] = 0
                             \/ rec.starts[r] = 1 /\ rec.steps[r] \in {"running", "completed", "failed"}
    BY <1>4, RecordFacts DEF Sound
  <2>3. \A r \in Steps \ Mutations : rec.starts[r] <= IF rec.steps[r] = "pending" THEN 1 ELSE 2
    BY <1>1, <1>4, RecordFacts DEF Sound
  <2>. QED
    BY <1>3, <2>1, <2>2, <2>3 DEF Sound
<1>6. \A r \in Steps : rec.starts[r] >= old.starts[r]
  BY <1>4, RecordFacts
<1>d. Writable(rec, s)
  BY <1>1, <1>3, <1>4, <1>5, <1>6, RecordFacts DEF Writable
<1> HIDE DEF rec
<1>w. Moved(s) /\ mem'[Exec] = rec /\ (ok => db'[Exec] = rec)
  BY <1>1, <1>d, Written
<1>. QED
  BY <1>w, <1>4

LEMMA Stopped ==
  ASSUME IInv, NEW ok \in BOOLEAN, E!FailRuntime(Exec, ok)
  PROVE  Moved(None)
<1> DEFINE old == mem[Exec]
           rec == E!AfterFailure(old)
<1>1. E!Update(Exec, rec, ok) /\ UNCHANGED <<used, now>> /\ old.status \in E!Active
  BY DEF E!FailRuntime
<1>2. rec \in RecordType /\ rec.status = "failed" /\ rec.steps = old.steps /\ rec.starts = old.starts
  BY RecordFacts DEF RecordType, E!AfterFailure, E!Terminal
<1>3. Sound(rec) /\ \A r \in Steps : rec.starts[r] >= old.starts[r]
  BY <1>2, RecordFacts DEF Sound
<1>d. Writable(rec, None)
  BY <1>1, <1>2, <1>3, RecordFacts DEF Writable
<1> HIDE DEF rec
<1>w. Moved(None) /\ mem'[Exec] = rec /\ (ok => db'[Exec] = rec)
  BY <1>1, <1>d, Written
<1>. QED
  BY <1>w

LEMMA Cancelled ==
  ASSUME IInv, NEW ok \in BOOLEAN, E!Cancel(Exec, ok)
  PROVE  Moved(None)
<1> DEFINE old   == mem[Exec]
           steps == [r \in Steps |-> IF old.steps[r] = "pending" THEN "cancelled" ELSE old.steps[r]]
           rec   == [old EXCEPT !.status = "cancelled", !.completedAt = now, !.steps = steps]
<1>1. /\ E!Update(Exec, rec, ok) /\ UNCHANGED <<used, now>>
      /\ old.status \in E!Active /\ \A r \in Steps : old.steps[r] # "running"
  BY DEF E!Cancel, E!Busy
<1>2. steps \in [Steps -> E!StepStatus]
  BY RecordFacts DEF RecordType, E!StepStatus
<1>3. /\ rec \in RecordType /\ rec.status = "cancelled"
      /\ rec.steps = steps /\ rec.starts = old.starts
  BY <1>2, RecordFacts DEF RecordType, E!Terminal
<1>4. Sound(rec) /\ \A r \in Steps : rec.starts[r] >= old.starts[r]
  BY <1>1, <1>3, RecordFacts DEF Sound
<1>5. \A r \in Steps : old.steps[r] # "pending" => rec.steps[r] = old.steps[r]
  BY <1>3
<1>d. Writable(rec, None)
  BY <1>1, <1>3, <1>4, <1>5, RecordFacts DEF Writable
<1> HIDE DEF rec
<1>w. Moved(None) /\ mem'[Exec] = rec /\ (ok => db'[Exec] = rec)
  BY <1>1, <1>d, Written
<1>. QED
  BY <1>w

\* Only the step of a read is put back, and only after its first attempt.
LEMMA Retried ==
  ASSUME IInv, NEW s \in Steps \ Mutations, NEW ok \in BOOLEAN, E!RetryStep(Exec, s, ok),
         mem[Exec].starts[s] <= 1
  PROVE  Moved(s)
<1> DEFINE old == mem[Exec]
           rec == [old EXCEPT !.status = "running", !.current = None,
                              !.completedAt = 0, !.steps[s] = "pending"]
<1>1. /\ E!Update(Exec, rec, ok) /\ UNCHANGED <<used, now>>
      /\ old.status = "failed" /\ old.steps[s] = "failed"
  BY DEF E!RetryStep
<1>2. /\ rec \in RecordType /\ rec.status = "running"
      /\ rec.steps = [old.steps EXCEPT ![s] = "pending"] /\ rec.starts = old.starts
  BY RecordFacts DEF RecordType, E!Active, E!StepStatus
<1>3. rec.steps[s] = "pending" /\ \A r \in Steps \ {s} : rec.steps[r] = old.steps[r]
  BY <1>2, RecordFacts DEF RecordType
<1>4. Sound(rec) /\ \A r \in Steps : rec.starts[r] >= old.starts[r]
  BY <1>2, <1>3, RecordFacts DEF Sound
<1>d. Writable(rec, s)
  BY <1>1, <1>2, <1>3, <1>4, RecordFacts DEF Writable
<1> HIDE DEF rec
<1>w. Moved(s) /\ mem'[Exec] = rec /\ (ok => db'[Exec] = rec)
  BY <1>1, <1>d, Written
<1>. QED
  BY <1>w

----------------------------------------------------------------------------
(* The operations on previews *)

LEMMA PreviewFacts ==
  ASSUME IInv
  PROVE  /\ pmem \in [Previews -> PreviewType] /\ pdb \in [Previews -> PreviewType]
         /\ active \in [P!Keys -> Previews \cup {None}] /\ now \in Nat
         /\ pused \in SUBSET Previews
         /\ \A p \in Previews \ pused : pmem[p].status = "absent" /\ pdb[p].status = "absent"
  BY DEF IInv, TypeOK, RecordsOK, Fresh

LEMMA StatusOf ==
  ASSUME NEW prev \in PreviewType, prev.status # "absent", NEW st \in P!Open \cup P!Closed
  PROVE  /\ [prev EXCEPT !.status = st] \in PreviewType
         /\ [prev EXCEPT !.status = st].status = st
         /\ [prev EXCEPT !.status = st].key = prev.key
  BY DEF PreviewType

LEMMA Turned ==
  ASSUME IInv, NEW p \in Previews, NEW st \in P!Open \cup P!Closed, NEW ok \in BOOLEAN,
         P!Move(p, st, ok), pmem[p].status # "absent"
  PROVE  /\ pmem' \in [Previews -> PreviewType] /\ pdb' \in [Previews -> PreviewType]
         /\ pmem'[p].status = st /\ pmem'[p].key = pmem[p].key
         /\ ok => pdb'[p] = pmem'[p]
         /\ \A q \in Previews \ {p} : pmem'[q] = pmem[q] /\ pdb'[q] = pdb[q]
<1> DEFINE prev == [pmem[p] EXCEPT !.status = st]
<1>1. prev \in PreviewType /\ prev.status = st /\ prev.key = pmem[p].key
  BY PreviewFacts, StatusOf
<1>2. pmem' = [pmem EXCEPT ![p] = prev]
  BY DEF P!Move, P!SetStatus
<1>3. /\ pdb' = [q \in Previews |-> IF q = p THEN prev ELSE pdb[q]] \/ pdb' = pdb
      /\ ok => pdb' = [q \in Previews |-> IF q = p THEN prev ELSE pdb[q]]
  BY DEF P!Move, P!Persist
<1> HIDE DEF prev
<1>. QED
  BY <1>1, <1>2, <1>3, PreviewFacts

\* A pending preview is confirmed, cancelled or expires.
LEMMA PendingTurned ==
  ASSUME IInv, NEW p \in Previews, NEW st \in P!Open \cup P!Closed, NEW ok \in BOOLEAN,
         P!Move(p, st, ok), pmem[p].status = "pending_confirmation", st # "absent",
         pused' = pused, active' \in [P!Keys -> Previews \cup {None}]
  PROVE  PreviewsMoved(None)
<1>1. p \in pused
  BY PreviewFacts
<1>. QED
  BY <1>1, Turned, PreviewFacts DEF PreviewsMoved

LEMMA Expired ==
  ASSUME IInv, NEW p \in Previews, NEW ok \in BOOLEAN, P!Expire(p, ok)
  PROVE  PreviewsMoved(None)
<1>1. /\ P!Move(p, "expired", ok) /\ pmem[p].status = "pending_confirmation"
      /\ pused' = pused /\ active' = [active EXCEPT ![pmem[p].key] = None]
  BY DEF P!Expire, P!Overdue, P!Pending, P!Without
<1>2. active' \in [P!Keys -> Previews \cup {None}]
  BY <1>1, PreviewFacts
<1>. QED
  BY <1>1, <1>2, PendingTurned DEF P!Open, P!Closed

LEMMA Withdrawn ==
  ASSUME IInv, NEW k, NEW ok \in BOOLEAN, active[k] \in Previews, P!Cancel(k, ok)
  PROVE  PreviewsMoved(None)
<1>1. /\ P!Move(active[k], "cancelled", ok) /\ pmem[active[k]].status = "pending_confirmation"
      /\ pused' = pused /\ active' = [active EXCEPT ![k] = None]
  BY DEF P!Cancel, P!Pending, P!Without
<1>2. active' \in [P!Keys -> Previews \cup {None}]
  BY <1>1, PreviewFacts
<1>. QED
  BY <1>1, <1>2, PendingTurned DEF P!Open, P!Closed

LEMMA Claimed ==
  ASSUME IInv, NEW p \in Previews, NEW ok \in BOOLEAN, P!Claim(p, ok)
  PROVE  /\ PreviewsMoved(None) /\ pused' = pused
         /\ pmem[p].status = "pending_confirmation"
         /\ pmem'[p].status = "confirmed" /\ pmem'[p].key = pmem[p].key
         /\ ok => pdb'[p] = pmem'[p]
<1>1. /\ P!Move(p, "confirmed", ok) /\ pmem[p].status = "pending_confirmation"
      /\ pused' = pused /\ active' = active
  BY DEF P!Claim, P!CanClaim, P!Pending
<1>2. "confirmed" \in P!Open \cup P!Closed
  BY DEF P!Open
<1>. QED
  BY <1>1, <1>2, PendingTurned, Turned, PreviewFacts

LEMMA Consumed ==
  ASSUME IInv, NEW p \in Previews, NEW ok \in BOOLEAN, P!Consume(p, ok)
  PROVE  PreviewsMoved(p)
<1>1. /\ P!Move(p, "consumed", ok) /\ pmem[p].status = "confirmed"
      /\ pused' = pused /\ active' = [active EXCEPT ![pmem[p].key] = None]
  BY DEF P!Consume, P!Without
<1>2. active' \in [P!Keys -> Previews \cup {None}]
  BY <1>1, PreviewFacts
<1>3. p \in pused
  BY <1>1, PreviewFacts
<1>4. "consumed" \in P!Open \cup P!Closed
  BY DEF P!Closed
<1>. QED
  BY <1>1, <1>2, <1>3, <1>4, Turned, PreviewFacts DEF PreviewsMoved

\* A new preview takes the place of an ended one, never of a confirmed one.
LEMMA Created ==
  ASSUME IInv, NEW p \in Previews, NEW s \in Mutations, NEW ok \in BOOLEAN,
         P!Create(p, Key(s), ok)
  PROVE  PreviewsMoved(None)
<1> DEFINE k   == Key(s)
           old == active[k]
           m   == IF old # None /\ P!Overdue(old) THEN P!SetStatus(old, "expired") ELSE pmem
           new == P!NewPreview(k)
<1>k. k \in P!Keys
  BY DEF Key, P!Keys
<1>1. /\ p \notin pused /\ pused' = pused \cup {p}
      /\ active' = [active EXCEPT ![k] = p]
  BY DEF P!Create
<1>2. PICK gone \in P!EvictionChoices(m) :
        /\ pmem' = [q \in Previews |-> IF q = p THEN new
                                       ELSE IF q \in gone THEN P!NoPreview ELSE m[q]]
        /\ P!Persist(p, new, gone, ok)
  BY DEF P!Create
<1>3. /\ m \in [Previews -> PreviewType]
      /\ \A q \in Previews : \/ m[q] = pmem[q]
                             \/ /\ pmem[q].status = "pending_confirmation"
                                /\ m[q].key = pmem[q].key
  <2>1. CASE old # None /\ P!Overdue(old)
    <3>1. old \in Previews /\ pmem[old].status = "pending_confirmation"
      BY <1>k, <2>1, PreviewFacts DEF P!Overdue, P!Pending
    <3>2. m = [pmem EXCEPT ![old] = [pmem[old] EXCEPT !.status = "expired"]]
      BY <2>1 DEF P!SetStatus
    <3>3. /\ [pmem[old] EXCEPT !.status = "expired"] \in PreviewType
          /\ [pmem[old] EXCEPT !.status = "expired"].key = pmem[old].key
      BY <3>1, PreviewFacts, StatusOf DEF P!Closed
    <3>. QED
      BY <3>1, <3>2, <3>3, PreviewFacts
  <2>2. CASE ~(old # None /\ P!Overdue(old))
    BY <2>2, PreviewFacts
  <2>. QED
    BY <2>1, <2>2
<1> HIDE DEF m
<1>4. \A q \in gone : m[q].status \in P!Closed
  BY <1>2 DEF P!EvictionChoices, P!Ended
<1>5. new \in PreviewType /\ P!NoPreview \in PreviewType /\ P!NoPreview.status = "absent"
  BY <1>k, PreviewFacts DEF P!NewPreview, P!NoPreview, PreviewType, P!Open
<1> HIDE DEF new
<1>6. /\ pdb' \in [Previews -> PreviewType]
      /\ \A q \in Previews \ {p} : pdb'[q] = pdb[q] \/ (q \in gone /\ pdb'[q] = P!NoPreview)
  <2>1. \/ pdb' = pdb
        \/ pdb' = [q \in Previews |-> IF q = p THEN new ELSE IF q \in gone THEN P!NoPreview ELSE pdb[q]]
    BY <1>2 DEF P!Persist
  <2>. QED
    BY <1>5, <2>1, PreviewFacts
<1>7. /\ pmem' \in [Previews -> PreviewType]
      /\ \A q \in Previews \ {p} : \/ q \in gone /\ pmem'[q] = P!NoPreview
                                   \/ q \notin gone /\ pmem'[q] = m[q]
  BY <1>2, <1>3, <1>5
<1>8. \A q \in gone : q \in Previews => pmem[q].status # "confirmed"
  BY <1>3, <1>4 DEF P!Closed
<1>9. \A q \in pused :
        /\ pmem[q].status = "absent" => pmem'[q].status = "absent"
        /\ pmem'[q].status = "absent" \/ pmem'[q].key = pmem[q].key
        /\ pmem[q].status = "confirmed" => pmem'[q] = pmem[q] /\ pdb'[q] = pdb[q]
  BY <1>1, <1>3, <1>5, <1>6, <1>7, <1>8, PreviewFacts
<1>10. \A q \in Previews \ pused' : pmem'[q].status = "absent" /\ pdb'[q].status = "absent"
  BY <1>1, <1>3, <1>5, <1>6, <1>7, PreviewFacts
<1>. QED
  BY <1>1, <1>6, <1>7, <1>9, <1>10, PreviewFacts DEF PreviewsMoved

LEMMA HolderGone ==
  ASSUME IInv, NEW p, P!HolderLost(p)
  PROVE  PreviewsMoved(None)
  BY PreviewFacts DEF P!HolderLost, PreviewsMoved

----------------------------------------------------------------------------
(* The moves of the threads *)

\* The stores change in step x of the record and in preview y, and no adapter is called.
Quiet(x, y) == Moved(x) /\ PreviewsMoved(y) /\ invoked' = invoked

LEMMA BesideAll ==
  ASSUME IInv
  PROVE  \A u \in Threads : Beside(u, None, None)
  BY DEF IInv, ThreadsOK, StepOK, Beside, Stepping, Granted, Entering, At

LEMMA ApartIsSymmetric ==
  ASSUME NEW t, NEW u, Apart(t, u)'
  PROVE  Apart(u, t)'
  BY DEF Apart

LEMMA Single ==
  ASSUME IInv, NEW x, NEW y, Quiet(x, y), NEW t \in Threads, OnlyThese({t}),
         \A u \in Threads \ {t} : Beside(u, x, y) /\ Apart(t, u)',
         StepOK(t)', ClaimOK(t)'
  PROVE  IInv'
<1>1. /\ Moved(x) /\ PreviewsMoved(y) /\ invoked' = invoked
      /\ {t} \in SUBSET Threads /\ \A u \in Threads \ {t} : Beside(u, x, y)
  BY DEF Quiet
<1>2. \A v \in {t} : /\ StepOK(v)' /\ ClaimOK(v)'
                     /\ \A u \in Threads : u # v => Apart(v, u)' /\ Apart(u, v)'
  BY ApartIsSymmetric
<1>. QED
  BY <1>1, <1>2, Frame

\* A thread that neither holds a step nor was granted or shown a preview.
AtRest(t) ==
  /\ OnlyThese({t})
  /\ thr'[t].at \in {"idle", "advance", "stop", "cancel", "offer", "withdraw", "request",
                     "create", "validate"}
  /\ thr'[t].at \in Stepping => thr'[t].step \in Steps
  /\ thr'[t].at \in Mutating => thr'[t].step \in Mutations
  /\ thr'[t].at = "validate" => thr'[t].step \notin Mutations /\ thr'[t].preview = None

LEMMA Rests ==
  ASSUME IInv, NEW x, NEW y, Quiet(x, y), NEW t \in Threads, AtRest(t),
         \A u \in Threads \ {t} : Beside(u, x, y)
  PROVE  IInv'
<1>1. StepOK(t)' /\ ClaimOK(t)'
  BY DEF AtRest, StepOK, ClaimOK, At, Holding, Calling, Entering, Granted, Offering
<1>2. \A u \in Threads : Apart(t, u)'
  BY DEF AtRest, Apart, Holding, Calling, Entering, Granted
<1>. QED
  BY <1>1, <1>2, Single DEF AtRest

LEMMA RestsQuietly ==
  ASSUME IInv, Quiet(None, None), NEW t \in Threads, AtRest(t)
  PROVE  IInv'
  BY Rests, BesideAll

\* The ways a thread moves.
LEMMA Goes ==
  ASSUME IInv, NEW t \in Threads, NEW place \in Places, Go(t, place)
  PROVE  /\ OnlyThese({t}) /\ lock' = lock
         /\ thr'[t].at = place /\ thr'[t].step = thr[t].step /\ thr'[t].preview = thr[t].preview
<1>1. thr[t] \in ThreadType /\ [thr[t] EXCEPT !.at = place] \in ThreadType
  BY DEF IInv, TypeOK, ThreadType
<1>2. thr' = [thr EXCEPT ![t] = [thr[t] EXCEPT !.at = place]] /\ lock' = lock
  BY DEF Go, IInv, TypeOK
<1>3. /\ [thr[t] EXCEPT !.at = place].at = place
      /\ [thr[t] EXCEPT !.at = place].step = thr[t].step
      /\ [thr[t] EXCEPT !.at = place].preview = thr[t].preview
  BY <1>1 DEF ThreadType
<1> DEFINE rec == [thr[t] EXCEPT !.at = place]
<1> HIDE DEF rec
<1>4. thr' = [thr EXCEPT ![t] = rec] /\ rec \in ThreadType
  BY <1>1, <1>2 DEF rec
<1>5. thr'[t] = rec /\ OnlyThese({t})
  BY <1>2, <1>4 DEF OnlyThese, IInv, TypeOK
<1>. QED
  BY <1>2, <1>3, <1>5 DEF rec

LEMMA GoesToRest ==
  ASSUME IInv, NEW t \in Threads,
         NEW place \in {"idle", "advance", "stop", "cancel", "request", "create"},
         Go(t, place), place \in Stepping => thr[t].step \in Mutations
  PROVE  AtRest(t)
<1>1. place \in Places
  BY DEF Places, Stepping
<1>. QED
  BY <1>1, Goes DEF AtRest, Mutating, Offering, Stepping, Granted, Entering, Calling, Holding

LEMMA Leaves ==
  ASSUME IInv, NEW t \in Threads, Leave(t)
  PROVE  AtRest(t)
<1>1. Idle \in ThreadType /\ Idle.at = "idle"
  BY DEF Idle, ThreadType, Places
<1>2. thr' = [thr EXCEPT ![t] = Idle] /\ lock' = IF lock = t THEN None ELSE lock
  BY DEF Leave
<1>3. thr'[t] = Idle /\ OnlyThese({t})
  BY <1>1, <1>2 DEF OnlyThese, IInv, TypeOK
<1>. QED
  BY <1>1, <1>3 DEF AtRest, Stepping, Granted, Entering, Calling, Holding, Offering, Mutating

LEMMA RefusedRests ==
  ASSUME IInv, NEW t \in Threads, Refused(t)
  PROVE  AtRest(t)
  BY Leaves, GoesToRest DEF Refused, Stepping, Granted, Entering, Calling, Holding, Offering

LEMMA GoesOrLeaves ==
  ASSUME IInv, NEW t \in Threads, NEW ok \in BOOLEAN,
         NEW place \in {"advance", "cancel", "request", "create"},
         GoOrLeave(t, ok, place), place \in Stepping => thr[t].step \in Mutations
  PROVE  AtRest(t)
  BY Leaves, GoesToRest DEF GoOrLeave

\* A method begins; only the lock may change besides.
LEMMA Begins ==
  ASSUME IInv, NEW t \in Threads, NEW place \in Places, NEW s \in Steps \cup {None},
         NEW p \in Previews \cup {None}, Begin(t, place, s, p),
         lock' = lock \/ (lock = None /\ lock' = t)
  PROVE  OnlyThese({t}) /\ thr'[t].at = place /\ thr'[t].step = s /\ thr'[t].preview = p
<1> DEFINE rec == [at |-> place, step |-> s, preview |-> p, outcome |-> None]
<1>1. rec \in ThreadType /\ rec.at = place /\ rec.step = s /\ rec.preview = p
  BY DEF ThreadType
<1>2. thr' = [thr EXCEPT ![t] = rec]
  BY DEF Begin
<1> HIDE DEF rec
<1>3. thr'[t] = rec /\ OnlyThese({t})
  BY <1>1, <1>2 DEF OnlyThese, IInv, TypeOK
<1>. QED
  BY <1>1, <1>3

\* A thread goes on from where it holds a step or was granted a preview.
LEMMA Continues ==
  ASSUME IInv, NEW x, Quiet(x, None), NEW t \in Threads, OnlyThese({t}),
         thr[t].at \in Granted, thr'[t].at \in Granted,
         thr'[t].step = thr[t].step, thr'[t].preview = thr[t].preview,
         thr'[t].at \in Entering \cup Holding => thr[t].at \in Entering \cup Holding,
         thr'[t].at \in {"close", "consume"} => thr[t].preview # None,
         thr'[t].at \in Holding =>
           \A u \in Threads \ {t} : thr[u].at \in Holding => thr[u].step # thr[t].step,
         \A u \in Threads \ {t} : Beside(u, x, None),
         StepOK(t)'
  PROVE  IInv'
<1> DEFINE s == thr[t].step
           p == thr[t].preview
<1>1. ClaimOK(t)'
  <2>1. ClaimOK(t)
    BY DEF IInv, ThreadsOK
  <2>2. p # None =>
          /\ p \in pused' /\ pdb'[p] = pmem'[p]
          /\ pmem'[p].status = "confirmed" /\ pmem'[p].key = Key(s)
    BY <2>1 DEF ClaimOK, Quiet, PreviewsMoved
  <2>3. /\ thr'[t].at \notin Offering \cup Mutating
        /\ thr'[t].at # "validate" /\ thr'[t].at # "retry"
    BY DEF Offering, Mutating, Granted, Entering, Holding, Calling
  <2>4. thr'[t].at \in Entering \cup Holding /\ s \in Mutations => p # None
    BY <2>1 DEF ClaimOK
  <2>. QED
    BY <2>2, <2>3, <2>4 DEF ClaimOK, At, Key
<1>2. \A u \in Threads \ {t} : Apart(t, u)'
  <2> SUFFICES ASSUME NEW u \in Threads \ {t}
               PROVE  Apart(t, u)'
    OBVIOUS
  <2>1. thr'[u] = thr[u] /\ Apart(t, u)
    BY DEF OnlyThese, IInv, ThreadsOK
  <2>. QED
    BY <2>1 DEF Apart
<1>. QED
  BY <1>1, <1>2, Single

\* It ends there without its step: it has only its preview to drop.
LEMMA Drops ==
  ASSUME IInv, NEW x, Quiet(x, None), NEW t \in Threads, thr[t].at \in Granted,
         NEW place \in {"drop", "close", "consume"}, Go(t, place),
         place # "drop" => thr[t].preview # None,
         \A u \in Threads \ {t} : Beside(u, x, None)
  PROVE  IInv'
<1>1. place \in Places \cap Granted
  BY DEF Places, Stepping, Granted
<1>2. /\ OnlyThese({t}) /\ thr'[t].at = place /\ thr'[t].step = thr[t].step
      /\ thr'[t].preview = thr[t].preview
  BY <1>1, Goes
<1>3. thr'[t].at \notin Entering \cup Holding /\ ~At(t, "retry")'
  BY <1>2 DEF Entering, Holding, Calling, At
<1>4. thr[t].step \in Steps
  BY DEF IInv, ThreadsOK, StepOK, Stepping
<1>5. StepOK(t)'
  BY <1>2, <1>3, <1>4 DEF StepOK, Entering, Holding
<1>. QED
  BY <1>1, <1>2, <1>3, <1>5, Continues

LEMMA QuietRecord ==
  ASSUME IInv, NEW ok \in BOOLEAN, OnlyRecord,
         \/ E!AppendEvent(Exec, ok) \/ \E s \in Steps : E!StartRefused(Exec, s, ok)
         \/ E!FailRuntime(Exec, ok) \/ E!Cancel(Exec, ok)
         \/ \E s \in Steps : E!CallerLost(Exec, s)
         \/ UNCHANGED <<evars, now, faults, restarts>>
  PROVE  Quiet(None, None)
<1>1. PreviewsMoved(None) /\ invoked' = invoked
  BY PreviewsStay DEF OnlyRecord, IInv
<1>2. now \in Nat /\ TypeOK /\ RecordsOK
  BY DEF IInv, TypeOK
<1>3. CASE \E s \in Steps : E!CallerLost(Exec, s)
  <2>1. UNCHANGED <<mem, db, used>> /\ now' = now
    BY <1>3 DEF E!CallerLost
  <2>. QED
    BY <1>1, <1>2, <2>1, RecordStays DEF Quiet
<1>4. CASE UNCHANGED <<evars, now, faults, restarts>>
  <2>1. UNCHANGED <<mem, db, used>> /\ now' = now
    BY <1>4 DEF evars
  <2>. QED
    BY <1>1, <1>2, <2>1, RecordStays DEF Quiet
<1>. QED
  BY <1>1, <1>3, <1>4, Appended, Stopped, Cancelled DEF Quiet

LEMMA QuietPreview ==
  ASSUME IInv, NEW ok \in BOOLEAN, OnlyPreview,
         \/ \E p \in Previews : P!Expire(p, ok) \/ P!Claim(p, ok)
         \/ \E p : P!HolderLost(p)
         \/ \E k \in P!Keys : P!Cancel(k, ok)
         \/ \E p \in Previews, s \in Mutations : P!Create(p, Key(s), ok)
  PROVE  Quiet(None, None)
<1>1. invoked' = invoked /\ UNCHANGED <<mem, db, used>>
  BY DEF OnlyPreview, evars
<1>2. now' = now /\ now \in Nat
  BY DEF P!Expire, P!Claim, P!HolderLost, P!Cancel, P!Create, IInv, TypeOK
<1>3. Moved(None)
  BY <1>1, <1>2, RecordStays DEF IInv
<1>4. ASSUME NEW k \in P!Keys, P!Cancel(k, ok)
      PROVE  PreviewsMoved(None)
  <2>1. active[k] \in Previews
    BY <1>4, PreviewFacts DEF P!Cancel
  <2>. QED
    BY <1>4, <2>1, Withdrawn
<1>. QED
  BY <1>1, <1>3, <1>4, Expired, Claimed, HolderGone, Created DEF Quiet

LEMMA QuietStores ==
  ASSUME IInv, NoStore, UNCHANGED invoked
  PROVE  Quiet(None, None)
<1>1. UNCHANGED <<mem, db, used>> /\ UNCHANGED pvars /\ now' \in Nat /\ TypeOK /\ RecordsOK
  BY DEF NoStore, evars, IInv, TypeOK
<1>. QED
  BY <1>1, RecordStays, PreviewsStay DEF Quiet

\* What is pending has a first step.
LEMMA NextPendingFacts ==
  ASSUME NextPending # None
  PROVE  NextPending \in Steps
<1> DEFINE T == {s \in Steps : Pending(s)}
<1>1. PICK s \in T : TRUE
  BY DEF NextPending
<1>2. IsWellFoundedOn(OpToRel(<, Nat), Nat)
  BY NatLessThanWellFounded
<1>3. IsWellFoundedOn(OpToRel(<, Nat), Nat)
      => \A U : U # {} /\ U \subseteq Nat => \E m \in U : \A r \in U : ~(<<r, m>> \in OpToRel(<, Nat))
  BY WFMin
<1>4. PICK m \in T : \A r \in T : ~(<<r, m>> \in OpToRel(<, Nat))
  BY <1>1, <1>2, <1>3
<1>5. \A r \in T : ~(r < m)
  <2>1. T \subseteq Nat
    OBVIOUS
  <2>. QED
    BY <1>4, <2>1, Zenon DEF OpToRel
<1>6. m \in Steps /\ Pending(m) /\ \A r \in Steps : Pending(r) => m <= r
  BY <1>5
<1>. QED
  BY <1>6 DEF NextPending

LEMMA HasStep ==
  ASSUME IInv, NEW t \in Threads, thr[t].at \in Stepping
  PROVE  thr[t].step \in Steps /\ Key(thr[t].step) \in P!Keys
<1>1. thr[t].step \in Steps
  BY DEF IInv, ThreadsOK, StepOK
<1>. QED
  BY <1>1 DEF Key, P!Keys

----------------------------------------------------------------------------
(* The actions of the runtime *)

LEMMA RunBeginStep ==
  ASSUME IInv, NEW t \in Threads, NEW ok \in BOOLEAN, RunBegin(t, ok)
  PROVE  IInv'
<1>1. Quiet(None, None)
  BY QuietRecord DEF RunBegin
<1>2. CASE ok
  <2>1. OnlyThese({t}) /\ thr'[t].at = "advance"
    <3>1. Begin(t, "advance", None, None) /\ lock = None /\ lock' = t /\ "advance" \in Places
      BY <1>2 DEF RunBegin, Places
    <3>. QED
      BY <3>1, Begins
  <2>2. AtRest(t)
    BY <2>1 DEF AtRest, Stepping, Granted, Entering, Calling, Holding, Offering, Mutating
  <2>. QED
    BY <1>1, <2>2, RestsQuietly
<1>3. CASE ~ok
  <2>1. thr' = thr /\ lock' = lock /\ At(t, "idle")
    BY <1>3 DEF RunBegin
  <2>2. AtRest(t)
    BY <2>1 DEF AtRest, OnlyThese, At, IInv, TypeOK, Stepping, Granted, Entering, Calling, Holding, Offering, Mutating
  <2>. QED
    BY <1>1, <2>2, RestsQuietly
<1>. QED
  BY <1>2, <1>3

LEMMA AdvanceEndStep ==
  ASSUME IInv, NEW t \in Threads, NEW ok \in BOOLEAN, AdvanceEnd(t, ok)
  PROVE  IInv'
<1>1. Quiet(None, None)
  BY QuietRecord DEF AdvanceEnd
<1>. QED
  BY <1>1, Leaves, RestsQuietly DEF AdvanceEnd

LEMMA AdvanceStep ==
  ASSUME IInv, NEW t \in Threads, Advance(t)
  PROVE  IInv'
<1> DEFINE place == IF NextPending \in Mutations THEN "offer" ELSE "validate"
<1>1. Quiet(None, None)
  BY QuietStores DEF Advance
<1>2. NextPending \in Steps /\ place \in Places
  BY NextPendingFacts DEF Advance, Places, Stepping
<1>3. Begin(t, place, NextPending, None) /\ lock' = lock
  BY DEF Advance
<1>4. OnlyThese({t}) /\ thr'[t].at = place /\ thr'[t].step = NextPending /\ thr'[t].preview = None
  BY <1>2, <1>3, Begins
<1>5. AtRest(t)
  BY <1>2, <1>4 DEF AtRest, Mutating, Offering
<1>. QED
  BY <1>1, <1>5, RestsQuietly

LEMMA OfferStep ==
  ASSUME IInv, NEW t \in Threads, NEW ok \in BOOLEAN, Offer(t, ok)
  PROVE  IInv'
<1>1. thr[t].step \in Mutations
  BY DEF Offer, At, Mutating, IInv, ThreadsOK, ClaimOK
<1>2. Quiet(None, None)
  BY QuietPreview, QuietStores DEF Offer, Waiting
<1>3. AtRest(t)
  BY <1>1, Leaves, GoesToRest, GoesOrLeaves DEF Offer
<1>. QED
  BY <1>2, <1>3, RestsQuietly

LEMMA StopStep ==
  ASSUME IInv, NEW t \in Threads, NEW ok \in BOOLEAN, Stop(t, ok)
  PROVE  IInv'
<1>1. Quiet(None, None)
  BY QuietRecord DEF Stop
<1>. QED
  BY <1>1, Leaves, RestsQuietly DEF Stop

\* Only one thread has the runtime's lock, and no thread holds a step that has failed.
LEMMA RetryThenAdvance ==
  ASSUME IInv, NEW t \in Threads, NEW ok \in BOOLEAN, Retry(t, ok)
  PROVE  IInv'
<1> DEFINE s == thr[t].step
<1>1. s \in Steps \ Mutations /\ mem[Exec].steps[s] = "failed" /\ mem[Exec].starts[s] <= 1 /\ lock = t
  BY HasStep DEF Retry, At, Stepping, IInv, ThreadsOK, StepOK, ClaimOK, IsRuntime
<1>2. CASE E!RetryStep(Exec, s, ok) /\ GoOrLeave(t, ok, "advance")
  <2>1. Quiet(s, None)
    <3>1. Moved(s)
      BY <1>1, <1>2, Retried
    <3>2. PreviewsMoved(None) /\ invoked' = invoked
      BY PreviewsStay DEF Retry, OnlyRecord, IInv
    <3>. QED
      BY <3>1, <3>2 DEF Quiet
  <2>2. AtRest(t)
    BY <1>1, <1>2, GoesOrLeaves DEF Stepping, Granted, Entering, Calling, Holding, Offering
  <2>3. ASSUME NEW u \in Threads \ {t}
        PROVE  Beside(u, s, None)
    <3>1. thr[u].at \in Holding => mem[Exec].steps[thr[u].step] = "running"
      BY DEF IInv, ThreadsOK, StepOK
    <3>2. ~At(u, "retry")
      BY <1>1 DEF IInv, ThreadsOK, StepOK, IsRuntime
    <3>. QED
      BY <1>1, <3>1, <3>2 DEF Beside
  <2>. QED
    BY <2>1, <2>2, <2>3, Rests
<1>3. CASE ok /\ UNCHANGED <<evars, now, faults, restarts>> /\ Leave(t)
  <2>1. Quiet(None, None)
    BY <1>3, QuietRecord DEF Retry
  <2>. QED
    BY <1>3, <2>1, Leaves, RestsQuietly
<1>. QED
  BY <1>2, <1>3 DEF Retry

LEMMA CancelBeginStep ==
  ASSUME IInv, NEW t \in Threads, CancelBegin(t)
  PROVE  IInv'
<1> DEFINE place == IF NextPending = None THEN "cancel" ELSE "withdraw"
<1>1. Quiet(None, None)
  BY QuietStores DEF CancelBegin
<1>2. (NextPending # None => NextPending \in Steps) /\ place \in Places
  BY NextPendingFacts DEF Places, Stepping
<1>3. Begin(t, place, NextPending, None) /\ lock = None /\ lock' = t
  BY DEF CancelBegin
<1>4. OnlyThese({t}) /\ thr'[t].at = place /\ thr'[t].step = NextPending
  BY <1>2, <1>3, Begins
<1>5. AtRest(t)
  BY <1>2, <1>4 DEF AtRest, Stepping, Granted, Entering, Calling, Holding, Offering, Mutating
<1>. QED
  BY <1>1, <1>5, RestsQuietly

LEMMA WithdrawStep ==
  ASSUME IInv, NEW t \in Threads, NEW ok \in BOOLEAN, Withdraw(t, ok)
  PROVE  IInv'
<1>1. thr[t].step \in Steps /\ Key(thr[t].step) \in P!Keys
  BY HasStep DEF Withdraw, At, Stepping
<1>2. Quiet(None, None)
  BY <1>1, QuietPreview, QuietStores DEF Withdraw, Waiting
<1>3. AtRest(t)
  BY <1>1, Leaves, GoesToRest, GoesOrLeaves DEF Withdraw, Stepping, Granted, Entering, Calling, Holding, Offering
<1>. QED
  BY <1>2, <1>3, RestsQuietly

LEMMA CancelStep ==
  ASSUME IInv, NEW t \in Threads, NEW ok \in BOOLEAN, Cancel(t, ok)
  PROVE  IInv'
<1>1. Quiet(None, None)
  BY QuietRecord DEF Cancel
<1>. QED
  BY <1>1, Leaves, RestsQuietly DEF Cancel

----------------------------------------------------------------------------
(* The actions of execute_step *)

LEMMA StepBeginStep ==
  ASSUME IInv, NEW t \in Threads, NEW s \in Steps, StepBegin(t, s)
  PROVE  IInv'
<1>1. Quiet(None, None)
  BY QuietStores DEF StepBegin
<1>2. /\ Begin(t, "validate", s, None) /\ lock' = lock
      /\ s \notin Mutations /\ "validate" \in Places
  BY DEF StepBegin, Places, Stepping
<1>3. OnlyThese({t}) /\ thr'[t].at = "validate" /\ thr'[t].step = s /\ thr'[t].preview = None
  BY <1>2, Begins
<1>4. AtRest(t)
  BY <1>2, <1>3 DEF AtRest, Mutating, Offering
<1>. QED
  BY <1>1, <1>4, RestsQuietly

LEMMA ValidateStep ==
  ASSUME IInv, NEW t \in Threads, NEW answer, NEW ok \in BOOLEAN, Validate(t, answer, ok)
  PROVE  IInv'
<1> DEFINE s == thr[t].step
<1>1. s \in Steps /\ s \notin Mutations /\ thr[t].preview = None
  BY HasStep DEF Validate, At, Stepping, IInv, ThreadsOK, ClaimOK
<1>2. Quiet(None, None)
  BY QuietRecord DEF Validate, Deny
<1>3. CASE AtRest(t)
  BY <1>2, <1>3, RestsQuietly
<1>4. CASE ok /\ Produced(s) /\ E!AppendEvent(Exec, ok) /\ Go(t, "start")
  <2>1. "start" \in Places
    BY DEF Places, Stepping, Granted, Entering
  <2>2. /\ OnlyThese({t}) /\ thr'[t].at = "start" /\ thr'[t].step = s
        /\ thr'[t].preview = None
    BY <1>1, <1>4, <2>1, Goes
  <2>3. mem'[Exec] = mem[Exec] /\ db'[Exec] = mem[Exec]
    BY <1>4, Appended
  <2>4. \A r \in Sources[s] : mem'[Exec].steps[r] = "completed" /\ db'[Exec].steps[r] = "completed"
    BY <1>1, <1>4, <2>3 DEF Produced, Record
  <2>5. StepOK(t)'
    BY <1>1, <2>2, <2>4 DEF StepOK, At, Holding, Calling
  <2>6. ClaimOK(t)'
    BY <1>1, <2>2 DEF ClaimOK, At, Offering, Mutating
  <2>7. \A u \in Threads \ {t} : Apart(t, u)'
    BY <2>2 DEF Apart, Holding, Calling
  <2>. QED
    BY <1>2, <2>2, <2>5, <2>6, <2>7, BesideAll, Single
<1>5. AtRest(t) \/ (ok /\ Produced(s) /\ E!AppendEvent(Exec, ok) /\ Go(t, "start"))
  BY Leaves, RefusedRests DEF Validate, Deny, GoOrLeave
<1>. QED
  BY <1>3, <1>4, <1>5

\* What start_step leaves on record lets the thread call the adapter.
LEMMA StartAdmits ==
  ASSUME IInv, NEW t \in Threads, At(t, "start"), E!StartStep(Exec, thr[t].step, TRUE), OnlyRecord,
         NEW place \in Calling, Go(t, place)
  PROVE  IInv'
<1> DEFINE s == thr[t].step
<1>1. s \in Steps /\ thr[t].at \in Granted /\ thr[t].at \in Entering
  BY HasStep DEF At, Stepping, Granted, Entering
<1>2. /\ Moved(None) /\ mem[Exec].steps[s] = "pending" /\ mem'[Exec].steps[s] = "running"
      /\ mem'[Exec].starts[s] = mem[Exec].starts[s] + 1 /\ db'[Exec] = mem'[Exec]
      /\ \A r \in Steps \ {s} : mem'[Exec].steps[r] = mem[Exec].steps[r]
  BY <1>1, Started
<1>3. Quiet(None, None)
  BY <1>2, PreviewsStay DEF Quiet, OnlyRecord, IInv
<1>4. place \in Places /\ place \in Granted /\ place \in Holding
  BY DEF Places, Stepping, Granted, Entering, Holding
<1>5. /\ OnlyThese({t}) /\ thr'[t].at = place /\ thr'[t].step = s
      /\ thr'[t].preview = thr[t].preview
  BY <1>4, Goes
<1>6. invoked[s] < mem'[Exec].starts[s]
  <2>1. invoked[s] \in Nat /\ mem[Exec].starts[s] \in Nat /\ invoked[s] <= mem[Exec].starts[s]
    BY <1>1, RecordFacts DEF IInv, TypeOK, RecordsOK, Counted
  <2>. QED
    BY <1>2, <2>1
<1>7. \A r \in Sources[s] : mem'[Exec].steps[r] = "completed"
  <2>1. \A r \in Sources[s] : r \in Steps /\ mem[Exec].steps[r] = "completed"
    BY <1>1 DEF IInv, ThreadsOK, StepOK, Bindings
  <2>. QED
    BY <1>2, <2>1
<1>8. StepOK(t)'
  BY <1>1, <1>2, <1>3, <1>4, <1>5, <1>6, <1>7 DEF StepOK, At, Quiet, Calling
<1>9. \A u \in Threads : thr[u].at \in Holding => thr[u].step # s
  BY <1>2 DEF IInv, ThreadsOK, StepOK
<1>. QED
  BY <1>1, <1>3, <1>4, <1>5, <1>8, <1>9, BesideAll, Continues DEF Calling

LEMMA StartStepStep ==
  ASSUME IInv, NEW t \in Threads, NEW ok \in BOOLEAN, Start(t, ok)
  PROVE  IInv'
<1> DEFINE s == thr[t].step
<1>1. s \in Steps /\ thr[t].at \in Granted /\ At(t, "start") /\ OnlyRecord
  BY HasStep DEF Start, At, Stepping, Granted, Entering
<1>2. CASE ok /\ E!StartStep(Exec, s, ok)
  <2>1. \E place \in Calling : Go(t, place)
    BY <1>2 DEF Start, GoOrLeave, Calling, E!StartStep, E!StartRefused
  <2>. QED
    BY <1>1, <1>2, <2>1, StartAdmits
<1>3. CASE ~ok \/ E!StartRefused(Exec, s, ok)
  <2>1. Quiet(None, None)
    <3>1. Moved(None)
      BY <1>1, <1>3, Started, Appended DEF Start
    <3>2. PreviewsMoved(None) /\ invoked' = invoked
      BY <1>1, PreviewsStay DEF OnlyRecord, IInv
    <3>. QED
      BY <3>1, <3>2 DEF Quiet
  <2>2. Go(t, "drop") \/ Leave(t) \/ Refused(t)
    BY <1>3 DEF Start, GoOrLeave, E!StartRefused, E!StartStep
  <2>3. CASE Go(t, "drop")
    BY <1>1, <2>1, <2>3, BesideAll, Drops
  <2>4. CASE Leave(t) \/ Refused(t)
    BY <2>1, <2>4, Leaves, RefusedRests, RestsQuietly
  <2>. QED
    BY <2>2, <2>3, <2>4
<1>. QED
  BY <1>1, <1>2, <1>3 DEF Start

\* The call is counted: its start was on record before, and no other thread holds the step.
LEMMA InvokeStep ==
  ASSUME IInv, NEW t \in Threads, NEW outcome \in Outcomes, Invoke(t, outcome)
  PROVE  IInv'
<1> DEFINE s     == thr[t].step
           place == IF outcome = "crash" /\ ~Confirms(t) THEN "lost" ELSE "finish"
           rec   == [thr[t] EXCEPT !.outcome = outcome, !.at = place]
<1>1. /\ s \in Steps /\ thr[t].at \in Granted /\ thr[t].at \in Calling /\ At(t, "invoke")
      /\ thr[t].at \in Holding
  BY HasStep DEF Invoke, At, Stepping, Granted, Entering, Calling, Holding
<1>2. /\ UNCHANGED <<mem, db, used>> /\ UNCHANGED pvars /\ now' = now /\ lock' = lock
      /\ invoked' = [invoked EXCEPT ![s] = @ + 1]
  BY DEF Invoke, NoStore, evars
<1>3. place \in Holding /\ place \notin Entering /\ place \in Places /\ place \in Granted
      /\ place \notin Offering \cup Mutating /\ place \notin {"validate", "retry", "close", "consume"}
  BY DEF Mutating, Holding, Calling, Entering, Places, Stepping, Granted, Offering
<1>4. /\ rec \in ThreadType /\ rec.at = place /\ rec.step = s /\ rec.preview = thr[t].preview
      /\ thr' = [thr EXCEPT ![t] = rec]
  <2>1. thr[t] \in ThreadType /\ thr \in [Threads -> ThreadType]
    BY DEF IInv, TypeOK
  <2>2. thr' = [thr EXCEPT ![t] = rec]
    BY <2>1 DEF Invoke, ThreadType
  <2> HIDE DEF place
  <2>3. rec \in ThreadType /\ rec.at = place /\ rec.step = s /\ rec.preview = thr[t].preview
    BY <1>3, <2>1 DEF ThreadType
  <2>. QED
    BY <2>2, <2>3
<1> HIDE DEF place, rec
<1>5. /\ thr' \in [Threads -> ThreadType] /\ thr'[t] = rec
      /\ \A u \in Threads \ {t} : thr'[u] = thr[u]
  BY <1>4 DEF IInv, TypeOK
<1>6. /\ invoked \in [Steps -> Nat] /\ invoked' \in [Steps -> Nat]
      /\ invoked'[s] = invoked[s] + 1
      /\ \A r \in Steps \ {s} : invoked'[r] = invoked[r]
  <2>1. invoked \in [Steps -> Nat] /\ invoked[s] \in Nat
    BY <1>1 DEF IInv, TypeOK
  <2>2. invoked[s] + 1 \in Nat
    BY <2>1
  <2> HIDE DEF s
  <2>. QED
    BY <1>1, <1>2, <2>1, <2>2
<1>7. TypeOK'
  BY <1>2, <1>5, <1>6 DEF IInv, TypeOK, pvars
<1>8. RecordsOK'
  <2>1. invoked[s] < mem[Exec].starts[s] /\ invoked[s] < db[Exec].starts[s]
    BY <1>1 DEF IInv, ThreadsOK, StepOK
  <2>2. invoked[s] \in Nat /\ mem[Exec].starts[s] \in Nat /\ db[Exec].starts[s] \in Nat
    <3>1. mem[Exec] \in RecordType /\ db[Exec] \in RecordType
      BY DEF IInv, TypeOK
    <3>. QED
      BY <1>1, <1>6, <3>1 DEF RecordType
  <2>3. invoked'[s] <= mem[Exec].starts[s] /\ invoked'[s] <= db[Exec].starts[s]
    BY <1>6, <2>1, <2>2
  <2>4. \A r \in Steps : invoked'[r] <= mem[Exec].starts[r] /\ invoked'[r] <= db[Exec].starts[r]
    BY <1>6, <2>3 DEF IInv, RecordsOK, Counted
  <2>. QED
    BY <1>2, <2>4 DEF IInv, RecordsOK, Counted, Sound, Fresh, pvars
<1>9. StepOK(t)' /\ ClaimOK(t)'
  <2>1. StepOK(t) /\ ClaimOK(t)
    BY DEF IInv, ThreadsOK
  <2>2. StepOK(t)'
    BY <1>1, <1>2, <1>3, <1>4, <1>5, <2>1 DEF StepOK, At, Calling, Entering
  <2>3. ClaimOK(t)'
    BY <1>1, <1>2, <1>3, <1>4, <1>5, <2>1 DEF ClaimOK, At, pvars, Key
  <2>. QED
    BY <2>2, <2>3
<1>10. ASSUME NEW u \in Threads \ {t}
       PROVE  StepOK(u)' /\ ClaimOK(u)' /\ Apart(t, u)'
  <2>1. StepOK(u) /\ ClaimOK(u) /\ Apart(t, u) /\ thr'[u] = thr[u]
    BY <1>5 DEF IInv, ThreadsOK
  <2>2. thr[u].at \in Calling => thr[u].step \in Steps /\ invoked'[thr[u].step] = invoked[thr[u].step]
    BY <1>1, <1>6, <2>1 DEF Apart, StepOK, Holding, Stepping, Granted
  <2>3. StepOK(u)'
    BY <1>2, <2>1, <2>2 DEF StepOK, At, IsRuntime
  <2>4. ClaimOK(u)'
    BY <1>2, <2>1 DEF ClaimOK, At, pvars, Key
  <2>5. Apart(t, u)'
    BY <1>1, <1>4, <1>5, <2>1 DEF Apart
  <2>. QED
    BY <2>3, <2>4, <2>5
<1>11. \A v, u \in Threads : v # u => Apart(v, u)'
  <2> SUFFICES ASSUME NEW v \in Threads, NEW u \in Threads, v # u
               PROVE  Apart(v, u)'
    OBVIOUS
  <2>1. CASE v = t \/ u = t
    BY <1>10, <2>1, ApartIsSymmetric
  <2>2. CASE v # t /\ u # t
    <3>1. thr'[v] = thr[v] /\ thr'[u] = thr[u] /\ Apart(v, u)
      BY <1>5, <2>2 DEF IInv, ThreadsOK
    <3>. QED
      BY <3>1 DEF Apart
  <2>. QED
    BY <2>1, <2>2
<1>. QED
  BY <1>7, <1>8, <1>9, <1>10, <1>11 DEF IInv, ThreadsOK

\* A step that has ended is in nobody else's hands, and only a read is tried again.
LEMMA FinishStepStep ==
  ASSUME IInv, NEW t \in Threads, NEW ok \in BOOLEAN, Finish(t, ok)
  PROVE  IInv'
<1> DEFINE s       == thr[t].step
           success == thr[t].outcome = "success"
<1>1. /\ s \in Steps /\ thr[t].at \in Granted /\ thr[t].at \in Holding
      /\ mem[Exec].steps[s] = "running"
  <2>1. thr[t].at \in Granted /\ thr[t].at \in Stepping /\ thr[t].at \in Holding
    BY DEF Finish, At, Stepping, Granted, Entering, Calling, Holding
  <2>. QED
    BY <2>1, HasStep DEF IInv, ThreadsOK, StepOK
<1>2. /\ Moved(s) /\ mem'[Exec].steps[s] = IF success THEN "completed" ELSE "failed"
      /\ mem'[Exec].starts = mem[Exec].starts
  <2>1. success \in BOOLEAN /\ E!FinishStep(Exec, s, success, ok)
    BY DEF Finish
  <2> HIDE DEF success
  <2>. QED
    BY <1>1, <2>1, Finished
<1>3. Quiet(s, None)
  BY <1>2, PreviewsStay DEF Quiet, Finish, OnlyRecord, IInv
<1>4. ASSUME NEW u \in Threads \ {t}
      PROVE  Beside(u, s, None)
  <2>1. thr[u].at \in Holding => thr[u].step # s
    BY <1>1 DEF IInv, ThreadsOK, Apart
  <2>2. At(u, "retry") => thr[u].step # s
    BY <1>1 DEF IInv, ThreadsOK, StepOK
  <2>. QED
    BY <2>1, <2>2 DEF Beside
<1>5. \/ Go(t, "close") /\ Confirms(t)
      \/ Go(t, "drop") \/ Leave(t) \/ Go(t, "advance")
      \/ /\ Go(t, "retry") /\ IsRuntime(t) /\ ~Confirms(t) /\ ~success
         /\ mem[Exec].starts[s] <= 1
  BY DEF Finish, AfterFinish, MayRetry, Record
<1>6. CASE (Go(t, "close") /\ Confirms(t)) \/ Go(t, "drop")
  BY <1>1, <1>3, <1>4, <1>6, Drops DEF Confirms
<1>7. CASE Leave(t) \/ Go(t, "advance")
  BY <1>1, <1>3, <1>4, <1>7, Leaves, GoesToRest, Rests DEF Stepping, Granted, Entering, Calling, Holding, Offering
<1>8. CASE /\ Go(t, "retry") /\ IsRuntime(t) /\ ~Confirms(t) /\ ~success
           /\ mem[Exec].starts[s] <= 1
  <2>1. "retry" \in Places
    BY DEF Places, Stepping
  <2>2. /\ OnlyThese({t}) /\ thr'[t].at = "retry" /\ thr'[t].step = s /\ lock' = t
        /\ thr'[t].preview = None
    BY <1>8, <2>1, Goes DEF Confirms, IsRuntime
  <2>3. s \notin Mutations
    BY <1>1, <1>8 DEF IInv, ThreadsOK, ClaimOK, Confirms
  <2>4. StepOK(t)'
    BY <1>1, <1>2, <1>8, <2>2 DEF StepOK, At, IsRuntime, Holding, Calling, Entering
  <2>5. ClaimOK(t)'
    BY <2>2, <2>3 DEF ClaimOK, At, Offering, Mutating, Entering, Holding, Calling
  <2>6. \A u \in Threads \ {t} : Apart(t, u)'
    BY <2>2 DEF Apart, Holding, Calling
  <2>. QED
    BY <1>3, <1>4, <2>2, <2>4, <2>5, <2>6, Single
<1>. QED
  BY <1>5, <1>6, <1>7, <1>8

LEMMA LostStep ==
  ASSUME IInv, NEW t \in Threads, Lost(t)
  PROVE  IInv'
<1>1. /\ thr[t].step \in Steps /\ thr[t].at \in Granted /\ OnlyRecord
      /\ E!CallerLost(Exec, thr[t].step)
  BY HasStep DEF Lost, At, Stepping, Granted, Holding
<1>2. Quiet(None, None)
  BY <1>1, QuietRecord
<1>. QED
  BY <1>1, <1>2, BesideAll, Drops, Leaves, RestsQuietly DEF Lost

----------------------------------------------------------------------------
(* The actions of the mutation service *)

LEMMA PreviewBeginStep ==
  ASSUME IInv, NEW t \in Threads, NEW s \in Steps, PreviewBegin(t, s)
  PROVE  IInv'
<1>1. Quiet(None, None)
  BY QuietStores DEF PreviewBegin
<1>2. /\ Begin(t, "request", s, None) /\ lock' = lock
      /\ s \in Mutations /\ "request" \in Places
  BY DEF PreviewBegin, Places, Stepping
<1>3. OnlyThese({t}) /\ thr'[t].at = "request" /\ thr'[t].step = s
  BY <1>2, Begins
<1>4. AtRest(t)
  BY <1>2, <1>3 DEF AtRest
<1>. QED
  BY <1>1, <1>4, RestsQuietly

LEMMA RequestStep ==
  ASSUME IInv, NEW t \in Threads, NEW answer, NEW ok \in BOOLEAN, Request(t, answer, ok)
  PROVE  IInv'
<1>1. thr[t].step \in Mutations
  BY DEF Request, At, Mutating, IInv, ThreadsOK, ClaimOK
<1>2. Quiet(None, None)
  BY QuietRecord DEF Request
<1>3. AtRest(t)
  BY <1>1, RefusedRests, GoesOrLeaves DEF Request
<1>. QED
  BY <1>2, <1>3, RestsQuietly

LEMMA CreateStep ==
  ASSUME IInv, NEW t \in Threads, NEW p \in Previews, NEW ok \in BOOLEAN, Create(t, p, ok)
  PROVE  IInv'
<1>1. thr[t].step \in Mutations
  BY DEF Create, At, Mutating, IInv, ThreadsOK, ClaimOK
<1>2. Quiet(None, None)
  BY <1>1, QuietPreview DEF Create
<1>. QED
  BY <1>2, Leaves, RestsQuietly DEF Create

LEMMA CreateConflictStep ==
  ASSUME IInv, NEW t \in Threads, CreateConflict(t)
  PROVE  IInv'
<1>1. Quiet(None, None)
  BY QuietStores DEF CreateConflict
<1>. QED
  BY <1>1, RefusedRests, RestsQuietly DEF CreateConflict

\* A thread that was shown a preview of its step looks further.
LEMMA Looks ==
  ASSUME IInv, Quiet(None, None), NEW t \in Threads, OnlyThese({t}), thr'[t].at \in Offering,
         thr'[t].step \in Mutations, thr'[t].preview \in pused',
         \/ pmem'[thr'[t].preview].status = "absent"
         \/ pmem'[thr'[t].preview].key = Key(thr'[t].step)
  PROVE  IInv'
<1>1. thr'[t].at \notin Granted \cup Holding \cup {"validate", "retry", "close", "consume"}
  BY DEF Offering, Granted, Entering, Calling, Holding
<1>2. StepOK(t)'
  BY <1>1 DEF StepOK, At, Granted, Entering, Holding
<1>3. ClaimOK(t)'
  BY <1>1 DEF ClaimOK, At, Granted, Key
<1>4. \A u \in Threads : Apart(t, u)'
  BY <1>1 DEF Apart
<1>. QED
  BY <1>2, <1>3, <1>4, BesideAll, Single

LEMMA ConfirmBeginStep ==
  ASSUME IInv, NEW t \in Threads, NEW p \in Previews, NEW ok \in BOOLEAN, ConfirmBegin(t, p, ok)
  PROVE  IInv'
<1> DEFINE s == pmem[p].key[2]
<1>1. Quiet(None, None) /\ pvars' = pvars
  BY QuietRecord DEF ConfirmBegin, OnlyRecord
<1>2. p \in pused /\ s \in Mutations /\ pmem[p].key = Key(s)
  <2>1. pmem[p].status # "absent" /\ pmem[p] \in PreviewType
    BY PreviewFacts DEF ConfirmBegin
  <2>2. PICK r \in Mutations : pmem[p].key = Key(r)
    BY <2>1 DEF PreviewType
  <2>. QED
    BY <2>1, <2>2, PreviewFacts DEF Key
<1> HIDE DEF s
<1>3. CASE ok
  <2>1. Begin(t, "verify", s, p) /\ lock' = lock /\ "verify" \in Places
    BY <1>3 DEF ConfirmBegin, Places, Stepping, Offering, s
  <2>2. OnlyThese({t}) /\ thr'[t].at = "verify" /\ thr'[t].step = s /\ thr'[t].preview = p
    BY <1>2, <2>1, Begins
  <2>. QED
    BY <1>1, <1>2, <2>2, Looks DEF pvars, Offering
<1>4. CASE ~ok
  <2>1. thr' = thr /\ lock' = lock /\ At(t, "idle")
    BY <1>4 DEF ConfirmBegin
  <2>2. AtRest(t)
    BY <2>1 DEF AtRest, OnlyThese, At, IInv, TypeOK, Stepping, Granted, Entering, Calling,
                Holding, Offering, Mutating
  <2>. QED
    BY <1>1, <2>2, RestsQuietly
<1>. QED
  BY <1>3, <1>4

LEMMA VerifyStep ==
  ASSUME IInv, NEW t \in Threads, NEW ok \in BOOLEAN, Verify(t, ok)
  PROVE  IInv'
<1> DEFINE s == thr[t].step
           p == thr[t].preview
<1>1. /\ s \in Mutations /\ p \in pused /\ p \in Previews
      /\ pmem[p].status = "absent" \/ pmem[p].key = Key(s)
  BY PreviewFacts DEF Verify, At, Mutating, Offering, IInv, ThreadsOK, ClaimOK
<1>2. Quiet(None, None)
  BY <1>1, QuietPreview, QuietStores DEF Verify
<1>3. CASE Leave(t)
  BY <1>2, <1>3, Leaves, RestsQuietly
<1>4. CASE NoStore /\ (Go(t, "claim") \/ Go(t, "stale"))
  <2>1. PICK place \in {"claim", "stale"} : Go(t, place)
    BY <1>4
  <2>2. place \in Places /\ place \in Offering
    BY DEF Places, Stepping, Offering
  <2>3. OnlyThese({t}) /\ thr'[t].at = place /\ thr'[t].step = s /\ thr'[t].preview = p
    BY <2>1, <2>2, Goes
  <2>4. pused' = pused /\ pmem' = pmem
    BY <1>4 DEF NoStore, pvars
  <2>. QED
    BY <1>1, <1>2, <2>2, <2>3, <2>4, Looks
<1>. QED
  BY <1>3, <1>4 DEF Verify

LEMMA StaleStep ==
  ASSUME IInv, NEW t \in Threads, NEW ok \in BOOLEAN, Stale(t, ok)
  PROVE  IInv'
<1>1. Key(thr[t].step) \in P!Keys
  BY HasStep DEF Stale, At, Stepping, Offering
<1>2. Quiet(None, None)
  BY <1>1, QuietPreview, QuietStores DEF Stale, Waiting
<1>. QED
  BY <1>2, Leaves, RestsQuietly DEF Stale

\* The claim was pending until now, so no other thread was granted it, and what it
\* lets start is on record.
LEMMA ClaimStep ==
  ASSUME IInv, NEW t \in Threads, NEW ok \in BOOLEAN, Claim(t, ok)
  PROVE  IInv'
<1> DEFINE s == thr[t].step
           p == thr[t].preview
<1>1. /\ s \in Mutations /\ p \in pused /\ p \in Previews
      /\ pmem[p].status = "absent" \/ pmem[p].key = Key(s)
  BY PreviewFacts DEF Claim, At, Mutating, Offering, IInv, ThreadsOK, ClaimOK
<1>2. Quiet(None, None)
  BY <1>1, QuietPreview, QuietStores DEF Claim
<1>3. CASE Leave(t)
  BY <1>2, <1>3, Leaves, RestsQuietly
<1>4. CASE ok /\ P!Claim(p, ok) /\ Go(t, "start")
  <2>1. "start" \in Places
    BY DEF Places, Stepping, Granted, Entering
  <2>2. OnlyThese({t}) /\ thr'[t].at = "start" /\ thr'[t].step = s /\ thr'[t].preview = p
    BY <1>4, <2>1, Goes
  <2>3. /\ pused' = pused /\ pmem[p].status = "pending_confirmation"
        /\ pmem'[p].status = "confirmed" /\ pmem'[p].key = pmem[p].key /\ pdb'[p] = pmem'[p]
    BY <1>1, <1>4, Claimed
  <2>4. s \in Steps /\ Sources[s] = {}
    BY <1>1 DEF Bindings
  <2>5. StepOK(t)'
    BY <2>2, <2>4 DEF StepOK, At, Holding, Calling
  <2>6. p # None
    BY <1>1
  <2>7. ClaimOK(t)'
    BY <1>1, <2>2, <2>3, <2>6 DEF ClaimOK, At, Offering, Mutating, Key
  <2>8. ASSUME NEW u \in Threads \ {t}
        PROVE  Apart(t, u)'
    <3>1. thr'[u] = thr[u] /\ (thr[u].at \in Granted => thr[u].preview # p)
      BY <1>1, <2>2, <2>3, <2>6 DEF OnlyThese, IInv, ThreadsOK, ClaimOK
    <3>. QED
      BY <2>2, <3>1 DEF Apart, Holding, Calling
  <2>. QED
    BY <1>2, <2>2, <2>5, <2>7, <2>8, BesideAll, Single
<1>. QED
  BY <1>3, <1>4 DEF Claim, GoOrLeave

LEMMA AnnounceStep ==
  ASSUME IInv, NEW t \in Threads, NEW ok \in BOOLEAN, Announce(t, ok)
  PROVE  IInv'
<1> DEFINE place == IF ok THEN "invoke" ELSE "lost"
<1>1. /\ thr[t].step \in Steps /\ thr[t].at \in Granted /\ thr[t].at \in Calling
      /\ thr[t].at \in Entering /\ thr[t].at \in Holding
  BY HasStep DEF Announce, At, Stepping, Granted, Entering, Calling, Holding
<1>2. Moved(None) /\ mem'[Exec] = mem[Exec] /\ (ok => db'[Exec] = mem[Exec])
  BY Appended DEF Announce
<1>3. Quiet(None, None)
  BY QuietRecord DEF Announce
<1>4. place \in Places /\ place \in Granted /\ place \in Holding /\ Go(t, place)
  BY DEF Announce, Places, Stepping, Granted, Holding, Calling
<1>5. /\ OnlyThese({t}) /\ thr'[t].at = place /\ thr'[t].step = thr[t].step
      /\ thr'[t].preview = thr[t].preview
  BY <1>4, Goes
<1>6. StepOK(t)'
  <2>1. StepOK(t) /\ db'[Exec] \in {mem'[Exec], db[Exec]} /\ invoked' = invoked
    BY <1>2, <1>3 DEF IInv, ThreadsOK, Moved, Quiet
  <2>2. thr'[t].at # "retry"
    BY <1>5
  <2>. QED
    BY <1>1, <1>2, <1>5, <2>1, <2>2 DEF StepOK, At
<1>7. \A u \in Threads \ {t} : thr[u].at \in Holding => thr[u].step # thr[t].step
  BY <1>1 DEF IInv, ThreadsOK, Apart
<1>. QED
  BY <1>1, <1>3, <1>4, <1>5, <1>6, <1>7, BesideAll, Continues

LEMMA CloseStep ==
  ASSUME IInv, NEW t \in Threads, NEW ok \in BOOLEAN, Close(t, ok)
  PROVE  IInv'
<1>1. thr[t].at \in Granted /\ thr[t].preview # None
  BY DEF Close, At, Granted, IInv, ThreadsOK, ClaimOK
<1>2. Quiet(None, None)
  BY QuietRecord DEF Close
<1>. QED
  BY <1>1, <1>2, BesideAll, Drops DEF Close

LEMMA ConsumeStep ==
  ASSUME IInv, NEW t \in Threads, NEW ok \in BOOLEAN, Consume(t, ok)
  PROVE  IInv'
<1> DEFINE p == thr[t].preview
<1>1. thr[t].at \in Granted /\ p # None /\ p \in Previews
  BY PreviewFacts DEF Consume, At, Granted, IInv, ThreadsOK, ClaimOK
<1>2. Quiet(None, p)
  <2>1. UNCHANGED <<mem, db, used>> /\ invoked' = invoked /\ now' = now /\ now \in Nat
    BY DEF Consume, OnlyPreview, evars, P!Consume, IInv, TypeOK
  <2>2. Moved(None)
    BY <2>1, RecordStays DEF IInv
  <2>3. PreviewsMoved(p)
    BY <1>1, Consumed DEF Consume
  <2>. QED
    BY <2>1, <2>2, <2>3 DEF Quiet
<1>3. \A u \in Threads \ {t} : Beside(u, None, p)
  BY <1>1, BesideAll DEF Beside, IInv, ThreadsOK, Apart
<1>. QED
  BY <1>2, <1>3, Leaves, Rests DEF Consume

LEMMA DropStep ==
  ASSUME IInv, NEW t \in Threads, Drop(t)
  PROVE  IInv'
<1>1. Quiet(None, None)
  BY QuietPreview DEF Drop
<1>. QED
  BY <1>1, Leaves, RestsQuietly DEF Drop

----------------------------------------------------------------------------
(* The environment *)

LEMMA NoThreadMoves ==
  ASSUME IInv, Quiet(None, None), UNCHANGED <<lock, thr>>
  PROVE  IInv'
<1>1. Moved(None) /\ PreviewsMoved(None) /\ invoked' = invoked /\ OnlyThese({})
  BY DEF Quiet, OnlyThese, IInv, TypeOK
<1>2. {} \in SUBSET Threads
  OBVIOUS
<1>3. \A u \in Threads \ {} : Beside(u, None, None)
  BY BesideAll
<1>. QED
  BY <1>1, <1>2, <1>3, Frame

\* The record is new: no thread can have started a step of it.
LEMMA OpenStep ==
  ASSUME IInv, NEW ok \in BOOLEAN, Open(ok)
  PROVE  IInv'
<1> DEFINE rec == E!NewRecord(Review, {})
<1>1. /\ Exec \notin used /\ used' = used \cup {Exec} /\ now' = now
      /\ UNCHANGED pvars /\ UNCHANGED <<lock, thr, invoked>>
  BY DEF Open, OnlyRecord, E!Create
<1>2. mem' = [f \in {Exec} |-> rec] /\ (db' = [f \in {Exec} |-> rec] \/ db' = db)
  <2>1. PICK gone \in E!EvictionChoices(mem) :
          /\ mem' = [f \in {Exec} |-> IF f = Exec THEN rec
                                      ELSE IF f \in gone THEN E!NoRecord ELSE mem[f]]
          /\ E!Persist(Exec, rec, gone, ok)
    BY DEF Open, E!Create
  <2> HIDE DEF rec
  <2>. QED
    BY <2>1 DEF E!Persist
<1>3. /\ rec \in RecordType /\ rec.status = "pending_execution"
      /\ rec.steps = [s \in Steps |-> "pending"] /\ rec.starts = [s \in Steps |-> 0]
  BY DEF E!NewRecord, RecordType, E!StepStatus, E!Active
<1>4. /\ mem[Exec].status = "absent" /\ db[Exec].status = "absent"
      /\ \A s \in Steps : /\ mem[Exec].steps[s] = "skipped" /\ mem[Exec].starts[s] = 0
                          /\ invoked[s] \in Nat /\ invoked[s] <= mem[Exec].starts[s]
  BY <1>1 DEF IInv, TypeOK, RecordsOK, Fresh, Sound, Counted
<1>5. \A s \in Steps : invoked[s] = 0
  BY <1>4
<1> HIDE DEF rec
<1>6. mem'[Exec] = rec /\ db'[Exec] \in {rec, db[Exec]}
  BY <1>2
<1>7. TypeOK'
  BY <1>1, <1>2, <1>3 DEF IInv, TypeOK, pvars
<1>8. RecordsOK'
  <2>1. Sound(rec)
    <3>1. \A s \in Steps : rec.steps[s] = "pending" /\ rec.starts[s] = 0
      BY <1>3
    <3>2. 0 <= 1
      OBVIOUS
    <3>. QED
      BY <1>3, <3>1, <3>2 DEF Sound
  <2>2. \A s \in Steps : invoked[s] <= rec.starts[s]
    BY <1>3, <1>5
  <2>3. Fresh'
    BY <1>1 DEF Fresh, IInv, RecordsOK, pvars
  <2>. QED
    BY <1>1, <1>6, <2>1, <2>2, <2>3 DEF IInv, RecordsOK, Counted, Sound
<1>9. ASSUME NEW t \in Threads
      PROVE  StepOK(t)' /\ ClaimOK(t)'
  <2>1. StepOK(t) /\ ClaimOK(t)
    BY DEF IInv, ThreadsOK
  <2>2. thr[t].at \notin Holding /\ ~At(t, "retry")
    BY <1>4, <2>1 DEF StepOK, Stepping, Granted, At
  <2>3. thr[t].at \in Entering => Sources[thr[t].step] = {}
    BY <1>4, <2>1 DEF StepOK, Stepping, Granted, Bindings
  <2>4. StepOK(t)'
    BY <1>1, <2>1, <2>2, <2>3 DEF StepOK, At, Holding
  <2>5. ClaimOK(t)'
    BY <1>1, <2>1 DEF ClaimOK, At, pvars, Key
  <2>. QED
    BY <2>4, <2>5
<1>10. ThreadsOK'
  BY <1>1, <1>9 DEF IInv, ThreadsOK, Apart
<1>. QED
  BY <1>7, <1>8, <1>10 DEF IInv

\* No thread survives, and what the rows say is the invariant's already.
LEMMA RestartStep ==
  ASSUME IInv, Restart
  PROVE  IInv'
<1>1. /\ mem' = db /\ UNCHANGED <<db, used, now, invoked, pused>> /\ lock' = None
      /\ thr' = [t \in Threads |-> Idle]
      /\ pmem' = [p \in Previews |-> P!Restored(pdb[p])] /\ pdb' = pmem'
      /\ active' = [k \in P!Keys |-> IF P!OpenAfterRestart(k) = {} THEN None
                                     ELSE CHOOSE p \in P!OpenAfterRestart(k) : TRUE]
  BY DEF Restart, E!Restart, P!Restart
<1>2. \A p \in Previews : /\ P!Restored(pdb[p]) \in PreviewType
                          /\ pdb[p].status = "absent" => P!Restored(pdb[p]).status = "absent"
  <2> SUFFICES ASSUME NEW p \in Previews
               PROVE  /\ P!Restored(pdb[p]) \in PreviewType
                      /\ pdb[p].status = "absent" => P!Restored(pdb[p]).status = "absent"
    OBVIOUS
  <2>1. pdb[p] \in PreviewType
    BY PreviewFacts
  <2>2. \/ P!Restored(pdb[p]) = pdb[p]
        \/ /\ pdb[p].status # "absent"
           /\ \E st \in {"cancelled", "expired"} : P!Restored(pdb[p]) = [pdb[p] EXCEPT !.status = st]
    BY DEF P!Restored
  <2>3. {"cancelled", "expired"} \subseteq P!Open \cup P!Closed
    BY DEF P!Closed
  <2>. QED
    BY <2>1, <2>2, <2>3, StatusOf
<1>3. pmem' \in [Previews -> PreviewType] /\ pdb' \in [Previews -> PreviewType]
  BY <1>1, <1>2
<1>4. active' \in [P!Keys -> Previews \cup {None}]
  <2>1. \A k \in P!Keys : P!OpenAfterRestart(k) # {} =>
          (CHOOSE p \in P!OpenAfterRestart(k) : TRUE) \in Previews
    BY DEF P!OpenAfterRestart
  <2>. QED
    BY <1>1, <2>1
<1>5. Idle \in ThreadType /\ Idle.at = "idle"
  BY DEF Idle, ThreadType, Places
<1>6. TypeOK'
  BY <1>1, <1>3, <1>4, <1>5 DEF IInv, TypeOK
<1>7. RecordsOK'
  <2>1. Fresh'
    BY <1>1, <1>2 DEF IInv, RecordsOK, Fresh
  <2>. QED
    BY <1>1, <2>1 DEF IInv, RecordsOK, Sound, Counted
<1>8. \A t \in Threads : thr'[t].at = "idle"
  BY <1>1, <1>5
<1>9. ThreadsOK'
  BY <1>8 DEF ThreadsOK, StepOK, ClaimOK, Apart, At, Stepping, Granted, Entering, Holding,
              Calling, Offering, Mutating
<1>. QED
  BY <1>6, <1>7, <1>9 DEF IInv

LEMMA EnvironmentStep ==
  ASSUME IInv, Environment
  PROVE  IInv'
<1>1. ASSUME NEW ok \in BOOLEAN, Open(ok)
      PROVE  IInv'
  BY <1>1, OpenStep
<1>2. ASSUME NEW ok \in BOOLEAN, NEW p \in Previews, LookAt(p, ok)
      PROVE  IInv'
  BY <1>2, QuietPreview, NoThreadMoves DEF LookAt
<1>3. ASSUME NEW ok \in BOOLEAN, NEW s \in Mutations, CancelPreview(s, ok)
      PROVE  IInv'
  <2>1. Key(s) \in P!Keys
    BY DEF Key, P!Keys
  <2>. QED
    BY <1>3, <2>1, QuietPreview, NoThreadMoves DEF CancelPreview
<1>4. CASE ReviewLapses
  <2>1. Quiet(None, None)
    <3>1. UNCHANGED <<mem, db, used>> /\ UNCHANGED pvars /\ invoked' = invoked /\ now' \in Nat
      BY <1>4 DEF ReviewLapses, evars, IInv, TypeOK
    <3>. QED
      BY <3>1, RecordStays, PreviewsStay DEF Quiet, IInv
  <2>. QED
    BY <1>4, <2>1, NoThreadMoves DEF ReviewLapses
<1>5. CASE Restart
  BY <1>5, RestartStep
<1>6. CASE Tick
  <2>1. Quiet(None, None)
    <3>1. UNCHANGED <<mem, db, used>> /\ UNCHANGED pvars /\ invoked' = invoked /\ now' \in Nat
      BY <1>6 DEF Tick, E!Tick, IInv, TypeOK
    <3>. QED
      BY <3>1, RecordStays, PreviewsStay DEF Quiet, IInv
  <2>. QED
    BY <1>6, <2>1, NoThreadMoves DEF Tick
<1>. QED
  BY <1>1, <1>2, <1>3, <1>4, <1>5, <1>6 DEF Environment

----------------------------------------------------------------------------
(* The theorems *)

LEMMA ThreadStepKeeps ==
  ASSUME IInv, NEW t \in Threads, ThreadStep(t)
  PROVE  IInv'
<1>1. CASE Advance(t) \/ Lost(t) \/ CreateConflict(t) \/ Drop(t)
  BY <1>1, AdvanceStep, LostStep, CreateConflictStep, DropStep
<1>2. ASSUME NEW ok \in BOOLEAN,
             \/ AdvanceEnd(t, ok) \/ Offer(t, ok) \/ Stop(t, ok) \/ Retry(t, ok)
             \/ Withdraw(t, ok) \/ Cancel(t, ok)
      PROVE  IInv'
  BY <1>2, AdvanceEndStep, OfferStep, StopStep, RetryThenAdvance, WithdrawStep, CancelStep
<1>3. ASSUME NEW ok \in BOOLEAN, NEW answer, Validate(t, answer, ok) \/ Request(t, answer, ok)
      PROVE  IInv'
  BY <1>3, ValidateStep, RequestStep
<1>4. ASSUME NEW ok \in BOOLEAN,
             \/ Start(t, ok) \/ Finish(t, ok)
             \/ Verify(t, ok) \/ Stale(t, ok) \/ Claim(t, ok)
             \/ Announce(t, ok) \/ Close(t, ok) \/ Consume(t, ok)
      PROVE  IInv'
  BY <1>4, StartStepStep, FinishStepStep, VerifyStep, StaleStep, ClaimStep, AnnounceStep,
     CloseStep, ConsumeStep
<1>5. ASSUME NEW ok \in BOOLEAN, NEW p \in Previews, Create(t, p, ok)
      PROVE  IInv'
  BY <1>5, CreateStep
<1>6. ASSUME NEW outcome \in Outcomes, Invoke(t, outcome)
      PROVE  IInv'
  BY <1>6, InvokeStep
<1>. QED
  BY <1>1, <1>2, <1>3, <1>4, <1>5, <1>6 DEF ThreadStep

LEMMA RequestKeeps ==
  ASSUME IInv, NEW t \in Threads, ExecutionRequest(t) \/ MutationRequest(t)
  PROVE  IInv'
  BY CancelBeginStep, StepBeginStep, RunBeginStep, PreviewBeginStep, ConfirmBeginStep
     DEF ExecutionRequest, MutationRequest

\* A step in which nothing of what the invariant speaks of changes.
LEMMA StutterKeeps ==
  ASSUME IInv, UNCHANGED vars
  PROVE  IInv'
<1>1. UNCHANGED <<mem, db, used>> /\ UNCHANGED pvars /\ invoked' = invoked /\ now' \in Nat
  BY DEF vars, evars, IInv, TypeOK
<1>2. Quiet(None, None)
  BY <1>1, RecordStays, PreviewsStay DEF Quiet, IInv
<1>. QED
  BY <1>2, NoThreadMoves DEF vars

LEMMA IInvInit ==
  ASSUME Init
  PROVE  IInv
<1>1. /\ E!NoRecord \in RecordType /\ E!NoRecord.status = "absent"
      /\ E!NoRecord.steps = [s \in Steps |-> "skipped"]
      /\ E!NoRecord.starts = [s \in Steps |-> 0]
  BY DEF E!NoRecord, RecordType, E!StepStatus
<1>2. P!NoPreview \in PreviewType /\ P!NoPreview.status = "absent"
  BY DEF P!NoPreview, PreviewType
<1>3. Idle \in ThreadType /\ Idle.at = "idle"
  BY DEF Idle, ThreadType, Places
<1>4. mem = [e \in {Exec} |-> E!NoRecord] /\ db = mem /\ used = {} /\ now = 1
  BY DEF Init, E!Init
<1>5. /\ pmem = [p \in Previews |-> P!NoPreview] /\ pdb = pmem
      /\ active = [k \in P!Keys |-> None] /\ pused = {} /\ lock = None
      /\ thr = [t \in Threads |-> Idle] /\ invoked = [s \in Steps |-> 0]
  BY DEF Init
<1>6. TypeOK
  BY <1>1, <1>2, <1>3, <1>4, <1>5 DEF TypeOK
<1>7. RecordsOK
  <2>1. /\ mem[Exec] = E!NoRecord /\ db[Exec] = E!NoRecord
        /\ \A p \in Previews : pmem[p] = P!NoPreview /\ pdb[p] = P!NoPreview
    BY <1>4, <1>5
  <2>2. \A s \in Steps : E!NoRecord.steps[s] = "skipped" /\ E!NoRecord.starts[s] = 0
    BY <1>1
  <2>3. Sound(E!NoRecord)
    <3>1. \A s \in Steps : E!NoRecord.starts[s] <= 2
      BY <2>2
    <3>. QED
      BY <1>1, <2>2, <3>1 DEF Sound
  <2>4. Counted(E!NoRecord)
    BY <1>5, <2>2 DEF Counted
  <2>. QED
    BY <1>1, <1>2, <2>1, <2>3, <2>4 DEF RecordsOK, Counted, Fresh
<1>8. ThreadsOK
  <2>1. \A t \in Threads : thr[t].at = "idle"
    BY <1>3, <1>5
  <2>. QED
    BY <2>1 DEF ThreadsOK, StepOK, ClaimOK, Apart, At, Stepping, Granted, Entering, Holding,
                Calling, Offering, Mutating
<1>. QED
  BY <1>6, <1>7, <1>8 DEF IInv

\* The inductive invariant holds of every execution, for any threads, previews,
\* steps, input bindings, failed writes, lapses of the review and restarts.
THEOREM IInvHolds == Spec => []IInv
<1>1. Init => IInv
  BY IInvInit
<1>2. IInv /\ [Next]_vars => IInv'
  BY ThreadStepKeeps, RequestKeeps, EnvironmentStep, StutterKeeps DEF Next
<1>. QED
  BY <1>1, <1>2, PTL DEF Spec

\* Threads, records, previews and the lock keep their types, whichever threads interleave,
\* writes fail and restarts happen.
THEOREM TypeCorrect == Spec => []TypeOK
<1>1. IInv => TypeOK
  BY DEF IInv
<1>. QED
  BY <1>1, IInvHolds, PTL

LEMMA CallsAreBounded ==
  ASSUME IInv
  PROVE  EffectOnce
<1> SUFFICES ASSUME NEW s \in Steps
             PROVE  invoked[s] <= IF s \in Mutations THEN 1 ELSE 2
  BY DEF EffectOnce
<1>1. /\ invoked[s] \in Nat /\ mem[Exec].starts[s] \in Nat
      /\ invoked[s] <= mem[Exec].starts[s]
  BY RecordFacts DEF IInv, TypeOK, RecordsOK, Counted
<1>2. mem[Exec].starts[s] <= IF s \in Mutations THEN 1 ELSE 2
  <2>1. CASE s \in Mutations
    <3>1. mem[Exec].starts[s] = 0 \/ mem[Exec].starts[s] = 1
      BY <2>1, RecordFacts DEF Sound
    <3>. QED
      BY <2>1, <3>1
  <2>2. CASE s \notin Mutations
    <3>1. mem[Exec].starts[s] <= IF mem[Exec].steps[s] = "pending" THEN 1 ELSE 2
      BY <2>2, RecordFacts DEF Sound
    <3>. QED
      BY <1>1, <2>2, <3>1
  <2>. QED
    BY <2>1, <2>2
<1>. QED
  BY <1>1, <1>2

\* The adapter of a mutation is called at most once and that of a read at most twice, for
\* any number of threads and previews, and whatever fails, expires or is restarted.
THEOREM EffectOnceHolds == Spec => []EffectOnce
<1>1. IInv => EffectOnce
  BY CallsAreBounded
<1>. QED
  BY <1>1, IInvHolds, PTL

LEMMA ClaimIsOnRecord ==
  ASSUME IInv
  PROVE  IntentBeforeEffect
<1> SUFFICES ASSUME NEW t \in Threads, At(t, "invoke"), thr[t].step \in Mutations
             PROVE  /\ db[Exec].steps[thr[t].step] = "running"
                    /\ thr[t].preview # None
                    /\ pdb[thr[t].preview] =
                         [pmem[thr[t].preview] EXCEPT !.status = "confirmed",
                                                      !.key = Key(thr[t].step)]
  BY DEF IntentBeforeEffect
<1> DEFINE s == thr[t].step
           p == thr[t].preview
<1>1. /\ thr[t].at \in Holding /\ thr[t].at \in Granted
      /\ StepOK(t) /\ ClaimOK(t)
  BY DEF At, Holding, Calling, Entering, Granted, IInv, ThreadsOK
<1>2. db[Exec].steps[s] = "running" /\ p # None
  BY <1>1 DEF StepOK, ClaimOK
<1>3. p \in Previews /\ pdb[p] = pmem[p] /\ pmem[p].status = "confirmed" /\ pmem[p].key = Key(s)
  BY <1>1, <1>2, PreviewFacts DEF ClaimOK
<1>4. pmem[p] = [pmem[p] EXCEPT !.status = "confirmed", !.key = Key(s)]
  <2>1. pmem[p] \in PreviewType
    BY <1>3, PreviewFacts
  <2>. QED
    BY <1>3, <2>1 DEF PreviewType
<1>. QED
  BY <1>2, <1>3, <1>4

\* While a mutation's adapter is called, the rows hold both the claimed confirmation of that
\* very step and its start, whatever other previews, threads and failed writes there are.
THEOREM IntentBeforeEffectHolds == Spec => []IntentBeforeEffect
<1>1. IInv => IntentBeforeEffect
  BY ClaimIsOnRecord
<1>. QED
  BY <1>1, IInvHolds, PTL

LEMMA CallsStayOnRecord ==
  ASSUME IInv
  PROVE  EffectIsOnRecord
<1> SUFFICES ASSUME NEW s \in Mutations, invoked[s] > 0, NEW m \in {mem, db}
             PROVE  m[Exec].steps[s] \in {"running", "completed", "failed"}
  BY DEF EffectIsOnRecord
<1>1. m[Exec] \in RecordType /\ Sound(m[Exec]) /\ Counted(m[Exec])
  BY DEF IInv, TypeOK, RecordsOK
<1>2. invoked[s] \in Nat /\ m[Exec].starts[s] \in Nat /\ invoked[s] <= m[Exec].starts[s]
  BY <1>1 DEF RecordType, Counted, IInv, TypeOK
<1>3. m[Exec].starts[s] # 0
  BY <1>2
<1>. QED
  BY <1>1, <1>3 DEF Sound

\* Once a mutation's adapter was called, neither memory nor the rows deny it again, through
\* failed writes, cancellations and restarts.
THEOREM EffectIsOnRecordHolds == Spec => []EffectIsOnRecord
<1>1. IInv => EffectIsOnRecord
  BY CallsStayOnRecord
<1>. QED
  BY <1>1, IInvHolds, PTL

\* Whatever a step takes its input from has completed, in memory and in the rows, when its
\* adapter is called, for any bindings of the plan.
THEOREM InputsWereProducedHolds == Spec => []InputsWereProduced
<1>1. IInv => InputsWereProduced
  BY DEF IInv, ThreadsOK, StepOK, InputsWereProduced, At, Entering, Calling
<1>. QED
  BY <1>1, IInvHolds, PTL

\* Every action but the call of an adapter leaves the calls alone.
LEMMA OnlyInvokeCalls ==
  ASSUME Next, invoked' # invoked
  PROVE  \E t \in Threads, outcome \in Outcomes : Invoke(t, outcome)
<1>1. ASSUME NEW t \in Threads, ThreadStep(t)
      PROVE  \E outcome \in Outcomes : Invoke(t, outcome)
  <2>1. ~(Advance(t) \/ Lost(t) \/ CreateConflict(t) \/ Drop(t))
    BY DEF Advance, Lost, CreateConflict, Drop, OnlyRecord, OnlyPreview
  <2>2. ASSUME NEW ok \in BOOLEAN
        PROVE  ~(\/ AdvanceEnd(t, ok) \/ Offer(t, ok) \/ Stop(t, ok) \/ Retry(t, ok)
                 \/ Withdraw(t, ok) \/ Cancel(t, ok))
    BY DEF AdvanceEnd, Offer, Stop, Retry, Withdraw, Cancel, OnlyRecord, OnlyPreview
  <2>3. ASSUME NEW ok \in BOOLEAN, NEW answer
        PROVE  ~(Validate(t, answer, ok) \/ Request(t, answer, ok))
    BY DEF Validate, Request, OnlyRecord
  <2>4. ASSUME NEW ok \in BOOLEAN
        PROVE  ~(\/ Start(t, ok) \/ Finish(t, ok) \/ Verify(t, ok) \/ Stale(t, ok)
                 \/ Claim(t, ok) \/ Announce(t, ok) \/ Close(t, ok) \/ Consume(t, ok))
    BY DEF Start, Finish, Verify, Stale, Claim, Announce, Close, Consume, OnlyRecord, OnlyPreview
  <2>5. ASSUME NEW ok \in BOOLEAN, NEW p \in Previews
        PROVE  ~Create(t, p, ok)
    BY DEF Create, OnlyPreview
  <2>. QED
    BY <1>1, <2>1, <2>2, <2>3, <2>4, <2>5 DEF ThreadStep
<1>2. ASSUME NEW t \in Threads
      PROVE  ~(ExecutionRequest(t) \/ MutationRequest(t))
  BY DEF ExecutionRequest, MutationRequest, CancelBegin, StepBegin, RunBegin, PreviewBegin,
         ConfirmBegin, OnlyRecord
<1>3. ~Environment
  BY DEF Environment, Open, LookAt, CancelPreview, ReviewLapses, Restart, Tick, OnlyRecord, OnlyPreview
<1>. QED
  BY <1>1, <1>2, <1>3 DEF Next

LEMMA EndedIsNotCalled ==
  ASSUME IInv, [Next]_vars, mem[Exec].status \in {"absent", "completed", "cancelled"}
  PROVE  invoked' = invoked
<1>1. CASE UNCHANGED vars
  BY <1>1 DEF vars
<1>2. CASE Next
  <2> SUFFICES ASSUME invoked' # invoked
               PROVE  FALSE
    OBVIOUS
  <2>1. PICK t \in Threads, outcome \in Outcomes : Invoke(t, outcome)
    BY <1>2, OnlyInvokeCalls
  <2>2. thr[t].step \in Steps /\ mem[Exec].steps[thr[t].step] = "running"
    <3>1. thr[t].at \in Holding /\ thr[t].at \in Stepping
      BY <2>1 DEF Invoke, At, Holding, Calling, Stepping, Granted
    <3>. QED
      BY <3>1, HasStep DEF IInv, ThreadsOK, StepOK
  <2>. QED
    BY <2>2, RecordFacts DEF Sound
<1>. QED
  BY <1>1, <1>2

\* No adapter is called for an execution that is not there, was cancelled or completed,
\* however long ago the thread that would call it looked at the record.
THEOREM NoEffectAfterEndHolds == Spec => NoEffectAfterEnd
<1>1. IInv /\ [Next]_vars =>
        [mem[Exec].status \in {"absent", "completed", "cancelled"} => invoked' = invoked]_vars
  BY EndedIsNotCalled
<1>. QED
  BY <1>1, IInvHolds, PTL DEF Spec, NoEffectAfterEnd

=============================================================================
