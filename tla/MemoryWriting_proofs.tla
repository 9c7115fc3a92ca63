------------------------ MODULE MemoryWriting_proofs ------------------------
(***************************************************************************)
(* Theorems about writing to the vault, for every number of confirmations, *)
(* proposals, edits, failures and restarts.                                *)
(***************************************************************************)
EXTENDS MemoryWriting, TLAPS

USE LimitAssumption, BoundAssumption, NoneAssumption

----------------------------------------------------------------------------
(* The inductive invariant *)

Opened  == {"compare", "backup", "replace", "verify", "mark"}  \* after Read
Checked == Opened \ {"compare"}                                \* after Compare

\* Types.
TypeOK ==
  /\ mem \in [Proposals -> Record]
  /\ db \in [Proposals -> Record]
  /\ doc \in Content
  /\ call \in [Threads -> Call]
  /\ written \in SUBSET Proposals
  /\ now \in Nat

\* The application lock: one confirmation works at a time.
OneWorks == \A t, u \in Threads : Working(t) /\ Working(u) => t = u

\* What a confirmation has read: the file, without the text it is about to insert.
Reading(t) ==
  /\ Working(t) => call[t].prop \in Proposals
  /\ call[t].at \in Opened =>
       /\ call[t].original \in Content
       /\ \A p \in Proposals : call[t].original.notes[p] <= 1
       /\ call[t].original.notes[call[t].prop] = 0
  /\ call[t].at \in Checked => call[t].before = call[t].original
  /\ call[t].at \in {"replace", "verify"} => bak = call[t].before

\* A proposal under confirmation is not applied yet; its text is in the file, as far as
\* this confirmation knows, from Replace on.
Unapplied(t) ==
  /\ Working(t) => mem[call[t].prop].state # "applied" /\ db[call[t].prop].state # "applied"
  /\ call[t].at \in {"verify", "mark"} => call[t].prop \in written

IInv ==
  /\ TypeOK /\ OneWorks
  /\ \A t \in Threads : Reading(t) /\ Unapplied(t)
  /\ AtMostOneCopy /\ AppliedWasWritten /\ MemoryFollowsRows

----------------------------------------------------------------------------
(* Records, contents and calls *)

LEMMA RecordFacts ==
  ASSUME NEW rec \in Record, now \in Nat
  PROVE  /\ Absent \in Record /\ Absent.state = "absent"
         /\ Fresh \in Record /\ Fresh.state = "pending"
         /\ Expired(rec) \in Record /\ Expired(rec).state = "expired"
         /\ [rec EXCEPT !.state = "applied"] \in Record
  BY DEF Record, Absent, Fresh, Expired

LEMMA InsertedFacts ==
  ASSUME NEW c \in Content, NEW p \in Proposals,
         \A q \in Proposals : c.notes[q] <= 1, c.notes[p] = 0
  PROVE  /\ Inserted(p, c) \in Content
         /\ \A q \in Proposals : Inserted(p, c).notes[q] <= 1
         /\ Inserted(p, c).edits = c.edits
<1>1. c.notes \in [Proposals -> 0..2] /\ c.edits \in SUBSET Edits
  BY DEF Content
<1>2. Inserted(p, c) = [notes |-> [c.notes EXCEPT ![p] = 1], edits |-> c.edits]
  BY <1>1 DEF Inserted, Content
<1>3. QED
  BY <1>1, <1>2 DEF Content

LEMMA EndedFacts ==
  ASSUME NEW what \in {"idle", "applied", "failed"}
  PROVE  Ended(what) \in Call /\ Ended(what).at = what /\ Ended(what).at \notin Steps
  BY DEF Ended, Call, Steps

----------------------------------------------------------------------------
(* Steps of the store and of confirmations *)

\* The store's own requests apply nothing and touch no file.
LEMMA StoreStep ==
  ASSUME IInv, UNCHANGED <<files, call, now>>,
         mem' \in [Proposals -> Record], db' \in [Proposals -> Record],
         \A p \in Proposals : mem'[p].state = "applied" => mem[p].state = "applied",
         \A p \in Proposals : db'[p].state = "applied" => db[p].state = "applied",
         MemoryFollowsRows'
  PROVE  IInv'
<1>1. TypeOK' /\ OneWorks' /\ AtMostOneCopy'
  BY DEF IInv, TypeOK, OneWorks, Working, AtMostOneCopy, files
<1>2. ASSUME NEW t \in Threads PROVE (Reading(t) /\ Unapplied(t))'
  <2>1. Reading(t)'
    BY DEF IInv, Reading, Working, files
  <2>2. QED
    BY <2>1 DEF IInv, Reading, Unapplied, Working, files
<1>3. AppliedWasWritten'
  BY DEF IInv, AppliedWasWritten, files
<1>4. QED
  BY <1>1, <1>2, <1>3 DEF IInv

\* While a confirmation works, it is the only one.
LEMMA WorkStep ==
  ASSUME IInv, NEW t \in Threads, Working(t), NEW c \in Call,
         call' = [call EXCEPT ![t] = c]
  PROVE  /\ call' \in [Threads -> Call] /\ call'[t] = c
         /\ OneWorks'
         /\ \A u \in Threads : u # t => call'[u].at \notin Steps
  BY DEF IInv, TypeOK, OneWorks, Working

\* The others, idle, have nothing to keep.
LEMMA IdleFacts ==
  ASSUME NEW u \in Threads, call'[u].at \notin Steps
  PROVE  (Reading(u) /\ Unapplied(u))'
  BY DEF Reading, Unapplied, Working, Steps, Opened, Checked


LEMMA SaveInv ==
  ASSUME IInv, NEW p \in Proposals, NEW rec \in Record, NEW ok \in BOOLEAN, Save(p, rec, ok),
         UNCHANGED <<files, call, now>>,
         rec.state # "applied"
  PROVE  IInv'
<1>1. CASE UNCHANGED store
  BY <1>1, StoreStep DEF IInv, TypeOK, MemoryFollowsRows, store, Overdue
<1>2. CASE mem' = [mem EXCEPT ![p] = rec] /\ db' = [db EXCEPT ![p] = rec]
  <2>1. mem' \in [Proposals -> Record] /\ db' \in [Proposals -> Record]
    BY <1>2 DEF IInv, TypeOK
  <2>2. \A q \in Proposals : \/ mem'[q] = rec /\ db'[q] = rec
                             \/ mem'[q] = mem[q] /\ db'[q] = db[q]
    BY <1>2 DEF IInv, TypeOK
  <2>3. MemoryFollowsRows'
    BY <2>2 DEF IInv, MemoryFollowsRows, Overdue, Expired
  <2>4. QED
    BY <2>1, <2>2, <2>3, StoreStep
<1>3. QED
  BY <1>1, <1>2 DEF Save

LEMMA PutInv ==
  ASSUME IInv, NEW p \in Proposals, NEW ok \in BOOLEAN, Put(p, ok)
  PROVE  IInv'
<1>1. Fresh \in Record /\ Fresh.state # "applied"
  BY RecordFacts DEF IInv, TypeOK
<1>2. QED
  BY <1>1, SaveInv DEF Put

LEMMA LookInv ==
  ASSUME IInv, NEW p \in Proposals, NEW ok \in BOOLEAN, Look(p, ok)
  PROVE  IInv'
<1>1. Expired(mem[p]) \in Record /\ Expired(mem[p]).state # "applied"
  BY RecordFacts DEF IInv, TypeOK
<1>2. QED
  BY <1>1, SaveInv DEF Look

LEMMA ListInv ==
  ASSUME IInv, NEW ok \in BOOLEAN, List(ok)
  PROVE  IInv'
<1> DEFINE late == {p \in Proposals : Overdue(mem[p])}
           Lapsed(recs, S) == [p \in Proposals |-> IF p \in S THEN Expired(mem[p]) ELSE recs[p]]
<1>1. /\ UNCHANGED <<files, call, now>>
      /\ \A p \in Proposals :
           mem[p] \in Record /\ db[p] \in Record
           /\ Expired(mem[p]) \in Record /\ Expired(mem[p]).state = "expired"
  BY RecordFacts DEF IInv, TypeOK, List
<1>2. CASE mem' = Lapsed(mem, late) /\ db' = Lapsed(db, late)
  <2>1. \A p \in Proposals :
          \/ mem'[p] = Expired(mem[p]) /\ db'[p] = Expired(mem[p])
          \/ mem'[p] = mem[p] /\ db'[p] = db[p]
    BY <1>2
  <2>2. mem' \in [Proposals -> Record] /\ db' \in [Proposals -> Record]
    BY <1>1, <1>2
  <2>3. MemoryFollowsRows'
    BY <1>1, <2>1 DEF IInv, MemoryFollowsRows, Overdue
  <2>4. QED
    BY <1>1, <2>1, <2>2, <2>3, StoreStep
<1>3. ASSUME NEW saved \in SUBSET late, db' = Lapsed(db, saved), UNCHANGED mem
      PROVE  IInv'
  <2>1. \A p \in Proposals :
          \/ db'[p] = Expired(mem[p]) /\ Overdue(mem[p])
          \/ db'[p] = db[p]
    BY <1>3
  <2>2. mem' \in [Proposals -> Record] /\ db' \in [Proposals -> Record]
    BY <1>1, <1>3 DEF IInv, TypeOK
  <2>3. MemoryFollowsRows'
    BY <1>1, <1>3, <2>1 DEF IInv, MemoryFollowsRows, Overdue
  <2>4. QED
    BY <1>1, <1>3, <2>1, <2>2, <2>3, StoreStep
<1>4. QED
  BY <1>2, <1>3 DEF List

LEMMA BeginInv ==
  ASSUME IInv, NEW t \in Threads, NEW p \in Proposals, Begin(t, p)
  PROVE  IInv'
<1> DEFINE c == [Ended("read") EXCEPT !.prop = p]
<1>1. /\ c \in Call /\ c.at = "read" /\ c.prop = p
      /\ call' = [call EXCEPT ![t] = c]
      /\ UNCHANGED <<store, files, now>>
  BY DEF Begin, Ended, Call, Steps
<1>2. /\ call' \in [Threads -> Call] /\ call'[t] = c
      /\ \A u \in Threads : u # t => call'[u].at \notin Steps
  BY <1>1 DEF IInv, TypeOK, Begin, LockIsFree, Working
<1> HIDE DEF c
<1>3. TypeOK' /\ OneWorks' /\ AtMostOneCopy' /\ AppliedWasWritten' /\ MemoryFollowsRows'
  BY <1>1, <1>2 DEF IInv, TypeOK, OneWorks, Working, AtMostOneCopy, AppliedWasWritten,
                    MemoryFollowsRows, Overdue, store, files
<1>4. mem[p].state = "pending" /\ db[p].state # "applied" /\ mem[p] \in Record
  BY RecordFacts DEF Begin, IInv, TypeOK, MemoryFollowsRows
<1>5. (Reading(t) /\ Unapplied(t))'
  BY <1>1, <1>2, <1>4 DEF Reading, Unapplied, Working, Steps, Opened, Checked, store
<1>6. QED
  BY <1>2, <1>3, <1>5, IdleFacts DEF IInv

----------------------------------------------------------------------------
(* The steps of a confirmation *)

\* A step that only moves the confirmation on, or ends it.
LEMMA MoveInv ==
  ASSUME IInv, NEW t \in Threads, Working(t), NEW c \in Call,
         call' = [call EXCEPT ![t] = c],
         UNCHANGED <<store, files, now>>,
         (Reading(t) /\ Unapplied(t))'
  PROVE  IInv'
<1>1. /\ call' \in [Threads -> Call] /\ OneWorks'
      /\ \A u \in Threads : u # t => call'[u].at \notin Steps
  BY WorkStep
<1>2. TypeOK' /\ AtMostOneCopy' /\ AppliedWasWritten' /\ MemoryFollowsRows'
  BY <1>1 DEF IInv, TypeOK, AtMostOneCopy, AppliedWasWritten, MemoryFollowsRows, Overdue,
              store, files
<1>3. QED
  BY <1>1, <1>2, IdleFacts DEF IInv

LEMMA AnswerInv ==
  ASSUME IInv, NEW t \in Threads, Working(t), NEW what \in {"applied", "failed"},
         Answer(t, what), UNCHANGED <<store, files, now>>
  PROVE  IInv'
<1>1. Ended(what) \in Call /\ Ended(what).at \notin Steps
  BY EndedFacts
<1>2. call' = [call EXCEPT ![t] = Ended(what)]
  BY DEF Answer
<1>3. call'[t].at \notin Steps
  BY <1>1, <1>2 DEF IInv, TypeOK
<1>4. QED
  BY <1>1, <1>2, <1>3, IdleFacts, MoveInv

\* What is known of a confirmation at work.
LEMMA CallFacts ==
  ASSUME IInv, NEW t \in Threads, Working(t)
  PROVE  /\ call[t] \in Call /\ call[t].prop \in Proposals
         /\ \A step \in Steps :
              /\ [call[t] EXCEPT !.at = step] \in Call
              /\ [call EXCEPT ![t].at = step] = [call EXCEPT ![t] = [call[t] EXCEPT !.at = step]]
  BY DEF IInv, TypeOK, Reading, Call

LEMMA ReadInv ==
  ASSUME IInv, NEW t \in Threads, Read(t)
  PROVE  IInv'
<1>1. Working(t)
  BY DEF Read, Working, Steps
<1>2. CASE IsDuplicate(call[t].prop, doc)
  BY <1>1, <1>2, AnswerInv DEF Read
<1>3. CASE ~IsDuplicate(call[t].prop, doc)
  <2> DEFINE c == [call[t] EXCEPT !.at = "compare", !.original = doc]
  <2>1. call' = [call EXCEPT ![t] = c] /\ UNCHANGED <<store, files, now>>
    BY <1>3 DEF Read, IInv, TypeOK
  <2>2. c \in Call /\ c.at = "compare" /\ c.original = doc /\ c.prop = call[t].prop
    <3>1. call[t] \in Call /\ doc \in Content
      BY DEF IInv, TypeOK
    <3>2. QED
      BY <3>1 DEF Call, Steps
  <2>3. call[t].prop \in Proposals /\ doc.notes[call[t].prop] = 0
    BY <1>1, <1>3, CallFacts DEF IsDuplicate, IInv, TypeOK, Content
  <2> HIDE DEF c
  <2>4. call'[t] = c
    BY <1>1, <2>1, <2>2, WorkStep
  <2>5. (Reading(t) /\ Unapplied(t))'
    BY <1>1, <2>1, <2>2, <2>3, <2>4
       DEF IInv, TypeOK, AtMostOneCopy, Reading, Unapplied, Working, Opened, Checked, store
  <2>6. QED
    BY <1>1, <2>1, <2>2, <2>5, MoveInv
<1>4. QED
  BY <1>2, <1>3

LEMMA CompareInv ==
  ASSUME IInv, NEW t \in Threads, Compare(t)
  PROVE  IInv'
<1>1. Working(t)
  BY DEF Compare, Working, Steps
<1>2. CASE ~IsUnchanged(t)
  BY <1>1, <1>2, AnswerInv DEF Compare
<1>3. CASE IsUnchanged(t)
  <2> DEFINE c == [call[t] EXCEPT !.at = "backup", !.before = doc]
  <2>1. call' = [call EXCEPT ![t] = c] /\ UNCHANGED <<store, files, now>>
    BY <1>3 DEF Compare, IInv, TypeOK
  <2>2. /\ c \in Call /\ c.at = "backup" /\ c.before = doc
        /\ c.original = call[t].original /\ c.prop = call[t].prop
    <3>1. call[t] \in Call /\ doc \in Content
      BY DEF IInv, TypeOK
    <3>2. QED
      BY <3>1 DEF Call, Steps
  <2>3. doc = call[t].original
    BY <1>3 DEF IsUnchanged
  <2>4. call[t].at = "compare"
    BY DEF Compare
  <2> HIDE DEF c
  <2>5. call'[t] = c
    BY <1>1, <2>1, <2>2, WorkStep
  <2>6. (Reading(t) /\ Unapplied(t))'
    BY <1>1, <2>1, <2>2, <2>3, <2>4, <2>5
       DEF IInv, Reading, Unapplied, Working, Opened, Checked, store
  <2>7. QED
    BY <1>1, <2>1, <2>2, <2>6, MoveInv
<1>4. QED
  BY <1>2, <1>3

\* What a step of the confirmation that changes the files has to keep.
LEMMA FileStep ==
  ASSUME IInv, NEW t \in Threads, Working(t), NEW c \in Call,
         call' = [call EXCEPT ![t] = c],
         UNCHANGED <<store, now>>,
         doc' \in Content, AtMostOneCopy',
         written' \in SUBSET Proposals, written \ {call[t].prop} \subseteq written',
         (Reading(t) /\ Unapplied(t))'
  PROVE  IInv'
<1>1. /\ call' \in [Threads -> Call] /\ OneWorks'
      /\ \A u \in Threads : u # t => call'[u].at \notin Steps
  BY WorkStep
<1>2. TypeOK' /\ MemoryFollowsRows'
  BY <1>1 DEF IInv, TypeOK, MemoryFollowsRows, Overdue, store
<1>3. mem[call[t].prop].state # "applied" /\ db[call[t].prop].state # "applied"
  BY DEF IInv, Unapplied
<1>4. AppliedWasWritten'
  BY <1>3 DEF IInv, AppliedWasWritten, store
<1>5. QED
  BY <1>1, <1>2, <1>4, IdleFacts DEF IInv

LEMMA BackupInv ==
  ASSUME IInv, NEW t \in Threads, Backup(t)
  PROVE  IInv'
<1> DEFINE c == [call[t] EXCEPT !.at = "replace"]
<1>1. Working(t) /\ call[t].at = "backup"
  BY DEF Backup, Working, Steps
<1>2. /\ call' = [call EXCEPT ![t] = c] /\ c \in Call
      /\ UNCHANGED <<store, now, doc, written>> /\ bak' = call[t].before
  BY <1>1, CallFacts DEF Backup, Goto, Steps
<1>3. c.at = "replace" /\ c.before = call[t].before /\ c.original = call[t].original /\ c.prop = call[t].prop
  BY <1>1, CallFacts DEF Call
<1> HIDE DEF c
<1>4. call'[t] = c
  BY <1>1, <1>2, WorkStep
<1>5. (Reading(t) /\ Unapplied(t))'
  BY <1>1, <1>2, <1>3, <1>4 DEF IInv, Reading, Unapplied, Working, Opened, Checked, store
<1>6. doc' \in Content /\ AtMostOneCopy' /\ written' \in SUBSET Proposals
  BY <1>2 DEF IInv, TypeOK, AtMostOneCopy
<1>7. QED
  BY <1>1, <1>2, <1>5, <1>6, FileStep

LEMMA ReplaceInv ==
  ASSUME IInv, NEW t \in Threads, Replace(t)
  PROVE  IInv' /\ doc'.edits = call[t].before.edits
<1> DEFINE c == [call[t] EXCEPT !.at = "verify"]
<1>1. Working(t) /\ call[t].at = "replace"
  BY DEF Replace, Working, Steps
<1>2. /\ call' = [call EXCEPT ![t] = c] /\ c \in Call
      /\ UNCHANGED <<store, now, bak>>
      /\ doc' = Updated(t) /\ written' = written \cup {call[t].prop}
  BY <1>1, CallFacts DEF Replace, Goto, Steps
<1>3. c.at = "verify" /\ c.before = call[t].before /\ c.original = call[t].original /\ c.prop = call[t].prop
  BY <1>1, CallFacts DEF Call
<1> HIDE DEF c
<1>4. call'[t] = c
  BY <1>1, <1>2, WorkStep
<1>5. /\ call[t].original \in Content /\ call[t].prop \in Proposals
      /\ \A p \in Proposals : call[t].original.notes[p] <= 1
      /\ call[t].original.notes[call[t].prop] = 0
      /\ call[t].before = call[t].original
  BY <1>1 DEF IInv, Reading, Opened, Checked
<1>6. doc' \in Content /\ AtMostOneCopy' /\ doc'.edits = call[t].before.edits
  BY <1>2, <1>5, InsertedFacts DEF Updated, AtMostOneCopy
<1>7. (Reading(t) /\ Unapplied(t))'
  BY <1>1, <1>2, <1>3, <1>4, <1>5 DEF IInv, Reading, Unapplied, Working, Opened, Checked, store
<1>8. written' \in SUBSET Proposals /\ written \subseteq written'
  BY <1>2, <1>5 DEF IInv, TypeOK
<1>9. QED
  BY <1>1, <1>2, <1>6, <1>7, <1>8, FileStep

LEMMA VerifyInv ==
  ASSUME IInv, NEW t \in Threads, Verify(t)
  PROVE  IInv' /\ (doc' # doc => doc'.edits = call[t].before.edits)
<1>1. Working(t) /\ call[t].at = "verify"
  BY DEF Verify, Working, Steps
<1>2. CASE Goto(t, "mark") /\ UNCHANGED files
  <2> DEFINE c == [call[t] EXCEPT !.at = "mark"]
  <2>1. call' = [call EXCEPT ![t] = c] /\ c \in Call /\ UNCHANGED <<store, files, now>>
    BY <1>1, <1>2, CallFacts DEF Verify, Goto, Steps
  <2>2. c.at = "mark" /\ c.before = call[t].before /\ c.original = call[t].original /\ c.prop = call[t].prop
    BY <1>1, CallFacts DEF Call
  <2> HIDE DEF c
  <2>3. call'[t] = c
    BY <1>1, <2>1, WorkStep
  <2>4. (Reading(t) /\ Unapplied(t))'
    BY <1>1, <2>1, <2>2, <2>3 DEF IInv, Reading, Unapplied, Working, Opened, Checked, store, files
  <2>5. doc' = doc
    BY <1>2 DEF files
  <2>6. QED
    BY <1>1, <2>1, <2>4, <2>5, MoveInv
<1>3. CASE /\ doc' = bak /\ written' = written \ {call[t].prop} /\ AfterRestore(t)
  <2>1. /\ Ended("failed") \in Call /\ Ended("failed").at \notin Steps
        /\ call' = [call EXCEPT ![t] = Ended("failed")] /\ UNCHANGED <<store, now>>
    BY <1>3, EndedFacts DEF Verify, AfterRestore, Answer
  <2>2. /\ bak = call[t].before /\ call[t].before = call[t].original
        /\ call[t].original \in Content
        /\ \A p \in Proposals : call[t].original.notes[p] <= 1
    BY <1>1 DEF IInv, Reading, Opened, Checked
  <2>3. doc' \in Content /\ AtMostOneCopy' /\ doc'.edits = call[t].before.edits
    BY <1>3, <2>2 DEF AtMostOneCopy
  <2>4. written' \in SUBSET Proposals
    BY <1>3 DEF IInv, TypeOK
  <2>5. (Reading(t) /\ Unapplied(t))'
    BY <1>1, <2>1, WorkStep, IdleFacts
  <2>6. QED
    BY <1>1, <1>3, <2>1, <2>3, <2>4, <2>5, FileStep
<1>4. QED
  BY <1>2, <1>3 DEF Verify

LEMMA MarkInv ==
  ASSUME IInv, NEW t \in Threads, NEW ok \in BOOLEAN, Mark(t, ok)
  PROVE  IInv'
<1> DEFINE p == call[t].prop
           rec == [mem[p] EXCEPT !.state = "applied"]
<1>1. /\ Working(t) /\ call[t].at = "mark" /\ UNCHANGED <<files, now>>
      /\ mem[p].state = "pending" /\ ~Overdue(mem[p])
  BY DEF Mark, Working, Steps
<1>2. p \in Proposals /\ p \in written
  BY <1>1 DEF IInv, Reading, Unapplied
<1>3. CASE MarkFailed(p) /\ Answer(t, "failed")
  BY <1>1, <1>3, AnswerInv DEF MarkFailed
<1>4. CASE Save(p, rec, TRUE) /\ Answer(t, "applied")
  <2>1. mem' = [mem EXCEPT ![p] = rec] /\ db' = [db EXCEPT ![p] = rec]
    BY <1>4 DEF Save
  <2>2. mem' \in [Proposals -> Record] /\ db' \in [Proposals -> Record]
    BY <1>2, <2>1, RecordFacts DEF IInv, TypeOK
  <2>3. /\ Ended("applied") \in Call /\ Ended("applied").at \notin Steps
        /\ call' = [call EXCEPT ![t] = Ended("applied")]
    BY <1>4, EndedFacts DEF Answer
  <2>4. /\ call' \in [Threads -> Call] /\ OneWorks' /\ call'[t].at \notin Steps
        /\ \A u \in Threads : u # t => call'[u].at \notin Steps
    BY <1>1, <2>3, WorkStep
  <2>5. \A u \in Threads : (Reading(u) /\ Unapplied(u))'
    BY <2>4, IdleFacts
  <2>6. \A q \in Proposals : \/ q = p /\ mem'[q] = db'[q]
                             \/ mem'[q] = mem[q] /\ db'[q] = db[q]
    BY <1>2, <2>1 DEF IInv, TypeOK
  <2>7. MemoryFollowsRows' /\ AppliedWasWritten'
    BY <1>1, <1>2, <2>6 DEF IInv, MemoryFollowsRows, AppliedWasWritten, Overdue, files
  <2>8. TypeOK' /\ AtMostOneCopy'
    BY <1>1, <2>2, <2>4 DEF IInv, TypeOK, AtMostOneCopy, files
  <2>9. QED
    BY <2>4, <2>5, <2>7, <2>8 DEF IInv
<1>5. QED
  BY <1>3, <1>4 DEF Mark

----------------------------------------------------------------------------
(* The environment *)

\* The person's edits change nothing but the file.
LEMMA EditInv ==
  ASSUME IInv, UNCHANGED <<store, bak, written, call, now>>, doc' \in Content, AtMostOneCopy'
  PROVE  IInv'
<1>1. TypeOK' /\ OneWorks' /\ AppliedWasWritten' /\ MemoryFollowsRows'
  BY DEF IInv, TypeOK, OneWorks, Working, AppliedWasWritten, MemoryFollowsRows, Overdue, store
<1>2. ASSUME NEW t \in Threads PROVE (Reading(t) /\ Unapplied(t))'
  <2>1. Reading(t)'
    BY DEF IInv, Reading, Working
  <2>2. Unapplied(t)'
    BY DEF IInv, Unapplied, Working, store
  <2>3. QED
    BY <2>1, <2>2
<1>3. QED
  BY <1>1, <1>2 DEF IInv

LEMMA EditorAddsInv ==
  ASSUME IInv, NEW e \in Edits, EditorAdds(e)
  PROVE  IInv' /\ doc.edits \subseteq doc'.edits
<1>1. /\ doc' \in Content /\ doc'.notes = doc.notes /\ doc.edits \subseteq doc'.edits
      /\ UNCHANGED <<store, bak, written, call, now>>
  BY DEF EditorAdds, IInv, TypeOK, Content
<1>2. AtMostOneCopy'
  BY <1>1 DEF IInv, AtMostOneCopy
<1>3. QED
  BY <1>1, <1>2, EditInv

LEMMA EditorRemovesInv ==
  ASSUME IInv, NEW p \in Proposals, EditorRemoves(p)
  PROVE  IInv' /\ doc.edits \subseteq doc'.edits
<1>1. /\ doc' = [notes |-> [doc.notes EXCEPT ![p] = 0], edits |-> doc.edits]
      /\ UNCHANGED <<store, bak, written, call, now>>
  BY DEF EditorRemoves, IInv, TypeOK, Content
<1>2. doc.notes \in [Proposals -> 0..2] /\ doc.edits \in SUBSET Edits
  BY DEF IInv, TypeOK, Content
<1>3. doc' \in Content /\ doc'.edits = doc.edits
  BY <1>1, <1>2 DEF Content
<1>4. AtMostOneCopy'
  BY <1>1, <1>2 DEF IInv, AtMostOneCopy
<1>5. QED
  BY <1>1, <1>3, <1>4, EditInv

LEMMA RestartInv ==
  ASSUME IInv, Restart
  PROVE  IInv'
<1>1. /\ mem' = [p \in Proposals |-> IF Overdue(db[p]) THEN Expired(db[p]) ELSE db[p]]
      /\ db' = mem' /\ call' = [t \in Threads |-> Ended("idle")]
      /\ UNCHANGED <<files, now>>
  BY DEF Restart
<1>2. Ended("idle") \in Call /\ Ended("idle").at \notin Steps
  BY EndedFacts
<1>3. \A t \in Threads : call'[t] \in Call /\ call'[t].at \notin Steps
  BY <1>1, <1>2
<1>4. mem' \in [Proposals -> Record] /\ \A p \in Proposals :
        mem'[p].state = "applied" => db[p].state = "applied"
  BY <1>1, RecordFacts DEF IInv, TypeOK
<1>5. TypeOK' /\ OneWorks' /\ AtMostOneCopy' /\ AppliedWasWritten' /\ MemoryFollowsRows'
  BY <1>1, <1>3, <1>4 DEF IInv, TypeOK, OneWorks, Working, AtMostOneCopy, AppliedWasWritten,
                          MemoryFollowsRows, files
<1>6. QED
  BY <1>3, <1>5, IdleFacts DEF IInv

LEMMA TickInv ==
  ASSUME IInv, Tick
  PROVE  IInv'
<1>1. UNCHANGED <<store, files, call>> /\ now' = now + 1
  BY DEF Tick
<1>2. \A p \in Proposals : Overdue(mem[p]) => Overdue(mem[p])'
  BY <1>1 DEF IInv, TypeOK, Overdue, Record, store
<1>3. TypeOK' /\ OneWorks' /\ AtMostOneCopy' /\ AppliedWasWritten' /\ MemoryFollowsRows'
  BY <1>1, <1>2 DEF IInv, TypeOK, OneWorks, Working, AtMostOneCopy, AppliedWasWritten,
                    MemoryFollowsRows, Overdue, store, files
<1>4. ASSUME NEW t \in Threads PROVE (Reading(t) /\ Unapplied(t))'
  <2>1. Reading(t)'
    BY <1>1 DEF IInv, Reading, Working, files
  <2>2. Unapplied(t)'
    BY <1>1 DEF IInv, Unapplied, Working, store, files
  <2>3. QED
    BY <2>1, <2>2
<1>5. QED
  BY <1>3, <1>4 DEF IInv

----------------------------------------------------------------------------
(* Theorems *)

LEMMA InvInit == Init => IInv
<1> SUFFICES ASSUME Init PROVE IInv
  OBVIOUS
<1>1. \A t \in Threads : call[t] \in Call /\ call[t].at = "idle"
  BY EndedFacts DEF Init
<1>2. TypeOK
  BY <1>1 DEF Init, TypeOK, Record, Absent, Content
<1>3. OneWorks /\ \A t \in Threads : Reading(t) /\ Unapplied(t)
  BY <1>1 DEF OneWorks, Reading, Unapplied, Working, Steps, Opened, Checked
<1>4. AtMostOneCopy /\ AppliedWasWritten /\ MemoryFollowsRows
  BY DEF Init, AtMostOneCopy, AppliedWasWritten, MemoryFollowsRows, Absent
<1>5. QED
  BY <1>2, <1>3, <1>4 DEF IInv

\* The step of a confirmation that loses one of the person's lines.
LosesEdits(t) ==
  call[t].at \in {"replace", "verify"} /\ doc'.edits = call[t].before.edits

\* Every step keeps the invariant, and takes a line away in two places only.
LEMMA InvNext ==
  ASSUME IInv, [Next]_vars
  PROVE  IInv' /\ (doc.edits \subseteq doc'.edits \/ \E t \in Threads : LosesEdits(t))
<1> DEFINE Goal == IInv' /\ (doc.edits \subseteq doc'.edits \/ \E t \in Threads : LosesEdits(t))
<1>1. ASSUME NEW p \in Proposals, NEW ok \in BOOLEAN, Put(p, ok) \/ Look(p, ok)
      PROVE  Goal
  BY <1>1, PutInv, LookInv DEF Put, Look, files
<1>2. ASSUME NEW ok \in BOOLEAN, List(ok)
      PROVE  Goal
  BY <1>2, ListInv DEF List, files
<1>3. ASSUME NEW t \in Threads, NEW p \in Proposals, Begin(t, p)
      PROVE  Goal
  BY <1>3, BeginInv DEF Begin, files
<1>4. ASSUME NEW t \in Threads, Work(t)
      PROVE  Goal
  <2>1. CASE Read(t)
    BY <2>1, ReadInv DEF Read, files
  <2>2. CASE Compare(t)
    BY <2>2, CompareInv DEF Compare, files
  <2>3. CASE Backup(t)
    BY <2>3, BackupInv DEF Backup
  <2>4. CASE Replace(t)
    BY <2>4, ReplaceInv DEF Replace, LosesEdits
  <2>5. CASE Verify(t)
    BY <2>5, VerifyInv DEF Verify, LosesEdits
  <2>6. CASE FileError(t)
    BY <2>6, AnswerInv DEF FileError, files
  <2>7. ASSUME NEW ok \in BOOLEAN, Mark(t, ok)
        PROVE  Goal
    BY <2>7, MarkInv DEF Mark, files
  <2>8. CASE MarkRefused(t)
    BY <2>8, AnswerInv DEF MarkRefused, Working, Steps, files
  <2>9. QED
    BY <1>4, <2>1, <2>2, <2>3, <2>4, <2>5, <2>6, <2>7, <2>8 DEF Work
<1>5. ASSUME NEW e \in Edits, EditorAdds(e)
      PROVE  Goal
  BY <1>5, EditorAddsInv
<1>6. ASSUME NEW p \in Proposals, EditorRemoves(p)
      PROVE  Goal
  BY <1>6, EditorRemovesInv
<1>7. CASE Restart
  BY <1>7, RestartInv DEF Restart, files
<1>8. CASE Tick
  BY <1>8, TickInv DEF Tick, files
<1>9. CASE UNCHANGED vars
  <2>1. UNCHANGED <<files, call, now, store>>
    BY <1>9 DEF vars, files, store
  <2>2. IInv'
    BY <2>1, StoreStep DEF IInv, TypeOK, MemoryFollowsRows, Overdue, store
  <2>3. QED
    BY <2>1, <2>2 DEF files
<1>10. QED
  BY <1>1, <1>2, <1>3, <1>4, <1>5, <1>6, <1>7, <1>8, <1>9 DEF Next

\* The invariant above holds of every state of a behaviour.
THEOREM Invariant == Spec => []IInv
<1>1. IInv /\ [Next]_vars => IInv'
  BY InvNext
<1>2. QED
  BY InvInit, <1>1, PTL DEF Spec

\* However often a text is proposed and confirmed, whatever fails in between and
\* wherever Core stops, no file holds it twice.
THEOREM AtMostOneCopyHolds == Spec => []AtMostOneCopy
<1>1. IInv => AtMostOneCopy
  BY DEF IInv
<1>2. QED
  BY <1>1, Invariant, PTL

\* No proposal is applied, in memory or in the rows, without a confirmation that left
\* its text in the file.
THEOREM AppliedWasWrittenHolds == Spec => []AppliedWasWritten
<1>1. IInv => AppliedWasWritten
  BY DEF IInv
<1>2. QED
  BY <1>1, Invariant, PTL

\* Memory and rows agree, except where a list that failed half-way has stored an expiry.
THEOREM MemoryFollowsRowsHolds == Spec => []MemoryFollowsRows
<1>1. IInv => MemoryFollowsRows
  BY DEF IInv
<1>2. QED
  BY <1>1, Invariant, PTL

\* A line of the person's that was there when the file was compared is not lost.
THEOREM CheckedEditsSurviveHolds == Spec => CheckedEditsSurvive
<1> DEFINE Kept == \A e \in doc.edits : e \notin doc'.edits =>
                     \E t \in Threads : /\ call[t].at \in {"replace", "verify"}
                                        /\ e \notin call[t].before.edits
<1>1. IInv /\ [Next]_vars => [Kept]_vars
  BY InvNext DEF LosesEdits
<1>2. QED
  BY <1>1, Invariant, PTL DEF Spec, CheckedEditsSurvive

=============================================================================
