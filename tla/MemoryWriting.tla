--------------------------- MODULE MemoryWriting ---------------------------
(***************************************************************************)
(* Writing to the vault: MemoryWriteProposalStore with its SQLite          *)
(* subclass, and MemoryWriteProposalApplier.  A proposal has a stable id   *)
(* made from its content, so proposing the same text again names the same  *)
(* proposal.  Store methods hold the store's lock and are one action; a    *)
(* confirmation runs under the application lock but takes many steps, and  *)
(* between them other requests use the store, the person edits the file in *)
(* Obsidian, time passes and Core may stop.                                *)
(*                                                                         *)
(* One target file with one section stands for all of them: the            *)
(* application lock is one for every file.                                 *)
(***************************************************************************)
EXTENDS Integers, FiniteSets

CONSTANTS
  Threads,      \* requests that may confirm a proposal
  Proposals,    \* stable proposal ids
  Edits,        \* what the person may add to the file
  None,         \* no proposal, no content
  TTL,          \* lifetime of a proposal
  MaxTime,      \* bound: clock readings
  MaxFaults,    \* bound: failed transactions and file operations
  MaxRestarts   \* bound: restarts of Core

ASSUME LimitAssumption == TTL \in Nat \ {0}
ASSUME BoundAssumption == MaxTime \in Nat \ {0} /\ MaxFaults \in Nat /\ MaxRestarts \in Nat
ASSUME NoneAssumption == None \notin Proposals

VARIABLES
  mem,       \* _records: proposal id -> record, Absent when there is none
  db,        \* the memory_write_proposals rows, same shape
  doc,       \* the target file
  bak,       \* its .bak file, None when there is none
  call,      \* thread -> the confirmation it is working on
  written,   \* proposals whose text some confirmation left in the file
  now,       \* the store's clock
  faults,    \* operations that failed
  restarts   \* restarts of Core

store == <<mem, db>>
files == <<doc, bak, written>>
vars  == <<mem, db, doc, bak, call, written, now, faults, restarts>>

----------------------------------------------------------------------------
(* Proposals, contents and confirmations *)

Record   == [state : {"pending", "applied", "expired", "absent"}, expires : Nat]
Absent   == [state |-> "absent", expires |-> 0]
Fresh    == [state |-> "pending", expires |-> now + TTL]

Expired(rec) == [rec EXCEPT !.state = "expired"]
Overdue(rec) == rec.state = "pending" /\ now >= rec.expires

\* A content is how often each proposal's text occurs in the section, and which
\* of the person's additions are there.
Content == [notes : [Proposals -> 0..2], edits : SUBSET Edits]

\* Mutant: the text is inserted whatever the section holds.
IsDuplicate_Never(p, content) == FALSE

IsDuplicate(p, content) == content.notes[p] > 0

\* insert_under_heading.
Inserted(p, content) == [content EXCEPT !.notes[p] = @ + 1]

\* original: read by apply; before: read again by atomic_replace_with_backup.
Steps == {"read", "compare", "backup", "replace", "verify", "mark"}
Call  == [at       : Steps \cup {"idle", "applied", "failed"},
          prop     : Proposals \cup {None},
          original : Content \cup {None},
          before   : Content \cup {None}]

Ended(answer) == [at |-> answer, prop |-> None, original |-> None, before |-> None]

Working(t) == call[t].at \in Steps
Updated(t) == Inserted(call[t].prop, call[t].original)

Goto(t, step)   == call' = [call EXCEPT ![t].at = step]
Answer(t, what) == call' = [call EXCEPT ![t] = Ended(what)]

Fault ==
  /\ faults < MaxFaults
  /\ faults' = faults + 1

----------------------------------------------------------------------------
(* The proposal store *)

Init ==
  /\ mem = [p \in Proposals |-> Absent]
  /\ db = [p \in Proposals |-> Absent]
  /\ doc = [notes |-> [p \in Proposals |-> 0], edits |-> {}]
  /\ bak = None
  /\ call = [t \in Threads |-> Ended("idle")]
  /\ written = {}
  /\ now = 1
  /\ faults = 0
  /\ restarts = 0

\* Every method restores memory when its transaction fails.
Save(p, rec, ok) ==
  \/ /\ ok
     /\ mem' = [mem EXCEPT ![p] = rec]
     /\ db' = [db EXCEPT ![p] = rec]
     /\ UNCHANGED faults
  \/ /\ ~ok
     /\ Fault
     /\ UNCHANGED store

\* A pending or applied proposal is returned as it is.
Put(p, ok) ==
  /\ mem[p].state \in {"absent", "expired"} \/ Overdue(mem[p])
  /\ Save(p, Fresh, ok)
  /\ UNCHANGED <<files, call, now, restarts>>

\* get, and get_pending's refusal of an overdue proposal.
Look(p, ok) ==
  /\ Overdue(mem[p])
  /\ Save(p, Expired(mem[p]), ok)
  /\ UNCHANGED <<files, call, now, restarts>>

\* list expires every overdue proposal, each in a transaction of its own: when
\* one fails memory goes back, the rows already saved do not.
List(ok) ==
  LET late == {p \in Proposals : Overdue(mem[p])}
      Lapsed(recs, S) == [p \in Proposals |-> IF p \in S THEN Expired(mem[p]) ELSE recs[p]]
  IN /\ late # {}
     /\ \/ /\ ok
           /\ mem' = Lapsed(mem, late)
           /\ db' = Lapsed(db, late)
           /\ UNCHANGED faults
        \/ /\ ~ok
           /\ Fault
           /\ \E saved \in SUBSET late \ {late} : db' = Lapsed(db, saved)
           /\ UNCHANGED mem
     /\ UNCHANGED <<files, call, now, restarts>>

----------------------------------------------------------------------------
(* A confirmation: apply, step by step *)

LockIsFree == \A t \in Threads : ~Working(t)

\* apply takes the lock, and get_pending accepts.
Begin(t, p) ==
  /\ ~Working(t)
  /\ LockIsFree
  /\ mem[p].state = "pending"
  /\ ~Overdue(mem[p])
  /\ call' = [call EXCEPT ![t] = [Ended("read") EXCEPT !.prop = p]]
  /\ UNCHANGED <<store, files, now, faults, restarts>>

\* The file is read and the text inserted, in memory.
Read(t) ==
  /\ call[t].at = "read"
  /\ IF IsDuplicate(call[t].prop, doc)
     THEN Answer(t, "failed")
     ELSE call' = [call EXCEPT ![t].at = "compare", ![t].original = doc]
  /\ UNCHANGED <<store, files, now, faults, restarts>>

\* Mutant: the file is not compared with what was read.
IsUnchanged_Always(t) == TRUE

IsUnchanged(t) == doc = call[t].original

Compare(t) ==
  /\ call[t].at = "compare"
  /\ IF IsUnchanged(t)
     THEN call' = [call EXCEPT ![t].at = "backup", ![t].before = doc]
     ELSE Answer(t, "failed")
  /\ UNCHANGED <<store, files, now, faults, restarts>>

Backup(t) ==
  /\ call[t].at = "backup"
  /\ bak' = call[t].before
  /\ Goto(t, "replace")
  /\ UNCHANGED <<store, doc, written, now, faults, restarts>>

Replace(t) ==
  /\ call[t].at = "replace"
  /\ doc' = Updated(t)
  /\ written' = written \cup {call[t].prop}
  /\ Goto(t, "verify")
  /\ UNCHANGED <<store, bak, now, faults, restarts>>

\* Mutant: after the backup is put back, the proposal is marked all the same.
AfterRestore_Marks(t) == Goto(t, "mark")

AfterRestore(t) == Answer(t, "failed")

\* The file is read back; when it differs the backup is moved over it.
Verify(t) ==
  /\ call[t].at = "verify"
  /\ \/ /\ doc = Updated(t)
        /\ Goto(t, "mark")
        /\ UNCHANGED files
     \/ /\ doc # Updated(t)
        /\ doc' = bak
        /\ bak' = None
        /\ written' = written \ {call[t].prop}
        /\ AfterRestore(t)
  /\ UNCHANGED <<store, now, faults, restarts>>

\* Reading, comparing, backing up, replacing or reading back fails: whatever
\* has reached the files stays there.
FileError(t) ==
  /\ Working(t)
  /\ call[t].at # "mark"
  /\ Fault
  /\ Answer(t, "failed")
  /\ UNCHANGED <<store, files, now, restarts>>

\* Mutant: memory keeps what the failed transaction did not store.
MarkFailed_Kept(p) == mem' = [mem EXCEPT ![p].state = "applied"] /\ UNCHANGED db

MarkFailed(p) == UNCHANGED store

\* mark_applied; the refresh that follows under the lock changes the Memory
\* Engine's index only.
Mark(t, ok) ==
  LET p == call[t].prop
  IN /\ call[t].at = "mark"
     /\ mem[p].state = "pending"
     /\ ~Overdue(mem[p])
     /\ \/ /\ ok
           /\ Save(p, [mem[p] EXCEPT !.state = "applied"], TRUE)
           /\ Answer(t, "applied")
        \/ /\ ~ok
           /\ Fault
           /\ MarkFailed(p)
           /\ Answer(t, "failed")
     /\ UNCHANGED <<files, now, restarts>>

\* The proposal's time ran out during the confirmation: mark_applied raises and
\* memory goes back.
MarkRefused(t) ==
  LET p == call[t].prop
  IN /\ call[t].at = "mark"
     /\ mem[p].state # "pending" \/ Overdue(mem[p])
     /\ Answer(t, "failed")
     /\ UNCHANGED <<store, files, now, faults, restarts>>

----------------------------------------------------------------------------
(* The environment *)

EditorAdds(e) ==
  /\ e \notin doc.edits
  /\ doc' = [doc EXCEPT !.edits = @ \cup {e}]
  /\ UNCHANGED <<store, bak, written, call, now, faults, restarts>>

\* Deleting a line that a proposal wrote.
EditorRemoves(p) ==
  /\ doc.notes[p] > 0
  /\ doc' = [doc EXCEPT !.notes[p] = 0]
  /\ UNCHANGED <<store, bak, written, call, now, faults, restarts>>

\* Core stops, whatever its threads are doing, and _restore reads the rows.
Restart ==
  /\ restarts < MaxRestarts
  /\ restarts' = restarts + 1
  /\ mem' = [p \in Proposals |-> IF Overdue(db[p]) THEN Expired(db[p]) ELSE db[p]]
  /\ db' = mem'
  /\ call' = [t \in Threads |-> Ended("idle")]
  /\ UNCHANGED <<files, now, faults>>

Tick ==
  /\ now < MaxTime
  /\ now' = now + 1
  /\ UNCHANGED <<store, files, call, faults, restarts>>

Work(t) ==
  \/ Read(t) \/ Compare(t) \/ Backup(t) \/ Replace(t) \/ Verify(t)
  \/ FileError(t)
  \/ \E ok \in BOOLEAN : Mark(t, ok)
  \/ MarkRefused(t)

Next ==
  \/ \E p \in Proposals, ok \in BOOLEAN : Put(p, ok) \/ Look(p, ok)
  \/ \E ok \in BOOLEAN : List(ok)
  \/ \E t \in Threads, p \in Proposals : Begin(t, p)
  \/ \E t \in Threads : Work(t)
  \/ \E e \in Edits : EditorAdds(e)
  \/ \E p \in Proposals : EditorRemoves(p)
  \/ Restart
  \/ Tick

Spec == Init /\ [][Next]_vars

----------------------------------------------------------------------------
(* Properties *)

\* Whatever is confirmed twice, proposed again after it expired, or confirmed
\* again after a crash between the replacement of the file and the mark: the
\* file never holds a proposal's text twice.
AtMostOneCopy == \A p \in Proposals : doc.notes[p] <= 1

\* Nothing is shown as applied that a confirmation did not leave in the file,
\* also after a failed verification put the backup back.
AppliedWasWritten ==
  \A p \in Proposals : mem[p].state = "applied" \/ db[p].state = "applied" => p \in written

\* Failed transactions do not part memory from the rows: only a list that
\* failed half-way leaves a proposal expired there and overdue here.
MemoryFollowsRows ==
  \A p \in Proposals :
    \/ mem[p] = db[p]
    \/ db[p] = Expired(mem[p]) /\ Overdue(mem[p])

\* What the person wrote before the file was compared survives the write and
\* the return of the backup; only an addition that came after the comparison
\* can be lost.
CheckedEditsSurvive ==
  [][\A e \in doc.edits : e \notin doc'.edits =>
       \E t \in Threads : /\ call[t].at \in {"replace", "verify"}
                          /\ e \notin call[t].before.edits]_vars

\* docs/api-contract.md: "Duplicate content, missing sections, expired
\* proposals, and repeated confirmation fail without another write."  The code
\* writes first and looks at the time again in mark_applied.
FailedWithoutWrite ==
  [][\A t \in Threads :
       call[t].at \in {"verify", "mark"} /\ call'[t].at = "failed" =>
         doc'.notes[call[t].prop] <= call[t].original.notes[call[t].prop]]_vars

=============================================================================
