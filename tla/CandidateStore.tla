--------------------------- MODULE CandidateStore ---------------------------
(***************************************************************************)
(* Memory candidates: the lessons of an experience that wait for a person  *)
(* to approve or reject them.  MemoryCandidateStore in memory and its      *)
(* SQLite subclass, which restores memory when its transaction raises.     *)
(* A candidate's id is a digest of its experience and lesson, so the same  *)
(* lesson always gets the same id.  Expiry is lazy: the methods notice it. *)
(*                                                                         *)
(* Rows have a foreign key to their experience's row and vanish with it    *)
(* (ON DELETE CASCADE), which this store is never told.                    *)
(***************************************************************************)
EXTENDS Integers, FiniteSets

CONSTANTS
  Experiences,    \* experience ids
  Kinds,          \* what a lesson can be about
  MaxCandidates,  \* capacity (max_records)
  TTL,            \* time a candidate waits for its review
  MaxTime,        \* bound: clock readings
  MaxFaults,      \* bound: failed transactions
  MaxRestarts     \* bound: restarts of Core

ASSUME CandidateBounds ==
  /\ MaxCandidates \in Nat \ {0}
  /\ TTL \in Nat \ {0}
  /\ MaxTime \in Nat \ {0}
  /\ MaxFaults \in Nat
  /\ MaxRestarts \in Nat

VARIABLES
  cand,      \* _records: candidate -> record, NoCandidate when there is none
  candRow,   \* the memory_candidates rows, same shape
  decided,   \* the last decision on a candidate acknowledged to a person
  expRow,    \* experiences that have a row
  now,       \* the clock
  faults,    \* transactions that failed
  restarts   \* restarts of Core

candidateVars == <<cand, candRow, decided, expRow, now, faults, restarts>>

----------------------------------------------------------------------------
(* Records *)

Candidates == Experiences \X Kinds      \* deterministic_candidate_id
Decisions  == {"approved", "rejected"}
Status     == {"pending_review", "expired"} \cup Decisions

CandidateRecord == [status : Status \cup {"absent"}, created : 0..MaxTime]
NoCandidate     == [status |-> "absent", created |-> 0]
NewCandidate    == [status |-> "pending_review", created |-> now]

Known(m)      == {c \in Candidates : m[c].status # "absent"}
Overdue(rec)  == rec.status = "pending_review" /\ now >= rec.created + TTL

\* Mutant: a decided candidate expires too.
Expire_Decided(rec) ==
  IF rec.status # "absent" /\ now >= rec.created + TTL
  THEN [rec EXCEPT !.status = "expired"] ELSE rec

\* _expire
Expire(rec) == IF Overdue(rec) THEN [rec EXCEPT !.status = "expired"] ELSE rec

ExpireAll(m) == [c \in Candidates |-> Expire(m[c])]
Reviewed(m)  == {c \in Known(m) : m[c].status # "pending_review"}

\* _make_room at capacity: everything overdue expires, and the oldest candidate
\* that no longer waits leaves; none to choose is MemoryCandidateCapacityError.
Evictable(m) ==
  {c \in Reviewed(m) : \A d \in Reviewed(m) : m[c].created <= m[d].created}

----------------------------------------------------------------------------
(* Transactions *)

\* A transaction that raises: the store puts its memory back and re-raises.
RolledBack ==
  /\ faults < MaxFaults
  /\ faults' = faults + 1
  /\ UNCHANGED <<cand, candRow, decided>>

\* An UPDATE reaches no row when the row has gone with its experience's.
Updated(rows, recs) ==
  [c \in Candidates |-> IF rows[c].status = "absent" THEN NoCandidate ELSE recs[c]]

----------------------------------------------------------------------------
(* Operations *)

CandidateInit ==
  /\ cand = [c \in Candidates |-> NoCandidate]
  /\ candRow = [c \in Candidates |-> NoCandidate]
  /\ decided = [c \in Candidates |-> "none"]
  /\ expRow = {}
  /\ now = 1
  /\ faults = 0
  /\ restarts = 0

Put(m, c, gone) ==
  [d \in Candidates |-> IF d = c THEN NewCandidate
                        ELSE IF d \in gone THEN NoCandidate ELSE m[d]]

\* Mutant: the row of the evicted candidate stays.
InsertCandidate_KeepsEvicted(c, kept, gone) ==
  /\ c[1] \in expRow
  /\ cand' = Put(kept, c, gone)
  /\ candRow' = Put(candRow, c, {})
  /\ UNCHANGED <<decided, faults>>

\* One INSERT, after the DELETE of what made room.  Without its experience's row
\* the insert raises IntegrityError.
InsertCandidate(c, kept, gone) ==
  IF c[1] \in expRow
  THEN \/ /\ cand' = Put(kept, c, gone)
          /\ candRow' = Put(candRow, c, gone)
          /\ UNCHANGED <<decided, faults>>
       \/ RolledBack
  ELSE UNCHANGED <<cand, candRow, decided, faults>>

CreateCandidate(c) ==
  /\ cand[c].status = "absent"
  /\ IF Cardinality(Known(cand)) < MaxCandidates
     THEN InsertCandidate(c, cand, {})
     ELSE \E gone \in Evictable(ExpireAll(cand)) : InsertCandidate(c, ExpireAll(cand), {gone})
  /\ UNCHANGED <<expRow, now, restarts>>

\* get: returns the record, expired and stored as such when it is overdue.
Get(c) ==
  /\ c \in Known(cand)
  /\ IF Overdue(cand[c])
     THEN \/ /\ cand' = [cand EXCEPT ![c] = Expire(cand[c])]
             /\ candRow' = Updated(candRow, [candRow EXCEPT ![c] = Expire(cand[c])])
             /\ UNCHANGED <<decided, faults>>
          \/ RolledBack
     ELSE UNCHANGED <<cand, candRow, decided, faults>>
  /\ UNCHANGED <<expRow, now, restarts>>

\* list: the same for every record, in one transaction over those that changed.
List ==
  /\ IF ExpireAll(cand) # cand
     THEN \/ /\ cand' = ExpireAll(cand)
             /\ candRow' = Updated(candRow, [c \in Candidates |->
                  IF Expire(cand[c]) # cand[c] THEN Expire(cand[c]) ELSE candRow[c]])
             /\ UNCHANGED <<decided, faults>>
          \/ RolledBack
     ELSE UNCHANGED <<cand, candRow, decided, faults>>
  /\ UNCHANGED <<expRow, now, restarts>>

\* approve and reject: an overdue candidate raises Expired and memory is put
\* back to pending; one that is not pending raises Conflict.
Decide(c, d) ==
  /\ Expire(cand[c]).status = "pending_review"
  /\ \/ /\ cand' = [cand EXCEPT ![c].status = d]
        /\ candRow' = Updated(candRow, [candRow EXCEPT ![c] = cand'[c]])
        /\ decided' = [decided EXCEPT ![c] = d]
        /\ UNCHANGED faults
     \/ RolledBack
  /\ UNCHANGED <<expRow, now, restarts>>

\* _restore
CandidateRestart ==
  /\ restarts < MaxRestarts
  /\ restarts' = restarts + 1
  /\ cand' = candRow
  /\ UNCHANGED <<candRow, decided, expRow, now, faults>>

\* The rest of Core: experience rows come (before any candidate of theirs) and
\* go, and candidate rows go with them; other stores' transactions may fail.
Cascade(rows) ==
  candRow' = [c \in Candidates |-> IF c[1] \in rows THEN candRow[c] ELSE NoCandidate]

ParentsChange ==
  /\ \E rows \in SUBSET Experiences :
       /\ \A c \in Known(cand) : c[1] \in rows => c[1] \in expRow
       /\ expRow' = rows
       /\ Cascade(rows)
  /\ faults' \in {f \in 0..MaxFaults : f >= faults}
  /\ UNCHANGED <<cand, decided, now, restarts>>

CandidateTick ==
  /\ now < MaxTime
  /\ now' = now + 1
  /\ UNCHANGED <<cand, candRow, decided, expRow, faults, restarts>>

CandidateNext ==
  \/ \E c \in Candidates : CreateCandidate(c) \/ Get(c) \/ \E d \in Decisions : Decide(c, d)
  \/ List
  \/ CandidateRestart
  \/ ParentsChange
  \/ CandidateTick

CandidateSpec == CandidateInit /\ [][CandidateNext]_candidateVars

----------------------------------------------------------------------------
(* Properties *)

CandidateTypeOK ==
  /\ cand \in [Candidates -> CandidateRecord]
  /\ candRow \in [Candidates -> CandidateRecord]
  /\ decided \in [Candidates -> Decisions \cup {"none"}]
  /\ expRow \in SUBSET Experiences
  /\ now \in 1..MaxTime
  /\ faults \in 0..MaxFaults
  /\ restarts \in 0..MaxRestarts

\* A restart changes nothing a person would notice: a candidate in memory is its
\* row, except that memory may already call an overdue candidate expired, or that
\* the row went with the experience's.  No row is left without its candidate.
MemoryFollowsRow(c) ==
  \/ candRow[c] = cand[c]
  \/ /\ cand[c].status = "expired"
     /\ Overdue(candRow[c])
     /\ candRow[c].created = cand[c].created
  \/ candRow[c] = NoCandidate /\ c[1] \notin expRow

CandidatesAreDurable == \A c \in Candidates : MemoryFollowsRow(c)

\* A decision is final: expiry, further requests, failed writes and restarts
\* leave it as it is until the candidate is evicted or its experience goes.
DecisionIsFinal ==
  [][\A c \in Candidates :
       cand[c].status \in Decisions => cand'[c] \in {cand[c], NoCandidate}]_candidateVars

=============================================================================
