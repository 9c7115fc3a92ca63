------------------------- MODULE LearningChain_proofs -------------------------
(***************************************************************************)
(* First, theorems about the candidate store alone, for every capacity,    *)
(* every number of experiences, failures and restarts.                     *)
(*                                                                         *)
(* Then the chain from executions to guidance: it implements the candidate *)
(* store, so the same holds of it beside executions that are evicted,      *)
(* requests that read and write under different locks, cascades and failed *)
(* transactions of the others; its rows keep their parents; and a          *)
(* verification that says "succeeded" stays true.                          *)
(***************************************************************************)
EXTENDS LearningChain, TLAPS

USE CandidateBounds, NoneAssumption

----------------------------------------------------------------------------
(* The inductive invariant *)

\* Without a status there is nothing else to know.
Blank(rec) == rec.status = "absent" => rec = NoCandidate

\* The foreign key: a row without its experience's row does not exist.
HasParent(c) == c[1] \notin expRow => candRow[c] = NoCandidate

\* What memory and row say was decided is what a person was told last.
Acknowledged(c) ==
  /\ cand[c].status \in Decisions => cand[c].status = decided[c]
  /\ candRow[c].status \in Decisions => candRow[c].status = decided[c]

IInv ==
  /\ CandidateTypeOK
  /\ \A c \in Candidates : Blank(cand[c]) /\ Blank(candRow[c])
  /\ \A c \in Candidates : HasParent(c) /\ Acknowledged(c)
  /\ CandidatesAreDurable

----------------------------------------------------------------------------
(* Records *)

\* Expiry gives a record, and only to one that waits.
LEMMA ExpireFacts ==
  ASSUME NEW rec \in CandidateRecord
  PROVE  /\ Expire(rec) \in CandidateRecord
         /\ Expire(rec).created = rec.created
         /\ Expire(rec) # rec => /\ Overdue(rec) /\ rec.status = "pending_review"
                                 /\ Expire(rec).status = "expired"
         /\ Overdue(rec) => Expire(rec).status = "expired"
         /\ Blank(rec) => Blank(Expire(rec))
  BY DEF Expire, Overdue, CandidateRecord, Status, Decisions, Blank, NoCandidate

LEMMA NewFacts ==
  ASSUME CandidateTypeOK
  PROVE  /\ NewCandidate \in CandidateRecord /\ NoCandidate \in CandidateRecord
         /\ Blank(NewCandidate) /\ Blank(NoCandidate)
         /\ NewCandidate.status = "pending_review"
         /\ NoCandidate.status = "absent"
  BY DEF CandidateTypeOK, NewCandidate, NoCandidate, CandidateRecord, Status, Decisions, Blank

----------------------------------------------------------------------------
(* What the steps keep *)

\* One candidate's memory and row after a step, in the terms of the invariant.
Kept(c) ==
  /\ cand'[c] \in CandidateRecord /\ candRow'[c] \in CandidateRecord
  /\ Blank(cand'[c]) /\ Blank(candRow'[c])
  /\ MemoryFollowsRow(c)' /\ HasParent(c)' /\ Acknowledged(c)'
  /\ cand[c].status \in Decisions => cand'[c] \in {cand[c], NoCandidate}

\* Shape of a step: functions over the candidates, and the other variables.
Shape ==
  /\ \E f \in [Candidates -> CandidateRecord] : cand' = f
  /\ \E f \in [Candidates -> CandidateRecord] : candRow' = f
  /\ decided' \in [Candidates -> Decisions \cup {"none"}]
  /\ expRow' \in SUBSET Experiences
  /\ now' \in 1..MaxTime /\ faults' \in 0..MaxFaults /\ restarts' \in 0..MaxRestarts

\* A step keeps the invariant when it keeps it for each candidate.
LEMMA KeptIsEnough ==
  ASSUME Shape, \A c \in Candidates : Kept(c)
  PROVE  /\ IInv'
         /\ \A c \in Candidates :
              cand[c].status \in Decisions => cand'[c] \in {cand[c], NoCandidate}
  BY DEF Shape, Kept, IInv, CandidateTypeOK, CandidatesAreDurable

\* What the invariant says of one candidate.
LEMMA CandidateFacts ==
  ASSUME IInv, NEW c \in Candidates
  PROVE  /\ cand[c] \in CandidateRecord /\ candRow[c] \in CandidateRecord
         /\ Blank(cand[c]) /\ Blank(candRow[c])
         /\ MemoryFollowsRow(c) /\ HasParent(c) /\ Acknowledged(c)
  BY DEF IInv, CandidateTypeOK, CandidatesAreDurable

LEMMA InvInit == CandidateInit => IInv
  BY DEF CandidateInit, IInv, CandidateTypeOK, CandidatesAreDurable, MemoryFollowsRow, Blank,
         NoCandidate, CandidateRecord, Status, Decisions, HasParent, Acknowledged

\* Nothing changes but the clock and the counters.
LEMMA IdleKept ==
  ASSUME IInv, NEW c \in Candidates, cand' = cand, candRow' = candRow, expRow' = expRow,
         decided' = decided, now' \in 1..MaxTime, now' >= now
  PROVE  Kept(c)
  BY DEF IInv, Kept, CandidateTypeOK, CandidatesAreDurable, MemoryFollowsRow, Overdue, CandidateRecord,
         HasParent, Acknowledged

LEMMA RolledBackKept ==
  ASSUME IInv, RolledBack, UNCHANGED <<expRow, now, restarts>>
  PROVE  Shape /\ \A c \in Candidates : Kept(c)
<1>1. Shape
  BY DEF Shape, RolledBack, IInv, CandidateTypeOK
<1>2. now' \in 1..MaxTime /\ now' >= now
  BY DEF IInv, CandidateTypeOK
<1>. QED
  BY <1>1, <1>2, IdleKept DEF RolledBack

LEMMA InsertKept ==
  ASSUME IInv, NEW c \in Candidates, cand[c].status = "absent",
         NEW kept, kept \in {cand, ExpireAll(cand)}, NEW gone \in SUBSET Candidates,
         InsertCandidate(c, kept, gone), UNCHANGED <<expRow, now, restarts>>
  PROVE  Shape /\ \A d \in Candidates : Kept(d)
<1>1. CASE c[1] \notin expRow
  <2>1. now' \in 1..MaxTime /\ now' >= now
    BY DEF IInv, CandidateTypeOK
  <2>. QED
    BY <1>1, <2>1, IdleKept DEF InsertCandidate, Shape, IInv, CandidateTypeOK
<1>2. CASE RolledBack
  BY <1>2, RolledBackKept
<1>3. CASE /\ c[1] \in expRow
           /\ cand' = Put(kept, c, gone) /\ candRow' = Put(candRow, c, gone)
           /\ UNCHANGED <<decided, faults>>
  <2>1. \A d \in Candidates : kept[d] = cand[d] \/ kept[d] = Expire(cand[d])
    BY DEF ExpireAll
  <2>2. ASSUME NEW d \in Candidates
        PROVE  /\ kept[d] \in CandidateRecord /\ Blank(kept[d])
               /\ kept[d].created = cand[d].created
               /\ kept[d] # cand[d] => /\ Overdue(cand[d])
                                       /\ cand[d].status = "pending_review"
                                       /\ kept[d].status = "expired"
    BY <2>1, <2>2, ExpireFacts DEF IInv, CandidateTypeOK
  <2>3. NewCandidate \in CandidateRecord /\ NoCandidate \in CandidateRecord
        /\ Blank(NewCandidate) /\ Blank(NoCandidate)
    BY NewFacts DEF IInv
  <2>4. Shape
    BY <1>3, <2>2, <2>3 DEF Shape, Put, IInv, CandidateTypeOK
  <2>5. ASSUME NEW d \in Candidates  PROVE Kept(d)
    <3>1. CASE d = c \/ d \in gone
      <4>1. cand'[d] = candRow'[d] /\ cand'[d] \in {NewCandidate, NoCandidate}
        BY <1>3, <3>1 DEF Put
      <4>2. cand[d].status \in Decisions => cand'[d] = NoCandidate
        BY <1>3, <3>1 DEF Put, Decisions
      <4>. QED
        <5>1. cand'[d].status \notin Decisions
          BY <4>1, NewFacts DEF IInv, Decisions
        <5>2. c[1] \in expRow' /\ (d # c => candRow'[d] = NoCandidate)
          BY <1>3, <3>1 DEF Put
        <5>. QED
          BY <4>1, <4>2, <2>3, <5>1, <5>2 DEF Kept, HasParent, Acknowledged, MemoryFollowsRow
    <3>2. CASE ~(d = c \/ d \in gone)
      <4>1. cand'[d] = kept[d] /\ candRow'[d] = candRow[d]
        BY <1>3, <3>2 DEF Put
      <4>2. MemoryFollowsRow(d)
        BY DEF IInv, CandidatesAreDurable
      <4>3. MemoryFollowsRow(d)'
        BY <2>2, <4>1, <4>2 DEF MemoryFollowsRow, Overdue
      <4>4. cand[d].status \in Decisions => kept[d] = cand[d]
        BY <2>2 DEF Decisions
      <4>. QED
        <5>1. HasParent(d)' /\ Acknowledged(d)'
          BY <1>3, <2>2, <4>1, CandidateFacts DEF HasParent, Acknowledged, Decisions
        <5>. QED
          BY <4>1, <4>3, <4>4, <5>1, <2>2, CandidateFacts DEF Kept
    <3>. QED
      BY <3>1, <3>2
  <2>. QED
    BY <2>4, <2>5
<1>. QED
  BY <1>1, <1>2, <1>3 DEF InsertCandidate

LEMMA CreateKept ==
  ASSUME IInv, NEW c \in Candidates, CreateCandidate(c)
  PROVE  Shape /\ \A d \in Candidates : Kept(d)
<1>1. \E kept \in {cand, ExpireAll(cand)} : \E gone \in SUBSET Candidates :
        InsertCandidate(c, kept, gone)
  <2>1. CASE InsertCandidate(c, cand, {})
    BY <2>1
  <2>2. CASE \E gone \in Evictable(ExpireAll(cand)) :
               InsertCandidate(c, ExpireAll(cand), {gone})
    <3>1. PICK gone \in Evictable(ExpireAll(cand)) :
            InsertCandidate(c, ExpireAll(cand), {gone})
      BY <2>2
    <3>2. {gone} \in SUBSET Candidates
      BY <3>1 DEF Evictable, Reviewed, Known
    <3>. QED
      BY <3>1, <3>2
  <2>. QED
    BY <2>1, <2>2 DEF CreateCandidate
<1>. QED
  BY <1>1, InsertKept DEF CreateCandidate

\* get and list: some records expire, and the rows that are there follow.
LEMMA ExpiryKept ==
  ASSUME IInv, NEW S \in SUBSET Candidates,
         cand' = [c \in Candidates |-> IF c \in S THEN Expire(cand[c]) ELSE cand[c]],
         candRow' = Updated(candRow, [c \in Candidates |->
           IF c \in S /\ Expire(cand[c]) # cand[c] THEN Expire(cand[c]) ELSE candRow[c]]),
         UNCHANGED <<decided, faults, expRow, now, restarts>>
  PROVE  Shape /\ \A c \in Candidates : Kept(c)
<1>1. \A c \in Candidates : cand[c] \in CandidateRecord /\ candRow[c] \in CandidateRecord
  BY DEF IInv, CandidateTypeOK
<1>2. \A c \in Candidates : Expire(cand[c]) \in CandidateRecord /\ Blank(Expire(cand[c]))
  BY <1>1, ExpireFacts DEF IInv
<1>3. NoCandidate \in CandidateRecord /\ Blank(NoCandidate)
  BY NewFacts DEF IInv
<1>4. Shape
  BY <1>1, <1>2, <1>3 DEF Shape, Updated, IInv, CandidateTypeOK
<1>5. ASSUME NEW c \in Candidates  PROVE Kept(c)
  <2>1. MemoryFollowsRow(c) /\ Blank(cand[c]) /\ Blank(candRow[c])
    BY DEF IInv, CandidatesAreDurable
  <2>2. CASE c \in S /\ Expire(cand[c]) # cand[c]
    <3>1. Overdue(cand[c]) /\ cand[c].status = "pending_review"
      BY <1>1, <2>2, ExpireFacts
    <3>2. cand'[c] = Expire(cand[c])
      BY <2>2
    <3>3. candRow'[c] = IF candRow[c].status = "absent" THEN NoCandidate ELSE Expire(cand[c])
      BY <2>2 DEF Updated
    <3>4. candRow[c].status = "absent" => c[1] \notin expRow
      BY <2>1, <3>1, <1>1 DEF MemoryFollowsRow, CandidateRecord
    <3>. QED
      <4>1. Expire(cand[c]).status = "expired"
        BY <1>1, <2>2, ExpireFacts
      <4>2. candRow'[c].status \notin Decisions /\ cand'[c].status \notin Decisions
        BY <3>2, <3>3, <4>1 DEF Decisions, NoCandidate
      <4>3. HasParent(c)'
        BY <3>3, CandidateFacts DEF HasParent, NoCandidate
      <4>. QED
        BY <1>2, <1>3, <3>1, <3>2, <3>3, <3>4, <4>2, <4>3
        DEF Kept, Acknowledged, MemoryFollowsRow, Decisions
  <2>3. CASE ~(c \in S /\ Expire(cand[c]) # cand[c])
    <3>1. cand'[c] = cand[c] /\ candRow'[c] = candRow[c]
      BY <2>1, <2>3 DEF Updated, Blank
    <3>. QED
      BY <3>1, CandidateFacts DEF Kept, HasParent, Acknowledged, MemoryFollowsRow, Overdue
  <2>. QED
    BY <2>2, <2>3
<1>. QED
  BY <1>4, <1>5

LEMMA GetKept ==
  ASSUME IInv, NEW c \in Candidates, Get(c)
  PROVE  Shape /\ \A d \in Candidates : Kept(d)
<1>1. CASE ~Overdue(cand[c])
  <2>1. now' \in 1..MaxTime /\ now' >= now
    BY <1>1 DEF IInv, CandidateTypeOK, Get
  <2>. QED
    BY <1>1, <2>1, IdleKept DEF Get, Shape, IInv, CandidateTypeOK
<1>2. CASE RolledBack
  BY <1>2, RolledBackKept DEF Get
<1>3. CASE /\ Overdue(cand[c])
           /\ cand' = [cand EXCEPT ![c] = Expire(cand[c])]
           /\ candRow' = Updated(candRow, [candRow EXCEPT ![c] = Expire(cand[c])])
           /\ UNCHANGED <<decided, faults>>
  <2>1. cand[c] \in CandidateRecord /\ Expire(cand[c]) # cand[c]
    BY <1>3, ExpireFacts DEF IInv, CandidateTypeOK, Overdue
  <2>2. cand' = [d \in Candidates |-> IF d \in {c} THEN Expire(cand[d]) ELSE cand[d]]
    BY <1>3 DEF IInv, CandidateTypeOK
  <2>3. [candRow EXCEPT ![c] = Expire(cand[c])] =
          [d \in Candidates |->
             IF d \in {c} /\ Expire(cand[d]) # cand[d] THEN Expire(cand[d]) ELSE candRow[d]]
    BY <2>1 DEF IInv, CandidateTypeOK
  <2>. QED
    BY <1>3, <2>2, <2>3, ExpiryKept DEF Get
<1>. QED
  BY <1>1, <1>2, <1>3 DEF Get

LEMMA ListKept ==
  ASSUME IInv, List
  PROVE  Shape /\ \A d \in Candidates : Kept(d)
<1>1. CASE ExpireAll(cand) = cand
  <2>1. now' \in 1..MaxTime /\ now' >= now
    BY <1>1 DEF IInv, CandidateTypeOK, List
  <2>. QED
    BY <1>1, <2>1, IdleKept DEF List, Shape, IInv, CandidateTypeOK
<1>2. CASE RolledBack
  BY <1>2, RolledBackKept DEF List
<1>3. CASE /\ cand' = ExpireAll(cand)
           /\ candRow' = Updated(candRow, [c \in Candidates |->
                IF Expire(cand[c]) # cand[c] THEN Expire(cand[c]) ELSE candRow[c]])
           /\ UNCHANGED <<decided, faults>>
  <2>1. cand' = [c \in Candidates |-> IF c \in Candidates THEN Expire(cand[c]) ELSE cand[c]]
    BY <1>3 DEF ExpireAll
  <2>2. candRow' = Updated(candRow, [c \in Candidates |->
          IF c \in Candidates /\ Expire(cand[c]) # cand[c] THEN Expire(cand[c]) ELSE candRow[c]])
    BY <1>3 DEF Updated
  <2>. QED
    BY <1>3, <2>1, <2>2, ExpiryKept DEF List
<1>. QED
  BY <1>1, <1>2, <1>3 DEF List

LEMMA DecideKept ==
  ASSUME IInv, NEW c \in Candidates, NEW d \in Decisions, Decide(c, d)
  PROVE  Shape /\ \A e \in Candidates : Kept(e)
<1>1. CASE RolledBack
  BY <1>1, RolledBackKept DEF Decide
<1>2. CASE /\ cand' = [cand EXCEPT ![c].status = d]
           /\ candRow' = Updated(candRow, [candRow EXCEPT ![c] = cand'[c]])
           /\ decided' = [decided EXCEPT ![c] = d]
           /\ UNCHANGED faults
  <2>1. \A e \in Candidates : cand[e] \in CandidateRecord /\ candRow[e] \in CandidateRecord
    BY DEF IInv, CandidateTypeOK
  <2>2. cand[c].status = "pending_review"
    BY <2>1, ExpireFacts DEF Decide
  <2>3. cand'[c] = [cand[c] EXCEPT !.status = d]
    BY <1>2 DEF IInv, CandidateTypeOK
  <2>4. cand'[c] \in CandidateRecord /\ cand'[c].status = d
    BY <2>1, <2>3 DEF CandidateRecord, Status
  <2>5. NoCandidate \in CandidateRecord /\ Blank(NoCandidate)
    BY NewFacts DEF IInv
  <2>6. Shape
    BY <1>2, <2>1, <2>4, <2>5 DEF Shape, Updated, Decide, IInv, CandidateTypeOK
  <2>7. ASSUME NEW e \in Candidates  PROVE Kept(e)
    <3>1. MemoryFollowsRow(e) /\ Blank(cand[e]) /\ Blank(candRow[e])
      BY DEF IInv, CandidatesAreDurable
    <3>2. CASE e = c
      <4>1. candRow'[c] = IF candRow[c].status = "absent" THEN NoCandidate ELSE cand'[c]
        BY <1>2 DEF Updated, IInv, CandidateTypeOK
      <4>2. candRow[c].status = "absent" => c[1] \notin expRow
        BY <2>1, <2>2, <3>1, <3>2 DEF MemoryFollowsRow, CandidateRecord
      <4>3. Blank(cand'[c]) /\ cand[c].status \notin Decisions
        BY <2>2, <2>4 DEF Blank, Decisions
      <4>. QED
        <5>1. decided'[c] = d
          BY <1>2 DEF IInv, CandidateTypeOK
        <5>2. Acknowledged(c)'
          BY <2>4, <4>1, <5>1 DEF Acknowledged, NoCandidate, Decisions
        <5>3. HasParent(c)'
          BY <4>1, CandidateFacts DEF HasParent, NoCandidate, Decide
        <5>. QED
          BY <2>4, <2>5, <3>2, <4>1, <4>2, <4>3, <5>2, <5>3 DEF Kept, MemoryFollowsRow, Decide
    <3>3. CASE e # c
      <4>1. cand'[e] = cand[e] /\ candRow'[e] = candRow[e]
        BY <1>2, <3>1, <3>3 DEF Updated, Blank, IInv, CandidateTypeOK
      <4>. QED
        <5>1. decided'[e] = decided[e]
          BY <1>2, <3>3 DEF IInv, CandidateTypeOK
        <5>. QED
          BY <4>1, <5>1, CandidateFacts
          DEF Kept, HasParent, Acknowledged, MemoryFollowsRow, Overdue, Decide
    <3>. QED
      BY <3>2, <3>3
  <2>. QED
    BY <2>6, <2>7
<1>. QED
  BY <1>1, <1>2 DEF Decide

LEMMA RestartKept ==
  ASSUME IInv, CandidateRestart
  PROVE  Shape /\ \A c \in Candidates : Kept(c)
<1>1. Shape
  BY DEF Shape, CandidateRestart, IInv, CandidateTypeOK
<1>2. ASSUME NEW c \in Candidates  PROVE Kept(c)
  <2>1. cand'[c] = candRow[c] /\ candRow'[c] = candRow[c]
    BY DEF CandidateRestart
  <2>2. MemoryFollowsRow(c) /\ Blank(candRow[c]) /\ candRow[c] \in CandidateRecord
    BY DEF IInv, CandidatesAreDurable, CandidateTypeOK
  <2>. QED
    BY <2>1, <2>2, CandidateFacts
    DEF Kept, HasParent, Acknowledged, MemoryFollowsRow, Decisions, CandidateRestart
<1>. QED
  BY <1>1, <1>2

LEMMA ParentsKept ==
  ASSUME IInv, ParentsChange
  PROVE  Shape /\ \A c \in Candidates : Kept(c)
<1>1. PICK rows \in SUBSET Experiences :
        /\ \A c \in Known(cand) : c[1] \in rows => c[1] \in expRow
        /\ expRow' = rows
        /\ Cascade(rows)
  BY DEF ParentsChange
<1>2. NoCandidate \in CandidateRecord /\ Blank(NoCandidate)
  BY NewFacts DEF IInv
<1>3. Shape
  BY <1>1, <1>2 DEF Shape, ParentsChange, Cascade, IInv, CandidateTypeOK
<1>4. ASSUME NEW c \in Candidates  PROVE Kept(c)
  <2>1. MemoryFollowsRow(c) /\ Blank(cand[c]) /\ Blank(candRow[c])
        /\ cand[c] \in CandidateRecord /\ candRow[c] \in CandidateRecord
    BY DEF IInv, CandidatesAreDurable, CandidateTypeOK
  <2>2. cand'[c] = cand[c] /\ now' = now
        /\ candRow'[c] = IF c[1] \in rows THEN candRow[c] ELSE NoCandidate
    BY <1>1 DEF Cascade, ParentsChange
  <2>3. c \in Known(cand) \/ cand[c] = NoCandidate
    BY <2>1 DEF Known, Blank
  <2>. QED
    <3>1. NoCandidate.status \notin Decisions /\ decided' = decided
      BY DEF NoCandidate, Decisions, ParentsChange
    <3>2. HasParent(c)'
      BY <1>1, <2>2, CandidateFacts DEF HasParent
    <3>3. Acknowledged(c)'
      BY <2>2, <3>1, CandidateFacts DEF Acknowledged
    <3>. QED
      BY <1>1, <1>2, <2>1, <2>2, <2>3, <3>2, <3>3 DEF Kept, MemoryFollowsRow, Overdue, NoCandidate
<1>. QED
  BY <1>3, <1>4

LEMMA TickKept ==
  ASSUME IInv, CandidateTick
  PROVE  Shape /\ \A c \in Candidates : Kept(c)
<1>1. now' \in 1..MaxTime /\ now' >= now
  BY DEF CandidateTick, IInv, CandidateTypeOK
<1>. QED
  BY <1>1, IdleKept DEF CandidateTick, Shape, IInv, CandidateTypeOK

LEMMA InvNext ==
  ASSUME IInv, [CandidateNext]_candidateVars
  PROVE  /\ IInv'
         /\ \A c \in Candidates :
              cand[c].status \in Decisions => cand'[c] \in {cand[c], NoCandidate}
<1>1. CASE \E c \in Candidates : CreateCandidate(c)
  BY <1>1, CreateKept, KeptIsEnough
<1>2. CASE \E c \in Candidates : Get(c)
  BY <1>2, GetKept, KeptIsEnough
<1>3. CASE \E c \in Candidates, d \in Decisions : Decide(c, d)
  BY <1>3, DecideKept, KeptIsEnough
<1>4. CASE List
  BY <1>4, ListKept, KeptIsEnough
<1>5. CASE CandidateRestart
  BY <1>5, RestartKept, KeptIsEnough
<1>6. CASE ParentsChange
  BY <1>6, ParentsKept, KeptIsEnough
<1>7. CASE CandidateTick
  BY <1>7, TickKept, KeptIsEnough
<1>8. CASE UNCHANGED candidateVars
  <2>1. now' \in 1..MaxTime /\ now' >= now
    BY <1>8 DEF candidateVars, IInv, CandidateTypeOK
  <2>2. Shape /\ \A c \in Candidates : Kept(c)
    BY <1>8, <2>1, IdleKept DEF candidateVars, Shape, IInv, CandidateTypeOK
  <2>. QED
    BY <2>2, KeptIsEnough
<1>. QED
  BY <1>1, <1>2, <1>3, <1>4, <1>5, <1>6, <1>7, <1>8 DEF CandidateNext

----------------------------------------------------------------------------
(* Theorems *)

\* The invariant above holds of every state of a behaviour.
THEOREM Invariant == CandidateSpec => []IInv
<1>1. IInv /\ [CandidateNext]_candidateVars => IInv'
  BY InvNext
<1>. QED
  BY InvInit, <1>1, PTL DEF CandidateSpec

\* A restart shows the candidates that memory showed, up to expiry, but for those whose
\* experience went.
THEOREM CandidatesAreDurableHolds == CandidateSpec => []CandidatesAreDurable
<1>1. IInv => CandidatesAreDurable
  BY DEF IInv
<1>. QED
  BY <1>1, Invariant, PTL

\* What a person decided about a candidate is not changed while it exists.
THEOREM DecisionIsFinalHolds == CandidateSpec => DecisionIsFinal
<1>1. IInv /\ [CandidateNext]_candidateVars
        => [\A c \in Candidates :
              cand[c].status \in Decisions => cand'[c] \in {cand[c], NoCandidate}]_candidateVars
  BY InvNext
<1>. QED
  BY <1>1, Invariant, PTL DEF CandidateSpec, DecisionIsFinal


----------------------------------------------------------------------------
(* What the chain adds to the store's invariant *)

Issued(x) == exper[x].verif # None

\* An experience id gets its row, and its candidates, after it was issued; so a new
\* experience has no candidates from before.
LinkInv ==
  /\ exper \in [Experiences -> [verif : Verifications \cup {None}]]
  /\ \A x \in expRow : Issued(x)
  /\ \A c \in Known(cand) : Issued(c[1])
  /\ job.task = "consolidate" => job.on \in Verifications
  /\ job.task = "candidates" => job.on \in Experiences

ChainInv == IInv /\ LinkInv

----------------------------------------------------------------------------
(* Steps of the execution store *)

LEMMA ExecutionSteps ==
  ASSUME NEW e, NEW s, NEW r, NEW ok \in BOOLEAN,
         \/ E!Create(e, r, {}, ok) \/ E!FailRuntime(e, ok) \/ E!AppendEvent(e, ok)
         \/ E!StartStep(e, s, ok) \/ E!FinishStep(e, s, r, ok)
         \/ E!RetryStep(e, s, ok) \/ E!SkipFailedStep(e, s, ok)
  PROVE  /\ faults' = faults \/ (faults < MaxFaults /\ faults' = faults + 1)
         /\ UNCHANGED restarts
  BY DEF E!Create, E!FailRuntime, E!AppendEvent, E!StartStep, E!FinishStep, E!RetryStep,
         E!SkipFailedStep, E!Update, E!Persist

----------------------------------------------------------------------------
(* Steps of the candidate store *)

\* Expiry and decisions make no candidate known.
LEMMA KnownStays ==
  ASSUME IInv, NEW c \in Candidates, NEW d \in Decisions, Get(c) \/ List \/ Decide(c, d)
  PROVE  \A k \in Known(cand') : k \in Known(cand)
<1>1. \A k \in Candidates : cand[k].status = "absent" => Expire(cand[k]) = cand[k]
  BY DEF Expire, Overdue
<1>2. \A k \in Candidates : cand[k].status = "absent" => cand'[k].status = "absent"
  <2>1. CASE Get(c)
    BY <1>1, <2>1 DEF Get, RolledBack, IInv, CandidateTypeOK
  <2>2. CASE List
    BY <1>1, <2>2 DEF List, ExpireAll, RolledBack
  <2>3. CASE Decide(c, d)
    BY <1>1, <2>3 DEF Decide, RolledBack, IInv, CandidateTypeOK
  <2>. QED
    BY <2>1, <2>2, <2>3
<1>. QED
  BY <1>2 DEF Known

\* A new candidate has its experience's row.
LEMMA CreateKnown ==
  ASSUME IInv, NEW c \in Candidates, CreateCandidate(c)
  PROVE  \A k \in Known(cand') : k \in Known(cand) \/ k[1] \in expRow
<1>1. \A k \in Candidates : Expire(cand[k]).status = "absent" <=> cand[k].status = "absent"
  BY DEF Expire, Overdue
<1>2. ASSUME NEW kept \in {cand, ExpireAll(cand)}, NEW gone, InsertCandidate(c, kept, gone)
      PROVE  \A k \in Candidates : cand'[k].status # "absent" =>
               cand[k].status # "absent" \/ k[1] \in expRow
  <2>1. \A k \in Candidates : kept[k].status = "absent" <=> cand[k].status = "absent"
    BY <1>1 DEF ExpireAll
  <2>2. NoCandidate.status = "absent"
    BY DEF NoCandidate
  <2>. QED
    BY <1>2, <2>1, <2>2 DEF InsertCandidate, Put, RolledBack
<1>. QED
  BY <1>2 DEF CreateCandidate, Known

----------------------------------------------------------------------------
(* Rows and requests *)

\* The links when only rows of experiences go, and requests move on.
LEMMA LinkKept ==
  ASSUME LinkInv, UNCHANGED exper, \A x \in expRow' : x \in expRow,
         \A k \in Known(cand') : k \in Known(cand) \/ k[1] \in expRow,
         job'.task = "consolidate" => job'.on \in Verifications,
         job'.task = "candidates" => job'.on \in Experiences
  PROVE  LinkInv'
  BY DEF LinkInv, Issued, Known

\* Rows that cascade, and a failed transaction of another store, are what the candidate
\* store expects of the rest of Core.
LEMMA RowsChange ==
  ASSUME ChainInv, \A c \in Known(cand) : c[1] \in expRow' => c[1] \in expRow,
         expRow' \in SUBSET Experiences, Cascade(expRow'),
         faults' = faults \/ (faults < MaxFaults /\ faults' = faults + 1),
         UNCHANGED <<cand, decided, now, restarts>>
  PROVE  CandidateNext
<1>1. faults' \in {f \in 0..MaxFaults : f >= faults}
  BY CandidateBounds DEF ChainInv, IInv, CandidateTypeOK
<1>. QED
  BY <1>1 DEF ParentsChange, CandidateNext

LEMMA OtherFault ==
  ASSUME ChainInv, faults < MaxFaults, faults' = faults + 1,
         UNCHANGED <<cand, candRow, expRow, decided, now, restarts>>
  PROVE  CandidateNext
<1>1. faults' \in {f \in 0..MaxFaults : f >= faults}
  BY CandidateBounds DEF ChainInv, IInv, CandidateTypeOK
<1>2. Cascade(expRow)
  <2>1. candRow = [c \in Candidates |-> candRow[c]]
    BY DEF ChainInv, IInv, CandidateTypeOK
  <2>2. \A c \in Candidates : c[1] \notin expRow => candRow[c] = NoCandidate
    BY DEF ChainInv, IInv, HasParent
  <2>. QED
    BY <2>1, <2>2 DEF Cascade
<1>3. expRow \in SUBSET Experiences
  BY DEF ChainInv, IInv, CandidateTypeOK
<1>. QED
  BY <1>1, <1>2, <1>3 DEF ParentsChange, CandidateNext

\* A request without a write for the candidate store.
LEMMA Unseen ==
  ASSUME UNCHANGED candidateVars
  PROVE  [CandidateNext]_candidateVars
  OBVIOUS

----------------------------------------------------------------------------
(* The steps of the chain *)

LEMMA CreateExecutionLink ==
  ASSUME ChainInv, NEW e, NEW r, NEW ok \in BOOLEAN, CreateExecution(e, r, ok)
  PROVE  CandidateNext /\ LinkInv'
<1>1. /\ faults' = faults \/ (faults < MaxFaults /\ faults' = faults + 1)
      /\ UNCHANGED restarts
  BY ExecutionSteps DEF CreateExecution
<1>2. \A x \in expRow' : x \in expRow
  BY DEF CreateExecution, CascadeFrom
<1>3. CandidateNext
  BY <1>1, <1>2, RowsChange DEF CreateExecution, CascadeFrom, ChainInv, IInv, CandidateTypeOK
<1>4. LinkInv'
  BY <1>2, LinkKept DEF CreateExecution, ChainInv, LinkInv
<1>. QED
  BY <1>3, <1>4

LEMMA ExecutionStepLink ==
  ASSUME ChainInv, NEW e, NEW ok \in BOOLEAN, ExecutionStep(e, ok)
  PROVE  [CandidateNext]_candidateVars /\ LinkInv'
<1>1. /\ faults' = faults \/ (faults < MaxFaults /\ faults' = faults + 1)
      /\ UNCHANGED restarts
  BY ExecutionSteps DEF ExecutionStep, Finish, Retry
<1>2. UNCHANGED <<chainVars, cand, candRow, decided, expRow, now, job>>
  BY DEF ExecutionStep
<1>3. LinkInv'
  BY <1>2, LinkKept DEF chainVars, ChainInv, LinkInv
<1>. QED
  BY <1>1, <1>2, <1>3, OtherFault DEF candidateVars

LEMMA ReadLink ==
  ASSUME ChainInv,
         \/ \E e \in Execs : VerifyRead(e)
         \/ \E v \in Verifications : ConsolidateRead(v)
         \/ \E x \in Experiences : CandidatesRead(x)
  PROVE  UNCHANGED candidateVars /\ LinkInv'
<1>1. UNCHANGED <<chainVars, candidateVars>>
  BY DEF VerifyRead, ConsolidateRead, CandidatesRead
<1>2. /\ job'.task = "consolidate" => job'.on \in Verifications
      /\ job'.task = "candidates" => job'.on \in Experiences
  BY DEF VerifyRead, ConsolidateRead, CandidatesRead, Idle
<1>. QED
  BY <1>1, <1>2, LinkKept DEF chainVars, candidateVars, ChainInv

LEMMA VerifyWriteLink ==
  ASSUME ChainInv, VerifyWrite
  PROVE  [CandidateNext]_candidateVars /\ LinkInv'
<1>1. job' = Idle /\ UNCHANGED <<cand, decided, now, restarts>>
  BY DEF VerifyWrite
<1>2. UNCHANGED exper /\ \A x \in expRow' : x \in expRow
  BY DEF VerifyWrite, InsertVerification, StoreRolledBack, chainVars
<1>3. LinkInv'
  BY <1>1, <1>2, LinkKept DEF ChainInv, Idle
<1>4. CASE UNCHANGED <<chainVars, candRow, expRow, faults>>
  BY <1>1, <1>3, <1>4, Unseen DEF candidateVars
<1>5. CASE StoreRolledBack
  BY <1>1, <1>3, <1>5, OtherFault DEF StoreRolledBack
<1>6. CASE \E v \in Verifications : InsertVerification(v)
  BY <1>1, <1>2, <1>3, <1>6, RowsChange DEF InsertVerification, ChainInv, IInv, CandidateTypeOK
<1>. QED
  BY <1>3, <1>4, <1>5, <1>6 DEF VerifyWrite, First

LEMMA ConsolidateWriteLink ==
  ASSUME ChainInv, ConsolidateWrite
  PROVE  [CandidateNext]_candidateVars /\ LinkInv'
<1>1. job' = Idle /\ UNCHANGED <<cand, decided, now, restarts>>
  BY DEF ConsolidateWrite
<1>2. CASE UNCHANGED <<chainVars, candRow, expRow, faults>>
  BY <1>1, <1>2, Unseen, LinkKept DEF candidateVars, chainVars, ChainInv, Idle
<1>3. CASE StoreRolledBack
  BY <1>1, <1>3, OtherFault, LinkKept DEF StoreRolledBack, chainVars, ChainInv, Idle
<1>4. ASSUME NEW x \in Experiences, exper[x].verif = None, InsertExperience(x)
      PROVE  CandidateNext /\ LinkInv'
  <2>1. expRow' \in SUBSET Experiences /\ \A y \in expRow' : y \in expRow \/ y = x
    BY <1>4 DEF InsertExperience, ChainInv, IInv, CandidateTypeOK
  <2>2. \A c \in Known(cand) : c[1] # x
    BY <1>4 DEF ChainInv, LinkInv, Issued
  <2>3. CandidateNext
    BY <1>1, <1>4, <2>1, <2>2, RowsChange DEF InsertExperience
  <2>4. job.on \in Verifications /\ exper' = [exper EXCEPT ![x] = [verif |-> job.on]]
    BY <1>4 DEF ConsolidateWrite, InsertExperience, ChainInv, LinkInv
  <2>5. \A y \in Experiences : Issued(y) \/ y = x => Issued(y)'
    BY <2>4 DEF Issued, ChainInv, LinkInv
  <2>6. /\ exper' \in [Experiences -> [verif : Verifications \cup {None}]]
        /\ job'.task # "consolidate" /\ job'.task # "candidates"
    BY <1>1, <2>4 DEF ChainInv, LinkInv, Idle
  <2>7. \A y \in expRow' : Issued(y)'
    BY <2>1, <2>5 DEF ChainInv, LinkInv
  <2>8. \A c \in Known(cand') : Issued(c[1])'
    BY <1>1, <2>5 DEF ChainInv, LinkInv, Known, Candidates
  <2>. QED
    BY <2>3, <2>6, <2>7, <2>8 DEF LinkInv
<1>. QED
  BY <1>2, <1>3, <1>4 DEF ConsolidateWrite, First

LEMMA CandidateWriteLink ==
  ASSUME ChainInv, NEW k \in Kinds, CandidateWrite(k)
  PROVE  [CandidateNext]_candidateVars /\ LinkInv'
<1> DEFINE c == <<job.on, k>>
<1>1. /\ c \in Candidates /\ UNCHANGED exper
      /\ job'.task = "consolidate" => job'.on \in Verifications
      /\ job'.task = "candidates" => job'.on \in Experiences
  <2>1. job.task = "candidates" /\ job.on \in Experiences
    BY DEF CandidateWrite, ChainInv, LinkInv
  <2>2. job' = Idle \/ job' = [job EXCEPT !.left = @ \ {k}]
    BY DEF CandidateWrite, Done
  <2>3. [job EXCEPT !.left = @ \ {k}].task = job.task /\ [job EXCEPT !.left = @ \ {k}].on = job.on
    BY <2>1
  <2>4. Idle.task = "none"
    BY DEF Idle
  <2>5. c \in Candidates
    BY <2>1 DEF Candidates
  <2>6. UNCHANGED exper
    BY DEF CandidateWrite, chainVars
  <2>7. job'.task = "none" \/ (job'.task = "candidates" /\ job'.on = job.on)
    BY <2>1, <2>2, <2>3, <2>4
  <2>. QED
    BY <2>1, <2>5, <2>6, <2>7
<1>2. CASE UNCHANGED candidateVars
  BY <1>1, <1>2, Unseen, LinkKept DEF candidateVars, ChainInv
<1>3. CASE CreateCandidate(c)
  <2>1. UNCHANGED expRow
    BY <1>3 DEF CreateCandidate
  <2>2. \A d \in Known(cand') : d \in Known(cand) \/ d[1] \in expRow
    BY <1>1, <1>3, CreateKnown DEF ChainInv
  <2>3. LinkInv'
    BY <1>1, <2>1, <2>2, LinkKept DEF ChainInv
  <2>. QED
    BY <1>1, <1>3, <2>3 DEF CandidateNext
<1>. QED
  BY <1>2, <1>3 DEF CandidateWrite

LEMMA PersonLink ==
  ASSUME ChainInv, Review \/ \E c \in Candidates : Promote(c)
  PROVE  CandidateNext /\ LinkInv'
<1>1. UNCHANGED <<chainVars, job>>
  BY DEF Review, Promote
<1>2. ASSUME NEW c \in Candidates, NEW d \in Decisions, Get(c) \/ List \/ Decide(c, d)
      PROVE  CandidateNext /\ LinkInv'
  <2>1. UNCHANGED expRow
    BY <1>2 DEF Get, List, Decide
  <2>2. LinkInv'
    BY <1>1, <1>2, <2>1, KnownStays, LinkKept DEF ChainInv, LinkInv, chainVars
  <2>. QED
    BY <1>2, <2>2 DEF CandidateNext
<1>3. CASE List
  <2>1. UNCHANGED expRow /\ \A k \in Candidates : cand[k].status = "absent" => cand'[k].status = "absent"
    BY <1>3 DEF List, ExpireAll, Expire, Overdue, RolledBack
  <2>2. LinkInv'
    BY <1>1, <2>1, LinkKept DEF ChainInv, LinkInv, chainVars, Known
  <2>. QED
    BY <1>3, <2>2 DEF CandidateNext
<1>. QED
  BY <1>2, <1>3 DEF Review, Promote, Decisions

LEMMA RestartLink ==
  ASSUME ChainInv, Restart
  PROVE  CandidateNext /\ LinkInv'
<1>1. CandidateRestart /\ UNCHANGED exper /\ job' = Idle
  BY DEF Restart
<1>2. \A c \in Known(cand') : c[1] \in expRow
  BY <1>1 DEF CandidateRestart, Known, ChainInv, IInv, HasParent, NoCandidate
<1>3. LinkInv'
  BY <1>1, <1>2, LinkKept DEF CandidateRestart, ChainInv, LinkInv, Idle
<1>. QED
  BY <1>1, <1>3 DEF CandidateNext

LEMMA OtherLink ==
  ASSUME ChainInv, Tick \/ (\E c \in Candidates : ApplyNote(c)) \/ UNCHANGED vars
  PROVE  [CandidateNext]_candidateVars /\ LinkInv'
<1>1. UNCHANGED <<chainVars, job, cand, expRow>>
  BY DEF Tick, CandidateTick, ApplyNote, vars, candidateVars
<1>2. LinkInv'
  BY <1>1, LinkKept DEF ChainInv, LinkInv, chainVars
<1>. QED
  BY <1>2 DEF Tick, ApplyNote, vars, CandidateNext

\* Every step of the chain is a step that the candidate store allows, or none of its.
LEMMA StepRefines ==
  ASSUME ChainInv, [Next]_vars
  PROVE  [CandidateNext]_candidateVars /\ LinkInv'
<1>1. CASE \E e \in Execs, r \in Reviews, ok \in BOOLEAN : CreateExecution(e, r, ok)
  BY <1>1, CreateExecutionLink
<1>2. CASE \E e \in Execs, ok \in BOOLEAN : ExecutionStep(e, ok)
  BY <1>2, ExecutionStepLink
<1>3. CASE \/ \E e \in Execs : VerifyRead(e)
           \/ \E v \in Verifications : ConsolidateRead(v)
           \/ \E x \in Experiences : CandidatesRead(x)
  BY <1>3, ReadLink, Unseen
<1>4. CASE VerifyWrite
  BY <1>4, VerifyWriteLink
<1>5. CASE ConsolidateWrite
  BY <1>5, ConsolidateWriteLink
<1>6. CASE \E k \in Kinds : CandidateWrite(k)
  BY <1>6, CandidateWriteLink
<1>7. CASE Review \/ \E c \in Candidates : Promote(c)
  BY <1>7, PersonLink
<1>8. CASE Restart
  BY <1>8, RestartLink
<1>9. CASE Tick \/ (\E c \in Candidates : ApplyNote(c)) \/ UNCHANGED vars
  BY <1>9, OtherLink
<1>. QED
  BY <1>1, <1>2, <1>3, <1>4, <1>5, <1>6, <1>7, <1>8, <1>9 DEF Next

----------------------------------------------------------------------------
(* Theorems *)

LEMMA ChainInit == Init => ChainInv /\ CandidateInit
<1> SUFFICES ASSUME Init  PROVE ChainInv /\ CandidateInit
  OBVIOUS
<1>1. CandidateInit /\ IInv
  BY InvInit DEF Init
<1>2. LinkInv
  BY <1>1 DEF Init, CandidateInit, LinkInv, NoExperience, Known, NoCandidate, Idle
<1>. QED
  BY <1>1, <1>2 DEF ChainInv

LEMMA ChainNext == ChainInv /\ [Next]_vars => ChainInv' /\ [CandidateNext]_candidateVars
  BY StepRefines, InvNext DEF ChainInv

\* The store's invariant, and the links to its experiences, hold throughout the chain.
THEOREM ChainInvariant == Spec => []ChainInv
  BY ChainInit, ChainNext, PTL DEF Spec

\* The chain implements the candidate store: executions that are evicted, requests
\* overtaken by others, cascades and failures do nothing that the store does not expect.
THEOREM ChainImplementsStore == Spec => ImplementsCandidateStore
  BY ChainInit, ChainNext, ChainInvariant, PTL DEF Spec, ImplementsCandidateStore, CandidateSpec

\* So candidates survive a restart of the chain.
THEOREM ChainCandidatesAreDurable == Spec => []CandidatesAreDurable
  BY ChainImplementsStore, CandidatesAreDurableHolds, PTL DEF ImplementsCandidateStore

\* So a person's decision stands while the candidate exists.
THEOREM ChainDecisionIsFinal == Spec => DecisionIsFinal
  BY ChainImplementsStore, DecisionIsFinalHolds, PTL DEF ImplementsCandidateStore

\* What guides a plan is what a person approved last, also after an eviction, a second
\* life of the same candidate and another decision.
THEOREM GuidanceIsApprovedHolds == Spec => []GuidanceIsApproved
<1>1. ChainInv => GuidanceIsApproved
  BY DEF ChainInv, IInv, Acknowledged, GuidanceIsApproved, Guidance, Decisions
<1>. QED
  BY <1>1, ChainInvariant, PTL

----------------------------------------------------------------------------
(* Evidence and claims: the invariant *)

ExecutionType ==
  [status      : E!Active \cup E!Terminal \cup {"absent"},
   review      : Reviews \cup {None},
   steps       : [Steps -> E!StepStatus],
   current     : Steps \cup {None},
   completedAt : Nat,
   starts      : [Steps -> Nat]]

Proven(r) == Evidence(r) = "proven"

\* A step that is proven has completed; a record whose steps have all completed is
\* completed, and it is running while the others of them run.
Agrees(rec, res) ==
  rec.status # "absent" =>
    /\ \A s \in Steps : Proven(res[s]) => rec.steps[s] = "completed"
    /\ Steps # {} /\ (\A s \in Steps : rec.steps[s] \in {"completed", "running"}) =>
         rec.status = IF \A s \in Steps : rec.steps[s] = "completed" THEN "completed" ELSE "running"

\* The row is never ahead of a step's thread: the step is running in it.
Behind(e, s) ==
  /\ callers[e][s] > 0 =>
       /\ mem[e].status # "absent" => mem[e].steps[s] = "running"
       /\ db[e].status # "absent" => db[e].steps[s] = "running"
  /\ mem[e].status # "absent" /\ db[e].status # "absent" /\ Proven(result[e][s]) =>
       \/ db[e].steps[s] = "running"
       \/ db[e].steps[s] = "completed" /\ Proven(resultRow[e][s])

\* An id that was not issued has no record, no thread and no result.
Unissued(e) ==
  /\ mem[e].status = "absent" /\ db[e].status = "absent"
  /\ \A s \in Steps : callers[e][s] = 0 /\ ~Proven(result[e][s]) /\ ~Proven(resultRow[e][s])

Sound(e) ==
  /\ Agrees(mem[e], result[e]) /\ Agrees(db[e], resultRow[e])
  /\ \A s \in Steps : Behind(e, s)
  /\ e \notin used => Unissued(e)

ExecutionTypes ==
  /\ mem \in [Execs -> ExecutionType] /\ db \in [Execs -> ExecutionType]
  /\ result \in [Execs -> [Steps -> RawResult]] /\ resultRow \in [Execs -> [Steps -> RawResult]]
  /\ callers \in [Execs -> [Steps -> {0, 1}]]
  /\ used \in SUBSET Execs

ExecutionInv == ExecutionTypes /\ \A e \in Execs : Sound(e)

\* Every step is proven, or its last write was lost and it is running.
Standing(rec, res) ==
  rec.status # "absent" =>
    \A s \in Steps : rec.steps[s] = "running" \/ (rec.steps[s] = "completed" /\ Proven(res[s]))

\* What a success says of its execution, as long as there is a record or a row.
Holds(e) ==
  /\ Steps # {}
  /\ Standing(mem[e], result[e]) /\ Standing(db[e], resultRow[e])
  /\ mem[e].status # "absent" =>
       /\ \A s \in Steps : mem[e].steps[s] = "running" => callers[e][s] = 0
       /\ mem[e].status = "completed" \/ restarts > 0

\* The execution was there once, so no new one will bear its id.
Claim(e, evidence) == e \in used /\ (Outcome(evidence) = "succeeded" => Holds(e))

ClaimInv ==
  /\ verif \in [Verifications -> [exec : Execs \cup {None}, evidence : [Steps -> EvidenceKinds]]]
  /\ verMem \in SUBSET Verifications
  /\ \A v \in verMem : Claim(verif[v].exec, verif[v].evidence)
  /\ job.task = "verify" =>
       job.evidence \in [Steps -> EvidenceKinds] /\ Claim(job.on, job.evidence)

SuccessInv == ExecutionInv /\ ClaimInv /\ RowsHaveParents

----------------------------------------------------------------------------
(* Outcomes and records *)

LEMMA SucceededMeansProven ==
  ASSUME NEW evidence, Outcome(evidence) = "succeeded"
  PROVE  Steps # {} /\ \A s \in Steps : evidence[s] = "proven"
<1>1. {evidence[s] : s \in Steps} = {"proven"}
  BY DEF Outcome
<1>. QED
  BY <1>1

LEMMA EvidenceFacts ==
  ASSUME NEW r \in RawResult
  PROVE  Evidence(r) \in EvidenceKinds /\ (Proven(r) => r.success)
<1>1. Evidence(r) \in EvidenceKinds
  BY DEF Evidence, EvidenceKinds
<1>2. ~r.success => Evidence(r) # "proven"
  BY DEF Evidence
<1>. QED
  BY <1>1, <1>2 DEF Proven

LEMMA NothingProven == NoResult \in RawResult /\ ~Proven(NoResult)
  BY DEF NoResult, RawResult, Evidence, Proven

LEMMA StatusNames ==
  /\ {"pending_execution", "running", "completed", "failed"} \subseteq E!Active \cup E!Terminal
  /\ {"pending", "running", "completed", "failed", "skipped"} \subseteq E!StepStatus
  BY DEF E!Active, E!Terminal, E!StepStatus

LEMMA NewRecords ==
  ASSUME NEW r \in Reviews
  PROVE  E!NoRecord \in ExecutionType /\ E!NewRecord(r, {}) \in ExecutionType
  BY StatusNames DEF ExecutionType, E!NoRecord, E!NewRecord

----------------------------------------------------------------------------
(* Execution steps *)

\* The row of e is written with memory's record, or not.
RowWritten(e) ==
  \/ db' = db /\ resultRow' = resultRow
  \/ /\ db' = [db EXCEPT ![e] = mem'[e]]
     /\ resultRow' = [resultRow EXCEPT ![e] = result'[e]]

\* What a step of the execution e does to its record and its results.
Moved(e, rec) ==
  /\ rec \in ExecutionType /\ rec.status # "absent" /\ mem[e].status # "absent"
  /\ mem' = [mem EXCEPT ![e] = rec] /\ RowWritten(e)
  /\ UNCHANGED <<used, restarts>>
  /\ result' \in [Execs -> [Steps -> RawResult]] /\ callers' \in [Execs -> [Steps -> {0, 1}]]
  /\ \A f \in Execs : f # e => result'[f] = result[f] /\ callers'[f] = callers[f]

\* The rest of the invariant, for the steps of that execution.
GoodMove(e, rec) ==
  /\ Agrees(rec, result'[e])
  /\ \A s \in Steps : callers'[e][s] > 0 =>
       rec.steps[s] = "running" /\ (callers[e][s] > 0 \/ db'[e] = rec)
  /\ \A s \in Steps : Proven(result'[e][s]) => Proven(result[e][s]) \/ callers[e][s] > 0
  /\ Holds(e) => rec = mem[e] /\ result' = result /\ callers' = callers

\* What was said of an execution stays so: its record is as it was or gone, its row
\* too, or rewritten from memory.
Stays(e) ==
  /\ result'[e] = result[e] /\ callers'[e] = callers[e]
  /\ mem'[e] = mem[e] \/ mem'[e].status = "absent"
  /\ \/ db'[e] = db[e] /\ resultRow'[e] = resultRow[e]
     \/ db'[e] = mem[e] /\ resultRow'[e] = result[e]
     \/ db'[e].status = "absent"

LEMMA HoldsStays ==
  ASSUME NEW e, Stays(e), Holds(e), restarts' = restarts
  PROVE  Holds(e)'
<1>1. Standing(mem[e], result[e])' /\ Standing(db[e], resultRow[e])'
  BY DEF Stays, Holds, Standing
<1>. QED
  BY <1>1 DEF Stays, Holds

LEMMA Persisted ==
  ASSUME ExecutionTypes, NEW e \in Execs, NEW rec \in ExecutionType, NEW ok \in BOOLEAN,
         E!Update(e, rec, ok), Written(e, ok)
  PROVE  /\ mem' = [mem EXCEPT ![e] = rec] /\ RowWritten(e)
         /\ ok => db'[e] = rec
<1>1. mem' = [mem EXCEPT ![e] = rec] /\ mem'[e] = rec
  BY DEF E!Update, ExecutionTypes
<1>2. CASE ok
  <2>1. db' = [f \in Execs |-> IF f = e THEN rec ELSE IF f \in {} THEN E!NoRecord ELSE db[f]]
    BY <1>2 DEF E!Update, E!Persist
  <2>2. db' = [db EXCEPT ![e] = rec]
    BY <2>1 DEF ExecutionTypes
  <2>3. resultRow' = [resultRow EXCEPT ![e] = result'[e]]
    BY <1>2 DEF Written
  <2>. QED
    BY <1>1, <2>2, <2>3 DEF RowWritten, ExecutionTypes
<1>3. CASE ~ok
  BY <1>1, <1>3 DEF E!Update, E!Persist, Written, RowWritten
<1>. QED
  BY <1>2, <1>3

LEMMA MovedIsSound ==
  ASSUME ExecutionInv, NEW e \in Execs, NEW rec, Moved(e, rec), GoodMove(e, rec)
  PROVE  /\ ExecutionInv' /\ \A f \in Execs : Holds(f) => Stays(f)
         /\ \A f \in Execs : db[f].status # "absent" => db'[f].status # "absent"
<1>1. /\ mem' \in [Execs -> ExecutionType] /\ mem'[e] = rec
      /\ \A f \in Execs : f # e => mem'[f] = mem[f]
  BY DEF Moved, ExecutionInv, ExecutionTypes
<1>2. e \in used
  BY DEF Moved, ExecutionInv, Sound, Unissued
<1>3. /\ db' \in [Execs -> ExecutionType] /\ resultRow' \in [Execs -> [Steps -> RawResult]]
      /\ \A f \in Execs : f # e => db'[f] = db[f] /\ resultRow'[f] = resultRow[f]
      /\ \/ db'[e] = db[e] /\ resultRow'[e] = resultRow[e]
         \/ db'[e] = rec /\ resultRow'[e] = result'[e]
  <2>1. CASE db' = db /\ resultRow' = resultRow
    BY <2>1 DEF ExecutionInv, ExecutionTypes
  <2>2. CASE db' = [db EXCEPT ![e] = rec] /\ resultRow' = [resultRow EXCEPT ![e] = result'[e]]
    BY <2>2 DEF Moved, ExecutionInv, ExecutionTypes
  <2>. QED
    BY <1>1, <2>1, <2>2 DEF Moved, RowWritten
<1>4. ExecutionTypes'
  BY <1>1, <1>3 DEF Moved, ExecutionInv, ExecutionTypes
<1>5. Sound(e)'
  <2>1. Agrees(mem[e], result[e])' /\ Agrees(db[e], resultRow[e])'
    <3>1. Agrees(rec, result'[e]) /\ Agrees(db[e], resultRow[e])
      BY DEF GoodMove, ExecutionInv, Sound
    <3>. QED
      BY <1>1, <1>3, <3>1
  <2>2. ASSUME NEW s \in Steps  PROVE Behind(e, s)'
    <3>1. Behind(e, s) /\ mem[e].status # "absent"
      BY DEF ExecutionInv, Sound, Moved
    <3>2. /\ callers'[e][s] > 0 => rec.steps[s] = "running" /\ (callers[e][s] > 0 \/ db'[e] = rec)
          /\ Proven(result'[e][s]) => Proven(result[e][s]) \/ callers[e][s] > 0
          /\ Proven(result'[e][s]) => rec.steps[s] = "completed"
      BY DEF GoodMove, Agrees, Moved
    <3>3. CASE db'[e] = db[e] /\ resultRow'[e] = resultRow[e]
      BY <1>1, <3>1, <3>2, <3>3 DEF Behind
    <3>4. CASE db'[e] = rec /\ resultRow'[e] = result'[e]
      BY <1>1, <3>2, <3>4 DEF Behind
    <3>. QED
      BY <1>3, <3>3, <3>4
  <2>. QED
    BY <1>2, <2>1, <2>2 DEF Sound, Moved
<1>6. ASSUME NEW f \in Execs, f # e  PROVE Sound(f)' /\ Stays(f)
  <2>1. /\ mem'[f] = mem[f] /\ db'[f] = db[f] /\ resultRow'[f] = resultRow[f]
        /\ result'[f] = result[f] /\ callers'[f] = callers[f] /\ used' = used
    BY <1>1, <1>3, <1>6 DEF Moved
  <2>2. Sound(f)'
    BY <2>1 DEF ExecutionInv, Sound, Behind, Unissued
  <2>. QED
    BY <2>1, <2>2 DEF Stays
<1>7. Holds(e) => Stays(e)
  <2> SUFFICES ASSUME Holds(e)  PROVE Stays(e)
    OBVIOUS
  <2>1. rec = mem[e] /\ result' = result /\ callers' = callers
    BY DEF GoodMove
  <2>. QED
    BY <1>1, <1>3, <2>1 DEF Stays
<1>8. \A f \in Execs : db[f].status # "absent" => db'[f].status # "absent"
  BY <1>3 DEF Moved
<1>. QED
  BY <1>4, <1>5, <1>6, <1>7, <1>8 DEF ExecutionInv

\* No operation but an audit event moves an execution that a success speaks of.
LEMMA HeldIsAtRest ==
  ASSUME ExecutionInv, NEW e \in Execs, mem[e].status # "absent", Holds(e)
  PROVE  /\ \A s \in Steps : mem[e].steps[s] \in {"completed", "running"}
         /\ \A s \in Steps : mem[e].steps[s] = "running" => callers[e][s] = 0
         /\ mem[e].status # "failed"
         /\ mem[e].status \in E!Active => E!Busy(mem[e])
<1>1. /\ \A s \in Steps : mem[e].steps[s] \in {"completed", "running"}
      /\ \A s \in Steps : mem[e].steps[s] = "running" => callers[e][s] = 0
  BY DEF Holds, Standing
<1>2. mem[e].status = IF \A s \in Steps : mem[e].steps[s] = "completed" THEN "completed" ELSE "running"
  BY <1>1 DEF ExecutionInv, Sound, Agrees, Holds
<1>3. mem[e].status \in E!Active => E!Busy(mem[e])
  BY <1>1, <1>2 DEF E!Active, E!Busy
<1>. QED
  BY <1>1, <1>2, <1>3

\* A step whose results stay as they are.
LEMMA ResultsStay ==
  ASSUME ExecutionInv, NEW e \in Execs, NEW rec \in ExecutionType, NEW ok \in BOOLEAN,
         mem[e].status # "absent", rec.status # "absent", E!Update(e, rec, ok), Written(e, ok),
         UNCHANGED <<used, restarts, result, callers>>,
         \A s \in Steps : mem[e].steps[s] \in {"completed", "running"} => rec.steps[s] = mem[e].steps[s],
         Agrees(rec, result[e]), Holds(e) => rec = mem[e]
  PROVE  Moved(e, rec) /\ GoodMove(e, rec)
<1>1. mem' = [mem EXCEPT ![e] = rec] /\ RowWritten(e)
  BY Persisted DEF ExecutionInv
<1>2. Moved(e, rec)
  BY <1>1 DEF Moved, ExecutionInv, ExecutionTypes
<1>3. \A s \in Steps : callers[e][s] > 0 => mem[e].steps[s] = "running"
  BY DEF ExecutionInv, Sound, Behind
<1>. QED
  BY <1>2, <1>3 DEF GoodMove

LEMMA EventMoves ==
  ASSUME ExecutionInv, NEW e \in Execs, NEW ok \in BOOLEAN, E!AppendEvent(e, ok), Written(e, ok),
         UNCHANGED <<result, performed>>
  PROVE  \E rec : Moved(e, rec) /\ GoodMove(e, rec)
<1>1. mem[e] \in ExecutionType /\ mem[e].status # "absent" /\ Agrees(mem[e], result[e])
  BY DEF E!AppendEvent, E!Live, ExecutionInv, ExecutionTypes, Sound
<1>2. E!Update(e, mem[e], ok) /\ UNCHANGED <<used, restarts, callers>>
  BY DEF E!AppendEvent
<1>3. Moved(e, mem[e]) /\ GoodMove(e, mem[e])
  BY <1>1, <1>2, ResultsStay
<1>. QED
  BY <1>3

LEMMA FailMoves ==
  ASSUME ExecutionInv, NEW e \in Execs, NEW ok \in BOOLEAN, E!FailRuntime(e, ok), Written(e, ok),
         UNCHANGED <<result, performed>>
  PROVE  \E rec : Moved(e, rec) /\ GoodMove(e, rec)
<1> DEFINE rec == E!AfterFailure(mem[e])
<1>1. /\ mem[e] \in ExecutionType /\ mem[e].status \in E!Active /\ ~E!Busy(mem[e])
      /\ mem[e].status \notin {"absent", "completed"} /\ Agrees(mem[e], result[e])
  BY DEF E!FailRuntime, E!Active, ExecutionInv, ExecutionTypes, Sound
<1>2. rec \in ExecutionType /\ rec.steps = mem[e].steps /\ rec.status = "failed"
  BY <1>1, StatusNames DEF ExecutionType, E!AfterFailure
<1>3. E!Update(e, rec, ok) /\ UNCHANGED <<used, restarts, callers>>
  BY DEF E!FailRuntime
<1>. HIDE DEF rec
<1>4. ~Holds(e)
  BY <1>1, HeldIsAtRest
<1>5. Steps # {} => \E s \in Steps : mem[e].steps[s] \notin {"completed", "running"}
  BY <1>1 DEF E!Busy, Agrees
<1>6. Agrees(rec, result[e])
  BY <1>1, <1>2, <1>5 DEF Agrees
<1>7. Moved(e, rec) /\ GoodMove(e, rec)
  BY <1>1, <1>2, <1>3, <1>4, <1>6, ResultsStay
<1>. QED
  BY <1>7

LEMMA SkipMoves ==
  ASSUME ExecutionInv, NEW e \in Execs, NEW s \in Steps, NEW ok \in BOOLEAN,
         E!SkipFailedStep(e, s, ok), Written(e, ok), UNCHANGED <<result, performed>>
  PROVE  \E rec : Moved(e, rec) /\ GoodMove(e, rec)
<1> DEFINE new == [mem[e] EXCEPT !.steps[s] = "skipped"]
           rec == E!AfterStep(new)
<1>1. /\ mem[e] \in ExecutionType /\ mem[e].status = "failed" /\ mem[e].steps[s] = "failed"
      /\ Agrees(mem[e], result[e])
  BY DEF E!SkipFailedStep, ExecutionInv, ExecutionTypes, Sound
<1>2. new \in ExecutionType /\ new.steps[s] = "skipped" /\ \A q \in Steps : q # s => new.steps[q] = mem[e].steps[q]
  BY <1>1, StatusNames DEF ExecutionType
<1>3. E!Update(e, rec, ok) /\ UNCHANGED <<used, restarts, callers>>
  BY DEF E!SkipFailedStep
<1>. HIDE DEF new
<1>4. rec \in ExecutionType /\ rec.steps = new.steps /\ rec.status # "absent"
  BY <1>2, StatusNames DEF ExecutionType, E!AfterStep
<1>. HIDE DEF rec
<1>5. ~Holds(e)
  BY <1>1, HeldIsAtRest
<1>6. Agrees(rec, result[e])
  BY <1>1, <1>2, <1>4 DEF Agrees
<1>7. Moved(e, rec) /\ GoodMove(e, rec)
  BY <1>1, <1>2, <1>3, <1>4, <1>5, <1>6, ResultsStay
<1>. QED
  BY <1>7

LEMMA StartMoves ==
  ASSUME ExecutionInv, NEW e \in Execs, NEW s \in Steps, NEW ok \in BOOLEAN,
         E!StartStep(e, s, ok), Written(e, ok), UNCHANGED <<result, performed>>
  PROVE  \E rec : Moved(e, rec) /\ GoodMove(e, rec)
<1> DEFINE rec == [mem[e] EXCEPT !.status = "running", !.current = s, !.steps[s] = "running",
                                 !.starts[s] = @ + 1]
<1>1. /\ mem[e] \in ExecutionType /\ mem[e].status # "absent" /\ mem[e].steps[s] = "pending"
      /\ Agrees(mem[e], result[e]) /\ callers[e] \in [Steps -> {0, 1}] /\ mem[e].starts[s] + 1 \in Nat
  BY DEF E!StartStep, E!CanStart, E!Active, ExecutionInv, ExecutionTypes, Sound, ExecutionType
<1>2. /\ rec \in ExecutionType /\ rec.status = "running"
      /\ rec.steps[s] = "running" /\ \A q \in Steps : q # s => rec.steps[q] = mem[e].steps[q]
  BY <1>1, StatusNames DEF ExecutionType
<1>3. /\ E!Update(e, rec, ok) /\ UNCHANGED <<used, restarts>>
      /\ callers' = IF ok THEN [callers EXCEPT ![e][s] = @ + 1] ELSE callers
  BY DEF E!StartStep
<1>. HIDE DEF rec
<1>4. \A q \in Steps : callers[e][q] > 0 => mem[e].steps[q] = "running"
  BY <1>1 DEF ExecutionInv, Sound, Behind
<1>5. callers[e][s] = 0
  BY <1>1, <1>4
<1>6. /\ callers' \in [Execs -> [Steps -> {0, 1}]] /\ \A f \in Execs : f # e => callers'[f] = callers[f]
      /\ \A q \in Steps : q # s => callers'[e][q] = callers[e][q]
      /\ callers'[e][s] > 0 => ok
  BY <1>1, <1>3, <1>5 DEF ExecutionInv, ExecutionTypes
<1>7. /\ mem' = [mem EXCEPT ![e] = rec] /\ RowWritten(e) /\ (ok => db'[e] = rec)
  BY <1>2, <1>3, Persisted DEF ExecutionInv
<1>8. ~Holds(e)
  BY <1>1, HeldIsAtRest
<1>9. Agrees(rec, result'[e])
  BY <1>1, <1>2 DEF Agrees
<1>10. Moved(e, rec)
  BY <1>1, <1>2, <1>3, <1>6, <1>7 DEF Moved, ExecutionInv, ExecutionTypes
<1>11. \A q \in Steps : callers'[e][q] > 0 =>
         rec.steps[q] = "running" /\ (callers[e][q] > 0 \/ db'[e] = rec)
  BY <1>1, <1>2, <1>4, <1>6, <1>7
<1>12. GoodMove(e, rec)
  BY <1>8, <1>9, <1>11 DEF GoodMove
<1>. QED
  BY <1>10, <1>12

LEMMA RetryMoves ==
  ASSUME ExecutionInv, NEW e \in Execs, NEW s \in Steps, NEW ok \in BOOLEAN,
         Retry(e, s, ok), Written(e, ok)
  PROVE  \E rec : Moved(e, rec) /\ GoodMove(e, rec)
<1> DEFINE rec == [mem[e] EXCEPT !.status = "running", !.current = None, !.completedAt = 0,
                                 !.steps[s] = "pending"]
<1>1. /\ mem[e] \in ExecutionType /\ mem[e].status = "failed" /\ mem[e].steps[s] = "failed"
      /\ Agrees(mem[e], result[e])
  BY DEF Retry, E!RetryStep, ExecutionInv, ExecutionTypes, Sound
<1>2. /\ rec \in ExecutionType /\ rec.status = "running"
      /\ rec.steps[s] = "pending" /\ \A q \in Steps : q # s => rec.steps[q] = mem[e].steps[q]
  BY <1>1, StatusNames DEF ExecutionType
<1>3. /\ E!Update(e, rec, ok) /\ UNCHANGED <<used, restarts, callers>>
      /\ result' = [result EXCEPT ![e][s] = NoResult]
  BY DEF Retry, E!RetryStep
<1>. HIDE DEF rec
<1>4. /\ result' \in [Execs -> [Steps -> RawResult]]
      /\ result'[e][s] = NoResult /\ \A q \in Steps : q # s => result'[e][q] = result[e][q]
      /\ \A f \in Execs : f # e => result'[f] = result[f]
  BY <1>3, NothingProven DEF ExecutionInv, ExecutionTypes
<1>5. mem' = [mem EXCEPT ![e] = rec] /\ RowWritten(e)
  BY <1>2, <1>3, Persisted DEF ExecutionInv
<1>6. Moved(e, rec)
  BY <1>1, <1>2, <1>3, <1>4, <1>5 DEF Moved, ExecutionInv, ExecutionTypes
<1>7. ~Holds(e)
  BY <1>1, HeldIsAtRest
<1>8. \A q \in Steps : Proven(result'[e][q]) => q # s /\ Proven(result[e][q])
  BY <1>4, NothingProven
<1>9. Agrees(rec, result'[e])
  BY <1>1, <1>2, <1>8 DEF Agrees
<1>10. \A q \in Steps : callers[e][q] > 0 => rec.steps[q] = "running"
  BY <1>1, <1>2 DEF ExecutionInv, Sound, Behind
<1>11. GoodMove(e, rec)
  BY <1>3, <1>7, <1>8, <1>9, <1>10 DEF GoodMove
<1>. QED
  BY <1>6, <1>11

LEMMA FinishMoves ==
  ASSUME ExecutionInv, NEW e \in Execs, NEW s \in Steps, NEW r \in RawResult, NEW ok \in BOOLEAN,
         Finish(e, s, r, ok), Written(e, ok)
  PROVE  \E rec : Moved(e, rec) /\ GoodMove(e, rec)
<1> DEFINE new == [mem[e] EXCEPT !.steps[s] = IF r.success THEN "completed" ELSE "failed"]
           rec == IF r.success THEN E!AfterStep([mem[e] EXCEPT !.steps[s] = "completed"])
                  ELSE E!AfterFailure([mem[e] EXCEPT !.steps[s] = "failed"])
<1>1. /\ mem[e] \in ExecutionType /\ mem[e].status # "absent" /\ mem[e].steps[s] = "running"
      /\ callers[e][s] = 1 /\ Agrees(mem[e], result[e])
  BY DEF Finish, E!FinishStep, E!Live, ExecutionInv, ExecutionTypes, Sound
<1>2. /\ new \in ExecutionType /\ new.steps[s] = (IF r.success THEN "completed" ELSE "failed")
      /\ \A q \in Steps : q # s => new.steps[q] = mem[e].steps[q]
  BY <1>1, StatusNames DEF ExecutionType
<1>3. rec = IF r.success THEN E!AfterStep(new) ELSE E!AfterFailure(new)
  OBVIOUS
<1>4. /\ E!Update(e, rec, ok) /\ UNCHANGED <<used, restarts>>
      /\ result' = [result EXCEPT ![e][s] = r] /\ callers' = [callers EXCEPT ![e][s] = @ - 1]
  BY DEF Finish, E!FinishStep
<1>. HIDE DEF new, rec
<1>5. /\ rec \in ExecutionType /\ rec.steps = new.steps
      /\ rec.status = IF ~r.success THEN "failed"
                      ELSE IF \A q \in Steps : new.steps[q] \in {"completed", "skipped"}
                           THEN "completed" ELSE "running"
  BY <1>2, <1>3, StatusNames DEF ExecutionType, E!AfterStep, E!AfterFailure, E!Settled
<1>6. /\ result' \in [Execs -> [Steps -> RawResult]]
      /\ result'[e][s] = r /\ \A q \in Steps : q # s => result'[e][q] = result[e][q]
      /\ \A f \in Execs : f # e => result'[f] = result[f]
  BY <1>4 DEF ExecutionInv, ExecutionTypes
<1>7. /\ callers' \in [Execs -> [Steps -> {0, 1}]]
      /\ callers'[e][s] = 0 /\ \A q \in Steps : q # s => callers'[e][q] = callers[e][q]
      /\ \A f \in Execs : f # e => callers'[f] = callers[f]
  BY <1>1, <1>4 DEF ExecutionInv, ExecutionTypes
<1>8. mem' = [mem EXCEPT ![e] = rec] /\ RowWritten(e)
  BY <1>4, <1>5, Persisted DEF ExecutionInv
<1>9. Moved(e, rec)
  BY <1>1, <1>4, <1>5, <1>6, <1>7, <1>8 DEF Moved
<1>10. ~Holds(e)
  BY <1>1, HeldIsAtRest
<1>11. Proven(r) => r.success
  BY EvidenceFacts
<1>12. Agrees(rec, result'[e])
  <2>1. \A q \in Steps : Proven(result'[e][q]) => rec.steps[q] = "completed"
    BY <1>1, <1>2, <1>5, <1>6, <1>11 DEF Agrees
  <2>2. ASSUME Steps # {}, \A q \in Steps : rec.steps[q] \in {"completed", "running"}
        PROVE  rec.status = IF \A q \in Steps : rec.steps[q] = "completed" THEN "completed" ELSE "running"
    <3>1. r.success
      BY <1>2, <1>5, <2>2
    <3>. QED
      BY <1>5, <2>2, <3>1
  <2>. QED
    BY <2>1, <2>2 DEF Agrees
<1>13. \A q \in Steps : callers'[e][q] > 0 => q # s /\ callers[e][q] > 0 /\ rec.steps[q] = "running"
  BY <1>1, <1>2, <1>5, <1>7 DEF ExecutionInv, Sound, Behind
<1>14. \A q \in Steps : Proven(result'[e][q]) => Proven(result[e][q]) \/ callers[e][q] > 0
  BY <1>1, <1>6
<1>15. GoodMove(e, rec)
  BY <1>10, <1>12, <1>13, <1>14 DEF GoodMove
<1>. QED
  BY <1>9, <1>15

----------------------------------------------------------------------------
(* The steps of the chain keep the claims *)

\* Claims are kept when what was said of an execution stays.
LEMMA ClaimsKept ==
  ASSUME ClaimInv, used \subseteq used', \A e \in used : Holds(e) => Holds(e)',
         UNCHANGED verif, verMem' \in SUBSET verMem, job' = job \/ job'.task # "verify"
  PROVE  ClaimInv'
<1>1. \A v \in verMem' : Claim(verif[v].exec, verif[v].evidence)'
  BY DEF ClaimInv, Claim
<1>2. job'.task = "verify" =>
        job'.evidence \in [Steps -> EvidenceKinds] /\ Claim(job.on, job.evidence)'
  <2> SUFFICES ASSUME job' = job, job.task = "verify"
               PROVE  job'.evidence \in [Steps -> EvidenceKinds] /\ Claim(job.on, job.evidence)'
    OBVIOUS
  <2>1. job.on \in used /\ (Outcome(job.evidence) = "succeeded" => Holds(job.on))
    BY DEF ClaimInv, Claim
  <2>. QED
    BY <2>1 DEF ClaimInv, Claim
<1>. QED
  BY <1>1, <1>2 DEF ClaimInv

\* Steps beside the executions.
LEMMA ExecutionsKept ==
  ASSUME ExecutionInv, UNCHANGED <<mem, db, used, callers, result, resultRow, restarts>>
  PROVE  ExecutionInv' /\ used \subseteq used' /\ \A e \in used : Holds(e) => Holds(e)'
<1>1. ExecutionInv'
  BY DEF ExecutionInv, ExecutionTypes, Sound, Behind, Unissued
<1>2. \A e \in used : Holds(e) => Holds(e)'
  BY DEF Holds
<1>. QED
  BY <1>1, <1>2

LEMMA CreateExecutionClaims ==
  ASSUME SuccessInv, NEW e \in Execs, NEW r \in Reviews, NEW ok \in BOOLEAN,
         CreateExecution(e, r, ok)
  PROVE  SuccessInv'
<1>1. ExecutionInv /\ ClaimInv /\ RowsHaveParents
  BY DEF SuccessInv
<1>2. /\ E!Create(e, r, {}, ok)
      /\ UNCHANGED <<result, resultRow, callers, restarts>> /\ used' = used \cup {e} /\ e \notin used
  BY DEF CreateExecution, E!Create
<1> DEFINE new == E!NewRecord(r, {})
<1>3. PICK gone : /\ mem' = [f \in Execs |-> IF f = e THEN new
                                             ELSE IF f \in gone THEN E!NoRecord ELSE mem[f]]
                  /\ E!Persist(e, new, gone, ok)
  BY <1>2 DEF E!Create
<1>4. \/ db' = db
      \/ db' = [f \in Execs |-> IF f = e THEN new ELSE IF f \in gone THEN E!NoRecord ELSE db[f]]
  BY <1>3 DEF E!Persist
<1>5. /\ new \in ExecutionType /\ E!NoRecord \in ExecutionType /\ E!NoRecord.status = "absent"
      /\ new.status = "pending_execution" /\ \A s \in Steps : new.steps[s] = "pending"
  BY NewRecords DEF E!NewRecord, E!NoRecord
<1> HIDE DEF new
<1>6. /\ mem' \in [Execs -> ExecutionType] /\ mem'[e] = new
      /\ \A f \in Execs : f # e => mem'[f] = mem[f] \/ mem'[f].status = "absent"
  BY <1>1, <1>3, <1>5 DEF ExecutionInv, ExecutionTypes
<1>7. /\ db' \in [Execs -> ExecutionType] /\ (db'[e] = new \/ db'[e] = db[e])
      /\ \A f \in Execs : f # e => db'[f] = db[f] \/ db'[f].status = "absent"
  BY <1>1, <1>4, <1>5 DEF ExecutionInv, ExecutionTypes
<1>8. ExecutionTypes'
  BY <1>1, <1>2, <1>6, <1>7 DEF ExecutionInv, ExecutionTypes
<1>9. ASSUME NEW f \in Execs  PROVE Sound(f)'
  <2>1. Sound(f)
    BY <1>1 DEF ExecutionInv
  <2>2. CASE f = e
    <3>1. Unissued(e)
      BY <1>2, <2>1, <2>2 DEF Sound
    <3>2. Agrees(new, result[e]) /\ Agrees(new, resultRow[e])
      BY <1>5, <3>1 DEF Agrees, Unissued
    <3>3. db'[e] = new \/ db'[e].status = "absent"
      BY <1>7, <3>1 DEF Unissued
    <3>4. Agrees(mem[e], result[e])' /\ Agrees(db[e], resultRow[e])'
      BY <1>2, <1>6, <3>2, <3>3 DEF Agrees
    <3>5. \A s \in Steps : Behind(e, s)'
      BY <1>2, <3>1 DEF Behind, Unissued
    <3>. QED
      BY <1>2, <2>2, <3>4, <3>5 DEF Sound
  <2>3. CASE f # e
    <3>1. /\ mem'[f] = mem[f] \/ mem'[f].status = "absent"
          /\ db'[f] = db[f] \/ db'[f].status = "absent"
      BY <1>6, <1>7, <2>3
    <3>2. Agrees(mem[f], result[f])' /\ Agrees(db[f], resultRow[f])'
      BY <1>2, <2>1, <3>1 DEF Agrees, Sound
    <3>3. \A s \in Steps : Behind(f, s)'
      BY <1>2, <2>1, <3>1 DEF Behind, Sound
    <3>4. f \notin used' => Unissued(f)'
      BY <1>2, <2>1, <3>1 DEF Unissued, Sound
    <3>. QED
      BY <3>2, <3>3, <3>4 DEF Sound
  <2>. QED
    BY <2>2, <2>3
<1>10. ExecutionInv'
  BY <1>8, <1>9 DEF ExecutionInv
<1>11. \A f \in used : Stays(f)
  BY <1>1, <1>2, <1>6, <1>7 DEF Stays, ExecutionInv, ExecutionTypes
<1>12. \A f \in used : Holds(f) => Holds(f)'
  BY <1>2, <1>11, HoldsStays
<1>13. UNCHANGED <<verif, verMem, exper, expMem, job>> /\ CascadeFrom(E!Live(db'))
  BY DEF CreateExecution
<1>14. ClaimInv'
  BY <1>1, <1>2, <1>12, <1>13, ClaimsKept
<1>15. RowsHaveParents'
  BY <1>1, <1>13 DEF RowsHaveParents, CascadeFrom
<1>. QED
  BY <1>10, <1>14, <1>15 DEF SuccessInv

LEMMA ExecutionStepClaims ==
  ASSUME SuccessInv, NEW e \in Execs, NEW ok \in BOOLEAN, ExecutionStep(e, ok)
  PROVE  SuccessInv'
<1>1. ExecutionInv /\ ClaimInv /\ RowsHaveParents
  BY DEF SuccessInv
<1>2. UNCHANGED <<chainVars, expRow, job>> /\ Written(e, ok)
  BY DEF ExecutionStep
<1>3. \E rec : Moved(e, rec) /\ GoodMove(e, rec)
  <2>1. CASE E!FailRuntime(e, ok) /\ UNCHANGED <<result, performed>>
    BY <1>1, <1>2, <2>1, FailMoves
  <2>2. CASE E!AppendEvent(e, ok) /\ UNCHANGED <<result, performed>>
    BY <1>1, <1>2, <2>2, EventMoves
  <2>3. CASE \E s \in Steps : E!StartStep(e, s, ok) /\ UNCHANGED <<result, performed>>
    BY <1>1, <1>2, <2>3, StartMoves
  <2>4. CASE \E s \in Steps : \E r \in Results : Finish(e, s, r, ok)
    BY <1>1, <1>2, <2>4, FinishMoves, ResultsAssumption
  <2>5. CASE \E s \in Steps : Retry(e, s, ok)
    BY <1>1, <1>2, <2>5, RetryMoves
  <2>6. CASE \E s \in Steps : E!SkipFailedStep(e, s, ok) /\ UNCHANGED <<result, performed>>
    BY <1>1, <1>2, <2>6, SkipMoves
  <2>. QED
    BY <2>1, <2>2, <2>3, <2>4, <2>5, <2>6 DEF ExecutionStep
<1>4. /\ ExecutionInv' /\ \A f \in Execs : Holds(f) => Stays(f)
      /\ \A f \in Execs : db[f].status # "absent" => db'[f].status # "absent"
  BY <1>1, <1>3, MovedIsSound
<1>5. UNCHANGED <<used, restarts>> /\ used \subseteq Execs
  BY <1>1, <1>3 DEF Moved, ExecutionInv, ExecutionTypes
<1>6. \A f \in used : Holds(f) => Holds(f)'
  BY <1>4, <1>5, HoldsStays
<1>7. ClaimInv'
  BY <1>1, <1>2, <1>5, <1>6, ClaimsKept DEF chainVars
<1>8. RowsHaveParents'
  BY <1>1, <1>2, <1>4 DEF RowsHaveParents, E!Live, chainVars
<1>. QED
  BY <1>4, <1>7, <1>8 DEF SuccessInv

LEMMA VerifyReadClaims ==
  ASSUME SuccessInv, NEW e \in Execs, VerifyRead(e)
  PROVE  SuccessInv'
<1>1. ExecutionInv /\ ClaimInv /\ RowsHaveParents
  BY DEF SuccessInv
<1>2. UNCHANGED <<mem, db, used, callers, result, resultRow, restarts, verif, verMem, verRow,
                  exper, expMem, expRow>>
  BY DEF VerifyRead, execVars, chainVars, candidateVars
<1>3. mem[e].status # "absent" /\ Sound(e)
  BY <1>1 DEF VerifyRead, Verifiable, E!Live, ExecutionInv
<1>4. e \in used
  BY <1>3 DEF Sound, Unissued
<1> DEFINE evidence == [s \in Steps |-> Evidence(result[e][s])]
<1>5. job'.on = e /\ job'.evidence = evidence
  BY DEF VerifyRead, Idle
<1>6. evidence \in [Steps -> EvidenceKinds]
  BY <1>1, EvidenceFacts DEF ExecutionInv, ExecutionTypes
<1>7. Outcome(evidence) = "succeeded" => Steps # {} /\ \A s \in Steps : Proven(result[e][s])
  BY SucceededMeansProven DEF Proven
<1>. HIDE DEF evidence
<1>8. Outcome(evidence) = "succeeded" => Holds(e)
  <2> SUFFICES ASSUME Steps # {}, \A s \in Steps : Proven(result[e][s])  PROVE Holds(e)
    BY <1>7
  <2>1. /\ \A s \in Steps : mem[e].steps[s] = "completed"
        /\ mem[e].status = "completed"
    BY <1>3 DEF Sound, Agrees
  <2>2. Standing(db[e], resultRow[e])
    BY <1>3 DEF Sound, Behind, Standing
  <2>. QED
    BY <2>1, <2>2 DEF Holds, Standing
<1>9. ExecutionInv' /\ used \subseteq used' /\ \A f \in used : Holds(f) => Holds(f)'
  BY <1>1, <1>2, ExecutionsKept
<1>10. Claim(job.on, job.evidence)'
  BY <1>2, <1>4, <1>5, <1>8, <1>9 DEF Claim
<1>11. \A v \in verMem : Claim(verif[v].exec, verif[v].evidence)'
  BY <1>1, <1>2, <1>9 DEF ClaimInv, Claim
<1>12. ClaimInv'
  BY <1>1, <1>2, <1>5, <1>6, <1>10, <1>11 DEF ClaimInv
<1>13. RowsHaveParents'
  BY <1>1, <1>2 DEF RowsHaveParents
<1>. QED
  BY <1>9, <1>12, <1>13 DEF SuccessInv

LEMMA VerifyWriteClaims ==
  ASSUME SuccessInv, VerifyWrite
  PROVE  SuccessInv'
<1>1. ExecutionInv /\ ClaimInv /\ RowsHaveParents
  BY DEF SuccessInv
<1>2. /\ UNCHANGED <<mem, db, used, callers, result, resultRow, restarts>>
      /\ job.task = "verify" /\ job'.task = "none"
  BY DEF VerifyWrite, execVars, Idle
<1>3. ExecutionInv' /\ used \subseteq used' /\ \A e \in used : Holds(e) => Holds(e)'
  BY <1>1, <1>2, ExecutionsKept
<1>4. CASE UNCHANGED <<chainVars, expRow>>
  <2>1. ClaimInv'
    BY <1>1, <1>2, <1>3, <1>4, ClaimsKept DEF chainVars
  <2>2. RowsHaveParents'
    BY <1>1, <1>2, <1>4 DEF RowsHaveParents, chainVars
  <2>. QED
    BY <1>3, <2>1, <2>2 DEF SuccessInv
<1>5. ASSUME NEW v \in Verifications, job.on \in E!Live(db), InsertVerification(v)
      PROVE  SuccessInv'
  <2>1. Claim(job.on, job.evidence) /\ job.evidence \in [Steps -> EvidenceKinds]
    BY <1>1, <1>2 DEF ClaimInv
  <2>2. job.on \in Execs
    BY <1>5 DEF E!Live
  <2>3. /\ verif' \in [Verifications -> [exec : Execs \cup {None}, evidence : [Steps -> EvidenceKinds]]]
        /\ verif'[v].exec = job.on /\ verif'[v].evidence = job.evidence
        /\ \A w \in Verifications : w # v => verif'[w] = verif[w]
    BY <1>1, <1>5, <2>1, <2>2 DEF InsertVerification, ClaimInv
  <2>4. verMem' = (verMem \ Oldest(verMem, MaxVerifications)) \cup {v}
        /\ verRow' = (verRow \ Oldest(verMem, MaxVerifications)) \cup {v}
    BY <1>5 DEF InsertVerification
  <2>5. ASSUME NEW w \in verMem'  PROVE Claim(verif[w].exec, verif[w].evidence)'
    <3>1. CASE w = v
      BY <1>2, <1>3, <2>1, <2>3, <3>1 DEF Claim
    <3>2. CASE w # v
      <4>1. w \in verMem /\ verif'[w] = verif[w]
        BY <1>1, <2>3, <2>4, <3>2 DEF ClaimInv
      <4>. QED
        BY <1>1, <1>2, <1>3, <4>1 DEF ClaimInv, Claim
    <3>. QED
      BY <3>1, <3>2
  <2>6. ClaimInv'
    BY <1>1, <1>2, <2>3, <2>4, <2>5 DEF ClaimInv
  <2>7. \A w \in verRow' : verif'[w].exec \in E!Live(db')
    <3> SUFFICES ASSUME NEW w \in verRow'  PROVE verif'[w].exec \in E!Live(db)
      BY <1>2 DEF E!Live
    <3>1. CASE w = v
      BY <1>5, <2>3, <3>1
    <3>2. CASE w # v
      BY <1>1, <2>3, <2>4, <3>2 DEF RowsHaveParents, ClaimInv
    <3>. QED
      BY <3>1, <3>2
  <2>8. /\ expRow' = {x \in expRow : exper[x].verif \in verRow'}
        /\ UNCHANGED <<exper, expMem>>
    BY <1>5 DEF InsertVerification
  <2>9. RowsHaveParents'
    BY <1>1, <2>4, <2>7, <2>8 DEF RowsHaveParents
  <2>. QED
    BY <1>3, <2>6, <2>9 DEF SuccessInv
<1>. QED
  BY <1>4, <1>5 DEF VerifyWrite, StoreRolledBack, First

LEMMA ConsolidateWriteClaims ==
  ASSUME ChainInv, SuccessInv, ConsolidateWrite
  PROVE  SuccessInv'
<1>1. ExecutionInv /\ ClaimInv /\ RowsHaveParents
  BY DEF SuccessInv
<1>2. /\ UNCHANGED <<mem, db, used, callers, result, resultRow, restarts, verif, verMem, verRow>>
      /\ job'.task = "none"
  BY DEF ConsolidateWrite, execVars, Idle, StoreRolledBack, InsertExperience, chainVars
<1>3. ExecutionInv' /\ ClaimInv'
  BY <1>1, <1>2, ExecutionsKept, ClaimsKept
<1>4. CASE UNCHANGED <<chainVars, expRow>>
  BY <1>1, <1>2, <1>3, <1>4 DEF SuccessInv, RowsHaveParents, chainVars
<1>5. ASSUME NEW x \in Experiences, job.on \in verRow, InsertExperience(x)
      PROVE  SuccessInv'
  <2>1. exper'[x].verif = job.on /\ \A y \in Experiences : y # x => exper'[y] = exper[y]
    BY <1>5 DEF InsertExperience, ChainInv, LinkInv
  <2>2. expMem' = (expMem \ Oldest(expMem, MaxExperiences)) \cup {x}
        /\ expRow' = (expRow \ Oldest(expMem, MaxExperiences)) \cup {x}
    BY <1>5 DEF InsertExperience
  <2>3. expRow \subseteq Experiences
    BY DEF ChainInv, IInv, CandidateTypeOK
  <2>4. \A y \in expRow' : exper'[y].verif \in verRow
    BY <1>1, <1>5, <2>1, <2>2, <2>3 DEF RowsHaveParents
  <2>5. RowsHaveParents'
    BY <1>1, <1>2, <2>2, <2>4 DEF RowsHaveParents
  <2>. QED
    BY <1>3, <2>5 DEF SuccessInv
<1>. QED
  BY <1>4, <1>5 DEF ConsolidateWrite, StoreRolledBack, First

\* Requests that read, candidates, the person, the clock.
LEMMA OtherClaims ==
  ASSUME SuccessInv, UNCHANGED <<execVars, restarts, chainVars, expRow>>,
         job' = job \/ job'.task # "verify"
  PROVE  SuccessInv'
<1>1. ExecutionInv' /\ ClaimInv'
  BY ExecutionsKept, ClaimsKept DEF SuccessInv, chainVars, execVars
<1>2. RowsHaveParents'
  BY DEF SuccessInv, RowsHaveParents, E!Live, chainVars, execVars
<1>. QED
  BY <1>1, <1>2 DEF SuccessInv

LEMMA RestartClaims ==
  ASSUME ChainInv, SuccessInv, Restart
  PROVE  SuccessInv'
<1>1. /\ mem' = db /\ result' = resultRow /\ UNCHANGED <<db, used, resultRow, verif, verRow, exper, expRow>>
      /\ callers' = [e \in Execs |-> [s \in Steps |-> 0]]
      /\ verMem' = verRow /\ expMem' = expRow /\ job'.task = "none"
      /\ restarts' = restarts + 1
  BY DEF Restart, E!Restart, CandidateRestart, RestoreVerifications, RestoreExperiences, Idle
<1>2. restarts' > 0
  BY <1>1, CandidateBounds DEF ChainInv, IInv, CandidateTypeOK
<1>3. verRow \in SUBSET verMem
  BY DEF SuccessInv, RowsHaveParents
<1>4. ExecutionTypes'
  BY <1>1 DEF SuccessInv, ExecutionInv, ExecutionTypes
<1>5. ASSUME NEW e \in Execs  PROVE Sound(e)' /\ (Holds(e) => Holds(e)')
  <2>1. Sound(e) /\ \A s \in Steps : callers'[e][s] = 0
    BY <1>1 DEF SuccessInv, ExecutionInv
  <2>2. Agrees(mem[e], result[e])' /\ Agrees(db[e], resultRow[e])'
    BY <1>1, <2>1 DEF Sound
  <2>3. \A s \in Steps : Behind(e, s)'
    BY <1>1, <2>1 DEF Behind, Sound, Agrees
  <2>4. Sound(e)'
    BY <1>1, <2>1, <2>2, <2>3 DEF Sound, Unissued
  <2>5. Holds(e) => Holds(e)'
    BY <1>1, <1>2, <2>1 DEF Holds
  <2>. QED
    BY <2>4, <2>5
<1>6. ExecutionInv'
  BY <1>4, <1>5 DEF ExecutionInv
<1>7. ClaimInv'
  BY <1>1, <1>3, <1>5, ClaimsKept DEF SuccessInv, ExecutionInv, ExecutionTypes
<1>8. RowsHaveParents'
  BY <1>1 DEF SuccessInv, RowsHaveParents
<1>. QED
  BY <1>6, <1>7, <1>8 DEF SuccessInv

LEMMA SuccessNext ==
  ASSUME ChainInv, SuccessInv, [Next]_vars
  PROVE  SuccessInv'
<1>1. CASE \E e \in Execs, r \in Reviews, ok \in BOOLEAN : CreateExecution(e, r, ok)
  BY <1>1, CreateExecutionClaims
<1>2. CASE \E e \in Execs, ok \in BOOLEAN : ExecutionStep(e, ok)
  BY <1>2, ExecutionStepClaims
<1>3. CASE \E e \in Execs : VerifyRead(e)
  BY <1>3, VerifyReadClaims
<1>4. CASE VerifyWrite
  BY <1>4, VerifyWriteClaims
<1>5. CASE ConsolidateWrite
  BY <1>5, ConsolidateWriteClaims
<1>6. CASE \/ \E v \in Verifications : ConsolidateRead(v)
           \/ \E x \in Experiences : CandidatesRead(x)
  BY <1>6, OtherClaims DEF ConsolidateRead, CandidatesRead, Idle, execVars, candidateVars
<1>7. CASE \E k \in Kinds : CandidateWrite(k)
  <2>1. PICK k \in Kinds : CandidateWrite(k)
    BY <1>7
  <2>2. job.task = "candidates" /\ UNCHANGED <<execVars, chainVars>>
    BY <2>1 DEF CandidateWrite
  <2>3. UNCHANGED <<expRow, restarts>>
    BY <2>1 DEF CandidateWrite, CreateCandidate, candidateVars
  <2>4. job' = Idle \/ job' = [job EXCEPT !.left = @ \ {k}]
    BY <2>1 DEF CandidateWrite, Done
  <2>5. [job EXCEPT !.left = @ \ {k}].task = job.task /\ Idle.task = "none"
    BY <2>2 DEF Idle
  <2>6. job'.task # "verify"
    BY <2>2, <2>4, <2>5
  <2>. QED
    BY <2>2, <2>3, <2>6, OtherClaims DEF execVars
<1>8. CASE Review \/ (\E c \in Candidates : Promote(c) \/ ApplyNote(c)) \/ Tick \/ UNCHANGED vars
  <2>1. UNCHANGED <<execVars, restarts, chainVars, job, expRow>>
    BY <1>8 DEF Review, Promote, ApplyNote, Tick, vars, List, Decide, Get, CandidateTick, candidateVars
  <2>. QED
    BY <2>1, OtherClaims DEF execVars
<1>9. CASE Restart
  BY <1>9, RestartClaims
<1>. QED
  BY <1>1, <1>2, <1>3, <1>4, <1>5, <1>6, <1>7, <1>8, <1>9 DEF Next

LEMMA SuccessInit == Init => SuccessInv
<1> SUFFICES ASSUME Init  PROVE SuccessInv
  OBVIOUS
<1>1. E!NoRecord \in ExecutionType /\ E!NoRecord.status = "absent"
  BY StatusNames DEF ExecutionType, E!NoRecord
<1>2. /\ mem = [e \in Execs |-> E!NoRecord] /\ db = mem /\ used = {}
      /\ callers = [e \in Execs |-> [s \in Steps |-> 0]]
      /\ result = [e \in Execs |-> [s \in Steps |-> NoResult]] /\ resultRow = result
  BY DEF Init, E!Init
<1>3. \A e \in Execs : Unissued(e)
  BY <1>1, <1>2, NothingProven DEF Unissued
<1>4. ExecutionInv
  <2>1. ExecutionTypes
    BY <1>1, <1>2, NothingProven DEF ExecutionTypes
  <2>2. \A e \in Execs : Sound(e)
    BY <1>3 DEF Sound, Agrees, Behind, Unissued
  <2>. QED
    BY <2>1, <2>2 DEF ExecutionInv
<1>5. NoVerif \in [exec : Execs \cup {None}, evidence : [Steps -> EvidenceKinds]]
  BY DEF NoVerif, NoEvidence, EvidenceKinds
<1>6. ClaimInv
  BY <1>5 DEF Init, ClaimInv, Idle
<1>7. RowsHaveParents
  BY DEF Init, CandidateInit, RowsHaveParents
<1>. QED
  BY <1>4, <1>6, <1>7 DEF SuccessInv

----------------------------------------------------------------------------
(* Theorems about what the chain records *)

\* Proven steps, claims and rows, in every state of the chain.
THEOREM SuccessInvariant == Spec => []SuccessInv
<1>1. ChainInv /\ SuccessInv /\ [Next]_vars => SuccessInv'
  BY SuccessNext
<1>. QED
  BY SuccessInit, <1>1, ChainInvariant, PTL DEF Spec

\* A row is known to memory and has its parent's row, through evictions, cascades, failed
\* transactions and restarts.
THEOREM RowsHaveParentsHolds == Spec => []RowsHaveParents
<1>1. SuccessInv => RowsHaveParents
  BY DEF SuccessInv
<1>. QED
  BY <1>1, SuccessInvariant, PTL

\* A verification that says "succeeded" stays true of its execution as long as there is a
\* record: nothing fails, retries or skips a step of it, and if a restart took back the
\* last results, whose write had failed, no thread will ever run those steps again.
THEOREM SucceededIsTrueHolds == Spec => []SucceededIsTrue
<1>1. SuccessInv => SucceededIsTrue
  <2> SUFFICES ASSUME SuccessInv, NEW v \in verMem, verif[v].exec \in E!Live(mem),
                      Outcome(verif[v].evidence) = "succeeded"
               PROVE  LET e == verif[v].exec
                      IN /\ mem[e].status = "completed" \/ Interrupted(e)
                         /\ \A s \in Steps : mem[e].steps[s] = "completed" =>
                                              Evidence(result[e][s]) = "proven"
    BY DEF SucceededIsTrue
  <2> DEFINE e == verif[v].exec
  <2>1. e \in Execs /\ mem[e].status # "absent" /\ Sound(e) /\ Holds(e)
    BY DEF E!Live, SuccessInv, ExecutionInv, ClaimInv, Claim
  <2>. HIDE DEF e
  <2>2. \A s \in Steps : \/ mem[e].steps[s] = "running" /\ callers[e][s] = 0
                         \/ mem[e].steps[s] = "completed" /\ Proven(result[e][s])
    BY <2>1 DEF Holds, Standing
  <2>3. mem[e].status \in {"completed", "running"} /\ (mem[e].status = "completed" \/ restarts > 0)
    BY <2>1, <2>2 DEF Sound, Agrees, Holds
  <2>4. mem[e].status = "completed" \/ Interrupted(e)
    BY <2>2, <2>3 DEF Interrupted
  <2>5. \A s \in Steps : mem[e].steps[s] = "completed" => Evidence(result[e][s]) = "proven"
    BY <2>2 DEF Proven
  <2>. QED
    BY <2>4, <2>5 DEF e
<1>. QED
  BY <1>1, SuccessInvariant, PTL

=============================================================================
