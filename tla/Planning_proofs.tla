-------------------------- MODULE Planning_proofs --------------------------
(***************************************************************************)
(* Theorems about the review store, for every number of reviews, failed    *)
(* transactions and restarts; and about planning in front of it: that it   *)
(* uses the store as the store allows, and what its plans name and ask     *)
(* for, for every instruction and memory.                                  *)
(***************************************************************************)
EXTENDS Planning, FiniteSetTheorems, TLAPS

USE LimitAssumption, BoundAssumption

LEMMA NoReviewType == NoReview \in Review /\ NoReview.status = "absent" /\ NoReview.intact
  BY DEF NoReview, Review

LEMMA StatusNames ==
  /\ "pending_review" \notin Terminal /\ "absent" \notin Terminal
  /\ "approved" \in Terminal /\ "expired" \in Terminal
  /\ Decisions \subseteq Terminal
  BY DEF Terminal, Decisions

LEMMA NewReviewType ==
  ASSUME TypeOK, NEW ttl \in TTLs
  PROVE  /\ NewReview(ttl) \in Review /\ NewReview(ttl).status = "pending_review"
         /\ NewReview(ttl).intact
  BY DEF TypeOK, NewReview, Review

\* Every change of status also stamps the record.
LEMMA StampFacts ==
  ASSUME TypeOK, NEW rec \in Review, NEW st \in Terminal
  PROVE  /\ [rec EXCEPT !.status = st, !.updated = now] \in Review
         /\ [rec EXCEPT !.status = st, !.updated = now].status = st
         /\ [rec EXCEPT !.status = st, !.updated = now].intact = rec.intact
<1>1. now \in 0..MaxTime /\ st \in Terminal \cup {"pending_review", "absent"}
  BY DEF TypeOK
<1>2. QED
  BY <1>1 DEF Review

\* Expiry touches overdue pending reviews only.
LEMMA LapsedFacts ==
  ASSUME TypeOK, NEW rec \in Review
  PROVE  /\ Lapsed(rec) \in Review
         /\ \/ Lapsed(rec) = rec
            \/ /\ rec.status = "pending_review" /\ now >= rec.expires
               /\ Lapsed(rec).status = "expired"
         /\ Overdue(rec) => Lapsed(rec).status = "expired"
         /\ Lapsed(rec).intact = rec.intact
<1>1. CASE Overdue(rec)
  <2>1. Lapsed(rec) = [rec EXCEPT !.status = "expired", !.updated = now]
    BY <1>1 DEF Lapsed
  <2>2. rec.status = "pending_review" /\ now >= rec.expires
    BY <1>1 DEF Overdue
  <2>3. DEFINE new == [rec EXCEPT !.status = "expired", !.updated = now]
  <2>4. new \in Review /\ new.status = "expired" /\ new.intact = rec.intact
    BY StampFacts, StatusNames, Zenon
  <2>5. Lapsed(rec) \in Review /\ Lapsed(rec).status = "expired" /\ Lapsed(rec).intact = rec.intact
    BY <2>1, <2>4, Zenon
  <2>6. QED
    BY <2>2, <2>5
<1>2. CASE ~Overdue(rec)
  BY <1>2 DEF Lapsed
<1>3. QED
  BY <1>1, <1>2

LEMMA DecidedFacts ==
  ASSUME TypeOK, NEW rec \in Review, NEW target \in Decisions
  PROVE  /\ Decided(rec, target) \in Review /\ Decided(rec, target).status = target
         /\ Decided(rec, target).intact = rec.intact
  BY StampFacts, StatusNames DEF Decided

\* What _save does to the rows: a row that changed is the record's copy, or is
\* deleted together with an evicted record.
LEMMA SaveFacts ==
  ASSUME TypeOK, NEW S \in SUBSET Reviews, NEW recs \in [S -> Review],
         NEW gone \in SUBSET Reviews, NEW ok \in BOOLEAN, Save(recs, gone, ok)
  PROVE  /\ db' \in [Reviews -> Review]
         /\ faults' \in 0..MaxFaults
         /\ \A r \in Reviews : \/ db'[r] = db[r]
                               \/ r \in S /\ db'[r] = recs[r]
                               \/ r \in gone /\ db'[r] = NoReview
<1>1. CASE ok
  <2>1. db' = Saved(recs, gone) /\ faults' = faults
    BY <1>1 DEF Save
  <2>2. QED
    BY <2>1, NoReviewType DEF Saved, TypeOK
<1>2. CASE ~ok
  <2>1. PICK done \in SUBSET S : db' = Saved([r \in done |-> recs[r]], {})
    BY <1>2 DEF Save
  <2>2. faults' = faults + 1 /\ faults < MaxFaults
    BY <1>2 DEF Save
  <2>3. faults' \in 0..MaxFaults
    BY <2>2 DEF TypeOK
  <2>4. QED
    BY <2>1, <2>3, NoReviewType DEF Saved, TypeOK
<1>3. QED
  BY <1>1, <1>2

----------------------------------------------------------------------------
(* What each operation does, record by record *)

LEMMA CreateFacts ==
  ASSUME TypeOK, NEW r \in Reviews, NEW ttl \in TTLs, NEW ok \in BOOLEAN, Create(r, ttl, ok)
  PROVE  /\ r \notin used /\ used' = used \cup {r}
         /\ UNCHANGED <<trusted, now, restarts, damage>>
         /\ mem' \in [Reviews -> Review] /\ db' \in [Reviews -> Review]
         /\ faults' \in 0..MaxFaults
         /\ mem'[r].status = "pending_review"
         /\ \A q \in Reviews : mem'[q].intact \/ mem'[q].intact = mem[q].intact
         /\ \A q \in Reviews : q # r =>
              \/ mem'[q] = mem[q]
              \/ mem'[q].status = "absent" /\ mem[q].status \in Terminal
              \/ mem[q].status = "pending_review" /\ now >= mem[q].expires
                 /\ mem'[q].status \in {"expired", "absent"}
         /\ \A q \in Reviews :
              \/ db'[q] = db[q]
              \/ q = r /\ db'[q].status = "pending_review"
              \/ db'[q] = NoReview /\ (q # r => mem'[q].status = "absent")
<1> DEFINE m == [q \in Reviews |-> Lapsed(mem[q])]
           recs == [q \in {r} |-> NewReview(ttl)]
<1>1. PICK gone \in EvictionChoices(m) :
        /\ mem' = [q \in Reviews |-> IF q = r THEN NewReview(ttl)
                                     ELSE IF q \in gone THEN NoReview ELSE m[q]]
        /\ Save(recs, gone, ok)
  BY DEF Create
<1>2. \A q \in Reviews :
        /\ m[q] \in Review
        /\ m[q].intact = mem[q].intact
        /\ \/ m[q] = mem[q]
           \/ mem[q].status = "pending_review" /\ now >= mem[q].expires
              /\ m[q].status = "expired"
  BY LapsedFacts DEF TypeOK
<1>3. gone \in SUBSET Reviews /\ \A q \in gone : m[q].status \in Terminal
  BY DEF EvictionChoices, Ended
<1>4. recs \in [{r} -> Review] /\ recs[r].status = "pending_review" /\ {r} \in SUBSET Reviews
  BY NewReviewType
<1> HIDE DEF m, recs
<1>5. /\ db' \in [Reviews -> Review]
      /\ faults' \in 0..MaxFaults
      /\ \A q \in Reviews : \/ db'[q] = db[q]
                            \/ q \in {r} /\ db'[q] = recs[q]
                            \/ q \in gone /\ db'[q] = NoReview
  <2>1. gone \in SUBSET Reviews /\ Save(recs, gone, ok)
    BY <1>1, <1>3
  <2> HIDE <1>3
  <2>2. QED
    BY <1>4, <2>1, SaveFacts
<1>6. /\ mem' \in [Reviews -> Review] /\ mem'[r].status = "pending_review"
      /\ \A q \in Reviews : mem'[q].intact \/ mem'[q].intact = mem[q].intact
  BY <1>1, <1>2, NewReviewType, NoReviewType
<1>7. \A q \in Reviews : q # r =>
        /\ mem'[q] = IF q \in gone THEN NoReview ELSE m[q]
        /\ q \in gone => mem'[q].status = "absent"
  BY <1>1, NoReviewType
<1>8. /\ r \notin used /\ used' = used \cup {r}
      /\ UNCHANGED <<trusted, now, restarts, damage>>
  BY DEF Create
<1>9. QED
  BY <1>2, <1>3, <1>4, <1>5, <1>6, <1>7, <1>8

LEMMA CreateRefusedFacts ==
  ASSUME TypeOK, CreateRefused
  PROVE  /\ UNCHANGED <<db, used, trusted, now, faults, restarts, damage>>
         /\ mem' \in [Reviews -> Review]
         /\ \A q \in Reviews : mem'[q].intact \/ mem'[q].intact = mem[q].intact
         /\ \A q \in Reviews :
              \/ mem'[q] = mem[q]
              \/ mem'[q].status = "absent" /\ mem[q].status \in Terminal
              \/ mem[q].status = "pending_review" /\ now >= mem[q].expires
                 /\ mem'[q].status = "absent"
<1> DEFINE m == [q \in Reviews |-> Lapsed(mem[q])]
<1>1. \A q \in Reviews :
        /\ m[q] \in Review
        /\ m[q].intact = mem[q].intact
        /\ \/ m[q] = mem[q]
           \/ mem[q].status = "pending_review" /\ now >= mem[q].expires
  BY LapsedFacts DEF TypeOK
<1>2. mem' = [q \in Reviews |-> IF q \in Ended(m) THEN NoReview ELSE m[q]]
  BY DEF CreateRefused
<1>3. \A q \in Reviews : q \in Ended(m) <=> m[q].status \in Terminal
  BY DEF Ended
<1>4. \A q \in Reviews : m[q].status \notin Terminal => m[q] = mem[q]
  BY LapsedFacts, StatusNames DEF TypeOK
<1> HIDE DEF m
<1>5. QED
  BY <1>1, <1>2, <1>3, <1>4, NoReviewType DEF CreateRefused

LEMMA LookFacts ==
  ASSUME TypeOK, NEW seen \in SUBSET Reviews, NEW ok \in BOOLEAN, Look(seen, ok)
  PROVE  /\ UNCHANGED <<used, trusted, now, restarts, damage>>
         /\ mem' \in [Reviews -> Review] /\ db' \in [Reviews -> Review]
         /\ faults' \in 0..MaxFaults
         /\ \A q \in Reviews :
              /\ mem'[q].intact = mem[q].intact
              /\ \/ mem'[q] = mem[q]
                 \/ mem[q].status = "pending_review" /\ mem'[q].status = "expired"
              /\ \/ db'[q] = db[q]
                 \/ mem[q].status = "pending_review" /\ db'[q] = mem'[q]
<1> DEFINE recs == [r \in seen |-> Lapsed(mem[r])]
<1>1. \A r \in seen : /\ mem[r].status = "pending_review"
                      /\ Lapsed(mem[r]).status = "expired"
  BY LapsedFacts DEF Look, Overdue, TypeOK
<1>2. \A r \in Reviews : Lapsed(mem[r]) \in Review /\ Lapsed(mem[r]).intact = mem[r].intact
  BY LapsedFacts DEF TypeOK
<1>3. mem' = [r \in Reviews |-> IF r \in seen THEN Lapsed(mem[r]) ELSE mem[r]]
  BY DEF Look
<1>4. recs \in [seen -> Review] /\ Save(recs, {}, ok)
  BY <1>2 DEF Look
<1>5. /\ db' \in [Reviews -> Review]
      /\ faults' \in 0..MaxFaults
      /\ \A q \in Reviews : db'[q] = db[q] \/ (q \in seen /\ db'[q] = recs[q])
  <2> HIDE DEF recs
  <2>1. QED
    BY <1>4, SaveFacts
<1>6. mem' \in [Reviews -> Review]
  BY <1>2, <1>3 DEF TypeOK
<1>7. QED
  BY <1>1, <1>2, <1>3, <1>5, <1>6 DEF Look

LEMMA DecideFacts ==
  ASSUME TypeOK, NEW r \in Reviews, NEW target \in Decisions, NEW ok \in BOOLEAN,
         Decide(r, target, ok)
  PROVE  /\ UNCHANGED <<used, trusted, now, restarts, damage>>
         /\ mem' \in [Reviews -> Review] /\ db' \in [Reviews -> Review]
         /\ faults' \in 0..MaxFaults
         /\ mem[r].status = "pending_review" /\ mem'[r].status = target
         /\ mem'[r].intact = mem[r].intact
         /\ \A q \in Reviews : q # r => mem'[q] = mem[q] /\ db'[q] = db[q]
         /\ db'[r] = db[r] \/ db'[r] = mem'[r]
<1> DEFINE recs == [q \in {r} |-> Decided(mem[r], target)]
<1>1. mem[r].status = "pending_review"
  BY LapsedFacts DEF Decide, Decidable, TypeOK
<1>2. /\ Decided(mem[r], target) \in Review /\ Decided(mem[r], target).status = target
      /\ Decided(mem[r], target).intact = mem[r].intact
  BY DecidedFacts DEF TypeOK
<1>3. mem' = [mem EXCEPT ![r] = Decided(mem[r], target)] /\ Save(recs, {}, ok)
  BY DEF Decide
<1>4. recs \in [{r} -> Review] /\ recs[r] = Decided(mem[r], target) /\ {r} \in SUBSET Reviews
  BY <1>2
<1>5. /\ db' \in [Reviews -> Review]
      /\ faults' \in 0..MaxFaults
      /\ \A q \in Reviews : db'[q] = db[q] \/ (q \in {r} /\ db'[q] = recs[q])
  <2> HIDE DEF recs
  <2>1. QED
    BY <1>3, <1>4, SaveFacts
<1>6. QED
  BY <1>1, <1>2, <1>3, <1>4, <1>5 DEF Decide, TypeOK

LEMMA DecideLateFacts ==
  ASSUME TypeOK, NEW r \in Reviews, DecideLate(r)
  PROVE  /\ UNCHANGED <<db, used, trusted, now, faults, restarts, damage>>
         /\ mem' \in [Reviews -> Review]
         /\ mem[r].status = "pending_review" /\ mem'[r].status = "expired"
         /\ now >= mem[r].expires
         /\ mem'[r].intact = mem[r].intact
         /\ \A q \in Reviews : q # r => mem'[q] = mem[q]
  BY LapsedFacts DEF DecideLate, Overdue, TypeOK

LEMMA RestartFacts ==
  ASSUME TypeOK, Restart
  PROVE  /\ UNCHANGED <<used, now, faults, damage>> /\ trusted' = {}
         /\ restarts' = restarts + 1 /\ restarts' \in 0..MaxRestarts
         /\ mem' \in [Reviews -> Review] /\ db' \in [Reviews -> Review]
         /\ \A r \in Reviews :
              /\ mem'[r].intact
              /\ \/ mem'[r] = db'[r]
                 \/ mem'[r].status = "absent" /\ db'[r] = db[r]
              /\ \/ db'[r] = db[r]
                 \/ db[r].status = "pending_review" /\ db'[r].status = "expired"
<1>1. \A r \in Reviews :
        /\ Lapsed(db[r]) \in Review
        /\ Lapsed(db[r]).intact = db[r].intact
        /\ \/ Lapsed(db[r]) = db[r]
           \/ db[r].status = "pending_review" /\ Lapsed(db[r]).status = "expired"
  BY LapsedFacts DEF TypeOK
<1>2. /\ mem' = [r \in Reviews |-> IF db[r].intact THEN Lapsed(db[r]) ELSE NoReview]
      /\ db' = [r \in Reviews |-> IF db[r].intact THEN Lapsed(db[r]) ELSE db[r]]
  BY DEF Restart, Verified
<1>3. QED
  BY <1>1, <1>2, NoReviewType DEF Restart, TypeOK

LEMMA DamageFacts ==
  ASSUME TypeOK, NEW r \in Reviews, Damage(r)
  PROVE  /\ UNCHANGED <<mem, used, trusted, now, faults, restarts>>
         /\ damage' \in 0..MaxDamage
         /\ db' \in [Reviews -> Review]
         /\ \A q \in Reviews : db'[q].status = db[q].status
<1>1. db[r] \in Review /\ [db[r] EXCEPT !.intact = FALSE] \in Review
  BY DEF TypeOK, Review
<1>2. [db[r] EXCEPT !.intact = FALSE].status = db[r].status
  BY <1>1 DEF Review
<1>3. db' = [db EXCEPT ![r] = [db[r] EXCEPT !.intact = FALSE]]
  BY DEF Damage
<1>4. QED
  BY <1>1, <1>2, <1>3 DEF Damage, TypeOK

----------------------------------------------------------------------------
(* Type correctness *)

\* Records, rows, clock and counters keep their types.
THEOREM TypeCorrect == Spec => []TypeOK
<1>1. Init => TypeOK
  BY NoReviewType DEF Init, TypeOK
<1>2. TypeOK /\ [Next]_vars => TypeOK'
  <2> SUFFICES ASSUME TypeOK, [Next]_vars PROVE TypeOK'
    OBVIOUS
  <2>1. ASSUME NEW r \in Reviews, NEW ttl \in TTLs, NEW ok \in BOOLEAN, Create(r, ttl, ok)
        PROVE  TypeOK'
    BY <2>1, CreateFacts DEF TypeOK
  <2>2. CASE CreateRefused
    BY <2>2, CreateRefusedFacts DEF TypeOK
  <2>3. ASSUME NEW seen \in SUBSET Reviews, NEW ok \in BOOLEAN, Look(seen, ok)
        PROVE  TypeOK'
    BY <2>3, LookFacts DEF TypeOK
  <2>4. ASSUME NEW r \in Reviews, NEW target \in Decisions, NEW ok \in BOOLEAN,
               Decide(r, target, ok)
        PROVE  TypeOK'
    BY <2>4, DecideFacts DEF TypeOK
  <2>5. ASSUME NEW r \in Reviews, DecideLate(r)
        PROVE  TypeOK'
    BY <2>5, DecideLateFacts DEF TypeOK
  <2>6. ASSUME NEW r \in Reviews, Validate(r) \/ EndOfUse(r)
        PROVE  TypeOK'
    BY <2>6 DEF Validate, EndOfUse, TypeOK
  <2>7. CASE Restart
    BY <2>7, RestartFacts DEF TypeOK
  <2>8. CASE Tick
    BY <2>8 DEF Tick, TypeOK
  <2>9. ASSUME NEW r \in Reviews, Damage(r)
        PROVE  TypeOK'
    BY <2>9, DamageFacts DEF TypeOK
  <2>10. CASE UNCHANGED vars
    BY <2>10 DEF vars, TypeOK
  <2>11. QED
    BY <2>1, <2>2, <2>3, <2>4, <2>5, <2>6, <2>7, <2>8, <2>9, <2>10 DEF Next
<1>3. QED
  BY <1>1, <1>2, PTL DEF Spec

----------------------------------------------------------------------------
(* The inductive invariant *)

\* A review id that was never issued has no record, no row and no user.
Fresh ==
  \A r \in Reviews : r \notin used =>
    mem[r].status = "absent" /\ db[r].status = "absent" /\ r \notin trusted

\* Memory knows every decision the rows know, unless it evicted the record.
RowsFollow ==
  \A r \in Reviews : db[r].status \in Terminal => mem[r].status \in {db[r].status, "absent"}

IInv == TypeOK /\ Fresh /\ RowsFollow /\ TrustIsAuthorized

LEMMA FreshStep == TypeOK /\ Fresh /\ [Next]_vars => Fresh'
<1> SUFFICES ASSUME TypeOK, Fresh, [Next]_vars PROVE Fresh'
  OBVIOUS
<1>1. ASSUME NEW r \in Reviews, NEW ttl \in TTLs, NEW ok \in BOOLEAN, Create(r, ttl, ok)
      PROVE  Fresh'
  BY <1>1, CreateFacts, NoReviewType, StatusNames DEF Fresh
<1>2. CASE CreateRefused
  BY <1>2, CreateRefusedFacts DEF Fresh
<1>3. ASSUME NEW seen \in SUBSET Reviews, NEW ok \in BOOLEAN, Look(seen, ok)
      PROVE  Fresh'
  BY <1>3, LookFacts DEF Fresh
<1>4. ASSUME NEW r \in Reviews, NEW target \in Decisions, NEW ok \in BOOLEAN,
             Decide(r, target, ok)
      PROVE  Fresh'
  BY <1>4, DecideFacts DEF Fresh
<1>5. ASSUME NEW r \in Reviews, DecideLate(r)
      PROVE  Fresh'
  BY <1>5, DecideLateFacts DEF Fresh
<1>6. ASSUME NEW r \in Reviews, Validate(r) \/ EndOfUse(r)
      PROVE  Fresh'
  BY <1>6 DEF Validate, EndOfUse, Fresh
<1>7. CASE Restart
  BY <1>7, RestartFacts DEF Fresh
<1>8. CASE Tick \/ UNCHANGED vars
  BY <1>8 DEF Tick, vars, Fresh
<1>9. ASSUME NEW r \in Reviews, Damage(r)
      PROVE  Fresh'
  BY <1>9, DamageFacts DEF Fresh
<1>10. QED
  BY <1>1, <1>2, <1>3, <1>4, <1>5, <1>6, <1>7, <1>8, <1>9 DEF Next

LEMMA RowsFollowStep == TypeOK /\ Fresh /\ RowsFollow /\ [Next]_vars => RowsFollow'
<1> SUFFICES ASSUME TypeOK, Fresh, RowsFollow, [Next]_vars PROVE RowsFollow'
  OBVIOUS
<1> USE StatusNames
<1>1. ASSUME NEW r \in Reviews, NEW ttl \in TTLs, NEW ok \in BOOLEAN, Create(r, ttl, ok)
      PROVE  RowsFollow'
  <2>1. db[r].status = "absent"
    BY <1>1, CreateFacts DEF Fresh
  <2>2. QED
    BY <1>1, <2>1, CreateFacts, NoReviewType DEF RowsFollow
<1>2. CASE CreateRefused
  BY <1>2, CreateRefusedFacts DEF RowsFollow
<1>3. ASSUME NEW seen \in SUBSET Reviews, NEW ok \in BOOLEAN, Look(seen, ok)
      PROVE  RowsFollow'
  BY <1>3, LookFacts DEF RowsFollow
<1>4. ASSUME NEW r \in Reviews, NEW target \in Decisions, NEW ok \in BOOLEAN,
             Decide(r, target, ok)
      PROVE  RowsFollow'
  BY <1>4, DecideFacts DEF RowsFollow
<1>5. ASSUME NEW r \in Reviews, DecideLate(r)
      PROVE  RowsFollow'
  BY <1>5, DecideLateFacts DEF RowsFollow
<1>6. CASE Restart
  BY <1>6, RestartFacts DEF RowsFollow
<1>7. CASE UNCHANGED <<mem, db>>
  BY <1>7 DEF RowsFollow
<1>8. ASSUME NEW r \in Reviews, Damage(r)
      PROVE  RowsFollow'
  BY <1>8, DamageFacts DEF RowsFollow
<1>9. QED
  BY <1>1, <1>2, <1>3, <1>4, <1>5, <1>6, <1>7, <1>8 DEF Next, Validate, EndOfUse, Tick, vars

LEMMA TrustStep ==
  TypeOK /\ Fresh /\ TrustIsAuthorized /\ [Next]_vars => TrustIsAuthorized'
<1> SUFFICES ASSUME TypeOK, Fresh, TrustIsAuthorized, [Next]_vars PROVE TrustIsAuthorized'
  OBVIOUS
<1>0. trusted \subseteq Reviews
  BY DEF TypeOK
<1>1. ASSUME NEW r \in Reviews, NEW ttl \in TTLs, NEW ok \in BOOLEAN, Create(r, ttl, ok)
      PROVE  TrustIsAuthorized'
  <2>1. r \notin trusted
    BY <1>1, CreateFacts DEF Fresh
  <2>2. QED
    BY <1>0, <1>1, <2>1, CreateFacts DEF TrustIsAuthorized
<1>2. CASE CreateRefused
  BY <1>0, <1>2, CreateRefusedFacts DEF TrustIsAuthorized
<1>3. ASSUME NEW seen \in SUBSET Reviews, NEW ok \in BOOLEAN, Look(seen, ok)
      PROVE  TrustIsAuthorized'
  BY <1>0, <1>3, LookFacts DEF TrustIsAuthorized
<1>4. ASSUME NEW r \in Reviews, NEW target \in Decisions, NEW ok \in BOOLEAN,
             Decide(r, target, ok)
      PROVE  TrustIsAuthorized'
  BY <1>0, <1>4, DecideFacts DEF TrustIsAuthorized
<1>5. ASSUME NEW r \in Reviews, DecideLate(r)
      PROVE  TrustIsAuthorized'
  BY <1>0, <1>5, DecideLateFacts DEF TrustIsAuthorized
<1>6. ASSUME NEW r \in Reviews, Validate(r) \/ EndOfUse(r)
      PROVE  TrustIsAuthorized'
  BY <1>6 DEF Validate, EndOfUse, TrustIsAuthorized
<1>7. CASE Restart
  BY <1>7, RestartFacts DEF TrustIsAuthorized
<1>8. CASE Tick \/ UNCHANGED vars
  BY <1>8 DEF Tick, vars, TrustIsAuthorized
<1>9. ASSUME NEW r \in Reviews, Damage(r)
      PROVE  TrustIsAuthorized'
  BY <1>9, DamageFacts DEF TrustIsAuthorized
<1>10. QED
  BY <1>1, <1>2, <1>3, <1>4, <1>5, <1>6, <1>7, <1>8, <1>9 DEF Next

LEMMA OriginalStep == TypeOK /\ ReviewsAreOriginal /\ [Next]_vars => ReviewsAreOriginal'
<1> SUFFICES ASSUME TypeOK, ReviewsAreOriginal, [Next]_vars PROVE ReviewsAreOriginal'
  OBVIOUS
<1>1. ASSUME NEW r \in Reviews, NEW ttl \in TTLs, NEW ok \in BOOLEAN, Create(r, ttl, ok)
      PROVE  ReviewsAreOriginal'
  BY <1>1, CreateFacts DEF ReviewsAreOriginal
<1>2. CASE CreateRefused
  BY <1>2, CreateRefusedFacts DEF ReviewsAreOriginal
<1>3. ASSUME NEW seen \in SUBSET Reviews, NEW ok \in BOOLEAN, Look(seen, ok)
      PROVE  ReviewsAreOriginal'
  BY <1>3, LookFacts DEF ReviewsAreOriginal
<1>4. ASSUME NEW r \in Reviews, NEW target \in Decisions, NEW ok \in BOOLEAN,
             Decide(r, target, ok)
      PROVE  ReviewsAreOriginal'
  BY <1>4, DecideFacts DEF ReviewsAreOriginal
<1>5. ASSUME NEW r \in Reviews, DecideLate(r)
      PROVE  ReviewsAreOriginal'
  BY <1>5, DecideLateFacts DEF ReviewsAreOriginal
<1>6. CASE Restart
  BY <1>6, RestartFacts DEF ReviewsAreOriginal
<1>7. ASSUME NEW r \in Reviews, Damage(r)
      PROVE  ReviewsAreOriginal'
  BY <1>7, DamageFacts DEF ReviewsAreOriginal
<1>8. CASE UNCHANGED mem
  BY <1>8 DEF ReviewsAreOriginal
<1>9. QED
  BY <1>1, <1>2, <1>3, <1>4, <1>5, <1>6, <1>7, <1>8
     DEF Next, Validate, EndOfUse, Tick, vars

LEMMA IInvHolds == Spec => []IInv
<1>1. Init => Fresh /\ RowsFollow /\ TrustIsAuthorized
  BY NoReviewType, StatusNames DEF Init, Fresh, RowsFollow, TrustIsAuthorized
<1>2. QED
  BY <1>1, TypeCorrect, FreshStep, RowsFollowStep, TrustStep, PTL DEF Spec, IInv

\* While a service acts on a review, its approval is not taken back.
THEOREM TrustIsAuthorizedHolds == Spec => []TrustIsAuthorized
  BY IInvHolds, PTL DEF IInv

\* Every review in memory is the one that was submitted, whatever was done to the rows.
THEOREM ReviewsAreOriginalHolds == Spec => []ReviewsAreOriginal
<1>1. Init => ReviewsAreOriginal
  BY NoReviewType DEF Init, ReviewsAreOriginal
<1>2. QED
  BY <1>1, TypeCorrect, OriginalStep, PTL DEF Spec

----------------------------------------------------------------------------
(* What no step may do *)

LEMMA TerminalStep ==
  ASSUME IInv, [Next]_vars, NEW r \in Reviews
  PROVE  /\ db[r].status \in Terminal => db'[r].status \in {db[r].status, "absent"}
         /\ mem[r].status \in Terminal /\ restarts' = restarts =>
              mem'[r].status \in {mem[r].status, "absent"}
<1> USE StatusNames DEF IInv
<1>1. ASSUME NEW q \in Reviews, NEW ttl \in TTLs, NEW ok \in BOOLEAN, Create(q, ttl, ok)
      PROVE  /\ db[r].status \in Terminal => db'[r].status \in {db[r].status, "absent"}
             /\ mem[r].status \in Terminal => mem'[r].status \in {mem[r].status, "absent"}
  <2>1. mem[q].status = "absent" /\ db[q].status = "absent"
    BY <1>1, CreateFacts DEF Fresh
  <2>2. QED
    BY <1>1, <2>1, CreateFacts, NoReviewType
<1>2. CASE CreateRefused
  BY <1>2, CreateRefusedFacts
<1>3. ASSUME NEW seen \in SUBSET Reviews, NEW ok \in BOOLEAN, Look(seen, ok)
      PROVE  /\ db[r].status \in Terminal => db'[r].status \in {db[r].status, "absent"}
             /\ mem[r].status \in Terminal => mem'[r].status \in {mem[r].status, "absent"}
  BY <1>3, LookFacts DEF RowsFollow
<1>4. ASSUME NEW q \in Reviews, NEW target \in Decisions, NEW ok \in BOOLEAN,
             Decide(q, target, ok)
      PROVE  /\ db[r].status \in Terminal => db'[r].status \in {db[r].status, "absent"}
             /\ mem[r].status \in Terminal => mem'[r].status \in {mem[r].status, "absent"}
  BY <1>4, DecideFacts DEF RowsFollow
<1>5. ASSUME NEW q \in Reviews, DecideLate(q)
      PROVE  /\ db[r].status \in Terminal => db'[r].status \in {db[r].status, "absent"}
             /\ mem[r].status \in Terminal => mem'[r].status \in {mem[r].status, "absent"}
  BY <1>5, DecideLateFacts
<1>6. CASE Restart
  <2>1. restarts' # restarts
    BY <1>6, RestartFacts DEF TypeOK
  <2>2. QED
    BY <1>6, <2>1, RestartFacts
<1>7. CASE UNCHANGED <<mem, db>>
  BY <1>7
<1>8. ASSUME NEW q \in Reviews, Damage(q)
      PROVE  mem'[r] = mem[r] /\ db'[r].status = db[r].status
  BY <1>8, DamageFacts
<1>9. QED
  BY <1>1, <1>2, <1>3, <1>4, <1>5, <1>6, <1>7, <1>8 DEF Next, Validate, EndOfUse, Tick, vars

\* Approval, rejection, cancellation and expiry race, and the first one stays.
THEOREM OneTerminalTransitionHolds == Spec => OneTerminalTransition
<1>1. IInv /\ [Next]_vars =>
        [\A r \in Reviews :
           /\ db[r].status \in Terminal => db'[r].status \in {db[r].status, "absent"}
           /\ mem[r].status \in Terminal /\ restarts' = restarts =>
                mem'[r].status \in {mem[r].status, "absent"}]_vars
  BY TerminalStep
<1>2. QED
  BY <1>1, IInvHolds, PTL DEF Spec, OneTerminalTransition

LEMMA PendingStep ==
  ASSUME TypeOK, [Next]_vars, NEW r \in Reviews,
         mem[r].status = "pending_review", now < mem[r].expires, restarts' = restarts,
         Fresh
  PROVE  mem'[r].status # "absent"
<1> USE StatusNames
<1>0. mem[r] \in Review /\ now \in Nat /\ mem[r].expires \in Nat /\ ~(now >= mem[r].expires)
  BY DEF TypeOK, Review
<1>1. ASSUME NEW q \in Reviews, NEW ttl \in TTLs, NEW ok \in BOOLEAN, Create(q, ttl, ok)
      PROVE  mem'[r].status # "absent"
  BY <1>0, <1>1, CreateFacts DEF Fresh
<1>2. CASE CreateRefused
  BY <1>0, <1>2, CreateRefusedFacts
<1>3. ASSUME NEW seen \in SUBSET Reviews, NEW ok \in BOOLEAN, Look(seen, ok)
      PROVE  mem'[r].status # "absent"
  BY <1>3, LookFacts
<1>4. ASSUME NEW q \in Reviews, NEW target \in Decisions, NEW ok \in BOOLEAN,
             Decide(q, target, ok)
      PROVE  mem'[r].status # "absent"
  BY <1>4, DecideFacts
<1>5. ASSUME NEW q \in Reviews, DecideLate(q)
      PROVE  mem'[r].status # "absent"
  BY <1>5, DecideLateFacts
<1>6. ~Restart
  BY RestartFacts DEF TypeOK
<1>7. CASE UNCHANGED mem
  BY <1>7
<1>8. QED
  BY <1>1, <1>2, <1>3, <1>4, <1>5, <1>6, <1>7
     DEF Next, Damage, Validate, EndOfUse, Tick, vars

\* Capacity never costs a pending review that is still valid.
THEOREM PendingIsKeptHolds == Spec => PendingIsKept
<1>1. IInv /\ [Next]_vars =>
        [\A r \in Reviews :
           mem[r].status = "pending_review" /\ now < mem[r].expires /\ restarts' = restarts =>
             mem'[r].status # "absent"]_vars
  BY PendingStep DEF IInv
<1>2. QED
  BY <1>1, IInvHolds, PTL DEF Spec, PendingIsKept

----------------------------------------------------------------------------
(* Planning *)

USE InstructionAssumption, MemoryAssumption, SizeAssumption, AgentAssumption

\* Whatever planning and the routes do, the store makes one of its own steps, or none.
THEOREM PlanningUsesTheStore == PlanSpec => Spec
<1>1. PlanInit => Init
  BY DEF PlanInit
<1>2. ASSUME [PlanNext]_planVars PROVE [Next]_vars
  <2>1. ASSUME NEW goal, NEW ins, NEW preferred, NEW items, NEW include,
               Ask(goal, ins, preferred, items, include)
        PROVE  UNCHANGED vars
    BY <2>1 DEF Ask
  <2>2. ASSUME NEW m, NEW size, ReadSource(m, size)
        PROVE  UNCHANGED vars
    BY <2>2 DEF ReadSource
  <2>3. CASE EndReading
    BY <2>3 DEF EndReading
  <2>4. CASE AnswerPlan
    BY <2>4 DEF AnswerPlan
  <2>5. ASSUME NEW r \in Reviews, NEW ttl \in TTLs, NEW ok \in BOOLEAN, ReviewPlan(r, ttl, ok)
        PROVE  Next
    BY <2>5 DEF ReviewPlan, Next
  <2>6. CASE ReviewRefused
    BY <2>6 DEF ReviewRefused, Next
  <2>7. ASSUME NEW r \in Reviews, NEW target \in Decisions, NEW ok \in BOOLEAN,
               DecisionRequest(r, target, ok)
        PROVE  Next
    BY <2>7 DEF DecisionRequest, Next
  <2>8. CASE PlanRestart
    BY <2>8 DEF PlanRestart, Next
  <2>9. ASSUME NEW seen \in SUBSET Reviews, NEW ok \in BOOLEAN, Look(seen, ok)
        PROVE  Next
    BY <2>9 DEF Next
  <2>10. ASSUME NEW r \in Reviews, Validate(r) \/ EndOfUse(r) \/ Damage(r)
         PROVE  Next
    BY <2>10 DEF Next
  <2>11. CASE Tick
    BY <2>11 DEF Next
  <2>12. CASE UNCHANGED planVars
    BY <2>12 DEF planVars, vars
  <2>13. QED
    BY <1>2, <2>1, <2>2, <2>3, <2>4, <2>5, <2>6, <2>7, <2>8, <2>9, <2>10, <2>11, <2>12
       DEF PlanNext
<1>3. QED
  BY <1>1, <1>2, PTL DEF PlanSpec, Spec

\* With planning in front of it, a service still acts only on reviews whose approval
\* was not taken back.
THEOREM PlannedTrustIsAuthorized == PlanSpec => []TrustIsAuthorized
  BY PlanningUsesTheStore, TrustIsAuthorizedHolds, PTL

\* The memories that the steps of a plan name as their sources are among those whose
\* excerpts the context quotes, whatever the instruction and whatever could be read.
THEOREM SourcesAreQuoted ==
  ASSUME NEW a \in Agents, NEW ins \in Instructions, CanPlan(a, ins),
         NEW refs \in SUBSET Memories
  PROVE  \A i \in DOMAIN Steps(a, ins, refs) : Steps(a, ins, refs)[i].sources \subseteq refs
<1>1. \A kinds : OfKind(refs, kinds) \subseteq refs
  BY DEF OfKind
<1>2. CASE a = "project"
  BY <1>1, <1>2 DEF Steps, ProjectSteps, Step
<1>3. CASE a = "research"
  BY <1>1, <1>3 DEF Steps, ResearchSteps, Step
<1>4. CASE a = "git"
  BY <1>1, <1>4 DEF Steps, GitSteps, Step
<1>5. CASE a = "filesystem"
  BY <1>5 DEF Steps, FilesystemSteps, Step
<1>6. CASE a = "email"
  BY <1>6 DEF Steps, EmailSteps, Step
<1>7. CASE a = "calendar"
  BY <1>7 DEF Steps, CalendarSteps, RangeKnown, Step
<1>8. QED
  BY <1>2, <1>3, <1>4, <1>5, <1>6, <1>7 DEF Agents

\* The agents' recipes and the tool registry are separate tables, and they agree: every
\* step of every plan names an operation that is registered and enabled, so a plan with
\* steps is ready as long as no adapter refuses.
THEOREM StepsAreRegistered ==
  ASSUME NEW a \in Agents, NEW ins \in Instructions, CanPlan(a, ins),
         NEW refs \in SUBSET Memories, Steps(a, ins, refs) # <<>>
  PROVE  Ready(Steps(a, ins, refs), {})
<1>1. ins.file \in {"none", "read", "write", "invalid"}
  BY DEF Instruction
<1>2. CASE a = "project"
  BY <1>2 DEF Steps, ProjectSteps, Step, Ready, Enabled, Runnable, Mutating
<1>3. CASE a = "research"
  BY <1>3 DEF Steps, ResearchSteps, Step, Ready, Enabled, Runnable, Mutating
<1>4. CASE a = "git"
  <2>1. FileOperation[ins.file] \in Enabled /\ GitOperation(ins) \in Enabled
    BY <1>1, <1>4 DEF CanPlan, FileOperation, GitOperation, Enabled, Runnable, Mutating
  <2>2. "filesystem.list_directory" \in Enabled /\ "git.status" \in Enabled
    BY DEF Enabled, Runnable
  <2>3. QED
    BY <1>4, <2>1, <2>2 DEF Steps, GitSteps, Step, Ready
<1>5. CASE a = "filesystem"
  BY <1>5 DEF Steps, FilesystemSteps, Step, Ready, Enabled, Runnable, Mutating
<1>6. CASE a = "email"
  <2>1. ins.mail.valid => MailOperation(ins) \in Enabled
    BY <1>1 DEF MailOperation, Enabled, Runnable, Mutating
  <2>2. QED
    BY <1>6, <2>1 DEF Steps, EmailSteps, Step, Ready
<1>7. CASE a = "calendar"
  BY <1>7 DEF Steps, CalendarSteps, RangeKnown, Step, Ready, Enabled, Runnable, Mutating
<1>8. QED
  BY <1>2, <1>3, <1>4, <1>5, <1>6, <1>7 DEF Agents

\* A step that changes something asks for confirmation in the plan a person reads, with
\* one exception: the file that the git recipe writes on the way.
THEOREM ChangesAskFirst ==
  ASSUME NEW a \in Agents, NEW ins \in Instructions, CanPlan(a, ins),
         NEW refs \in SUBSET Memories, NEW i \in DOMAIN Steps(a, ins, refs),
         Steps(a, ins, refs)[i].op \in Mutating
  PROVE  \/ Steps(a, ins, refs)[i].asks
         \/ a = "git" /\ i = 3 /\ Steps(a, ins, refs)[i].op = "filesystem.write_text_file"
<1>1. ins.file \in {"none", "read", "write", "invalid"}
  BY DEF Instruction
<1>2. CASE a = "project"
  BY <1>2 DEF Steps, ProjectSteps, Step, Mutating
<1>3. CASE a = "research"
  BY <1>3 DEF Steps, ResearchSteps, Step, Mutating
<1>4. CASE a = "git"
  <2>1. FileOperation[ins.file] \in Mutating => FileOperation[ins.file] = "filesystem.write_text_file"
    BY <1>1, <1>4 DEF CanPlan, FileOperation, Mutating
  <2>2. GitOperation(ins) \in Mutating => GitOperation(ins) \in {"git.add", "git.commit"}
    BY <1>1 DEF GitOperation, Mutating
  <2>3. "filesystem.list_directory" \notin Mutating /\ "git.status" \notin Mutating
    BY DEF Mutating
  <2>4. i \in 1..4 /\ Steps(a, ins, refs)[4].op = GitOperation(ins)
    BY <1>4 DEF Steps, GitSteps, Step
  <2>5. CASE i = 4
    <3>1. (GitOperation(ins) \in {"git.add", "git.commit"}) = TRUE
      BY <2>2, <2>4, <2>5
    <3>2. Steps(a, ins, refs)[4] = Step(GitOperation(ins), OfKind(refs, {"projects", "tasks"}), TRUE)
      BY <1>4, <3>1 DEF Steps, GitSteps
    <3>3. QED
      BY <2>5, <3>2 DEF Step
  <2>6. CASE i \in 1..3
    BY <1>4, <2>1, <2>3, <2>6 DEF Steps, GitSteps, Step
  <2>7. QED
    BY <2>4, <2>5, <2>6
<1>5. CASE a = "filesystem"
  BY <1>5 DEF Steps, FilesystemSteps, Step, Mutating
<1>6. CASE a = "email"
  <2>1. ins.mail.valid /\ MailOperation(ins) \in Mutating => ins.mail.draft
    BY <1>1 DEF MailOperation, Mutating
  <2>2. ins.mail.valid /\ i = 1 /\ Steps(a, ins, refs)[1].op = MailOperation(ins)
    BY <1>6 DEF Steps, EmailSteps, Step
  <2>3. ins.mail.draft = TRUE
    BY <2>1, <2>2
  <2>4. Steps(a, ins, refs)[1] = Step(MailOperation(ins), {}, TRUE)
    BY <1>6, <2>2, <2>3 DEF Steps, EmailSteps
  <2>5. QED
    BY <2>2, <2>4 DEF Step
<1>7. CASE a = "calendar"
  BY <1>7 DEF Steps, CalendarSteps, RangeKnown, Step, Mutating
<1>8. QED
  BY <1>2, <1>3, <1>4, <1>5, <1>6, <1>7 DEF Agents

----------------------------------------------------------------------------
(* Routing *)

LEMMA ScoreType ==
  ASSUME NEW a \in Agents, NEW ins \in Instruction
  PROVE  Score(a, ins) \in Nat
<1>1. ins.hits[a] \in 0..8
  BY DEF Instruction
<1> DEFINE words == IF ins.hits[a] = 0 THEN 0
                    ELSE (IF a \in ins.phrases THEN 60 ELSE 50) + 10 * (ins.hits[a] - 1)
<1>2. words \in Nat
  BY <1>1
<1> HIDE DEF words
<1>3. Most(words + 15, 70) \in Nat
  BY <1>2 DEF Most
<1> DEFINE intents == IF ins.intent = a THEN Most(words + 15, 70) ELSE words
<1>4. intents \in Nat
  BY <1>2, <1>3
<1>5. Least(intents, 100) \in Nat
  BY <1>4 DEF Least
<1>6. Score(a, ins) = IF a = "filesystem" THEN (IF ins.workspace = "none" THEN 0 ELSE 100)
                      ELSE Least(intents, 100)
  BY DEF Score, words
<1> HIDE DEF intents
<1>. QED
  BY <1>5, <1>6

LEMMA TableTypes ==
  /\ \A a \in Agents : Priority[a] \in Nat /\ IdOrder[a] \in Nat
  /\ \A a, b \in Agents : a # b => IdOrder[a] # IdOrder[b]
  BY DEF Agents, Priority, IdOrder

LEMMA OutranksIsTotal ==
  ASSUME NEW ins \in Instruction, NEW a \in Agents, NEW b \in Agents, a # b
  PROVE  Outranks(a, b, ins) \/ Outranks(b, a, ins)
  BY ScoreType, TableTypes DEF Outranks

LEMMA OutranksIsTransitive ==
  ASSUME NEW ins \in Instruction, NEW a \in Agents, NEW b \in Agents, NEW c \in Agents,
         Outranks(a, b, ins), Outranks(b, c, ins)
  PROVE  Outranks(a, c, ins)
  BY ScoreType, TableTypes DEF Outranks

HasFirst(S, ins) == \E a \in S : \A b \in S \ {a} : Outranks(a, b, ins)

\* One more agent: the best of the others stays the best, or it is the new one.
LEMMA OneMoreAgent ==
  ASSUME NEW ins \in Instruction, NEW S \in SUBSET Agents, NEW c \in Agents, HasFirst(S, ins)
  PROVE  HasFirst(S \cup {c}, ins)
<1>1. PICK best \in S : \A b \in S \ {best} : Outranks(best, b, ins)
  BY DEF HasFirst
<1>2. CASE best = c \/ Outranks(best, c, ins)
  BY <1>1, <1>2 DEF HasFirst
<1>3. CASE best # c /\ Outranks(c, best, ins)
  <2>1. \A b \in (S \cup {c}) \ {c} : Outranks(c, b, ins)
    BY <1>1, <1>3, OutranksIsTransitive
  <2>. QED
    BY <2>1 DEF HasFirst
<1>. QED
  BY <1>1, <1>2, <1>3, OutranksIsTotal

\* The ranking of the matches has a first.
LEMMA RankingHasFirst ==
  ASSUME NEW ins \in Instruction
  PROVE  HasFirst(Agents, ins)
<1>1. HasFirst({"calendar"}, ins)
  BY DEF HasFirst
<1>2. HasFirst({"calendar", "email"}, ins)
  <2>1. {"calendar", "email"} = {"calendar"} \cup {"email"}
    OBVIOUS
  <2>2. {"calendar"} \in SUBSET Agents /\ "email" \in Agents
    BY DEF Agents
  <2>. QED
    BY <1>1, <2>1, <2>2, OneMoreAgent
<1>3. HasFirst({"calendar", "email", "filesystem"}, ins)
  <2>1. {"calendar", "email", "filesystem"} = {"calendar", "email"} \cup {"filesystem"}
    OBVIOUS
  <2>2. {"calendar", "email"} \in SUBSET Agents /\ "filesystem" \in Agents
    BY DEF Agents
  <2>. QED
    BY <1>2, <2>1, <2>2, OneMoreAgent
<1>4. HasFirst({"calendar", "email", "filesystem", "git"}, ins)
  <2>1. {"calendar", "email", "filesystem", "git"} = {"calendar", "email", "filesystem"} \cup {"git"}
    OBVIOUS
  <2>2. {"calendar", "email", "filesystem"} \in SUBSET Agents /\ "git" \in Agents
    BY DEF Agents
  <2>. QED
    BY <1>3, <2>1, <2>2, OneMoreAgent
<1>5. HasFirst({"calendar", "email", "filesystem", "git", "project"}, ins)
  <2>1. {"calendar", "email", "filesystem", "git", "project"} = {"calendar", "email", "filesystem", "git"} \cup {"project"}
    OBVIOUS
  <2>2. {"calendar", "email", "filesystem", "git"} \in SUBSET Agents /\ "project" \in Agents
    BY DEF Agents
  <2>. QED
    BY <1>4, <2>1, <2>2, OneMoreAgent
<1>6. HasFirst({"calendar", "email", "filesystem", "git", "project", "research"}, ins)
  <2>1. {"calendar", "email", "filesystem", "git", "project", "research"} = {"calendar", "email", "filesystem", "git", "project"} \cup {"research"}
    OBVIOUS
  <2>2. {"calendar", "email", "filesystem", "git", "project"} \in SUBSET Agents /\ "research" \in Agents
    BY DEF Agents
  <2>. QED
    BY <1>5, <2>1, <2>2, OneMoreAgent
<1>. QED
  BY <1>6 DEF Agents

\* A request that is routed at all goes to one of the agents.
LEMMA RoutedType ==
  ASSUME NEW ins \in Instruction, NEW preferred, Routed(ins, preferred) # NoAgent
  PROVE  Routed(ins, preferred) \in Agents
  BY RankingHasFirst DEF Routed, HasFirst

LEMMA RankType ==
  ASSUME NEW a \in Agents, NEW m, NEW ins
  PROVE  Rank(a, m, ins) \in Nat
<1>1. DOMAIN MainRank[a] \subseteq Nat
  BY DEF MainRank, Agents
<1>. QED
  BY <1>1 DEF Rank

----------------------------------------------------------------------------
(* Grounding *)

Asked ==
  [pc : {"reading", "read"}, review : BOOLEAN, agent : Agents, ins : Instructions, items : Nat,
   read : UNION {[D -> Nat] : D \in SUBSET Memories}, chars : Nat]

\* What the request in progress has read so far: some of the agent's selection, nothing
\* before what ranks higher, and no more than there was room for.
Grounded ==
  /\ ask \in Asked
  /\ DOMAIN ask.read \subseteq Eligible(ask.agent, ask.ins)
  /\ IsFiniteSet(DOMAIN ask.read)
  /\ Cardinality(References(ask.read)) <= ask.items /\ ask.chars <= TotalChars
  /\ \A m \in DOMAIN ask.read, q \in Eligible(ask.agent, ask.ins) :
       Rank(ask.agent, q, ask.ins) < Rank(ask.agent, m, ask.ins) => q \in DOMAIN ask.read
  /\ ask.pc = "read" /\ ask.read # <<>> => Unread = {} \/ Full

GroundedInv == ask = NoAsk \/ Grounded

LEMMA AskGrounds ==
  ASSUME NEW goal, NEW ins \in Instructions, NEW preferred, NEW items \in ItemLimits,
         NEW include \in BOOLEAN, Ask(goal, ins, preferred, items, include)
  PROVE  Grounded'
<1> DEFINE agent == Routed(ins, preferred)
           new   == [pc |-> IF include THEN "reading" ELSE "read", review |-> goal = "review",
                     agent |-> agent, ins |-> ins, items |-> items, read |-> <<>>, chars |-> 0]
<1>1. ask' = new /\ agent \in Agents
  BY RoutedType DEF Ask
<1>2. <<>> \in [{} -> Nat] /\ DOMAIN <<>> = {} /\ References(<<>>) = {}
  BY DEF References
<1>3. <<>> \in UNION {[D -> Nat] : D \in SUBSET Memories}
  BY <1>2
<1>4. items \in Nat /\ TotalChars \in Nat
  OBVIOUS
<1>5. new \in Asked /\ new.read = <<>> /\ new.items \in Nat /\ new.chars = 0
  BY <1>1, <1>3, <1>4 DEF Asked
<1>6. Cardinality({}) = 0 /\ IsFiniteSet({})
  BY FS_EmptySet
<1> HIDE DEF new
<1>7. ask' \in Asked /\ ask'.read = <<>> /\ ask'.items \in Nat /\ ask'.chars = 0
  BY <1>1, <1>5
<1>8. DOMAIN ask'.read = {} /\ References(ask'.read) = {}
  BY <1>2, <1>7
<1>9. /\ DOMAIN ask'.read \subseteq Eligible(ask'.agent, ask'.ins)
      /\ IsFiniteSet(DOMAIN ask'.read)
      /\ Cardinality(References(ask'.read)) <= ask'.items /\ ask'.chars <= TotalChars
  <2>1. Cardinality(References(ask'.read)) = 0
    BY <1>6, <1>8
  <2>2. 0 <= ask'.items /\ 0 <= TotalChars
    BY <1>4, <1>7
  <2>. QED
    BY <1>6, <1>7, <1>8, <2>1, <2>2
<1>10. \A m \in DOMAIN ask'.read, q \in Eligible(ask'.agent, ask'.ins) :
         Rank(ask'.agent, q, ask'.ins) < Rank(ask'.agent, m, ask'.ins) => q \in DOMAIN ask'.read
  BY <1>8
<1>. QED
  BY <1>7, <1>9, <1>10 DEF Grounded

LEMMA ReadSourceGrounds ==
  ASSUME Grounded, NEW m \in Memories, NEW size \in 0..MaxExcerpt, ReadSource(m, size)
  PROVE  Grounded'
<1> DEFINE agent == ask.agent
           ins   == ask.ins
           old   == ask.read
           read  == [q \in DOMAIN old \cup {m} |-> IF q = m THEN size ELSE old[q]]
<1>1. /\ ask \in Asked /\ ask.pc = "reading" /\ agent \in Agents
      /\ old \in [DOMAIN old -> Nat] /\ DOMAIN old \subseteq Memories
      /\ ask.chars \in Nat /\ ask.items \in Nat
  BY DEF Grounded, Asked, ReadSource
<1>2. size \in Nat /\ ask.chars + size <= TotalChars /\ ask.chars + size \in Nat
  BY <1>1 DEF ReadSource, Least
<1>3. read \in [DOMAIN old \cup {m} -> Nat]
  BY <1>1, <1>2
<1>4. ask' = [ask EXCEPT !.read = read, !.chars = ask.chars + size]
  BY <1>1 DEF ReadSource, Asked
<1>r. DOMAIN read = DOMAIN old \cup {m} /\ \A q \in DOMAIN old : q # m => read[q] = old[q]
  OBVIOUS
<1> HIDE DEF read
<1>5. /\ ask' \in Asked /\ ask'.pc = "reading" /\ ask'.agent = agent /\ ask'.ins = ins
      /\ ask'.items = ask.items /\ ask'.read = read /\ ask'.chars = ask.chars + size
  <2>1. read \in UNION {[D -> Nat] : D \in SUBSET Memories}
    BY <1>1, <1>3
  <2>. QED
    BY <1>1, <1>2, <1>4, <2>1 DEF Asked
<1>6. m \in Eligible(agent, ins) /\ m \notin DOMAIN old
  BY DEF ReadSource, Unread
<1>7. Cardinality(References(read)) <= ask.items
  <2>1. /\ IsFiniteSet(References(old)) /\ Cardinality(References(old)) < ask.items
        /\ Cardinality(References(old)) \in Nat
    <3>1. References(old) \subseteq DOMAIN old
      BY DEF References
    <3>2. IsFiniteSet(References(old)) /\ Cardinality(References(old)) \in Nat
      BY <3>1, FS_Subset, FS_CardinalityType DEF Grounded
    <3>. QED
      BY <1>1, <3>2 DEF ReadSource, Full
  <2>2. References(read) = References(old) \/ References(read) = References(old) \cup {m}
    BY <1>r, <1>6 DEF References
  <2>3. m \notin References(old)
    BY <1>6 DEF References
  <2>4. Cardinality(References(old) \cup {m}) = Cardinality(References(old)) + 1
    BY <2>1, <2>3, FS_AddElement
  <2>5. Cardinality(References(old)) + 1 <= ask.items /\ Cardinality(References(old)) <= ask.items
    BY <1>1, <2>1
  <2>. QED
    BY <2>2, <2>4, <2>5
<1>8. \A p \in DOMAIN read, q \in Eligible(agent, ins) :
        Rank(agent, q, ins) < Rank(agent, p, ins) => q \in DOMAIN read
  <2> SUFFICES ASSUME NEW p \in DOMAIN read, NEW q \in Eligible(agent, ins),
                      Rank(agent, q, ins) < Rank(agent, p, ins), q \notin DOMAIN read
               PROVE  FALSE
    OBVIOUS
  <2>1. p = m
    BY <1>r DEF Grounded
  <2>2. q \in Unread \ {m}
    BY <1>r DEF Unread
  <2>3. Before(agent, m, q, ins)
    BY <2>2 DEF ReadSource
  <2>. QED
    BY <1>1, <2>1, <2>3, RankType DEF Before
<1>9. IsFiniteSet(DOMAIN read)
  <2>1. IsFiniteSet(DOMAIN old)
    BY DEF Grounded
  <2>2. IsFiniteSet(DOMAIN old \cup {m})
    BY <2>1, FS_AddElement
  <2>. QED
    BY <1>r, <2>2
<1>. QED
  BY <1>2, <1>5, <1>6, <1>7, <1>8, <1>9, <1>r DEF Grounded

LEMMA EndReadingGrounds ==
  ASSUME Grounded, EndReading
  PROVE  Grounded'
<1>1. ask \in Asked /\ ask' = [ask EXCEPT !.pc = "read"] /\ (Full \/ Unread = {})
  BY DEF Grounded, EndReading
<1>2. /\ ask' \in Asked /\ ask'.agent = ask.agent /\ ask'.ins = ask.ins
      /\ ask'.items = ask.items /\ ask'.read = ask.read /\ ask'.chars = ask.chars
  BY <1>1 DEF Asked
<1>. QED
  BY <1>1, <1>2 DEF Grounded, Unread, Full

LEMMA GroundedInvStep ==
  ASSUME GroundedInv, [PlanNext]_planVars
  PROVE  GroundedInv'
<1>1. ASSUME NEW goal, NEW ins \in Instructions, NEW preferred \in Preferred,
             NEW items \in ItemLimits, NEW include \in BOOLEAN,
             Ask(goal, ins, preferred, items, include)
      PROVE  GroundedInv'
  BY <1>1, AskGrounds DEF GroundedInv
<1>2. ASSUME NEW m \in Memories, NEW size \in 0..MaxExcerpt, ReadSource(m, size)
      PROVE  GroundedInv'
  BY <1>2, ReadSourceGrounds DEF GroundedInv, NoAsk, ReadSource
<1>3. CASE EndReading
  BY <1>3, EndReadingGrounds DEF GroundedInv, NoAsk, EndReading
<1>4. CASE ask' = NoAsk
  BY <1>4 DEF GroundedInv
<1>5. CASE UNCHANGED ask
  BY <1>5 DEF GroundedInv, Grounded, Unread, Full
<1>. QED
  BY <1>1, <1>2, <1>3, <1>4, <1>5
     DEF PlanNext, AnswerPlan, ReviewPlan, ReviewRefused, PlanRestart, planVars

\* Whatever an instruction asks and whatever can be read: what ranks first is tried first,
\* nothing readable is left out while there is room, nothing outside the selection is
\* quoted, and the steps of the plan name only what was quoted.
THEOREM PlanIsGroundedHolds == PlanSpec => []PlanIsGrounded
<1>1. PlanInit => GroundedInv
  BY DEF PlanInit, GroundedInv
<1>2. GroundedInv /\ [PlanNext]_planVars => GroundedInv'
  BY GroundedInvStep
<1>3. GroundedInv => PlanIsGrounded
  <2> SUFFICES ASSUME Grounded
               PROVE  PlanIsGrounded
    BY DEF GroundedInv, PlanIsGrounded, Chosen, NoAsk
  <2> DEFINE refs == References(ask.read)
  <2>1. refs \subseteq DOMAIN ask.read /\ refs \subseteq Memories
    BY DEF References, Grounded, Eligible, Listed
  <2>2. refs \subseteq Eligible(ask.agent, ask.ins)
    BY <2>1 DEF Grounded
  <2>3. CanPlan(ask.agent, ask.ins) => \A i \in DOMAIN Plan : Plan[i].sources \subseteq refs
    <3>1. /\ ask.agent \in Agents /\ ask.ins \in Instructions
          /\ refs \in SUBSET Memories
      BY <2>1 DEF Grounded, Asked
    <3>. QED
      BY <3>1, SourcesAreQuoted DEF Plan
  <2>. QED
    BY <2>1, <2>2, <2>3 DEF Grounded, PlanIsGrounded
<1>. QED
  BY <1>1, <1>2, <1>3, PTL DEF PlanSpec

=============================================================================
