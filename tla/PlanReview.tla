----------------------------- MODULE PlanReview -----------------------------
(***************************************************************************)
(* The human decision on a plan: AgentPlanReviewStore and its SQLite       *)
(* subclass.  A review is pending until it is approved, rejected or        *)
(* cancelled, or until somebody looks at it after its time; it then stays  *)
(* as it is until capacity evicts it.  Each method holds the store's RLock *)
(* and is one action.  The execution and mutation services work on a copy  *)
(* of the record they validated: while they do, the review is trusted.     *)
(*                                                                         *)
(* Memory changes first; the row follows, unless the transaction fails or  *)
(* the method raises before it saves.  A row may also be damaged while it  *)
(* lies in the file; the digest and the index columns tell at a restart.   *)
(***************************************************************************)
EXTENDS Integers, FiniteSets

CONSTANTS
  Reviews,      \* review ids: random tokens, each issued once
  TTLs,         \* lifetimes that a request may ask for (ttl_seconds)
  MaxRecords,   \* capacity (max_records)
  MaxTime,      \* bound: clock readings
  MaxFaults,    \* bound: failed transactions
  MaxRestarts,  \* bound: restarts of Core
  MaxDamage     \* bound: rows altered by something else than the store

ASSUME LimitAssumption == MaxRecords \in Nat \ {0} /\ TTLs \subseteq Nat \ {0}
ASSUME BoundAssumption ==
  /\ MaxTime \in Nat \ {0}
  /\ MaxFaults \in Nat /\ MaxRestarts \in Nat /\ MaxDamage \in Nat

VARIABLES
  mem,       \* _records: review id -> record, NoReview when there is none
  db,        \* the agent_plan_reviews rows, same shape
  used,      \* review ids issued so far
  trusted,   \* reviews that a service has validated and is acting on
  now,       \* the store's clock
  faults,    \* transactions that failed
  restarts,  \* restarts of Core
  damage     \* rows altered so far

vars == <<mem, db, used, trusted, now, faults, restarts, damage>>

----------------------------------------------------------------------------
(* Records *)

Decisions == {"approved", "rejected", "cancelled"}
Terminal  == Decisions \cup {"expired"}

Review ==
  [status  : Terminal \cup {"pending_review", "absent"},
   created : 0..MaxTime,
   expires : Nat,
   updated : 0..MaxTime,
   intact  : BOOLEAN]     \* instruction, routing, context and plan have the stored digest

NoReview ==
  [status |-> "absent", created |-> 0, expires |-> 0, updated |-> 0, intact |-> TRUE]

NewReview(ttl) ==
  [status |-> "pending_review", created |-> now, expires |-> now + ttl, updated |-> now,
   intact |-> TRUE]

Stored(m)    == {r \in Reviews : m[r].status # "absent"}
Ended(m)     == {r \in Reviews : m[r].status \in Terminal}
Overdue(rec) == rec.status = "pending_review" /\ now >= rec.expires

\* Mutant: whatever is past its time expires, decided or not.
Lapsed_Decided(rec) ==
  IF rec.status # "absent" /\ now >= rec.expires
  THEN [rec EXCEPT !.status = "expired", !.updated = now] ELSE rec

\* _expire_if_needed.
Lapsed(rec) ==
  IF Overdue(rec) THEN [rec EXCEPT !.status = "expired", !.updated = now] ELSE rec

\* Mutant: a stored record is taken as it is.
Verified_Any(rec) == TRUE

\* verify_integrity, and at a restart the decoding of record_json and the comparison
\* with the columns beside it.
Verified(rec) == rec.intact

Decided(rec, target) == [rec EXCEPT !.status = target, !.updated = now]

Older(a, b) == a.updated < b.updated \/ (a.updated = b.updated /\ a.created <= b.created)

Excess(m) == Cardinality(Stored(m)) - MaxRecords + 1

\* Mutant: pending records may be evicted too.
EvictionChoices_Pending(m) ==
  {gone \in SUBSET Stored(m) : Cardinality(gone) = IF Excess(m) > 0 THEN Excess(m) ELSE 0}

\* _make_room: as many of the oldest decided or expired records as make one
\* free slot.  Approved reviews count among them.
EvictionChoices(m) ==
  {gone \in SUBSET Ended(m) :
     /\ Cardinality(gone) = IF Excess(m) > 0 THEN Excess(m) ELSE 0
     /\ \A r \in gone, q \in Ended(m) \ gone : Older(m[r], m[q])}

----------------------------------------------------------------------------
(* Persistence *)

Saved(recs, gone) ==
  [r \in Reviews |-> IF r \in DOMAIN recs THEN recs[r]
                     ELSE IF r \in gone THEN NoReview ELSE db[r]]

\* _save of the records recs (one in each transaction) and the deletion of the
\* evicted ones; a failure stops at some prefix of them.
Save(recs, gone, ok) ==
  \/ /\ ok
     /\ db' = Saved(recs, gone)
     /\ UNCHANGED faults
  \/ /\ ~ok
     /\ faults < MaxFaults
     /\ faults' = faults + 1
     /\ \E done \in SUBSET DOMAIN recs :
          /\ done # DOMAIN recs
          /\ db' = Saved([r \in done |-> recs[r]], {})

----------------------------------------------------------------------------
(* Operations *)

Init ==
  /\ mem = [r \in Reviews |-> NoReview]
  /\ db = [r \in Reviews |-> NoReview]
  /\ used = {}
  /\ trusted = {}
  /\ now = 1
  /\ faults = 0
  /\ restarts = 0
  /\ damage = 0

\* What _make_room finds overdue expires in memory only.
Create(r, ttl, ok) ==
  LET m == [q \in Reviews |-> Lapsed(mem[q])]
  IN /\ r \notin used
     /\ \E gone \in EvictionChoices(m) :
          /\ mem' = [q \in Reviews |-> IF q = r THEN NewReview(ttl)
                                       ELSE IF q \in gone THEN NoReview ELSE m[q]]
          /\ Save([q \in {r} |-> NewReview(ttl)], gone, ok)
     /\ used' = used \cup {r}
     /\ UNCHANGED <<trusted, now, restarts, damage>>

\* Full of pending records: those that were not have left memory all the same.
CreateRefused ==
  LET m == [q \in Reviews |-> Lapsed(mem[q])]
  IN /\ EvictionChoices(m) = {}
     /\ mem' = [q \in Reviews |-> IF q \in Ended(m) THEN NoReview ELSE m[q]]
     /\ UNCHANGED <<db, used, trusted, now, faults, restarts, damage>>

\* get of one overdue review, or list, which meets all of them.
Look(seen, ok) ==
  /\ seen # {}
  /\ seen = {r \in Reviews : Overdue(mem[r])} \/ Cardinality(seen) = 1
  /\ \A r \in seen : Overdue(mem[r])
  /\ mem' = [r \in Reviews |-> IF r \in seen THEN Lapsed(mem[r]) ELSE mem[r]]
  /\ Save([r \in seen |-> Lapsed(mem[r])], {}, ok)
  /\ UNCHANGED <<used, trusted, now, restarts, damage>>

\* Mutant: an approved review can still be rejected or cancelled.
Decidable_Approved(rec) == rec.status \in {"pending_review", "approved"}

Decidable(rec) == rec.status = "pending_review"

\* approve, reject, cancel.
Decide(r, target, ok) ==
  /\ mem[r].status # "absent"
  /\ Decidable(Lapsed(mem[r]))
  /\ Verified(mem[r])
  /\ mem' = [mem EXCEPT ![r] = Decided(mem[r], target)]
  /\ Save([q \in {r} |-> Decided(mem[r], target)], {}, ok)
  /\ UNCHANGED <<used, trusted, now, restarts, damage>>

\* The decision came too late: the review expires, the method raises and the
\* subclass does not reach its save.
DecideLate(r) ==
  /\ Overdue(mem[r])
  /\ mem' = [mem EXCEPT ![r] = Lapsed(mem[r])]
  /\ UNCHANGED <<db, used, trusted, now, faults, restarts, damage>>

\* A service reads the review, and _validate_review passes.
Validate(r) ==
  /\ mem[r].status = "approved"
  /\ now < mem[r].expires
  /\ Verified(mem[r])
  /\ trusted' = trusted \cup {r}
  /\ UNCHANGED <<mem, db, used, now, faults, restarts, damage>>

EndOfUse(r) ==
  /\ r \in trusted
  /\ trusted' = trusted \ {r}
  /\ UNCHANGED <<mem, db, used, now, faults, restarts, damage>>

\* _restore, with the save of what expired while Core was down.  A row that does not
\* verify is passed over and stays in the file.
Restart ==
  /\ restarts < MaxRestarts
  /\ restarts' = restarts + 1
  /\ mem' = [r \in Reviews |-> IF Verified(db[r]) THEN Lapsed(db[r]) ELSE NoReview]
  /\ db' = [r \in Reviews |-> IF Verified(db[r]) THEN Lapsed(db[r]) ELSE db[r]]
  /\ trusted' = {}
  /\ UNCHANGED <<used, now, faults, damage>>

\* Something else than the store alters a row, or leaves one that this version of Core
\* cannot decode.
Damage(r) ==
  /\ damage < MaxDamage
  /\ damage' = damage + 1
  /\ db[r].status # "absent"
  /\ db' = [db EXCEPT ![r].intact = FALSE]
  /\ UNCHANGED <<mem, used, trusted, now, faults, restarts>>

Tick ==
  /\ now < MaxTime
  /\ now' = now + 1
  /\ UNCHANGED <<mem, db, used, trusted, faults, restarts, damage>>

Next ==
  \/ \E r \in Reviews, ttl \in TTLs, ok \in BOOLEAN : Create(r, ttl, ok)
  \/ CreateRefused
  \/ \E seen \in SUBSET Reviews, ok \in BOOLEAN : Look(seen, ok)
  \/ \E r \in Reviews, target \in Decisions, ok \in BOOLEAN : Decide(r, target, ok)
  \/ \E r \in Reviews : DecideLate(r) \/ Validate(r) \/ EndOfUse(r) \/ Damage(r)
  \/ Restart
  \/ Tick

Spec == Init /\ [][Next]_vars

----------------------------------------------------------------------------
(* Properties *)

TypeOK ==
  /\ mem \in [Reviews -> Review]
  /\ db \in [Reviews -> Review]
  /\ used \in SUBSET Reviews
  /\ trusted \in SUBSET Reviews
  /\ now \in 1..MaxTime
  /\ faults \in 0..MaxFaults
  /\ restarts \in 0..MaxRestarts
  /\ damage \in 0..MaxDamage

\* A service acts on a copy it took before other threads decided, listed or
\* evicted: the approval it relies on was not taken back meanwhile.
TrustIsAuthorized == \A r \in trusted : mem[r].status \in {"approved", "absent"}

\* What a person decides on, and what a service acts on, is what was submitted for
\* review: a row that was altered in the file does not come back as a review.
ReviewsAreOriginal == \A r \in Reviews : mem[r].intact

\* "A lock permits only one terminal transition": approval, rejection,
\* cancellation and expiry race, and the first one stays, in memory until a
\* restart and in the rows for ever (or until the record is evicted).
OneTerminalTransition ==
  [][\A r \in Reviews :
       /\ db[r].status \in Terminal => db'[r].status \in {db[r].status, "absent"}
       /\ mem[r].status \in Terminal /\ restarts' = restarts =>
            mem'[r].status \in {mem[r].status, "absent"}]_vars

\* A still valid pending review is never evicted to make room.
PendingIsKept ==
  [][\A r \in Reviews :
       mem[r].status = "pending_review" /\ now < mem[r].expires /\ restarts' = restarts =>
         mem'[r].status # "absent"]_vars

=============================================================================
