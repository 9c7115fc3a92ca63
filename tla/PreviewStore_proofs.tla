------------------------ MODULE PreviewStore_proofs ------------------------
(***************************************************************************)
(* Theorems about the preview store, for every number of previews, steps,  *)
(* failed transactions and restarts.                                       *)
(***************************************************************************)
EXTENDS PreviewStore, TLAPS

USE LimitAssumption, BoundAssumption, NoneAssumption

LEMMA StatusNames ==
  /\ {"pending_confirmation", "confirmed", "expired", "cancelled", "consumed", "absent"}
        \subseteq Open \cup Closed \cup {"absent"}
  /\ \A st \in Open : st # "absent" /\ st \notin Closed
  /\ \A st \in Closed : st # "absent"
  /\ "pending_confirmation" \in Open /\ "confirmed" \in Open
  BY DEF Open, Closed

LEMMA NoPreviewType == NoPreview \in Preview /\ NoPreview.status = "absent"
  BY DEF NoPreview, Preview

LEMMA NewPreviewType ==
  ASSUME TypeOK, NEW k \in Keys
  PROVE  /\ NewPreview(k) \in Preview
         /\ NewPreview(k).status = "pending_confirmation" /\ NewPreview(k).key = k
  BY StatusNames DEF TypeOK, NewPreview, Preview

\* A change of status keeps the preview's step.
LEMMA StatusUpdate ==
  ASSUME NEW prev \in Preview, NEW st \in Open \cup Closed \cup {"absent"}
  PROVE  /\ [prev EXCEPT !.status = st] \in Preview
         /\ [prev EXCEPT !.status = st].status = st
         /\ [prev EXCEPT !.status = st].key = prev.key
  BY DEF Preview

LEMMA SetStatusFacts ==
  ASSUME TypeOK, NEW p \in Previews, NEW st \in Open \cup Closed
  PROVE  /\ SetStatus(p, st) \in [Previews -> Preview]
         /\ SetStatus(p, st)[p].status = st
         /\ SetStatus(p, st)[p].key = mem[p].key
         /\ \A q \in Previews : q # p => SetStatus(p, st)[q] = mem[q]
<1>1. mem[p] \in Preview
  BY DEF TypeOK
<1>2. [mem[p] EXCEPT !.status = st] \in Preview
  BY <1>1, StatusUpdate
<1>3. SetStatus(p, st)[p] = [mem[p] EXCEPT !.status = st]
  BY DEF SetStatus, TypeOK
<1>4. SetStatus(p, st) \in [Previews -> Preview]
  BY <1>2 DEF SetStatus, TypeOK
<1>5. \A q \in Previews : q # p => SetStatus(p, st)[q] = mem[q]
  BY DEF SetStatus, TypeOK
<1>6. QED
  BY <1>1, <1>3, <1>4, <1>5, StatusUpdate

\* What a transaction does to the rows.
LEMMA PersistFacts ==
  ASSUME TypeOK, NEW p \in Previews, NEW prev \in Preview, NEW gone, NEW ok \in BOOLEAN,
         Persist(p, prev, gone, ok)
  PROVE  /\ db' \in [Previews -> Preview]
         /\ faults' \in 0..MaxFaults
         /\ ~ok => db' = db
         /\ ok => /\ Attached(prev) /\ ~Clash(p, prev, gone)
                  /\ db'[p] = prev
                  /\ \A q \in Previews : q # p =>
                       db'[q] = IF q \in gone THEN NoPreview ELSE db[q]
<1> DEFINE new == [q \in Previews |-> IF q = p THEN prev
                                      ELSE IF q \in gone THEN NoPreview ELSE db[q]]
<1>1. new \in [Previews -> Preview]
  BY NoPreviewType DEF TypeOK
<1>2. faults' = faults \/ (faults < MaxFaults /\ faults' = faults + 1)
  BY Zenon DEF Persist
<1>3. ~ok => db' = db
  BY Zenon DEF Persist
<1>4. ok => Attached(prev) /\ ~Clash(p, prev, gone) /\ db' = new
  BY Zenon DEF Persist
<1>5. QED
  BY <1>1, <1>2, <1>3, <1>4 DEF TypeOK

LEMMA MoveFacts ==
  ASSUME TypeOK, NEW p \in Previews, NEW st \in Open \cup Closed, NEW ok \in BOOLEAN,
         Move(p, st, ok)
  PROVE  /\ mem' \in [Previews -> Preview]
         /\ mem'[p].status = st /\ mem'[p].key = mem[p].key
         /\ \A q \in Previews : q # p => mem'[q] = mem[q]
         /\ db' \in [Previews -> Preview]
         /\ faults' \in 0..MaxFaults
         /\ \A q \in Previews : q # p => db'[q] = db[q]
         /\ ~ok => db' = db
         /\ ok => /\ db'[p].status = st /\ db'[p].key = mem[p].key
                  /\ mem[p].key[1] \in rows
                  /\ st \in Open => \A q \in Previews : q # p =>
                       ~(db[q].status \in Open /\ db[q].key = mem[p].key)
<1> DEFINE prev == [mem[p] EXCEPT !.status = st]
<1>1. prev \in Preview /\ prev.status = st /\ prev.key = mem[p].key
  BY StatusUpdate DEF TypeOK
<1>2. mem' = SetStatus(p, st) /\ Persist(p, prev, {}, ok)
  BY DEF Move
<1> HIDE DEF prev
<1>3. /\ db' \in [Previews -> Preview]
      /\ faults' \in 0..MaxFaults
      /\ ~ok => db' = db
      /\ ok => /\ Attached(prev) /\ ~Clash(p, prev, {})
               /\ db'[p] = prev
               /\ \A q \in Previews : q # p => db'[q] = db[q]
  BY <1>1, <1>2, PersistFacts
<1>4. QED
  BY <1>1, <1>2, <1>3, SetStatusFacts DEF Attached, Clash

\* What create's own expiry of the step's overdue preview leaves.
LEMMA CreateFacts ==
  ASSUME TypeOK, NEW p \in Previews, NEW k \in Keys, NEW ok \in BOOLEAN, Create(p, k, ok)
  PROVE  /\ p \notin used /\ used' = used \cup {p}
         /\ mem' \in [Previews -> Preview]
         /\ mem'[p].status = "pending_confirmation" /\ mem'[p].key = k
         /\ \A q \in Previews : q # p =>
              \/ mem'[q] = mem[q]
              \/ mem'[q].status = "absent" /\ mem[q].status \in Closed
              \/ /\ mem[q].status = "pending_confirmation" /\ active[k] = q
                 /\ \/ mem'[q].status = "expired" /\ mem'[q].key = mem[q].key
                    \/ mem'[q].status = "absent"
         /\ db' \in [Previews -> Preview]
         /\ faults' \in 0..MaxFaults
         /\ \A q \in Previews : q # p =>
              db'[q] = db[q] \/ (db'[q] = NoPreview /\ mem'[q].status = "absent")
         /\ db'[p] = db[p] \/ (db'[p].status = "pending_confirmation" /\ db'[p].key = k)
         /\ active' = [active EXCEPT ![k] = p]
         /\ UNCHANGED <<rows, granted, holders, now, restarts>>
<1> DEFINE old == active[k]
           m   == IF old # None /\ Overdue(old) THEN SetStatus(old, "expired") ELSE mem
<1>1. /\ m \in [Previews -> Preview]
      /\ \A q \in Previews :
           \/ m[q] = mem[q]
           \/ /\ q = old /\ mem[q].status = "pending_confirmation"
              /\ m[q].status = "expired" /\ m[q].key = mem[q].key
  <2>1. CASE old # None /\ Overdue(old)
    <3>1. old \in Previews /\ mem[old].status = "pending_confirmation"
      BY <2>1 DEF TypeOK, Overdue, Pending
    <3>2. m = SetStatus(old, "expired") /\ "expired" \in Open \cup Closed
      BY <2>1 DEF Closed
    <3> HIDE DEF m, old
    <3>3. QED
      BY <3>1, <3>2, SetStatusFacts
  <2>2. CASE ~(old # None /\ Overdue(old))
    BY <2>2 DEF TypeOK
  <2>3. QED
    BY <2>1, <2>2
<1>2. PICK gone \in EvictionChoices(m) :
        /\ mem' = [q \in Previews |-> IF q = p THEN NewPreview(k)
                                      ELSE IF q \in gone THEN NoPreview ELSE m[q]]
        /\ Persist(p, NewPreview(k), gone, ok)
  BY DEF Create
<1>3. /\ p \notin used /\ used' = used \cup {p} /\ active' = [active EXCEPT ![k] = p]
      /\ UNCHANGED <<rows, granted, holders, now, restarts>>
  BY DEF Create
<1> HIDE DEF m
<1>4. \A q \in gone : q \in Previews => m[q].status \in Closed
  BY <1>2 DEF EvictionChoices, Ended
<1>5. /\ mem' \in [Previews -> Preview] /\ mem'[p] = NewPreview(k)
      /\ \A q \in Previews : q # p =>
           IF q \in gone THEN mem'[q] = NoPreview ELSE mem'[q] = m[q]
  BY <1>1, <1>2, NewPreviewType, NoPreviewType
<1>6. /\ db' \in [Previews -> Preview] /\ faults' \in 0..MaxFaults
      /\ \A q \in Previews : q # p =>
           db'[q] = db[q] \/ (db'[q] = NoPreview /\ q \in gone)
      /\ db'[p] = db[p] \/ db'[p] = NewPreview(k)
  <2>1. NewPreview(k) \in Preview
    BY NewPreviewType
  <2>2. QED
    BY <1>2, <2>1, PersistFacts
<1>7. \A q \in Previews : q # p =>
        \/ mem'[q] = mem[q]
        \/ mem'[q].status = "absent" /\ mem[q].status \in Closed
        \/ /\ mem[q].status = "pending_confirmation" /\ active[k] = q
           /\ \/ mem'[q].status = "expired" /\ mem'[q].key = mem[q].key
              \/ mem'[q].status = "absent"
  BY <1>1, <1>4, <1>5, NoPreviewType
<1>8. QED
  BY <1>3, <1>5, <1>6, <1>7, NewPreviewType, NoPreviewType

LEMMA RestoredFacts ==
  ASSUME NEW prev \in Preview
  PROVE  /\ Restored(prev) \in Preview
         /\ Restored(prev).key = prev.key
         /\ Restored(prev).status = "pending_confirmation" =>
              prev.status = "pending_confirmation"
<1>1. CASE prev.status = "confirmed"
  BY <1>1, StatusUpdate, StatusNames DEF Restored
<1>2. CASE prev.status = "pending_confirmation" /\ now >= prev.created + TTL
  BY <1>2, StatusUpdate, StatusNames DEF Restored
<1>3. CASE prev.status # "confirmed"
           /\ ~(prev.status = "pending_confirmation" /\ now >= prev.created + TTL)
  BY <1>3 DEF Restored
<1>4. QED
  BY <1>1, <1>2, <1>3

LEMMA RestartFacts ==
  ASSUME TypeOK, Restart
  PROVE  /\ mem' \in [Previews -> Preview] /\ db' = mem'
         /\ \A p \in Previews : /\ mem'[p].key = db[p].key
                                /\ mem'[p].status = "pending_confirmation" =>
                                     db[p].status = "pending_confirmation"
         /\ active' \in [Keys -> Previews \cup {None}]
         /\ \A k \in Keys : active'[k] # None =>
              mem'[active'[k]].status = "pending_confirmation" /\ mem'[active'[k]].key = k
         /\ holders' = {} /\ restarts' \in 0..MaxRestarts
         /\ UNCHANGED <<rows, used, granted, now, faults>>
<1>1. mem' = [p \in Previews |-> Restored(db[p])] /\ db' = mem'
  BY DEF Restart
<1>2. \A p \in Previews : db[p] \in Preview
  BY DEF TypeOK
<1>3. /\ mem' \in [Previews -> Preview]
      /\ \A p \in Previews : /\ mem'[p] = Restored(db[p])
                             /\ mem'[p].key = db[p].key
                             /\ mem'[p].status = "pending_confirmation" =>
                                  db[p].status = "pending_confirmation"
  BY <1>1, <1>2, RestoredFacts
<1>4. active' = [k \in Keys |-> IF OpenAfterRestart(k) = {} THEN None
                               ELSE CHOOSE p \in OpenAfterRestart(k) : TRUE]
  BY DEF Restart
<1>5. \A k \in Keys : active'[k] = None \/ active'[k] \in OpenAfterRestart(k)
  BY <1>4
<1>6. \A k \in Keys : OpenAfterRestart(k) \subseteq Previews
  BY DEF OpenAfterRestart
<1>7. active' \in [Keys -> Previews \cup {None}]
  BY <1>4, <1>5, <1>6
<1>8. \A k \in Keys : \A p \in OpenAfterRestart(k) :
        mem'[p].status = "pending_confirmation" /\ mem'[p].key = k
  BY <1>3 DEF OpenAfterRestart
<1>9. /\ holders' = {} /\ restarts' \in 0..MaxRestarts
      /\ UNCHANGED <<rows, used, granted, now, faults>>
  BY DEF Restart, TypeOK
<1>10. QED
  BY <1>1, <1>3, <1>5, <1>7, <1>8, <1>9

----------------------------------------------------------------------------
(* Types *)

LEMMA TypeStep == TypeOK /\ [Next]_vars => TypeOK'
<1> SUFFICES ASSUME TypeOK, [Next]_vars PROVE TypeOK'
  OBVIOUS
<1>1. ASSUME NEW p \in Previews, NEW k \in Keys, NEW ok \in BOOLEAN, Create(p, k, ok)
      PROVE  TypeOK'
  BY <1>1, CreateFacts DEF TypeOK
<1>2. ASSUME NEW p \in Previews, NEW ok \in BOOLEAN,
             Expire(p, ok) \/ Claim(p, ok) \/ Consume(p, ok)
      PROVE  TypeOK'
  <2>1. PICK st \in Open \cup Closed : Move(p, st, ok)
    BY <1>2 DEF Expire, Claim, Consume, Open, Closed
  <2>2. mem' \in [Previews -> Preview] /\ db' \in [Previews -> Preview]
        /\ faults' \in 0..MaxFaults
    BY <2>1, MoveFacts
  <2>3. active' \in [Keys -> Previews \cup {None}]
    BY <1>2 DEF Expire, Claim, Consume, Without, TypeOK
  <2>4. granted' \in [Previews -> Nat] /\ holders' \in SUBSET Previews
    BY <1>2 DEF Expire, Claim, Consume, TypeOK
  <2>5. UNCHANGED <<rows, used, now, restarts>>
    BY <1>2 DEF Expire, Claim, Consume
  <2>6. QED
    BY <2>2, <2>3, <2>4, <2>5 DEF TypeOK
<1>3. ASSUME NEW k \in Keys, NEW ok \in BOOLEAN, Cancel(k, ok)
      PROVE  TypeOK'
  <2>1. active[k] \in Previews /\ Move(active[k], "cancelled", ok)
    BY <1>3 DEF Cancel, TypeOK
  <2>2. "cancelled" \in Open \cup Closed
    BY DEF Closed
  <2>3. mem' \in [Previews -> Preview] /\ db' \in [Previews -> Preview]
        /\ faults' \in 0..MaxFaults
    BY <2>1, <2>2, MoveFacts
  <2>4. active' \in [Keys -> Previews \cup {None}]
    BY <1>3 DEF Cancel, Without, TypeOK
  <2>5. QED
    BY <1>3, <2>3, <2>4 DEF Cancel, TypeOK
<1>4. ASSUME NEW p \in Previews, HolderLost(p)
      PROVE  TypeOK'
  BY <1>4 DEF HolderLost, TypeOK
<1>5. ASSUME NEW x \in Execs, ExecutionEvicted(x)
      PROVE  TypeOK'
  BY <1>5, NoPreviewType DEF ExecutionEvicted, TypeOK
<1>6. CASE Restart
  BY <1>6, RestartFacts DEF TypeOK
<1>7. CASE Tick
  BY <1>7 DEF Tick, TypeOK
<1>8. CASE UNCHANGED vars
  BY <1>8 DEF vars, TypeOK
<1>9. QED
  BY <1>1, <1>2, <1>3, <1>4, <1>5, <1>6, <1>7, <1>8 DEF Next, PreviewOperation

\* Type correctness of the preview store, through failed writes and restarts.
THEOREM TypeCorrect == Spec => []TypeOK
<1>1. Init => TypeOK
  BY NoPreviewType DEF Init, TypeOK
<1>2. QED
  BY <1>1, TypeStep, PTL DEF Spec

----------------------------------------------------------------------------
(* The inductive invariant.  ClaimedOnce needs to know that a granted preview  *)
(* is pending nowhere, and OneClaimPerStep that the claim a thread holds is a  *)
(* row, under its own step: the UNIQUE index then refuses the second claim.    *)

Fresh ==
  \A p \in Previews \ used :
    /\ mem[p].status = "absent" /\ db[p].status = "absent"
    /\ granted[p] = 0 /\ p \notin holders

SameKey ==
  \A p \in Previews : mem[p].status # "absent" /\ db[p].status # "absent" =>
    db[p].key = mem[p].key

Spent ==
  \A p \in Previews : db[p].status \in Closed \cup {"confirmed"} =>
    mem[p].status # "pending_confirmation"

Granted ==
  \A p \in Previews : granted[p] # 0 =>
    /\ granted[p] = 1
    /\ mem[p].status # "pending_confirmation"
    /\ db[p].status # "pending_confirmation"

HolderConfirmed == \A p \in holders : mem[p].status = "confirmed"

IInv == /\ TypeOK /\ Fresh /\ SameKey /\ Spent /\ Granted /\ HolderConfirmed
        /\ IndexIsSound /\ OneClaimPerStep /\ ClaimIsDurable

\* A preview that ends takes its step's entry with it.
LEMMA EndKeepsIInv ==
  ASSUME IInv, TypeOK', NEW p \in Previews, NEW st \in Closed, NEW ok \in BOOLEAN,
         Move(p, st, ok), mem[p].status # "absent",
         active' = Without(mem[p].key), holders' = holders \ {p},
         UNCHANGED <<rows, used, granted>>
  PROVE  IInv'
<1>1. /\ mem'[p].status = st /\ mem'[p].key = mem[p].key
      /\ \A q \in Previews : q # p => mem'[q] = mem[q] /\ db'[q] = db[q]
      /\ db'[p] = db[p] \/ (db'[p].status = st /\ db'[p].key = mem[p].key)
  BY MoveFacts DEF IInv
<1>2. st \notin Open /\ st # "absent" /\ st # "pending_confirmation" /\ st # "confirmed"
  BY DEF Open, Closed
<1>3. \A k \in Keys : active'[k] = None \/ (k # mem[p].key /\ active'[k] = active[k])
  BY DEF Without, IInv, TypeOK
<1>4. Fresh' /\ SameKey' /\ Spent' /\ Granted'
  BY <1>1, <1>2 DEF IInv, Fresh, SameKey, Spent, Granted
<1>5. HolderConfirmed' /\ OneClaimPerStep' /\ ClaimIsDurable'
  BY <1>1 DEF IInv, HolderConfirmed, OneClaimPerStep, ClaimIsDurable, TypeOK
<1>6. IndexIsSound'
  BY <1>1, <1>3 DEF IInv, IndexIsSound, TypeOK
<1>7. QED
  BY <1>4, <1>5, <1>6 DEF IInv

LEMMA ClaimKeepsIInv ==
  ASSUME IInv, TypeOK', NEW p \in Previews, NEW ok \in BOOLEAN, Claim(p, ok)
  PROVE  IInv'
<1>1. /\ mem[p].status = "pending_confirmation" /\ Move(p, "confirmed", ok)
      /\ UNCHANGED <<active, rows, used>>
      /\ holders' = IF ok THEN holders \cup {p} ELSE holders
      /\ granted' = IF ok THEN [granted EXCEPT ![p] = @ + 1] ELSE granted
  BY DEF Claim, CanClaim, Pending
<1>2. /\ mem'[p].status = "confirmed" /\ mem'[p].key = mem[p].key
      /\ \A q \in Previews : q # p => mem'[q] = mem[q] /\ db'[q] = db[q]
      /\ ~ok => db' = db
      /\ ok => /\ db'[p].status = "confirmed" /\ db'[p].key = mem[p].key
               /\ \A q \in Previews : q # p =>
                    ~(db[q].status \in Open /\ db[q].key = mem[p].key)
      /\ ok => mem[p].key[1] \in rows
  BY <1>1, MoveFacts, StatusNames DEF IInv
<1>3. p \in used /\ granted[p] = 0
  BY <1>1 DEF IInv, Fresh, Granted
<1>4. /\ \A q \in Previews : q # p => granted'[q] = granted[q]
      /\ granted'[p] = IF ok THEN 1 ELSE 0
  BY <1>1, <1>3 DEF IInv, TypeOK
<1>5. Fresh' /\ SameKey' /\ Spent'
  BY <1>1, <1>2, <1>3, <1>4 DEF IInv, Fresh, SameKey, Spent
<1>6. Granted'
  BY <1>2, <1>4 DEF IInv, Granted
<1>7. HolderConfirmed' /\ ClaimIsDurable'
  BY <1>1, <1>2 DEF IInv, HolderConfirmed, ClaimIsDurable, TypeOK
<1>8. IndexIsSound'
  BY <1>1, <1>2, StatusNames DEF IInv, IndexIsSound, TypeOK
<1>9. OneClaimPerStep'
  <2>1. ASSUME ok, NEW q \in holders, q # p PROVE mem[q].key # mem[p].key
    <3>1. q \in Previews /\ mem[q].status # "absent" /\ "confirmed" # "absent"
      BY <2>1 DEF IInv, TypeOK, HolderConfirmed
    <3>2. CASE mem[q].key[1] \in rows
      <4>1. db[q].status = "confirmed" /\ db[q].key = mem[q].key
        BY <3>1, <3>2, <2>1 DEF IInv, ClaimIsDurable, SameKey
      <4>2. QED
        BY <1>2, <2>1, <3>1, <4>1, StatusNames
    <3>3. CASE mem[q].key[1] \notin rows
      BY <1>2, <2>1, <3>3
    <3>4. QED
      BY <3>2, <3>3
  <2>2. QED
    BY <1>1, <1>2, <2>1 DEF IInv, OneClaimPerStep, TypeOK
<1>10. QED
  BY <1>5, <1>6, <1>7, <1>8, <1>9 DEF IInv

LEMMA CreateKeepsIInv ==
  ASSUME IInv, TypeOK', NEW p \in Previews, NEW k \in Keys, NEW ok \in BOOLEAN,
         Create(p, k, ok)
  PROVE  IInv'
<1>1. /\ p \notin used /\ used' = used \cup {p}
      /\ mem'[p].status = "pending_confirmation" /\ mem'[p].key = k
      /\ \A q \in Previews : q # p =>
           \/ mem'[q] = mem[q]
           \/ mem'[q].status = "absent" /\ mem[q].status \in Closed
           \/ /\ mem[q].status = "pending_confirmation" /\ active[k] = q
              /\ \/ mem'[q].status = "expired" /\ mem'[q].key = mem[q].key
                 \/ mem'[q].status = "absent"
      /\ \A q \in Previews : q # p =>
           db'[q] = db[q] \/ (db'[q] = NoPreview /\ mem'[q].status = "absent")
      /\ db'[p] = db[p] \/ (db'[p].status = "pending_confirmation" /\ db'[p].key = k)
      /\ active' = [active EXCEPT ![k] = p]
      /\ UNCHANGED <<rows, granted, holders>>
  BY CreateFacts DEF IInv
<1>2. /\ mem[p].status = "absent" /\ db[p].status = "absent"
      /\ granted[p] = 0 /\ p \notin holders
  BY <1>1 DEF IInv, Fresh
<1>3. /\ NoPreview.status = "absent" /\ "absent" \notin Closed /\ "absent" # "confirmed"
      /\ "pending_confirmation" \notin Closed /\ "confirmed" \notin Closed
  BY NoPreviewType DEF Closed
<1>4. Fresh'
  BY <1>1, <1>2, <1>3 DEF IInv, Fresh
<1>5. SameKey' /\ Spent' /\ Granted'
  BY <1>1, <1>2, <1>3 DEF IInv, SameKey, Spent, Granted
<1>6. \A q \in holders : q # p /\ q \in Previews /\ mem'[q] = mem[q] /\ db'[q] = db[q]
  BY <1>1, <1>2, <1>3 DEF IInv, HolderConfirmed, TypeOK
<1>7. HolderConfirmed' /\ OneClaimPerStep' /\ ClaimIsDurable'
  BY <1>1, <1>6 DEF IInv, HolderConfirmed, OneClaimPerStep, ClaimIsDurable
<1>8. IndexIsSound'
  <2>1. active'[k] = p /\ \A j \in Keys : j # k => active'[j] = active[j]
    BY <1>1 DEF IInv, TypeOK
  <2>2. ASSUME NEW j \in Keys, j # k, active[j] # None
        PROVE  mem'[active[j]].status \in Open /\ mem'[active[j]].key = j
    <3> DEFINE q == active[j]
    <3>1. q \in Previews /\ mem[q].status \in Open /\ mem[q].key = j
      BY <2>2 DEF IInv, IndexIsSound, TypeOK
    <3>2. q # p
      BY <1>2, <3>1, StatusNames
    <3>3. active[k] # q
      BY <2>2, <3>1 DEF IInv, IndexIsSound
    <3>4. mem'[q] = mem[q]
      BY <1>1, <3>1, <3>2, <3>3, StatusNames
    <3>5. QED
      BY <3>1, <3>4
  <2>3. QED
    BY <1>1, <2>1, <2>2, StatusNames DEF IndexIsSound
<1>9. QED
  BY <1>4, <1>5, <1>7, <1>8 DEF IInv

LEMMA RestartKeepsIInv ==
  ASSUME IInv, TypeOK', Restart
  PROVE  IInv'
<1>1. /\ db' = mem'
      /\ \A p \in Previews : mem'[p].status = "pending_confirmation" =>
                               db[p].status = "pending_confirmation"
      /\ \A k \in Keys : active'[k] # None =>
           mem'[active'[k]].status = "pending_confirmation" /\ mem'[active'[k]].key = k
      /\ holders' = {} /\ UNCHANGED <<rows, used, granted>>
  BY RestartFacts DEF IInv
<1>2. \A p \in Previews \ used : mem'[p].status = "absent"
  BY DEF IInv, Fresh, Restart, Restored
<1>3. Fresh' /\ SameKey' /\ Granted'
  BY <1>1, <1>2 DEF IInv, Fresh, SameKey, Granted
<1>4. Spent'
  BY <1>1 DEF Spent, Closed
<1>5. HolderConfirmed' /\ OneClaimPerStep' /\ ClaimIsDurable'
  BY <1>1 DEF HolderConfirmed, OneClaimPerStep, ClaimIsDurable
<1>6. IndexIsSound'
  BY <1>1, StatusNames DEF IndexIsSound
<1>7. QED
  BY <1>3, <1>4, <1>5, <1>6 DEF IInv

LEMMA IInvStep == IInv /\ [Next]_vars => IInv'
<1> SUFFICES ASSUME IInv, [Next]_vars PROVE IInv'
  OBVIOUS
<1>t. TypeOK /\ TypeOK'
  BY TypeStep DEF IInv
<1>1. ASSUME NEW p \in Previews, NEW k \in Keys, NEW ok \in BOOLEAN, Create(p, k, ok)
      PROVE  IInv'
  BY <1>1, <1>t, CreateKeepsIInv
<1>2. ASSUME NEW p \in Previews, NEW ok \in BOOLEAN, Expire(p, ok)
      PROVE  IInv'
  <2>1. /\ Move(p, "expired", ok) /\ mem[p].status = "pending_confirmation"
        /\ active' = Without(mem[p].key) /\ UNCHANGED <<rows, used, granted, holders>>
    BY <1>2 DEF Expire, Overdue, Pending
  <2>2. p \notin holders
    BY <2>1 DEF IInv, HolderConfirmed
  <2>3. "expired" \in Closed /\ mem[p].status # "absent"
    BY <2>1 DEF Closed
  <2>4. QED
    BY <1>t, <2>1, <2>2, <2>3, EndKeepsIInv
<1>3. ASSUME NEW p \in Previews, NEW ok \in BOOLEAN, Claim(p, ok)
      PROVE  IInv'
  BY <1>3, <1>t, ClaimKeepsIInv
<1>4. ASSUME NEW p \in Previews, NEW ok \in BOOLEAN, Consume(p, ok)
      PROVE  IInv'
  <2>1. /\ Move(p, "consumed", ok) /\ mem[p].status = "confirmed"
        /\ active' = Without(mem[p].key) /\ holders' = holders \ {p}
        /\ UNCHANGED <<rows, used, granted>>
    BY <1>4 DEF Consume
  <2>2. "consumed" \in Closed /\ mem[p].status # "absent"
    BY <2>1 DEF Closed
  <2>3. QED
    BY <1>t, <2>1, <2>2, EndKeepsIInv
<1>5. ASSUME NEW k \in Keys, NEW ok \in BOOLEAN, Cancel(k, ok)
      PROVE  IInv'
  <2> DEFINE p == active[k]
  <2>1. /\ p # None /\ Move(p, "cancelled", ok) /\ mem[p].status = "pending_confirmation"
        /\ active' = Without(k) /\ UNCHANGED <<rows, used, granted, holders>>
    BY <1>5 DEF Cancel, Pending
  <2>2. p \in Previews /\ mem[p].key = k
    BY <1>t, <2>1 DEF IInv, IndexIsSound, TypeOK
  <2>3. p \notin holders
    BY <2>1 DEF IInv, HolderConfirmed
  <2>4. "cancelled" \in Closed /\ mem[p].status # "absent"
    BY <2>1 DEF Closed
  <2> HIDE DEF p
  <2>5. QED
    BY <1>t, <2>1, <2>2, <2>3, <2>4, EndKeepsIInv
<1>6. ASSUME NEW p \in Previews, HolderLost(p)
      PROVE  IInv'
  <2>1. holders' = holders \ {p} /\ UNCHANGED <<mem, active, db, rows, used, granted>>
    BY <1>6 DEF HolderLost
  <2>2. QED
    BY <1>t, <2>1 DEF IInv, Fresh, SameKey, Spent, Granted, HolderConfirmed,
       IndexIsSound, OneClaimPerStep, ClaimIsDurable
<1>7. ASSUME NEW x \in Execs, ExecutionEvicted(x)
      PROVE  IInv'
  <2>1. /\ rows' = rows \ {x} /\ UNCHANGED <<mem, active, used, granted, holders>>
        /\ \A p \in Previews : \/ db'[p] = db[p]
                               \/ /\ db'[p] = NoPreview
                                  /\ db[p].status # "absent" /\ db[p].key[1] = x
    BY <1>7, <1>t DEF ExecutionEvicted, TypeOK
  <2>2. NoPreview.status = "absent" /\ "absent" \notin Closed
    BY NoPreviewType DEF Closed
  <2>3. Fresh' /\ SameKey' /\ Spent' /\ Granted'
    BY <2>1, <2>2 DEF IInv, Fresh, SameKey, Spent, Granted
  <2>4. ClaimIsDurable'
    <3>1. \A p \in holders : p \in Previews /\ mem[p].status = "confirmed"
      BY <1>t DEF IInv, HolderConfirmed, TypeOK
    <3>2. \A p \in holders : db'[p] = NoPreview => mem[p].key[1] \notin rows'
      BY <2>1, <2>2, <3>1 DEF IInv, SameKey, ClaimIsDurable
    <3>3. QED
      BY <2>1, <3>1, <3>2 DEF IInv, ClaimIsDurable
  <2>5. HolderConfirmed' /\ OneClaimPerStep' /\ IndexIsSound'
    BY <2>1 DEF IInv, HolderConfirmed, OneClaimPerStep, IndexIsSound
  <2>6. QED
    BY <1>t, <2>3, <2>4, <2>5 DEF IInv
<1>8. CASE Restart
  BY <1>8, <1>t, RestartKeepsIInv
<1>9. CASE Tick \/ UNCHANGED vars
  <2>1. UNCHANGED <<mem, active, db, rows, used, granted, holders>>
    BY <1>9 DEF Tick, vars
  <2>2. QED
    BY <1>t, <2>1 DEF IInv, Fresh, SameKey, Spent, Granted, HolderConfirmed,
       IndexIsSound, OneClaimPerStep, ClaimIsDurable
<1>10. QED
  BY <1>1, <1>2, <1>3, <1>4, <1>5, <1>6, <1>7, <1>8, <1>9 DEF Next, PreviewOperation

LEMMA IInvHolds == Spec => []IInv
<1>1. Init => IInv
  <2>1. Init => TypeOK
    BY NoPreviewType DEF Init, TypeOK
  <2>2. Init => IndexIsSound /\ OneClaimPerStep /\ ClaimIsDurable /\ HolderConfirmed
    BY DEF Init, IndexIsSound, OneClaimPerStep, ClaimIsDurable, HolderConfirmed
  <2>3. Init => Fresh /\ SameKey /\ Spent /\ Granted
    BY DEF Init, NoPreview, Fresh, SameKey, Spent, Granted, Closed
  <2>4. QED
    BY <2>1, <2>2, <2>3 DEF IInv
<1>2. QED
  BY <1>1, IInvStep, PTL DEF Spec

\* The index of open previews never dangles, so no lookup of a step's preview
\* raises KeyError.
THEOREM IndexIsSoundHolds == Spec => []IndexIsSound
<1>1. IInv => IndexIsSound
  BY DEF IInv
<1>2. QED
  BY <1>1, IInvHolds, PTL

\* Confirmation is single-use: no preview is granted twice.
THEOREM ClaimedOnceHolds == Spec => []ClaimedOnce
<1>1. IInv => ClaimedOnce
  BY DEF IInv, TypeOK, Granted, ClaimedOnce
<1>2. QED
  BY <1>1, IInvHolds, PTL

\* Two confirmations never hold previews of one step.
THEOREM OneClaimPerStepHolds == Spec => []OneClaimPerStep
<1>1. IInv => OneClaimPerStep
  BY DEF IInv
<1>2. QED
  BY <1>1, IInvHolds, PTL

\* A granted claim is durable for as long as its thread may act on it.
THEOREM ClaimIsDurableHolds == Spec => []ClaimIsDurable
<1>1. IInv => ClaimIsDurable
  BY DEF IInv
<1>2. QED
  BY <1>1, IInvHolds, PTL

\* One step never brings back a preview whose row left pending.
LEMMA SpentStep ==
  ASSUME IInv, [Next]_vars, NEW p \in Previews, db[p].status \in Closed \cup {"confirmed"}
  PROVE  db'[p].status # "pending_confirmation" /\ mem'[p].status # "pending_confirmation"
<1>0. TypeOK /\ mem[p].status # "pending_confirmation"
  BY DEF IInv, Spent
<1>1. db[p].status # "pending_confirmation" /\ db[p].status # "absent"
  BY DEF Closed
<1>2. ASSUME NEW q \in Previews, NEW k \in Keys, NEW ok \in BOOLEAN, Create(q, k, ok)
      PROVE  db'[p].status # "pending_confirmation" /\ mem'[p].status # "pending_confirmation"
  <2>1. q # p
    BY <1>1, <1>2 DEF IInv, Fresh, Create
  <2>2. /\ db'[p] = db[p] \/ db'[p] = NoPreview
        /\ \/ mem'[p] = mem[p]
           \/ mem'[p].status \in {"absent", "expired"}
    BY <1>0, <1>2, <2>1, CreateFacts
  <2>3. QED
    BY <1>0, <1>1, <2>2, NoPreviewType
<1>3. ASSUME NEW q \in Previews, NEW st \in (Open \cup Closed) \ {"pending_confirmation"},
             NEW ok \in BOOLEAN, Move(q, st, ok)
      PROVE  db'[p].status # "pending_confirmation" /\ mem'[p].status # "pending_confirmation"
  BY <1>0, <1>1, <1>3, MoveFacts
<1>4. ASSUME NEW q \in Previews, NEW ok \in BOOLEAN,
             Expire(q, ok) \/ Claim(q, ok) \/ Consume(q, ok)
      PROVE  db'[p].status # "pending_confirmation" /\ mem'[p].status # "pending_confirmation"
  <2>1. PICK st \in (Open \cup Closed) \ {"pending_confirmation"} : Move(q, st, ok)
    BY <1>4 DEF Expire, Claim, Consume, Open, Closed
  <2>2. QED
    BY <1>3, <2>1
<1>5. ASSUME NEW k \in Keys, NEW ok \in BOOLEAN, Cancel(k, ok)
      PROVE  db'[p].status # "pending_confirmation" /\ mem'[p].status # "pending_confirmation"
  <2>1. active[k] \in Previews /\ Move(active[k], "cancelled", ok)
    BY <1>0, <1>5 DEF Cancel, TypeOK
  <2>2. "cancelled" \in (Open \cup Closed) \ {"pending_confirmation"}
    BY DEF Open, Closed
  <2>3. QED
    BY <1>3, <2>1, <2>2
<1>6. ASSUME NEW x \in Execs, ExecutionEvicted(x)
      PROVE  db'[p].status # "pending_confirmation" /\ mem'[p].status # "pending_confirmation"
  BY <1>0, <1>1, <1>6, NoPreviewType DEF ExecutionEvicted
<1>7. CASE Restart
  BY <1>0, <1>1, <1>7, RestartFacts
<1>8. CASE UNCHANGED <<mem, db>>
  BY <1>0, <1>1, <1>8
<1>9. QED
  BY <1>2, <1>4, <1>5, <1>6, <1>7, <1>8
     DEF Next, PreviewOperation, HolderLost, Tick, vars

\* A preview that left pending in the rows is never offered again.
THEOREM SpentStaysSpentHolds == Spec => SpentStaysSpent
<1>1. IInv /\ [Next]_vars =>
        [\A p \in Previews : db[p].status \in Closed \cup {"confirmed"} =>
           /\ db'[p].status # "pending_confirmation"
           /\ mem'[p].status # "pending_confirmation"]_vars
  BY SpentStep
<1>2. QED
  BY <1>1, IInvHolds, PTL DEF Spec, SpentStaysSpent

=============================================================================
