---------------------------- MODULE PreviewStore ----------------------------
(***************************************************************************)
(* The single-use previews that stand between an approved mutating step    *)
(* and its effect: MutationPreviewStore with its index of the open preview *)
(* of each step, and the SQLite subclass that writes every transition      *)
(* after memory has made it.  Each method holds the store's RLock, so it is *)
(* one action; a confirmation thread that was granted a claim is a member  *)
(* of holders until it consumes the preview or leaves without doing so.    *)
(*                                                                         *)
(* The rows live under two constraints: one open row for each step (a      *)
(* partial UNIQUE index) and an execution row to refer to (a foreign key   *)
(* that cascades when the execution store evicts the record).              *)
(***************************************************************************)
EXTENDS Integers, FiniteSets

CONSTANTS
  Previews,     \* preview ids: random tokens, each issued once
  Execs,        \* execution ids
  Steps,        \* step indexes
  None,         \* no preview
  MaxRecords,   \* capacity (max_records)
  TTL,          \* lifetime of a preview (ttl_seconds)
  MaxTime,      \* bound: clock readings
  MaxFaults,    \* bound: failed transactions
  MaxRestarts   \* bound: restarts of Core

ASSUME LimitAssumption == MaxRecords \in Nat \ {0} /\ TTL \in Nat \ {0}
ASSUME BoundAssumption == MaxTime \in Nat \ {0} /\ MaxFaults \in Nat /\ MaxRestarts \in Nat
ASSUME NoneAssumption  == None \notin Previews \cup Execs \cup Steps

VARIABLES
  mem,       \* _records: preview id -> preview, NoPreview when there is none
  active,    \* _active: step of an execution -> preview id
  db,        \* the mutation_previews rows, same shape as mem
  rows,      \* executions that have a row to refer to
  used,      \* preview ids issued so far
  granted,   \* how often a claim on the preview returned to its caller
  holders,   \* previews whose claim returned and whose thread still runs
  now,       \* the store's clock
  faults,    \* transactions that failed
  restarts   \* restarts of Core

vars == <<mem, active, db, rows, used, granted, holders, now, faults, restarts>>

----------------------------------------------------------------------------
(* Previews *)

Open   == {"pending_confirmation", "confirmed"}
Closed == {"expired", "cancelled", "consumed"}
Keys   == Execs \X Steps

Preview ==
  [status  : Open \cup Closed \cup {"absent"},
   key     : Keys \cup {None},
   created : 0..MaxTime]

NoPreview == [status |-> "absent", key |-> None, created |-> 0]

NewPreview(k) == [status |-> "pending_confirmation", key |-> k, created |-> now]

Stored(m)    == {p \in Previews : m[p].status # "absent"}
Ended(m)     == {p \in Previews : m[p].status \in Closed}
Pending(p)   == mem[p].status = "pending_confirmation"
Overdue(p)   == Pending(p) /\ now >= mem[p].created + TTL
SetStatus(p, st) == [mem EXCEPT ![p].status = st]

\* Mutant: the index keeps the preview that left the step.
Without_Kept(k) == active

\* The pop of the index names the step, not the preview.
Without(k) == [active EXCEPT ![k] = None]

\* _make_room: one of the oldest previews that ended, if the store is full.
EvictionChoices(m) ==
  IF Cardinality(Stored(m)) < MaxRecords
  THEN {{}}
  ELSE {{p} : p \in {q \in Ended(m) : \A r \in Ended(m) : m[q].created <= m[r].created}}

----------------------------------------------------------------------------
(* Persistence *)

\* Mutant: the table has no partial UNIQUE index.
Clash_None(p, prev, gone) == FALSE

\* idx_mutation_active_step: another open row for the same step.
Clash(p, prev, gone) ==
  /\ prev.status \in Open
  /\ \E q \in Previews \ (gone \cup {p}) :
       db[q].status \in Open /\ db[q].key = prev.key

\* The row exists, or its execution does: otherwise the foreign key refuses it.
Attached(prev) == prev.key[1] \in rows

\* Mutant: a failed transaction is swallowed.
Persist_Swallowed(p, prev, gone, ok) ==
  /\ ok
  /\ \/ /\ db' = [q \in Previews |-> IF q = p THEN prev
                                     ELSE IF q \in gone THEN NoPreview ELSE db[q]]
        /\ UNCHANGED faults
     \/ faults < MaxFaults /\ faults' = faults + 1 /\ UNCHANGED db

\* _persist_preview: ok is FALSE when the transaction raises and changes no row.
Persist(p, prev, gone, ok) ==
  \/ /\ ok
     /\ Attached(prev) /\ ~Clash(p, prev, gone)
     /\ db' = [q \in Previews |-> IF q = p THEN prev
                                  ELSE IF q \in gone THEN NoPreview ELSE db[q]]
     /\ UNCHANGED faults
  \/ /\ ~ok
     /\ ~Attached(prev) \/ Clash(p, prev, gone)
     /\ UNCHANGED <<db, faults>>
  \/ /\ ~ok
     /\ faults < MaxFaults
     /\ faults' = faults + 1
     /\ UNCHANGED db

\* The transitions of one preview: memory first, then its row.
Move(p, st, ok) ==
  /\ mem' = SetStatus(p, st)
  /\ Persist(p, [mem[p] EXCEPT !.status = st], {}, ok)

----------------------------------------------------------------------------
(* Operations *)

Init ==
  /\ mem = [p \in Previews |-> NoPreview]
  /\ active = [k \in Keys |-> None]
  /\ db = [p \in Previews |-> NoPreview]
  /\ rows = Execs
  /\ used = {}
  /\ granted = [p \in Previews |-> 0]
  /\ holders = {}
  /\ now = 1
  /\ faults = 0
  /\ restarts = 0

\* An overdue preview of the step expires in memory only: nothing writes its row.
Create(p, k, ok) ==
  LET old == active[k]
      m   == IF old # None /\ Overdue(old) THEN SetStatus(old, "expired") ELSE mem
  IN /\ p \notin used
     /\ old # None => m[old].status # "pending_confirmation"
     /\ \E gone \in EvictionChoices(m) :
          /\ mem' = [q \in Previews |-> IF q = p THEN NewPreview(k)
                                        ELSE IF q \in gone THEN NoPreview ELSE m[q]]
          /\ Persist(p, NewPreview(k), gone, ok)
     /\ active' = [active EXCEPT ![k] = p]
     /\ used' = used \cup {p}
     /\ UNCHANGED <<rows, granted, holders, now, restarts>>

\* get, active, claim and cancel all expire an overdue preview they meet.
Expire(p, ok) ==
  /\ Overdue(p)
  /\ Move(p, "expired", ok)
  /\ active' = Without(mem[p].key)
  /\ UNCHANGED <<rows, used, granted, holders, now, restarts>>

\* Mutant: only the phrase is checked, so a confirmed preview is claimed again.
CanClaim_Confirmed(p) == mem[p].status \in Open /\ ~Overdue(p)

CanClaim(p) == Pending(p) /\ ~Overdue(p)

\* confirm has looked at the preview before, but claim looks again.
Claim(p, ok) ==
  /\ CanClaim(p)
  /\ Move(p, "confirmed", ok)
  /\ holders' = IF ok THEN holders \cup {p} ELSE holders
  /\ granted' = IF ok THEN [granted EXCEPT ![p] = @ + 1] ELSE granted
  /\ UNCHANGED <<active, rows, used, now, restarts>>

Consume(p, ok) ==
  /\ p \in holders
  /\ mem[p].status = "confirmed"
  /\ Move(p, "consumed", ok)
  /\ active' = Without(mem[p].key)
  /\ holders' = holders \ {p}
  /\ UNCHANGED <<rows, used, granted, now, restarts>>

\* The thread ends between claim and consume: start_step refused the step, or
\* the execution store raised.  The preview stays confirmed.
HolderLost(p) ==
  /\ p \in holders
  /\ holders' = holders \ {p}
  /\ UNCHANGED <<mem, active, db, rows, used, granted, now, faults, restarts>>

Cancel(k, ok) ==
  /\ active[k] # None
  /\ Pending(active[k]) /\ ~Overdue(active[k])
  /\ Move(active[k], "cancelled", ok)
  /\ active' = Without(k)
  /\ UNCHANGED <<rows, used, granted, holders, now, restarts>>

\* The execution store evicts the record: its row goes, and its previews' rows.
ExecutionEvicted(x) ==
  /\ x \in rows
  /\ rows' = rows \ {x}
  /\ db' = [p \in Previews |-> IF db[p].status # "absent" /\ db[p].key[1] = x
                               THEN NoPreview ELSE db[p]]
  /\ UNCHANGED <<mem, active, used, granted, holders, now, faults, restarts>>

\* Mutant: a confirmed preview is offered again after a restart.
Restored_Reopened(prev) ==
  CASE prev.status = "confirmed" -> [prev EXCEPT !.status = "pending_confirmation"]
    [] OTHER -> prev

\* The restart policy of _restore for one row.
Restored(prev) ==
  CASE prev.status = "confirmed" -> [prev EXCEPT !.status = "cancelled"]
    [] prev.status = "pending_confirmation" /\ now >= prev.created + TTL ->
         [prev EXCEPT !.status = "expired"]
    [] OTHER -> prev

OpenAfterRestart(k) ==
  {p \in Previews : /\ Restored(db[p]).status = "pending_confirmation"
                    /\ db[p].key = k}

Restart ==
  /\ restarts < MaxRestarts
  /\ restarts' = restarts + 1
  /\ mem' = [p \in Previews |-> Restored(db[p])]
  /\ db' = mem'
  /\ active' = [k \in Keys |-> IF OpenAfterRestart(k) = {} THEN None
                               ELSE CHOOSE p \in OpenAfterRestart(k) : TRUE]
  /\ holders' = {}
  /\ UNCHANGED <<rows, used, granted, now, faults>>

Tick ==
  /\ now < MaxTime
  /\ now' = now + 1
  /\ UNCHANGED <<mem, active, db, rows, used, granted, holders, faults, restarts>>

PreviewOperation(p, ok) ==
  \/ \E k \in Keys : Create(p, k, ok)
  \/ Expire(p, ok)
  \/ Claim(p, ok)
  \/ Consume(p, ok)

Next ==
  \/ \E p \in Previews, ok \in BOOLEAN : PreviewOperation(p, ok)
  \/ \E p \in Previews : HolderLost(p)
  \/ \E k \in Keys, ok \in BOOLEAN : Cancel(k, ok)
  \/ \E x \in Execs : ExecutionEvicted(x)
  \/ Restart
  \/ Tick

Spec == Init /\ [][Next]_vars

----------------------------------------------------------------------------
(* Properties *)

TypeOK ==
  /\ mem \in [Previews -> Preview]
  /\ active \in [Keys -> Previews \cup {None}]
  /\ db \in [Previews -> Preview]
  /\ rows \in SUBSET Execs
  /\ used \in SUBSET Previews
  /\ granted \in [Previews -> Nat]
  /\ holders \in SUBSET Previews
  /\ now \in 1..MaxTime
  /\ faults \in 0..MaxFaults
  /\ restarts \in 0..MaxRestarts

\* The index never points at a preview that was evicted, ended or belongs to
\* another step: create and active look the id up without a check, and would
\* raise KeyError for ever on that step.
IndexIsSound ==
  \A k \in Keys : active[k] # None =>
    mem[active[k]].status \in Open /\ mem[active[k]].key = k

\* "Confirmation is single-use": no preview is granted to two confirmations,
\* whatever failed to be written and however often Core restarts.
ClaimedOnce == \A p \in Previews : granted[p] <= 1

\* Two confirmations never hold previews of one step, although create accepts a
\* second preview while the first is being confirmed.
OneClaimPerStep ==
  \A p, q \in holders : mem[p].key = mem[q].key => p = q

\* A granted claim is in the rows before the confirmation goes on to the effect,
\* so a restart cancels it; or the execution and all its rows are gone.
ClaimIsDurable ==
  \A p \in holders : db[p].status = "confirmed" \/ mem[p].key[1] \notin rows

\* A preview that left pending in the rows is never offered again.
SpentStaysSpent ==
  [][\A p \in Previews : db[p].status \in Closed \cup {"confirmed"} =>
       /\ db'[p].status # "pending_confirmation"
       /\ mem'[p].status # "pending_confirmation"]_vars

\* sqlite_store.py: the subclass "persists every accepted state transition", so
\* without failures a preview that ended in memory has ended in the rows.
EveryTransitionPersisted ==
  faults = 0 => \A p \in Ended(mem) : mem[p].key[1] \in rows => db[p] = mem[p]

=============================================================================
