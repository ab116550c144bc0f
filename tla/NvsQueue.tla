------------------------------ MODULE NvsQueue ------------------------------
(***************************************************************************)
(* The NVS storage backend (edgesync_storage_nvs.c): one blob per message, *)
(* in a numbered slot, rewritten whole at every change of state, and an    *)
(* in-RAM index rebuilt at boot by reading every slot.                     *)
(*                                                                         *)
(* NVS itself is external and known by its calls: a set or an erase is     *)
(* visible to reads at once and durable once a commit has returned ESP_OK; *)
(* until then a reset leaves the old content or the new one.  Each call is *)
(* a step of its own, before and after which power may be lost, and may    *)
(* return an error.                                                        *)
(*                                                                         *)
(* The backend's mutex is held for the whole of every operation: `pc' and  *)
(* `op' are the program counter and the locals of the one in progress.     *)
(* Priorities and times, which decide which PENDING message a claim takes, *)
(* are in ClaimOrder; here it may take any.                                *)
(***************************************************************************)
EXTENDS Integers, FiniteSets

CONSTANTS
  Ids,            \* message ids, "caller-unique" (edgesync.h:117)
  NoId,           \* no message; as a payload: bytes nobody published
  MaxMessages,    \* max_messages: slots, and entries of the index
  MaxAttempts,    \* retry_max_attempts; 0 is "unlimited"
  MaxCrashes,     \* bound: resets in a behaviour
  MaxFaults,      \* bound: NVS faults in a behaviour
  Faults          \* which faults NVS is subject to

FaultKinds == {"io",     \* a set, an erase or a commit that reports an error
               "read",   \* a get that reports an error
               "rot"}    \* a stored blob that changes

ASSUME NvsAssumption ==
  /\ NoId \notin Ids /\ IsFiniteSet(Ids)
  /\ MaxMessages \in Nat \ {0} /\ MaxAttempts \in Nat
  /\ MaxCrashes \in Nat /\ MaxFaults \in Nat /\ Faults \subseteq FaultKinds

VARIABLES
  blob, disk,          \* NVS: what a get returns, what a reset is sure to keep
  pc, op, cur,         \* the operation that holds the mutex; the slot scanned
  index, used,         \* edgesync_nvs_ctx_t
  held,                \* the worker's claimed message
  fate, started,       \* history: what callers were told, attempts begun
  crashes, faults      \* resets, and faults of each kind, so far

nvs == <<blob, disk>>
ctx == <<index, used>>
history == <<fate, started>>
vars == <<blob, disk, pc, op, cur, index, used, held, fate, started, crashes, faults>>

-----------------------------------------------------------------------------
Slots == 0 .. MaxMessages - 1
Live  == {"PENDING", "IN_FLIGHT", "DEAD_LETTER"}
Blobs == [id : Ids \cup {NoId}, st : Live \cup {"NONE"}, att : Nat,
          body : Ids \cup {NoId}, ok : BOOLEAN]
NoBlob == [id |-> NoId, st |-> "NONE", att |-> 0, body |-> NoId, ok |-> TRUE]
Blob(m, st, att, body) ==
  [id |-> m, st |-> st, att |-> att, body |-> body, ok |-> TRUE]

Entry(st, att, s) == [st |-> st, att |-> att, slot |-> s]
Absent == Entry("NONE", 0, 0)
Indexed == {m \in Ids : index[m] # Absent}
InState(st) == {m \in Ids : index[m].st = st}

NoOp == [kind |-> "none", id |-> NoId, slot |-> 0, rec |-> NoBlob]
NoHeld == [id |-> NoId, body |-> NoId, att |-> 0]

Total == faults["io"] + faults["read"] + faults["rot"]
Fault(kind) ==
  /\ kind \in Faults /\ Total < MaxFaults
  /\ faults' = [faults EXCEPT ![kind] = @ + 1]

-----------------------------------------------------------------------------
(* read_and_verify and write_entry.                                        *)

Verified(s) == IF blob[s] = NoBlob THEN "NOT_FOUND"
               ELSE IF blob[s].ok THEN "OK" ELSE "CORRUPT"
\* An error of the first get, which asks for the length, is taken for an empty
\* slot; an error of the second one is reported.
Read(s, res) ==
  \/ res = Verified(s) /\ UNCHANGED faults
  \/ blob[s] # NoBlob /\ res \in {"NOT_FOUND", "STORAGE"} /\ Fault("read")

\* The record written by a retry, a dead letter or a requeueing.  Its payload is
\* read from the buffer it is encoded into, which encode_common clears first.
Rewritten(m, st, att) == Blob(m, st, att, NoId)

\* The operation goes on to write rec to slot s, or to erase it (NoBlob).
Begin(kind, m, s, rec) ==
  /\ op' = [kind |-> kind, id |-> m, slot |-> s, rec |-> rec]
  /\ pc' = "write"

Erases(kind) == kind \in {"deliver", "remove"}
Reports(kind) == kind \in {"deliver", "retry", "dead"}

Bug_SlotStaysUsed == IF op.kind = "enqueue" THEN used \cup {op.slot} ELSE used
\* remove_entry_at gives the slot back.
SlotsAfter == CASE op.kind = "enqueue" -> used \cup {op.slot}
                [] Erases(op.kind) -> used \ {op.slot}
                [] OTHER -> used
Return(then, newIndex, newUsed, newHeld, outcome) ==
  /\ pc' = then /\ op' = NoOp
  /\ index' = newIndex /\ used' = newUsed /\ held' = newHeld
  /\ fate' = IF outcome = "none" THEN fate ELSE [fate EXCEPT ![op.id] = outcome]

Succeed ==
  /\ Return(IF op.kind = "requeue" THEN "requeue" ELSE "idle",
            CASE op.kind = "enqueue" -> [index EXCEPT ![op.id] = Entry("PENDING", 0, op.slot)]
              [] Erases(op.kind)     -> [index EXCEPT ![op.id] = Absent]
              [] OTHER -> index,
            SlotsAfter,
            CASE op.kind = "claim" -> [id |-> op.id, body |-> op.rec.body, att |-> op.rec.att]
              [] Reports(op.kind)  -> NoHeld
              [] OTHER -> held,
            CASE op.kind = "enqueue" -> "accepted"
              [] Erases(op.kind)     -> "closed"
              [] OTHER -> "none")
  /\ started' = IF op.kind = "claim" THEN [started EXCEPT ![op.id] = @ + 1] ELSE started

\* The index keeps what the operation had already changed in it.
Fail ==
  /\ Return(IF op.kind = "requeue" THEN "failed" ELSE "idle", index, used,
            IF Reports(op.kind) THEN NoHeld ELSE held,
            IF op.kind = "enqueue" THEN "refused" ELSE "none")
  /\ UNCHANGED started

\* nvs_set_blob or nvs_erase_key.
Write ==
  /\ pc = "write" /\ (op.rec = NoBlob => blob[op.slot] # NoBlob)
  /\ blob' = [blob EXCEPT ![op.slot] = op.rec]
  /\ pc' = "commit"
  /\ UNCHANGED <<disk, op, cur, ctx, held, history, crashes, faults>>
\* nvs_erase_key finds no such key.
KeyMissing ==
  /\ pc = "write" /\ op.rec = NoBlob /\ blob[op.slot] = NoBlob
  /\ Fail
  /\ UNCHANGED <<nvs, cur, crashes, faults>>
Bug_EraseNotCommitted ==
  /\ pc = "commit"
  /\ disk' = IF Erases(op.kind) THEN disk ELSE blob
  /\ Succeed
  /\ UNCHANGED <<blob, cur, crashes, faults>>
\* nvs_commit, of everything set or erased so far.
Commit ==
  /\ pc = "commit"
  /\ disk' = blob
  /\ Succeed
  /\ UNCHANGED <<blob, cur, crashes, faults>>
CallFails ==
  /\ pc \in {"write", "commit"} /\ Fault("io")
  /\ Fail
  /\ UNCHANGED <<nvs, cur, crashes>>

-----------------------------------------------------------------------------
(* Recovery (op_recover).                                                  *)

Init ==
  /\ blob = [s \in Slots |-> NoBlob] /\ disk = blob
  /\ pc = "off" /\ op = NoOp /\ cur = 0
  /\ index = [m \in Ids |-> Absent] /\ used = {} /\ held = NoHeld
  /\ fate = [m \in Ids |-> "fresh"] /\ started = [m \in Ids |-> 0]
  /\ crashes = 0 /\ faults = [k \in FaultKinds |-> 0]

\* Index and slot_used are cleared here, and RAM by the reset before it.
ResetRam ==
  /\ op' = NoOp /\ cur' = 0
  /\ index' = [m \in Ids |-> Absent] /\ used' = {} /\ held' = NoHeld

Boot ==
  /\ pc \in {"off", "failed"}
  /\ pc' = "scan" /\ ResetRam
  /\ UNCHANGED <<nvs, history, crashes, faults>>

\* Erase and commit of a corrupt slot, whose results the code does not look at.
Discard(s) ==
  /\ \/ blob' = [blob EXCEPT ![s] = NoBlob] /\ disk' = blob'
     \/ "io" \in Faults /\ blob' = [blob EXCEPT ![s] = NoBlob] /\ UNCHANGED disk
     \/ "io" \in Faults /\ UNCHANGED nvs
  /\ UNCHANGED faults

ScanSlot ==
  /\ pc = "scan" /\ cur \in Slots
  /\ \/ /\ Read(cur, "OK")
        /\ index' = [index EXCEPT ![blob[cur].id] = Entry(blob[cur].st, blob[cur].att, cur)]
        /\ used' = used \cup {cur}
        /\ cur' = cur + 1 /\ UNCHANGED <<nvs, pc>>
     \/ Read(cur, "NOT_FOUND") /\ cur' = cur + 1 /\ UNCHANGED <<nvs, ctx, pc>>
     \/ Verified(cur) = "CORRUPT" /\ Discard(cur) /\ cur' = cur + 1 /\ UNCHANGED <<ctx, pc>>
     \/ Read(cur, "STORAGE") /\ pc' = "failed" /\ UNCHANGED <<nvs, ctx, cur>>
  /\ UNCHANGED <<op, held, history, crashes>>
ScanEnd ==
  /\ pc = "scan" /\ cur = MaxMessages
  /\ pc' = "requeue"
  /\ UNCHANGED <<nvs, op, cur, ctx, held, history, crashes, faults>>

\* What was IN_FLIGHT at the reset; the index entry changes before the blob.
Requeue(m) ==
  /\ pc = "requeue" /\ index[m].st = "IN_FLIGHT"
  /\ \/ /\ Read(index[m].slot, "OK")
        /\ Begin("requeue", m, index[m].slot, Rewritten(m, "PENDING", index[m].att))
        /\ index' = [index EXCEPT ![m].st = "PENDING"]
     \/ \E err \in {"NOT_FOUND", "STORAGE", "CORRUPT"} :
          Read(index[m].slot, err) /\ pc' = "failed" /\ UNCHANGED <<op, index>>
  /\ UNCHANGED <<nvs, cur, used, held, history, crashes>>

Bug_NoRequeue ==
  /\ pc = "requeue"
  /\ pc' = "idle"
  /\ UNCHANGED <<nvs, op, cur, ctx, held, history, crashes, faults>>
Bug_RequeueInRamOnly ==
  /\ pc = "requeue"
  /\ pc' = "idle"
  /\ index' = [m \in Ids |-> IF index[m].st = "IN_FLIGHT"
                            THEN [index[m] EXCEPT !.st = "PENDING"] ELSE index[m]]
  /\ UNCHANGED <<nvs, op, cur, used, held, history, crashes, faults>>
Recovered ==
  /\ pc = "requeue" /\ InState("IN_FLIGHT") = {}
  /\ pc' = "idle"
  /\ UNCHANGED <<nvs, op, cur, ctx, held, history, crashes, faults>>

-----------------------------------------------------------------------------
(* The operations of edgesync_storage_ops_t.                               *)

FreeSlots == Slots \ used
Bug_FirstSlotFree(s) == s \in Slots /\ \A t \in FreeSlots : s <= t
\* find_free_slot
LowestFree(s) == s \in FreeSlots /\ \A t \in FreeSlots : s <= t

\* op_enqueue; the entry joins the index after the write.
Enqueue(m) ==
  /\ pc = "idle" /\ fate[m] = "fresh"
  /\ Cardinality(Indexed) < MaxMessages
  /\ \E s \in Slots : LowestFree(s) /\ Begin("enqueue", m, s, Blob(m, "PENDING", 0, m))
  /\ fate' = [fate EXCEPT ![m] = "offered"]
  /\ UNCHANGED <<nvs, cur, ctx, held, started, crashes, faults>>
\* EDGESYNC_ERR_QUEUE_FULL
EnqueueFull(m) ==
  /\ pc = "idle" /\ fate[m] = "fresh"
  /\ Cardinality(Indexed) >= MaxMessages \/ FreeSlots = {}
  /\ fate' = [fate EXCEPT ![m] = "refused"]
  /\ UNCHANGED <<nvs, pc, op, cur, ctx, held, started, crashes, faults>>

\* op_claim_next reads the blob, copies its payload to claim_scratch, and counts
\* the attempt in the index before it is on NVS.
Claim(m) ==
  /\ pc = "idle" /\ held = NoHeld /\ index[m].st = "PENDING"
  /\ Read(index[m].slot, "OK")
  /\ Begin("claim", m, index[m].slot,
           Blob(m, "IN_FLIGHT", index[m].att + 1, blob[index[m].slot].body))
  /\ index' = [index EXCEPT ![m].st = "IN_FLIGHT", ![m].att = @ + 1]
  /\ UNCHANGED <<nvs, cur, used, held, history, crashes>>
\* A corrupt blob is erased; its entry stays, as a dead letter in RAM only.
ClaimCorrupt(m) ==
  /\ pc = "idle" /\ held = NoHeld /\ index[m].st = "PENDING"
  /\ Verified(index[m].slot) = "CORRUPT" /\ Discard(index[m].slot)
  /\ index' = [index EXCEPT ![m].st = "DEAD_LETTER"]
  /\ UNCHANGED <<pc, op, cur, used, held, history, crashes>>
\* A blob that is gone or cannot be read: the worker polls again.
ClaimError(m) ==
  /\ pc = "idle" /\ held = NoHeld /\ index[m].st = "PENDING"
  /\ \E err \in {"NOT_FOUND", "STORAGE"} : Read(index[m].slot, err)
  /\ UNCHANGED <<nvs, pc, op, cur, ctx, held, history, crashes>>
PollIdle ==
  /\ pc = "idle" /\ held = NoHeld /\ InState("PENDING") = {}
  /\ UNCHANGED vars

\* op_mark_delivered, after the transport delivered the held message.
MarkDelivered ==
  /\ pc = "idle" /\ held # NoHeld
  /\ Begin("deliver", held.id, index[held.id].slot, NoBlob)
  /\ fate' = [fate EXCEPT ![held.id] = "closing"]
  /\ UNCHANGED <<nvs, cur, ctx, held, started, crashes, faults>>

\* edgesync_retry_should_retry
ShouldRetry(att) == MaxAttempts = 0 \/ att < MaxAttempts
Bug_ForgetsAttempts(m, kind, st) ==
  /\ Begin(kind, m, index[m].slot, Rewritten(m, st, 0))
  /\ index' = [index EXCEPT ![m].st = st]
PutBack(m, kind, st) ==
  /\ Begin(kind, m, index[m].slot, Rewritten(m, st, index[m].att))
  /\ index' = [index EXCEPT ![m].st = st]
\* op_schedule_retry, with dead_letter after the last attempt or a permanent
\* failure.
ScheduleRetry ==
  /\ pc = "idle" /\ held # NoHeld
  /\ LET m == held.id IN
       \/ /\ Read(index[m].slot, "OK")
          /\ \/ ShouldRetry(index[m].att) /\ PutBack(m, "retry", "PENDING")
             \/ PutBack(m, "dead", "DEAD_LETTER")
          /\ UNCHANGED held
       \/ /\ \E err \in {"NOT_FOUND", "STORAGE", "CORRUPT"} : Read(index[m].slot, err)
          /\ held' = NoHeld /\ UNCHANGED <<pc, op, index>>
  /\ UNCHANGED <<nvs, cur, used, history, crashes>>

\* op_remove, called by the overflow policy for a PENDING candidate.
Remove(m) ==
  /\ pc = "idle" /\ Cardinality(Indexed) >= MaxMessages /\ index[m].st = "PENDING"
  /\ Begin("remove", m, index[m].slot, NoBlob)
  /\ fate' = [fate EXCEPT ![m] = "closing"]
  /\ UNCHANGED <<nvs, cur, ctx, held, started, crashes, faults>>

-----------------------------------------------------------------------------
\* A reset: of each slot that was not committed the old content or the new one.
PowerLoss ==
  /\ pc # "off" /\ crashes < MaxCrashes
  /\ \E kept \in SUBSET {s \in Slots : blob[s] # disk[s]} :
       disk' = [s \in Slots |-> IF s \in kept THEN blob[s] ELSE disk[s]]
  /\ blob' = disk' /\ pc' = "off" /\ ResetRam
  /\ crashes' = crashes + 1
  /\ UNCHANGED <<history, faults>>

Rot ==
  /\ Fault("rot")
  /\ \E s \in Slots :
       /\ blob[s] = disk[s] /\ blob[s] # NoBlob /\ blob[s].ok
       /\ blob' = [blob EXCEPT ![s].ok = FALSE] /\ disk' = [disk EXCEPT ![s].ok = FALSE]
  /\ UNCHANGED <<pc, op, cur, ctx, held, history, crashes>>

-----------------------------------------------------------------------------
Recovery == Boot \/ ScanSlot \/ ScanEnd \/ Recovered \/ \E m \in Ids : Requeue(m)
Calls == Write \/ KeyMissing \/ Commit
Worker == MarkDelivered \/ ScheduleRetry \/ \E m \in Ids : Claim(m)
Publisher == \E m \in Ids : Enqueue(m) \/ EnqueueFull(m) \/ Remove(m)
ReadTrouble == \E m \in Ids : ClaimCorrupt(m) \/ ClaimError(m)

Next ==
  \/ Recovery \/ Calls \/ Publisher \/ Worker \/ ReadTrouble \/ PollIdle
  \/ CallFails \/ PowerLoss \/ Rot

Spec == Init /\ [][Next]_vars

-----------------------------------------------------------------------------
(* Properties.                                                             *)

Kinds == {"none", "enqueue", "claim", "deliver", "retry", "dead", "remove", "requeue"}
Fates == {"fresh", "offered", "refused", "accepted", "closing", "closed"}
\* The types of NVS, of the RAM state and of the history.
TypeOK ==
  /\ blob \in [Slots -> Blobs] /\ disk \in [Slots -> Blobs]
  /\ pc \in {"off", "failed", "scan", "requeue", "idle", "write", "commit"}
  /\ op \in [kind : Kinds, id : Ids \cup {NoId}, slot : Slots, rec : Blobs]
  /\ cur \in 0 .. MaxMessages
  /\ index \in [Ids -> [st : Live \cup {"NONE"}, att : Nat, slot : Slots]]
  /\ used \subseteq Slots
  /\ held \in [id : Ids \cup {NoId}, body : Ids \cup {NoId}, att : Nat]
  /\ fate \in [Ids -> Fates] /\ started \in [Ids -> Nat]
  /\ crashes \in 0 .. MaxCrashes /\ faults \in [FaultKinds -> Nat]

Without(kinds) == \A k \in kinds : faults[k] = 0
\* What a recovery from the committed content would find of m.
OnDisk(m) ==
  IF \E s \in Slots : disk[s].id = m
  THEN LET s == CHOOSE s \in Slots : disk[s].id = m
       IN Entry(disk[s].st, disk[s].att, s)
  ELSE Absent

\* A message whose publish returned ESP_OK survives every reset, and every set,
\* erase or commit that reports an error, until it is delivered or dropped.
Durable ==
  Without({"read", "rot"}) =>
    \A m \in Ids : fate[m] = "accepted" => OnDisk(m) # Absent

\* A message whose erase was committed is never found again by a recovery.
NoResurrection == \A m \in Ids : fate[m] = "closed" => OnDisk(m) = Absent

\* slot_used and the index agree, no two messages share a slot, and the blob in
\* the slot of a message is its own or none: find_free_slot never hands out the
\* slot of a live message, whatever calls failed before.
SlotsExclusive ==
  /\ used = {index[m].slot : m \in Indexed}
  /\ \A m, n \in Indexed : index[m].slot = index[n].slot => m = n
  /\ \A m \in Indexed : blob[index[m].slot].id \in {m, NoId}

\* Between operations the index is what a recovery would rebuild, as long as no
\* call of NVS failed.
IndexMatchesDisk ==
  pc = "idle" /\ Without(FaultKinds) => \A m \in Ids : index[m] = OnDisk(m)

\* An attempt is committed before the worker starts it, so a reset cannot
\* under-count attempts (RELIABILITY.md:50-51), and only a reset can make them
\* exceed retry_max_attempts, each by one, whatever calls of NVS fail.
AttemptsCounted ==
  \A m \in Ids : /\ OnDisk(m) # Absent => started[m] <= OnDisk(m).att
                 /\ MaxAttempts # 0 => started[m] <= MaxAttempts + crashes

\* The message the worker holds is IN_FLIGHT, and no message is IN_FLIGHT
\* without being held unless a call of NVS failed.
InFlightIsHeld ==
  pc = "idle" =>
    /\ held # NoHeld => held.id \in Ids /\ index[held.id].st = "IN_FLIGHT"
    /\ Without(FaultKinds) => InState("IN_FLIGHT") \subseteq {held.id}

\* What the worker hands to the transport is what was published under that id
\* (STORAGE.md:74-76).
PayloadIntact == held.body = held.id

\* What the storage contract says of m: what is committed, and for a message no
\* longer there, whether it was closed or never stored.
DurableState(m) ==
  IF OnDisk(m) # Absent THEN [st |-> OnDisk(m).st, att |-> OnDisk(m).att]
  ELSE [st |-> IF fate[m] \in {"closing", "closed"} THEN "gone" ELSE "absent", att |-> 0]
DurableStates == [m \in Ids |-> DurableState(m)]
Contract == INSTANCE DurableQueue WITH q <- DurableStates

\* For as long as no call of NVS fails the backend keeps the storage contract: a
\* commit, or the reset that decides what an interrupted write left, moves one
\* message at most, and by one of the contract's operations.
KeepsContract ==
  /\ Contract!Init
  /\ [][Without(FaultKinds)' => Contract!Next]_DurableStates
=============================================================================
