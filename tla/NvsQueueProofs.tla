--------------------------- MODULE NvsQueueProofs ---------------------------
(* What the NVS backend promises its callers, for any number of messages,   *)
(* slots and resets.  First, whatever calls of NVS fail, it never hands the *)
(* slot of a live message to another one (SlotInv).  On top of that, by the *)
(* kinds of call that failed: accepted messages survive, closed ones do not *)
(* come back, attempts are never under-counted (SafeInv), and with an NVS   *)
(* that fails no call the backend keeps the storage contract.               *)
EXTENDS NvsQueue, TLAPS

Busy == pc \in {"write", "commit"}
\* Slot s has, or may have after a reset, the blob of m.
Holds(m, s) == blob[s].id = m \/ disk[s].id = m
WellFormed(b) == b = NoBlob \/ (b.id \in Ids /\ b.st \in Live)

\* A message has one slot for all of its life, and none before it is offered.
PlaceInv ==
  /\ \A s \in Slots : WellFormed(blob[s]) /\ WellFormed(disk[s])
  /\ \A m \in Ids : \A s, t \in Slots : Holds(m, s) /\ Holds(m, t) => s = t
  /\ \A m \in Ids : fate[m] = "fresh" =>
       index[m] = Absent /\ \A s \in Slots : ~Holds(m, s)

\* The index knows that slot, and a recovery fills the index from below.
IndexInv ==
  /\ \A m \in Indexed : index[m].st \in Live
  /\ \A m \in Indexed : \A s \in Slots : Holds(m, s) => s = index[m].slot
  /\ pc = "scan" => \A m \in Indexed : index[m].slot < cur

\* What the operation in progress is about, and what it is going to write.
OpInv ==
  Busy =>
    /\ op.kind # "none" /\ op.id \in Ids /\ fate[op.id] # "fresh"
    /\ op.kind = "enqueue" =>
         /\ op.slot \notin used /\ index[op.id] = Absent
         /\ \A s \in Slots : Holds(op.id, s) => s = op.slot
    /\ op.kind # "enqueue" => index[op.id] # Absent /\ op.slot = index[op.id].slot
    /\ op.kind = "claim" => index[op.id].st = "IN_FLIGHT"
    /\ IF Erases(op.kind) THEN op.rec = NoBlob
       ELSE op.rec.id = op.id /\ op.rec.st \in Live
    /\ pc = "commit" => blob[op.slot].id = op.rec.id

\* The worker's message is in the index, and the operation in progress is about
\* another one or reports on it.
HeldInv ==
  held # NoHeld =>
    /\ held.id \in Ids /\ pc \in {"idle", "write", "commit"}
    /\ \/ index[held.id].st = "IN_FLIGHT" /\ (Busy => op.kind \in {"enqueue", "remove"})
                                          /\ (Busy => op.id # held.id)
       \/ Busy /\ Reports(op.kind) /\ op.id = held.id


-----------------------------------------------------------------------------
(* Types.                                                                   *)

Ops == [kind : Kinds, id : Ids \cup {NoId}, slot : Slots, rec : Blobs]
IndexEntries == [st : Live \cup {"NONE"}, att : Nat, slot : Slots]
Helds == [id : Ids \cup {NoId}, body : Ids \cup {NoId}, att : Nat]

\* The empty values have the types of the full ones.
LEMMA EmptyTypes ==
  /\ 0 \in Slots /\ NoBlob \in Blobs /\ NoOp \in Ops
  /\ Absent \in IndexEntries /\ NoHeld \in Helds
BY NvsAssumption
   DEF Slots, NoBlob, Blobs, NoOp, Ops, Kinds, Absent, Entry, IndexEntries, NoHeld, Helds

\* A record that an operation writes is a blob.
LEMMA BlobType ==
  ASSUME NEW m \in Ids, NEW st \in Live, NEW att \in Nat, NEW body \in Ids \cup {NoId}
  PROVE  Blob(m, st, att, body) \in Blobs
BY DEF Blob, Blobs

\* The counters of faults stay counters.
LEMMA FaultTypes ==
  ASSUME TypeOK, NEW k \in FaultKinds, Fault(k)
  PROVE  faults' \in [FaultKinds -> Nat]
BY DEF TypeOK, Fault

LEMMA ReadTypes ==
  ASSUME TypeOK, NEW s, NEW res, Read(s, res)
  PROVE  faults' \in [FaultKinds -> Nat]
<1>1. CASE UNCHANGED faults BY <1>1 DEF TypeOK
<1>2. CASE Fault("read") BY <1>2, FaultTypes DEF FaultKinds
<1> QED BY <1>1, <1>2 DEF Read

LEMMA DiscardTypes ==
  ASSUME TypeOK, NEW s \in Slots, Discard(s)
  PROVE  /\ blob' \in [Slots -> Blobs] /\ disk' \in [Slots -> Blobs]
         /\ faults' \in [FaultKinds -> Nat]
BY EmptyTypes DEF TypeOK, Discard, nvs

LEMMA ResetTypes ==
  ASSUME ResetRam
  PROVE  /\ op' \in Ops /\ cur' \in 0 .. MaxMessages
         /\ index' \in [Ids -> IndexEntries] /\ used' \subseteq Slots /\ held' \in Helds
BY EmptyTypes, NvsAssumption DEF ResetRam

LEMMA BeginTypes ==
  ASSUME NEW kind \in Kinds, NEW m \in Ids, NEW s \in Slots, NEW rec \in Blobs,
         Begin(kind, m, s, rec)
  PROVE  op' \in Ops /\ pc' = "write"
BY DEF Begin, Ops

LEMMA TypeInit == Init => TypeOK
BY EmptyTypes, NvsAssumption
   DEF Init, TypeOK, Ops, IndexEntries, Helds, Fates, FaultKinds

LEMMA RecoveryType == TypeOK /\ Recovery => TypeOK'
<1> SUFFICES ASSUME TypeOK, Recovery PROVE TypeOK'
  OBVIOUS
<1> USE DEF nvs, ctx, history
<1>1. CASE Boot
  BY <1>1, ResetTypes DEF Boot, TypeOK, Ops, IndexEntries, Helds
<1>2. CASE ScanSlot
  <2> DEFINE e == Entry(blob[cur].st, blob[cur].att, cur)
  <2>1. cur \in Slots /\ cur \in Nat /\ blob[cur] \in Blobs /\ cur + 1 \in 0 .. MaxMessages
    BY <1>2, NvsAssumption DEF ScanSlot, TypeOK, Slots
  <2>2. e \in IndexEntries
    BY <2>1 DEF Entry, Blobs, IndexEntries
  <2>3. [index EXCEPT ![blob[cur].id] = e] \in [Ids -> IndexEntries]
    BY <2>2 DEF TypeOK, IndexEntries
  <2>4. \A res : Read(cur, res) => faults' \in [FaultKinds -> Nat]
    BY ReadTypes
  <2>5. CASE /\ Read(cur, "OK")
             /\ index' = [index EXCEPT ![blob[cur].id] = e]
             /\ used' = used \cup {cur}
             /\ cur' = cur + 1 /\ UNCHANGED <<nvs, pc>>
    BY <1>2, <2>1, <2>3, <2>4, <2>5 DEF ScanSlot, TypeOK, IndexEntries
  <2>6. CASE Read(cur, "NOT_FOUND") /\ cur' = cur + 1 /\ UNCHANGED <<nvs, ctx, pc>>
    BY <1>2, <2>1, <2>4, <2>6 DEF ScanSlot, TypeOK
  <2>7. CASE Discard(cur) /\ cur' = cur + 1 /\ UNCHANGED <<ctx, pc>>
    BY <1>2, <2>1, <2>7, DiscardTypes DEF ScanSlot, TypeOK
  <2>8. CASE Read(cur, "STORAGE") /\ pc' = "failed" /\ UNCHANGED <<nvs, ctx, cur>>
    BY <1>2, <2>4, <2>8 DEF ScanSlot, TypeOK
  <2> QED BY <1>2, <2>5, <2>6, <2>7, <2>8 DEF ScanSlot
<1>3. CASE ScanEnd \/ Recovered
  BY <1>3 DEF ScanEnd, Recovered, TypeOK
<1>4. ASSUME NEW m \in Ids, Requeue(m) PROVE TypeOK'
  <2>1. index[m] \in IndexEntries
    BY DEF TypeOK, IndexEntries
  <2>2. faults' \in [FaultKinds -> Nat]
    BY <1>4, ReadTypes DEF Requeue
  <2>3. CASE /\ Begin("requeue", m, index[m].slot, Rewritten(m, "PENDING", index[m].att))
             /\ index' = [index EXCEPT ![m].st = "PENDING"]
    <3>1. Rewritten(m, "PENDING", index[m].att) \in Blobs
      BY <2>1, BlobType DEF Rewritten, IndexEntries, Live
    <3>2. op' \in Ops /\ pc' = "write"
      BY <2>1, <2>3, <3>1, BeginTypes DEF Kinds, IndexEntries
    <3>3. index' \in [Ids -> IndexEntries]
      BY <2>3 DEF TypeOK, IndexEntries, Live
    <3> QED BY <1>4, <2>2, <3>2, <3>3 DEF Requeue, TypeOK, Ops, IndexEntries
  <2>4. CASE pc' = "failed" /\ UNCHANGED <<op, index>>
    BY <1>4, <2>2, <2>4 DEF Requeue, TypeOK
  <2> QED BY <1>4, <2>3, <2>4 DEF Requeue
<1> QED BY <1>1, <1>2, <1>3, <1>4 DEF Recovery

\* The end of an operation, successful or not.
LEMMA ReturnType == TypeOK /\ (Succeed \/ Fail) =>
  /\ pc' \in {"failed", "requeue", "idle"} /\ op' \in Ops
  /\ index' \in [Ids -> IndexEntries] /\ used' \subseteq Slots /\ held' \in Helds
  /\ fate' \in [Ids -> Fates] /\ started' \in [Ids -> Nat]
<1> SUFFICES ASSUME TypeOK, Succeed \/ Fail
             PROVE  /\ pc' \in {"failed", "requeue", "idle"} /\ op' \in Ops
                    /\ index' \in [Ids -> IndexEntries] /\ used' \subseteq Slots
                    /\ held' \in Helds
                    /\ fate' \in [Ids -> Fates] /\ started' \in [Ids -> Nat]
  OBVIOUS
<1>1. CASE Succeed
  <2>1. pc' \in {"requeue", "idle"} /\ op' \in Ops /\ used' \subseteq Slots
    BY <1>1, EmptyTypes DEF Succeed, Return, SlotsAfter, TypeOK
  <2>2. Entry("PENDING", 0, op.slot) \in IndexEntries
    BY DEF Entry, IndexEntries, Live, TypeOK
  <2>3. index' \in [Ids -> IndexEntries]
    BY <1>1, <2>2, EmptyTypes DEF Succeed, Return, TypeOK, IndexEntries
  <2>4. held' \in Helds
    BY <1>1, EmptyTypes DEF Succeed, Return, TypeOK, Helds, Blobs
  <2>5. fate' \in [Ids -> Fates]
    <3> DEFINE told(f) == [fate EXCEPT ![op.id] = f]
    <3>1. fate' \in {fate, told("accepted"), told("closed")}
      BY <1>1 DEF Succeed, Return, TypeOK
    <3> QED BY <3>1 DEF TypeOK, Fates
  <2>6. started' \in [Ids -> Nat]
    <3>1. CASE op.kind = "claim"
      <4>1. CASE op.id \in Ids BY <1>1, <3>1, <4>1 DEF Succeed, TypeOK
      <4>2. CASE op.id \notin Ids
        BY <1>1, <3>1, <4>2 DEF Succeed, TypeOK
      <4> QED BY <4>1, <4>2
    <3>2. CASE op.kind # "claim" BY <1>1, <3>2 DEF Succeed, TypeOK
    <3> QED BY <3>1, <3>2
  <2> QED BY <2>1, <2>3, <2>4, <2>5, <2>6
<1>2. CASE Fail
  BY <1>2, EmptyTypes DEF Fail, Return, TypeOK, Fates, Helds, IndexEntries
<1> QED BY <1>1, <1>2

LEMMA CallsType == TypeOK /\ (Calls \/ CallFails) => TypeOK'
<1> SUFFICES ASSUME TypeOK, Calls \/ CallFails PROVE TypeOK'
  OBVIOUS
<1> USE DEF nvs, ctx, history
<1>1. CASE Write
  BY <1>1 DEF Write, TypeOK
<1>2. CASE KeyMissing
  BY <1>2, ReturnType DEF KeyMissing, TypeOK, Ops, IndexEntries, Helds
<1>3. CASE Commit
  BY <1>3, ReturnType DEF Commit, TypeOK, Ops, IndexEntries, Helds
<1>4. CASE CallFails
  <2>1. faults' \in [FaultKinds -> Nat]
    BY <1>4, FaultTypes DEF CallFails, FaultKinds
  <2> QED BY <1>4, <2>1, ReturnType DEF CallFails, TypeOK, Ops, IndexEntries, Helds
<1> QED BY <1>1, <1>2, <1>3, <1>4 DEF Calls

LEMMA OperationType ==
  ASSUME TypeOK, HeldInv, Publisher \/ Worker \/ ReadTrouble \/ PollIdle
  PROVE  TypeOK'
<1> USE DEF nvs, ctx, history
<1>0. \A m \in Ids : index[m] \in IndexEntries
  BY DEF TypeOK, IndexEntries
<1>1. ASSUME NEW m \in Ids, Enqueue(m) PROVE TypeOK'
  <2>1. Blob(m, "PENDING", 0, m) \in Blobs
    BY BlobType DEF Live
  <2>2. op' \in Ops /\ pc' = "write"
    BY <1>1, <2>1, BeginTypes DEF Enqueue, Kinds
  <2> QED BY <1>1, <2>2 DEF Enqueue, TypeOK, Fates, Ops
<1>2. ASSUME NEW m \in Ids, EnqueueFull(m) PROVE TypeOK'
  BY <1>2 DEF EnqueueFull, TypeOK, Fates
<1>3. ASSUME NEW m \in Ids, Remove(m) PROVE TypeOK'
  <2>1. op' \in Ops /\ pc' = "write"
    BY <1>0, <1>3, EmptyTypes, BeginTypes DEF Remove, Kinds, IndexEntries
  <2> QED BY <1>3, <2>1 DEF Remove, TypeOK, Fates, Ops
<1>4. CASE MarkDelivered
  <2>1. held.id \in Ids
    BY <1>4 DEF MarkDelivered, HeldInv
  <2>2. op' \in Ops /\ pc' = "write"
    BY <1>0, <1>4, <2>1, EmptyTypes, BeginTypes DEF MarkDelivered, Kinds, IndexEntries
  <2> QED BY <1>4, <2>2 DEF MarkDelivered, TypeOK, Fates, Ops
<1>5. CASE ScheduleRetry
  <2> DEFINE m == held.id
  <2>1. m \in Ids
    BY <1>5 DEF ScheduleRetry, HeldInv
  <2>2. faults' \in [FaultKinds -> Nat]
    BY <1>5, ReadTypes DEF ScheduleRetry
  <2>3. ASSUME NEW kind \in Kinds, NEW st \in Live, PutBack(m, kind, st), UNCHANGED held
        PROVE  TypeOK'
    <3>1. Rewritten(m, st, index[m].att) \in Blobs
      BY <1>0, <2>1, BlobType DEF Rewritten, IndexEntries
    <3>2. op' \in Ops /\ pc' = "write"
      BY <1>0, <2>1, <2>3, <3>1, BeginTypes DEF PutBack, IndexEntries
    <3>3. index' \in [Ids -> IndexEntries]
      <4> DEFINE e == [index[m] EXCEPT !.st = st]
      <4>1. index' = [index EXCEPT ![m] = e]
        BY <2>3 DEF PutBack
      <4>2. e \in IndexEntries
        BY <1>0, <2>1, <2>3 DEF IndexEntries
      <4> QED BY <4>1, <4>2 DEF TypeOK, IndexEntries
    <3> QED BY <1>5, <2>2, <2>3, <3>2, <3>3 DEF ScheduleRetry, TypeOK, Ops, IndexEntries
  <2>4. CASE held' = NoHeld /\ UNCHANGED <<pc, op, index>>
    BY <1>5, <2>2, <2>4, EmptyTypes DEF ScheduleRetry, TypeOK, Helds
  <2> QED BY <1>5, <2>3, <2>4 DEF ScheduleRetry, Kinds, Live
<1>6. ASSUME NEW m \in Ids, Claim(m) PROVE TypeOK'
  <2>1. faults' \in [FaultKinds -> Nat]
    BY <1>6, ReadTypes DEF Claim
  <2>2. blob[index[m].slot].body \in Ids \cup {NoId}
    BY <1>0 DEF TypeOK, IndexEntries, Blobs
  <2>3. Blob(m, "IN_FLIGHT", index[m].att + 1, blob[index[m].slot].body) \in Blobs
    BY <1>0, <2>2, BlobType DEF IndexEntries, Live
  <2>4. op' \in Ops /\ pc' = "write"
    BY <1>0, <1>6, <2>3, BeginTypes DEF Claim, IndexEntries, Kinds
  <2>5. index' \in [Ids -> IndexEntries]
    BY <1>6 DEF Claim, TypeOK, IndexEntries, Live
  <2> QED BY <1>6, <2>1, <2>4, <2>5 DEF Claim, TypeOK, Ops, IndexEntries
<1>7. ASSUME NEW m \in Ids, ClaimCorrupt(m) PROVE TypeOK'
  <2>1. index[m].slot \in Slots
    BY <1>0 DEF IndexEntries
  <2>2. index' \in [Ids -> IndexEntries]
    BY <1>7 DEF ClaimCorrupt, TypeOK, IndexEntries, Live
  <2> QED BY <1>7, <2>1, <2>2, DiscardTypes DEF ClaimCorrupt, TypeOK, IndexEntries
<1>8. ASSUME NEW m \in Ids, ClaimError(m) PROVE TypeOK'
  BY <1>8, ReadTypes DEF ClaimError, TypeOK
<1>9. CASE PollIdle
  BY <1>9 DEF PollIdle, vars, TypeOK
<1> QED BY <1>1, <1>2, <1>3, <1>4, <1>5, <1>6, <1>7, <1>8, <1>9 DEF Publisher, Worker, ReadTrouble

LEMMA EnvironmentType == TypeOK /\ (PowerLoss \/ Rot) => TypeOK'
<1> SUFFICES ASSUME TypeOK, PowerLoss \/ Rot PROVE TypeOK'
  OBVIOUS
<1> USE DEF nvs, ctx, history
<1>1. CASE PowerLoss
  <2>1. disk' \in [Slots -> Blobs] /\ blob' = disk'
    BY <1>1 DEF PowerLoss, TypeOK
  <2>2. crashes' \in 0 .. MaxCrashes
    BY <1>1, NvsAssumption DEF PowerLoss, TypeOK
  <2> QED BY <1>1, <2>1, <2>2, ResetTypes DEF PowerLoss, TypeOK, Ops, IndexEntries, Helds
<1>2. CASE Rot
  <2>1. faults' \in [FaultKinds -> Nat]
    BY <1>2, FaultTypes DEF Rot, FaultKinds
  <2>2. blob' \in [Slots -> Blobs] /\ disk' \in [Slots -> Blobs]
    <3>1. PICK s \in Slots : /\ blob' = [blob EXCEPT ![s].ok = FALSE]
                             /\ disk' = [disk EXCEPT ![s].ok = FALSE]
      BY <1>2 DEF Rot
    <3>2. blob[s] \in Blobs /\ disk[s] \in Blobs
      BY DEF TypeOK
    <3>3. [blob[s] EXCEPT !.ok = FALSE] \in Blobs /\ [disk[s] EXCEPT !.ok = FALSE] \in Blobs
      BY <3>2 DEF Blobs
    <3> QED BY <3>1, <3>3 DEF TypeOK
  <2> QED BY <1>2, <2>1, <2>2 DEF Rot, TypeOK
<1> QED BY <1>1, <1>2

\* Types are kept by every step, given that what the worker holds is a message.
LEMMA TypeNext == TypeOK /\ HeldInv /\ [Next]_vars => TypeOK'
<1> SUFFICES ASSUME TypeOK, HeldInv, [Next]_vars PROVE TypeOK'
  OBVIOUS
<1>1. CASE UNCHANGED vars BY <1>1 DEF vars, TypeOK
<1> QED BY <1>1, RecoveryType, CallsType, OperationType, EnvironmentType DEF Next

-----------------------------------------------------------------------------
(* Slots.                                                                   *)

SlotInv == PlaceInv /\ IndexInv /\ SlotsExclusive /\ OpInv /\ HeldInv

\* With an empty index nothing is claimed about slots but where messages are.
LEMMA EmptyRam ==
  ASSUME TypeOK, PlaceInv, ResetRam, pc' \notin {"write", "commit"}, UNCHANGED fate,
         \A s \in Slots : WellFormed(blob'[s]) /\ WellFormed(disk'[s]),
         \A m \in Ids : \A s \in Slots : Holds(m, s)' => Holds(m, s)
  PROVE  SlotInv'
<1>1. \A m \in Ids : index'[m] = Absent
  BY DEF ResetRam
<1>2. Indexed' = {} /\ used' = {} /\ held' = NoHeld
  BY <1>1 DEF Indexed, ResetRam
<1>3. PlaceInv'
  BY <1>1 DEF PlaceInv, WellFormed
<1>4. IndexInv' /\ SlotsExclusive'
  BY <1>2 DEF IndexInv, SlotsExclusive
<1>5. OpInv' /\ HeldInv'
  BY <1>2 DEF OpInv, HeldInv, Busy, NoHeld
<1> QED BY <1>3, <1>4, <1>5 DEF SlotInv

LEMMA SlotInit == Init => SlotInv
<1> SUFFICES ASSUME Init PROVE SlotInv
  OBVIOUS
<1>1. \A m \in Ids : index[m] = Absent
  BY DEF Init
<1>2. Indexed = {} /\ used = {} /\ held = NoHeld
  BY <1>1 DEF Indexed, Init
<1>3. \A s \in Slots : blob[s] = NoBlob /\ disk[s] = NoBlob
  BY DEF Init
<1>4. \A m \in Ids : \A s \in Slots : ~Holds(m, s)
  BY <1>3, NvsAssumption DEF Holds, NoBlob
<1>5. PlaceInv
  BY <1>1, <1>3, <1>4 DEF PlaceInv, WellFormed
<1>6. IndexInv /\ SlotsExclusive
  BY <1>2 DEF IndexInv, SlotsExclusive
<1>7. OpInv /\ HeldInv
  BY <1>2 DEF OpInv, HeldInv, Busy, Init
<1> QED BY <1>5, <1>6, <1>7 DEF SlotInv

\* A reset keeps of every slot what it held or what it was about to hold.
LEMMA SlotReset == TypeOK /\ SlotInv /\ (Boot \/ PowerLoss) => SlotInv'
<1> SUFFICES ASSUME TypeOK, SlotInv, Boot \/ PowerLoss PROVE SlotInv'
  OBVIOUS
<1> USE DEF nvs, history
<1>1. CASE Boot
  BY <1>1, EmptyRam DEF Boot, SlotInv, PlaceInv, Holds
<1>2. CASE PowerLoss
  <2>1. \A s \in Slots : blob'[s] = disk'[s] /\ disk'[s] \in {blob[s], disk[s]}
    BY <1>2 DEF PowerLoss
  <2>2. \A s \in Slots : WellFormed(blob'[s]) /\ WellFormed(disk'[s])
    BY <2>1 DEF SlotInv, PlaceInv
  <2>3. \A m \in Ids : \A s \in Slots : Holds(m, s)' => Holds(m, s)
    BY <2>1 DEF Holds
  <2> QED BY <1>2, <2>2, <2>3, EmptyRam DEF PowerLoss, SlotInv
<1> QED BY <1>1, <1>2

\* A step that takes nothing from the index and puts nothing into a slot.
LEMMA SlotKept ==
  ASSUME TypeOK, SlotInv, UNCHANGED <<index, used, op, held>>,
         \A m \in Ids : fate'[m] = "fresh" => fate[m] = "fresh",
         pc' \in {"write", "commit"} <=> Busy, pc' = "commit" => pc = "commit",
         pc' = "scan" => pc = "scan" /\ cur \in Nat /\ cur' \in Nat /\ cur' >= cur,
         held # NoHeld => pc' \in {"idle", "write", "commit"},
         \A s \in Slots : WellFormed(blob'[s]) /\ WellFormed(disk'[s]),
         \A m \in Ids : \A s \in Slots : Holds(m, s)' => Holds(m, s),
         \A s \in Slots : blob'[s].id \in {blob[s].id, NoId},
         Busy => blob'[op.slot].id = blob[op.slot].id
  PROVE  SlotInv'
<1>1. Indexed' = Indexed /\ Busy' = Busy
  BY DEF Indexed, Busy
<1>2. PlaceInv'
  BY DEF SlotInv, PlaceInv
<1>3. \A m \in Indexed : m \in Ids /\ index[m].slot \in Slots /\ index[m].slot \in Nat
  BY NvsAssumption DEF Indexed, TypeOK, Slots
<1>4. IndexInv'
  BY <1>1, <1>3 DEF SlotInv, IndexInv
<1>5. SlotsExclusive'
  BY <1>1, <1>3 DEF SlotInv, SlotsExclusive
<1>6. OpInv'
  BY <1>1, NvsAssumption DEF SlotInv, OpInv
<1>7. HeldInv'
  BY <1>1 DEF SlotInv, HeldInv
<1> QED BY <1>2, <1>4, <1>5, <1>6, <1>7 DEF SlotInv

\* An erase that may fail, or not be committed, puts no message anywhere.
LEMMA DiscardKeeps ==
  ASSUME TypeOK, PlaceInv, NEW s \in Slots, Discard(s)
  PROVE  /\ \A t \in Slots : WellFormed(blob'[t]) /\ WellFormed(disk'[t])
         /\ \A m \in Ids : \A t \in Slots : Holds(m, t)' => Holds(m, t)
         /\ \A t \in Slots : blob'[t].id \in {blob[t].id, NoId}
<1>1. \A t \in Slots : blob'[t] \in {blob[t], NoBlob} /\ disk'[t] \in {blob[t], disk[t], NoBlob}
  BY DEF Discard, TypeOK, nvs
<1>2. NoBlob.id = NoId /\ NoId \notin Ids
  BY NvsAssumption DEF NoBlob
<1> QED BY <1>1, <1>2 DEF PlaceInv, WellFormed, Holds

\* The steps of SlotKept: nothing of what the invariant speaks of changes.
LEMMA SlotQuiet ==
  ASSUME TypeOK, SlotInv,
         ScanEnd \/ Recovered \/ PollIdle \/ Rot \/ UNCHANGED vars
         \/ \E m \in Ids : ClaimError(m) \/ EnqueueFull(m)
  PROVE  SlotInv'
<1> USE DEF nvs, ctx, history
<1>0. /\ \A s \in Slots : WellFormed(blob[s]) /\ WellFormed(disk[s])
      /\ held # NoHeld => pc \in {"idle", "write", "commit"}
      /\ cur \in Nat
  BY NvsAssumption DEF SlotInv, PlaceInv, HeldInv, TypeOK
<1>1. CASE ScanEnd \/ Recovered
  BY <1>0, <1>1, SlotKept DEF ScanEnd, Recovered, Busy, Holds
<1>2. CASE PollIdle \/ UNCHANGED vars
  BY <1>0, <1>2, SlotKept DEF PollIdle, Busy, Holds, vars
<1>3. ASSUME NEW m \in Ids, ClaimError(m) PROVE SlotInv'
  BY <1>0, <1>3, SlotKept DEF ClaimError, Busy, Holds
<1>4. ASSUME NEW m \in Ids, EnqueueFull(m) PROVE SlotInv'
  <2>1. \A n \in Ids : fate'[n] = "fresh" => fate[n] = "fresh"
    BY <1>4 DEF EnqueueFull, TypeOK
  <2> QED BY <1>0, <1>4, <2>1, SlotKept DEF EnqueueFull, Busy, Holds
<1>5. CASE Rot
  <2>1. PICK s \in Slots : /\ blob[s] # NoBlob /\ blob[s] = disk[s]
                           /\ blob' = [blob EXCEPT ![s].ok = FALSE]
                           /\ disk' = [disk EXCEPT ![s].ok = FALSE]
    BY <1>5 DEF Rot
  <2>2. \A t \in Slots : /\ blob'[t].id = blob[t].id /\ disk'[t].id = disk[t].id
                         /\ blob'[t].st = blob[t].st /\ disk'[t].st = disk[t].st
                         /\ t # s => blob'[t] = blob[t] /\ disk'[t] = disk[t]
    BY <2>1 DEF TypeOK, Blobs
  <2>3. \A t \in Slots : WellFormed(blob'[t]) /\ WellFormed(disk'[t])
    BY <1>0, <2>1, <2>2 DEF WellFormed
  <2>4. op.slot \in Slots
    BY DEF TypeOK
  <2>5. UNCHANGED <<pc, op, cur, index, used, held, fate>>
    BY <1>5 DEF Rot
  <2>6. \A m \in Ids : \A t \in Slots : Holds(m, t)' => Holds(m, t)
    BY <2>2 DEF Holds
  <2> QED BY <1>0, <2>2, <2>3, <2>4, <2>5, <2>6, SlotKept DEF Busy
<1> QED BY <1>1, <1>2, <1>3, <1>4, <1>5

\* A step that changes the entry of one indexed message, but not its slot.
LEMMA EntryTouched ==
  ASSUME TypeOK, TypeOK', SlotInv, NEW m \in Indexed, pc' # "scan", UNCHANGED used,
         \A n \in Ids : n # m => index'[n] = index[n],
         index'[m].slot = index[m].slot, index'[m].st \in Live,
         \A n \in Ids : fate'[n] = "fresh" => fate[n] = "fresh",
         \A s \in Slots : WellFormed(blob'[s]) /\ WellFormed(disk'[s]),
         \A n \in Ids : \A s \in Slots : Holds(n, s)' => Holds(n, s),
         \A s \in Slots : blob'[s].id \in {blob[s].id, NoId}
  PROVE  PlaceInv' /\ IndexInv' /\ SlotsExclusive'
<1>1. m \in Ids /\ index[m] # Absent /\ index'[m] # Absent
  BY DEF Indexed, Absent, Entry, Live
<1>2. Indexed' = Indexed
  BY <1>1 DEF Indexed
<1>3. \A n \in Indexed : n \in Ids /\ index'[n].slot = index[n].slot /\ index[n].slot \in Slots
  BY DEF Indexed, TypeOK
<1>4. PlaceInv'
  BY <1>1 DEF SlotInv, PlaceInv
<1>5. IndexInv'
  BY <1>2, <1>3 DEF SlotInv, IndexInv
<1>6. {index'[n].slot : n \in Indexed} = {index[n].slot : n \in Indexed}
  BY <1>3
<1>7. SlotsExclusive'
  BY <1>2, <1>3, <1>6 DEF SlotInv, SlotsExclusive
<1> QED BY <1>4, <1>5, <1>7

-----------------------------------------------------------------------------
(* Slots, action by action.                                                 *)

\* The index and slot_used gain the message found in the slot that is scanned,
\* which no entry has: entries have the slots below it.
LEMMA SlotScan == TypeOK /\ TypeOK' /\ SlotInv /\ ScanSlot => SlotInv'
<1> SUFFICES ASSUME TypeOK, TypeOK', SlotInv, ScanSlot PROVE SlotInv'
  OBVIOUS
<1> USE DEF nvs, ctx, history
<1>0. /\ pc = "scan" /\ cur \in Slots /\ cur \in Nat /\ held = NoHeld
      /\ UNCHANGED <<op, held, fate>>
  BY NvsAssumption DEF ScanSlot, TypeOK, SlotInv, HeldInv
<1>1. \A s \in Slots : WellFormed(blob[s]) /\ WellFormed(disk[s])
  BY DEF SlotInv, PlaceInv
<1>2. CASE /\ Read(cur, "OK")
           /\ index' = [index EXCEPT ![blob[cur].id] = Entry(blob[cur].st, blob[cur].att, cur)]
           /\ used' = used \cup {cur}
           /\ cur' = cur + 1 /\ UNCHANGED <<nvs, pc>>
  <2> DEFINE m == blob[cur].id
  <2>1. blob[cur] # NoBlob
    BY <1>2 DEF Read, Verified
  <2>2. m \in Ids /\ blob[cur].st \in Live /\ Holds(m, cur)
    BY <1>0, <1>1, <2>1 DEF WellFormed, Holds
  <2>3. m \notin Indexed /\ \A n \in Indexed : n \in Ids /\ index[n].slot < cur
                                               /\ index[n].slot \in Slots
    <3>1. \A n \in Indexed : n \in Ids /\ index[n].slot < cur /\ index[n].slot \in Slots
      BY <1>0 DEF SlotInv, IndexInv, Indexed, TypeOK
    <3>2. ASSUME m \in Indexed PROVE cur < cur
      BY <1>0, <2>2, <3>1, <3>2 DEF SlotInv, IndexInv
    <3> QED BY <1>0, <3>1, <3>2
  <2>4. /\ index'[m].st = blob[cur].st /\ index'[m].slot = cur
        /\ \A n \in Ids : n # m => index'[n] = index[n]
    BY <1>2, <2>2 DEF TypeOK, Entry
  <2>5. Indexed' = Indexed \cup {m}
    BY <2>2, <2>4 DEF Indexed, Absent, Entry, Live
  <2>6. fate[m] # "fresh"
    BY <1>0, <2>2 DEF SlotInv, PlaceInv
  <2>7. PlaceInv'
    <3>1. UNCHANGED <<blob, disk, fate>>
      BY <1>0, <1>2
    <3>2. \A n \in Ids : \A s \in Slots : Holds(n, s)' = Holds(n, s)
      BY <3>1 DEF Holds
    <3>3. \A n \in Ids : fate'[n] = "fresh" =>
            index'[n] = Absent /\ \A s \in Slots : ~Holds(n, s)
      BY <2>4, <2>6, <3>1 DEF SlotInv, PlaceInv
    <3>4. \A s \in Slots : WellFormed(blob'[s]) /\ WellFormed(disk'[s])
      BY <1>1, <3>1
    <3>5. \A n \in Ids : \A s, t \in Slots : Holds(n, s)' /\ Holds(n, t)' => s = t
      BY <3>2 DEF SlotInv, PlaceInv
    <3> QED BY <3>2, <3>3, <3>4, <3>5 DEF PlaceInv
  <2>8. IndexInv'
    <3>0. \A s \in Slots : s \in Nat
      BY NvsAssumption DEF Slots
    <3>1. \A n \in Indexed' : index'[n].st \in Live /\ index'[n].slot < cur'
      <4> SUFFICES ASSUME NEW n \in Indexed'
                   PROVE  index'[n].st \in Live /\ index'[n].slot < cur'
        OBVIOUS
      <4>1. CASE n = m
        BY <1>0, <1>2, <2>2, <2>4, <4>1
      <4>2. CASE n \in Indexed /\ n # m
        <5>1. index'[n] = index[n] /\ index[n].slot < cur /\ index[n].slot \in Nat
          BY <2>3, <2>4, <3>0, <4>2
        <5>2. index[n].st \in Live
          BY <4>2 DEF SlotInv, IndexInv
        <5> QED BY <1>0, <1>2, <5>1, <5>2
      <4> QED BY <2>5, <4>1, <4>2
    <3>2. \A s \in Slots : Holds(m, s) => s = cur
      BY <1>0, <2>2 DEF SlotInv, PlaceInv
    <3>3. \A n \in Indexed' : \A s \in Slots : Holds(n, s)' => s = index'[n].slot
      BY <1>2, <2>3, <2>4, <2>5, <3>2 DEF SlotInv, IndexInv, Holds
    <3> QED BY <3>1, <3>3 DEF IndexInv
  <2>9. SlotsExclusive'
    <3>1. used' = {index'[n].slot : n \in Indexed'}
      BY <1>2, <2>3, <2>4, <2>5 DEF SlotInv, SlotsExclusive
    <3>2. \A n, k \in Indexed' : index'[n].slot = index'[k].slot => n = k
      BY <1>0, <2>3, <2>4, <2>5 DEF SlotInv, SlotsExclusive
    <3>3. \A n \in Indexed' : blob'[index'[n].slot].id \in {n, NoId}
      BY <1>2, <2>3, <2>4, <2>5 DEF SlotInv, SlotsExclusive
    <3> QED BY <3>1, <3>2, <3>3 DEF SlotsExclusive
  <2> QED BY <1>0, <1>2, <2>7, <2>8, <2>9 DEF SlotInv, OpInv, HeldInv, Busy
<1>3. CASE Read(cur, "NOT_FOUND") /\ cur' = cur + 1 /\ UNCHANGED <<nvs, ctx, pc>>
  BY <1>0, <1>1, <1>3, SlotKept DEF Busy, Holds
<1>4. CASE Discard(cur) /\ cur' = cur + 1 /\ UNCHANGED <<ctx, pc>>
  BY <1>0, <1>4, DiscardKeeps, SlotKept DEF Busy, SlotInv
<1>5. CASE Read(cur, "STORAGE") /\ pc' = "failed" /\ UNCHANGED <<nvs, ctx, cur>>
  BY <1>0, <1>1, <1>5, SlotKept DEF Busy, Holds
<1> QED BY <1>2, <1>3, <1>4, <1>5 DEF ScanSlot

\* An operation on an indexed message begins: what it will write, and to where.
LEMMA SlotBegin ==
  ASSUME TypeOK, TypeOK', SlotInv, NEW m \in Indexed, NEW kind, NEW rec,
         kind \notin {"none", "enqueue"}, pc \in {"idle", "requeue"},
         Begin(kind, m, index[m].slot, rec), UNCHANGED <<blob, disk, used>>,
         \A n \in Ids : n # m => index'[n] = index[n],
         index'[m].slot = index[m].slot, index'[m].st \in Live,
         kind = "claim" => index'[m].st = "IN_FLIGHT",
         \A n \in Ids : fate'[n] = "fresh" => fate[n] = "fresh",
         IF Erases(kind) THEN rec = NoBlob ELSE rec.id = m /\ rec.st \in Live
  PROVE  PlaceInv' /\ IndexInv' /\ SlotsExclusive' /\ OpInv'
<1>1. m \in Ids /\ index[m] # Absent /\ index'[m] # Absent
  BY DEF Indexed, Absent, Entry, Live
<1>2. /\ pc' = "write" /\ op'.kind = kind /\ op'.id = m
      /\ op'.slot = index[m].slot /\ op'.rec = rec
  BY DEF Begin
<1>3. PlaceInv' /\ IndexInv' /\ SlotsExclusive'
  BY <1>2, EntryTouched DEF SlotInv, PlaceInv, Holds
<1>4. fate'[m] # "fresh"
  BY <1>1 DEF SlotInv, PlaceInv
<1>5. OpInv'
  BY <1>1, <1>2, <1>4 DEF OpInv, Erases
<1> QED BY <1>3, <1>5

\* Recovery puts back what was IN_FLIGHT; the worker holds nothing then.
LEMMA SlotRequeue ==
  ASSUME TypeOK, TypeOK', SlotInv, NEW m \in Ids, Requeue(m)
  PROVE  SlotInv'
<1> USE DEF nvs, history
<1>0. /\ pc = "requeue" /\ held = NoHeld /\ UNCHANGED <<blob, disk, cur, used, held, fate>>
      /\ m \in Indexed
  BY DEF Requeue, SlotInv, HeldInv, Indexed, Absent, Entry
<1>1. CASE /\ Begin("requeue", m, index[m].slot, Rewritten(m, "PENDING", index[m].att))
           /\ index' = [index EXCEPT ![m].st = "PENDING"]
  <2>1. /\ index'[m].st = "PENDING" /\ index'[m].slot = index[m].slot
        /\ \A n \in Ids : n # m => index'[n] = index[n]
    BY <1>1 DEF TypeOK
  <2>2. PlaceInv' /\ IndexInv' /\ SlotsExclusive' /\ OpInv'
    BY <1>0, <1>1, <2>1, SlotBegin DEF Rewritten, Blob, Live, Erases
  <2> QED BY <1>0, <2>2 DEF SlotInv, HeldInv
<1>2. CASE pc' = "failed" /\ UNCHANGED <<op, index>>
  BY <1>0, <1>2, SlotKept DEF SlotInv, PlaceInv, Busy, Holds
<1> QED BY <1>1, <1>2 DEF Requeue

\* The operations of the worker and the removal of an overflow drop.
LEMMA SlotOperation ==
  ASSUME TypeOK, TypeOK', SlotInv,
         MarkDelivered \/ ScheduleRetry \/ \E m \in Ids : Claim(m) \/ Remove(m)
  PROVE  SlotInv'
<1> USE DEF nvs, ctx, history
<1>0. ~Busy /\ pc = "idle" /\ UNCHANGED <<blob, disk, cur, used>>
  BY DEF MarkDelivered, ScheduleRetry, Claim, Remove, Busy
<1>1. held # NoHeld => held.id \in Indexed /\ index[held.id].st = "IN_FLIGHT"
  BY <1>0 DEF SlotInv, HeldInv, Indexed, Absent, Entry
<1>2. \A m \in Indexed : m \in Ids /\ index[m].st \in Live
  BY DEF SlotInv, IndexInv, Indexed
<1>3. CASE MarkDelivered
  <2> DEFINE m == held.id
  <2>1. held # NoHeld /\ m \in Indexed /\ UNCHANGED <<index, held>>
        /\ Begin("deliver", m, index[m].slot, NoBlob)
    BY <1>1, <1>3 DEF MarkDelivered
  <2>2. \A n \in Ids : fate'[n] = "fresh" => fate[n] = "fresh"
    BY <1>3 DEF MarkDelivered, TypeOK
  <2>3. PlaceInv' /\ IndexInv' /\ SlotsExclusive' /\ OpInv'
    BY <1>0, <1>2, <2>1, <2>2, SlotBegin DEF Erases
  <2>4. HeldInv'
    BY <1>2, <2>1 DEF HeldInv, Begin, Busy, Reports
  <2> QED BY <2>3, <2>4 DEF SlotInv
<1>4. CASE ScheduleRetry
  <2> DEFINE m == held.id
  <2>1. held # NoHeld /\ m \in Indexed /\ UNCHANGED fate
    BY <1>1, <1>4 DEF ScheduleRetry
  <2>2. ASSUME NEW kind \in {"retry", "dead"}, NEW st \in Live, PutBack(m, kind, st),
               UNCHANGED held
        PROVE  SlotInv'
    <3>1. /\ Begin(kind, m, index[m].slot, Rewritten(m, st, index[m].att))
          /\ index'[m].st = st /\ index'[m].slot = index[m].slot
          /\ \A n \in Ids : n # m => index'[n] = index[n]
      BY <1>2, <2>1, <2>2 DEF PutBack, TypeOK
    <3>2. PlaceInv' /\ IndexInv' /\ SlotsExclusive' /\ OpInv'
      BY <1>0, <2>1, <3>1, SlotBegin DEF Rewritten, Blob, Erases
    <3>3. HeldInv'
      BY <1>2, <2>1, <2>2, <3>1 DEF HeldInv, Begin, Busy, Reports
    <3> QED BY <3>2, <3>3 DEF SlotInv
  <2>3. CASE held' = NoHeld /\ UNCHANGED <<pc, op, index>>
    <3>1. PlaceInv' /\ IndexInv' /\ SlotsExclusive'
      BY <1>0, <1>2, <2>1, <2>3, EntryTouched DEF SlotInv, PlaceInv, Holds
    <3> QED BY <1>0, <2>3, <3>1 DEF SlotInv, OpInv, HeldInv, Busy
  <2> QED BY <1>4, <2>2, <2>3 DEF ScheduleRetry, Live
<1>5. ASSUME NEW m \in Ids, Claim(m) PROVE SlotInv'
  <2>1. held = NoHeld /\ held' = NoHeld /\ m \in Indexed /\ UNCHANGED fate
    BY <1>5 DEF Claim, Indexed, Absent, Entry
  <2> DEFINE rec == Blob(m, "IN_FLIGHT", index[m].att + 1, blob[index[m].slot].body)
  <2>2. /\ Begin("claim", m, index[m].slot, rec)
        /\ index'[m].st = "IN_FLIGHT" /\ index'[m].slot = index[m].slot
        /\ \A n \in Ids : n # m => index'[n] = index[n]
    BY <1>5 DEF Claim, TypeOK
  <2>3. rec.id = m /\ rec.st \in Live
    BY DEF Blob, Live
  <2>4. PlaceInv' /\ IndexInv' /\ SlotsExclusive' /\ OpInv'
    BY <1>0, <2>1, <2>2, <2>3, SlotBegin DEF Erases, Live
  <2> QED BY <2>1, <2>4 DEF SlotInv, HeldInv
<1>6. ASSUME NEW m \in Ids, Remove(m) PROVE SlotInv'
  <2>1. /\ m \in Indexed /\ index[m].st = "PENDING" /\ UNCHANGED <<index, held>>
        /\ Begin("remove", m, index[m].slot, NoBlob)
    BY <1>6 DEF Remove, Indexed, Absent, Entry
  <2>2. \A n \in Ids : fate'[n] = "fresh" => fate[n] = "fresh"
    BY <1>6 DEF Remove, TypeOK
  <2>3. PlaceInv' /\ IndexInv' /\ SlotsExclusive' /\ OpInv'
    BY <1>0, <1>2, <2>1, <2>2, SlotBegin DEF Erases
  <2>4. HeldInv'
    BY <1>1, <1>2, <2>1 DEF HeldInv, Begin, Busy
  <2> QED BY <2>3, <2>4 DEF SlotInv
<1> QED BY <1>3, <1>4, <1>5, <1>6

\* A corrupt message keeps its slot, as a dead letter in RAM only.
LEMMA SlotCorrupt ==
  ASSUME TypeOK, TypeOK', SlotInv, NEW m \in Ids, ClaimCorrupt(m)
  PROVE  SlotInv'
<1>1. /\ pc = "idle" /\ m \in Indexed /\ held = NoHeld
      /\ UNCHANGED <<pc, op, used, held, fate>> /\ Discard(index[m].slot)
  BY DEF ClaimCorrupt, Indexed, Absent, Entry, history
<1>2. /\ index[m].slot \in Slots /\ index'[m].st = "DEAD_LETTER"
      /\ index'[m].slot = index[m].slot
      /\ \A n \in Ids : n # m => index'[n] = index[n]
  BY DEF ClaimCorrupt, TypeOK
<1>3. PlaceInv' /\ IndexInv' /\ SlotsExclusive'
  BY <1>1, <1>2, DiscardKeeps, EntryTouched DEF SlotInv, Live
<1> QED BY <1>1, <1>3 DEF SlotInv, OpInv, HeldInv, Busy

\* An enqueue takes a free slot, for a message that is nowhere.
LEMMA SlotEnqueue ==
  ASSUME TypeOK, TypeOK', SlotInv, NEW m \in Ids, Enqueue(m)
  PROVE  SlotInv'
<1> USE DEF nvs, ctx, history
<1>1. /\ pc = "idle" /\ fate[m] = "fresh" /\ pc' = "write"
      /\ UNCHANGED <<blob, disk, cur, index, used, held>>
  BY DEF Enqueue, Begin
<1>2. PICK s \in Slots : LowestFree(s) /\ Begin("enqueue", m, s, Blob(m, "PENDING", 0, m))
  BY DEF Enqueue
<1>3. /\ op'.kind = "enqueue" /\ op'.id = m /\ op'.slot = s /\ s \notin used
      /\ op'.rec.id = m /\ op'.rec.st \in Live
  BY <1>2 DEF Begin, LowestFree, FreeSlots, Blob, Live
<1>4. index[m] = Absent /\ \A t \in Slots : ~Holds(m, t)
  BY <1>1 DEF SlotInv, PlaceInv
<1>5. fate'[m] = "offered" /\ \A n \in Ids : fate'[n] = "fresh" => fate[n] = "fresh"
  BY DEF Enqueue, TypeOK
<1>6. PlaceInv' /\ IndexInv' /\ SlotsExclusive'
  BY <1>1, <1>5 DEF SlotInv, PlaceInv, IndexInv, SlotsExclusive, Holds, Indexed
<1>7. OpInv'
  BY <1>1, <1>3, <1>4, <1>5 DEF OpInv, Holds, Erases
<1>8. HeldInv'
  BY <1>1, <1>3, <1>4 DEF SlotInv, HeldInv, Busy, Absent, Entry
<1> QED BY <1>6, <1>7, <1>8 DEF SlotInv

\* nvs_set_blob or nvs_erase_key on the slot of the operation.
LEMMA SlotWrite == TypeOK /\ TypeOK' /\ SlotInv /\ Write => SlotInv'
<1> SUFFICES ASSUME TypeOK, TypeOK', SlotInv, Write PROVE SlotInv'
  OBVIOUS
<1> USE DEF ctx, history
<1>1. /\ pc = "write" /\ pc' = "commit" /\ Busy /\ Busy'
      /\ UNCHANGED <<disk, op, cur, index, used, held, fate>>
  BY DEF Write, Busy
<1>2. /\ op.slot \in Slots /\ blob'[op.slot] = op.rec
      /\ \A s \in Slots : s # op.slot => blob'[s] = blob[s]
  BY DEF Write, TypeOK
<1>3. /\ op.id \in Ids /\ op.rec.id \in {op.id, NoId} /\ WellFormed(op.rec)
      /\ NoId \notin Ids
  BY <1>1, NvsAssumption DEF SlotInv, OpInv, NoBlob, WellFormed
<1>4. \A s \in Slots : Holds(op.id, s) => s = op.slot
  BY <1>1 DEF SlotInv, OpInv, IndexInv, Indexed
<1>5. \A m \in Ids : \A s \in Slots :
        Holds(m, s)' => Holds(m, s) \/ (m = op.id /\ s = op.slot)
  BY <1>1, <1>2, <1>3 DEF Holds
<1>6. PlaceInv'
  <2>1. \A s \in Slots : WellFormed(blob'[s]) /\ WellFormed(disk'[s])
    BY <1>1, <1>2, <1>3 DEF SlotInv, PlaceInv
  <2>2. \A m \in Ids : \A s, t \in Slots : Holds(m, s)' /\ Holds(m, t)' => s = t
    BY <1>4, <1>5 DEF SlotInv, PlaceInv
  <2>3. fate[op.id] # "fresh"
    BY <1>1 DEF SlotInv, OpInv
  <2> QED BY <1>1, <1>5, <2>1, <2>2, <2>3 DEF SlotInv, PlaceInv
<1>7. IndexInv'
  <2>1. op.id \in Indexed => op.slot = index[op.id].slot
    BY <1>1 DEF SlotInv, OpInv, Indexed
  <2> QED BY <1>1, <1>5, <2>1 DEF SlotInv, IndexInv, Indexed
<1>8. SlotsExclusive'
  <2>1. \A m \in Indexed : /\ m \in Ids /\ index[m].slot \in Slots /\ index[m].slot \in used
                           /\ blob[index[m].slot].id \in {m, NoId}
    BY DEF SlotInv, SlotsExclusive, Indexed, TypeOK
  <2>2. \A m \in Indexed : index[m].slot = op.slot => m = op.id
    BY <1>1, <1>3, <2>1 DEF SlotInv, OpInv, SlotsExclusive, Indexed
  <2>3. \A m \in Indexed : blob'[index[m].slot].id \in {m, NoId}
    BY <1>2, <1>3, <2>1, <2>2
  <2> QED BY <1>1, <2>3 DEF SlotInv, SlotsExclusive, Indexed
<1>9. OpInv'
  BY <1>1, <1>2, <1>4, <1>5 DEF SlotInv, OpInv
<1>10. HeldInv'
  BY <1>1 DEF SlotInv, HeldInv
<1> QED BY <1>6, <1>7, <1>8, <1>9, <1>10 DEF SlotInv

\* A failed operation leaves the index as it is.
LEMMA SlotFail ==
  ASSUME TypeOK, TypeOK', SlotInv, Busy, Fail, UNCHANGED <<blob, disk, cur>>
  PROVE  SlotInv'
<1>1. /\ pc' \in {"failed", "idle"} /\ ~Busy' /\ UNCHANGED <<index, used>>
      /\ op.kind # "requeue" => pc' = "idle"
  BY DEF Fail, Return, Busy
<1>2. \A m \in Ids : fate'[m] = "fresh" => fate[m] = "fresh"
  BY DEF Fail, Return, TypeOK
<1>3. PlaceInv' /\ IndexInv' /\ SlotsExclusive'
  BY <1>1, <1>2 DEF SlotInv, PlaceInv, IndexInv, SlotsExclusive, Holds, Indexed
<1>4. HeldInv'
  <2>1. held' = IF Reports(op.kind) THEN NoHeld ELSE held
    BY DEF Fail, Return
  <2> QED BY <1>1, <2>1 DEF SlotInv, HeldInv, Reports
<1> QED BY <1>1, <1>3, <1>4 DEF SlotInv, OpInv

\* A commit ends the operation: the index gains the message of an enqueue with
\* its slot, and loses the one that was erased, with its slot.
LEMMA SlotCommit == TypeOK /\ TypeOK' /\ SlotInv /\ Commit => SlotInv'
<1> SUFFICES ASSUME TypeOK, TypeOK', SlotInv, Commit PROVE SlotInv'
  OBVIOUS
<1> DEFINE m == op.id
<1>1. /\ pc = "commit" /\ Busy /\ disk' = blob /\ blob' = blob /\ ~Busy' /\ Succeed
      /\ pc' \in {"requeue", "idle"}
      /\ op.kind # "requeue" => pc' = "idle"
  BY DEF Commit, Succeed, Return, Busy
<1>2. m \in Ids /\ op.slot \in Slots /\ fate[m] # "fresh" /\ op.kind # "none"
  BY <1>1 DEF SlotInv, OpInv, TypeOK
<1>3. /\ \A s \in Slots : WellFormed(blob'[s]) /\ WellFormed(disk'[s])
      /\ \A n \in Ids : \A s \in Slots : Holds(n, s)' => Holds(n, s)
  BY <1>1 DEF SlotInv, PlaceInv, Holds
<1>4. \A n \in Ids : fate'[n] = "fresh" => fate[n] = "fresh"
  <2> DEFINE told(f) == [fate EXCEPT ![op.id] = f]
  <2>1. fate' \in {fate, told("accepted"), told("closed")}
    BY <1>1 DEF Succeed, Return, TypeOK
  <2> QED BY <1>2, <2>1 DEF TypeOK
<1>5. \A n \in Indexed : n \in Ids /\ index[n].slot \in Slots /\ index[n].slot \in used
  BY DEF SlotInv, SlotsExclusive, Indexed, TypeOK
<1>6. held' = CASE op.kind = "claim" -> [id |-> op.id, body |-> op.rec.body, att |-> op.rec.att]
                [] Reports(op.kind)  -> NoHeld
                [] OTHER -> held
  BY <1>1 DEF Succeed, Return
<1>7. CASE op.kind = "enqueue"
  <2>1. op.slot \notin used /\ index[m] = Absent /\ \A s \in Slots : Holds(m, s) => s = op.slot
    BY <1>1, <1>7 DEF SlotInv, OpInv
  <2>2. blob[op.slot].id = m
    BY <1>1, <1>7 DEF SlotInv, OpInv, Erases
  <2>3. index' = [index EXCEPT ![m] = Entry("PENDING", 0, op.slot)] /\ used' = used \cup {op.slot}
    BY <1>1, <1>7 DEF Succeed, Return, SlotsAfter, Erases
  <2>4. /\ index'[m].st = "PENDING" /\ index'[m].slot = op.slot
        /\ \A n \in Ids : n # m => index'[n] = index[n]
    BY <1>2, <2>3 DEF TypeOK, Entry
  <2>5. Indexed' = Indexed \cup {m} /\ m \notin Indexed
    BY <1>2, <2>1, <2>4 DEF Indexed, Absent, Entry
  <2>6. PlaceInv'
    BY <1>2, <1>3, <1>4, <2>4 DEF SlotInv, PlaceInv
  <2>7. IndexInv'
    <3>1. \A n \in Indexed' : n = m \/ (n \in Indexed /\ n \in Ids /\ index'[n] = index[n])
      BY <1>5, <2>4, <2>5
    <3>2. \A n \in Indexed' : index'[n].st \in Live
      BY <2>4, <3>1 DEF SlotInv, IndexInv, Live
    <3>3. \A n \in Indexed' : \A s \in Slots : Holds(n, s)' => s = index'[n].slot
      BY <1>2, <1>3, <2>1, <2>4, <3>1 DEF SlotInv, IndexInv
    <3> QED BY <1>1, <3>2, <3>3 DEF IndexInv
  <2>8. SlotsExclusive'
    <3>1. used' = {index'[n].slot : n \in Indexed'}
      BY <1>5, <2>3, <2>4, <2>5 DEF SlotInv, SlotsExclusive
    <3>2. \A n, k \in Indexed' : index'[n].slot = index'[k].slot => n = k
      BY <1>5, <2>1, <2>4, <2>5 DEF SlotInv, SlotsExclusive
    <3>3. \A n \in Indexed' : blob'[index'[n].slot].id \in {n, NoId}
      BY <1>1, <1>5, <2>2, <2>4, <2>5 DEF SlotInv, SlotsExclusive
    <3> QED BY <3>1, <3>2, <3>3 DEF SlotsExclusive
  <2>9. held' = held
    BY <1>6, <1>7 DEF Reports
  <2>10. HeldInv'
    BY <1>1, <1>7, <2>4, <2>9 DEF SlotInv, HeldInv, Reports
  <2> QED BY <1>1, <2>6, <2>7, <2>8, <2>10 DEF SlotInv, OpInv
<1>8. CASE Erases(op.kind)
  <2>0. op.kind \in {"deliver", "remove"} /\ op.kind # "enqueue" /\ op.kind # "claim"
    BY <1>8 DEF Erases
  <2>1. m \in Indexed /\ op.slot = index[m].slot
    BY <1>1, <1>2, <2>0 DEF SlotInv, OpInv, Indexed
  <2>2. index' = [index EXCEPT ![m] = Absent] /\ used' = used \ {op.slot}
    BY <1>1, <1>8, <2>0 DEF Succeed, Return, SlotsAfter
  <2>3. index'[m] = Absent /\ \A n \in Ids : n # m => index'[n] = index[n]
    BY <1>2, <2>2 DEF TypeOK
  <2>4. Indexed' = Indexed \ {m}
    BY <2>1, <2>3 DEF Indexed
  <2>5. PlaceInv'
    BY <1>2, <1>3, <1>4, <2>3 DEF SlotInv, PlaceInv
  <2>6. IndexInv'
    BY <1>1, <1>3, <1>5, <2>3, <2>4 DEF SlotInv, IndexInv
  <2>7. SlotsExclusive'
    <3>1. used' = {index'[n].slot : n \in Indexed'}
      BY <1>5, <2>1, <2>2, <2>3, <2>4 DEF SlotInv, SlotsExclusive
    <3>2. \A n, k \in Indexed' : index'[n].slot = index'[k].slot => n = k
      BY <1>5, <2>3, <2>4 DEF SlotInv, SlotsExclusive
    <3>3. \A n \in Indexed' : blob'[index'[n].slot].id \in {n, NoId}
      BY <1>1, <1>5, <2>3, <2>4 DEF SlotInv, SlotsExclusive
    <3> QED BY <3>1, <3>2, <3>3 DEF SlotsExclusive
  <2>8. held' = IF op.kind = "deliver" THEN NoHeld ELSE held
    BY <1>6, <2>0 DEF Reports
  <2>9. HeldInv'
    BY <1>1, <2>0, <2>3, <2>8 DEF SlotInv, HeldInv, Reports
  <2> QED BY <1>1, <2>5, <2>6, <2>7, <2>9 DEF SlotInv, OpInv
<1>9. CASE op.kind \in {"claim", "retry", "dead", "requeue"}
  <2>1. index' = index /\ used' = used
    BY <1>1, <1>9 DEF Succeed, Return, SlotsAfter, Erases
  <2>2. PlaceInv' /\ IndexInv' /\ SlotsExclusive'
    BY <1>1, <1>3, <1>4, <1>5, <2>1 DEF SlotInv, PlaceInv, IndexInv, SlotsExclusive, Indexed
  <2>3. HeldInv'
    <3>1. CASE op.kind = "claim"
      BY <1>1, <1>2, <1>6, <2>1, <3>1 DEF SlotInv, OpInv, HeldInv
    <3>2. CASE op.kind \in {"retry", "dead"}
      BY <1>6, <3>2 DEF HeldInv, Reports
    <3>3. CASE op.kind = "requeue"
      BY <1>1, <1>6, <2>1, <3>3 DEF SlotInv, HeldInv, Reports
    <3> QED BY <1>9, <3>1, <3>2, <3>3
  <2> QED BY <1>1, <2>2, <2>3 DEF SlotInv, OpInv
<1> QED BY <1>2, <1>7, <1>8, <1>9 DEF TypeOK, Kinds, Erases

-----------------------------------------------------------------------------
\* The invariant is inductive.
LEMMA NvsInvNext == TypeOK /\ SlotInv /\ [Next]_vars => TypeOK' /\ SlotInv'
<1> SUFFICES ASSUME TypeOK, SlotInv, [Next]_vars PROVE TypeOK' /\ SlotInv'
  OBVIOUS
<1>1. TypeOK'
  BY TypeNext DEF SlotInv
<1>2. CASE KeyMissing \/ CallFails
  <2>1. Busy /\ Fail /\ UNCHANGED <<blob, disk, cur>>
    BY <1>2 DEF KeyMissing, CallFails, Busy, nvs
  <2> QED BY <1>1, <2>1, SlotFail
<1>3. CASE Recovery
  BY <1>1, <1>3, SlotReset, SlotScan, SlotQuiet, SlotRequeue DEF Recovery
<1>4. CASE Calls
  BY <1>1, <1>2, <1>4, SlotWrite, SlotCommit DEF Calls
<1>5. CASE Publisher
  BY <1>1, <1>5, SlotEnqueue, SlotQuiet, SlotOperation DEF Publisher
<1>6. CASE Worker
  BY <1>1, <1>6, SlotOperation DEF Worker
<1>7. CASE ReadTrouble
  BY <1>1, <1>7, SlotCorrupt, SlotQuiet DEF ReadTrouble
<1> QED BY <1>1, <1>2, <1>3, <1>4, <1>5, <1>6, <1>7, SlotReset, SlotQuiet DEF Next

\* Types, and with them the invariant above, hold in every state of the backend.
THEOREM NvsInvariant == Spec => [](TypeOK /\ SlotInv)
<1>1. Init => TypeOK /\ SlotInv
  BY TypeInit, SlotInit
<1> QED BY <1>1, NvsInvNext, PTL DEF Spec

\* find_free_slot never hands out the slot of a live message, slot_used and the
\* index agree, and the blob in a message's slot is its own or none: for any
\* number of messages, slots and resets, and whatever calls of NVS fail.
THEOREM SlotsNeverShared == Spec => []SlotsExclusive
<1>1. SlotInv => SlotsExclusive
  BY DEF SlotInv
<1> QED BY <1>1, NvsInvariant, PTL

-----------------------------------------------------------------------------
(* What callers rely on: the index, the operation in progress, what is set  *)
(* and what is committed against the history, by the kinds of fault.        *)

\* A recovery is under way, or due: no attempt was made since the last reset.
Recovering == ~(pc = "idle") /\ (Busy => op.kind = "requeue")

\* A closed message is nowhere, and a fresh one was never tried.
HistoryInv ==
  \A m \in Ids :
    /\ fate[m] = "closed" => index[m] = Absent /\ \A s \in Slots : ~Holds(m, s)
    /\ fate[m] = "fresh" => started[m] = 0

StateWritten(kind) ==
  CASE kind = "claim" -> "IN_FLIGHT" [] kind = "dead" -> "DEAD_LETTER" [] OTHER -> "PENDING"

\* What the operation in progress has changed before it writes, and what it has
\* written before it commits.
ProgressInv ==
  Busy =>
    /\ Erases(op.kind) => fate[op.id] = "closing"
    /\ ~Erases(op.kind) => op.rec.st = StateWritten(op.kind)
    /\ op.kind = "enqueue" =>
         /\ fate[op.id] = "offered" /\ started[op.id] = 0 /\ op.rec.att = 0
         /\ Cardinality(Indexed) < MaxMessages
    /\ ~Erases(op.kind) /\ op.kind # "enqueue" =>
         index[op.id] = Entry(op.rec.st, op.rec.att, op.slot)
    /\ op.kind = "claim" => started[op.id] < op.rec.att
    /\ Reports(op.kind) => held # NoHeld /\ held.id = op.id
    /\ pc = "commit" => blob[op.slot].st = op.rec.st /\ blob[op.slot].att = op.rec.att

\* Every copy of a message, in RAM, on NVS or about to be written, counts all
\* the attempts begun.
CountInv ==
  /\ \A s \in Slots : /\ blob[s].id \in Ids => started[blob[s].id] <= blob[s].att
                      /\ disk[s].id \in Ids => started[disk[s].id] <= disk[s].att
  /\ \A m \in Indexed : started[m] <= index[m].att

\* Attempts exceed retry_max_attempts by the resets only: a message that can
\* be tried again has one to spare, and all of them have after a reset.
Limit(st) == IF st = "PENDING" \/ Recovering THEN MaxAttempts + crashes - 1
             ELSE MaxAttempts + crashes
LimitInv ==
  MaxAttempts # 0 =>
    /\ \A s \in Slots : /\ blob[s].id \in Ids => blob[s].att <= Limit(blob[s].st)
                        /\ disk[s].id \in Ids => disk[s].att <= Limit(disk[s].st)
    /\ \A m \in Indexed : index[m].att <= Limit(index[m].st)
    /\ \A m \in Ids : started[m] <= MaxAttempts + crashes

\* Only rot makes a blob fail its CRC.
IntactInv ==
  faults["rot"] = 0 =>
    /\ \A s \in Slots : blob[s].ok /\ disk[s].ok
    /\ Busy => op.rec.ok

\* An accepted message is on NVS, committed and not being erased, and recovery
\* does not overlook it.
StoredInv ==
  Without({"read", "rot"}) =>
    \A m \in Ids : fate[m] = "accepted" =>
      /\ \E s \in Slots : blob[s].id = m /\ disk[s].id = m
      /\ pc \in {"requeue", "idle", "write", "commit"} => m \in Indexed
      /\ pc = "scan" => \A s \in Slots : blob[s].id = m /\ s < cur => m \in Indexed

\* What NVS holds of the message of an operation until it is written.
Before(kind, b, rec) ==
  CASE kind = "claim"   -> b.st = "PENDING" /\ b.att + 1 = rec.att
    [] kind = "remove"  -> b.st = "PENDING"
    [] kind = "deliver" -> b.st = "IN_FLIGHT"
    [] OTHER -> b.st = "IN_FLIGHT" /\ b.att = rec.att

\* With no call of NVS failing, the index mirrors NVS but for the operation in
\* progress.
InScope(s) == pc # "off" /\ (pc = "scan" => s < cur)
MirrorInv ==
  Without(FaultKinds) =>
    /\ pc # "failed"
    /\ \A s \in Slots : ~(pc = "commit" /\ s = op.slot) => blob[s] = disk[s]
    /\ \A m \in Indexed : disk[index[m].slot].id = m
    /\ \A m \in Indexed : ~(Busy /\ m = op.id) =>
         /\ disk[index[m].slot].st = index[m].st /\ disk[index[m].slot].att = index[m].att
    /\ \A s \in Slots : disk[s].id \in Ids /\ InScope(s) => disk[s].id \in Indexed
    /\ Busy /\ op.kind # "enqueue" => Before(op.kind, disk[op.slot], op.rec)

\* ... and what is IN_FLIGHT is held, or about to be.
ClaimedInv ==
  Without(FaultKinds) /\ ~Recovering =>
    \A m \in Ids : index[m].st = "IN_FLIGHT" =>
      m = held.id \/ (Busy /\ op.kind = "claim" /\ op.id = m)

SafeInv == /\ HistoryInv /\ ProgressInv /\ CountInv /\ LimitInv
           /\ IntactInv /\ StoredInv /\ MirrorInv /\ ClaimedInv

-----------------------------------------------------------------------------
(* Facts about the state and about faults.                                  *)

LEMMA Fields ==
  ASSUME TypeOK
  PROVE  /\ \A s \in Slots : blob[s].att \in Nat /\ disk[s].att \in Nat
         /\ \A m \in Ids : index[m].att \in Nat /\ index[m].slot \in Slots /\ started[m] \in Nat
         /\ op.slot \in Slots /\ op.rec.att \in Nat
         /\ crashes \in Nat /\ MaxAttempts \in Nat
<1>1. crashes \in Nat /\ MaxAttempts \in Nat
  BY NvsAssumption DEF TypeOK
<1>2. \A s \in Slots : blob[s].att \in Nat /\ disk[s].att \in Nat
  BY DEF TypeOK, Blobs
<1> QED BY <1>1, <1>2 DEF TypeOK, Blobs

LEMMA IndexedIds == Indexed \subseteq Ids /\ \A m \in Ids : m \in Indexed <=> index[m] # Absent
BY DEF Indexed

\* A message in some live state is in the index.
LEMMA LiveIndexed ==
  ASSUME NEW m \in Ids, index[m].st \in Live
  PROVE  m \in Indexed
BY DEF Indexed, Absent, Entry, Live

\* Faults are counted and never forgotten.
LEMMA FaultCounted ==
  ASSUME TypeOK, NEW k \in FaultKinds, Fault(k)
  PROVE  faults'[k] # 0 /\ \A j \in FaultKinds : faults'[j] = 0 => faults[j] = 0
<1>1. faults[k] \in Nat /\ faults'[k] = faults[k] + 1
  BY DEF TypeOK, Fault
<1>2. \A j \in FaultKinds : j # k => faults'[j] = faults[j]
  BY DEF TypeOK, Fault
<1> QED BY <1>1, <1>2

LEMMA ReadCounted ==
  ASSUME TypeOK, NEW s \in Slots, NEW res, Read(s, res)
  PROVE  /\ \A j \in FaultKinds : faults'[j] = 0 => faults[j] = 0
         /\ faults'["read"] = 0 => res = Verified(s) /\ UNCHANGED faults
<1>1. CASE res = Verified(s) /\ UNCHANGED faults
  BY <1>1
<1>2. CASE Fault("read")
  <2>1. "read" \in FaultKinds
    BY DEF FaultKinds
  <2> QED BY <1>2, <2>1, FaultCounted
<1> QED BY <1>1, <1>2 DEF Read

LEMMA FaultsGrow ==
  ASSUME TypeOK, SlotInv, [Next]_vars
  PROVE  \A k \in FaultKinds : faults'[k] = 0 => faults[k] = 0
<1> DEFINE Goal == \A k \in FaultKinds : faults'[k] = 0 => faults[k] = 0
<1> USE DEF nvs, ctx, history
<1>0. {"io", "read", "rot"} = FaultKinds
  BY DEF FaultKinds
<1>1. CASE UNCHANGED faults
  BY <1>1
<1>2. CASE \E k \in FaultKinds : Fault(k)
  BY <1>2, FaultCounted
<1>3. CASE \E s \in Slots : \E res : Read(s, res)
  BY <1>3, ReadCounted
<1> HIDE DEF Goal
<1>4. \A m \in Ids : index[m].slot \in Slots
  BY Fields
<1>5. held # NoHeld /\ pc = "idle" => held.id \in Ids
  BY DEF SlotInv, HeldInv
<1>6. CASE Recovery
  <2>1. Boot \/ ScanEnd \/ Recovered => UNCHANGED faults
    BY DEF Boot, ScanEnd, Recovered
  <2>2. ScanSlot => UNCHANGED faults \/ \E s \in Slots : \E res : Read(s, res)
    BY DEF ScanSlot, Discard
  <2>3. \A m \in Ids : Requeue(m) => \E s \in Slots : \E res : Read(s, res)
    BY <1>4 DEF Requeue
  <2> QED BY <1>1, <1>3, <1>6, <2>1, <2>2, <2>3 DEF Recovery
<1>7. CASE Calls \/ Publisher \/ PollIdle \/ UNCHANGED vars \/ PowerLoss
  <2>1. UNCHANGED faults
    BY <1>7 DEF Calls, Write, KeyMissing, Commit, Publisher, Enqueue, EnqueueFull, Remove,
                PollIdle, PowerLoss, vars
  <2> QED BY <1>1, <2>1
<1>8. CASE Worker
  <2>1. MarkDelivered => UNCHANGED faults
    BY DEF MarkDelivered
  <2>2. ScheduleRetry => \E s \in Slots : \E res : Read(s, res)
    BY <1>4, <1>5 DEF ScheduleRetry
  <2>3. \A m \in Ids : Claim(m) => \E s \in Slots : \E res : Read(s, res)
    BY <1>4 DEF Claim
  <2> QED BY <1>1, <1>3, <1>8, <2>1, <2>2, <2>3 DEF Worker
<1>9. CASE ReadTrouble
  <2>1. \A m \in Ids : ClaimCorrupt(m) => UNCHANGED faults
    BY DEF ClaimCorrupt, Discard
  <2>2. \A m \in Ids : ClaimError(m) => \E s \in Slots : \E res : Read(s, res)
    BY <1>4 DEF ClaimError
  <2> QED BY <1>1, <1>3, <1>9, <2>1, <2>2 DEF ReadTrouble
<1>10. CASE CallFails \/ Rot
  BY <1>0, <1>2, <1>10 DEF CallFails, Rot
<1> QED BY <1>6, <1>7, <1>8, <1>9, <1>10 DEF Next, Goal

\* What Without says of the next state it says of this one.
LEMMA CleanBefore ==
  ASSUME NEW K \in SUBSET FaultKinds,
         \A k \in FaultKinds : faults'[k] = 0 => faults[k] = 0, Without(K)'
  PROVE  Without(K)
BY DEF Without

LEMMA Limits ==
  ASSUME TypeOK, MaxAttempts # 0, NEW st
  PROVE  /\ Limit(st) \in Nat
         /\ Recovering \/ st = "PENDING" => Limit(st) = MaxAttempts + crashes - 1
         /\ ~Recovering /\ st # "PENDING" => Limit(st) = MaxAttempts + crashes
BY Fields DEF Limit

-----------------------------------------------------------------------------
(* The invariant, action by action.                                         *)

\* An operation on an indexed message begins.
LEMMA SafeBegin ==
  ASSUME TypeOK, TypeOK', SlotInv, SlotInv', SafeInv, NEW m \in Indexed, NEW kind, NEW rec,
         kind \in {"claim", "retry", "dead", "deliver", "remove", "requeue"},
         pc = IF kind = "requeue" THEN "requeue" ELSE "idle",
         Begin(kind, m, index[m].slot, rec), 
         UNCHANGED <<blob, disk, started, crashes, held>>,
         \A k \in FaultKinds : faults'[k] = 0 => faults[k] = 0,
         \A n \in Ids : n # m => index'[n] = index[n],
         index'[m] = IF Erases(kind) THEN index[m] ELSE Entry(rec.st, rec.att, index[m].slot),
         Erases(kind) => rec = NoBlob /\ fate'[m] = "closing",
         ~Erases(kind) => rec.st = StateWritten(kind) /\ rec.ok,
         \A n \in Ids : fate'[n] = fate[n] \/ (n = m /\ fate'[n] = "closing"),
         kind \in {"claim", "remove"} => index[m].st = "PENDING",
         kind \notin {"claim", "remove"} => index[m].st = "IN_FLIGHT",
         kind = "claim" => rec.att = index[m].att + 1,
         kind \in {"retry", "dead", "requeue"} => rec.att = index[m].att,
         kind = "retry" => ShouldRetry(index[m].att),
         Reports(kind) => held # NoHeld /\ held.id = m
  PROVE  SafeInv'
<1>0. /\ HistoryInv /\ ProgressInv /\ CountInv /\ LimitInv
      /\ IntactInv /\ StoredInv /\ MirrorInv /\ ClaimedInv
  BY DEF SafeInv
<1>1. /\ pc' = "write" /\ op'.kind = kind /\ op'.id = m /\ op'.slot = index[m].slot
      /\ op'.rec = rec /\ Busy' /\ ~Busy
  BY DEF Begin, Busy
<1>2. m \in Ids /\ index[m] # Absent
  BY IndexedIds
<1>3. Recovering' = Recovering /\ (Recovering <=> kind = "requeue")
  BY <1>1 DEF Recovering
<1>4. index'[m].slot = index[m].slot
  BY DEF Entry
<1>5. /\ Erases(kind) => index'[m] = index[m]
      /\ ~Erases(kind) => index'[m].st = rec.st /\ index'[m].att = rec.att
  BY DEF Entry
<1>6. Indexed' = Indexed
  <2>1. index'[m] # Absent
    BY <1>2, <1>5 DEF Absent, Entry, StateWritten
  <2> QED BY <1>2, <2>1 DEF Indexed
<1>7. HistoryInv'
  BY <1>0, <1>2 DEF HistoryInv, Holds
<1>8. ProgressInv'
  <2>1. kind = "claim" => started[m] < rec.att
    BY <1>0, <1>2, Fields DEF CountInv
  <2>2. started'[m] = started[m] /\ kind # "enqueue" /\ pc' # "commit"
    BY <1>1
  <2> QED BY <1>1, <2>1, <2>2 DEF ProgressInv
<1>9. CountInv'
  <2>1. started[m] <= index'[m].att
    BY <1>0, <1>2, <1>5, Fields DEF CountInv, Erases
  <2>2. \A n \in Indexed : n \in Ids /\ (n = m \/ index'[n] = index[n])
    BY IndexedIds
  <2> QED BY <1>0, <1>6, <2>1, <2>2 DEF CountInv
<1>10. LimitInv'
  <2> SUFFICES ASSUME MaxAttempts # 0 PROVE LimitInv'
    BY DEF LimitInv
  <2>1. \A st : Limit(st)' = Limit(st)
    BY <1>3 DEF Limit
  <2>2. index[m].att <= Limit(index[m].st)
    BY <1>0 DEF LimitInv
  <2>3. ~Erases(kind) => rec.att <= Limit(rec.st)
    BY <1>2, <1>3, <2>2, Fields, Limits DEF StateWritten, ShouldRetry, Erases
  <2>4. \A n \in Indexed : n \in Ids /\ (n = m \/ index'[n] = index[n])
    BY IndexedIds
  <2>5. \A n \in Indexed : index'[n].att <= Limit(index'[n].st)
    BY <1>0, <1>5, <2>2, <2>3, <2>4 DEF LimitInv
  <2> QED BY <1>0, <1>6, <2>1, <2>5 DEF LimitInv
<1>11. IntactInv'
  BY <1>0, <1>1 DEF IntactInv, NoBlob, FaultKinds
<1>12. StoredInv'
  <2> SUFFICES ASSUME Without({"read", "rot"})', NEW n \in Ids, fate'[n] = "accepted"
               PROVE  /\ \E s \in Slots : blob[s].id = n /\ disk[s].id = n
                      /\ n \in Indexed
    BY <1>1, <1>6 DEF StoredInv
  <2>1. fate[n] = "accepted"
    OBVIOUS
  <2>2. Without({"read", "rot"})
    BY CleanBefore DEF FaultKinds
  <2> QED BY <1>0, <2>1, <2>2 DEF StoredInv
<1>13. MirrorInv'
  <2> SUFFICES ASSUME Without(FaultKinds)' PROVE MirrorInv'
    BY DEF MirrorInv
  <2>1. Without(FaultKinds)
    BY CleanBefore
  <2>2. \A s \in Slots : blob[s] = disk[s]
    BY <1>0, <2>1 DEF MirrorInv
  <2>3. \A n \in Indexed : /\ n \in Ids /\ disk[index[n].slot].id = n
                           /\ disk[index[n].slot].st = index[n].st
                           /\ disk[index[n].slot].att = index[n].att
    BY <1>0, <1>1, <2>1, IndexedIds DEF MirrorInv
  <2>4. \A s \in Slots : disk[s].id \in Ids => disk[s].id \in Indexed
    BY <1>0, <2>1 DEF MirrorInv, InScope
  <2>5. Before(kind, disk[index[m].slot], rec)
    BY <2>3 DEF Before
  <2>6. \A n \in Indexed : disk[index'[n].slot].id = n
    BY <1>4, <2>3
  <2>7. \A n \in Indexed : n # m => /\ disk[index'[n].slot].st = index'[n].st
                                    /\ disk[index'[n].slot].att = index'[n].att
    BY <2>3
  <2> QED BY <1>1, <1>6, <2>2, <2>4, <2>5, <2>6, <2>7 DEF MirrorInv
<1>14. ClaimedInv'
  <2> SUFFICES ASSUME Without(FaultKinds)', ~Recovering, NEW n \in Ids,
                      index'[n].st = "IN_FLIGHT"
               PROVE  n = held.id \/ (kind = "claim" /\ m = n)
    BY <1>1, <1>3 DEF ClaimedInv
  <2>1. Without(FaultKinds)
    BY CleanBefore
  <2>2. index[n].st = "IN_FLIGHT" => n = held.id
    BY <1>0, <1>1, <2>1 DEF ClaimedInv
  <2> QED BY <1>3, <1>5, <2>2 DEF StateWritten, Erases, Reports
<1> QED BY <1>7, <1>8, <1>9, <1>10, <1>11, <1>12, <1>13, <1>14 DEF SafeInv

\* With no call of NVS failing, the blob of an indexed message can be read.
LEMMA CleanVerified ==
  ASSUME TypeOK, SafeInv, ~Busy, Without(FaultKinds), NEW m \in Indexed
  PROVE  Verified(index[m].slot) = "OK"
<1>1. m \in Ids /\ index[m].slot \in Slots
  BY IndexedIds, Fields
<1>2. blob[index[m].slot] = disk[index[m].slot] /\ disk[index[m].slot].id = m
  BY <1>1 DEF SafeInv, MirrorInv, Busy
<1>3. blob[index[m].slot] # NoBlob
  BY <1>1, <1>2, NvsAssumption DEF NoBlob
<1>4. faults["rot"] = 0
  BY DEF Without, FaultKinds
<1>5. blob[index[m].slot].ok
  BY <1>1, <1>4 DEF SafeInv, IntactInv
<1> QED BY <1>3, <1>5 DEF Verified

\* A step outside operations that changes neither NVS nor the index.
LEMMA SafeQuiet ==
  ASSUME TypeOK, TypeOK', SafeInv, ~Busy, ~Busy',
         UNCHANGED <<blob, disk, index, started, crashes>>,
         \A k \in FaultKinds : faults'[k] = 0 => faults[k] = 0,
         \A n \in Ids : fate'[n] = fate[n] \/ (fate[n] = "fresh" /\ fate'[n] = "refused"),
         Recovering' => Recovering,
         Recovering /\ ~Recovering' => InState("IN_FLIGHT") = {},
         held' = held \/ ~Without(FaultKinds)',
         Without({"read", "rot"})' => \A n \in Ids : fate[n] = "accepted" =>
           /\ pc' \in {"requeue", "idle"} => n \in Indexed
           /\ pc' = "scan" => \A s \in Slots : blob[s].id = n /\ s < cur' => n \in Indexed,
         Without(FaultKinds)' =>
           /\ pc' # "failed"
           /\ \A s \in Slots : disk[s].id \in Ids /\ InScope(s)' => disk[s].id \in Indexed
  PROVE  SafeInv'
<1>0. /\ HistoryInv /\ ProgressInv /\ CountInv /\ LimitInv
      /\ IntactInv /\ StoredInv /\ MirrorInv /\ ClaimedInv
  BY DEF SafeInv
<1>1. Indexed' = Indexed /\ pc \notin {"write", "commit"} /\ pc' \notin {"write", "commit"}
  BY DEF Indexed, Busy
<1>2. HistoryInv'
  BY <1>0 DEF HistoryInv, Holds
<1>3. ProgressInv' /\ CountInv'
  BY <1>0, <1>1 DEF ProgressInv, CountInv
<1>4. LimitInv'
  <2> SUFFICES ASSUME MaxAttempts # 0 PROVE LimitInv'
    BY DEF LimitInv
  <2>1. \A st : Limit(st)' \in Nat /\ Limit(st) \in Nat /\ Limit(st) <= Limit(st)'
    BY Fields DEF Limit
  <2>2. \A s \in Slots : /\ blob[s].id \in Ids => blob[s].att <= Limit(blob[s].st)'
                         /\ disk[s].id \in Ids => disk[s].att <= Limit(disk[s].st)'
    BY <1>0, <2>1, Fields DEF LimitInv
  <2>3. \A m \in Indexed : index[m].att <= Limit(index[m].st)'
    BY <1>0, <2>1, Fields, IndexedIds DEF LimitInv
  <2> QED BY <1>0, <1>1, <2>2, <2>3 DEF LimitInv
<1>5. IntactInv'
  BY <1>0 DEF IntactInv, FaultKinds
<1>6. StoredInv'
  <2> SUFFICES ASSUME Without({"read", "rot"})', NEW n \in Ids, fate'[n] = "accepted"
               PROVE  \E s \in Slots : blob[s].id = n /\ disk[s].id = n
    BY <1>1 DEF StoredInv
  <2>1. Without({"read", "rot"})
    BY CleanBefore DEF FaultKinds
  <2> QED BY <1>0, <2>1 DEF StoredInv
<1>7. MirrorInv'
  <2> SUFFICES ASSUME Without(FaultKinds)' PROVE MirrorInv'
    BY DEF MirrorInv
  <2>1. Without(FaultKinds)
    BY CleanBefore
  <2> QED BY <1>0, <1>1, <2>1 DEF MirrorInv, Busy
<1>8. ClaimedInv'
  <2> SUFFICES ASSUME Without(FaultKinds)', ~Recovering', NEW n \in Ids,
                      index[n].st = "IN_FLIGHT"
               PROVE  n = held.id
    BY DEF ClaimedInv
  <2>1. Without(FaultKinds)
    BY CleanBefore
  <2>2. ~Recovering
    BY DEF InState
  <2> QED BY <1>0, <2>1, <2>2 DEF ClaimedInv
<1> QED BY <1>2, <1>3, <1>4, <1>5, <1>6, <1>7, <1>8 DEF SafeInv

\* The operations of the worker, the removal of an overflow drop, and recovery's
\* requeueing.
LEMMA SafeOperation ==
  ASSUME TypeOK, TypeOK', SlotInv, SlotInv', SafeInv,
         \A k \in FaultKinds : faults'[k] = 0 => faults[k] = 0,
         MarkDelivered \/ ScheduleRetry \/ \E m \in Ids : Claim(m) \/ Remove(m) \/ Requeue(m)
  PROVE  SafeInv'
<1> USE DEF nvs, ctx, history
<1>1. pc = "idle" /\ held # NoHeld => held.id \in Indexed /\ index[held.id].st = "IN_FLIGHT"
  BY DEF SlotInv, HeldInv, Busy, Indexed, Absent, Entry
<1>2. \A m \in Ids : index[m] \in IndexEntries
  BY DEF TypeOK, IndexEntries
<1>3. \A m \in Ids : index[m].st \in Live => m \in Indexed
  BY LiveIndexed
<1>4. CASE MarkDelivered
  <2> DEFINE m == held.id
  <2>1. /\ pc = "idle" /\ held # NoHeld /\ Begin("deliver", m, index[m].slot, NoBlob)
        /\ UNCHANGED <<blob, disk, index, started, crashes, held>>
    BY <1>4 DEF MarkDelivered
  <2>2. m \in Indexed /\ m \in Ids /\ index[m].st = "IN_FLIGHT"
    BY <1>1, <2>1, IndexedIds
  <2>3. fate'[m] = "closing" /\ \A n \in Ids : n # m => fate'[n] = fate[n]
    BY <1>4, <2>2 DEF MarkDelivered, TypeOK
  <2>4. \A n \in Ids : fate'[n] = fate[n] \/ (n = m /\ fate'[n] = "closing")
    BY <2>3
  <2>5. Erases("deliver")
    BY DEF Erases
  <2> HIDE DEF m
  <2> QED BY <2>1, <2>2, <2>3, <2>4, <2>5, SafeBegin DEF m
<1>5. ASSUME NEW m \in Ids, Remove(m) PROVE SafeInv'
  <2>1. /\ pc = "idle" /\ Begin("remove", m, index[m].slot, NoBlob) /\ index[m].st = "PENDING"
        /\ UNCHANGED <<blob, disk, index, started, crashes, held>>
    BY <1>5 DEF Remove
  <2>2. m \in Indexed
    BY <1>3, <2>1 DEF Live
  <2>3. fate'[m] = "closing" /\ \A n \in Ids : n # m => fate'[n] = fate[n]
    BY <1>5 DEF Remove, TypeOK
  <2>4. \A n \in Ids : fate'[n] = fate[n] \/ (n = m /\ fate'[n] = "closing")
    BY <2>3
  <2>5. Erases("remove") /\ ~Reports("remove")
    BY DEF Erases, Reports
  <2> QED BY <2>1, <2>2, <2>3, <2>4, <2>5, SafeBegin
<1>6. ASSUME NEW m \in Ids, Claim(m) PROVE SafeInv'
  <2> DEFINE rec == Blob(m, "IN_FLIGHT", index[m].att + 1, blob[index[m].slot].body)
  <2>1. /\ pc = "idle" /\ Begin("claim", m, index[m].slot, rec) /\ index[m].st = "PENDING"
        /\ UNCHANGED <<blob, disk, fate, started, crashes, held>>
    BY <1>6 DEF Claim
  <2>2. m \in Indexed
    BY <1>3, <2>1 DEF Live
  <2>3. rec.st = "IN_FLIGHT" /\ rec.att = index[m].att + 1 /\ rec.ok
    BY DEF Blob
  <2>4. /\ index'[m] = Entry("IN_FLIGHT", index[m].att + 1, index[m].slot)
        /\ \A n \in Ids : n # m => index'[n] = index[n]
    BY <1>2, <1>6 DEF Claim, TypeOK, Entry, IndexEntries
  <2>5. ~Erases("claim") /\ ~Reports("claim") /\ StateWritten("claim") = "IN_FLIGHT"
    BY DEF Erases, Reports, StateWritten
  <2> HIDE DEF rec
  <2> QED BY <2>1, <2>2, <2>3, <2>4, <2>5, SafeBegin
<1>7. ASSUME NEW m \in Ids, Requeue(m) PROVE SafeInv'
  <2>1. /\ pc = "requeue" /\ index[m].st = "IN_FLIGHT" /\ ~Busy
        /\ UNCHANGED <<blob, disk, used, fate, started, crashes, held>>
    BY <1>7 DEF Requeue, Busy
  <2>2. m \in Indexed /\ index[m].slot \in Slots
    BY <1>2, <1>3, <2>1 DEF Live, IndexEntries
  <2>3. CASE /\ Begin("requeue", m, index[m].slot, Rewritten(m, "PENDING", index[m].att))
             /\ index' = [index EXCEPT ![m].st = "PENDING"]
    <3> DEFINE rec == Rewritten(m, "PENDING", index[m].att)
    <3>1. rec.st = "PENDING" /\ rec.att = index[m].att /\ rec.ok
      BY DEF Rewritten, Blob
    <3>2. /\ index'[m] = Entry("PENDING", index[m].att, index[m].slot)
          /\ \A n \in Ids : n # m => index'[n] = index[n]
      BY <1>2, <2>3 DEF TypeOK, Entry, IndexEntries
    <3>3. ~Erases("requeue") /\ ~Reports("requeue") /\ StateWritten("requeue") = "PENDING"
      BY DEF Erases, Reports, StateWritten
    <3>4. Begin("requeue", m, index[m].slot, rec)
      BY <2>3
    <3> HIDE DEF rec
    <3> QED BY <2>1, <2>2, <3>1, <3>2, <3>3, <3>4, SafeBegin
  <2>4. CASE /\ \E err \in {"NOT_FOUND", "STORAGE", "CORRUPT"} : Read(index[m].slot, err)
             /\ pc' = "failed" /\ UNCHANGED <<op, index>>
    <3>1. ~Without(FaultKinds)'
      <4> SUFFICES ASSUME Without(FaultKinds)' PROVE FALSE
        OBVIOUS
      <4>1. Without(FaultKinds) /\ faults'["read"] = 0
        BY CleanBefore DEF Without, FaultKinds
      <4>2. Verified(index[m].slot) # "OK"
        BY <2>2, <2>4, <4>1, ReadCounted
      <4> QED BY <2>1, <2>2, <4>1, <4>2, CleanVerified
    <3>2. Recovering /\ Recovering' /\ ~Busy' /\ pc' = "failed"
      BY <2>1, <2>4 DEF Recovering, Busy
    <3> QED BY <2>1, <2>4, <3>1, <3>2, SafeQuiet
  <2> QED BY <1>7, <2>3, <2>4 DEF Requeue
<1>8. CASE ScheduleRetry
  <2> DEFINE m == held.id
  <2>1. /\ pc = "idle" /\ ~Busy /\ held # NoHeld
        /\ UNCHANGED <<blob, disk, used, fate, started, crashes>>
    BY <1>8 DEF ScheduleRetry, Busy
  <2>2. m \in Indexed /\ m \in Ids /\ index[m].st = "IN_FLIGHT" /\ index[m].slot \in Slots
    BY <1>1, <1>2, <2>1, IndexedIds DEF IndexEntries
  <2>3. ASSUME NEW kind \in {"retry", "dead"}, PutBack(m, kind, StateWritten(kind)),
               kind = "retry" => ShouldRetry(index[m].att), UNCHANGED held
        PROVE  SafeInv'
    <3> DEFINE rec == Rewritten(m, StateWritten(kind), index[m].att)
    <3>1. rec.st = StateWritten(kind) /\ rec.att = index[m].att /\ rec.ok
      BY DEF Rewritten, Blob
    <3>2. /\ index'[m] = Entry(StateWritten(kind), index[m].att, index[m].slot)
          /\ \A n \in Ids : n # m => index'[n] = index[n]
      BY <1>2, <2>2, <2>3 DEF PutBack, TypeOK, Entry, IndexEntries
    <3>3. ~Erases(kind) /\ kind # "claim" /\ kind # "requeue" /\ kind # "remove"
      BY DEF Erases
    <3>4. Begin(kind, m, index[m].slot, rec)
      BY <2>3 DEF PutBack
    <3> HIDE DEF rec, m
    <3> QED BY <2>1, <2>2, <2>3, <3>1, <3>2, <3>3, <3>4, SafeBegin DEF m
  <2>4. CASE /\ \E err \in {"NOT_FOUND", "STORAGE", "CORRUPT"} : Read(index[m].slot, err)
             /\ held' = NoHeld /\ UNCHANGED <<pc, op, index>>
    <3>1. ~Without(FaultKinds)'
      <4> SUFFICES ASSUME Without(FaultKinds)' PROVE FALSE
        OBVIOUS
      <4>1. Without(FaultKinds) /\ faults'["read"] = 0
        BY CleanBefore DEF Without, FaultKinds
      <4>2. Verified(index[m].slot) # "OK"
        BY <2>2, <2>4, <4>1, ReadCounted
      <4> QED BY <2>1, <2>2, <4>1, <4>2, CleanVerified
    <3>2. ~Recovering /\ ~Recovering' /\ ~Busy' /\ pc' = "idle"
      BY <2>1, <2>4 DEF Recovering, Busy
    <3>3. Without({"read", "rot"})' => Without({"read", "rot"})
      BY CleanBefore DEF FaultKinds
    <3>4. Without({"read", "rot"}) => \A n \in Ids : fate[n] = "accepted" => n \in Indexed
      BY <2>1 DEF SafeInv, StoredInv
    <3> QED BY <2>1, <2>4, <3>1, <3>2, <3>3, <3>4, SafeQuiet
  <2>5. StateWritten("retry") = "PENDING" /\ StateWritten("dead") = "DEAD_LETTER"
    BY DEF StateWritten
  <2> QED BY <1>8, <2>3, <2>4, <2>5 DEF ScheduleRetry
<1> QED BY <1>4, <1>5, <1>6, <1>7, <1>8

\* An enqueue begins, for a message that is nowhere.
LEMMA SafeEnqueue ==
  ASSUME TypeOK, TypeOK', SlotInv, SlotInv', SafeInv, NEW m \in Ids, Enqueue(m)
  PROVE  SafeInv'
<1> USE DEF nvs, ctx, history
<1>0. /\ HistoryInv /\ ProgressInv /\ CountInv /\ LimitInv
      /\ IntactInv /\ StoredInv /\ MirrorInv /\ ClaimedInv
  BY DEF SafeInv
<1>1. PICK s \in Slots : LowestFree(s) /\ Begin("enqueue", m, s, Blob(m, "PENDING", 0, m))
  BY DEF Enqueue
<1>2. /\ pc = "idle" /\ pc' = "write" /\ ~Busy /\ Busy' /\ ~Recovering /\ ~Recovering'
      /\ op'.kind = "enqueue" /\ op'.id = m /\ op'.slot = s
      /\ op'.rec.st = "PENDING" /\ op'.rec.att = 0 /\ op'.rec.ok
  BY <1>1 DEF Enqueue, Begin, Busy, Recovering, Blob
<1>3. /\ fate[m] = "fresh" /\ fate'[m] = "offered" /\ Cardinality(Indexed) < MaxMessages
      /\ \A n \in Ids : n # m => fate'[n] = fate[n]
      /\ UNCHANGED <<blob, disk, cur, index, used, held, started, crashes, faults>>
      /\ Indexed' = Indexed
  BY DEF Enqueue, TypeOK, Indexed
<1>4. HistoryInv'
  <2>1. \A n \in Ids : fate'[n] = "closed" => fate[n] = "closed"
    BY <1>3
  <2>2. \A n \in Ids : fate'[n] = "fresh" => fate[n] = "fresh"
    BY <1>3
  <2> QED BY <1>0, <1>3, <2>1, <2>2 DEF HistoryInv, Holds
<1>5. ProgressInv'
  <2>1. started[m] = 0
    BY <1>0, <1>3 DEF HistoryInv
  <2> QED BY <1>2, <1>3, <2>1 DEF ProgressInv, Erases, Reports, StateWritten
<1>6. CountInv' /\ IntactInv'
  BY <1>0, <1>2, <1>3 DEF CountInv, IntactInv
<1>7. LimitInv'
  BY <1>0, <1>2, <1>3 DEF LimitInv, Limit
<1>8. StoredInv'
  <2>1. \A n \in Ids : fate'[n] = "accepted" => fate[n] = "accepted"
    BY <1>3
  <2> QED BY <1>0, <1>2, <1>3, <2>1 DEF StoredInv, Without
<1>9. MirrorInv'
  BY <1>0, <1>2, <1>3 DEF MirrorInv, Without, InScope
<1>10. ClaimedInv'
  BY <1>0, <1>2, <1>3 DEF ClaimedInv, Without
<1> QED BY <1>4, <1>5, <1>6, <1>7, <1>8, <1>9, <1>10 DEF SafeInv

\* Recovery finds a message in the slot it reads.
LEMMA SafeFound ==
  ASSUME TypeOK, TypeOK', SlotInv, SlotInv', SafeInv, pc = "scan", cur \in Slots,
         Read(cur, "OK"), UNCHANGED <<blob, disk, pc, op, held, fate, started, crashes>>,
         index' = [index EXCEPT ![blob[cur].id] = Entry(blob[cur].st, blob[cur].att, cur)],
         cur' = cur + 1
  PROVE  SafeInv'
<1> DEFINE m == blob[cur].id
<1>0. /\ HistoryInv /\ ProgressInv /\ CountInv /\ LimitInv
      /\ IntactInv /\ StoredInv /\ MirrorInv /\ ClaimedInv
  BY DEF SafeInv
<1>1. /\ m \in Ids /\ blob[cur].st \in Live /\ Holds(m, cur)
  <2>1. blob[cur] # NoBlob
    BY DEF Read, Verified
  <2> QED BY <2>1 DEF SlotInv, PlaceInv, WellFormed, Holds
<1>2. /\ index'[m].st = blob[cur].st /\ index'[m].att = blob[cur].att /\ index'[m].slot = cur
      /\ \A n \in Ids : n # m => index'[n] = index[n]
  BY <1>1 DEF TypeOK, Entry
<1>3. Indexed' = Indexed \cup {m}
  BY <1>1, <1>2 DEF Indexed, Absent, Entry, Live
<1>4. \A n \in Indexed : n \in Ids /\ (n # m => index'[n] = index[n])
  BY <1>2, IndexedIds
<1>5. \A k \in FaultKinds : faults'[k] = 0 => faults[k] = 0
  BY ReadCounted
<1>6. ~Busy /\ ~Busy' /\ Recovering /\ Recovering'
  BY DEF Busy, Recovering
<1>7. \A s \in Slots : s \in Nat
  BY NvsAssumption DEF Slots
<1>8. HistoryInv'
  <2>1. fate[m] # "closed"
    BY <1>0, <1>1 DEF HistoryInv
  <2> QED BY <1>0, <1>2, <2>1 DEF HistoryInv, Holds
<1>9. ProgressInv'
  BY <1>6 DEF ProgressInv
<1>10. CountInv'
  <2>1. started[m] <= index'[m].att
    BY <1>0, <1>1, <1>2 DEF CountInv
  <2> QED BY <1>0, <1>3, <1>4, <2>1 DEF CountInv
<1>11. LimitInv'
  <2> SUFFICES ASSUME MaxAttempts # 0 PROVE LimitInv'
    BY DEF LimitInv
  <2>1. \A st : Limit(st)' = Limit(st)
    BY <1>6 DEF Limit
  <2>2. index'[m].att <= Limit(index'[m].st)
    BY <1>0, <1>1, <1>2 DEF LimitInv
  <2>3. \A n \in Indexed : n # m => index'[n].att <= Limit(index'[n].st)
    BY <1>0, <1>4 DEF LimitInv
  <2> QED BY <1>0, <1>3, <2>1, <2>2, <2>3 DEF LimitInv
<1>12. IntactInv'
  BY <1>0, <1>5, <1>6 DEF IntactInv, FaultKinds
<1>13. StoredInv'
  <2> SUFFICES ASSUME Without({"read", "rot"})', NEW n \in Ids, fate[n] = "accepted"
               PROVE  /\ \E s \in Slots : blob[s].id = n /\ disk[s].id = n
                      /\ \A s \in Slots : blob[s].id = n /\ s < cur + 1 => n \in Indexed'
    BY DEF StoredInv
  <2>1. Without({"read", "rot"})
    BY <1>5, CleanBefore DEF FaultKinds
  <2>2. \A s \in Slots : s < cur + 1 => s < cur \/ s = cur
    BY <1>7
  <2> QED BY <1>0, <1>3, <2>1, <2>2 DEF StoredInv
<1>14. MirrorInv'
  <2> SUFFICES ASSUME Without(FaultKinds)' PROVE MirrorInv'
    BY DEF MirrorInv
  <2>1. Without(FaultKinds)
    BY <1>5, CleanBefore
  <2>2. \A s \in Slots : blob[s] = disk[s]
    BY <1>0, <2>1 DEF MirrorInv
  <2>3. \A n \in Indexed : /\ disk[index[n].slot].id = n
                           /\ disk[index[n].slot].st = index[n].st
                           /\ disk[index[n].slot].att = index[n].att
    BY <1>0, <1>6, <2>1 DEF MirrorInv
  <2>4. \A n \in Indexed' : /\ disk[index'[n].slot].id = n
                            /\ disk[index'[n].slot].st = index'[n].st
                            /\ disk[index'[n].slot].att = index'[n].att
    BY <1>2, <1>3, <1>4, <2>2, <2>3
  <2>5. \A s \in Slots : disk[s].id \in Ids /\ s < cur => disk[s].id \in Indexed
    BY <1>0, <2>1 DEF MirrorInv, InScope
  <2>6. \A s \in Slots : s < cur + 1 => s < cur \/ s = cur
    BY <1>7
  <2>7. \A s \in Slots : disk[s].id \in Ids /\ s < cur + 1 => disk[s].id \in Indexed'
    BY <1>3, <2>2, <2>5, <2>6
  <2> QED BY <1>6, <2>2, <2>4, <2>7 DEF MirrorInv, InScope
<1>15. ClaimedInv'
  BY <1>6 DEF ClaimedInv
<1> QED BY <1>8, <1>9, <1>10, <1>11, <1>12, <1>13, <1>14, <1>15 DEF SafeInv

\* A blob that fails its CRC is erased, at a recovery or at a claim, whether or
\* not the erase works; the index may keep the message, as a dead letter.
LEMMA SafeDiscard ==
  ASSUME TypeOK, TypeOK', SlotInv, SlotInv', SafeInv, ~Busy, ~Busy', NEW s \in Slots,
         Verified(s) = "CORRUPT", Discard(s), Recovering' = Recovering,
         UNCHANGED <<fate, started, crashes>>,
         \A m \in Ids : index'[m] = index[m] \/
           (m \in Indexed /\ index'[m] = [index[m] EXCEPT !.st = "DEAD_LETTER"])
  PROVE  SafeInv'
<1>0. HistoryInv /\ CountInv /\ LimitInv /\ IntactInv
  BY DEF SafeInv
<1>1. UNCHANGED faults /\ faults["rot"] # 0
  BY <1>0 DEF Discard, IntactInv, Verified
<1>2. \A t \in Slots : blob'[t] \in {blob[t], NoBlob} /\ disk'[t] \in {blob[t], disk[t], NoBlob}
  BY DEF Discard, TypeOK, nvs
<1>3. NoBlob.id = NoId /\ NoId \notin Ids
  BY NvsAssumption DEF NoBlob
<1>4. \A m \in Ids : index[m] = Absent => index'[m] = Absent
  BY DEF Indexed
<1>5. \A m \in Indexed' : /\ m \in Ids /\ m \in Indexed /\ index'[m].att = index[m].att
                          /\ index'[m].st \in {index[m].st, "DEAD_LETTER"}
  <2> SUFFICES ASSUME NEW m \in Indexed'
               PROVE  /\ m \in Ids /\ m \in Indexed /\ index'[m].att = index[m].att
                      /\ index'[m].st \in {index[m].st, "DEAD_LETTER"}
    OBVIOUS
  <2>1. m \in Ids /\ m \in Indexed
    BY <1>4 DEF Indexed
  <2>2. index[m] \in IndexEntries
    BY <2>1 DEF TypeOK, IndexEntries
  <2> QED BY <2>1, <2>2 DEF IndexEntries
<1>6. HistoryInv'
  <2>1. \A m \in Ids : \A t \in Slots : Holds(m, t)' => Holds(m, t)
    BY <1>2, <1>3 DEF Holds
  <2> QED BY <1>0, <1>4, <2>1 DEF HistoryInv
<1>7. CountInv'
  <2>1. \A t \in Slots : /\ blob'[t].id \in Ids => started[blob'[t].id] <= blob'[t].att
                         /\ disk'[t].id \in Ids => started[disk'[t].id] <= disk'[t].att
    BY <1>0, <1>2, <1>3 DEF CountInv
  <2>2. \A m \in Indexed' : started[m] <= index'[m].att
    BY <1>0, <1>5 DEF CountInv
  <2> QED BY <2>1, <2>2 DEF CountInv
<1>8. LimitInv'
  <2> SUFFICES ASSUME MaxAttempts # 0 PROVE LimitInv'
    BY DEF LimitInv
  <2>1. \A st : Limit(st)' = Limit(st)
    BY DEF Limit
  <2>2. \A st : Limit(st) \in Nat /\ Limit(st) <= Limit("DEAD_LETTER")
    BY Fields DEF Limit
  <2>3. Limit("DEAD_LETTER") \in Nat
    BY <2>2
  <2>4. \A t \in Slots : /\ blob'[t].id \in Ids => blob'[t].att <= Limit(blob'[t].st)
                         /\ disk'[t].id \in Ids => disk'[t].att <= Limit(disk'[t].st)
    BY <1>0, <1>2, <1>3 DEF LimitInv
  <2>5. \A m \in Indexed' : index'[m].att <= Limit(index'[m].st)
    <3> SUFFICES ASSUME NEW m \in Indexed' PROVE index'[m].att <= Limit(index'[m].st)
      OBVIOUS
    <3>1. /\ m \in Ids /\ m \in Indexed /\ index'[m].att = index[m].att
          /\ index'[m].st \in {index[m].st, "DEAD_LETTER"}
      BY <1>5
    <3>2. index[m].att \in Nat /\ index[m].att <= Limit(index[m].st)
      BY <1>0, <3>1, Fields DEF LimitInv
    <3>3. Limit(index[m].st) \in Nat /\ Limit(index[m].st) <= Limit("DEAD_LETTER")
      BY <2>2
    <3> QED BY <2>3, <3>1, <3>2, <3>3
  <2>6. \A m \in Ids : started'[m] <= MaxAttempts + crashes'
    BY <1>0 DEF LimitInv
  <2> QED BY <2>1, <2>4, <2>5, <2>6 DEF LimitInv
<1>9. ~Without({"read", "rot"})' /\ ~Without(FaultKinds)'
  BY <1>1 DEF Without, FaultKinds
<1>10. IntactInv' /\ StoredInv' /\ MirrorInv' /\ ClaimedInv'
  BY <1>1, <1>9 DEF IntactInv, StoredInv, MirrorInv, ClaimedInv
<1>11. ProgressInv'
  BY DEF ProgressInv
<1> QED BY <1>6, <1>7, <1>8, <1>10, <1>11 DEF SafeInv

\* The steps outside operations that change neither NVS nor the index.
LEMMA SafeIdle ==
  ASSUME TypeOK, TypeOK', SlotInv, SlotInv', SafeInv,
         \A k \in FaultKinds : faults'[k] = 0 => faults[k] = 0,
         ScanEnd \/ Recovered \/ PollIdle \/ \E m \in Ids : ClaimError(m) \/ EnqueueFull(m)
  PROVE  SafeInv'
<1> USE DEF nvs, ctx, history
<1>0. StoredInv /\ MirrorInv
  BY DEF SafeInv
<1>1. /\ Without({"read", "rot"})' => Without({"read", "rot"})
      /\ Without(FaultKinds)' => Without(FaultKinds)
  BY CleanBefore DEF FaultKinds
<1>2. CASE ScanEnd
  <2>1. /\ pc = "scan" /\ cur = MaxMessages /\ pc' = "requeue" /\ ~Busy /\ ~Busy'
        /\ Recovering /\ Recovering'
        /\ UNCHANGED <<blob, disk, index, started, crashes, held, fate, faults>>
    BY <1>2 DEF ScanEnd, Busy, Recovering
  <2>2. \A s \in Slots : s < cur
    BY <2>1, NvsAssumption DEF Slots
  <2>3. Without({"read", "rot"})' => \A n \in Ids : fate[n] = "accepted" => n \in Indexed
    BY <1>0, <1>1, <2>1, <2>2 DEF StoredInv
  <2>4. Without(FaultKinds)' => \A s \in Slots : disk[s].id \in Ids => disk[s].id \in Indexed
    BY <1>0, <1>1, <2>1, <2>2 DEF MirrorInv, InScope
  <2> QED BY <2>1, <2>3, <2>4, SafeQuiet
<1>3. CASE Recovered \/ PollIdle \/ \E m \in Ids : ClaimError(m) \/ EnqueueFull(m)
  <2>1. /\ pc \in {"requeue", "idle"} /\ pc' = "idle" /\ ~Busy /\ ~Busy' /\ ~Recovering'
        /\ UNCHANGED <<blob, disk, index, started, crashes, held>>
    BY <1>3 DEF Recovered, PollIdle, ClaimError, EnqueueFull, Busy, Recovering, vars
  <2>2. Recovering => InState("IN_FLIGHT") = {}
    BY <1>3, <2>1 DEF Recovered, PollIdle, ClaimError, EnqueueFull, Recovering
  <2>3. \A n \in Ids : fate'[n] = fate[n] \/ (fate[n] = "fresh" /\ fate'[n] = "refused")
    BY <1>3 DEF Recovered, PollIdle, ClaimError, EnqueueFull, TypeOK, vars
  <2>4. Without({"read", "rot"})' => \A n \in Ids : fate[n] = "accepted" => n \in Indexed
    BY <1>0, <1>1, <2>1 DEF StoredInv
  <2>5. Without(FaultKinds)' => \A s \in Slots : disk[s].id \in Ids => disk[s].id \in Indexed
    BY <1>0, <1>1, <2>1 DEF MirrorInv, InScope
  <2> QED BY <2>1, <2>2, <2>3, <2>4, <2>5, SafeQuiet
<1> QED BY <1>2, <1>3

LEMMA SafeScan ==
  ASSUME TypeOK, TypeOK', SlotInv, SlotInv', SafeInv,
         \A k \in FaultKinds : faults'[k] = 0 => faults[k] = 0, ScanSlot
  PROVE  SafeInv'
<1> USE DEF nvs, ctx, history
<1>0. StoredInv /\ MirrorInv
  BY DEF SafeInv
<1>1. /\ pc = "scan" /\ cur \in Slots /\ ~Busy /\ Recovering
      /\ UNCHANGED <<op, held, fate, started, crashes>>
  BY DEF ScanSlot, Busy, Recovering
<1>2. /\ Without({"read", "rot"})' => Without({"read", "rot"})
      /\ Without(FaultKinds)' => Without(FaultKinds)
  BY CleanBefore DEF FaultKinds
<1>3. CASE /\ Read(cur, "OK")
           /\ index' = [index EXCEPT ![blob[cur].id] = Entry(blob[cur].st, blob[cur].att, cur)]
           /\ cur' = cur + 1 /\ UNCHANGED <<nvs, pc>>
  BY <1>1, <1>3, SafeFound
<1>4. CASE Read(cur, "NOT_FOUND") /\ cur' = cur + 1 /\ UNCHANGED <<nvs, ctx, pc>>
  <2>1. faults'["read"] = 0 => blob[cur].id \notin Ids
    BY <1>1, <1>4, ReadCounted, NvsAssumption DEF Verified, NoBlob
  <2>2. /\ Without({"read", "rot"})' => faults'["read"] = 0
        /\ Without(FaultKinds)' => faults'["read"] = 0
    BY DEF Without, FaultKinds
  <2>3. \A s \in Slots : s < cur + 1 => s < cur \/ s = cur
    BY <1>1, NvsAssumption DEF Slots
  <2>4. Without({"read", "rot"})' => \A n \in Ids : fate[n] = "accepted" =>
          \A s \in Slots : blob[s].id = n /\ s < cur' => n \in Indexed
    BY <1>0, <1>1, <1>2, <1>4, <2>1, <2>2, <2>3 DEF StoredInv
  <2>5. Without(FaultKinds)' =>
          \A s \in Slots : disk[s].id \in Ids /\ s < cur' => disk[s].id \in Indexed
    BY <1>0, <1>1, <1>2, <1>4, <2>1, <2>2, <2>3 DEF MirrorInv, InScope
  <2>6. pc' = "scan" /\ ~Busy' /\ Recovering'
    BY <1>1, <1>4 DEF Busy, Recovering
  <2>7. \A s \in Slots : InScope(s)' <=> s < cur'
    BY <2>6 DEF InScope
  <2> QED BY <1>1, <1>4, <2>4, <2>5, <2>6, <2>7, SafeQuiet
<1>5. CASE Verified(cur) = "CORRUPT" /\ Discard(cur) /\ cur' = cur + 1 /\ UNCHANGED <<ctx, pc>>
  <2>1. ~Busy' /\ Recovering'
    BY <1>1, <1>5 DEF Busy, Recovering
  <2> QED BY <1>1, <1>5, <2>1, SafeDiscard
<1>6. CASE Read(cur, "STORAGE") /\ pc' = "failed" /\ UNCHANGED <<nvs, ctx, cur>>
  <2>1. ~Without(FaultKinds)'
    <3>1. Verified(cur) # "STORAGE"
      BY DEF Verified
    <3>2. faults'["read"] # 0
      BY <1>1, <1>6, <3>1, ReadCounted
    <3> QED BY <3>2 DEF Without, FaultKinds
  <2>2. ~Busy' /\ Recovering'
    BY <1>6 DEF Busy, Recovering
  <2> QED BY <1>1, <1>6, <2>1, <2>2, SafeQuiet
<1> QED BY <1>3, <1>4, <1>5, <1>6 DEF ScanSlot

LEMMA SafeCorrupt ==
  ASSUME TypeOK, TypeOK', SlotInv, SlotInv', SafeInv, NEW m \in Ids, ClaimCorrupt(m)
  PROVE  SafeInv'
<1>1. /\ ~Busy /\ ~Busy' /\ Recovering' = Recovering /\ Verified(index[m].slot) = "CORRUPT"
      /\ Discard(index[m].slot) /\ UNCHANGED <<fate, started, crashes>>
  BY DEF ClaimCorrupt, Busy, Recovering, history
<1>2. m \in Indexed /\ index[m].slot \in Slots
  BY LiveIndexed, Fields DEF ClaimCorrupt, Live
<1>3. /\ index'[m] = [index[m] EXCEPT !.st = "DEAD_LETTER"]
      /\ \A n \in Ids : n # m => index'[n] = index[n]
  BY DEF ClaimCorrupt, TypeOK
<1>4. \A n \in Ids : index'[n] = index[n] \/
        (n \in Indexed /\ index'[n] = [index[n] EXCEPT !.st = "DEAD_LETTER"])
  BY <1>2, <1>3
<1> QED BY <1>1, <1>2, <1>4, SafeDiscard

\* After a reset the index is empty, and NVS has of every slot the old content
\* or the new one.
LEMMA SafeReset ==
  ASSUME TypeOK, TypeOK', SlotInv, SlotInv', SafeInv, Boot \/ PowerLoss
  PROVE  SafeInv'
<1> USE DEF nvs, history
<1>0. /\ HistoryInv /\ ProgressInv /\ CountInv /\ LimitInv
      /\ IntactInv /\ StoredInv /\ MirrorInv /\ ClaimedInv
  BY DEF SafeInv
<1>1. /\ \A m \in Ids : index'[m] = Absent
      /\ cur' = 0 /\ pc' \in {"off", "scan"} /\ UNCHANGED <<fate, started, faults>>
  BY DEF Boot, PowerLoss, ResetRam
<1>2. Indexed' = {} /\ ~Busy' /\ Recovering'
  BY <1>1 DEF Indexed, Busy, Recovering
<1>3. \A s \in Slots : blob'[s] \in {blob[s], disk[s]} /\ disk'[s] \in {blob[s], disk[s]}
  BY DEF Boot, PowerLoss
<1>4. HistoryInv'
  BY <1>0, <1>1, <1>3 DEF HistoryInv, Holds
<1>5. ProgressInv' /\ ClaimedInv'
  BY <1>2 DEF ProgressInv, ClaimedInv
<1>6. CountInv'
  BY <1>0, <1>1, <1>2, <1>3 DEF CountInv
<1>7. LimitInv'
  <2> SUFFICES ASSUME MaxAttempts # 0 PROVE LimitInv'
    BY DEF LimitInv
  <2> DEFINE b == MaxAttempts + crashes' - 1
  <2>1. /\ crashes \in Nat /\ crashes' \in Nat /\ crashes <= crashes' /\ b \in Nat
        /\ \A st : Limit(st)' = b /\ Limit(st) \in Nat /\ Limit(st) <= b
    <3>1. crashes \in Nat /\ crashes' \in Nat
      BY Fields DEF TypeOK
    <3>2. CASE Boot
      <4>1. Recovering
        BY <3>2 DEF Boot, Recovering, Busy
      <4> QED BY <1>2, <3>1, <3>2, <4>1, Fields DEF Boot, Limit
    <3>3. CASE PowerLoss
      BY <1>2, <3>1, <3>3, Fields DEF PowerLoss, Limit
    <3> QED BY <3>2, <3>3
  <2> HIDE DEF b
  <2>2. \A s \in Slots : /\ blob[s].id \in Ids => blob[s].att <= b
                         /\ disk[s].id \in Ids => disk[s].att <= b
    BY <1>0, <2>1, Fields DEF LimitInv
  <2>3. \A m \in Ids : started[m] <= MaxAttempts + crashes'
    BY <1>0, <2>1, Fields DEF LimitInv
  <2>4. \A s \in Slots : /\ blob'[s].id \in Ids => blob'[s].att <= b
                         /\ disk'[s].id \in Ids => disk'[s].att <= b
    BY <1>3, <2>2
  <2> QED BY <1>1, <1>2, <2>1, <2>3, <2>4 DEF LimitInv
<1>8. IntactInv'
  BY <1>0, <1>1, <1>2, <1>3 DEF IntactInv
<1>9. StoredInv'
  <2> SUFFICES ASSUME Without({"read", "rot"}), NEW n \in Ids, fate[n] = "accepted"
               PROVE  /\ \E s \in Slots : blob'[s].id = n /\ disk'[s].id = n
                      /\ \A s \in Slots : ~(s < 0)
    BY <1>1 DEF StoredInv, Without
  <2>1. PICK s \in Slots : blob[s].id = n /\ disk[s].id = n
    BY <1>0 DEF StoredInv
  <2>2. \A t \in Slots : ~(t < 0)
    BY NvsAssumption DEF Slots
  <2> QED BY <1>3, <2>1, <2>2
<1>10. MirrorInv'
  <2> SUFFICES ASSUME Without(FaultKinds) PROVE MirrorInv'
    BY <1>1 DEF MirrorInv, Without
  <2>1. \A s \in Slots : blob'[s] = disk'[s]
    <3>1. CASE Boot
      BY <1>0, <3>1 DEF Boot, MirrorInv
    <3>2. CASE PowerLoss
      BY <3>2 DEF PowerLoss
    <3> QED BY <3>1, <3>2
  <2>2. \A s \in Slots : ~InScope(s)'
    BY <1>1, NvsAssumption DEF InScope, Slots
  <2> QED BY <1>1, <1>2, <2>1, <2>2 DEF MirrorInv
<1> QED BY <1>4, <1>5, <1>6, <1>7, <1>8, <1>9, <1>10 DEF SafeInv

\* A blob that rots keeps its fields, and makes the claims about a sound NVS
\* void.
LEMMA SafeRot ==
  ASSUME TypeOK, TypeOK', SlotInv, SafeInv, Rot
  PROVE  SafeInv'
<1> USE DEF ctx, history
<1>0. HistoryInv /\ ProgressInv /\ CountInv /\ LimitInv
  BY DEF SafeInv
<1>1. \A t \in Slots : /\ blob'[t].id = blob[t].id /\ disk'[t].id = disk[t].id
                       /\ blob'[t].st = blob[t].st /\ disk'[t].st = disk[t].st
                       /\ blob'[t].att = blob[t].att /\ disk'[t].att = disk[t].att
  BY DEF Rot, TypeOK, Blobs
<1>2. /\ UNCHANGED <<pc, op, index, held, fate, started, crashes>>
      /\ op.slot \in Slots /\ Indexed' = Indexed /\ Busy' = Busy /\ Recovering' = Recovering
  BY DEF Rot, TypeOK, Indexed, Busy, Recovering
<1>3. faults'["rot"] # 0
  BY FaultCounted DEF Rot, FaultKinds
<1>4. IntactInv' /\ StoredInv' /\ MirrorInv' /\ ClaimedInv'
  BY <1>3 DEF IntactInv, StoredInv, MirrorInv, ClaimedInv, Without, FaultKinds
<1>5. HistoryInv' /\ ProgressInv'
  BY <1>0, <1>1, <1>2 DEF HistoryInv, ProgressInv, Holds
<1>6. CountInv'
  BY <1>0, <1>1, <1>2 DEF CountInv
<1>7. LimitInv'
  BY <1>0, <1>1, <1>2 DEF LimitInv, Limit
<1> QED BY <1>4, <1>5, <1>6, <1>7 DEF SafeInv

\* The operation in progress owns its slot: its message is in no other one, and
\* no other message is in it, on NVS or in the index.
LEMMA OpOwnsSlot ==
  ASSUME TypeOK, SlotInv, Busy
  PROVE  /\ op.id \in Ids /\ op.slot \in Slots /\ op.kind # "none" /\ fate[op.id] # "fresh"
         /\ \A s \in Slots : Holds(op.id, s) => s = op.slot
         /\ \A n \in Indexed : n # op.id => index[n].slot # op.slot
         /\ Erases(op.kind) => op.rec = NoBlob /\ op.rec.id \notin Ids
         /\ ~Erases(op.kind) => op.rec.id = op.id
         /\ op.kind # "enqueue" => op.id \in Indexed /\ op.slot = index[op.id].slot
         /\ op.kind = "enqueue" => index[op.id] = Absent
         /\ pc = "commit" => blob[op.slot].id = op.rec.id
<1>1. /\ op.id \in Ids /\ op.slot \in Slots /\ op.kind # "none" /\ fate[op.id] # "fresh"
      /\ op.kind # "enqueue" => op.id \in Indexed /\ op.slot = index[op.id].slot
      /\ op.kind = "enqueue" => index[op.id] = Absent /\ op.slot \notin used
      /\ pc = "commit" => blob[op.slot].id = op.rec.id
  BY DEF SlotInv, OpInv, Indexed, TypeOK
<1>2. \A s \in Slots : Holds(op.id, s) => s = op.slot
  BY <1>1 DEF SlotInv, OpInv, IndexInv
<1>3. \A n \in Indexed : n # op.id => index[n].slot # op.slot
  BY <1>1 DEF SlotInv, SlotsExclusive
<1>4. /\ Erases(op.kind) => op.rec = NoBlob /\ op.rec.id \notin Ids
      /\ ~Erases(op.kind) => op.rec.id = op.id
  BY NvsAssumption DEF SlotInv, OpInv, NoBlob
<1> QED BY <1>1, <1>2, <1>3, <1>4

\* What is written counts the attempts begun, within the limit.
LEMMA RecordCounts ==
  ASSUME TypeOK, SlotInv, SafeInv, Busy, ~Erases(op.kind)
  PROVE  /\ started[op.id] <= op.rec.att
         /\ MaxAttempts # 0 => op.rec.att <= Limit(op.rec.st)
<1>0. CountInv /\ LimitInv /\ ProgressInv
  BY DEF SafeInv
<1>1. CASE op.kind = "enqueue"
  <2>1. started[op.id] = 0 /\ op.rec.att = 0
    BY <1>0, <1>1 DEF ProgressInv
  <2> QED BY <2>1, Limits
<1>2. CASE op.kind # "enqueue"
  <2>1. op.id \in Indexed /\ index[op.id].st = op.rec.st /\ index[op.id].att = op.rec.att
    BY <1>0, <1>2, OpOwnsSlot DEF ProgressInv, Entry
  <2> QED BY <1>0, <2>1 DEF CountInv, LimitInv
<1> QED BY <1>1, <1>2

LEMMA SafeWrite ==
  ASSUME TypeOK, TypeOK', SlotInv, SlotInv', SafeInv, Write
  PROVE  SafeInv'
<1> USE DEF ctx, history
<1>0. /\ HistoryInv /\ ProgressInv /\ CountInv /\ LimitInv
      /\ IntactInv /\ StoredInv /\ MirrorInv /\ ClaimedInv
  BY DEF SafeInv
<1>1. /\ pc = "write" /\ pc' = "commit" /\ Busy /\ Busy' /\ Recovering' = Recovering
      /\ UNCHANGED <<disk, op, cur, index, used, held, fate, started, crashes, faults>>
      /\ Indexed' = Indexed
  BY DEF Write, Busy, Recovering, Indexed
<1>2. /\ op.id \in Ids /\ op.slot \in Slots
      /\ \A s \in Slots : Holds(op.id, s) => s = op.slot
      /\ \A n \in Indexed : n # op.id => index[n].slot # op.slot
      /\ Erases(op.kind) => op.rec.id \notin Ids
      /\ ~Erases(op.kind) => op.rec.id = op.id
      /\ op.kind = "enqueue" => index[op.id] = Absent
  BY <1>1, OpOwnsSlot
<1>3. blob'[op.slot] = op.rec /\ \A s \in Slots : s # op.slot => blob'[s] = blob[s]
  BY <1>2 DEF Write, TypeOK
<1>4. HistoryInv'
  <2>1. fate[op.id] # "closed"
    BY <1>0, <1>1, <1>2 DEF HistoryInv, ProgressInv, SlotInv, OpInv
  <2>2. \A n \in Ids : \A s \in Slots : n # op.id /\ Holds(n, s)' => Holds(n, s)
    BY <1>1, <1>2, <1>3 DEF Holds
  <2> QED BY <1>0, <1>1, <2>1, <2>2 DEF HistoryInv
<1>5. ProgressInv'
  BY <1>0, <1>1, <1>3 DEF ProgressInv
<1>6. CountInv'
  <2>1. op.rec.id \in Ids => op.rec.id = op.id /\ started[op.id] <= op.rec.att
    BY <1>1, <1>2, RecordCounts
  <2> QED BY <1>0, <1>1, <1>3, <2>1 DEF CountInv
<1>7. LimitInv'
  <2> SUFFICES ASSUME MaxAttempts # 0 PROVE LimitInv'
    BY DEF LimitInv
  <2>1. \A st : Limit(st)' = Limit(st)
    BY <1>1 DEF Limit
  <2>2. op.rec.id \in Ids => op.rec.att <= Limit(op.rec.st)
    BY <1>1, <1>2, RecordCounts
  <2>3. \A s \in Slots : blob'[s].id \in Ids => blob'[s].att <= Limit(blob'[s].st)
    BY <1>0, <1>3, <2>2 DEF LimitInv
  <2> QED BY <1>0, <1>1, <2>1, <2>3 DEF LimitInv
<1>8. IntactInv'
  BY <1>0, <1>1, <1>3 DEF IntactInv
<1>9. StoredInv'
  <2> SUFFICES ASSUME Without({"read", "rot"}), NEW n \in Ids, fate[n] = "accepted"
               PROVE  /\ \E s \in Slots : blob'[s].id = n /\ disk[s].id = n
                      /\ n \in Indexed
    BY <1>1 DEF StoredInv, Without
  <2>1. n \in Indexed /\ \E s \in Slots : blob[s].id = n /\ disk[s].id = n
    BY <1>0, <1>1 DEF StoredInv
  <2>2. PICK s \in Slots : blob[s].id = n /\ disk[s].id = n
    BY <2>1
  <2>3. CASE n = op.id
    <3>1. s = op.slot /\ ~Erases(op.kind)
      BY <1>0, <1>1, <1>2, <2>2, <2>3 DEF Holds, ProgressInv
    <3> QED BY <1>2, <1>3, <2>1, <2>2, <2>3, <3>1
  <2>4. CASE n # op.id
    <3>1. s = index[n].slot
      BY <2>1, <2>2 DEF SlotInv, IndexInv, Holds
    <3> QED BY <1>2, <1>3, <2>1, <2>2, <2>4, <3>1
  <2> QED BY <2>3, <2>4
<1>10. MirrorInv'
  <2> SUFFICES ASSUME Without(FaultKinds) PROVE MirrorInv'
    BY <1>1 DEF MirrorInv, Without
  <2> QED BY <1>0, <1>1, <1>3 DEF MirrorInv, InScope
<1>11. ClaimedInv'
  BY <1>0, <1>1 DEF ClaimedInv, Without
<1> QED BY <1>4, <1>5, <1>6, <1>7, <1>8, <1>9, <1>10, <1>11 DEF SafeInv

\* A call that fails ends the operation; what it had changed in the index stays.
LEMMA SafeFail ==
  ASSUME TypeOK, TypeOK', SlotInv, SlotInv', SafeInv,
         \A k \in FaultKinds : faults'[k] = 0 => faults[k] = 0,
         KeyMissing \/ CallFails
  PROVE  SafeInv'
<1> USE DEF nvs
<1>0. /\ HistoryInv /\ ProgressInv /\ CountInv /\ LimitInv
      /\ IntactInv /\ StoredInv /\ MirrorInv
  BY DEF SafeInv
<1>1. /\ Busy /\ Fail /\ UNCHANGED <<blob, disk, cur, crashes>>
  BY DEF KeyMissing, CallFails, Busy
<1>2. /\ ~Busy' /\ UNCHANGED <<index, used, started>> /\ pc' \in {"failed", "idle"}
      /\ Indexed' = Indexed
  BY <1>1 DEF Fail, Return, Busy, Indexed
<1>3. Recovering' = Recovering
  BY <1>1, <1>2 DEF Fail, Return, Recovering, Busy
<1>4. \A n \in Ids : fate'[n] = fate[n] \/ fate'[n] = "refused"
  BY <1>1 DEF Fail, Return, TypeOK
<1>5. ~Without(FaultKinds)'
  <2>1. CASE KeyMissing
    <3> SUFFICES ASSUME Without(FaultKinds) PROVE FALSE
      BY CleanBefore
    <3>1. pc = "write" /\ op.rec = NoBlob /\ blob[op.slot] = NoBlob
      BY <2>1 DEF KeyMissing
    <3>2. Erases(op.kind)
      BY <1>1, <3>1, OpOwnsSlot, NvsAssumption DEF NoBlob
    <3>3. op.slot \in Slots /\ op.id \in Indexed /\ op.slot = index[op.id].slot /\ op.id \in Ids
      BY <1>1, <3>2, OpOwnsSlot DEF Erases
    <3>4. blob[op.slot].id = op.id
      BY <1>0, <3>1, <3>3 DEF MirrorInv
    <3> QED BY <3>1, <3>3, <3>4, NvsAssumption DEF NoBlob
  <2>2. CASE CallFails
    BY <2>2, FaultCounted DEF CallFails, Without, FaultKinds
  <2> QED BY <2>1, <2>2
<1>6. HistoryInv'
  BY <1>0, <1>1, <1>2, <1>4 DEF HistoryInv, Holds
<1>7. ProgressInv' /\ MirrorInv' /\ ClaimedInv'
  BY <1>2, <1>5 DEF ProgressInv, MirrorInv, ClaimedInv
<1>8. CountInv'
  BY <1>0, <1>1, <1>2 DEF CountInv
<1>9. LimitInv'
  BY <1>0, <1>1, <1>2, <1>3 DEF LimitInv, Limit
<1>10. IntactInv'
  BY <1>0, <1>1, <1>2 DEF IntactInv, FaultKinds
<1>11. StoredInv'
  <2> SUFFICES ASSUME Without({"read", "rot"})', NEW n \in Ids, fate'[n] = "accepted"
               PROVE  /\ \E s \in Slots : blob[s].id = n /\ disk[s].id = n
                      /\ n \in Indexed
    BY <1>1, <1>2 DEF StoredInv
  <2>1. Without({"read", "rot"}) /\ fate[n] = "accepted" /\ pc \in {"write", "commit"}
    BY <1>1, <1>4, CleanBefore DEF FaultKinds, Busy
  <2> QED BY <1>0, <2>1 DEF StoredInv
<1> QED BY <1>6, <1>7, <1>8, <1>9, <1>10, <1>11 DEF SafeInv

\* What a commit changes: nothing but what concerns the operation's message.
LEMMA CommitEffect ==
  ASSUME TypeOK, TypeOK', SlotInv, SafeInv, Commit
  PROVE  /\ Busy /\ ~Busy' /\ pc = "commit" /\ disk' = blob /\ blob' = blob
         /\ UNCHANGED <<crashes, faults>>
         /\ pc' = (IF op.kind = "requeue" THEN "requeue" ELSE "idle")
         /\ \A n \in Ids : n # op.id =>
              index'[n] = index[n] /\ fate'[n] = fate[n] /\ started'[n] = started[n]
         /\ index'[op.id] = IF Erases(op.kind) THEN Absent
                            ELSE Entry(op.rec.st, op.rec.att, op.slot)
         /\ fate'[op.id] = CASE op.kind = "enqueue" -> "accepted"
                             [] Erases(op.kind) -> "closed" [] OTHER -> fate[op.id]
         /\ started'[op.id] = IF op.kind = "claim" THEN started[op.id] + 1 ELSE started[op.id]
         /\ held' = CASE op.kind = "claim" -> [id |-> op.id, body |-> op.rec.body, att |-> op.rec.att]
                      [] Reports(op.kind)  -> NoHeld
                      [] OTHER -> held
<1>1. /\ Busy /\ ~Busy' /\ pc = "commit" /\ disk' = blob /\ blob' = blob /\ Succeed
      /\ UNCHANGED <<crashes, faults>>
      /\ pc' = (IF op.kind = "requeue" THEN "requeue" ELSE "idle")
  BY DEF Commit, Succeed, Return, Busy
<1>2. op.id \in Ids /\ op.kind # "none"
  BY <1>1, OpOwnsSlot
<1>3. \A n \in Ids : n # op.id => index'[n] = index[n]
  BY <1>1 DEF Succeed, Return, TypeOK
<1>4. \A n \in Ids : n # op.id => fate'[n] = fate[n]
  <2> DEFINE told(f) == [fate EXCEPT ![op.id] = f]
  <2>1. fate' \in {fate, told("accepted"), told("closed")}
    BY <1>1 DEF Succeed, Return, TypeOK
  <2> QED BY <2>1 DEF TypeOK
<1>5. \A n \in Ids : n # op.id => started'[n] = started[n]
  BY <1>1 DEF Succeed, TypeOK
<1>6. index'[op.id] = IF Erases(op.kind) THEN Absent ELSE Entry(op.rec.st, op.rec.att, op.slot)
  <2>0. ProgressInv
    BY DEF SafeInv
  <2>1. CASE op.kind = "enqueue"
    BY <1>1, <1>2, <2>0, <2>1 DEF Succeed, Return, TypeOK, ProgressInv, Erases, StateWritten
  <2>2. CASE Erases(op.kind)
    BY <1>1, <1>2, <2>2 DEF Succeed, Return, TypeOK, Erases
  <2>3. CASE op.kind # "enqueue" /\ ~Erases(op.kind)
    BY <1>1, <1>2, <2>0, <2>3 DEF Succeed, Return, TypeOK, ProgressInv
  <2> QED BY <2>1, <2>2, <2>3
<1>7. fate'[op.id] = CASE op.kind = "enqueue" -> "accepted"
                       [] Erases(op.kind) -> "closed" [] OTHER -> fate[op.id]
  BY <1>1, <1>2 DEF Succeed, Return, TypeOK, Erases
<1>8. started'[op.id] = IF op.kind = "claim" THEN started[op.id] + 1 ELSE started[op.id]
  BY <1>1, <1>2 DEF Succeed, TypeOK
<1>9. held' = CASE op.kind = "claim" -> [id |-> op.id, body |-> op.rec.body, att |-> op.rec.att]
                [] Reports(op.kind)  -> NoHeld
                [] OTHER -> held
  BY <1>1 DEF Succeed, Return
<1> QED BY <1>1, <1>3, <1>4, <1>5, <1>6, <1>7, <1>8, <1>9

LEMMA SafeCommit ==
  ASSUME TypeOK, TypeOK', SlotInv, SlotInv', SafeInv, Commit
  PROVE  SafeInv'
<1> DEFINE m == op.id
<1>0. /\ HistoryInv /\ ProgressInv /\ CountInv /\ LimitInv
      /\ IntactInv /\ StoredInv /\ MirrorInv /\ ClaimedInv
  BY DEF SafeInv
<1>1. /\ Busy /\ ~Busy' /\ pc = "commit" /\ disk' = blob /\ blob' = blob
      /\ UNCHANGED <<crashes, faults>>
      /\ pc' = (IF op.kind = "requeue" THEN "requeue" ELSE "idle")
      /\ \A n \in Ids : n # m =>
           index'[n] = index[n] /\ fate'[n] = fate[n] /\ started'[n] = started[n]
  BY CommitEffect
<1>2. /\ index'[m] = IF Erases(op.kind) THEN Absent ELSE Entry(op.rec.st, op.rec.att, op.slot)
      /\ fate'[m] = CASE op.kind = "enqueue" -> "accepted"
                      [] Erases(op.kind) -> "closed" [] OTHER -> fate[m]
      /\ started'[m] = IF op.kind = "claim" THEN started[m] + 1 ELSE started[m]
  BY CommitEffect
<1>3. /\ m \in Ids /\ op.slot \in Slots /\ op.kind # "none" /\ fate[m] # "fresh"
      /\ \A s \in Slots : Holds(m, s) => s = op.slot
      /\ \A n \in Indexed : n # m => index[n].slot # op.slot
      /\ Erases(op.kind) => blob[op.slot].id \notin Ids
      /\ ~Erases(op.kind) => blob[op.slot].id = m
      /\ op.kind # "enqueue" => index[m] # Absent
  BY <1>1, OpOwnsSlot, IndexedIds
<1>4. /\ blob[op.slot].st = op.rec.st /\ blob[op.slot].att = op.rec.att
      /\ ~Erases(op.kind) => op.rec.st \in Live
  BY <1>0, <1>1 DEF ProgressInv, SlotInv, OpInv
<1>5. \A s \in Slots : blob[s].id = m => s = op.slot /\ ~Erases(op.kind)
  BY <1>3 DEF Holds
<1>6. Indexed' = IF Erases(op.kind) THEN Indexed \ {m} ELSE Indexed \cup {m}
  <2>1. Erases(op.kind) <=> index'[m] = Absent
    BY <1>2, <1>4 DEF Absent, Entry, Live
  <2> QED BY <1>1, <1>3, <2>1 DEF Indexed
<1>7. Recovering' = Recovering /\ (Recovering <=> op.kind = "requeue")
  BY <1>1 DEF Recovering, Busy
<1>8. \A n \in Indexed : n \in Ids
  BY IndexedIds
<1>9. HistoryInv'
  <2>1. ASSUME NEW n \in Ids, n # m
        PROVE  /\ fate'[n] = "closed" => index'[n] = Absent /\ \A s \in Slots : ~Holds(n, s)'
               /\ fate'[n] = "fresh" => started'[n] = 0
    BY <1>0, <1>1, <2>1 DEF HistoryInv, Holds
  <2>2. fate'[m] # "fresh"
    BY <1>2, <1>3
  <2>3. fate'[m] = "closed" => Erases(op.kind)
    BY <1>0, <1>2, <1>3 DEF HistoryInv
  <2>4. ASSUME NEW n \in Ids, n = m, Erases(op.kind)
        PROVE  index'[n] = Absent /\ \A s \in Slots : ~Holds(n, s)'
    BY <1>1, <1>2, <1>5, <2>4 DEF Holds
  <2> QED BY <2>1, <2>2, <2>3, <2>4 DEF HistoryInv
<1>10. ProgressInv'
  BY <1>1 DEF ProgressInv
<1>11. ~Erases(op.kind) => started'[m] <= op.rec.att
  <2>1. CASE op.kind = "claim"
    <3>1. started[m] < op.rec.att
      BY <1>0, <1>1, <2>1 DEF ProgressInv
    <3> QED BY <1>2, <1>3, <2>1, <3>1, Fields
  <2>2. CASE op.kind # "claim"
    BY <1>1, <1>2, <2>2, RecordCounts
  <2> QED BY <2>1, <2>2
<1>12. CountInv'
  <2>1. \A s \in Slots : blob[s].id \in Ids => started'[blob[s].id] <= blob[s].att
    BY <1>0, <1>1, <1>4, <1>5, <1>11 DEF CountInv
  <2>2. \A n \in Indexed' : started'[n] <= index'[n].att
    <3>1. ~Erases(op.kind) => started'[m] <= index'[m].att
      BY <1>2, <1>11 DEF Entry
    <3> QED BY <1>0, <1>1, <1>6, <1>8, <3>1 DEF CountInv
  <2> QED BY <1>1, <2>1, <2>2 DEF CountInv
<1>13. LimitInv'
  <2> SUFFICES ASSUME MaxAttempts # 0 PROVE LimitInv'
    BY DEF LimitInv
  <2>1. \A st : Limit(st)' = Limit(st)
    BY <1>1, <1>7 DEF Limit
  <2>2. ~Erases(op.kind) => op.rec.att <= Limit(op.rec.st)
    BY <1>1, RecordCounts
  <2>3. ~Erases(op.kind) => index'[m].att <= Limit(index'[m].st)
    BY <1>2, <2>2 DEF Entry
  <2>4. \A n \in Indexed' : index'[n].att <= Limit(index'[n].st)
    BY <1>0, <1>1, <1>6, <1>8, <2>3 DEF LimitInv
  <2>5. started'[m] <= MaxAttempts + crashes
    <3>1. CASE op.kind = "claim"
      <4>1. ~Erases(op.kind) /\ started'[m] \in Nat
        BY <1>3, <3>1 DEF Erases, TypeOK
      <4>2. Limit(op.rec.st) <= MaxAttempts + crashes /\ Limit(op.rec.st) \in Nat
        BY Fields DEF Limit
      <4> QED BY <1>11, <2>2, <4>1, <4>2, Fields
    <3>2. CASE op.kind # "claim"
      BY <1>0, <1>2, <1>3, <3>2 DEF LimitInv
    <3> QED BY <3>1, <3>2
  <2>6. \A n \in Ids : started'[n] <= MaxAttempts + crashes
    BY <1>0, <1>1, <2>5 DEF LimitInv
  <2> QED BY <1>0, <1>1, <2>1, <2>4, <2>6 DEF LimitInv
<1>14. IntactInv'
  BY <1>0, <1>1 DEF IntactInv
<1>15. StoredInv'
  <2> SUFFICES ASSUME Without({"read", "rot"}), NEW n \in Ids, fate'[n] = "accepted"
               PROVE  /\ \E s \in Slots : blob[s].id = n
                      /\ n \in Indexed'
    BY <1>1 DEF StoredInv, Without
  <2>1. fate[n] = "accepted" => n \in Indexed /\ \E s \in Slots : blob[s].id = n
    BY <1>0, <1>1 DEF StoredInv
  <2>2. CASE n # m
    BY <1>1, <1>6, <2>1, <2>2
  <2>3. CASE n = m
    <3>1. ~Erases(op.kind)
      BY <1>2, <2>3 DEF Erases
    <3> QED BY <1>3, <1>6, <2>3, <3>1
  <2> QED BY <2>2, <2>3
<1>16. MirrorInv'
  <2> SUFFICES ASSUME Without(FaultKinds) PROVE MirrorInv'
    BY <1>1 DEF MirrorInv, Without
  <2>1. \A s \in Slots : s # op.slot => blob[s] = disk[s]
    BY <1>0 DEF MirrorInv
  <2>2. \A n \in Indexed : n # m => /\ index[n].slot \in Slots /\ index[n].slot # op.slot
                                    /\ disk[index[n].slot].id = n
                                    /\ disk[index[n].slot].st = index[n].st
                                    /\ disk[index[n].slot].att = index[n].att
    BY <1>0, <1>3, <1>8, Fields DEF MirrorInv
  <2>3. \A n \in Indexed : n # m => /\ blob[index'[n].slot].id = n
                                    /\ blob[index'[n].slot].st = index'[n].st
                                    /\ blob[index'[n].slot].att = index'[n].att
    BY <1>1, <1>8, <2>1, <2>2
  <2>4. ~Erases(op.kind) => /\ blob[index'[m].slot].id = m
                            /\ blob[index'[m].slot].st = index'[m].st
                            /\ blob[index'[m].slot].att = index'[m].att
    BY <1>2, <1>3, <1>4 DEF Entry
  <2>5. \A n \in Indexed' : /\ blob[index'[n].slot].id = n
                            /\ blob[index'[n].slot].st = index'[n].st
                            /\ blob[index'[n].slot].att = index'[n].att
    BY <1>6, <2>3, <2>4
  <2>6. \A s \in Slots : blob[s].id \in Ids => blob[s].id \in Indexed'
    <3> SUFFICES ASSUME NEW s \in Slots, blob[s].id \in Ids PROVE blob[s].id \in Indexed'
      OBVIOUS
    <3>1. CASE s = op.slot
      BY <1>3, <1>6, <3>1
    <3>2. CASE s # op.slot
      <4>1. disk[s].id \in Ids /\ disk[s].id \in Indexed /\ disk[s].id # m
        BY <1>0, <1>1, <1>5, <2>1, <3>2 DEF MirrorInv, InScope
      <4> QED BY <1>6, <2>1, <3>2, <4>1
    <3> QED BY <3>1, <3>2
  <2> QED BY <1>1, <2>5, <2>6 DEF MirrorInv
<1>17. ClaimedInv'
  <2> SUFFICES ASSUME Without(FaultKinds), ~Recovering, NEW n \in Ids,
                      index'[n].st = "IN_FLIGHT"
               PROVE  n = held'.id
    BY <1>1, <1>7 DEF ClaimedInv, Without
  <2>0. held' = CASE op.kind = "claim" -> [id |-> m, body |-> op.rec.body, att |-> op.rec.att]
                  [] Reports(op.kind)  -> NoHeld
                  [] OTHER -> held
    BY CommitEffect
  <2>1. n # m => n = held.id
    BY <1>0, <1>1, <2>0 DEF ClaimedInv
  <2>2. n = m => op.kind = "claim"
    BY <1>0, <1>1, <1>2, <1>7 DEF ProgressInv, StateWritten, Entry, Absent
  <2>3. op.kind = "claim" => held = NoHeld
    BY <1>1 DEF SlotInv, HeldInv, Reports
  <2>4. CASE op.kind = "claim"
    <3>1. held'.id = m
      BY <2>0, <2>4 DEF Reports
    <3> QED BY <2>1, <2>3, <2>4, <3>1, NvsAssumption DEF NoHeld
  <2>5. CASE op.kind # "claim" /\ Reports(op.kind)
    <3>1. held.id = m
      BY <1>0, <1>1, <2>5 DEF ProgressInv
    <3> QED BY <2>1, <2>2, <2>5, <3>1
  <2>6. CASE op.kind # "claim" /\ ~Reports(op.kind)
    BY <2>0, <2>1, <2>2, <2>6
  <2> QED BY <2>4, <2>5, <2>6
<1> QED BY <1>9, <1>10, <1>12, <1>13, <1>14, <1>15, <1>16, <1>17 DEF SafeInv

-----------------------------------------------------------------------------
(* The invariant, and what it says.                                         *)

LEMMA SafeInit == Init => SafeInv
<1> SUFFICES ASSUME Init PROVE SafeInv
  OBVIOUS
<1>1. /\ \A m \in Ids : index[m] = Absent /\ fate[m] = "fresh" /\ started[m] = 0
      /\ pc = "off" /\ ~Busy /\ Recovering /\ Indexed = {}
  BY DEF Init, Busy, Recovering, Indexed
<1>2. \A s \in Slots : blob[s] = NoBlob /\ disk[s] = NoBlob
  BY DEF Init
<1>3. NoBlob.id = NoId /\ NoId \notin Ids /\ NoBlob.ok
  BY NvsAssumption DEF NoBlob
<1>4. HistoryInv /\ ProgressInv /\ CountInv
  BY <1>1, <1>2, <1>3 DEF HistoryInv, ProgressInv, CountInv
<1>5. LimitInv
  BY <1>1, <1>2, <1>3, NvsAssumption DEF LimitInv, Init
<1>6. IntactInv /\ StoredInv
  BY <1>1, <1>2, <1>3 DEF IntactInv, StoredInv
<1>7. MirrorInv /\ ClaimedInv
  BY <1>1, <1>2, <1>3 DEF MirrorInv, ClaimedInv, InScope
<1> QED BY <1>4, <1>5, <1>6, <1>7 DEF SafeInv

\* The invariant is inductive on top of the one about slots.
LEMMA SafeNext ==
  TypeOK /\ TypeOK' /\ SlotInv /\ SlotInv' /\ SafeInv /\ [Next]_vars => SafeInv'
<1> SUFFICES ASSUME TypeOK, TypeOK', SlotInv, SlotInv', SafeInv, [Next]_vars PROVE SafeInv'
  OBVIOUS
<1>1. \A k \in FaultKinds : faults'[k] = 0 => faults[k] = 0
  BY FaultsGrow
<1>2. CASE Recovery
  BY <1>1, <1>2, SafeReset, SafeScan, SafeIdle, SafeOperation DEF Recovery
<1>3. CASE Calls \/ CallFails
  BY <1>1, <1>3, SafeWrite, SafeCommit, SafeFail DEF Calls
<1>4. CASE Publisher
  BY <1>1, <1>4, SafeEnqueue, SafeIdle, SafeOperation DEF Publisher
<1>5. CASE Worker
  BY <1>1, <1>5, SafeOperation DEF Worker
<1>6. CASE ReadTrouble
  BY <1>1, <1>6, SafeCorrupt, SafeIdle DEF ReadTrouble
<1>7. CASE PollIdle
  BY <1>1, <1>7, SafeIdle
<1>8. CASE UNCHANGED vars
  BY <1>8 DEF vars, SafeInv, HistoryInv, ProgressInv, CountInv, LimitInv, IntactInv, StoredInv,
     MirrorInv, ClaimedInv, Recovering, Busy, Limit, InScope, Indexed, Holds, Without
<1> QED BY <1>2, <1>3, <1>4, <1>5, <1>6, <1>7, <1>8, SafeReset, SafeRot DEF Next

\* The invariant holds in every state of the backend, whatever calls fail.
THEOREM NvsSafety == Spec => []SafeInv
<1>1. Init => SafeInv
  BY SafeInit
<1> QED BY <1>1, SafeNext, NvsInvariant, PTL DEF Spec

\* A recovery finds at most one blob of a message: OnDisk is that one.
LEMMA OnDiskIs ==
  ASSUME TypeOK, SlotInv, NEW m \in Ids
  PROVE  /\ \A s \in Slots : disk[s].id = m =>
              OnDisk(m) = Entry(disk[s].st, disk[s].att, s) /\ OnDisk(m) # Absent
         /\ (\A s \in Slots : disk[s].id # m) => OnDisk(m) = Absent
<1>1. ASSUME NEW s \in Slots, disk[s].id = m
      PROVE  OnDisk(m) = Entry(disk[s].st, disk[s].att, s) /\ OnDisk(m) # Absent
  <2> DEFINE t == CHOOSE t \in Slots : disk[t].id = m
  <2>1. t \in Slots /\ disk[t].id = m
    BY <1>1
  <2>2. t = s
    BY <1>1, <2>1 DEF SlotInv, PlaceInv, Holds
  <2>3. OnDisk(m) = Entry(disk[s].st, disk[s].att, s)
    BY <1>1, <2>2 DEF OnDisk
  <2>4. disk[s].st \in Live
    BY <1>1, NvsAssumption DEF SlotInv, PlaceInv, WellFormed, NoBlob
  <2> QED BY <2>3, <2>4 DEF Entry, Absent, Live
<1>2. ASSUME \A s \in Slots : disk[s].id # m PROVE OnDisk(m) = Absent
  BY <1>2 DEF OnDisk
<1> QED BY <1>1, <1>2

\* A message whose publish returned ESP_OK survives every reset, and every set,
\* erase or commit that reports an error, until it is delivered or dropped: for
\* any number of messages, slots, resets and failing calls.
THEOREM NvsDurable == Spec => []Durable
<1>1. TypeOK /\ SlotInv /\ SafeInv => Durable
  BY OnDiskIs DEF SafeInv, StoredInv, Durable
<1> QED BY <1>1, NvsInvariant, NvsSafety, PTL

\* No recovery finds a message whose erase was committed: not after a reset, a
\* failed call or the reuse of its slot.
THEOREM ClosedStaysClosed == Spec => []NoResurrection
<1>1. TypeOK /\ SlotInv /\ SafeInv => NoResurrection
  BY OnDiskIs DEF SafeInv, HistoryInv, Holds, NoResurrection
<1> QED BY <1>1, NvsInvariant, NvsSafety, PTL

\* Between operations the index is what a recovery would rebuild from NVS, as
\* long as no call failed.
THEOREM IndexIsWhatNvsHolds == Spec => []IndexMatchesDisk
<1>1. TypeOK /\ SlotInv /\ SafeInv => IndexMatchesDisk
  <2> SUFFICES ASSUME TypeOK, SlotInv, SafeInv, pc = "idle", Without(FaultKinds), NEW m \in Ids
               PROVE  index[m] = OnDisk(m)
    BY DEF IndexMatchesDisk
  <2>0. MirrorInv /\ ~Busy
    BY DEF SafeInv, Busy
  <2>1. CASE m \in Indexed
    <3> DEFINE s == index[m].slot
    <3>1. /\ s \in Slots /\ disk[s].id = m
          /\ disk[s].st = index[m].st /\ disk[s].att = index[m].att
      BY <2>0, <2>1, Fields DEF MirrorInv
    <3>2. OnDisk(m) = Entry(index[m].st, index[m].att, index[m].slot)
      BY <3>1, OnDiskIs
    <3> QED BY <3>2 DEF TypeOK, Entry
  <2>2. CASE m \notin Indexed
    <3>1. \A s \in Slots : disk[s].id # m
      BY <2>0, <2>2 DEF MirrorInv, InScope
    <3> QED BY <2>2, <3>1, OnDiskIs, IndexedIds
  <2> QED BY <2>1, <2>2
<1> QED BY <1>1, NvsInvariant, NvsSafety, PTL

\* Every attempt is committed before it is made, so no reset under-counts it,
\* and the attempts exceed retry_max_attempts by the number of resets at most,
\* whatever calls fail.
THEOREM AttemptsAreCounted == Spec => []AttemptsCounted
<1>1. TypeOK /\ SlotInv /\ SafeInv => AttemptsCounted
  <2> SUFFICES ASSUME TypeOK, SlotInv, SafeInv, NEW m \in Ids
               PROVE  /\ OnDisk(m) # Absent => started[m] <= OnDisk(m).att
                      /\ MaxAttempts # 0 => started[m] <= MaxAttempts + crashes
    BY DEF AttemptsCounted
  <2>1. OnDisk(m) # Absent => started[m] <= OnDisk(m).att
    <3> SUFFICES ASSUME OnDisk(m) # Absent PROVE started[m] <= OnDisk(m).att
      OBVIOUS
    <3>1. PICK s \in Slots : disk[s].id = m
      BY OnDiskIs
    <3>2. OnDisk(m).att = disk[s].att
      BY <3>1, OnDiskIs DEF Entry
    <3> QED BY <3>1, <3>2 DEF SafeInv, CountInv
  <2> QED BY <2>1 DEF SafeInv, LimitInv
<1> QED BY <1>1, NvsInvariant, NvsSafety, PTL

\* The message the worker holds is IN_FLIGHT, and with no call of NVS failing no
\* other message is.
THEOREM NvsInFlightIsHeld == Spec => []InFlightIsHeld
<1>1. TypeOK /\ SlotInv /\ SafeInv => InFlightIsHeld
  <2>1. SlotInv /\ pc = "idle" /\ held # NoHeld => held.id \in Ids /\ index[held.id].st = "IN_FLIGHT"
    BY DEF SlotInv, HeldInv, Busy
  <2>2. SafeInv /\ pc = "idle" /\ Without(FaultKinds) => InState("IN_FLIGHT") \subseteq {held.id}
    BY DEF SafeInv, ClaimedInv, Recovering, Busy, InState
  <2> QED BY <2>1, <2>2 DEF InFlightIsHeld
<1> QED BY <1>1, NvsInvariant, NvsSafety, PTL

-----------------------------------------------------------------------------
(* The storage contract.                                                    *)

Shut == {"closing", "closed"}
\* The state the contract sees of a message is that of its committed blob.
DurableStateInv ==
  \A m \in Ids :
    /\ \A s \in Slots : disk[s].id = m =>
         DurableState(m) = [st |-> disk[s].st, att |-> disk[s].att] /\ disk[s].st \in Live
    /\ (\A s \in Slots : disk[s].id # m) =>
         DurableState(m) = [st |-> IF fate[m] \in Shut THEN "gone" ELSE "absent", att |-> 0]

LEMMA DurableStateIs == TypeOK /\ SlotInv => DurableStateInv
<1> SUFFICES ASSUME TypeOK, SlotInv, NEW m \in Ids
             PROVE  /\ \A s \in Slots : disk[s].id = m =>
                         /\ DurableState(m) = [st |-> disk[s].st, att |-> disk[s].att]
                         /\ disk[s].st \in Live
                    /\ (\A s \in Slots : disk[s].id # m) =>
                         DurableState(m) =
                           [st |-> IF fate[m] \in Shut THEN "gone" ELSE "absent", att |-> 0]
  BY DEF DurableStateInv
<1>1. ASSUME NEW s \in Slots, disk[s].id = m
      PROVE  DurableState(m) = [st |-> disk[s].st, att |-> disk[s].att] /\ disk[s].st \in Live
  <2>1. OnDisk(m) # Absent /\ OnDisk(m).st = disk[s].st /\ OnDisk(m).att = disk[s].att
    BY <1>1, OnDiskIs DEF Entry
  <2>2. disk[s].st \in Live
    BY <1>1, NvsAssumption DEF SlotInv, PlaceInv, WellFormed, NoBlob
  <2> QED BY <2>1, <2>2 DEF DurableState
<1>2. ASSUME \A s \in Slots : disk[s].id # m
      PROVE  DurableState(m) = [st |-> IF fate[m] \in Shut THEN "gone" ELSE "absent", att |-> 0]
  BY <1>2, OnDiskIs DEF DurableState, Shut
<1> QED BY <1>1, <1>2

LEMMA DurableStateIsNext == TypeOK' /\ SlotInv' => DurableStateInv'
BY DurableStateIs, PTL

\* A step that commits nothing, and closes only what is still there.
LEMMA ContractStutters ==
  ASSUME DurableStateInv, DurableStateInv', UNCHANGED disk,
         \A n \in Ids : (fate'[n] \in Shut <=> fate[n] \in Shut) \/ \E s \in Slots : disk[s].id = n
  PROVE  DurableStates' = DurableStates
<1> SUFFICES ASSUME NEW n \in Ids PROVE DurableState(n)' = DurableState(n)
  BY DEF DurableStates
<1>1. CASE \E s \in Slots : disk[s].id = n
  BY <1>1 DEF DurableStateInv
<1>2. CASE \A s \in Slots : disk[s].id # n
  <2>1. fate'[n] \in Shut <=> fate[n] \in Shut
    BY <1>2
  <2>2. DurableState(n) = [st |-> IF fate[n] \in Shut THEN "gone" ELSE "absent", att |-> 0]
    BY <1>2 DEF DurableStateInv
  <2>3. DurableState(n)' = [st |-> IF fate'[n] \in Shut THEN "gone" ELSE "absent", att |-> 0]
    BY <1>2 DEF DurableStateInv
  <2> QED BY <2>1, <2>2, <2>3
<1> QED BY <1>1, <1>2

\* What is stored is what is indexed, outside recovery.
LEMMA StoredIsIndexed ==
  ASSUME TypeOK, SafeInv, DurableStateInv, Without(FaultKinds), Busy
  PROVE  Contract!Stored = Indexed
<1>0. MirrorInv
  BY DEF SafeInv
<1>1. \A n \in Ids : DurableStates[n] = DurableState(n)
  BY DEF DurableStates
<1>2. ASSUME NEW n \in Indexed PROVE n \in Contract!Stored
  <2>1. n \in Ids /\ index[n].slot \in Slots /\ disk[index[n].slot].id = n
    BY <1>0, IndexedIds, Fields DEF MirrorInv
  <2>2. DurableState(n).st \in Live
    BY <2>1 DEF DurableStateInv
  <2> QED BY <1>1, <2>1, <2>2 DEF Contract!Stored, Live
<1>3. ASSUME NEW n \in Ids, n \notin Indexed PROVE n \notin Contract!Stored
  <2>1. \A s \in Slots : disk[s].id # n
    BY <1>0, <1>3 DEF MirrorInv, InScope, Busy
  <2>2. DurableState(n).st \in {"absent", "gone"}
    BY <2>1 DEF DurableStateInv
  <2> QED BY <1>1, <2>2 DEF Contract!Stored
<1> QED BY <1>2, <1>3, IndexedIds DEF Contract!Stored

\* What was set becomes durable, by a commit or by a reset: one message moves,
\* by an operation of the contract.
LEMMA ContractMoves ==
  ASSUME TypeOK, SlotInv, SafeInv, DurableStateInv, DurableStateInv', Without(FaultKinds),
         pc = "commit", \A s \in Slots : disk'[s] = blob[s],
         \A n \in Ids : n # op.id => fate'[n] = fate[n],
         Erases(op.kind) => fate'[op.id] \in Shut
  PROVE  DurableStates' = DurableStates \/ Contract!Next
<1> DEFINE m == op.id
           b == disk[op.slot]
<1>0. MirrorInv /\ ProgressInv /\ Busy
  BY DEF SafeInv, Busy
<1>1. /\ m \in Ids /\ op.slot \in Slots /\ op.kind # "none"
      /\ \A s \in Slots : Holds(m, s) => s = op.slot
      /\ \A n \in Indexed : n # m => index[n].slot # op.slot
      /\ Erases(op.kind) => op.rec.id \notin Ids
      /\ ~Erases(op.kind) => op.rec.id = m
      /\ op.kind # "enqueue" => m \in Indexed /\ op.slot = index[m].slot
      /\ op.kind = "enqueue" => index[m] = Absent
      /\ blob[op.slot].id = op.rec.id
  BY <1>0, OpOwnsSlot
<1>2. /\ \A s \in Slots : s # op.slot => blob[s] = disk[s]
      /\ \A s \in Slots : disk[s].id \in Ids => disk[s].id \in Indexed
      /\ op.kind # "enqueue" => b.id = m /\ Before(op.kind, b, op.rec)
  BY <1>0, <1>1 DEF MirrorInv, InScope
<1>3. ASSUME NEW n \in Ids, n # m PROVE DurableState(n)' = DurableState(n)
  <2>1. \A s \in Slots : disk[s].id = n => s # op.slot
    <3> SUFFICES ASSUME NEW s \in Slots, disk[s].id = n PROVE s # op.slot
      OBVIOUS
    <3>1. n \in Indexed
      BY <1>2
    <3>2. index[n].slot = s
      BY <3>1 DEF SlotInv, IndexInv, Holds
    <3> QED BY <1>1, <1>3, <3>1, <3>2
  <2>2. \A s \in Slots : disk'[s].id = n => s # op.slot
    BY <1>1, <1>3
  <2>3. \A s \in Slots : s # op.slot => disk'[s] = disk[s]
    BY <1>2
  <2>4. CASE \E s \in Slots : disk[s].id = n
    <3>1. PICK s \in Slots : disk[s].id = n
      BY <2>4
    <3>2. disk'[s] = disk[s]
      BY <2>1, <2>3, <3>1
    <3> QED BY <3>1, <3>2 DEF DurableStateInv
  <2>5. CASE \A s \in Slots : disk[s].id # n
    <3>1. \A s \in Slots : disk'[s].id # n
      BY <2>2, <2>3, <2>5
    <3>2. fate'[n] = fate[n]
      BY <1>3
    <3> QED BY <2>5, <3>1, <3>2 DEF DurableStateInv
  <2> QED BY <2>4, <2>5
<1> DEFINE q == DurableStates[m]
           new == IF Erases(op.kind) THEN [st |-> "gone", att |-> 0]
                  ELSE [st |-> op.rec.st, att |-> op.rec.att]
<1>4. q = IF op.kind = "enqueue" THEN [st |-> "absent", att |-> 0] ELSE [st |-> b.st, att |-> b.att]
  <2>1. q = DurableState(m)
    BY <1>1 DEF DurableStates
  <2>2. CASE op.kind = "enqueue"
    <3>1. \A s \in Slots : disk[s].id # m
      BY <1>1, <1>2, <2>2, IndexedIds
    <3>2. fate[m] = "offered"
      BY <1>0, <2>2 DEF ProgressInv
    <3> QED BY <1>1, <2>1, <2>2, <3>1, <3>2 DEF DurableStateInv, Shut
  <2>3. CASE op.kind # "enqueue"
    BY <1>1, <1>2, <2>1, <2>3 DEF DurableStateInv
  <2> QED BY <2>2, <2>3
<1>5. ASSUME NEW k \in Ids, k = m PROVE DurableState(k)' = new
  <2>1. CASE Erases(op.kind)
    <3>1. \A s \in Slots : disk'[s].id # k
      BY <1>1, <1>5, <2>1 DEF Holds
    <3> QED BY <1>5, <2>1, <3>1 DEF DurableStateInv
  <2>2. CASE ~Erases(op.kind)
    <3>1. /\ disk'[op.slot].id = k /\ disk'[op.slot].st = op.rec.st
          /\ disk'[op.slot].att = op.rec.att
      BY <1>0, <1>1, <1>5, <2>2 DEF ProgressInv
    <3> QED BY <1>1, <1>5, <2>2, <3>1 DEF DurableStateInv
  <2> QED BY <2>1, <2>2
<1>6. DurableStates' = [DurableStates EXCEPT ![m] = new]
  <2>1. DurableStates' = [n \in Ids |-> DurableState(n)']
    BY DEF DurableStates
  <2>2. \A n \in Ids : DurableState(n)' = IF n = m THEN new ELSE DurableState(n)
    BY <1>3, <1>5
  <2>3. DurableStates = [n \in Ids |-> DurableState(n)]
    BY DEF DurableStates
  <2> HIDE DEF m, new
  <2> QED BY <2>1, <2>2, <2>3
<1>7. Contract!Accept(m) \/ Contract!Claim(m) \/ Contract!PutBack(m) \/ Contract!DeadLetter(m)
      \/ Contract!Close(m)
  <2> USE DEF Contract!Become, Contract!Message, Contract!NotStored, Contract!Gone
  <2>1. CASE op.kind = "enqueue"
    <3>0. Contract!Cardinality(Indexed) = Cardinality(Indexed)
      BY DEF Contract!Cardinality, Cardinality
    <3>1. Contract!Cardinality(Contract!Stored) < MaxMessages
      BY <1>0, <2>1, <3>0, StoredIsIndexed DEF ProgressInv
    <3>2. new = [st |-> "PENDING", att |-> 0]
      BY <1>0, <2>1 DEF ProgressInv, Erases, StateWritten
    <3>3. DurableStates[m] = [st |-> "absent", att |-> 0]
      BY <1>4, <2>1
    <3>4. DurableStates' = [DurableStates EXCEPT ![m] = [st |-> "PENDING", att |-> 0]]
      BY <1>6, <3>2
    <3> HIDE DEF m
    <3> QED BY <3>1, <3>3, <3>4 DEF Contract!Accept
  <2>2. CASE op.kind = "claim"
    <3>1. q.st = "PENDING" /\ new = [st |-> "IN_FLIGHT", att |-> q.att + 1]
      BY <1>0, <1>2, <1>4, <2>2 DEF ProgressInv, Erases, StateWritten, Before
    <3> QED BY <1>6, <3>1 DEF Contract!Claim
  <2>3. CASE op.kind \in {"retry", "requeue"}
    <3>1. q.st = "IN_FLIGHT" /\ new = [st |-> "PENDING", att |-> q.att]
      BY <1>0, <1>2, <1>4, <2>3 DEF ProgressInv, Erases, StateWritten, Before
    <3> QED BY <1>6, <3>1 DEF Contract!PutBack
  <2>4. CASE op.kind = "dead"
    <3>1. q.st = "IN_FLIGHT" /\ new = [st |-> "DEAD_LETTER", att |-> q.att]
      BY <1>0, <1>2, <1>4, <2>4 DEF ProgressInv, Erases, StateWritten, Before
    <3> QED BY <1>6, <3>1 DEF Contract!DeadLetter
  <2>5. CASE Erases(op.kind)
    <3>1. q.st \in {"IN_FLIGHT", "PENDING"} /\ new = [st |-> "gone", att |-> 0]
      BY <1>2, <1>4, <2>5 DEF Erases, Before
    <3> QED BY <1>6, <3>1 DEF Contract!Close
  <2> QED BY <1>1, <2>1, <2>2, <2>3, <2>4, <2>5 DEF TypeOK, Kinds, Erases
<1>8. CASE DurableStates'[m] # DurableStates[m]
  BY <1>1, <1>7, <1>8 DEF Contract!Next
<1>9. CASE DurableStates'[m] = DurableStates[m]
  <2>1. new = q
    BY <1>1, <1>6, <1>9 DEF DurableStates
  <2> HIDE DEF m, new
  <2> QED BY <1>6, <2>1 DEF DurableStates
<1> QED BY <1>8, <1>9

\* For as long as no call of NVS fails, every step of the backend is a step of
\* the contract or none.
LEMMA ContractStep ==
  ASSUME TypeOK, TypeOK', SlotInv, SlotInv', SafeInv, [Next]_vars, Without(FaultKinds)'
  PROVE  DurableStates' = DurableStates \/ Contract!Next
<1> USE DEF nvs, ctx, history
<1>0. DurableStateInv /\ DurableStateInv'
  BY DurableStateIs, DurableStateIsNext
<1>1. Without(FaultKinds) /\ faults'["io"] = 0 /\ faults'["rot"] = 0 /\ faults["rot"] = 0
  <2>1. Without(FaultKinds)
    BY FaultsGrow, CleanBefore
  <2> QED BY <2>1 DEF Without, FaultKinds
<1>2. \A n \in Indexed : \E s \in Slots : disk[s].id = n
  BY <1>1, Fields, IndexedIds DEF SafeInv, MirrorInv
<1>3. \A s \in Slots : Verified(s) # "CORRUPT"
  BY <1>1 DEF SafeInv, IntactInv, Verified
<1>4. CASE UNCHANGED <<disk, fate>>
  BY <1>0, <1>4, ContractStutters
<1>5. CASE Recovery
  <2>1. Boot \/ ScanEnd \/ Recovered => UNCHANGED <<disk, fate>>
    BY DEF Boot, ScanEnd, Recovered
  <2>2. ScanSlot => UNCHANGED <<disk, fate>>
    BY <1>3 DEF ScanSlot
  <2>3. \A m \in Ids : Requeue(m) => UNCHANGED <<disk, fate>>
    BY DEF Requeue
  <2> QED BY <1>4, <1>5, <2>1, <2>2, <2>3 DEF Recovery
<1>6. CASE Write \/ PollIdle \/ UNCHANGED vars
  BY <1>4, <1>6 DEF Write, PollIdle, vars
<1>7. CASE KeyMissing
  <2>1. UNCHANGED disk /\ Fail /\ Busy
    BY <1>7 DEF KeyMissing, Busy
  <2>2. \A n \in Ids : fate'[n] = fate[n] \/ (n = op.id /\ op.kind = "enqueue" /\ fate'[n] = "refused")
    BY <2>1 DEF Fail, Return, TypeOK
  <2>3. op.kind = "enqueue" => fate[op.id] = "offered"
    BY <2>1 DEF SafeInv, ProgressInv
  <2> QED BY <1>0, <2>1, <2>2, <2>3, ContractStutters DEF Shut
<1>8. CASE Commit
  <2>1. /\ pc = "commit" /\ disk' = blob /\ \A n \in Ids : n # op.id => fate'[n] = fate[n]
        /\ Erases(op.kind) => fate'[op.id] = "closed"
    BY <1>8, CommitEffect DEF Erases
  <2> QED BY <1>0, <1>1, <2>1, ContractMoves DEF Shut
<1>9. CASE CallFails \/ Rot
  <2>1. faults'["io"] # 0 \/ faults'["rot"] # 0
    BY <1>9, FaultCounted DEF CallFails, Rot, FaultKinds
  <2> QED BY <1>1, <2>1
<1>10. CASE Publisher
  <2>1. ASSUME NEW m \in Ids, Enqueue(m) \/ EnqueueFull(m)
        PROVE  DurableStates' = DurableStates
    <3>1. UNCHANGED disk /\ fate[m] = "fresh" /\ fate'[m] \in {"offered", "refused"}
          /\ \A n \in Ids : n # m => fate'[n] = fate[n]
      BY <2>1 DEF Enqueue, EnqueueFull, TypeOK
    <3> QED BY <1>0, <3>1, ContractStutters DEF Shut
  <2>2. ASSUME NEW m \in Ids, Remove(m)
        PROVE  DurableStates' = DurableStates
    <3>1. UNCHANGED disk /\ \A n \in Ids : n # m => fate'[n] = fate[n]
      BY <2>2 DEF Remove, TypeOK
    <3>2. \E s \in Slots : disk[s].id = m
      BY <1>2, <2>2, LiveIndexed DEF Remove, Live
    <3> QED BY <1>0, <3>1, <3>2, ContractStutters
  <2> QED BY <1>10, <2>1, <2>2 DEF Publisher
<1>11. CASE Worker
  <2>1. CASE MarkDelivered
    <3>1. UNCHANGED disk /\ \A n \in Ids : n # held.id => fate'[n] = fate[n]
      BY <2>1 DEF MarkDelivered, TypeOK
    <3>2. held.id \in Indexed
      BY <2>1, LiveIndexed DEF MarkDelivered, SlotInv, HeldInv, Busy, Live
    <3>3. \E s \in Slots : disk[s].id = held.id
      BY <1>2, <3>2
    <3> QED BY <1>0, <3>1, <3>3, ContractStutters
  <2>2. CASE ScheduleRetry \/ \E m \in Ids : Claim(m)
    BY <1>4, <2>2 DEF ScheduleRetry, Claim
  <2> QED BY <1>11, <2>1, <2>2 DEF Worker
<1>12. CASE ReadTrouble
  <2>1. \A m \in Ids : ClaimError(m) => UNCHANGED <<disk, fate>>
    BY DEF ClaimError
  <2>2. \A m \in Ids : ~ClaimCorrupt(m)
    BY <1>3, Fields DEF ClaimCorrupt
  <2> QED BY <1>4, <1>12, <2>1, <2>2 DEF ReadTrouble
<1>13. CASE PowerLoss
  <2>1. PICK kept \in SUBSET {s \in Slots : blob[s] # disk[s]} :
          disk' = [s \in Slots |-> IF s \in kept THEN blob[s] ELSE disk[s]]
    BY <1>13 DEF PowerLoss
  <2>2. UNCHANGED fate
    BY <1>13 DEF PowerLoss
  <2>3. \A s \in Slots : ~(pc = "commit" /\ s = op.slot) => blob[s] = disk[s]
    BY <1>1 DEF SafeInv, MirrorInv
  <2>4. CASE kept = {}
    <3>1. disk' = disk
      BY <2>1, <2>4 DEF TypeOK
    <3> QED BY <1>4, <2>2, <3>1
  <2>5. CASE kept # {}
    <3>1. pc = "commit" /\ op.slot \in kept
      BY <2>3, <2>5
    <3>2. \A s \in Slots : disk'[s] = blob[s]
      BY <2>1, <2>3, <3>1
    <3>3. Erases(op.kind) => fate[op.id] \in Shut
      BY <3>1 DEF SafeInv, ProgressInv, Busy, Shut
    <3> QED BY <1>0, <1>1, <2>2, <3>1, <3>2, <3>3, ContractMoves
  <2> QED BY <2>4, <2>5
<1> QED BY <1>5, <1>6, <1>7, <1>8, <1>9, <1>10, <1>11, <1>12, <1>13 DEF Next, Calls

\* The backend implements the storage contract for as long as no call of NVS
\* fails, through resets at any point: a commit, or the reset that decides what
\* an interrupted write left, is one operation of the contract on one message.
THEOREM NvsKeepsContract == Spec => KeepsContract
<1>1. Init => Contract!Init
  <2> SUFFICES ASSUME Init, NEW m \in Ids PROVE DurableState(m) = Contract!NotStored
    BY DEF Contract!Init, DurableStates
  <2>1. TypeOK /\ SlotInv /\ \A s \in Slots : disk[s].id # m
    BY TypeInit, SlotInit, NvsAssumption DEF Init, NoBlob
  <2>2. fate[m] = "fresh"
    BY DEF Init
  <2> QED BY <2>1, <2>2, DurableStateIs
          DEF DurableStateInv, Contract!NotStored, Contract!Message, Shut
<1>2. TypeOK /\ TypeOK' /\ SlotInv /\ SlotInv' /\ SafeInv /\ [Next]_vars
        => [Without(FaultKinds)' => Contract!Next]_DurableStates
  BY ContractStep
<1> QED BY <1>1, <1>2, NvsInvariant, NvsSafety, PTL DEF Spec, KeepsContract
=============================================================================
