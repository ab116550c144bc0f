------------------------- MODULE FlashQueueProofs ---------------------------
(***************************************************************************)
(* The flash-queue backend: its types, what no flash fault can break, and  *)
(* what a scan makes of a log.  Everything here holds for every number and *)
(* size of messages, every capacity, every kind of fault and any number of *)
(* power losses.                                                           *)
(***************************************************************************)
EXTENDS FlashQueue, WellFoundedInduction, FiniteSetTheorems, TLAPS

-----------------------------------------------------------------------------
(* What the helpers return.                                                *)

\* Whatever region recovery chooses is one of those it chooses from.
LEMMA BestIn ==
  ASSUME hdr \in [Regions -> [status : Status, gen : Nat]],
         NEW S \in SUBSET Regions, S # {}
  PROVE  Best(S) \in S
<1> DEFINE Wins(r) == \A s \in S : \/ hdr[r].gen > hdr[s].gen
                                   \/ (hdr[r].gen = hdr[s].gen /\ r <= s)
<1>0. /\ hdr[0].gen \in Nat /\ hdr[1].gen \in Nat
      /\ \A r \in S : r = 0 \/ r = 1
  BY DEF Regions
<1>1. \E r \in S : Wins(r)
  <2>1. CASE 1 \notin S
    <3>1. 0 \in S /\ \A s \in S : s = 0
      BY <1>0, <2>1
    <3> QED BY <1>0, <3>1
  <2>2. CASE 0 \notin S
    <3>1. 1 \in S /\ \A s \in S : s = 1
      BY <1>0, <2>2
    <3> QED BY <1>0, <3>1
  <2>3. CASE 0 \in S /\ 1 \in S
    <3>1. CASE hdr[1].gen > hdr[0].gen
      <4>1. Wins(1) BY <1>0, <3>1
      <4> QED BY <4>1, <2>3
    <3>2. CASE ~(hdr[1].gen > hdr[0].gen)
      <4>1. Wins(0) BY <1>0, <3>2
      <4> QED BY <4>1, <2>3
    <3> QED BY <3>1, <3>2
  <2> QED BY <2>1, <2>2, <2>3
<1> QED BY <1>1 DEF Best

\* A record takes a natural number of units.
LEMMA SizeNat == \A rec \in Cells : Size(rec) \in Nat
BY SizeAssumption DEF Cells, Size

\* The records the operations write are well formed.
LEMMA RecordsFormed ==
  ASSUME NEW m \in Ids, NEW st \in States \cup {"NONE"}, NEW att \in Nat,
         NEW body \in Ids \cup {NoId}
  PROVE  Message(m, st, att, body) \in Cells /\ Update(m, st, att) \in Cells
BY DEF Message, Update, Cells, Units, UnitTypes, RecordTypes

\* Blank, continuation, junk and END units are well formed.
LEMMA PlainUnits ==
  \A t \in UnitTypes \ {"MESSAGE"} : Unit(t) \in Cells
BY DEF Unit, Cells, Units

\* What a record makes of an entry of the index is an entry, or no entry
\* once the message is DELIVERED or REMOVED (index_apply).
LEMMA EntryType ==
  ASSUME NEW st \in States \cup {"NONE"}, NEW att \in Nat, NEW off \in Nat
  PROVE  EntryOf(st, att, off) \in Entries
BY DEF EntryOf, Entries, Absent, Closes, States

-----------------------------------------------------------------------------
(* Types of the flash, of an operation's locals, and of what it returns.   *)

FlashOK(h, c) ==
  /\ h \in [Regions -> [status : Status, gen : Nat]]
  /\ c \in [Regions -> [Offsets -> Cells]]

\* Every way of writing or erasing a region leaves well-formed units.
LEMMA CellUpdates ==
  ASSUME cell \in [Regions -> [Offsets -> Cells]], NEW r \in Regions,
         NEW o, NEW k, NEW rec \in Cells
  PROVE  /\ Written(r, o, rec) \in [Regions -> [Offsets -> Cells]]
         /\ TornAt(r, o, k) \in [Regions -> [Offsets -> Cells]]
         /\ Smeared(r, o, rec) \in [Regions -> [Offsets -> Cells]]
         /\ ErasedCells(r) \in [Regions -> [Offsets -> Cells]]
         /\ PartlyErased(r, k) \in [Regions -> [Offsets -> Cells]]
<1>1. Blank \in Cells /\ Cont \in Cells /\ Junk \in Cells /\ Unit("TORN") \in Cells
  BY PlainUnits DEF Blank, Cont, Junk, UnitTypes
<1>2. Written(r, o, rec) \in [Regions -> [Offsets -> Cells]]
  BY <1>1 DEF Written
<1>3. TornAt(r, o, k) \in [Regions -> [Offsets -> Cells]]
  BY <1>1 DEF TornAt
<1>4. Smeared(r, o, rec) \in [Regions -> [Offsets -> Cells]]
  BY <1>1 DEF Smeared
<1>5. ErasedCells(r) \in [Regions -> [Offsets -> Cells]]
  BY <1>1 DEF ErasedCells
<1>6. PartlyErased(r, k) \in [Regions -> [Offsets -> Cells]]
  BY <1>1 DEF PartlyErased
<1> QED BY <1>2, <1>3, <1>4, <1>5, <1>6

\* ensure_region_erased leaves well-formed flash, whether it erases or not.
LEMMA EraseTypes ==
  ASSUME TypeOK, NEW r \in Regions, EnsureErased(r)
  PROVE  FlashOK(hdr', cell')
<1>1. Blank \in Cells
  BY PlainUnits DEF Blank, UnitTypes
<1>2. Empty \in [status : Status, gen : Nat]
  BY DEF Empty, Status
<1>3. ErasedCells(r) \in [Regions -> [Offsets -> Cells]]
  BY <1>1, CellUpdates DEF TypeOK
<1>4. CASE hdr[r].status = "EMPTY"
  BY <1>4 DEF EnsureErased, FlashOK, TypeOK, flash
<1>5. CASE hdr[r].status # "EMPTY"
  BY <1>2, <1>3, <1>5 DEF EnsureErased, FlashOK, TypeOK
<1> QED BY <1>4, <1>5

\* ensure_space_locked sends every operation to the append or to a
\* compaction.
LEMMA BeginTypes ==
  ASSUME NEW kind \in Kinds, NEW rec \in Cells, NEW body \in Ids \cup {NoId},
         Begin(kind, rec, body)
  PROVE  /\ op' \in [kind : Kinds, rec : Cells, body : Ids \cup {NoId}]
         /\ pc' \in Pcs
BY DEF Begin, Pcs

\* The locals of an operation when there is none.
LEMMA NoOpType == NoOp \in [kind : Kinds, rec : Cells, body : Ids \cup {NoId}]
BY PlainUnits DEF NoOp, Kinds, Blank, UnitTypes

\* What an error return leaves in RAM and in the history.
LEMMA AbandonTypes ==
  ASSUME TypeOK, Abandon
  PROVE  /\ op' \in [kind : Kinds, rec : Cells, body : Ids \cup {NoId}]
         /\ pc' \in Pcs /\ todo' \subseteq Ids /\ ncur' \in Nat
         /\ active' \in Regions /\ cursor' \in Nat /\ churn' \in Nat
         /\ index' \in [Ids -> Entries]
         /\ held' \in [id : Ids \cup {NoId}, body : Ids \cup {NoId}]
         /\ fate' \in [Ids -> Fates] /\ started' \in [Ids -> Nat]
<1>1. fate' \in [Ids -> Fates]
  BY DEF Abandon, TypeOK, Fates
<1>2. held' \in [id : Ids \cup {NoId}, body : Ids \cup {NoId}]
  BY DEF Abandon, TypeOK, NoHeld
<1> QED BY <1>1, <1>2, NoOpType DEF Abandon, TypeOK, ctx, Pcs

\* What a reset leaves in RAM.
LEMMA ResetTypes ==
  ASSUME TypeOK, ResetRam
  PROVE  /\ op' \in [kind : Kinds, rec : Cells, body : Ids \cup {NoId}]
         /\ todo' \subseteq Ids /\ ncur' \in Nat
         /\ active' \in Regions /\ cursor' \in Nat /\ churn' \in Nat
         /\ index' \in [Ids -> Entries]
         /\ held' \in [id : Ids \cup {NoId}, body : Ids \cup {NoId}]
BY NoOpType DEF ResetRam, NoHeld, Absent, Entries, Regions

-----------------------------------------------------------------------------
(* Type correctness.                                                       *)

\* A blank partition and a device that is off have the types.
LEMMA TypeInit == Init => TypeOK
<1> SUFFICES ASSUME Init PROVE TypeOK
  OBVIOUS
<1>1. Blank \in Cells
  BY PlainUnits DEF Blank, UnitTypes
<1>2. hdr \in [Regions -> [status : Status, gen : Nat]]
  BY DEF Init, Empty, Status
<1>3. cell \in [Regions -> [Offsets -> Cells]]
  BY <1>1 DEF Init
<1>4. index \in [Ids -> Entries] /\ held \in [id : Ids \cup {NoId}, body : Ids \cup {NoId}]
  BY DEF Init, Absent, Entries, NoHeld
<1>5. fate \in [Ids -> Fates] /\ started \in [Ids -> Nat]
  BY DEF Init, Fates
<1>6. crashes \in 0 .. MaxCrashes /\ faults \in 0 .. MaxFaults
  BY BoundAssumption DEF Init
<1> QED BY <1>2, <1>3, <1>4, <1>5, <1>6, NoOpType DEF Init, TypeOK, Pcs, Regions

\* A flash fault is taken from a budget that is not used up.
LEMMA FaultType ==
  ASSUME faults \in 0 .. MaxFaults, NEW kind, Fault(kind)
  PROVE  faults' \in 0 .. MaxFaults
BY BoundAssumption DEF Fault

\* op_recover, its scan and its requeueing keep the types.
LEMMA RecoveryType == TypeOK /\ Recovery => TypeOK'
<1> SUFFICES ASSUME TypeOK, Recovery PROVE TypeOK'
  OBVIOUS
<1> USE DEF flash, ctx, history, budget
<1>1. CASE Boot
  <2>1. PICK unread \in SUBSET Regions :
          /\ \/ unread = {} /\ UNCHANGED faults
             \/ unread # {} /\ Fault("read")
          /\ LET found == ActiveRegions \ unread IN
               IF found = {} THEN pc' = "f_erase0" /\ UNCHANGED active
               ELSE pc' = "b_erase" /\ active' = Best(found)
    BY <1>1 DEF Boot
  <2>2. faults' \in 0 .. MaxFaults
    BY <2>1, FaultType DEF TypeOK
  <2>3. active' \in Regions /\ pc' \in Pcs
    <3>1. CASE ActiveRegions \ unread = {}
      BY <2>1, <3>1 DEF TypeOK, Pcs
    <3>2. CASE ActiveRegions \ unread # {}
      <4>1. ActiveRegions \ unread \in SUBSET Regions
        BY DEF ActiveRegions
      <4>2. hdr \in [Regions -> [status : Status, gen : Nat]]
        BY DEF TypeOK
      <4>3. Best(ActiveRegions \ unread) \in Regions
        BY <3>2, <4>1, <4>2, BestIn
      <4> QED BY <2>1, <3>2, <4>3 DEF Pcs
    <3> QED BY <3>1, <3>2
  <2> QED BY <1>1, <2>2, <2>3 DEF Boot, TypeOK
<1>2. CASE Format
  <2>1. ASSUME NEW r \in {0, 1}, NEW at, NEW then \in Pcs, FormatErase(r, at, then)
        PROVE  TypeOK'
    <3>1. ErasedCells(r) \in [Regions -> [Offsets -> Cells]]
      BY PlainUnits, CellUpdates, NoOpType, <2>1 DEF TypeOK, Regions, Blank, UnitTypes
    <3>2. hdr' \in [Regions -> [status : Status, gen : Nat]]
      BY <2>1 DEF FormatErase, TypeOK, Empty, Status
    <3> QED BY <2>1, <3>1, <3>2 DEF FormatErase, TypeOK
  <2>2. CASE FormatHeader
    <3>1. hdr' \in [Regions -> [status : Status, gen : Nat]]
      BY <2>2 DEF FormatHeader, TypeOK, Status
    <3> QED BY <2>2, <3>1 DEF FormatHeader, TypeOK, Pcs
  <2> QED BY <1>2, <2>1, <2>2 DEF Format, Pcs
<1>3. CASE EraseSpare
  <2>1. 1 - active \in Regions
    BY DEF TypeOK, Regions
  <2>2. FlashOK(hdr', cell')
    BY <1>3, <2>1, EraseTypes DEF EraseSpare
  <2> QED BY <1>3, <2>2 DEF EraseSpare, TypeOK, FlashOK, Pcs
<1>4. CASE ScanRecord
  <2> DEFINE rec == cell[active][cursor]
  <2>1. rec \in Cells
    BY <1>4, SizeAssumption DEF ScanRecord, TypeOK, Offsets
  <2>2. Size(rec) \in Nat
    BY <2>1, SizeNat
  <2>3. cursor' \in Nat
    BY <1>4, <2>2 DEF ScanRecord, TypeOK
  <2>4. rec.st \in States \cup {"NONE"} /\ rec.att \in Nat
    BY <2>1 DEF Cells, Units
  <2>5. \A off \in Nat : EntryOf(rec.st, rec.att, off) \in Entries
    BY <2>4, EntryType
  <2>6. \A m \in Ids : index[m].off \in Nat
    BY DEF TypeOK, Entries
  <2>7. index' \in [Ids -> Entries]
    <3>1. CASE rec.t = "MESSAGE" /\ Cardinality(Indexed) < MaxMessages
      <4>1. index' = [index EXCEPT ![rec.id] = EntryOf(rec.st, rec.att, cursor)]
        BY <1>4, <3>1 DEF ScanRecord
      <4> QED BY <2>5, <4>1 DEF TypeOK
    <3>2. CASE rec.t = "UPDATE" /\ rec.id \in Indexed
      <4>1. index' = [index EXCEPT ![rec.id] = EntryOf(rec.st, rec.att, @.off)]
        BY <1>4, <3>2 DEF ScanRecord
      <4>2. EntryOf(rec.st, rec.att, index[rec.id].off) \in Entries
        BY <2>5, <2>6, <3>2 DEF Indexed
      <4> QED BY <4>1, <4>2 DEF TypeOK
    <3>3. CASE /\ ~(rec.t = "MESSAGE" /\ Cardinality(Indexed) < MaxMessages)
               /\ ~(rec.t = "UPDATE" /\ rec.id \in Indexed)
      BY <1>4, <3>3 DEF ScanRecord, TypeOK
    <3> QED BY <3>1, <3>2, <3>3
  <2> QED BY <1>4, <2>3, <2>7 DEF ScanRecord, TypeOK
<1>5. CASE ScanEnd
  <2>1. faults' \in 0 .. MaxFaults
    BY <1>5, FaultType DEF ScanEnd, TypeOK
  <2> QED BY <1>5, <2>1 DEF ScanEnd, TypeOK, Pcs
<1>6. CASE Recovered
  BY <1>6 DEF Recovered, TypeOK, Pcs
<1>7. ASSUME NEW m \in Ids, Requeue(m) PROVE TypeOK'
  <2>1. index[m].att \in Nat
    BY DEF TypeOK, Entries
  <2>2. Update(m, "PENDING", index[m].att) \in Cells
    BY <2>1, RecordsFormed DEF States
  <2>3. /\ op' \in [kind : Kinds, rec : Cells, body : Ids \cup {NoId}]
        /\ pc' \in Pcs
    BY <1>7, <2>2, BeginTypes DEF Requeue, Kinds
  <2> QED BY <1>7, <2>3 DEF Requeue, TypeOK
<1> QED BY <1>1, <1>2, <1>3, <1>4, <1>5, <1>6, <1>7 DEF Recovery

\* The payload read at an offset of the index is that of a message or of
\* no message.
LEMMA BytesType ==
  ASSUME TypeOK, NEW o, NEW m
  PROVE  BytesAt(o, m) \in Ids \cup {NoId}
<1>1. CASE o \in Offsets
  BY <1>1 DEF BytesAt, TypeOK, Cells, Units
<1>2. CASE o \notin Offsets
  BY <1>2 DEF BytesAt
<1> QED BY <1>1, <1>2

\* The record that compaction writes for a message is well formed.
LEMMA CopyType ==
  ASSUME TypeOK, NEW m \in Ids
  PROVE  Copy(m) \in Cells
<1>1. index[m].st \in States \cup {"NONE"} /\ index[m].att \in Nat /\ index[m].off \in Nat
  BY DEF TypeOK, Entries, States
<1>2. BytesAt(index[m].off, m) \in Ids \cup {NoId}
  BY BytesType
<1> QED BY <1>1, <1>2, RecordsFormed DEF Copy

\* compact_locked keeps the types at each of its flash writes.
LEMMA CompactionType == TypeOK /\ Compaction => TypeOK'
<1> SUFFICES ASSUME TypeOK, Compaction PROVE TypeOK'
  OBVIOUS
<1> USE DEF flash, ctx, history, budget
<1>0. target \in Regions
  BY DEF TypeOK, Regions, target
<1>1. CASE CompactErase
  <2>1. FlashOK(hdr', cell')
    BY <1>0, <1>1, EraseTypes DEF CompactErase
  <2> QED BY <1>1, <2>1 DEF CompactErase, TypeOK, FlashOK, Pcs
<1>2. CASE CompactHeader
  <2>1. hdr[active].gen + 1 \in Nat
    BY DEF TypeOK
  <2>2. hdr' \in [Regions -> [status : Status, gen : Nat]]
    BY <1>2, <2>1 DEF CompactHeader, TypeOK, Status
  <2>3. Indexed \subseteq Ids
    BY DEF Indexed
  <2> QED BY <1>2, <2>2, <2>3 DEF CompactHeader, TypeOK, Pcs
<1>3. CASE CompactEnd
  <2>1. End \in Cells
    BY PlainUnits DEF End, UnitTypes, RecordTypes
  <2>2. Written(target, ncur, End) \in [Regions -> [Offsets -> Cells]]
    BY <1>0, <2>1, CellUpdates DEF TypeOK
  <2> QED BY <1>3, <2>2, SizeAssumption DEF CompactEnd, TypeOK, Pcs
<1>4. CASE CopyRefused
  BY <1>4, AbandonTypes DEF CopyRefused, TypeOK
<1>5. CASE CompactFlip
  <2>1. hdr' \in [Regions -> [status : Status, gen : Nat]]
    BY <1>5 DEF CompactFlip, TypeOK, Status
  <2> QED BY <1>5, <2>1 DEF CompactFlip, TypeOK, Pcs
<1>6. CASE CompactStale
  <2>1. hdr' \in [Regions -> [status : Status, gen : Nat]]
    BY <1>6 DEF CompactStale, TypeOK, Status
  <2> QED BY <1>6, <2>1 DEF CompactStale, TypeOK, Pcs
<1>7. CASE CompactReclaim
  <2>1. FlashOK(hdr', cell')
    BY <1>7, EraseTypes DEF CompactReclaim, TypeOK
  <2> QED BY <1>0, <1>7, <2>1 DEF CompactReclaim, SwitchRegion, TypeOK, FlashOK, Pcs
<1>8. CASE Horizon
  BY <1>8 DEF Horizon, vars, TypeOK
<1>9. ASSUME NEW m \in Ids, CompactCopy(m) PROVE TypeOK'
  <2>1. cell' \in [Regions -> [Offsets -> Cells]]
    <3>1. Written(target, ncur, Copy(m)) \in [Regions -> [Offsets -> Cells]]
      BY <1>0, CopyType, CellUpdates DEF TypeOK
    <3> QED BY <1>9, <3>1 DEF CompactCopy
  <2>2. index' \in [Ids -> Entries]
    BY <1>9 DEF CompactCopy, TypeOK, Entries
  <2>3. ncur' \in Nat
    <3>1. MsgSize[m] \in Nat /\ ncur \in Nat
      BY SizeAssumption DEF TypeOK
    <3> QED BY <1>9, <3>1 DEF CompactCopy
  <2> QED BY <1>9, <2>1, <2>2, <2>3 DEF CompactCopy, TypeOK
<1> QED BY <1>1, <1>2, <1>3, <1>4, <1>5, <1>6, <1>7, <1>8, <1>9 DEF Compaction

\* The index stays one after a record is applied to it.
LEMMA AppliedType ==
  ASSUME TypeOK, op.rec.st \in States \cup {"NONE"}, op.rec.att \in Nat
  PROVE  Applied \in [Ids -> Entries]
<1>1. CASE op.rec.id \in Ids
  <2> DEFINE off == IF op.kind = "enqueue" THEN cursor ELSE index[op.rec.id].off
  <2>1. off \in Nat
    BY <1>1 DEF TypeOK, Entries
  <2>2. EntryOf(op.rec.st, op.rec.att, off) \in Entries
    BY <2>1, EntryType
  <2>3. Applied = [index EXCEPT ![op.rec.id] = EntryOf(op.rec.st, op.rec.att, off)]
    BY DEF Applied
  <2> QED BY <2>2, <2>3 DEF TypeOK
<1>2. CASE op.rec.id \notin Ids
  BY <1>2 DEF Applied, TypeOK
<1> QED BY <1>1, <1>2

\* append_record_locked keeps the types, whether it writes, finds no room or
\* is refused by the flash.
LEMMA AppendType == TypeOK /\ Append => TypeOK'
<1> SUFFICES ASSUME TypeOK, Append PROVE TypeOK'
  OBVIOUS
<1> USE DEF flash, ctx, history, budget
<1>0. /\ op.rec \in Cells /\ Size(op.rec) \in Nat
      /\ op.rec.st \in States \cup {"NONE"} /\ op.rec.att \in Nat
      /\ op.rec.id \in Ids \cup {NoId} /\ op.body \in Ids \cup {NoId}
  BY SizeNat DEF TypeOK, Cells, Units
<1>1. CASE DoAppend
  <2>1. cell' \in [Regions -> [Offsets -> Cells]]
    <3>1. Written(active, cursor, op.rec) \in [Regions -> [Offsets -> Cells]]
      BY <1>0, CellUpdates DEF TypeOK
    <3> QED BY <1>1, <3>1 DEF DoAppend
  <2>2. cursor' \in Nat /\ churn' \in Nat
    BY <1>0, <1>1 DEF DoAppend, TypeOK
  <2>3. index' \in [Ids -> Entries]
    BY <1>0, <1>1, AppliedType DEF DoAppend
  <2>4. held' \in [id : Ids \cup {NoId}, body : Ids \cup {NoId}]
    BY <1>0, <1>1 DEF DoAppend, TypeOK, NoHeld
  <2>5. fate' \in [Ids -> Fates]
    BY <1>1 DEF DoAppend, TypeOK, Fates
  <2>6. started' \in [Ids -> Nat]
    <3>1. CASE op.kind = "claim"
      <4>1. started' = [started EXCEPT ![op.rec.id] = @ + 1]
        BY <1>1, <3>1 DEF DoAppend
      <4>2. op.rec.id \in Ids => started[op.rec.id] + 1 \in Nat
        BY DEF TypeOK
      <4> QED BY <4>1, <4>2 DEF TypeOK
    <3>2. CASE op.kind # "claim"
      BY <1>1, <3>2 DEF DoAppend, TypeOK
    <3> QED BY <3>1, <3>2
  <2>7. op' \in [kind : Kinds, rec : Cells, body : Ids \cup {NoId}] /\ pc' \in Pcs
    BY <1>1, NoOpType DEF DoAppend, Return, Pcs
  <2> QED BY <1>1, <2>1, <2>2, <2>3, <2>4, <2>5, <2>6, <2>7 DEF DoAppend, TypeOK
<1>2. CASE NoRoom
  BY <1>2, AbandonTypes DEF NoRoom, TypeOK
<1>3. CASE WriteRefused
  <2>1. Smeared(active, cursor, op.rec) \in [Regions -> [Offsets -> Cells]]
    BY <1>0, CellUpdates DEF TypeOK
  <2> QED BY <1>3, <2>1, AbandonTypes DEF WriteRefused, TypeOK
<1> QED BY <1>1, <1>2, <1>3 DEF Append

\* op_enqueue and op_remove keep the types up to their append.
LEMMA PublisherType == TypeOK /\ Publisher => TypeOK'
<1> SUFFICES ASSUME TypeOK, NEW m \in Ids, Enqueue(m) \/ Remove(m)
             PROVE  TypeOK'
  BY DEF Publisher
<1> USE DEF flash, ctx, history, budget
<1>0. index[m].att \in Nat
  BY DEF TypeOK, Entries
<1>1. CASE Enqueue(m)
  <2>1. Message(m, "PENDING", 0, m) \in Cells
    BY RecordsFormed DEF States
  <2>2. /\ op' \in [kind : Kinds, rec : Cells, body : Ids \cup {NoId}]
        /\ pc' \in Pcs
    BY <1>1, <2>1, BeginTypes DEF Enqueue, Kinds
  <2>3. fate' \in [Ids -> Fates]
    BY <1>1 DEF Enqueue, TypeOK, Fates
  <2> QED BY <1>1, <2>2, <2>3 DEF Enqueue, TypeOK
<1>2. CASE Remove(m)
  <2>1. Update(m, "REMOVED", index[m].att) \in Cells
    BY <1>0, RecordsFormed DEF States
  <2>2. /\ op' \in [kind : Kinds, rec : Cells, body : Ids \cup {NoId}]
        /\ pc' \in Pcs
    BY <1>2, <2>1, BeginTypes DEF Remove, Kinds
  <2>3. fate' \in [Ids -> Fates]
    BY <1>2 DEF Remove, TypeOK, Fates
  <2> QED BY <1>2, <2>2, <2>3 DEF Remove, TypeOK
<1> QED BY <1>1, <1>2

\* op_claim_next, op_mark_delivered and op_schedule_retry keep the types up
\* to their append.
LEMMA WorkerType == TypeOK /\ Worker => TypeOK'
<1> SUFFICES ASSUME TypeOK, Worker PROVE TypeOK'
  OBVIOUS
<1> USE DEF flash, ctx, history, budget
<1>0. \A m \in Ids : index[m].att \in Nat /\ index[m].att + 1 \in Nat
  BY DEF TypeOK, Entries
<1>1. ASSUME NEW m \in Ids, Claim(m) PROVE TypeOK'
  <2>1. /\ Update(m, "IN_FLIGHT", index[m].att + 1) \in Cells
        /\ Update(m, "DEAD_LETTER", index[m].att) \in Cells
    BY <1>0, RecordsFormed DEF States
  <2>2. BytesAt(index[m].off, m) \in Ids \cup {NoId}
    BY BytesType
  <2>3. \/ Begin("claim", Update(m, "IN_FLIGHT", index[m].att + 1),
                 BytesAt(index[m].off, m))
        \/ Begin("corrupt", Update(m, "DEAD_LETTER", index[m].att), NoId)
    BY <1>1 DEF Claim
  <2>4. /\ op' \in [kind : Kinds, rec : Cells, body : Ids \cup {NoId}]
        /\ pc' \in Pcs
    BY <2>1, <2>2, <2>3, BeginTypes DEF Kinds
  <2>5. faults' \in 0 .. MaxFaults
    BY <1>1, FaultType DEF Claim, TypeOK
  <2> QED BY <1>1, <2>4, <2>5 DEF Claim, TypeOK
<1>2. CASE MarkDelivered
  <2>1. held.id \in Ids
    BY <1>2 DEF MarkDelivered, Indexed
  <2>2. Update(held.id, "DELIVERED", index[held.id].att) \in Cells
    BY <1>0, <2>1, RecordsFormed DEF States
  <2>3. /\ op' \in [kind : Kinds, rec : Cells, body : Ids \cup {NoId}]
        /\ pc' \in Pcs
    BY <1>2, <2>2, BeginTypes DEF MarkDelivered, Kinds
  <2>4. fate' \in [Ids -> Fates]
    BY <1>2 DEF MarkDelivered, TypeOK, Fates
  <2> QED BY <1>2, <2>3, <2>4 DEF MarkDelivered, TypeOK
<1>3. CASE ScheduleRetry
  <2>1. held.id \in Ids
    BY <1>3 DEF ScheduleRetry, Indexed
  <2>2. /\ Update(held.id, "PENDING", index[held.id].att) \in Cells
        /\ Update(held.id, "DEAD_LETTER", index[held.id].att) \in Cells
    BY <1>0, <2>1, RecordsFormed DEF States
  <2>3. \/ Begin("retry", Update(held.id, "PENDING", index[held.id].att), NoId)
        \/ Begin("dead", Update(held.id, "DEAD_LETTER", index[held.id].att), NoId)
    BY <1>3 DEF ScheduleRetry
  <2>4. /\ op' \in [kind : Kinds, rec : Cells, body : Ids \cup {NoId}]
        /\ pc' \in Pcs
    BY <2>2, <2>3, BeginTypes DEF Kinds
  <2> QED BY <1>3, <2>4 DEF ScheduleRetry, TypeOK
<1> QED BY <1>1, <1>2, <1>3 DEF Worker

\* Compaction, and whatever erases or writes a header, works on one of the
\* two regions.
LEMMA TargetsIn ==
  ASSUME TypeOK
  PROVE  /\ target \in Regions
         /\ EraseTarget \subseteq Regions /\ HeaderTarget \subseteq Regions
<1>1. target \in Regions /\ active \in Regions
  BY DEF TypeOK, Regions, target
<1> QED BY <1>1 DEF EraseTarget, HeaderTarget, Regions

\* A header spoilt by an interrupted write is a header value still.
LEMMA HeaderJunk ==
  ASSUME TypeOK, NEW r \in Regions
  PROVE  [hdr EXCEPT ![r].status = "JUNK"] \in [Regions -> [status : Status, gen : Nat]]
BY DEF TypeOK, Status

\* An erase that is cut short leaves a header or units of their types.
LEMMA EraseTearsType ==
  ASSUME TypeOK, EraseTears
  PROVE  FlashOK(hdr', cell')
<1>1. PICK r \in Regions :
        \/ hdr' = [hdr EXCEPT ![r].status = "JUNK"] /\ UNCHANGED cell
        \/ \E k \in EraseStops :
             hdr' = [hdr EXCEPT ![r] = Empty] /\ cell' = PartlyErased(r, k)
  BY TargetsIn DEF EraseTears
<1>2. CASE hdr' = [hdr EXCEPT ![r].status = "JUNK"] /\ UNCHANGED cell
  BY <1>2, HeaderJunk DEF FlashOK, TypeOK
<1>3. ASSUME NEW k \in EraseStops,
             hdr' = [hdr EXCEPT ![r] = Empty] /\ cell' = PartlyErased(r, k)
      PROVE  FlashOK(hdr', cell')
  <2>1. PartlyErased(r, k) \in [Regions -> [Offsets -> Cells]]
    BY CellUpdates DEF TypeOK
  <2>2. Empty \in [status : Status, gen : Nat]
    BY DEF Empty, Status
  <2> QED BY <1>3, <2>1, <2>2 DEF FlashOK, TypeOK
<1> QED BY <1>1, <1>2, <1>3

\* A power loss at any point of any write or erase keeps the types.
LEMMA PowerLossType == TypeOK /\ PowerLoss => TypeOK'
<1> SUFFICES ASSUME TypeOK, PowerLoss PROVE TypeOK'
  OBVIOUS
<1> USE DEF flash, ctx, history, budget
<1>0. op.rec \in Cells /\ active \in Regions
  BY DEF TypeOK
<1>1. crashes' \in 0 .. MaxCrashes
  BY BoundAssumption DEF PowerLoss, TypeOK
<1>2. FlashOK(hdr', cell')
  <2>1. CASE UNCHANGED flash
    BY <2>1 DEF FlashOK, TypeOK
  <2>2. CASE AppendLands
    <3>1. Written(active, cursor, op.rec) \in [Regions -> [Offsets -> Cells]]
      BY <1>0, CellUpdates DEF TypeOK
    <3> QED BY <2>2, <3>1 DEF AppendLands, FlashOK, TypeOK
  <2>3. CASE AppendTears
    <3>1. \A k : TornAt(active, cursor, k) \in [Regions -> [Offsets -> Cells]]
      BY <1>0, CellUpdates DEF TypeOK
    <3> QED BY <2>3, <3>1 DEF AppendTears, FlashOK, TypeOK
  <2>4. CASE HeaderTears
    <3>1. PICK r \in Regions : hdr' = [hdr EXCEPT ![r].status = "JUNK"]
      BY <2>4, TargetsIn DEF HeaderTears
    <3> QED BY <2>4, <3>1, HeaderJunk DEF HeaderTears, FlashOK, TypeOK
  <2>5. CASE EraseTears
    BY <2>5, EraseTearsType
  <2> QED BY <2>1, <2>2, <2>3, <2>4, <2>5 DEF PowerLoss
<1>3. ResetRam /\ pc' \in Pcs
  BY DEF PowerLoss, Pcs
<1> QED BY <1>1, <1>2, <1>3, ResetTypes DEF PowerLoss, FlashOK, TypeOK

\* A flash call that reports an error keeps the types, whatever part of its
\* work it did.
LEMMA FlashErrorType == TypeOK /\ FlashError => TypeOK'
<1> SUFFICES ASSUME TypeOK, FlashError PROVE TypeOK'
  OBVIOUS
<1> USE DEF flash, ctx, history, budget
<1>0. op.rec \in Cells /\ active \in Regions /\ target \in Regions
  BY TargetsIn DEF TypeOK
<1>1. faults' \in 0 .. MaxFaults /\ crashes' \in 0 .. MaxCrashes
  BY FaultType DEF FlashError, TypeOK
<1>2. CASE WriteError
  <2>1. /\ Written(active, cursor, op.rec) \in [Regions -> [Offsets -> Cells]]
        /\ \A k : TornAt(active, cursor, k) \in [Regions -> [Offsets -> Cells]]
    BY <1>0, CellUpdates DEF TypeOK
  <2>2. FlashOK(hdr', cell')
    BY <1>2, <2>1 DEF WriteError, FlashOK, TypeOK
  <2>3. Abandon
    BY <1>2 DEF WriteError
  <2> QED BY <1>1, <2>2, <2>3, AbandonTypes DEF FlashOK, TypeOK
<1>3. CASE HeaderError
  <2>1. FlashOK(hdr', cell')
    <3>1. PICK r \in Regions :
            \/ UNCHANGED hdr
            \/ hdr' = [hdr EXCEPT ![r].status = "JUNK"]
            \/ hdr' = [hdr EXCEPT ![r] = NewHeader]
      BY <1>3, TargetsIn DEF HeaderError
    <3>2. NewHeader \in [status : Status, gen : Nat]
      BY <1>0 DEF NewHeader, Status, TypeOK
    <3> QED BY <1>3, <3>1, <3>2, HeaderJunk DEF HeaderError, FlashOK, TypeOK
  <2>2. CASE Abandon
    BY <1>1, <2>1, <2>2, AbandonTypes DEF FlashOK, TypeOK
  <2>3. CASE FailInit
    BY <1>1, <2>1, <2>3 DEF FailInit, FlashOK, TypeOK, Pcs
  <2> QED BY <1>3, <2>2, <2>3 DEF HeaderError
<1>4. CASE CopyError
  <2>1. hdr' = hdr /\ cell' = cell /\ Abandon
    BY <1>4 DEF CopyError
  <2> QED BY <1>1, <2>1, AbandonTypes DEF TypeOK
<1>5. CASE FlipError
  <2>1. hdr' \in [Regions -> [status : Status, gen : Nat]]
    BY <1>0, <1>5 DEF FlipError, TypeOK, Status
  <2> QED BY <1>1, <1>5, <2>1, AbandonTypes DEF FlipError, TypeOK
<1>6. CASE StaleError
  <2>1. hdr' \in [Regions -> [status : Status, gen : Nat]]
    BY <1>0, <1>6 DEF StaleError, TypeOK, Status
  <2> QED BY <1>1, <1>6, <2>1 DEF StaleError, TypeOK, Pcs
<1>7. CASE EraseError
  <2>0. FlashOK(hdr', cell')
    <3>1. CASE UNCHANGED flash
      BY <3>1 DEF FlashOK, TypeOK
    <3>2. CASE EraseTears
      BY <3>2, EraseTearsType
    <3>3. ASSUME NEW r \in Regions,
                 hdr' = [hdr EXCEPT ![r] = Empty] /\ cell' = ErasedCells(r)
          PROVE  FlashOK(hdr', cell')
      <4>1. ErasedCells(r) \in [Regions -> [Offsets -> Cells]]
        BY <1>0, CellUpdates DEF TypeOK
      <4>2. Empty \in [status : Status, gen : Nat]
        BY DEF Empty, Status
      <4> QED BY <3>3, <4>1, <4>2 DEF FlashOK, TypeOK
    <3> QED BY <1>7, <3>1, <3>2, <3>3, TargetsIn DEF EraseError
  <2>1. CASE Abandon
    BY <1>1, <2>0, <2>1, AbandonTypes DEF FlashOK, TypeOK
  <2>2. CASE SwitchRegion
    BY <1>0, <1>1, <2>0, <2>2 DEF SwitchRegion, FlashOK, TypeOK, Pcs
  <2>3. CASE FailInit
    BY <1>1, <2>0, <2>3 DEF FailInit, FlashOK, TypeOK, Pcs
  <2> QED BY <1>7, <2>1, <2>2, <2>3 DEF EraseError
<1> QED BY <1>2, <1>3, <1>4, <1>5, <1>6, <1>7 DEF FlashError

\* A stored byte that changes leaves a well-formed unit, marked as not ok.
LEMMA RotType == TypeOK /\ Rot => TypeOK'
<1> SUFFICES ASSUME TypeOK, Rot PROVE TypeOK'
  OBVIOUS
<1> USE DEF flash, ctx, history, budget
<1>1. PICK r \in Regions, o \in Offsets :
        /\ cell[r][o].t = "MESSAGE" /\ cell[r][o].ok
        /\ cell' = [cell EXCEPT ![r][o].ok = FALSE, ![r][o].body = NoId]
  BY DEF Rot
<1>2. cell[r][o] \in Cells
  BY DEF TypeOK
<1> DEFINE u == [cell[r][o] EXCEPT !.ok = FALSE, !.body = NoId]
<1>3. u \in Cells
  BY <1>2 DEF Cells, Units
<1>4. cell' = [cell EXCEPT ![r] = [cell[r] EXCEPT ![o] = u]]
  BY <1>1 DEF TypeOK
<1>5. cell' \in [Regions -> [Offsets -> Cells]]
  <2> HIDE DEF u
  <2> QED BY <1>3, <1>4 DEF TypeOK
<1>6. faults' \in 0 .. MaxFaults
  BY FaultType DEF Rot, TypeOK
<1> QED BY <1>5, <1>6 DEF Rot, TypeOK

\* TypeOK is inductive: every step of the backend keeps it.
LEMMA TypeNext == TypeOK /\ [Next]_vars => TypeOK'
<1> SUFFICES ASSUME TypeOK, [Next]_vars PROVE TypeOK'
  OBVIOUS
<1>1. CASE Restart
  BY <1>1, ResetTypes DEF Restart, TypeOK, Pcs, flash, history, budget
<1>2. CASE PollIdle
  BY <1>2 DEF PollIdle, vars, TypeOK
<1>3. CASE UNCHANGED vars
  BY <1>3 DEF vars, TypeOK
<1> QED
  BY <1>1, <1>2, <1>3, RecoveryType, CompactionType, AppendType, PublisherType,
     WorkerType, PowerLossType, FlashErrorType, RotType DEF Next

\* Whatever the flash does to the backend, every piece of its state keeps its
\* type: in particular no entry of the index is ever DELIVERED or REMOVED (the
\* code drops it, flashq.c:331-351), and a MESSAGE record always names an id.
THEOREM TypeCorrect == Spec => []TypeOK
<1> QED BY TypeInit, TypeNext, PTL DEF Spec

-----------------------------------------------------------------------------
(* Generations.  A region becomes ACTIVE either when the partition is      *)
(* formatted, both regions being blank, or at the flip of a compaction,    *)
(* whose header carries the successor of the active region's generation.   *)
(* The flip is separated from the header write by every copy, so what the  *)
(* header said must be remembered over all the steps between them.         *)

GenInv ==
  /\ NewestIsUnique
  /\ pc \in {"f_erase1", "f_hdr"} => hdr[0].status = "EMPTY"
  /\ pc = "f_hdr" => hdr[1].status = "EMPTY"
  /\ pc = "c_hdr" => hdr[target].status = "EMPTY"
  /\ pc \in {"c_copy", "c_flip", "c_stale", "c_reclaim"} =>
       hdr[target].gen = hdr[active].gen + 1

\* The steps of a format or a compaction at which GenInv says more.
Committed == {"f_erase1", "f_hdr", "c_hdr", "c_copy", "c_flip", "c_stale", "c_reclaim"}

\* A step that writes no header and leads to none of those keeps GenInv.
LEMMA GenSame ==
  ASSUME GenInv, UNCHANGED hdr, pc' \notin Committed
  PROVE  GenInv'
BY DEF GenInv, Committed, NewestIsUnique, ActiveRegions

\* So does one that leaves a region not ACTIVE.
LEMMA GenInactive ==
  ASSUME NEW r \in Regions, hdr'[r].status # "ACTIVE", pc' \notin Committed
  PROVE  GenInv'
BY DEF GenInv, Committed, NewestIsUnique, ActiveRegions

\* An operation that starts, or that returns an error.
LEMMA GenBegin ==
  ASSUME GenInv, UNCHANGED hdr, NEW kind, NEW rec, NEW body,
         Begin(kind, rec, body) \/ Abandon
  PROVE  GenInv'
BY GenSame DEF Begin, Abandon, Committed

\* Once a region is erased its header is EMPTY.
LEMMA GenErased ==
  ASSUME TypeOK, NEW r \in Regions, EnsureErased(r)
  PROVE  hdr'[r].status = "EMPTY" /\ \A s \in Regions \ {r} : hdr'[s] = hdr[s]
BY DEF EnsureErased, flash, Empty, TypeOK

\* Boot leaves one ACTIVE region at most besides the one it erases, and a
\* format makes one region ACTIVE when none is (op_recover).
LEMMA GenRecovery == TypeOK /\ GenInv /\ (Recovery \/ Restart) => GenInv'
<1> SUFFICES ASSUME TypeOK, GenInv, Recovery \/ Restart PROVE GenInv'
  OBVIOUS
<1> USE DEF flash, Committed
<1>1. CASE Boot
  BY <1>1, GenSame DEF Boot
<1>2. CASE Format
  <2>1. CASE FormatErase(0, "f_erase0", "f_erase1")
    <3>1. hdr'[0].status = "EMPTY" /\ pc' = "f_erase1"
      BY <2>1 DEF FormatErase, Empty, TypeOK, Regions
    <3> QED BY <3>1 DEF GenInv, NewestIsUnique, ActiveRegions, Regions
  <2>2. CASE FormatErase(1, "f_erase1", "f_hdr")
    <3>1. /\ hdr'[0].status = "EMPTY" /\ hdr'[1].status = "EMPTY"
          /\ pc' = "f_hdr"
      BY <2>2 DEF FormatErase, Empty, TypeOK, Regions, GenInv
    <3> QED BY <3>1 DEF GenInv, NewestIsUnique, ActiveRegions, Regions
  <2>3. CASE FormatHeader
    <3>1. hdr'[1].status # "ACTIVE" /\ pc' = "idle"
      BY <2>3 DEF FormatHeader, TypeOK, Regions, GenInv
    <3> QED BY <3>1, GenInactive DEF Regions
  <2> QED BY <1>2, <2>1, <2>2, <2>3 DEF Format
<1>3. CASE EraseSpare
  <2>1. 1 - active \in Regions
    BY DEF TypeOK, Regions
  <2>2. hdr'[1 - active].status = "EMPTY"
    BY <1>3, <2>1, GenErased DEF EraseSpare
  <2> QED BY <1>3, <2>1, <2>2, GenInactive DEF EraseSpare
<1>4. CASE ScanRecord \/ ScanEnd \/ Recovered \/ Restart
  BY <1>4, GenSame DEF ScanRecord, ScanEnd, Recovered, Restart
<1>5. ASSUME NEW m \in Ids, Requeue(m) PROVE GenInv'
  BY <1>5, GenBegin DEF Requeue
<1> QED BY <1>1, <1>2, <1>3, <1>4, <1>5 DEF Recovery

\* The region being filled has a generation above that of the active one
\* from its header on, and is flipped to ACTIVE with it (compact_locked).
LEMMA GenCompaction == TypeOK /\ GenInv /\ Compaction => GenInv'
<1> SUFFICES ASSUME TypeOK, GenInv, Compaction PROVE GenInv'
  OBVIOUS
<1> USE DEF flash, ctx
<1>0. /\ active \in Regions /\ target \in Regions /\ target # active
      /\ Regions = {active, target} /\ Regions = {0, 1}
      /\ \A r \in Regions : hdr[r].gen \in Nat
  BY DEF TypeOK, Regions, target
<1>1. CASE CompactErase
  <2>1. hdr'[target].status = "EMPTY" /\ target' = target /\ pc' = "c_hdr"
    BY <1>0, <1>1, GenErased DEF CompactErase, target
  <2> QED BY <1>0, <2>1 DEF GenInv, NewestIsUnique, ActiveRegions
<1>2. CASE CompactHeader
  <2>1. /\ hdr'[target].status = "COMPACTING"
        /\ hdr'[target].gen = hdr'[active].gen + 1
        /\ target' = target /\ active' = active /\ pc' = "c_copy"
    BY <1>0, <1>2 DEF CompactHeader, TypeOK, target
  <2> QED BY <1>0, <2>1 DEF GenInv, NewestIsUnique, ActiveRegions
<1>3. CASE CompactEnd \/ Horizon
  BY <1>3 DEF CompactEnd, Horizon, vars, GenInv, NewestIsUnique, ActiveRegions, target
<1>4. CASE CopyRefused
  BY <1>4, GenBegin DEF CopyRefused
<1>5. CASE CompactFlip
  <2>1. /\ hdr'[target].gen = hdr'[active].gen + 1
        /\ target' = target /\ active' = active /\ pc' = "c_stale"
    BY <1>0, <1>5 DEF CompactFlip, TypeOK, target, GenInv
  <2>2. hdr' \in [Regions -> [status : Status, gen : Nat]]
    BY <1>0, <1>5 DEF CompactFlip, TypeOK, Status
  <2>3. hdr'[target].gen # hdr'[active].gen
    BY <1>0, <2>1, <2>2
  <2>4. hdr'[0].gen # hdr'[1].gen
    BY <1>0, <2>3
  <2> QED BY <2>1, <2>4 DEF GenInv, NewestIsUnique
<1>6. CASE CompactStale
  <2>1. /\ hdr'[target].gen = hdr'[active].gen + 1
        /\ hdr'[active].status = "STALE"
        /\ target' = target /\ active' = active /\ pc' = "c_reclaim"
    BY <1>0, <1>6 DEF CompactStale, TypeOK, target, GenInv
  <2> QED BY <1>0, <2>1 DEF GenInv, NewestIsUnique, ActiveRegions
<1>7. CASE CompactReclaim
  <2>1. hdr'[active].status = "EMPTY" /\ pc' = "append"
    BY <1>0, <1>7, GenErased DEF CompactReclaim, SwitchRegion
  <2> QED BY <1>0, <2>1, GenInactive DEF Committed
<1>8. ASSUME NEW m \in Ids, CompactCopy(m) PROVE GenInv'
  BY <1>8 DEF CompactCopy, GenInv, NewestIsUnique, ActiveRegions, target
<1> QED BY <1>1, <1>2, <1>3, <1>4, <1>5, <1>6, <1>7, <1>8 DEF Compaction

\* An error at the flip leaves the older region ACTIVE with the smaller
\* generation, an error elsewhere leaves the new one not ACTIVE.
LEMMA GenFlashError == TypeOK /\ GenInv /\ FlashError => GenInv'
<1> SUFFICES ASSUME TypeOK, GenInv, FlashError PROVE GenInv'
  OBVIOUS
<1> USE DEF flash, ctx, Committed
<1>0. /\ active \in Regions /\ target \in Regions /\ target # active
      /\ Regions = {active, target} /\ Regions = {0, 1}
      /\ \A r \in Regions : hdr[r].gen \in Nat
  BY DEF TypeOK, Regions, target
<1>1. CASE WriteError \/ CopyError
  BY <1>1, GenBegin DEF WriteError, CopyError
<1>2. CASE HeaderError
  <2>1. pc' \notin Committed
    BY <1>2 DEF HeaderError, FailInit, Abandon
  <2>2. PICK r \in Regions : \/ UNCHANGED hdr
                             \/ hdr' = [hdr EXCEPT ![r].status = "JUNK"]
                             \/ r \in HeaderTarget /\ hdr' = [hdr EXCEPT ![r] = NewHeader]
    BY <1>2, TargetsIn DEF HeaderError
  <2>3. CASE UNCHANGED hdr
    BY <2>1, <2>3, GenSame
  <2>4. CASE hdr' = [hdr EXCEPT ![r].status = "JUNK"]
    <3>1. hdr'[r].status = "JUNK"
      BY <2>4 DEF TypeOK
    <3> QED BY <2>1, <3>1, GenInactive
  <2>5. CASE r \in HeaderTarget /\ hdr' = [hdr EXCEPT ![r] = NewHeader]
    <3>1. CASE pc = "f_hdr"
      <4>1. hdr'[1].status # "ACTIVE"
        BY <1>0, <2>5, <3>1 DEF HeaderTarget, GenInv, TypeOK
      <4> QED BY <1>0, <2>1, <4>1, GenInactive
    <3>2. CASE pc # "f_hdr"
      <4>1. hdr'[r].status # "ACTIVE"
        BY <2>5, <3>2 DEF NewHeader, TypeOK
      <4> QED BY <2>1, <4>1, GenInactive
    <3> QED BY <3>1, <3>2
  <2> QED BY <2>2, <2>3, <2>4, <2>5
<1>3. CASE FlipError
  <2>1. pc' \notin Committed
    BY <1>3 DEF FlipError, Abandon
  <2>2. CASE UNCHANGED hdr
    BY <2>1, <2>2, GenSame
  <2>3. CASE hdr' = [hdr EXCEPT ![target].status = "ACTIVE"]
    <3>1. hdr'[target].gen = hdr[active].gen + 1 /\ hdr'[active].gen = hdr[active].gen
      BY <1>0, <1>3, <2>3 DEF FlipError, GenInv, TypeOK
    <3>2. hdr'[target].gen # hdr'[active].gen
      BY <1>0, <3>1
    <3>3. hdr'[0].gen # hdr'[1].gen
      BY <1>0, <3>2
    <3> QED BY <2>1, <3>3 DEF GenInv, NewestIsUnique
  <2> QED BY <1>3, <2>2, <2>3 DEF FlipError
<1>4. CASE StaleError
  <2>1. /\ hdr'[target].gen = hdr'[active].gen + 1
        /\ hdr' = hdr \/ hdr'[active].status = "STALE"
        /\ target' = target /\ active' = active /\ pc' = "c_reclaim"
    BY <1>0, <1>4 DEF StaleError, TypeOK, target, GenInv
  <2> QED BY <1>0, <2>1 DEF GenInv, NewestIsUnique, ActiveRegions
<1>5. CASE EraseError
  <2>1. pc' \notin Committed
    BY <1>5 DEF EraseError, Abandon, SwitchRegion, FailInit
  <2>2. CASE UNCHANGED hdr
    BY <2>1, <2>2, GenSame
  <2>3. CASE ~UNCHANGED hdr
    <3>1. PICK r \in Regions : \/ hdr' = [hdr EXCEPT ![r].status = "JUNK"]
                               \/ hdr' = [hdr EXCEPT ![r] = Empty]
      BY <1>5, <2>3, TargetsIn DEF EraseError, EraseTears
    <3>2. hdr'[r].status # "ACTIVE"
      BY <3>1 DEF TypeOK, Empty
    <3> QED BY <2>1, <3>2, GenInactive
  <2> QED BY <2>2, <2>3
<1> QED BY <1>1, <1>2, <1>3, <1>4, <1>5 DEF FlashError

\* Power lost at any step, also inside a header write or an erase, leaves no
\* two ACTIVE regions of one generation.
LEMMA GenPowerLoss == TypeOK /\ GenInv /\ PowerLoss => GenInv'
<1> SUFFICES ASSUME TypeOK, GenInv, PowerLoss PROVE GenInv'
  OBVIOUS
<1>0. pc' \notin Committed
  BY DEF PowerLoss, Committed
<1>1. CASE UNCHANGED hdr
  BY <1>0, <1>1, GenSame
<1>2. CASE ~UNCHANGED hdr
  <2>1. HeaderTears \/ EraseTears
    BY <1>2 DEF PowerLoss, AppendLands, AppendTears, flash
  <2>2. PICK r \in Regions : \/ hdr' = [hdr EXCEPT ![r].status = "JUNK"]
                             \/ hdr' = [hdr EXCEPT ![r] = Empty]
    BY <2>1, TargetsIn DEF HeaderTears, EraseTears
  <2>3. hdr'[r].status # "ACTIVE"
    BY <2>2 DEF TypeOK, Empty
  <2> QED BY <1>0, <2>3, GenInactive
<1> QED BY <1>1, <1>2

\* GenInv is inductive: every step keeps the generations apart.
LEMMA GenNext == TypeOK /\ GenInv /\ [Next]_vars => GenInv'
<1> SUFFICES ASSUME TypeOK, GenInv, [Next]_vars PROVE GenInv'
  OBVIOUS
<1>1. CASE Append
  <2>1. CASE DoAppend
    BY <2>1, GenSame DEF DoAppend, Return, Committed
  <2>2. CASE NoRoom \/ WriteRefused
    BY <2>2, GenBegin DEF NoRoom, WriteRefused, flash
  <2> QED BY <1>1, <2>1, <2>2 DEF Append
<1>2. CASE Publisher \/ Worker
  BY <1>2, GenBegin DEF Publisher, Worker, Enqueue, Remove, Claim, MarkDelivered,
     ScheduleRetry, flash
<1>3. CASE Rot \/ PollIdle \/ UNCHANGED vars
  BY <1>3 DEF Rot, PollIdle, vars, ctx, GenInv, NewestIsUnique, ActiveRegions, target
<1> QED
  BY <1>1, <1>2, <1>3, GenRecovery, GenCompaction, GenFlashError, GenPowerLoss DEF Next

\* Recovery never has to guess which of two ACTIVE regions is the newer one:
\* op_recover compares generations (flashq.c:487-497), and no sequence of
\* faults and power losses, however a compaction was cut short, leaves both
\* regions ACTIVE with the same generation.
THEOREM RecoveryChoosesOne == Spec => []NewestIsUnique
<1>1. Init => GenInv
  BY DEF Init, GenInv, NewestIsUnique, ActiveRegions, Empty, Regions
<1>2. GenInv => NewestIsUnique
  BY DEF GenInv
<1> QED BY <1>1, <1>2, TypeInit, TypeNext, GenNext, PTL DEF Spec

-----------------------------------------------------------------------------
(* Identity.  An id that no publisher has offered is known nowhere: not on *)
(* flash, not in the index, not to the operation in progress.              *)

UnknownOnFlash(m) == \A r \in Regions, o \in Offsets : cell[r][o].id # m
Unknown(m) ==
  /\ UnknownOnFlash(m)
  /\ index[m].st = "NONE" /\ m \notin todo /\ op.rec.id # m
FreshInv == \A m \in Ids : fate[m] = "fresh" => Unknown(m)

\* A write or an erase puts no id on flash but the one of its record.
LEMMA UnknownKept ==
  ASSUME TypeOK, NEW m \in Ids, UnknownOnFlash(m), NEW r \in Regions, NEW o, NEW k,
         NEW rec \in Cells, rec.id # m,
         \/ cell' \in {Written(r, o, rec), TornAt(r, o, k), Smeared(r, o, rec)}
         \/ cell' \in {ErasedCells(r), PartlyErased(r, k), cell}
  PROVE  UnknownOnFlash(m)'
<1>1. Blank.id # m /\ Cont.id # m /\ Junk.id # m /\ Unit("TORN").id # m
  BY IdsAssumption DEF Blank, Cont, Junk, Unit
<1> SUFFICES ASSUME NEW s \in Regions, NEW x \in Offsets PROVE cell'[s][x].id # m
  BY DEF UnknownOnFlash
<1>2. cell[s][x].id # m
  BY DEF UnknownOnFlash
<1>3. CASE cell' = Written(r, o, rec)
  BY <1>1, <1>2, <1>3 DEF Written, TypeOK
<1>4. CASE cell' = TornAt(r, o, k)
  BY <1>1, <1>2, <1>4 DEF TornAt, TypeOK
<1>5. CASE cell' = Smeared(r, o, rec)
  BY <1>1, <1>2, <1>5 DEF Smeared, TypeOK
<1>6. CASE cell' = ErasedCells(r)
  BY <1>1, <1>2, <1>6 DEF ErasedCells, TypeOK
<1>7. CASE cell' = PartlyErased(r, k)
  BY <1>1, <1>2, <1>7 DEF PartlyErased, TypeOK
<1>8. CASE cell' = cell
  BY <1>2, <1>8
<1> QED BY <1>3, <1>4, <1>5, <1>6, <1>7, <1>8

\* Erasing a region brings no record of a message to the flash.
LEMMA UnknownErased ==
  ASSUME TypeOK, NEW m \in Ids, UnknownOnFlash(m), NEW r \in Regions, EnsureErased(r)
  PROVE  UnknownOnFlash(m)'
<1>1. cell' = cell \/ cell' = ErasedCells(r)
  BY DEF EnsureErased, flash
<1>2. Blank \in Cells /\ Blank.id # m
  BY PlainUnits, IdsAssumption DEF Blank, Unit, UnitTypes
<1> QED BY <1>1, <1>2, UnknownKept

\* What an error return and a reset leave of an unknown id.
LEMMA UnknownAbandoned ==
  ASSUME NEW m \in Ids, Unknown(m), UnknownOnFlash(m)', Abandon
  PROVE  Unknown(m)'
BY IdsAssumption DEF Unknown, Abandon, ctx, NoOp, Blank, Unit

\* A reset, which clears RAM, leaves an id unknown if the flash does.
LEMMA UnknownReset ==
  ASSUME NEW m \in Ids, UnknownOnFlash(m)', ResetRam
  PROVE  Unknown(m)'
BY IdsAssumption DEF Unknown, ResetRam, NoOp, Blank, Unit, Absent

\* No step makes an id fresh again.
LEMMA NeverFreshAgain ==
  ASSUME TypeOK, [Next]_vars, NEW m \in Ids, fate'[m] = "fresh"
  PROVE  fate[m] = "fresh"
<1> USE DEF history, ctx, vars
<1>1. CASE Recovery \/ Restart \/ PollIdle \/ PowerLoss \/ Rot \/ UNCHANGED vars
  BY <1>1 DEF Recovery, Boot, Format, FormatErase, FormatHeader, EraseSpare,
     ScanRecord, ScanEnd, Recovered, Requeue, Restart, PollIdle, PowerLoss, Rot
<1>2. CASE Abandon
  BY <1>2 DEF Abandon, TypeOK
<1>3. CASE Compaction
  BY <1>2, <1>3 DEF Compaction, CompactErase, CompactHeader, CompactEnd, CopyRefused,
     CompactFlip, CompactStale, CompactReclaim, SwitchRegion, Horizon, CompactCopy
<1>4. CASE Append
  BY <1>2, <1>4 DEF Append, DoAppend, NoRoom, WriteRefused, TypeOK
<1>5. CASE Publisher
  BY <1>5 DEF Publisher, Enqueue, Remove, TypeOK
<1>6. CASE Worker
  BY <1>6 DEF Worker, Claim, MarkDelivered, ScheduleRetry, TypeOK
<1>7. CASE FlashError
  BY <1>2, <1>7 DEF FlashError, WriteError, HeaderError, CopyError, FlipError,
     StaleError, EraseError, SwitchRegion, FailInit
<1> QED BY <1>1, <1>3, <1>4, <1>5, <1>6, <1>7 DEF Next

\* No step, failure or recovery makes an id known that no publish was given.
LEMMA UnknownStep ==
  ASSUME TypeOK, [Next]_vars, NEW m \in Ids, Unknown(m), fate'[m] = "fresh"
  PROVE  Unknown(m)'
<1> USE DEF flash, ctx, history, budget
<1>0. /\ active \in Regions /\ target \in Regions /\ target = 1 - active
      /\ op.rec \in Cells /\ Blank \in Cells /\ Blank.id # m
      /\ UnknownOnFlash(m) /\ index[m].st = "NONE" /\ m \notin todo /\ op.rec.id # m
  BY TargetsIn, PlainUnits, IdsAssumption
     DEF TypeOK, Unknown, Blank, Unit, UnitTypes, target
<1>1. ASSUME UNCHANGED cell PROVE UnknownOnFlash(m)'
  BY <1>0, <1>1 DEF UnknownOnFlash
<1>2. CASE Recovery
  <2>1. CASE Boot \/ FormatHeader \/ ScanEnd \/ Recovered
    BY <1>0, <1>1, <2>1 DEF Boot, FormatHeader, ScanEnd, Recovered, Unknown
  <2>2. ASSUME NEW r \in Regions, NEW at, NEW then, FormatErase(r, at, then)
        PROVE  Unknown(m)'
    <3>1. UnknownOnFlash(m)'
      BY <1>0, <2>2, UnknownKept DEF FormatErase
    <3> QED BY <1>0, <2>2, <3>1 DEF FormatErase, Unknown
  <2>3. CASE EraseSpare
    <3>1. UnknownOnFlash(m)'
      BY <1>0, <2>3, UnknownErased DEF EraseSpare
    <3> QED BY <1>0, <2>3, <3>1 DEF EraseSpare, Unknown
  <2>4. CASE ScanRecord
    <3>1. cursor \in Offsets
      BY <2>4, SizeAssumption DEF ScanRecord, Offsets, TypeOK
    <3>3. cell[active][cursor].id # m
      BY <1>0, <3>1 DEF UnknownOnFlash
    <3>2. index'[m] = index[m]
      BY <2>4, <3>3 DEF ScanRecord, TypeOK
    <3> QED BY <1>0, <1>1, <2>4, <3>2 DEF ScanRecord, Unknown
  <2>5. ASSUME NEW n \in Ids, Requeue(n) PROVE Unknown(m)'
    <3>1. n # m /\ op'.rec.id = n
      BY <1>0, <2>5 DEF Requeue, Begin, Update
    <3> QED BY <1>0, <1>1, <2>5, <3>1 DEF Requeue, Unknown
  <2> QED BY <1>2, <2>1, <2>2, <2>3, <2>4, <2>5 DEF Recovery, Format, Regions
<1>3. CASE Compaction
  <2>1. CASE CompactErase
    <3>1. UnknownOnFlash(m)'
      BY <1>0, <2>1, UnknownErased DEF CompactErase
    <3> QED BY <1>0, <2>1, <3>1 DEF CompactErase, Unknown
  <2>2. CASE CompactHeader
    BY <1>0, <1>1, <2>2 DEF CompactHeader, Unknown, Indexed
  <2>3. CASE CompactEnd
    <3>1. End \in Cells /\ End.id # m
      BY PlainUnits, IdsAssumption DEF End, Unit, UnitTypes, RecordTypes
    <3>2. UnknownOnFlash(m)'
      BY <1>0, <2>3, <3>1, UnknownKept DEF CompactEnd
    <3> QED BY <1>0, <2>3, <3>2 DEF CompactEnd, Unknown
  <2>4. CASE CopyRefused
    BY <1>1, <2>4, UnknownAbandoned DEF CopyRefused
  <2>5. CASE CompactFlip \/ CompactStale \/ Horizon
    BY <1>0, <1>1, <2>5 DEF CompactFlip, CompactStale, Horizon, vars, Unknown
  <2>6. CASE CompactReclaim
    <3>1. UnknownOnFlash(m)'
      BY <1>0, <2>6, UnknownErased DEF CompactReclaim
    <3> QED BY <1>0, <2>6, <3>1 DEF CompactReclaim, SwitchRegion, Unknown
  <2>7. ASSUME NEW n \in Ids, CompactCopy(n) PROVE Unknown(m)'
    <3>1. n # m
      BY <1>0, <2>7 DEF CompactCopy
    <3>2. Copy(n) \in Cells /\ Copy(n).id = n
      BY CopyType DEF Copy, Message
    <3>3. UnknownOnFlash(m)'
      BY <1>0, <2>7, <3>1, <3>2, UnknownKept DEF CompactCopy
    <3>4. index'[m] = index[m]
      BY <2>7, <3>1 DEF CompactCopy, TypeOK
    <3> QED BY <1>0, <2>7, <3>3, <3>4 DEF CompactCopy, Unknown
  <2> QED BY <1>3, <2>1, <2>2, <2>3, <2>4, <2>5, <2>6, <2>7 DEF Compaction
<1>4. CASE Append
  <2>1. CASE DoAppend
    <3>1. UnknownOnFlash(m)'
      BY <1>0, <2>1, UnknownKept DEF DoAppend
    <3>2. index'[m] = index[m]
      BY <1>0, <2>1 DEF DoAppend, Applied, TypeOK
    <3>3. op'.rec.id # m
      BY <1>0, <2>1 DEF DoAppend, NoOp
    <3> QED BY <1>0, <2>1, <3>1, <3>2, <3>3 DEF DoAppend, Unknown
  <2>2. CASE NoRoom
    BY <1>1, <2>2, UnknownAbandoned DEF NoRoom
  <2>3. CASE WriteRefused
    <3>1. UnknownOnFlash(m)'
      BY <1>0, <2>3, UnknownKept DEF WriteRefused
    <3> QED BY <2>3, <3>1, UnknownAbandoned DEF WriteRefused
  <2> QED BY <1>4, <2>1, <2>2, <2>3 DEF Append
<1>5. CASE Publisher
  <2>1. PICK n \in Ids : Enqueue(n) \/ Remove(n)
    BY <1>5 DEF Publisher
  <2>2. op'.rec.id = n /\ UNCHANGED <<cell, todo, index>>
    BY <2>1 DEF Enqueue, Remove, Begin, Message, Update
  <2>3. n # m
    BY <1>0, <2>1 DEF Enqueue, Remove, TypeOK
  <2> QED BY <1>0, <1>1, <2>2, <2>3 DEF Unknown
<1>6. CASE Worker
  <2>1. op'.rec.id \in Indexed /\ UNCHANGED <<cell, todo, index>>
    <3>1. ASSUME NEW n \in Ids, Claim(n)
          PROVE  op'.rec.id \in Indexed /\ UNCHANGED <<cell, todo, index>>
      BY <3>1 DEF Claim, Begin, Update, Indexed
    <3>2. CASE MarkDelivered
      BY <3>2 DEF MarkDelivered, Begin, Update
    <3>3. CASE ScheduleRetry
      BY <3>3 DEF ScheduleRetry, Begin, Update
    <3> QED BY <1>6, <3>1, <3>2, <3>3 DEF Worker
  <2>2. op'.rec.id # m
    BY <1>0, <2>1 DEF Indexed
  <2> QED BY <1>0, <1>1, <2>1, <2>2 DEF Unknown
<1>7. CASE Restart
  BY <1>1, <1>7, UnknownReset DEF Restart
<1>8. CASE PowerLoss
  <2>1. UnknownOnFlash(m)'
    <3>1. CASE UNCHANGED cell
      BY <1>1, <3>1
    <3>2. CASE AppendLands
      BY <1>0, <3>2, UnknownKept DEF AppendLands
    <3>3. CASE AppendTears
      BY <1>0, <3>3, UnknownKept DEF AppendTears
    <3>4. ASSUME NEW r \in Regions, NEW k, cell' = PartlyErased(r, k)
          PROVE  UnknownOnFlash(m)'
      BY <1>0, <3>4, UnknownKept
    <3> QED BY <1>8, <3>1, <3>2, <3>3, <3>4, TargetsIn
            DEF PowerLoss, HeaderTears, EraseTears
  <2> QED BY <1>8, <2>1, UnknownReset DEF PowerLoss
<1>9. CASE FlashError
  <2>1. CASE WriteError
    <3>1. UnknownOnFlash(m)'
      BY <1>0, <1>1, <2>1, UnknownKept DEF WriteError
    <3> QED BY <2>1, <3>1, UnknownAbandoned DEF WriteError
  <2>2. CASE ~WriteError
    <3>1. UnknownOnFlash(m)'
      <4>1. ASSUME NEW r \in Regions, NEW k, cell' \in {ErasedCells(r), PartlyErased(r, k)}
            PROVE  UnknownOnFlash(m)'
        BY <1>0, <4>1, UnknownKept
      <4>2. CASE EraseError
        BY <1>1, <4>1, <4>2, TargetsIn DEF EraseError, EraseTears
      <4>3. CASE ~EraseError
        BY <1>1, <1>9, <2>2, <4>3 DEF FlashError, HeaderError, CopyError, FlipError,
           StaleError
      <4> QED BY <4>2, <4>3
    <3>2. Abandon \/ UNCHANGED <<op, todo, index>>
      BY <1>9, <2>2 DEF FlashError, HeaderError, CopyError, FlipError,
         StaleError, EraseError, FailInit, SwitchRegion
    <3> QED BY <1>0, <3>1, <3>2, UnknownAbandoned DEF Unknown
  <2> QED BY <2>1, <2>2
<1>10. CASE Rot
  <2>1. UnknownOnFlash(m)'
    BY <1>0, <1>10 DEF Rot, UnknownOnFlash, TypeOK
  <2> QED BY <1>0, <1>10, <2>1 DEF Rot, Unknown
<1>11. CASE PollIdle \/ UNCHANGED vars
  BY <1>0, <1>1, <1>11 DEF PollIdle, vars, Unknown
<1> QED
  BY <1>2, <1>3, <1>4, <1>5, <1>6, <1>7, <1>8, <1>9, <1>10, <1>11 DEF Next

\* FreshInv is inductive: an id not yet published is nowhere in the backend.
LEMMA FreshNext == TypeOK /\ FreshInv /\ [Next]_vars => FreshInv'
BY NeverFreshAgain, UnknownStep DEF FreshInv

-----------------------------------------------------------------------------
(* The worker's message.                                                   *)

\* The steps at which an operation is in progress.
Busy == {"c_erase", "c_hdr", "c_copy", "c_flip", "c_stale", "c_reclaim", "append"}
\* Between claim_next and mark_delivered or schedule_retry the publishers run
\* whole operations: none of them touches the message the worker holds.
HeldInv ==
  /\ pc \in Busy <=> op.kind # "none"
  /\ op.kind = "enqueue" => op.rec.id \in Ids /\ index[op.rec.id].st = "NONE"
  /\ op.kind = "claim" => op.rec.id \in Ids /\ op.rec.st = "IN_FLIGHT"
  /\ held # NoHeld =>
       /\ pc \in Busy \cup {"idle"}
       /\ held.id \in Ids /\ index[held.id].st = "IN_FLIGHT"
       /\ op.kind \in {"none", "enqueue", "remove", "deliver", "retry", "dead"}
       /\ op.kind = "remove" => op.rec.id # held.id

\* An operation that returns an error keeps HeldInv: the worker drops what it
\* was reporting on, and a failed claim gave it nothing.
LEMMA HeldAbandoned ==
  ASSUME TypeOK, HeldInv, Abandon, pc \in Busy
  PROVE  HeldInv'
BY DEF HeldInv, Abandon, Busy, NoOp, NoHeld, ctx

\* After a reset the worker holds nothing.
LEMMA HeldReset ==
  ASSUME ResetRam, pc' = "off"
  PROVE  HeldInv'
BY DEF HeldInv, ResetRam, Busy, NoOp

\* A step that leaves the operation, the worker's message and the states of
\* the index alone, and stays on its side of Busy.
LEMMA HeldSame ==
  ASSUME TypeOK, HeldInv, UNCHANGED <<op, held>>, pc' \in Busy <=> pc \in Busy,
         held # NoHeld => pc' \in Busy \cup {"idle"},
         \A m \in Ids : index'[m].st = index[m].st
  PROVE  HeldInv'
BY DEF HeldInv

\* The append that completes an operation keeps HeldInv: a claim makes the
\* message IN_FLIGHT and the worker's at once.
LEMMA HeldAppend == TypeOK /\ HeldInv /\ DoAppend => HeldInv'
<1> SUFFICES ASSUME TypeOK, HeldInv, DoAppend PROVE HeldInv'
  OBVIOUS
<1>1. op' = NoOp /\ op'.kind = "none" /\ op'.kind # "claim" /\ pc' = Return /\ pc' \notin Busy
  BY DEF DoAppend, NoOp, Return, Busy
<1>2. CASE op.kind = "claim"
  <2>1. held'.id = op.rec.id /\ op.rec.id \in Ids /\ pc' = "idle"
    <3>1. held' = [id |-> op.rec.id, body |-> op.body]
      BY <1>2 DEF DoAppend, Reports
    <3> QED BY <1>1, <1>2, <3>1 DEF HeldInv, Return
  <2>2. index'[op.rec.id].st = "IN_FLIGHT"
    BY <1>2, <2>1 DEF DoAppend, Applied, HeldInv, EntryOf, Closes, TypeOK
  <2> QED BY <1>1, <2>1, <2>2 DEF HeldInv
<1>3. CASE Reports(op.kind)
  <2>1. held' = NoHeld
    BY <1>3 DEF DoAppend, Reports
  <2> QED BY <1>1, <2>1 DEF HeldInv
<1>4. CASE op.kind # "claim" /\ ~Reports(op.kind)
  <2>1. held' = held
    BY <1>4 DEF DoAppend
  <2>2. CASE held = NoHeld
    BY <1>1, <2>1, <2>2 DEF HeldInv
  <2>3. CASE held # NoHeld
    <3>1. op.kind \in {"enqueue", "remove"} /\ pc' = "idle" /\ held.id \in Ids
      BY <1>4, <2>3 DEF HeldInv, DoAppend, Reports, Return, Busy
    <3>2. op.rec.id # held.id
      BY <2>3, <3>1 DEF HeldInv
    <3>3. index'[held.id] = index[held.id]
      BY <3>1, <3>2 DEF DoAppend, Applied, TypeOK
    <3> QED BY <1>1, <2>1, <2>3, <3>1, <3>3 DEF HeldInv
  <2> QED BY <2>2, <2>3
<1> QED BY <1>2, <1>3, <1>4

\* HeldInv is inductive: no other task takes or removes what the worker
\* holds, since remove is called for PENDING messages only.
LEMMA HeldNext == TypeOK /\ FreshInv /\ HeldInv /\ [Next]_vars => HeldInv'
<1> SUFFICES ASSUME TypeOK, FreshInv, HeldInv, [Next]_vars PROVE HeldInv'
  OBVIOUS
<1> USE DEF flash, ctx, history, budget
<1>0. \A kind \in Kinds \ {"none"} : \A rec, body :
        Begin(kind, rec, body) => /\ pc' \in Busy /\ op'.kind = kind /\ op'.rec = rec
  BY DEF Begin, Busy
<1>1. CASE Recovery
  <2>1. CASE Boot \/ Format \/ EraseSpare \/ ScanEnd \/ Recovered
    BY <1>1, <2>1 DEF Boot, Format, FormatErase, FormatHeader, EraseSpare, ScanEnd,
       Recovered, HeldInv, Busy
  <2>2. CASE ScanRecord
    BY <2>2 DEF ScanRecord, HeldInv, Busy
  <2>3. ASSUME NEW m \in Ids, Requeue(m) PROVE HeldInv'
    BY <1>0, <2>3 DEF Requeue, HeldInv, Busy, Kinds
  <2> QED BY <1>1, <2>1, <2>2, <2>3 DEF Recovery
<1>2. CASE Restart \/ PowerLoss
  BY <1>2, HeldReset DEF Restart, PowerLoss
<1>3. CASE Compaction
  <2>1. CASE CompactErase \/ CompactHeader \/ CompactEnd \/ CompactFlip \/ CompactStale
             \/ CompactReclaim \/ Horizon
    BY <2>1, HeldSame DEF CompactErase, CompactHeader, CompactEnd, CompactFlip,
       CompactStale, CompactReclaim, SwitchRegion, Horizon, vars, Busy
  <2>2. CASE CopyRefused
    BY <2>2, HeldAbandoned DEF CopyRefused, Busy
  <2>3. ASSUME NEW m \in Ids, CompactCopy(m) PROVE HeldInv'
    <3>1. \A n \in Ids : index'[n].st = index[n].st
      BY <2>3 DEF CompactCopy, TypeOK, Entries
    <3> QED BY <2>3, <3>1, HeldSame DEF CompactCopy, Busy
  <2> QED BY <1>3, <2>1, <2>2, <2>3 DEF Compaction
<1>4. CASE Append
  BY <1>4, HeldAppend, HeldAbandoned DEF Append, NoRoom, WriteRefused, Busy
<1>5. CASE Publisher
  <2>1. ASSUME NEW m \in Ids, Enqueue(m) PROVE HeldInv'
    <3>1. /\ pc = "idle" /\ pc' \in Busy /\ op'.kind = "enqueue" /\ op'.rec.id = m
          /\ UNCHANGED <<index, held>>
      BY <1>0, <2>1 DEF Enqueue, Message, Kinds
    <3>2. index[m].st = "NONE"
      BY <2>1 DEF Enqueue, FreshInv, Unknown
    <3> QED BY <3>1, <3>2 DEF HeldInv
  <2>2. ASSUME NEW m \in Ids, Remove(m) PROVE HeldInv'
    <3>1. /\ pc = "idle" /\ pc' \in Busy /\ op'.kind = "remove" /\ op'.rec.id = m
          /\ UNCHANGED <<index, held>> /\ index[m].st = "PENDING"
      BY <1>0, <2>2 DEF Remove, Update, Kinds
    <3> QED BY <3>1 DEF HeldInv
  <2> QED BY <1>5, <2>1, <2>2 DEF Publisher
<1>6. CASE Worker
  <2>1. ASSUME NEW m \in Ids, Claim(m) PROVE HeldInv'
    <3>1. /\ held = NoHeld /\ pc' \in Busy /\ op'.kind \in {"claim", "corrupt"}
          /\ op'.kind = "claim" => op'.rec.id = m /\ op'.rec.st = "IN_FLIGHT"
          /\ UNCHANGED <<index, held>>
      BY <1>0, <2>1 DEF Claim, Update, Kinds
    <3> QED BY <3>1 DEF HeldInv
  <2>2. CASE MarkDelivered \/ ScheduleRetry
    <3>1. /\ pc = "idle" /\ pc' \in Busy /\ op'.kind \in {"deliver", "retry", "dead"}
          /\ UNCHANGED <<index, held>>
      BY <1>0, <2>2 DEF MarkDelivered, ScheduleRetry, Kinds
    <3> QED BY <3>1 DEF HeldInv
  <2> QED BY <1>6, <2>1, <2>2 DEF Worker
<1>7. CASE FlashError
  <2>1. CASE Abandon /\ pc \in Busy
    BY <2>1, HeldAbandoned
  <2>2. CASE FailInit /\ pc \notin Busy /\ pc # "idle"
    BY <2>2, HeldSame DEF FailInit, HeldInv, Busy
  <2>3. CASE StaleError \/ (SwitchRegion /\ pc \in Busy)
    BY <2>3, HeldSame DEF StaleError, SwitchRegion, Busy
  <2> QED
    BY <1>7, <2>1, <2>2, <2>3 DEF FlashError, WriteError, HeaderError, CopyError,
       FlipError, EraseError, EraseTears, HeaderTarget, EraseTarget, Busy
<1>8. CASE Rot \/ PollIdle \/ UNCHANGED vars
  BY <1>8, HeldSame DEF Rot, PollIdle, vars, HeldInv
<1> QED BY <1>1, <1>2, <1>3, <1>4, <1>5, <1>6, <1>7, <1>8 DEF Next

\* While the worker delivers a message, outside the backend's mutex (worker.c:
\* 37-66), whatever publishers enqueue and drop and whatever the flash does, the
\* message stays IN_FLIGHT: no overflow policy drops it and no second claim is
\* made of it.
THEOREM NoOtherTakesTheHeld == Spec => []HeldInFlight
<1>1. Init => FreshInv /\ HeldInv
  BY IdsAssumption DEF Init, FreshInv, Unknown, UnknownOnFlash, HeldInv, Busy,
     NoOp, Blank, Unit, Absent
<1>2. HeldInv => HeldInFlight
  BY DEF HeldInv, HeldInFlight
<1> QED BY <1>1, <1>2, TypeInit, TypeNext, FreshNext, HeldNext, PTL DEF Spec

-----------------------------------------------------------------------------
(* The log of a region whose contents are c.                               *)

\* What decode_header and verify_body accept at offset o.
Valid(c, o) ==
  /\ c[o].t \in RecordTypes /\ c[o].ok
  /\ o + Size(c[o]) <= Capacity
  /\ \A x \in Span(o, Size(c[o])) \ {o} : c[x] = Cont
\* The records a scan from o reads, and the ones it reads from the start.
From(c) ==
  LET from[o \in 0 .. Capacity] ==
        IF o < Capacity /\ Valid(c, o) THEN {o} \cup from[o + Size(c[o])] ELSE {}
  IN from
LogOf(c) == From(c)[0]

\* The offsets S are those of records that follow one another from the start
\* up to e, where no record follows.
Chain(c, S, e) ==
  /\ e \in 0 .. Capacity /\ S \subseteq 0 .. e - 1 /\ 0 \in S \cup {e}
  /\ \A o \in S : Valid(c, o) /\ o + Size(c[o]) \in S \cup {e}
  /\ \A o, p \in S : o < p => o + Size(c[o]) <= p
  /\ ~(e < Capacity /\ Valid(c, e))
LogEnd(c) == CHOOSE e \in 0 .. Capacity : Chain(c, LogOf(c), e)

\* What the records at the offsets R, all of one message, say of it.
EntryIn(c, R) ==
  LET last == CHOOSE o \in R : \A p \in R : p <= o
      at   == CHOOSE o \in R : c[o].t = "MESSAGE"
  IN IF \A o \in R : c[o].t # "MESSAGE" THEN Absent
     ELSE EntryOf(c[last].st, c[last].att, at)
\* The records of m before offset e, what they say, and the messages a scan has
\* in its index when it comes to e.
Before(c, e, m) == {o \in LogOf(c) : o < e /\ c[o].id = m}
EntryAt(c, e, m) == EntryIn(c, Before(c, e, m))
IndexedAt(c, e) == {m \in Ids : EntryAt(c, e, m) # Absent}

\* A log that the backend writes: a message has one MESSAGE record, its first,
\* which came when there was room in the index; every UPDATE is of a message
\* that was in the index.
GoodRecord(c, o, rec) ==
  /\ rec.t = "MESSAGE" =>
       /\ rec.st \in {"PENDING", "IN_FLIGHT", "DEAD_LETTER"} /\ rec.body = rec.id
       /\ Before(c, o, rec.id) = {} /\ Cardinality(IndexedAt(c, o)) < MaxMessages
  /\ rec.t = "UPDATE" => rec.st \in States /\ rec.id \in IndexedAt(c, o)
  /\ rec.t = "END" => rec.id = NoId
GoodLog(c) == \A o \in LogOf(c) : GoodRecord(c, o, c[o])
\* After it nothing looks like a record, whatever a power loss tore there.
GoodTail(c) == \A x \in Offsets : x >= LogEnd(c) => c[x].t \notin RecordTypes
\* It leaves room for an END record, or has one.
HasEnd(c) == \E o \in LogOf(c) : c[o].t = "END"
GoodRoom(c) == HasEnd(c) \/ LogEnd(c) + SectorSize <= Capacity
Good(c) == GoodLog(c) /\ GoodTail(c) /\ GoodRoom(c)

-----------------------------------------------------------------------------
(* Induction.  The provers cannot instantiate an induction theorem, which  *)
(* takes a predicate; that a set of numbers has a least element they can   *)
(* use, and it is all the induction that is needed.                        *)

\* The least element of a set of naturals.
LEMMA Least ==
  ASSUME NEW T, T \subseteq Nat, T # {}
  PROVE  \E x \in T : \A y \in T : x <= y
<1>1. IsWellFoundedOn(OpToRel(<, Nat), Nat)
  BY NatLessThanWellFounded
<1>2. PICK x \in T : \A y \in T : ~ (<<y, x>> \in OpToRel(<, Nat))
  BY <1>1, WFMin, Zenon
<1>3. \A y \in T : ~ (y < x)
  BY <1>2 DEF OpToRel
<1> QED BY <1>3

\* The greatest element of a set of naturals that has a bound.
LEMMA Greatest ==
  ASSUME NEW n \in Nat, NEW T, T \subseteq 0 .. n, T # {}
  PROVE  \E x \in T : \A y \in T : y <= x
<1> DEFINE B == {b \in Nat : \A y \in T : y <= b}
<1>1. B \subseteq Nat /\ n \in B
  OBVIOUS
<1>2. PICK b \in B : \A d \in B : b <= d
  BY <1>1, Least
<1>3. \A y \in T : y <= b
  OBVIOUS
<1>4. b \in T
  <2> SUFFICES ASSUME b \notin T PROVE FALSE
    OBVIOUS
  <2>1. PICK z \in T : TRUE
    OBVIOUS
  <2>2. \A y \in T : y < b
    BY <1>3
  <2>3. b - 1 \in Nat
    BY <2>1, <2>2
  <2>4. b - 1 \in B
    BY <2>2, <2>3
  <2> QED BY <1>2, <2>4
<1> QED BY <1>3, <1>4

-----------------------------------------------------------------------------
(* Logs.                                                                   *)

Contents == [Offsets -> Cells]

\* A record takes some units, and a message's record no fewer than an update.
LEMMA SizePositive == \A rec \in Cells : Size(rec) \in Nat /\ Size(rec) >= UpdSize /\ Size(rec) > 0
BY SizeAssumption DEF Cells, Size

\* The arithmetic of offsets.
LEMMA OffsetsNat == /\ Capacity \in Nat /\ Offsets \subseteq Nat
                    /\ \A x : x \in Offsets <=> x \in Nat /\ x < Capacity
BY SizeAssumption DEF Offsets

\* A valid record ends in the region, after it began.
LEMMA ValidEnds ==
  ASSUME NEW c \in Contents, NEW o \in Nat, o < Capacity, Valid(c, o)
  PROVE  o + Size(c[o]) \in o + 1 .. Capacity
<1>1. c[o] \in Cells
  BY OffsetsNat DEF Contents
<1> QED BY <1>1, SizePositive, OffsetsNat DEF Valid

\* The scan that Log describes is well defined: it moves forward.
LEMMA FromDefined ==
  ASSUME NEW c \in Contents
  PROVE  From(c) = [o \in 0 .. Capacity |->
                      IF o < Capacity /\ Valid(c, o) THEN {o} \cup From(c)[o + Size(c[o])]
                      ELSE {}]
<1> DEFINE next(o) == o + Size(c[o])
           more(o) == o < Capacity /\ Valid(c, o)
           solves(g, k) == g = [o \in k .. Capacity |->
                                  IF more(o) THEN {o} \cup g[next(o)] ELSE {}]
           T == {k \in 0 .. Capacity : \E g : solves(g, k)}
<1>0. /\ Capacity \in Nat
      /\ \A o \in 0 .. Capacity : more(o) => next(o) \in o + 1 .. Capacity
  BY ValidEnds, OffsetsNat
<1> HIDE DEF next, more
<1>1. Capacity \in T
  <2> DEFINE g == [o \in Capacity .. Capacity |-> {}]
  <2>1. \A o \in Capacity .. Capacity : ~more(o)
    BY <1>0 DEF more
  <2>2. solves(g, Capacity)
    BY <2>1
  <2> HIDE DEF g, solves
  <2> QED BY <1>0, <2>2
<1>2. PICK k \in T : \A j \in T : k <= j
  <2> HIDE DEF solves
  <2>1. T \subseteq Nat
    BY <1>0
  <2> HIDE DEF T
  <2>2. T # {}
    BY <1>1
  <2> QED BY <2>1, <2>2, Least
<1>3. PICK g : solves(g, k)
  OBVIOUS
<1>4. k = 0
  <2> SUFFICES ASSUME k # 0 PROVE FALSE
    OBVIOUS
  <2> DEFINE j == k - 1
             f == [o \in j .. Capacity |->
                     IF o = j THEN (IF more(j) THEN {j} \cup g[next(j)] ELSE {}) ELSE g[o]]
  <2>1. j \in 0 .. Capacity /\ j < k /\ \A o \in j .. Capacity : o = j \/ o \in k .. Capacity
    BY <1>0
  <2> HIDE DEF j
  <2>2. \A o \in j .. Capacity : more(o) => next(o) \in k .. Capacity /\ next(o) # j /\ next(o) \in j .. Capacity
    <3> SUFFICES ASSUME NEW o \in j .. Capacity, more(o)
                 PROVE  next(o) \in k .. Capacity /\ next(o) # j /\ next(o) \in j .. Capacity
      OBVIOUS
    <3>1. o \in 0 .. Capacity /\ next(o) \in o + 1 .. Capacity
      BY <1>0, <2>1
    <3> QED BY <1>0, <2>1, <3>1 DEF j
  <2>3. \A o \in j .. Capacity : more(o) => f[next(o)] = g[next(o)]
    BY <2>2
  <2>4. \A o \in k .. Capacity : g[o] = IF more(o) THEN {o} \cup g[next(o)] ELSE {}
    BY <1>3
  <2>5. solves(f, j)
    <3>1. \A o \in j .. Capacity : f[o] = IF more(o) THEN {o} \cup f[next(o)] ELSE {}
      BY <2>1, <2>3, <2>4
    <3> QED BY <3>1
  <2>6. j \in T
    BY <2>1, <2>5
  <2> QED BY <1>2, <2>1, <2>6
<1>5. \E f : f = [o \in 0 .. Capacity |->
                    IF o < Capacity /\ Valid(c, o) THEN {o} \cup f[o + Size(c[o])] ELSE {}]
  BY <1>3, <1>4 DEF next, more
<1> QED BY <1>5 DEF From

\* What the scan from o finds, at every o.
LEMMA FromStep ==
  ASSUME NEW c \in Contents, NEW o \in 0 .. Capacity
  PROVE  From(c)[o] = IF o < Capacity /\ Valid(c, o) THEN {o} \cup From(c)[o + Size(c[o])]
                      ELSE {}
<1> DEFINE F == From(c)
           more(x) == x < Capacity /\ Valid(c, x)
<1>1. F = [x \in 0 .. Capacity |-> IF more(x) THEN {x} \cup F[x + Size(c[x])] ELSE {}]
  BY FromDefined
<1> HIDE DEF F, more
<1>2. F[o] = IF more(o) THEN {o} \cup F[o + Size(c[o])] ELSE {}
  BY <1>1
<1> QED BY <1>2 DEF F, more

\* The scan from o finds a chain of records that begins there.
ChainFrom(c, o, S, e) ==
  /\ e \in o .. Capacity /\ S \subseteq o .. e - 1 /\ o \in S \cup {e}
  /\ \A p \in S : Valid(c, p) /\ p + Size(c[p]) \in S \cup {e}
  /\ \A p, q \in S : p < q => p + Size(c[p]) <= q
  /\ ~(e < Capacity /\ Valid(c, e))
\* A scan from any offset reads a chain that ends before the first invalid record.
LEMMA ChainsFrom ==
  ASSUME NEW c \in Contents
  PROVE  \A o \in 0 .. Capacity : \E e : ChainFrom(c, o, From(c)[o], e)
<1> DEFINE T == {o \in 0 .. Capacity : ~ \E e : ChainFrom(c, o, From(c)[o], e)}
<1> SUFFICES ASSUME T # {} PROVE FALSE
  OBVIOUS
<1>0. Capacity \in Nat
  BY OffsetsNat
<1>1. PICK o \in T : \A p \in T : p <= o
  <2>1. T \subseteq 0 .. Capacity
    OBVIOUS
  <2> HIDE DEF T
  <2> QED BY <1>0, <2>1, Greatest
<1>2. o \in 0 .. Capacity /\ ~ \E e : ChainFrom(c, o, From(c)[o], e)
  OBVIOUS
<1>3. CASE ~(o < Capacity /\ Valid(c, o))
  <2>1. From(c)[o] = {}
    BY <1>2, <1>3, FromStep
  <2>2. ChainFrom(c, o, {}, o)
    BY <1>0, <1>2, <1>3 DEF ChainFrom
  <2> QED BY <1>2, <2>1, <2>2
<1>4. CASE o < Capacity /\ Valid(c, o)
  <2> DEFINE n == o + Size(c[o])
             S == From(c)[n]
  <2>1. n \in o + 1 .. Capacity
    BY <1>2, <1>4, ValidEnds
  <2>2. n \in 0 .. Capacity /\ n \notin T
    <3>1. n \in 0 .. Capacity /\ ~(n <= o)
      BY <1>0, <1>2, <2>1
    <3> HIDE DEF n, T
    <3> QED BY <1>1, <3>1
  <2>3. PICK e : ChainFrom(c, n, S, e)
    BY <2>2
  <2>4. From(c)[o] = {o} \cup S
    BY <1>2, <1>4, FromStep
  <2> HIDE DEF S
  <2>5. ChainFrom(c, o, {o} \cup S, e)
    <3>1. e \in o .. Capacity /\ {o} \cup S \subseteq o .. e - 1
      <4>1. S \subseteq n .. e - 1 /\ e \in n .. Capacity
        BY <2>3 DEF ChainFrom
      <4> HIDE DEF n
      <4> QED BY <1>0, <1>2, <2>1, <4>1
    <3>2. \A p \in {o} \cup S : Valid(c, p) /\ p + Size(c[p]) \in ({o} \cup S) \cup {e}
      BY <1>4, <2>3 DEF ChainFrom
    <3>3. \A p, q \in {o} \cup S : p < q => p + Size(c[p]) <= q
      <4>1. \A q \in S : n <= q /\ o < q
        <5>1. S \subseteq n .. e - 1 /\ e \in n .. Capacity
          BY <2>3 DEF ChainFrom
        <5> HIDE DEF n
        <5> QED BY <1>2, <2>1, <5>1
      <4>2. \A p, q \in S : p < q => p + Size(c[p]) <= q
        BY <2>3 DEF ChainFrom
      <4> SUFFICES ASSUME NEW p \in {o} \cup S, NEW q \in {o} \cup S, p < q
                   PROVE  p + Size(c[p]) <= q
        OBVIOUS
      <4>3. CASE q = o
        <5>1. p = o \/ o < p
          BY <4>1
        <5>2. p \in Int
          BY <1>2, <3>1
        <5> QED BY <1>2, <4>3, <5>1, <5>2
      <4>4. CASE q \in S
        BY <4>1, <4>2, <4>4
      <4> QED BY <4>3, <4>4
    <3>4. ~(e < Capacity /\ Valid(c, e))
      BY <2>3 DEF ChainFrom
    <3> QED BY <3>1, <3>2, <3>3, <3>4 DEF ChainFrom
  <2> QED BY <1>2, <2>4, <2>5
<1> QED BY <1>3, <1>4

\* The log of a region is a chain of records, up to its end.
LEMMA LogIsChain ==
  ASSUME NEW c \in Contents
  PROVE  /\ LogEnd(c) \in 0 .. Capacity
         /\ Chain(c, LogOf(c), LogEnd(c))
<1>1. PICK e : ChainFrom(c, 0, From(c)[0], e)
  BY ChainsFrom, OffsetsNat
<1>2. e \in 0 .. Capacity /\ Chain(c, LogOf(c), e)
  BY <1>1 DEF ChainFrom, Chain, LogOf
<1> QED BY <1>2 DEF LogEnd

\* A chain of records is the log.
LEMMA ChainIsLog ==
  ASSUME NEW c \in Contents, NEW S, NEW e, Chain(c, S, e)
  PROVE  LogOf(c) = S
<1> DEFINE T == {o \in S \cup {e} : From(c)[o] # {p \in S : p >= o}}
<1>0. /\ Capacity \in Nat /\ e \in 0 .. Capacity /\ S \subseteq 0 .. e - 1
      /\ S \cup {e} \subseteq 0 .. Capacity /\ 0 \in S \cup {e}
  BY OffsetsNat DEF Chain
<1>1. T = {}
  <2> SUFFICES ASSUME T # {} PROVE FALSE
    OBVIOUS
  <2>1. PICK o \in T : \A p \in T : p <= o
    <3>1. T \subseteq 0 .. Capacity
      BY <1>0
    <3> HIDE DEF T
    <3> QED BY <1>0, <3>1, Greatest
  <2>2. o \in S \cup {e} /\ From(c)[o] # {p \in S : p >= o} /\ o \in 0 .. Capacity
    BY <1>0
  <2>3. CASE o = e
    <3>1. From(c)[o] = {}
      BY <1>0, <2>3, FromStep DEF Chain
    <3>2. \A p \in S : ~(p >= o)
      BY <1>0, <2>3
    <3>3. {p \in S : p >= o} = {}
      BY <3>2
    <3> QED BY <2>2, <3>1, <3>3
  <2>4. CASE o \in S
    <3> DEFINE n == o + Size(c[o])
    <3>1. o < Capacity /\ Valid(c, o) /\ n \in S \cup {e} /\ n \in o + 1 .. Capacity
      <4>1. o < Capacity /\ Valid(c, o) /\ n \in S \cup {e}
        BY <1>0, <2>4 DEF Chain
      <4> QED BY <2>2, <4>1, ValidEnds
    <3>2. \A p \in S : o < p => n <= p
      BY <2>4 DEF Chain
    <3> HIDE DEF n
    <3>3. n \notin T
      BY <2>1, <2>2, <3>1
    <3>4. From(c)[n] = {p \in S : p >= n}
      BY <3>1, <3>3
    <3>5. From(c)[o] = {o} \cup From(c)[n]
      BY <2>2, <3>1, FromStep DEF n
    <3>6. {o} \cup {p \in S : p >= n} = {p \in S : p >= o}
      <4>1. \A p \in S : p \in Int
        BY <1>0
      <4>2. \A p \in S : p >= n \/ p = o <=> p >= o
        BY <2>2, <3>1, <3>2, <4>1
      <4> QED BY <2>2, <2>4, <4>2
    <3> QED BY <2>2, <3>4, <3>5, <3>6
  <2> QED BY <2>2, <2>3, <2>4
<1>2. From(c)[0] = {p \in S : p >= 0}
  BY <1>0, <1>1
<1>3. \A p \in S : p >= 0
  BY <1>0
<1>4. {p \in S : p >= 0} = S
  BY <1>3
<1> QED BY <1>2, <1>4 DEF LogOf

\* It has one end.
LEMMA ChainIsLogEnd ==
  ASSUME NEW c \in Contents, NEW S, NEW e, Chain(c, S, e)
  PROVE  LogOf(c) = S /\ LogEnd(c) = e
<1> DEFINE f == LogEnd(c)
<1>1. LogOf(c) = S
  BY ChainIsLog
<1>2. Chain(c, S, f)
  BY <1>1, LogIsChain
<1> HIDE DEF f
<1>3. CASE S = {}
  BY <1>1, <1>2, <1>3 DEF Chain, f
<1>4. CASE S # {}
  <2>1. S \subseteq 0 .. Capacity /\ Capacity \in Nat
    BY OffsetsNat DEF Chain
  <2>2. PICK o \in S : \A p \in S : p <= o
    BY <1>4, <2>1, Greatest
  <2>3. o < Capacity /\ o \in Nat /\ Valid(c, o)
    BY <2>1, OffsetsNat DEF Chain
  <2>4. o + Size(c[o]) \in o + 1 .. Capacity
    BY <2>3, ValidEnds
  <2>5. o + Size(c[o]) \notin S
    BY <2>2, <2>3, <2>4
  <2>6. o + Size(c[o]) = e /\ o + Size(c[o]) = f
    BY <1>2, <2>5 DEF Chain
  <2> QED BY <1>1, <2>6 DEF f
<1> QED BY <1>3, <1>4

\* The records of a log, and its end.
LEMMA LogFacts ==
  ASSUME NEW c \in Contents
  PROVE  /\ LogEnd(c) \in Nat /\ LogEnd(c) <= Capacity
         /\ \A o \in LogOf(c) :
              /\ o \in Offsets /\ o \in Nat /\ o < LogEnd(c) /\ o < Capacity
              /\ Valid(c, o) /\ c[o] \in Cells /\ c[o].t \in RecordTypes /\ c[o].ok
              /\ Size(c[o]) \in Nat /\ Size(c[o]) > 0
              /\ o + Size(c[o]) <= LogEnd(c)
              /\ o + Size(c[o]) \in LogOf(c) \cup {LogEnd(c)}
         /\ \A o, p \in LogOf(c) : o < p => o + Size(c[o]) <= p
         /\ 0 \in LogOf(c) \cup {LogEnd(c)}
         /\ ~(LogEnd(c) < Capacity /\ Valid(c, LogEnd(c)))
<1> DEFINE S == LogOf(c)
           e == LogEnd(c)
<1>1. Chain(c, S, e) /\ e \in 0 .. Capacity /\ Capacity \in Nat
  BY LogIsChain, OffsetsNat
<1> HIDE DEF S, e
<1>2. \A o \in S : o \in Nat /\ o < e /\ o < Capacity /\ Valid(c, o) /\ o + Size(c[o]) \in S \cup {e}
  BY <1>1 DEF Chain
<1>3. \A o \in S : o \in Offsets /\ c[o] \in Cells
  BY <1>2, OffsetsNat DEF Contents
<1>4. \A o \in S : c[o].t \in RecordTypes /\ c[o].ok /\ Size(c[o]) \in Nat /\ Size(c[o]) > 0
  BY <1>2, <1>3, SizePositive DEF Valid
<1>5. \A o \in S : o + Size(c[o]) <= e
  BY <1>1, <1>2, <1>4
<1>6. /\ \A o, p \in S : o < p => o + Size(c[o]) <= p
      /\ 0 \in S \cup {e} /\ ~(e < Capacity /\ Valid(c, e)) /\ e \in Nat /\ e <= Capacity
  BY <1>1 DEF Chain
<1> QED BY <1>2, <1>3, <1>4, <1>5, <1>6 DEF S, e

\* A region with nothing that looks like a record has an empty log.
LEMMA LogEmpty ==
  ASSUME NEW c \in Contents, \A x \in Offsets : c[x].t \notin RecordTypes
  PROVE  LogOf(c) = {} /\ LogEnd(c) = 0
<1>1. Chain(c, {}, 0)
  BY OffsetsNat DEF Chain, Valid
<1> QED BY <1>1, ChainIsLogEnd

\* Contents that agree with c up to its end, and hold no record there, have
\* the same log.
LEMMA LogTail ==
  ASSUME NEW c \in Contents, NEW d \in Contents,
         \A x \in Offsets : x < LogEnd(c) => d[x] = c[x],
         \A x \in Offsets : x >= LogEnd(c) => d[x].t \notin RecordTypes
  PROVE  LogOf(d) = LogOf(c) /\ LogEnd(d) = LogEnd(c)
<1> DEFINE S == LogOf(c)
           e == LogEnd(c)
<1>1. \A o \in S : d[o] = c[o]
  BY LogFacts
<1>2. \A o \in S : Valid(d, o)
  <2> SUFFICES ASSUME NEW o \in S PROVE Valid(d, o)
    OBVIOUS
  <2>1. /\ Valid(c, o) /\ d[o] = c[o] /\ o \in Nat /\ Size(c[o]) \in Nat /\ Size(c[o]) > 0
        /\ o + Size(c[o]) <= e /\ e \in Nat /\ e <= Capacity
    BY <1>1, LogFacts
  <2>2. \A x \in Span(o, Size(c[o])) : x \in Offsets /\ x < e
    BY <2>1, OffsetsNat DEF Span
  <2>3. \A x \in Span(o, Size(c[o])) : d[x] = c[x]
    BY <2>2
  <2> QED BY <2>1, <2>3 DEF Valid
<1>3. ~(e < Capacity /\ Valid(d, e))
  BY LogFacts, OffsetsNat DEF Valid
<1>4. Chain(d, S, e)
  BY <1>1, <1>2, <1>3, LogIsChain DEF Chain
<1> QED BY <1>4, ChainIsLogEnd

\* A region with the record rec written at o.
Put(c, o, rec) == [x \in Offsets |-> IF x = o THEN rec
                                     ELSE IF x \in Span(o, Size(rec)) THEN Cont ELSE c[x]]
\* A record written at the end of a log is the last of the new log.
LEMMA LogAppend ==
  ASSUME NEW c \in Contents, GoodTail(c), NEW rec \in Cells, rec.t \in RecordTypes, rec.ok,
         LogEnd(c) + Size(rec) <= Capacity,
         NEW d, d = Put(c, LogEnd(c), rec)
  PROVE  /\ d \in Contents /\ d[LogEnd(c)] = rec
         /\ \A x \in Offsets : x < LogEnd(c) => d[x] = c[x]
         /\ \A x \in Offsets : x >= LogEnd(c) + Size(rec) => d[x] = c[x]
         /\ LogOf(d) = LogOf(c) \cup {LogEnd(c)} /\ LogEnd(d) = LogEnd(c) + Size(rec)
         /\ GoodTail(d)
<1> DEFINE S == LogOf(c)
           e == LogEnd(c)
           n == Size(rec)
<1>0. /\ e \in Nat /\ n \in Nat /\ n > 0 /\ Capacity \in Nat /\ e + n <= Capacity /\ e \in Offsets
      /\ \A x \in Offsets : x \in Nat
  BY LogFacts, SizePositive, OffsetsNat
<1>1. d \in Contents
  <2>1. Cont \in Cells
    BY PlainUnits DEF Cont, UnitTypes
  <2> QED BY <2>1 DEF Put, Contents
<1>2. \A x \in Offsets : x < e => d[x] = c[x]
  BY <1>0 DEF Put, Span
<1>3. d[e] = rec /\ \A x \in Span(e, n) \ {e} : d[x] = Cont
  BY <1>0, OffsetsNat DEF Put, Span
<1>4. \A x \in Offsets : x >= e + n => d[x] = c[x]
  BY <1>0 DEF Put, Span
<1>5. \A o \in S : d[o] = c[o] /\ Valid(d, o)
  <2> SUFFICES ASSUME NEW o \in S PROVE d[o] = c[o] /\ Valid(d, o)
    OBVIOUS
  <2>1. /\ Valid(c, o) /\ d[o] = c[o] /\ o \in Nat /\ Size(c[o]) \in Nat /\ Size(c[o]) > 0
        /\ o + Size(c[o]) <= e /\ e \in Nat /\ e <= Capacity
    BY <1>2, LogFacts
  <2>2. \A x \in Span(o, Size(c[o])) : x \in Offsets /\ x < e
    BY <2>1, OffsetsNat DEF Span
  <2>3. \A x \in Span(o, Size(c[o])) : d[x] = c[x]
    BY <1>2, <2>2
  <2> QED BY <2>1, <2>3 DEF Valid
<1>6. Valid(d, e)
  BY <1>0, <1>3 DEF Valid
<1>7. ~(e + n < Capacity /\ Valid(d, e + n))
  <2> SUFFICES ASSUME e + n < Capacity PROVE d[e + n].t \notin RecordTypes
    BY DEF Valid
  <2>1. e + n \in Offsets /\ e + n >= e
    BY <1>0, OffsetsNat
  <2> QED BY <1>0, <1>4, <2>1 DEF GoodTail
<1>8. Chain(d, S \cup {e}, e + n)
  <2>1. e + n \in 0 .. Capacity /\ S \cup {e} \subseteq 0 .. (e + n) - 1
    <3>1. \A o \in S : o \in Nat /\ o < e
      BY LogFacts
    <3> HIDE DEF S, e, n
    <3> QED BY <1>0, <3>1
  <2>2. \A o \in S \cup {e} : Valid(d, o) /\ o + Size(d[o]) \in (S \cup {e}) \cup {e + n}
    BY <1>3, <1>5, <1>6, LogFacts
  <2>3. \A o, p \in S \cup {e} : o < p => o + Size(d[o]) <= p
    BY <1>0, <1>5, LogFacts
  <2>4. 0 \in S \cup {e}
    BY LogFacts
  <2> QED BY <1>7, <2>1, <2>2, <2>3, <2>4 DEF Chain
<1>9. LogOf(d) = S \cup {e} /\ LogEnd(d) = e + n
  BY <1>1, <1>8, ChainIsLogEnd
<1>10. GoodTail(d)
  <2> SUFFICES ASSUME NEW x \in Offsets, x >= e + n PROVE d[x].t \notin RecordTypes
    BY <1>9 DEF GoodTail
  <2>1. x >= e /\ d[x] = c[x]
    BY <1>0, <1>4
  <2> QED BY <2>1 DEF GoodTail
<1> QED BY <1>1, <1>2, <1>3, <1>4, <1>9, <1>10

-----------------------------------------------------------------------------
(* What the records of a log say of a message.                             *)

\* An entry from the last record and from the MESSAGE record.
LEMMA EntryTold ==
  ASSUME NEW c, NEW R, R \subseteq Nat, NEW at \in R, NEW last \in R, c[at].t = "MESSAGE",
         \A o \in R : c[o].t = "MESSAGE" => o = at, \A p \in R : p <= last
  PROVE  EntryIn(c, R) = EntryOf(c[last].st, c[last].att, at)
<1>1. (CHOOSE o \in R : c[o].t = "MESSAGE") = at
  OBVIOUS
<1>2. (CHOOSE o \in R : \A p \in R : p <= o) = last
  <2>1. \A o \in R : (\A p \in R : p <= o) => o = last
    OBVIOUS
  <2> QED BY <2>1
<1> QED BY <1>1, <1>2 DEF EntryIn

\* In a good log the first record of a message is its MESSAGE, and the only one.
LEMMA Told ==
  ASSUME NEW c \in Contents, GoodLog(c), NEW e \in Nat, NEW m \in Ids, Before(c, e, m) # {}
  PROVE  \E at, last \in Before(c, e, m) :
           /\ c[at].t = "MESSAGE" /\ \A o \in Before(c, e, m) : c[o].t = "MESSAGE" => o = at
           /\ \A p \in Before(c, e, m) : at <= p /\ p <= last
           /\ EntryAt(c, e, m) = EntryOf(c[last].st, c[last].att, at)
<1> DEFINE R == Before(c, e, m)
<1>0. \A o \in R : o \in LogOf(c) /\ o \in Nat /\ o < Capacity /\ c[o].id = m /\ o < e
                   /\ c[o].t \in RecordTypes
  BY LogFacts DEF Before
<1>1. PICK at \in R : \A p \in R : at <= p
  <2>1. R \subseteq Nat
    BY <1>0
  <2> QED BY <2>1, Least
<1>2. PICK last \in R : \A p \in R : p <= last
  <2>1. R \subseteq 0 .. Capacity
    BY <1>0, OffsetsNat
  <2> QED BY <2>1, Greatest, OffsetsNat
<1>3. c[at].t = "MESSAGE"
  <2>1. GoodRecord(c, at, c[at]) /\ c[at].id = m
    BY <1>0 DEF GoodLog
  <2>2. c[at].t # "END"
    BY <2>1, IdsAssumption DEF GoodRecord
  <2>3. c[at].t # "UPDATE"
    <3> SUFFICES ASSUME c[at].t = "UPDATE" PROVE FALSE
      OBVIOUS
    <3>1. EntryAt(c, at, m) # Absent
      BY <2>1 DEF GoodRecord, IndexedAt
    <3>2. PICK o \in Before(c, at, m) : TRUE
      BY <3>1 DEF EntryAt, EntryIn
    <3>3. o \in R /\ o < at
      BY <1>0, <3>2, LogFacts DEF Before
    <3> QED BY <1>0, <1>1, <3>3
  <2> QED BY <1>0, <2>2, <2>3 DEF RecordTypes
<1>4. ASSUME NEW o \in R, c[o].t = "MESSAGE" PROVE o = at
  <2>1. Before(c, o, m) = {}
    BY <1>0, <1>4 DEF GoodLog, GoodRecord
  <2>2. ~(at < o)
    BY <1>0, <2>1 DEF Before
  <2> QED BY <1>0, <1>1, <2>2
<1>5. EntryAt(c, e, m) = EntryOf(c[last].st, c[last].att, at)
  <2>1. R \subseteq Nat
    BY <1>0
  <2> HIDE DEF R
  <2>2. EntryIn(c, R) = EntryOf(c[last].st, c[last].att, at)
    BY <1>2, <1>3, <1>4, <2>1, EntryTold
  <2> QED BY <2>2 DEF EntryAt, R
<1> QED BY <1>1, <1>2, <1>3, <1>4, <1>5

\* No record, no entry.
LEMMA NotTold ==
  ASSUME NEW c, NEW e, NEW m, Before(c, e, m) = {}
  PROVE  EntryAt(c, e, m) = Absent
BY DEF EntryAt, EntryIn

LiveStates == {"PENDING", "IN_FLIGHT", "DEAD_LETTER"}
\* What a good log says of a message: it is not there, or its payload is at the
\* offset of the entry.
LEMMA EntryFacts ==
  ASSUME NEW c \in Contents, GoodLog(c), NEW e \in Nat, NEW m \in Ids
  PROVE  LET entry == EntryAt(c, e, m) IN
           \/ entry = Absent
           \/ /\ entry.st \in LiveStates /\ entry.att \in Nat
              /\ entry.off \in Before(c, e, m) /\ entry.off \in Offsets
              /\ c[entry.off].t = "MESSAGE" /\ c[entry.off].id = m /\ c[entry.off].body = m
              /\ entry = [st |-> entry.st, att |-> entry.att, off |-> entry.off]
<1>1. CASE Before(c, e, m) = {}
  BY <1>1, NotTold
<1>2. CASE Before(c, e, m) # {}
  <2>1. PICK at, last \in Before(c, e, m) :
           /\ c[at].t = "MESSAGE"
           /\ EntryAt(c, e, m) = EntryOf(c[last].st, c[last].att, at)
    BY <1>2, Told
  <2>2. /\ at \in LogOf(c) /\ last \in LogOf(c) /\ c[at].id = m /\ c[last].id = m
        /\ at \in Offsets /\ c[last].t \in RecordTypes /\ c[last] \in Cells
    BY LogFacts DEF Before
  <2>3. GoodRecord(c, at, c[at]) /\ GoodRecord(c, last, c[last])
    BY <2>2 DEF GoodLog
  <2>4. c[last].st \in States /\ c[last].att \in Nat
    BY <2>2, <2>3, IdsAssumption DEF GoodRecord, RecordTypes, States, Cells, Units
  <2>5. c[at].body = m
    BY <2>1, <2>2, <2>3 DEF GoodRecord
  <2> QED BY <2>1, <2>2, <2>4, <2>5 DEF EntryOf, Closes, States, LiveStates
<1> QED BY <1>1, <1>2

\* Absent is the entry of no message.
LEMMA AbsentState == Absent.st = "NONE" /\ Absent.att = 0 /\ Absent.st \notin LiveStates
BY DEF Absent, LiveStates

\* What scan_region and index_apply make of one record more.
LEMMA EntryStep ==
  ASSUME NEW c \in Contents, GoodLog(c), NEW o \in LogOf(c), NEW m \in Ids
  PROVE  EntryAt(c, o + Size(c[o]), m) =
           IF c[o].id # m THEN EntryAt(c, o, m)
           ELSE EntryOf(c[o].st, c[o].att,
                        IF c[o].t = "MESSAGE" THEN o ELSE EntryAt(c, o, m).off)
<1> DEFINE n == o + Size(c[o])
           R == Before(c, o, m)
<1>0. /\ o \in Nat /\ Size(c[o]) \in Nat /\ Size(c[o]) > 0 /\ n \in Nat
      /\ \A p \in LogOf(c) : p \in Nat /\ (p < n <=> p < o \/ p = o)
  <2>1. o \in Nat /\ Size(c[o]) \in Nat /\ Size(c[o]) > 0
    BY LogFacts
  <2>2. \A p \in LogOf(c) : p \in Nat /\ (o < p => n <= p)
    BY LogFacts
  <2> QED BY <2>1, <2>2
<1>1. CASE c[o].id # m
  <2>1. Before(c, n, m) = R
    BY <1>0, <1>1 DEF Before
  <2> QED BY <1>1, <2>1 DEF EntryAt
<1>2. CASE c[o].id = m
  <2>1. Before(c, n, m) = R \cup {o} /\ \A p \in R : p < o /\ p \in Nat
    BY <1>0, <1>2 DEF Before
  <2>2. PICK at, last \in Before(c, n, m) :
           /\ c[at].t = "MESSAGE" /\ \A p \in Before(c, n, m) : c[p].t = "MESSAGE" => p = at
           /\ \A p \in Before(c, n, m) : at <= p /\ p <= last
           /\ EntryAt(c, n, m) = EntryOf(c[last].st, c[last].att, at)
    <3>1. Before(c, n, m) # {}
      BY <2>1
    <3> HIDE DEF n
    <3> QED BY <1>0, <3>1, Told
  <2>3. last = o
    <3>1. last \in R \cup {o} /\ o <= last
      BY <2>1, <2>2
    <3> QED BY <1>0, <2>1, <3>1
  <2>4. CASE c[o].t = "MESSAGE"
    BY <1>2, <2>1, <2>2, <2>3, <2>4
  <2>5. CASE c[o].t # "MESSAGE"
    <3>1. at \in R
      BY <2>1, <2>2, <2>5
    <3>2. PICK at2, last2 \in R :
           /\ c[at2].t = "MESSAGE"
           /\ EntryAt(c, o, m) = EntryOf(c[last2].st, c[last2].att, at2)
      BY <1>0, <3>1, Told
    <3>3. at2 = at
      BY <2>1, <2>2, <3>2
    <3>4. EntryAt(c, o, m) # Absent
      <4>1. GoodRecord(c, o, c[o]) /\ c[o].t \in RecordTypes
        BY LogFacts DEF GoodLog
      <4>2. c[o].t = "UPDATE"
        BY <1>2, <2>5, <4>1, IdsAssumption DEF GoodRecord, RecordTypes
      <4> QED BY <1>2, <4>1, <4>2 DEF GoodRecord, IndexedAt
    <3>5. EntryAt(c, o, m).off = at
      BY <3>2, <3>3, <3>4 DEF EntryOf
    <3> QED BY <1>2, <2>2, <2>3, <2>5, <3>5
  <2> QED BY <2>4, <2>5
<1> QED BY <1>1, <1>2

\* Past the end of the log there is nothing to read.
LEMMA EntryEnd ==
  ASSUME NEW c \in Contents, NEW e \in Nat, e >= LogEnd(c), NEW m
  PROVE  /\ Before(c, e, m) = {o \in LogOf(c) : c[o].id = m}
         /\ EntryAt(c, e, m) = EntryAt(c, LogEnd(c), m)
<1>1. /\ Before(c, e, m) = {o \in LogOf(c) : c[o].id = m}
      /\ Before(c, LogEnd(c), m) = {o \in LogOf(c) : c[o].id = m}
  BY LogFacts DEF Before
<1> QED BY <1>1 DEF EntryAt

\* Contents with the same records up to e say the same there.
LEMMA EntryKept ==
  ASSUME NEW c \in Contents, NEW d \in Contents, GoodLog(c), NEW e \in Nat,
         \A o \in Nat : o < e => (o \in LogOf(d) <=> o \in LogOf(c)),
         \A o \in LogOf(c) : o < e => d[o] = c[o]
  PROVE  /\ \A m : Before(d, e, m) = Before(c, e, m)
         /\ \A m \in Ids : EntryAt(d, e, m) = EntryAt(c, e, m)
         /\ IndexedAt(d, e) = IndexedAt(c, e)
<1>1. \A m : Before(d, e, m) = Before(c, e, m)
  BY LogFacts DEF Before
<1>2. \A o, m : o \in Before(c, e, m) => d[o] = c[o]
  BY DEF Before
<1>3. ASSUME NEW m \in Ids PROVE EntryAt(d, e, m) = EntryAt(c, e, m)
  <2>1. CASE Before(c, e, m) = {}
    BY <1>1, <2>1, NotTold
  <2>2. CASE Before(c, e, m) # {}
    <3>1. PICK at, last \in Before(c, e, m) :
             /\ c[at].t = "MESSAGE" /\ \A o \in Before(c, e, m) : c[o].t = "MESSAGE" => o = at
             /\ \A p \in Before(c, e, m) : p <= last
             /\ EntryAt(c, e, m) = EntryOf(c[last].st, c[last].att, at)
      BY <2>2, Told
    <3>2. Before(c, e, m) \subseteq Nat
      BY LogFacts DEF Before
    <3>3. EntryIn(d, Before(c, e, m)) = EntryOf(d[last].st, d[last].att, at)
      BY <1>2, <3>1, <3>2, EntryTold
    <3> QED BY <1>1, <1>2, <3>1, <3>3 DEF EntryAt
  <2> QED BY <2>1, <2>2
<1> QED BY <1>1, <1>3 DEF IndexedAt

\* A good record appended to a good log: the log stays good, and says of the
\* record's message what the record says.
LEMMA GoodAppend ==
  ASSUME NEW c \in Contents, GoodLog(c), GoodTail(c), NEW rec \in Cells, rec.t \in RecordTypes,
         rec.ok, LogEnd(c) + Size(rec) <= Capacity, GoodRecord(c, LogEnd(c), rec),
         NEW d, d = Put(c, LogEnd(c), rec)
  PROVE  /\ d \in Contents /\ GoodLog(d) /\ GoodTail(d)
         /\ LogOf(d) = LogOf(c) \cup {LogEnd(c)} /\ LogEnd(d) = LogEnd(c) + Size(rec)
         /\ d[LogEnd(c)] = rec
         /\ \A o \in LogOf(c) : d[o] = c[o]
         /\ \A x \in Offsets : x < LogEnd(c) => d[x] = c[x]
         /\ \A x \in Offsets : x >= LogEnd(c) + Size(rec) => d[x] = c[x]
         /\ \A m \in Ids : EntryAt(d, LogEnd(d), m) =
              IF rec.id # m THEN EntryAt(c, LogEnd(c), m)
              ELSE EntryOf(rec.st, rec.att, IF rec.t = "MESSAGE" THEN LogEnd(c)
                                            ELSE EntryAt(c, LogEnd(c), m).off)
<1> DEFINE e == LogEnd(c)
<1>1. /\ d \in Contents /\ d[e] = rec /\ GoodTail(d)
      /\ LogOf(d) = LogOf(c) \cup {e} /\ LogEnd(d) = e + Size(rec)
      /\ \A x \in Offsets : x < e => d[x] = c[x]
      /\ \A x \in Offsets : x >= e + Size(rec) => d[x] = c[x]
  BY LogAppend
<1>2. e \in Nat /\ \A o \in LogOf(c) : o \in Offsets /\ o \in Nat /\ o < e
  BY LogFacts
<1>3. \A o \in LogOf(c) : d[o] = c[o]
  BY <1>1, <1>2
<1>4. ASSUME NEW k \in Nat, k <= e
      PROVE  /\ \A m : Before(d, k, m) = Before(c, k, m)
             /\ \A m \in Ids : EntryAt(d, k, m) = EntryAt(c, k, m)
             /\ IndexedAt(d, k) = IndexedAt(c, k)
  <2>1. \A o \in Nat : o < k => (o \in LogOf(d) <=> o \in LogOf(c))
    BY <1>1, <1>2, <1>4
  <2> HIDE DEF e
  <2> QED BY <1>1, <1>3, <2>1, EntryKept
<1>5. GoodLog(d)
  <2> SUFFICES ASSUME NEW o \in LogOf(d) PROVE GoodRecord(d, o, d[o])
    BY DEF GoodLog
  <2>1. CASE o = e
    <3>1. \A m : Before(d, e, m) = Before(c, e, m) /\ IndexedAt(d, e) = IndexedAt(c, e)
      BY <1>2, <1>4
    <3> QED BY <1>1, <2>1, <3>1 DEF GoodRecord
  <2>2. CASE o \in LogOf(c)
    <3>1. \A m : Before(d, o, m) = Before(c, o, m) /\ IndexedAt(d, o) = IndexedAt(c, o)
      BY <1>2, <1>4, <2>2
    <3>2. GoodRecord(c, o, c[o])
      BY <2>2 DEF GoodLog
    <3> QED BY <1>3, <2>2, <3>1, <3>2 DEF GoodRecord
  <2> QED BY <1>1, <2>1, <2>2
<1>6. \A m \in Ids : EntryAt(d, e + Size(rec), m) =
              IF rec.id # m THEN EntryAt(c, e, m)
              ELSE EntryOf(rec.st, rec.att, IF rec.t = "MESSAGE" THEN e ELSE EntryAt(c, e, m).off)
  <2> SUFFICES ASSUME NEW m \in Ids
               PROVE  EntryAt(d, e + Size(rec), m) =
                        IF rec.id # m THEN EntryAt(c, e, m)
                        ELSE EntryOf(rec.st, rec.att, IF rec.t = "MESSAGE" THEN e
                                                      ELSE EntryAt(c, e, m).off)
    OBVIOUS
  <2>1. EntryAt(d, e, m) = EntryAt(c, e, m)
    BY <1>2, <1>4
  <2>2. e \in LogOf(d)
    BY <1>1
  <2> HIDE DEF e
  <2>3. EntryAt(d, e + Size(d[e]), m) =
           IF d[e].id # m THEN EntryAt(d, e, m)
           ELSE EntryOf(d[e].st, d[e].att, IF d[e].t = "MESSAGE" THEN e ELSE EntryAt(d, e, m).off)
    BY <1>1, <1>5, <2>2, EntryStep
  <2> QED BY <1>1, <2>1, <2>3
<1> QED BY <1>1, <1>3, <1>5, <1>6

\* A write that was torn or refused leaves the log, and so a good log good.
LEMMA GoodTorn ==
  ASSUME NEW c \in Contents, NEW d \in Contents, Good(c),
         \A x \in Offsets : x < LogEnd(c) => d[x] = c[x],
         \A x \in Offsets : x >= LogEnd(c) => d[x].t \notin RecordTypes
  PROVE  /\ Good(d) /\ LogOf(d) = LogOf(c) /\ LogEnd(d) = LogEnd(c)
         /\ \A o \in LogOf(c) : d[o] = c[o]
         /\ \A e \in Nat, m \in Ids : EntryAt(d, e, m) = EntryAt(c, e, m)
<1>1. LogOf(d) = LogOf(c) /\ LogEnd(d) = LogEnd(c)
  BY LogTail
<1>2. \A o \in LogOf(c) : d[o] = c[o] /\ o \in Nat
  BY LogFacts
<1>3. ASSUME NEW e \in Nat
      PROVE  /\ \A m : Before(d, e, m) = Before(c, e, m)
             /\ \A m \in Ids : EntryAt(d, e, m) = EntryAt(c, e, m)
             /\ IndexedAt(d, e) = IndexedAt(c, e)
  BY <1>1, <1>2, EntryKept DEF Good
<1>4. GoodLog(d)
  <2> SUFFICES ASSUME NEW o \in LogOf(d) PROVE GoodRecord(d, o, d[o])
    BY DEF GoodLog
  <2>1. GoodRecord(c, o, c[o]) /\ d[o] = c[o] /\ o \in Nat
    BY <1>1, <1>2 DEF Good, GoodLog
  <2>2. \A m : Before(d, o, m) = Before(c, o, m) /\ IndexedAt(d, o) = IndexedAt(c, o)
    BY <1>3, <2>1
  <2> QED BY <2>1, <2>2 DEF GoodRecord
<1>5. GoodTail(d) /\ GoodRoom(d)
  BY <1>1, <1>2 DEF Good, GoodTail, GoodRoom, HasEnd
<1> QED BY <1>1, <1>2, <1>3, <1>4, <1>5 DEF Good

\* A blank region, which is what a format and a compaction start from.
LEMMA GoodBlank ==
  ASSUME NEW c \in Contents, \A x \in Offsets : c[x] = Blank
  PROVE  /\ Good(c) /\ LogOf(c) = {} /\ LogEnd(c) = 0
         /\ \A e, m : Before(c, e, m) = {} /\ EntryAt(c, e, m) = Absent
<1>1. LogOf(c) = {} /\ LogEnd(c) = 0
  BY LogEmpty DEF Blank, Unit, RecordTypes
<1>2. \A e, m : Before(c, e, m) = {} /\ EntryAt(c, e, m) = Absent
  BY <1>1, NotTold DEF Before
<1>3. Good(c)
  BY <1>1, SizeAssumption DEF Good, GoodLog, GoodTail, GoodRoom, Blank, Unit, RecordTypes
<1> QED BY <1>1, <1>2, <1>3
=============================================================================
