----------------------------- MODULE FlashQueue -----------------------------
(***************************************************************************)
(* The flash-queue storage backend (edgesync_storage_flashq.c): a          *)
(* log-structured queue on a flash partition split into two regions, with  *)
(* an in-RAM index rebuilt at boot by replaying the active region.         *)
(*                                                                         *)
(* Flash is modelled in allocation units.  A record takes Size(rec) units: *)
(* its first unit holds the decoded record, the others hold Cont.  A write *)
(* can only clear bits, so it is accepted on blank units only; an erase    *)
(* runs sector by sector.  Power may be lost at any step, and inside any   *)
(* write or erase.                                                         *)
(*                                                                         *)
(* The backend's mutex is held for the whole of every operation, so one    *)
(* operation is in progress at a time: `pc' and `op' are its program       *)
(* counter and its locals.  Sequence numbers, priorities, timestamps and   *)
(* last_error are abstracted away: a claim may take any PENDING message.   *)
(*                                                                         *)
(* A definition Bug_... is no part of the model: it is the form that the   *)
(* definition after it would take with a plausible mistake in the code.    *)
(***************************************************************************)
EXTENDS Integers, FiniteSets

CONSTANTS
  Ids,            \* message ids ("caller-unique", edgesync.h:117)
  NoId,           \* no message; as a record's body: bytes nobody published
  MsgSize,        \* units taken by the MESSAGE record of each id
  UpdSize,        \* units taken by an UPDATE or an END record
  Capacity,       \* data_capacity: units after a region's header sector
  SectorSize,     \* erase granularity, and EDGESYNC_FLASHQ_RESERVE_BYTES
  MaxMessages,    \* index_capacity
  ChurnLimit,     \* updates_since_compaction that forces a compaction
  MaxAttempts,    \* retry_max_attempts; 0 is "unlimited"
  MaxCrashes,     \* bound: power losses in a behaviour
  MaxFaults,      \* bound: flash faults in a behaviour
  MaxGen,         \* bound: the generation at which a behaviour is cut off
  Faults          \* which faults the flash is subject to

FaultKinds == {"torn",       \* power loss inside a record or header write
               "tornErase",  \* power loss inside a region erase
               "io",         \* a write or erase that reports an error
               "read",       \* a boot-time read that reports an error
               "rot"}        \* a stored payload byte that changes

ASSUME IdsAssumption == NoId \notin Ids /\ IsFiniteSet(Ids)
ASSUME SizeAssumption ==
  /\ UpdSize \in Nat \ {0}
  /\ MsgSize \in [Ids -> Nat] /\ \A m \in Ids : MsgSize[m] >= UpdSize
  /\ SectorSize \in Nat /\ SectorSize >= UpdSize
  /\ Capacity \in Nat /\ Capacity >= SectorSize
ASSUME BoundAssumption ==
  /\ MaxMessages \in Nat \ {0} /\ ChurnLimit \in Nat /\ MaxAttempts \in Nat
  /\ MaxCrashes \in Nat /\ MaxFaults \in Nat /\ MaxGen \in Nat
  /\ Faults \subseteq FaultKinds

VARIABLES
  hdr, cell,                        \* flash: region headers and data units
  pc, op, todo, ncur,               \* the operation that holds the mutex
  active, cursor, index, churn,     \* edgesync_flashq_ctx_t
  held,                             \* the worker's claimed message
  fate, started,                    \* history: what callers were told
  crashes, faults                   \* how many failures have happened

flash   == <<hdr, cell>>
ctx     == <<active, cursor, index, churn>>
history == <<fate, started>>
budget  == <<crashes, faults>>
vars == <<hdr, cell, pc, op, todo, ncur, active, cursor, index, churn, held,
          fate, started, crashes, faults>>

-----------------------------------------------------------------------------
(* Records, index entries and region headers.                              *)

Regions == {0, 1}
Offsets == 0 .. Capacity - 1
States  == {"PENDING", "IN_FLIGHT", "DEAD_LETTER", "DELIVERED", "REMOVED"}
Status  == {"EMPTY", "COMPACTING", "ACTIVE", "STALE", "JUNK"}
RecordTypes == {"MESSAGE", "UPDATE", "END"}
\* "JUNK" is non-blank and decodes to nothing; "TORN" is a header prefix.
UnitTypes == RecordTypes \cup {"BLANK", "CONT", "JUNK", "TORN"}

Units == [t : UnitTypes, id : Ids \cup {NoId}, st : States \cup {"NONE"},
          att : Nat, body : Ids \cup {NoId}, ok : BOOLEAN]
\* A MESSAGE record always names a message.
Cells == {u \in Units : u.t = "MESSAGE" => u.id \in Ids}

Unit(t) == [t |-> t, id |-> NoId, st |-> "NONE", att |-> 0, body |-> NoId,
            ok |-> TRUE]
Blank == Unit("BLANK")
Cont  == Unit("CONT")
Junk  == Unit("JUNK")
End   == Unit("END")
Message(m, st, att, body) ==
  [t |-> "MESSAGE", id |-> m, st |-> st, att |-> att, body |-> body, ok |-> TRUE]
Update(m, st, att) ==
  [t |-> "UPDATE", id |-> m, st |-> st, att |-> att, body |-> NoId, ok |-> TRUE]

Size(rec) == IF rec.t = "MESSAGE" THEN MsgSize[rec.id] ELSE UpdSize

Absent == [st |-> "NONE", att |-> 0, off |-> 0]
Entries == [st : {"NONE", "PENDING", "IN_FLIGHT", "DEAD_LETTER"},
            att : Nat, off : Nat]
Closes(st) == st \in {"DELIVERED", "REMOVED"}
Bug_KeepsRemoved(st, att, off) ==
  IF st = "DELIVERED" THEN Absent ELSE [st |-> st, att |-> att, off |-> off]
EntryOf(st, att, off) ==
  IF Closes(st) THEN Absent ELSE [st |-> st, att |-> att, off |-> off]

NoOp == [kind |-> "none", rec |-> Blank, body |-> NoId]
NoHeld == [id |-> NoId, body |-> NoId]
Indexed == {m \in Ids : index[m].st # "NONE"}
InState(st) == {m \in Ids : index[m].st = st}

-----------------------------------------------------------------------------
(* The log of a region: the valid records that follow one another from the *)
(* start of its data, which is what a replay reads.                        *)

Span(o, n) == o .. o + n - 1
\* decode_header and verify_body accept what is stored at offset o.
ValidAt(r, o) ==
  LET rec == cell[r][o] IN
    /\ rec.t \in RecordTypes /\ rec.ok
    /\ o + Size(rec) <= Capacity
    /\ \A x \in Span(o, Size(rec)) \ {o} : cell[r][x] = Cont
Log(r) ==
  LET from[o \in 0 .. Capacity] ==
        IF o < Capacity /\ ValidAt(r, o)
        THEN {o} \cup from[o + Size(cell[r][o])] ELSE {}
  IN from[0]

\* What a replay of region r finds for m: its last record decides.
Replay(r, m) ==
  LET entry[recs \in SUBSET Offsets] ==
        LET last == CHOOSE o \in recs : \A p \in recs : p <= o
            at   == CHOOSE o \in recs : cell[r][o].t = "MESSAGE"
        IN IF \A o \in recs : cell[r][o].t # "MESSAGE" THEN Absent
           ELSE EntryOf(cell[r][last].st, cell[r][last].att, at)
  IN entry[{o \in Log(r) : cell[r][o].id = m}]

\* The region op_recover would choose: ACTIVE, of the highest generation.
Best(S) == CHOOSE r \in S : \A s \in S :
             \/ hdr[r].gen > hdr[s].gen
             \/ (hdr[r].gen = hdr[s].gen /\ r <= s)
ActiveRegions == {r \in Regions : hdr[r].status = "ACTIVE"}
Chosen == Best(ActiveRegions)
\* What a recovery of the flash as it is now would find.
OnFlash(m) ==
  LET found[r \in Regions] == Replay(r, m)
  IN IF ActiveRegions = {} THEN Absent ELSE found[Chosen]

-----------------------------------------------------------------------------
(* Flash primitives.                                                       *)

Written(r, o, rec) ==
  [cell EXCEPT ![r] = [x \in Offsets |->
     IF x = o THEN rec
     ELSE IF x \in Span(o, Size(rec)) THEN Cont ELSE cell[r][x]]]
\* A write cut short after k units, the first of which it may not finish.
TornAt(r, o, k) ==
  [cell EXCEPT ![r] = [x \in Offsets |->
     IF x = o THEN Unit("TORN")
     ELSE IF x \in Span(o, k) THEN Junk ELSE cell[r][x]]]
\* Programming over programmed units leaves the AND of both: neither record.
Smeared(r, o, rec) ==
  [cell EXCEPT ![r] = [x \in Offsets |->
     IF x \in Span(o, Size(rec)) THEN Junk ELSE cell[r][x]]]
Fits(o, rec) == o + Size(rec) <= Capacity
BlankAt(r, o, rec) == \A x \in Span(o, Size(rec)) : cell[r][x] = Blank
\* A tear inside the first unit may have left only bytes all records share.
WriteMaySucceed(r, o, rec) ==
  /\ cell[r][o].t \in {"BLANK", "TORN"}
  /\ \A x \in Span(o, Size(rec)) \ {o} : cell[r][x] = Blank
WriteMayFail(r, o, rec) == ~BlankAt(r, o, rec) \/ ("io" \in Faults /\ faults < MaxFaults)

Empty == [status |-> "EMPTY", gen |-> 0]
ErasedCells(r) == [cell EXCEPT ![r] = [x \in Offsets |-> Blank]]
\* Erased up to data unit k, a sector boundary.
PartlyErased(r, k) ==
  [cell EXCEPT ![r] = [x \in Offsets |-> IF x < k THEN Blank ELSE cell[r][x]]]
EraseStops == {k \in Offsets : k % SectorSize = 0}

Fault(kind) == kind \in Faults /\ faults < MaxFaults /\ faults' = faults + 1

-----------------------------------------------------------------------------
(* RAM as a reset leaves it; the start and the end of an operation.        *)

ResetRam ==
  /\ op' = NoOp /\ todo' = {} /\ ncur' = 0
  /\ active' = 0 /\ cursor' = 0 /\ churn' = 0
  /\ index' = [m \in Ids |-> Absent] /\ held' = NoHeld

Init ==
  /\ hdr = [r \in Regions |-> Empty]
  /\ cell = [r \in Regions |-> [x \in Offsets |-> Blank]]
  /\ pc = "off" /\ op = NoOp /\ todo = {} /\ ncur = 0
  /\ active = 0 /\ cursor = 0 /\ churn = 0
  /\ index = [m \in Ids |-> Absent] /\ held = NoHeld
  /\ fate = [m \in Ids |-> "fresh"] /\ started = [m \in Ids |-> 0]
  /\ crashes = 0 /\ faults = 0

Bug_NoReserve(rec) == Capacity - cursor < Size(rec) \/ churn > ChurnLimit
\* ensure_space_locked: keep RESERVE units free, and do not let updates pile up.
NeedsCompaction(rec) ==
  \/ Capacity - cursor < Size(rec) + SectorSize
  \/ churn > ChurnLimit
Begin(kind, rec, body) ==
  /\ op' = [kind |-> kind, rec |-> rec, body |-> body]
  /\ pc' = IF NeedsCompaction(rec) THEN "c_erase" ELSE "append"

Reports(kind) == kind \in {"deliver", "retry", "dead"}
Return == IF op.kind = "requeue" THEN "requeue" ELSE "idle"
\* An error return.  The worker ignores it and goes on to its next claim, a
\* publisher reports it, and op_recover hands it to edgesync_init.
Abandon ==
  /\ pc' = IF op.kind = "requeue" THEN "failed" ELSE "idle"
  /\ op' = NoOp /\ todo' = {} /\ ncur' = 0
  /\ held' = IF Reports(op.kind) THEN NoHeld ELSE held
  /\ fate' = IF op.kind = "enqueue" THEN [fate EXCEPT ![op.rec.id] = "refused"]
             ELSE fate
  /\ UNCHANGED <<ctx, started>>

-----------------------------------------------------------------------------
(* Recovery (op_recover, scan_region).                                     *)

\* A header that cannot be read counts as not valid.
Boot ==
  /\ pc = "off"
  /\ \E unread \in SUBSET Regions :
       /\ \/ unread = {} /\ UNCHANGED faults
          \/ unread # {} /\ Fault("read")
       /\ LET found == ActiveRegions \ unread IN
            IF found = {} THEN pc' = "f_erase0" /\ UNCHANGED active
            ELSE pc' = "b_erase" /\ active' = Best(found)
  /\ UNCHANGED <<flash, op, todo, ncur, cursor, index, churn, held, history, crashes>>

FormatErase(r, at, then) ==
  /\ pc = at
  /\ hdr' = [hdr EXCEPT ![r] = Empty] /\ cell' = ErasedCells(r)
  /\ pc' = then
  /\ UNCHANGED <<op, todo, ncur, ctx, held, history, budget>>
FormatHeader ==
  /\ pc = "f_hdr"
  /\ hdr' = [hdr EXCEPT ![0] = [status |-> "ACTIVE", gen |-> 1]]
  /\ pc' = "idle"
  /\ UNCHANGED <<cell, op, todo, ncur, ctx, held, history, budget>>

\* ensure_region_erased looks at the region's header alone.
EnsureErased(r) ==
  IF hdr[r].status = "EMPTY" THEN UNCHANGED flash
  ELSE hdr' = [hdr EXCEPT ![r] = Empty] /\ cell' = ErasedCells(r)

Bug_SpareNotErased ==
  /\ pc = "b_erase"
  /\ pc' = "scan"
  /\ UNCHANGED <<flash, op, todo, ncur, ctx, held, history, budget>>
EraseSpare ==
  /\ pc = "b_erase"
  /\ EnsureErased(1 - active)
  /\ pc' = "scan"
  /\ UNCHANGED <<op, todo, ncur, ctx, held, history, budget>>

ScanRecord ==
  /\ pc = "scan" /\ cursor < Capacity /\ ValidAt(active, cursor)
  /\ LET rec == cell[active][cursor] IN
       /\ cursor' = cursor + Size(rec)
       /\ index' =
            CASE rec.t = "MESSAGE" /\ Cardinality(Indexed) < MaxMessages ->
                   [index EXCEPT ![rec.id] = EntryOf(rec.st, rec.att, cursor)]
              [] rec.t = "UPDATE" /\ rec.id \in Indexed ->
                   [index EXCEPT ![rec.id] = EntryOf(rec.st, rec.att, @.off)]
              [] OTHER -> index
  /\ UNCHANGED <<flash, pc, op, todo, ncur, active, churn, held, history, budget>>

\* The scan stops at the first record that is not valid, or not readable.
ScanEnd ==
  /\ pc = "scan"
  /\ IF cursor < Capacity /\ ValidAt(active, cursor)
     THEN Fault("read") ELSE UNCHANGED faults
  /\ pc' = "requeue"
  /\ UNCHANGED <<flash, op, todo, ncur, ctx, held, history, crashes>>

Bug_RequeueForgetsAttempts(m) ==
  /\ pc = "requeue" /\ index[m].st = "IN_FLIGHT"
  /\ Begin("requeue", Update(m, "PENDING", 0), NoId)
  /\ UNCHANGED <<flash, todo, ncur, ctx, held, history, budget>>
Requeue(m) ==
  /\ pc = "requeue" /\ index[m].st = "IN_FLIGHT"
  /\ Begin("requeue", Update(m, "PENDING", index[m].att), NoId)
  /\ UNCHANGED <<flash, todo, ncur, ctx, held, history, budget>>

Bug_NoRequeue ==
  /\ pc = "requeue"
  /\ pc' = "idle"
  /\ UNCHANGED <<flash, op, todo, ncur, ctx, held, history, budget>>
Bug_RequeueInRamOnly ==
  /\ pc = "requeue"
  /\ pc' = "idle"
  /\ index' = [m \in Ids |-> IF index[m].st = "IN_FLIGHT"
                            THEN [index[m] EXCEPT !.st = "PENDING"] ELSE index[m]]
  /\ UNCHANGED <<flash, op, todo, ncur, active, cursor, churn, held, history, budget>>
Recovered ==
  /\ pc = "requeue" /\ InState("IN_FLIGHT") = {}
  /\ pc' = "idle"
  /\ UNCHANGED <<flash, op, todo, ncur, ctx, held, history, budget>>

\* edgesync_init failed; the application may only try again.
Restart ==
  /\ pc = "failed"
  /\ pc' = "off" /\ ResetRam
  /\ UNCHANGED <<flash, history, budget>>

-----------------------------------------------------------------------------
(* Compaction (compact_locked), run inside an operation that is short of   *)
(* space.                                                                  *)

target == 1 - active
CompactErase ==
  /\ pc = "c_erase" /\ hdr[active].gen < MaxGen
  /\ EnsureErased(target)
  /\ pc' = "c_hdr"
  /\ UNCHANGED <<op, todo, ncur, ctx, held, history, budget>>

\* The end of what is modelled: an operation that never fits compacts for ever.
Horizon == pc = "c_erase" /\ hdr[active].gen >= MaxGen /\ UNCHANGED vars

Bug_CopiesPendingOnly ==
  /\ pc = "c_hdr"
  /\ hdr' = [hdr EXCEPT ![target] =
               [status |-> "COMPACTING", gen |-> hdr[active].gen + 1]]
  /\ todo' = InState("PENDING") /\ ncur' = 0 /\ pc' = "c_copy"
  /\ UNCHANGED <<cell, op, ctx, held, history, budget>>
Bug_SameGeneration ==
  /\ pc = "c_hdr"
  /\ hdr' = [hdr EXCEPT ![target] =
               [status |-> "COMPACTING", gen |-> hdr[active].gen]]
  /\ todo' = Indexed /\ ncur' = 0 /\ pc' = "c_copy"
  /\ UNCHANGED <<cell, op, ctx, held, history, budget>>
CompactHeader ==
  /\ pc = "c_hdr"
  /\ hdr' = [hdr EXCEPT ![target] =
               [status |-> "COMPACTING", gen |-> hdr[active].gen + 1]]
  /\ todo' = Indexed /\ ncur' = 0 /\ pc' = "c_copy"
  /\ UNCHANGED <<cell, op, ctx, held, history, budget>>

\* The bytes read are those at the index's offset, whatever they are: their
\* CRC is not checked, and the copy is given a fresh one.
BytesAt(o, m) ==
  LET src == cell[active][o] IN
    IF o \in Offsets /\ src.t = "MESSAGE" /\ Size(src) = MsgSize[m] THEN src.body ELSE NoId
Copy(m) == Message(m, index[m].st, index[m].att, BytesAt(index[m].off, m))
Bug_StaleOffset(m) ==
  /\ pc = "c_copy" /\ m \in todo
  /\ Fits(ncur, Copy(m)) /\ BlankAt(target, ncur, Copy(m))
  /\ cell' = Written(target, ncur, Copy(m))
  /\ ncur' = ncur + MsgSize[m] /\ todo' = todo \ {m}
  /\ UNCHANGED <<hdr, pc, op, ctx, held, history, budget>>
CompactCopy(m) ==
  /\ pc = "c_copy" /\ m \in todo
  /\ Fits(ncur, Copy(m)) /\ BlankAt(target, ncur, Copy(m))
  /\ cell' = Written(target, ncur, Copy(m))
  /\ index' = [index EXCEPT ![m].off = ncur]
  /\ ncur' = ncur + MsgSize[m] /\ todo' = todo \ {m}
  /\ UNCHANGED <<hdr, pc, op, active, cursor, churn, held, history, budget>>

CompactEnd ==
  /\ pc = "c_copy" /\ todo = {}
  /\ Fits(ncur, End) /\ BlankAt(target, ncur, End)
  /\ cell' = Written(target, ncur, End)
  /\ ncur' = ncur + UpdSize /\ pc' = "c_flip"
  /\ UNCHANGED <<hdr, op, todo, ctx, held, history, budget>>

\* The next record does not fit, or lands on units an earlier erase missed.
CopyRefused ==
  /\ pc = "c_copy"
  /\ \E rec \in IF todo = {} THEN {End} ELSE {Copy(m) : m \in todo} :
       ~ (Fits(ncur, rec) /\ BlankAt(target, ncur, rec))
  /\ Abandon
  /\ UNCHANGED <<flash, budget>>

\* COMPACTING -> ACTIVE and ACTIVE -> STALE each clear one bit.
CompactFlip ==
  /\ pc = "c_flip"
  /\ hdr' = [hdr EXCEPT ![target].status = "ACTIVE"]
  /\ pc' = "c_stale"
  /\ UNCHANGED <<cell, op, todo, ncur, ctx, held, history, budget>>

CompactStale ==
  /\ pc = "c_stale"
  /\ hdr' = [hdr EXCEPT ![active].status = "STALE"]
  /\ pc' = "c_reclaim"
  /\ UNCHANGED <<cell, op, todo, ncur, ctx, held, history, budget>>

SwitchRegion ==
  /\ active' = target /\ cursor' = ncur /\ churn' = 0 /\ ncur' = 0
  /\ pc' = "append"
  /\ UNCHANGED <<op, todo, index, held, history>>

CompactReclaim ==
  /\ pc = "c_reclaim"
  /\ EnsureErased(active)
  /\ SwitchRegion
  /\ UNCHANGED budget

-----------------------------------------------------------------------------
(* The append that ends every operation, and what it returns.              *)

\* The effect on the index once the record is on flash.
Applied ==
  [index EXCEPT ![op.rec.id] =
     EntryOf(op.rec.st, op.rec.att, IF op.kind = "enqueue" THEN cursor ELSE @.off)]

DoAppend ==
  /\ pc = "append" /\ Fits(cursor, op.rec)
  /\ WriteMaySucceed(active, cursor, op.rec)
  /\ cell' = Written(active, cursor, op.rec)
  /\ cursor' = cursor + Size(op.rec)
  /\ churn' = IF op.kind = "enqueue" THEN churn ELSE churn + 1
  /\ index' = Applied
  /\ held' = CASE op.kind = "claim" -> [id |-> op.rec.id, body |-> op.body]
               [] Reports(op.kind) -> NoHeld
               [] OTHER -> held
  /\ fate' = CASE op.kind = "enqueue" -> [fate EXCEPT ![op.rec.id] = "accepted"]
               [] Closes(op.rec.st)   -> [fate EXCEPT ![op.rec.id] = "closed"]
               [] OTHER -> fate
  /\ started' = IF op.kind = "claim" THEN [started EXCEPT ![op.rec.id] = @ + 1]
                ELSE started
  /\ op' = NoOp /\ pc' = Return
  /\ UNCHANGED <<hdr, todo, ncur, active, budget>>

\* "flash queue region full even after compaction"
NoRoom ==
  /\ pc = "append" /\ ~Fits(cursor, op.rec)
  /\ Abandon
  /\ UNCHANGED <<flash, budget>>

\* The cursor points at units that are not blank: the verify read differs.
WriteRefused ==
  /\ pc = "append" /\ Fits(cursor, op.rec)
  /\ ~BlankAt(active, cursor, op.rec)
  /\ cell' = Smeared(active, cursor, op.rec)
  /\ Abandon
  /\ UNCHANGED <<hdr, budget>>

-----------------------------------------------------------------------------
(* The operations of edgesync_storage_ops_t.                               *)

\* op_enqueue of a message whose id was not used before.
Enqueue(m) ==
  /\ pc = "idle" /\ fate[m] = "fresh"
  /\ Cardinality(Indexed) < MaxMessages
  /\ Begin("enqueue", Message(m, "PENDING", 0, m), m)
  /\ fate' = [fate EXCEPT ![m] = "offered"]
  /\ UNCHANGED <<flash, todo, ncur, ctx, held, started, budget>>

\* op_claim_next checks that what it reads is a valid record: any record.
Readable(m) ==
  LET o == index[m].off IN
    o \in Offsets /\ ValidAt(active, o) /\ Size(cell[active][o]) <= MsgSize[m]
\* A claim takes a message to IN_FLIGHT, or, when what it reads is not valid,
\* to DEAD_LETTER.
Claim(m) ==
  /\ pc = "idle" /\ held = NoHeld /\ index[m].st = "PENDING"
  /\ \/ /\ Readable(m) /\ UNCHANGED faults
        /\ Begin("claim", Update(m, "IN_FLIGHT", index[m].att + 1),
                 BytesAt(index[m].off, m))
     \/ /\ IF Readable(m) THEN Fault("read") ELSE UNCHANGED faults
        /\ Begin("corrupt", Update(m, "DEAD_LETTER", index[m].att), NoId)
  /\ UNCHANGED <<flash, todo, ncur, ctx, held, history, crashes>>

\* claim_next finds no eligible message; the worker sleeps and polls again.
PollIdle ==
  /\ pc = "idle" /\ held = NoHeld /\ InState("PENDING") = {}
  /\ UNCHANGED vars

\* op_mark_delivered, after the transport delivered the held message.
MarkDelivered ==
  /\ pc = "idle" /\ held # NoHeld /\ held.id \in Indexed
  /\ Begin("deliver", Update(held.id, "DELIVERED", index[held.id].att), NoId)
  /\ fate' = [fate EXCEPT ![held.id] = "closing"]
  /\ UNCHANGED <<flash, todo, ncur, ctx, held, started, budget>>

Bug_OneTooMany(att) == MaxAttempts = 0 \/ att <= MaxAttempts
\* edgesync_retry_should_retry
ShouldRetry(att) == MaxAttempts = 0 \/ att < MaxAttempts
\* op_schedule_retry, after a retryable failure; or, after the last attempt or
\* a permanent failure, with dead_letter set.
ScheduleRetry ==
  /\ pc = "idle" /\ held # NoHeld /\ held.id \in Indexed
  /\ LET att == index[held.id].att IN
       \/ ShouldRetry(att) /\ Begin("retry", Update(held.id, "PENDING", att), NoId)
       \/ Begin("dead", Update(held.id, "DEAD_LETTER", att), NoId)
  /\ UNCHANGED <<flash, todo, ncur, ctx, held, history, budget>>

Bug_DropsInFlight(m) ==
  /\ pc = "idle" /\ Cardinality(Indexed) >= MaxMessages
  /\ m \in Indexed
  /\ Begin("remove", Update(m, "REMOVED", index[m].att), NoId)
  /\ fate' = [fate EXCEPT ![m] = "closing"]
  /\ UNCHANGED <<flash, todo, ncur, ctx, held, started, budget>>
\* op_remove, called by the overflow policy for a PENDING candidate when the
\* index is full.
Remove(m) ==
  /\ pc = "idle" /\ Cardinality(Indexed) >= MaxMessages
  /\ index[m].st = "PENDING"
  /\ Begin("remove", Update(m, "REMOVED", index[m].att), NoId)
  /\ fate' = [fate EXCEPT ![m] = "closing"]
  /\ UNCHANGED <<flash, todo, ncur, ctx, held, started, budget>>

-----------------------------------------------------------------------------
(* Power loss.  What an interrupted write or erase left is decided here; a *)
(* torn copy is not told apart from no copy, since its region is still     *)
(* COMPACTING and so erased whole at the next boot.                        *)

EraseTarget ==
  CASE pc = "f_erase0" -> {0}
    [] pc = "f_erase1" -> {1}
    [] pc \in {"b_erase", "c_erase"} /\ hdr[target].status # "EMPTY" -> {target}
    [] pc = "c_reclaim" -> {active}
    [] OTHER -> {}
HeaderTarget ==
  CASE pc = "f_hdr" -> {0} [] pc = "c_hdr" -> {target} [] OTHER -> {}

AppendLands ==
  /\ pc = "append" /\ Fits(cursor, op.rec)
  /\ WriteMaySucceed(active, cursor, op.rec)
  /\ cell' = Written(active, cursor, op.rec)
  /\ UNCHANGED hdr
AppendTears ==
  /\ pc = "append" /\ Fits(cursor, op.rec)
  /\ BlankAt(active, cursor, op.rec)
  /\ \E k \in 1 .. Size(op.rec) : cell' = TornAt(active, cursor, k)
  /\ UNCHANGED hdr
HeaderTears ==
  /\ \E r \in HeaderTarget : hdr' = [hdr EXCEPT ![r].status = "JUNK"]
  /\ UNCHANGED cell
EraseTears ==
  \E r \in EraseTarget :
    \/ hdr' = [hdr EXCEPT ![r].status = "JUNK"] /\ UNCHANGED cell
    \/ \E k \in EraseStops :
         hdr' = [hdr EXCEPT ![r] = Empty] /\ cell' = PartlyErased(r, k)

PowerLoss ==
  /\ pc # "off" /\ crashes < MaxCrashes
  /\ \/ UNCHANGED flash
     \/ AppendLands
     \/ "torn" \in Faults /\ (AppendTears \/ HeaderTears)
     \/ "tornErase" \in Faults /\ EraseTears
  /\ pc' = "off" /\ ResetRam
  /\ crashes' = crashes + 1
  /\ UNCHANGED <<history, faults>>

-----------------------------------------------------------------------------
(* Flash faults: a call that returns an error, having done all, part or    *)
(* none of its work (partition_write_verify fails when the read-back does) *)
(* and a stored byte that changes.                                         *)

\* An error during op_recover ends edgesync_init; elsewhere it ends the operation.
FailInit == pc' = "failed" /\ UNCHANGED <<op, todo, ncur, ctx, held, history>>

WriteError ==
  /\ pc = "append" /\ Fits(cursor, op.rec)
  /\ BlankAt(active, cursor, op.rec)
  /\ \/ UNCHANGED cell
     \/ cell' = Written(active, cursor, op.rec)
     \/ \E k \in 1 .. Size(op.rec) : cell' = TornAt(active, cursor, k)
  /\ UNCHANGED hdr
  /\ Abandon
\* The header that is being written.
NewHeader ==
  IF pc = "f_hdr" THEN [status |-> "ACTIVE", gen |-> 1]
  ELSE [status |-> "COMPACTING", gen |-> hdr[active].gen + 1]
HeaderError ==
  /\ UNCHANGED cell
  /\ \E r \in HeaderTarget :
       hdr' \in {hdr, [hdr EXCEPT ![r].status = "JUNK"], [hdr EXCEPT ![r] = NewHeader]}
  /\ IF pc = "f_hdr" THEN FailInit ELSE Abandon
CopyError == pc = "c_copy" /\ UNCHANGED flash /\ Abandon
FlipError ==
  /\ pc = "c_flip" /\ UNCHANGED cell
  /\ \/ UNCHANGED hdr
     \/ hdr' = [hdr EXCEPT ![target].status = "ACTIVE"]
  /\ Abandon
\* "Non-fatal: the old region is already superseded"
StaleError ==
  /\ pc = "c_stale" /\ pc' = "c_reclaim"
  /\ hdr' \in {hdr, [hdr EXCEPT ![active].status = "STALE"]}
  /\ UNCHANGED <<cell, op, todo, ncur, ctx, held, history>>
EraseError ==
  /\ \/ EraseTarget # {} /\ UNCHANGED flash
     \/ EraseTears
     \/ \E r \in EraseTarget :
          hdr' = [hdr EXCEPT ![r] = Empty] /\ cell' = ErasedCells(r)
  /\ CASE pc = "c_erase" -> Abandon
       [] pc = "c_reclaim" -> SwitchRegion
       [] OTHER -> FailInit

FlashError ==
  /\ Fault("io")
  /\ \/ WriteError \/ HeaderError \/ CopyError
     \/ FlipError \/ StaleError \/ EraseError
  /\ UNCHANGED crashes

Rot ==
  /\ Fault("rot")
  /\ \E r \in Regions, o \in Offsets :
       /\ cell[r][o].t = "MESSAGE" /\ cell[r][o].ok
       /\ cell' = [cell EXCEPT ![r][o].ok = FALSE, ![r][o].body = NoId]
  /\ UNCHANGED <<hdr, pc, op, todo, ncur, ctx, held, history, crashes>>

-----------------------------------------------------------------------------
Format ==
  \/ FormatErase(0, "f_erase0", "f_erase1")
  \/ FormatErase(1, "f_erase1", "f_hdr")
  \/ FormatHeader
Recovery ==
  \/ Boot \/ Format \/ EraseSpare \/ ScanRecord \/ ScanEnd \/ Recovered
  \/ \E m \in Ids : Requeue(m)
Compaction ==
  \/ CompactErase \/ CompactHeader \/ CompactEnd \/ CopyRefused
  \/ CompactFlip \/ CompactStale \/ CompactReclaim \/ Horizon
  \/ \E m \in Ids : CompactCopy(m)
Append == DoAppend \/ NoRoom \/ WriteRefused
\* Calls by the publishing tasks, and calls by the worker.
Publisher == \E m \in Ids : Enqueue(m) \/ Remove(m)
Worker == MarkDelivered \/ ScheduleRetry \/ \E m \in Ids : Claim(m)

Next ==
  \/ Recovery \/ Restart
  \/ Compaction \/ Append
  \/ Publisher \/ Worker \/ PollIdle
  \/ PowerLoss \/ FlashError \/ Rot

Spec == Init /\ [][Next]_vars

\* Recovery and every operation run to their end: the code has no wait but for
\* the mutex.  The worker's task loops for as long as EdgeSync is started, and
\* its transport answers or times out; nobody is obliged to publish.
Fairness ==
  /\ WF_vars(Recovery) /\ WF_vars(Restart)
  /\ WF_vars(Compaction) /\ WF_vars(Append)
  /\ WF_vars(Worker)
FairSpec == Spec /\ Fairness

-----------------------------------------------------------------------------
(* Properties.                                                             *)

Kinds == {"none", "enqueue", "claim", "corrupt", "deliver", "retry", "dead",
          "remove", "requeue"}
Pcs == {"off", "failed", "f_erase0", "f_erase1", "f_hdr", "b_erase", "scan",
        "requeue", "idle", "c_erase", "c_hdr", "c_copy", "c_flip", "c_stale",
        "c_reclaim", "append"}
Fates == {"fresh", "offered", "refused", "accepted", "closing", "closed"}
\* The types of flash, of the RAM state and of the history.
TypeOK ==
  /\ hdr \in [Regions -> [status : Status, gen : Nat]]
  /\ cell \in [Regions -> [Offsets -> Cells]]
  /\ pc \in Pcs
  /\ op \in [kind : Kinds, rec : Cells, body : Ids \cup {NoId}]
  /\ todo \subseteq Ids /\ ncur \in Nat
  /\ active \in Regions /\ cursor \in Nat /\ churn \in Nat
  /\ index \in [Ids -> Entries]
  /\ held \in [id : Ids \cup {NoId}, body : Ids \cup {NoId}]
  /\ fate \in [Ids -> Fates] /\ started \in [Ids -> Nat]
  /\ crashes \in 0 .. MaxCrashes /\ faults \in 0 .. MaxFaults

\* A message whose publish returned ESP_OK is found by a recovery at any
\* moment, until it is delivered or dropped (edgesync.h, RELIABILITY.md:5-10).
Durable ==
  \A m \in Ids : fate[m] = "accepted" => OnFlash(m) # Absent

\* Between operations the RAM index is what a replay of the chosen region would
\* rebuild: state, attempt count and offset of every message.
IndexMatchesLog ==
  pc = "idle" => active = Chosen /\ \A m \in Ids : index[m] = OnFlash(m)

\* What the worker hands to the transport is what was published under that id,
\* never other bytes that happen to carry a valid CRC (STORAGE.md:74-76).
PayloadIntact == held.body = held.id

\* The live messages and the END marker always fit the region they are copied
\* to: the copy loop, which checks no bound, never runs past its end.
CompactionFits ==
  pc = "c_copy" => IF todo = {} THEN Fits(ncur, End)
                   ELSE \A m \in todo : Fits(ncur, Copy(m))

\* Between operations one region is ACTIVE and the other one is erased.
OneActiveRegion ==
  pc = "idle" => /\ hdr[active].status = "ACTIVE"
                 /\ hdr[1 - active].status = "EMPTY"
                 /\ \A x \in Offsets : cell[1 - active][x] = Blank

\* The attempt is on flash before the worker starts it: "a crash mid-delivery
\* cannot under-count attempts" (RELIABILITY.md:50-51).
AttemptsDurable ==
  \A m \in Ids : OnFlash(m) # Absent => started[m] <= OnFlash(m).att

\* Only a crash can make the attempts at a message exceed retry_max_attempts,
\* and each crash by one.  It takes flash that can be read: a replay that ends
\* early at boot (edgesync_storage_flashq.c:367) forgets attempts.
AttemptsBounded ==
  MaxAttempts # 0 => \A m \in Ids : started[m] <= MaxAttempts + crashes

\* Two regions are never ACTIVE with the same generation: recovery does not
\* have to guess which of them is the newer.
NewestIsUnique ==
  ActiveRegions = Regions => hdr[0].gen # hdr[1].gen

\* The message the worker holds is IN_FLIGHT: no other task can remove it or
\* claim it until the worker reports the outcome.
HeldInFlight ==
  held # NoHeld /\ pc = "idle" =>
    held.id \in Ids /\ index[held.id].st = "IN_FLIGHT"

\* What the storage contract says of m: what is on flash, and for a message no
\* longer there, whether it was closed or never stored.
DurableState(m) ==
  LET found == OnFlash(m) IN
    IF found # Absent THEN [st |-> found.st, att |-> found.att]
    ELSE [st |-> IF fate[m] \in {"closing", "closed"} THEN "gone" ELSE "absent",
          att |-> 0]
DurableStates == [m \in Ids |-> DurableState(m)]
Contract == INSTANCE DurableQueue WITH q <- DurableStates

\* The backend keeps the storage contract: at every instant the flash holds,
\* for a recovery to find, a state the contract allows, and every write moves
\* at most one message and by one of the contract's operations.
KeepsContract == Contract!Spec

\* An accepted message is in the end delivered, dropped or dead-lettered, "even
\* if the device restarts" (RELIABILITY.md:8-10).
Resolved(m) == DurableState(m).st \in {"gone", "DEAD_LETTER"}
Resolves == \A m \in Ids : fate[m] = "accepted" ~> Resolved(m)

\* A recovery ends with a usable queue: requeueing what was IN_FLIGHT
\* "makes the queue safe to resume after any restart" (RELIABILITY.md:63-64).
RecoverySucceeds == pc # "failed"
=============================================================================
