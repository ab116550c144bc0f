# EdgeSync, verified

TLA+ models of the EdgeSync component (`src/components/edgesync/`): a
store-and-forward message queue for ESP-IDF devices. Applications publish
messages, a storage backend keeps them on flash, a worker task delivers them
over a transport and retries with backoff. The project says what that code
promises, model-checks it on small instances with TLC, and proves with TLAPS, for
every instance, that its invariants hold and that both storage backends keep the
storage contract.

Paths below are relative to `src/components/edgesync/` unless they start with
`src/`.

## 1. Inventory

| Component | State | Operations | Talks to |
|---|---|---|---|
| Flash-queue backend, `src/edgesync_storage_flashq.c` | two flash regions (header, append-only log); in RAM the active region, write cursor, index, `updates_since_compaction`; a mutex | recover, enqueue, claim_next, mark_delivered, schedule_retry, remove, find_drop_candidate, get_stats; compaction inside any of them | `esp_partition_*` below, the queue layer above |
| NVS backend, `src/edgesync_storage_nvs.c` | one blob per slot; index, `slot_used` | the same | `nvs_*`, the queue layer |
| Record format, `src/edgesync_flashq_format.[ch]` | none | encode and decode a record, verify its CRCs | both backends |
| Queue layer, `src/edgesync_queue.c` | mutex, `wake_cb`, counters | publish with its overflow policy, and one call per storage operation | backend, events, worker (callback) |
| Worker, `src/edgesync_worker.c` | a task, its notification count, `stop_requested`, `stopped_sem` | loop: claim, deliver, report; start, stop | queue layer, transport, events |
| Public API, `src/edgesync.c` | the handle, `started` | init, start, publish, stop, deinit, get_stats | everything |
| Events, `src/edgesync_events.c` | none | call the application back | fired by the queue layer and the worker |
| Retry policy, `src/edgesync_retry.c` | none | defaults, delay, retry or dead-letter | worker |
| MQTT transport, `src/edgesync_mqtt.c` | a mailbox with one acknowledgement | deliver; the client's event task | MQTT client |
| HTTP transport, `src/edgesync_http.c` | none between calls | deliver, classification of a status code | HTTP client |
| Factories, ids, CRC: `src/edgesync_storage.c`, `_transport.c`, `_id.c`, `_crc32.c` | none | selection by configuration; random ids; checksum | |

How they interact. A publish is a call chain in the application's task: API,
queue layer (takes its mutex), backend (takes its own), flash. After the queue's
mutex is released the same task fires events and notifies the worker. The worker
is one task; it calls the queue layer for every storage operation and holds no
lock while it delivers. Start and stop run in a third task. The device may lose
power anywhere.

What is hard:

- *Crashes.* A write is several flash operations, an erase is several sectors, a
  compaction is dozens of writes, and recovery itself writes and can be interrupted.
- *Partial failure.* A flash call can report an error after doing its work; a
  compaction can fail half-way with the index half moved; callers of storage
  operations ignore their results.
- *Interleaving.* Publishers, the worker and a stop meet at the mutex, at the
  notification, at `stop_requested` and at memory that stop frees.
- *Limits.* A full index, a full region, a reserve; 32-bit attempt counts and delays.

What makes each component correct:

- backend: what was accepted is found by every recovery, once, with its payload
  and its attempt count, until it is delivered or dropped; and it never comes back
  after that. Formally: it implements the storage contract (`DurableQueue`).
- both backends: the next message to claim, and the one to drop, follow priority and age
  whatever the order of the index; a retry is never early.
- queue layer and worker: a message is IN_FLIGHT only in the worker's hands, no
  wake-up is lost, nothing is dropped without an event, events are true, a message
  reported as delivered is not sent again before the next recovery, stop leaves
  nothing behind.
- retry policy: the documented curve, capped, without overflow, in few steps.
- transports: a success was accepted by the destination, only an answer of the
  destination gives a message up for good, and `deliver` returns.
- lifecycle: what is allocated is released once, on every path, and not while it is used.

`PROJECT.json` lists the hazards of the code one by one, at their lines.

## 2. Modules

```
                     DurableQueue .......... the storage contract (abstract)
            implemented by |   | used by
        +------------------+   +----------+
   FlashQueue       NvsQueue          SyncPipeline     beside them:
                                                         ClaimOrder    order, clock, counters
                                                         Transports    MQTT and HTTP
                                                         Lifecycle     allocation and release
                                                         RetryBackoff  the delay
```

`MC...` modules give constants values that a `.cfg` cannot write; the theorems about a
module `M` and their proofs are in `MProofs`, those about `FlashQueue` in two modules:
`FlashQueueProofs` for what holds whatever the flash does, `FlashQueueSafety` for what holds
on flash that only loses power.

### `FlashQueue`: the flash-queue backend

*State.* `hdr` and `cell` are the flash: a header and an array of allocation
units per region. The first unit of a record holds it decoded, its other units hold
`Cont`; `Junk` is a unit that is not blank and decodes to nothing, `TORN` the first
unit of an interrupted record. `active`, `cursor`, `index`, `churn` are the fields
of `edgesync_flashq_ctx_t`. `held` is the message the worker has been given.
The backend's mutex is held over every operation, so there is one operation at a
time: `pc` is its program counter, `op`, `todo` and `ncur` its locals. `fate` and
`started` record what callers were told and how many attempts were begun.

*Actions* are the flash calls, in the order of the code:

| Actions | Code (`edgesync_storage_flashq.c`) |
|---|---|
| `Boot`, `FormatErase`, `FormatHeader`, `EraseSpare` | `op_recover` 471-544 |
| `ScanRecord`, `ScanEnd`, `Requeue`, `Recovered` | `scan_region` 353-455 |
| `Enqueue`, `Claim`, `MarkDelivered`, `ScheduleRetry`, `Remove` | the operations 546-747, up to their first flash write |
| `NeedsCompaction`, `Begin`, `NoRoom` | `ensure_space_locked` 181-204 |
| `CompactErase`, `CompactHeader`, `CompactCopy`, `CompactEnd`, `CompactFlip`, `CompactStale`, `CompactReclaim` | `compact_locked` 222-325, one action per flash call |
| `DoAppend`, `WriteRefused` | `append_locked`, `partition_write_verify`, and the RAM updates after them |
| `PowerLoss` | a reset at any `pc`; an interrupted write or erase may have done none, part or all of its work |
| `FlashError` | a write or erase that reports an error, having done none, part or all of its work |
| `Rot` | a payload byte that changes |
| `Restart` | the application calls `edgesync_init` again after it failed |

*Abstracted.* Sequence numbers, priorities, timestamps and `last_error`: a claim may
take any PENDING message, which covers every order the code may choose
(`ClaimOrder` has the order itself). The
byte layout: a record is valid or not. The position of entries in the index: a
compaction may copy in any order. A power loss in the middle of one copy of a
compaction is not told apart from one before it, because the region is still
COMPACTING and recovery erases it. Message ids are unique, as `edgesync.h:117`
asks of callers.

### `DurableQueue`: the storage contract

One variable, `q`, the durable state of each message (absent, PENDING, IN_FLIGHT,
DEAD_LETTER with an attempt count, or gone), and the moves of
`edgesync_storage_ops_t`. A crash is no action: it may not change what is durable.
`FlashQueue!KeepsContract` is the refinement: `q[m]` is what a recovery of the flash
as it is *now* would find for `m` (`OnFlash`, a replay of the region `op_recover`
would choose). Each flash write of the backend is therefore a move of the contract, or
none: writing a record is the move, every step of a compaction is a stutter, and so
is a crash.

`NvsQueue!KeepsContract` is the same refinement for the other backend, with what is
committed in place of the replayed log.

### `NvsQueue`: the NVS backend

*State.* `blob` is what `nvs_get_blob` returns, `disk` what a reset is sure to keep; they
differ between a set or erase and its commit, and after a call that failed. `index` and
`used` are `index` and `slot_used` of `edgesync_nvs_ctx_t`, the rest as in `FlashQueue`.

*Actions.*

| Actions | Code (`edgesync_storage_nvs.c`) |
|---|---|
| `Boot`, `ScanSlot`, `ScanEnd`, `Requeue`, `Recovered` | `op_recover` 153-226 |
| `Enqueue`, `EnqueueFull`, `Claim`, `ClaimCorrupt`, `ClaimError`, `MarkDelivered`, `ScheduleRetry`, `Remove` | the operations 228-407, up to their first set or erase |
| `Write`, `KeyMissing`, `Commit`, `CallFails` | `nvs_set_blob`, `nvs_erase_key`, `nvs_commit`, and the RAM updates after them |
| `PowerLoss`, `Rot` | a reset (each uncommitted slot keeps its old or its new content), a blob that changes |

`Rewritten` is the record that `op_schedule_retry` and the requeueing write: its payload is
`NoId`, bytes nobody published, because it is taken from the buffer that `encode_common`
clears (section 5).

### `ClaimOrder`: which message is next

The index as the array it is, its two scans (`claim_next`, `find_drop_candidate`; `Scan` is the
loop, entry by entry), the swap removal, the overflow policy under the queue's mutex, the clock and the counters of
`edgesync_get_stats`. A message's priority is any, its time is stamped before the mutex is
taken (`Stamp`, `Publish`), a reset restarts the clock and may leave the index in any order
(the NVS backend finds its slots, the flash queue its log). `born`, `due` and `bootedAt`
are history: boots and real time, which the code does not know. The scans of the two backends
are the same code; the map names one or the other.

### `Transports`: MQTT and HTTP

Calls of `deliver()`, one after the other, for one configuration. MQTT: `mailbox` is
`ack_queue`, written by the client's event task (`EventPublished`) at any time; `outbox` and
`acks` are the client and the broker, external. A publish that is not acknowledged stays in
the outbox, so acknowledgements come late, in any order or never, and `EventPublished` overwrites
the mailbox as `xQueueOverwrite` does. The message id of an attempt is its number: ids are unique,
while those of esp-mqtt have 16 bits. HTTP: `ClientInit`,
`PerformAnswered`, `PerformFails`, `Cleanup`, and `default_classify` with the override of the
configuration.

### `Lifecycle`: allocation and release

`live` counts what is allocated of each resource: contexts, buffers, mutexes, semaphores,
handles, the worker task. One action per step of `edgesync_init` that can fail, with the
branch that unwinds it; `edgesync_start`, `_stop` in three steps with the worker task,
`_deinit`; the constructors of both backends and both transports. The application creates and
destroys an MQTT transport around an instance. It calls `edgesync_deinit` with no other call in
progress, an obligation that no line of the code enforces.

### `SyncPipeline`: publishers, worker, lifecycle

Builds on the contract: storage calls are atomic (the queue's mutex), everything
between two of them interleaves. `pub[p]` is the state of the publish of task `p`
(enqueue, the drop under an overflow policy, the events, the wake-up), `wpc`, `wmsg`,
`wres` are the worker, `notified` its notification, `stopRequested`, `opc`,
`started`, `wake`, `inc` the lifecycle and the generation of the worker that `wake_cb`
belongs to. `ripe` holds the messages whose retry time has come. `fired` and `acked`
are history. A publish that drops holds the mutex over three storage calls, hence
`LockFree`. `FAILED` events always come with `RETRY` or
`DEAD_LETTER` and are not told apart from them. Notifying a task that is gone is
undefined behaviour; the model goes on as if it did nothing (section 5).

*Storage calls that fail.* `q` is the index the calls go by, `kept[m]` the states of `m` a
recovery may find. A call that returns `ESP_OK` (`Works`) makes `kept[m]` what `q[m]` is. One
that returns an error (`Fails`) adds what it was about to write to `kept[m]`, and `q` may show
it or not (`MayShow`), because the two backends fail differently:

| Call | flash queue | NVS |
|---|---|---|
| claim | `ClaimFails`: index unchanged (line 659), or the bytes are corrupt and the dead letter is not recorded | `ClaimFails`: IN_FLIGHT in the index, in nobody's hands (315-325) |
| | `ClaimCorrupt` | `ClaimCorrupt`: the key is erased, or not, the entry stays (292-307) |
| | | `ClaimMissing`: a blob that is gone or unreadable is `NOT_FOUND` (125-127, 308-311) |
| mark_delivered, remove | `Report`, `DropOne`: index unchanged, the record there or not | the same; erased and not committed leaves an entry without a blob (`Hollow`) |
| schedule_retry | `Report`: the index changes once written | `Report`: the index changes before (390-402) |
| enqueue | `Enqueue`: the index is unchanged, the record may be there for the next recovery | the same |

The model has every choice for every call, hence more behaviours than either backend. That a
failed call makes *later* ones fail is in it as further errors, up to `MaxErrors`.

*Recoveries.* `Recover` takes one of the states in `kept[m]` for each message and puts IN_FLIGHT
ones back. It runs after a reset of the device at any moment (`Reset`) and when an instance that
nobody uses is deinitialised and initialised (`Reinit`, `edgesync.c:211` and `:119`). It succeeds
here: what its own flash and NVS calls may do is in `FlashQueue` and `NvsQueue`.

*What is known of a delivery.* `acked[m]` says whether the transport has reported SUCCESS for
`m`: never, since the last recovery (`now`), or before it. A retryable attempt may have been
accepted by the destination, too (a time-out after the server took it, an acknowledgement that
did not come); it is repeated by design, and no property speaks of what destinations received.

### `RetryBackoff`: the delay

One step per iteration of the loop of `edgesync_retry_compute_delay_ms`, products
reduced modulo `Word * Word` (a `uint64_t` when `Word` is 2^32), from any
configuration after `edgesync_retry_apply_defaults`.

In every module a definition `Bug_...` is no part of the model. It is a plausible
mistake in the code for the definition that follows it, and `PROJECT.json`
names the property that catches it.

## 3. Runs

### Flash queue (module `MCFlashQueue`)

Messages of 2 units (3 or 1 where sizes must differ), updates of 1, sectors of 2,
regions of 6 to 10 units. A region of 8 to 10 units holds two messages and a few
updates, so that every behaviour compacts several times; 6 units are what a
compaction can entirely fill. Two messages are enough for one to be copied
before and one after a failure; a third is published after a drop. `MaxGen` cuts
off the behaviours in which an operation that never fits compacts for ever.

| Run | Bounds | Shows |
|---|---|---|
| `flash_crash` | 2 crashes, torn writes, 3 ids | types, durability, index = log, payload intact, attempts durable and bounded, one ACTIVE region; the backend implements `DurableQueue` |
| `flash_faults` | 1 crash, 1 fault of any kind | copies stay inside the region, generations differ, the held message is IN_FLIGHT |
| `flash_live` | 1 crash, fairness | every accepted message is resolved |

These runs assume flash calls that do not fail, except `flash_faults`. `flash_torn` is a
counterexample with an entry under `findings`: power lost inside a record write, then a
recovery that must requeue, and `edgesync_init` fails from then on.

### NVS (module `MCNvsQueue`)

Three ids on two slots, so that slots are reused and the queue is full; 2 attempts, so that a
message is retried and then exhausted; 2 resets, so that a recovery is interrupted; one fault,
at any call, of any kind.

| Run | Shows |
|---|---|
| `nvs` | durability against failing writes, no resurrection, slots exclusive whatever fails, index = NVS, attempts durable and bounded, IN_FLIGHT is held; the backend implements `DurableQueue` while NVS works |
| `nvs_payload` | violated: the second attempt at a message sends zeros |

Each property of `nvs` says which faults it survives (`Without`), and none is asked
for more than the code gives.

### Pipeline (module `MCSyncPipeline`)

Two publishers are enough for a publish to overlap another one and a stop; 2 slots and
3 messages make the queue overflow; 2 starts let a publish outlive a worker; 2 attempts
let a message be retried and then exhausted. Deadlock checking is off because a
stopped EdgeSync that nobody starts or publishes to does stop.

| Run | Bounds | Shows |
|---|---|---|
| `sync_safety` | 2 publishers, 3 ids, 2 starts, 1 recovery, no storage errors | no lost wake-up, quiet after stop, IN_FLIGHT is held, no silent drop, events true while storage works |
| `sync_live` | fairness, 1 publisher, 2 ids on 1 slot, 1 storage error of any effect, 2 starts, 1 recovery | accepted messages are resolved unless their own attempt or outcome could not be stored, stop returns, no message is sent again after a SUCCESS before the next recovery |

`QuietStart` is TRUE in `sync_safety`: `edgesync_start` is then called with no publish in
progress. Without it a publish that began before a stop may be queued by the time
of the next start before `wake_cb` is set, and its message waits for the 5 s idle poll.
`NoLostWakeup` says nothing of such a message; `sync_live` allows it, and `Resolves` holds
thanks to the idle poll.

### Order, transports, lifecycle

| Run | Bounds | Shows |
|---|---|---|
| `order` | 3 publishes by 2 tasks, 2 priorities, 2 slots, 2 attempts, delays 1 and 2, a clock up to 2, 1 reset | claims and drops by priority and age within a boot, no early retry, statistics that add up |
| `transports` | 3 attempts, every status the code names and some it does not, one override | a success was accepted, an acknowledgement in time is in the mailbox unless a late one overwrote it, network trouble loses nothing, `deliver` returns with the HTTP client closed |
| `lifecycle` | 3 inits, 2 ending tasks, 2 calls, every configuration | nothing leaks but the NVS handle of section 5, nothing is freed twice or in use, the MQTT client stops |

Three messages on two slots let a removal put a newer entry before an older one; two are not
enough. Three attempts let the acknowledgement of the first reach the third. Three inits let an
instance follow a failed one and a successful one.

### Retry (module `RetryBackoff`)

`Word` is 8: all configurations, attempt counts and random values of a 3-bit
`uint32_t`, with 6-bit products. The default of the initial delay is 0 there, which `Kconfig:17-19`
allows and which an application cannot replace by passing 0: the curve and the cap hold for it as well,
`LoopIsShort` is asked of initial delays above 0 (section 5). The overflow that the cap prevents, the clamp after
the loop and both roundings of the jitter occur at that size.

### Fairness

`FlashQueue!Fairness`: recovery, compaction and appends run to their end, since the
code waits for nothing but the mutex; a failed init is tried again; the worker keeps
claiming and reporting, since it loops while EdgeSync is started and a delivery
attempt is bounded by its timeout. `SyncPipeline!Fairness`: a publish, a start or a stop
that has begun goes on, the worker's task is scheduled, retry times come. Weak fairness
suffices everywhere. `Transports!Fairness`: a `deliver` that has begun goes on; the time-out of
`xQueueReceive` and of the HTTP client elapses; broker and server owe nothing. Nobody is obliged to publish, start or stop, and no crash is
obliged to happen. `sync_live!Resolves` assumes that EdgeSync stays started from some
point on and lets a message stay unresolved whose own storage call failed (`Abandoned`, section 5).
It has two more hypotheses, which the code does not give: finitely many storage calls fail
(`MaxErrors`), while on the flash queue one failed append can make all later ones fail, and no
entry without its blob stays PENDING on NVS, where it holds up every other message (`Hollow`,
section 5). With `retry_max_attempts` 0 the code promises no resolution; the live runs use 2.

## 4. Proofs

Assumptions on the constants are the named ones of the modules: sizes, bounds and the set of
faults are arbitrary, `Ids` is any finite set, `Word` is any number above 2 with defaults below
it, 0 included. The theorems hold for any number of messages, tasks, crashes, failing storage
calls and starts. Two hypotheses appear in statements: `CrashOnly` in `FlashQueueSafety`, and
`QuietStart` for `NoLostWakeup`.

| Theorem | Module | Says |
|---|---|---|
| `TypeCorrect` | `FlashQueueProofs` | `TypeOK`, whatever the flash does |
| `RecoveryChoosesOne` | | `NewestIsUnique`, likewise |
| `NoOtherTakesTheHeld` | | `HeldInFlight`, likewise |
| `FlashInvariant` | `FlashQueueSafety` | `DurableInv`, from which the rest follows |
| `AcceptedSurvives` | | `Durable` |
| `IndexIsTheLog` | | `IndexMatchesLog` |
| `BytesAreTheirs` | | `PayloadIntact` |
| `SpareIsErased` | | `OneActiveRegion` |
| `AttemptsOnFlash`, `AttemptsStayBounded` | | `AttemptsDurable`, `AttemptsBounded` |
| `CopiesFit` | | `CompactionFits` |
| `FlashKeepsContract` | | `KeepsContract`: the refinement of `DurableQueue` |
| `NvsInvariant`, `SlotsNeverShared` | `NvsQueueProofs` | `TypeOK` and `SlotInv`; `SlotsExclusive`, whatever fails |
| `NvsSafety` | | `SafeInv`, from which the rest follows |
| `NvsDurable`, `ClosedStaysClosed` | | `Durable`, `NoResurrection` |
| `IndexIsWhatNvsHolds` | | `IndexMatchesDisk` |
| `AttemptsAreCounted`, `NvsInFlightIsHeld` | | `AttemptsCounted`, `InFlightIsHeld` |
| `NvsKeepsContract` | | `KeepsContract`: the refinement of `DurableQueue` |
| `PipelineInvariant` | `SyncPipelineProofs` | `TypeOK` and `SafetyInv`, from which the next five follow |
| `NoResend`, `PipelineInFlightIsHeld`, `StoppedIsQuiet`, `DropsAreAnnounced`, `EventsReportTruth` | | `NoResendAfterSuccess`, `InFlightIsHeld`, `QuietWhenStopped`, `NothingSilentlyDropped`, `EventsAreTrue` |
| `WakeupsNotLost` | | `NoLostWakeup`, if `QuietStart`; it speaks of the time until a storage call fails |
| `OrderInvariant` | `ClaimOrderProofs` | `OrderInv`, from which the rest follows |
| `ClaimsFollowOrder`, `DropsFollowPolicy`, `NoRetryIsEarly`, `StatsAddUp` | | `ClaimsInOrder`, `DropsByPolicy`, `BackoffRespected`, `StatsAccount` |
| `TransportInvariant` | `TransportsProofs` | `TransportInv` |
| `SuccessTrue`, `AckKept`, `GivenUpRightly` | | `SuccessIsAccepted`, `AckNotLost`, `GivenUpOnAnswer` |
| `LifecycleInvariant` | `LifecycleProofs` | `LifeInv` |
| `NothingEverLeaks`, `UsedIsLive` | | `NothingLeaks`, `InUseIsLive` |
| `DelayIsCapped`, `FollowsTheCurve`, `LoopStaysShort` | `RetryBackoffProofs` | `DelayCapped`, `FollowsCurve`, `LoopIsShort` |
| `MultiplyIsExact` | | the loop's product never wraps |

The arguments:

- *Logs.* What a recovery reads, `LogOf` and `LogEnd`, is a recursion over the offsets of a
  region. The provers do no induction over data, but they have the principle that a set of
  naturals has a least element (`Least`): a statement about every offset, or every log, is proved
  of the least one it could fail for. That gives the lemmas the rest uses: what is found up to an
  offset depends on the units below it only, and a record written at the end of a good log extends
  it by that record. The powers of `RetryBackoff` and the scan of `ClaimOrder` are recursions
  treated alike.
- *Generations* (`GenInv`). `NewestIsUnique` is not inductive: the header of the target
  region is written long before it is flipped to ACTIVE, and in between any copy may
  fail or be interrupted. `GenInv` adds what is known at each of those steps: once the
  header is written, the target's generation is the active one's plus one until the
  region is reclaimed; during a format the regions already erased are EMPTY.
- *The held message* (`HeldInv`, on top of `FreshInv`). Between a claim and its report
  another operation may be half done, with a record for another message in `op`; the
  invariant says that the operation in progress is about another message, or is the
  worker's own. An enqueue replaces an index entry wholesale, so it must not be
  about the held id: `FreshInv` says that an id no publish was given is nowhere on
  flash, in the index or in an operation, whatever faults happened.
- *Durability on flash* (`DurableInv`). `Durable` speaks of the region a recovery would choose,
  so the invariant says at every point of the program which one that is and what it holds: a good
  log (`FlashInv`, `RegionInv`), of which the index is the replay up to the cursor (`IndexInv`).
  During a compaction a second log grows beside it; `CopyInv` says that it holds the messages
  copied so far with the state they have in the index, that the others fit behind it, and that no
  offset of the index has been moved for an entry that is not copied. At the flip, which takes
  effect at once, the second log is the chosen one and says the same of every message. `OpInv`
  ties the record about to be written to the index, `HistoryInv` what callers were told to the
  log, `TriesInv` the attempts begun to the counts in the log. A torn write is a unit no replay
  takes, at the end of the log. `RoomInv` is the room checked before an append, `CopyInv` bounds the copies
  made and still to make by the capacity.
- *The contract.* `FlashKeepsContract` looks at each action: only the write of a record and, for
  an erase or a flip, nothing changes what a replay of the chosen region yields, and that change
  is the move of `DurableQueue` for the operation in progress. `NvsKeepsContract` does the same
  for what is committed.
- *The slots* (`SlotInv`). `SlotsExclusive` alone is not inductive: a slot that is free in RAM may
  still have a blob on NVS, of a refused enqueue, a failed erase or a slot that could not be read
  at boot, and the next recovery would index it. `PlaceInv` says that a message has one slot for
  all of its life, in what is set and in what is committed, and none before it is offered;
  `IndexInv` that the index has that slot and that a recovery fills it from below; `OpInv` what the
  operation in progress will write and where; `HeldInv` that it is about another message than the
  worker's, or reports on it.
- *What NVS keeps* (`SafeInv`). `StoredInv` says that an accepted message is committed and not being
  erased and that recovery does not overlook it; `CountInv` and `LimitInv` that every copy of
  a message counts all attempts begun and that a reset gives one back; `MirrorInv` and `ClaimedInv`
  that without a failing call the index mirrors NVS but for the operation in progress.
- *The pipeline* (`SafetyInv`). Each publish in progress knows something of its message that no other
  task can change (`CallInv`), so does the worker (`WorkerInv`); what is about to be announced is
  already true (`DropInv`, `EventInv`); a message reported as delivered is out of reach of another
  delivery until a recovery, whether the report was recorded or not (`ResendInv`); what a recovery
  may find is the index, until a storage call fails (`KeptInv`). `NoLostWakeup` needs `WakeInv`: a worker that
  found nothing and was not notified since is promised a wake-up by a publish in progress, for
  every message that came after its look (`PromiseInv`).
- *Order* (`OrderInv`). `ScanFirst`: the loop returns a candidate that no other beats, for any
  relation that is transitive and irreflexive. An update, an append, a removal that moves the last
  entry and a recovery in any order keep one entry for each id; all else is about the set of the
  entries. `DueInv` says that a back-off which has not ended is in the entry, counted from this
  boot or an earlier one, so that it can only end later.
- *Transports, lifecycle.* `AttemptInv` says which attempts the outbox, the acknowledgements under
  way and the mailbox can be about: an attempt that is over and was reported as retryable, or the
  one that is waited for, which is what `AckKept` says of the mailbox; `LiveInv` that at every moment what is allocated is what the
  parts in use own and the left-overs.
- *The delay* (`RetryInv`, `CurveInv`). A multiplication happens below the cap, so both factors are
  32-bit and their product fits 64 bits (`ProductFits`). In the loop `base` is
  `initial * multiplier^i`; whichever way it is left, `base` becomes the point of the curve
  (`CurveLeave`), which the jitter halves at most (`JitterBound`, `CurveJitter`).

`CrashOnly` says that the faults are power losses, which may tear a record or header write at any
unit: no interrupted erase, no flash call that reports an error, no read error, no rot. It is
needed: section 5 has a violation for each of the others. `QuietStart` is discussed in section 3;
the theorem is false without it.

Only model-checked:

- Liveness (`Resolves` twice, `StopReturns`, `DeliverReturns`) and whatever uses `ENABLED`: out of
  the prover's reach.
- `CompactionFits` beyond `CrashOnly`; `flash_faults` checks it under one fault of any kind.

## 5. Where the code departs from its documentation

Two departures are runs (`flash_torn`, `nvs_payload`). These were met as well; no run keeps
their counterexamples.

Flash queue:

- With `Faults <- TornErase` in `FlashQueue_crash.cfg`, `OneActiveRegion` and `PayloadIntact` are
  violated: an interrupted erase leaves a blank header over old data,
  `ensure_region_erased` looks at the header alone (`edgesync_storage_flashq.c:154`), the next
  compaction fails after it moved `message_offset` of entries it had copied (line 282), and a
  claim reads another record (`STORAGE.md:63-64`: "Every step is safe to interrupt").
- With `Faults <- IoFaults`, `MaxFaults = 1`, `MsgSize <- MCMsgSizeSmall` and
  `SYMMETRY SymmetrySmall` in `FlashQueue_crash.cfg`, `Durable` is violated: the write of
  the ACTIVE status is done but reports an error (`edgesync_storage_flashq.c:297`), two
  regions are ACTIVE, the backend goes on in the older one and the next boot prefers the
  newer.
- With `Faults <- ReadFaults` and `MaxFaults = 1` there, `Durable` is violated: one region
  header that cannot be read at boot makes recovery erase both regions (lines 482, 506).
- With `Faults <- RotFaults` and `MaxFaults = 1` there, `PayloadIntact` is violated: a
  compaction copies a payload without checking its CRC and gives the copy a fresh one
  (line 268), against `STORAGE.md:74-76`.
- With `Faults <- ReadFaults`, `MaxFaults = 1` and 2 attempts there, `AttemptsBounded` is violated: a
  read error ends the replay of a boot early (line 367), and the attempts recorded behind it are
  made again.
- An enqueue whose read-back fails returns an error and leaves a valid record for the next
  recovery (lines 133-135), against `edgesync_storage.h:30-32`.
- Live messages can fill a region, since an enqueue leaves no reserve once a compaction has
  run (line 198); then no state change of a stored message finds room.
- An append whose write or read-back fails leaves the cursor where it was (lines 206-211), and
  perhaps units there that are not blank: every later append of the same region then fails its
  read-back, until one is large enough to bring about a compaction, which copies the messages and
  starts behind them. A small failure can so stop the queue.
- A claim whose read fails once takes the message for corrupt and dead-letters it although its
  bytes are good (line 628; `Claim` of the module, under `ReadFaults`).

NVS backend:

- A retry and the requeueing at boot write a payload of zeros (run `nvs_payload`); dead letters
  kept "for inspection" as well.
- When the write of a claim fails the message stays IN_FLIGHT in RAM, held by nobody, until the
  next boot (`edgesync_storage_nvs.c:315-325`); `InFlightIsHeld` excepts failing calls.
- `nvs_erase_key` succeeds and `nvs_commit` fails (line 358): the entry stays without a blob. It
  is IN_FLIGHT, or PENDING after a failed drop; then a claim of it reads nothing, `claim_next`
  returns `EDGESYNC_ERR_NOT_FOUND`, which the worker takes for an empty queue, and if it is the
  most urgent one no other message is claimed before a reboot (lines 291-310). `Resolves` of
  `SyncPipeline` has the hypothesis that there is none, and is violated without it.
- An error of the first `nvs_get_blob` at boot is taken for an empty slot (lines 125-127, 164),
  and the next enqueue overwrites the message in it: without its exception for read faults
  `Durable` is violated.
- A corrupt message is erased at its claim and is a dead letter in RAM only (lines 292-306).
- After `max_queue_size` was reduced, the slots above it are not scanned (line 161).

Order:

- Times since boot are stored across boots. After a reset a retry waits until the new clock
  reaches the old time, as long as the device was up before (`RELIABILITY.md:71` gives the
  delay), and `DROP_OLDEST` may drop a message of this boot before one of the last
  (`RELIABILITY.md:91`). `BackoffRespected` is one-sided and `ClaimsInOrder` and `DropsByPolicy`
  compare messages of one boot.
- A message never attempted has `next_retry_at_us` 0 and precedes every due retry of its
  priority, however old (`edgesync_storage_flashq.c:610`): publishes can starve retries.
- A victim is chosen among the queued messages only, so that a new LOW message may displace a
  queued HIGH one under `DROP_LOWEST_PRIORITY`.

Worker, queue and lifecycle:

- The results of `edgesync_queue_mark_delivered` and `_schedule_retry` are not looked at
  (`edgesync_worker.c:43-66`): when one fails the message stays IN_FLIGHT, which no claim
  selects, until the device restarts (`RELIABILITY.md:8-9`: "it will be delivered (or
  explicitly dead-lettered)"). Without `Abandoned` in `Resolves`, `sync_live` shows it.
- A message that was accepted is sent again without any reset when its attempt was reported as
  retryable (`edgesync_http.c:129-135`, `edgesync_mqtt.c:120-126`), and once more after a stop,
  `edgesync_deinit` and `edgesync_init` when its delivery could not be recorded (`edgesync.c:211`,
  `:119`). `RELIABILITY.md:14-17` promises at-least-once and names only the crash as a cause.
- `edgesync_queue_publish` copies `wake_cb` under the lock and calls it after the unlock
  (`edgesync_queue.c:86-100`); a stop may have freed the worker by then
  (`edgesync_worker.c:163`), although `RELIABILITY.md:101-102` lets publishes run concurrently.
- `edgesync_deinit` does not wait for a publish in progress (`edgesync.c:220`).
- `edgesync_nvs_storage_create` leaves its NVS handle open when a buffer is refused
  (`edgesync_storage_nvs.c:542`); `NothingLeaks` counts these as its only exception.
- A failed `edgesync_init` calls `close` on a storage that was never initialised and on a
  transport whose `init` failed (`edgesync.c:89, 97`). The built-in ones stand it; a custom one
  must.
- Events are fired whether the storage call before them succeeded or not
  (`edgesync_worker.c:43-68`), so `EventsAreTrue` is asked of behaviours without an error.
- A worker between two messages may see `stop_requested` and delete itself before
  `edgesync_worker_stop` notifies it (`edgesync_worker.c:158-159`).
- `QUEUED` and `QUEUE_FULL` are fired by publishing tasks, several at a time
  (`edgesync_queue.c:94-103`); `edgesync_events.h:25` says the synchronization task.
- Under a DROP policy a full queue without a PENDING message still returns
  `EDGESYNC_ERR_QUEUE_FULL`; `edgesync.h:160` names only `REJECT_NEW`.

Retry:

- An initial delay of 0, from a default set to 0 (`Kconfig:17-19` has no range), is multiplied in
  vain: the loop never reaches a cap above 0 and runs `attempt_count - 1` times
  (`edgesync_retry.c:31-37`), in the worker's task, which with unlimited attempts is a number that
  only grows. The delay it returns is right (0, `FollowsCurve`).

Transports:

- With QoS 0 the client reports no `MQTT_EVENT_PUBLISHED`, so that every delivery ends as a
  time-out and is repeated; `TRANSPORTS.md:98-101` expects an event.
- A late acknowledgement ends the wait for the next publish as a failure
  (`edgesync_mqtt.c:120`), the acknowledgement of that one then comes late for the one after,
  and so on; each attempt is accepted by the broker, so the damage is duplicates.
- The mailbox has one place and `xQueueOverwrite` (`edgesync_mqtt.c:60`): a late event of an attempt
  that was given up, coming after the matching one and before the worker looks, replaces it, and
  `deliver` returns `RETRYABLE_FAILURE` for a publish that was acknowledged in time;
  `TRANSPORTS.md:98-99` says that it "waits up to `timeout_ms` for the matching
  `MQTT_EVENT_PUBLISHED` event". `AckNotLost` allows this one loss and no other; as the publish is
  repeated, the damage is a duplicate, or a dead letter if it was the last attempt.
- Message ids are taken to be unique. Those of esp-mqtt have 16 bits: the late acknowledgement of a
  publish whose id has come round again would be taken for the one that is waited for.
- A topic that is too long is a permanent failure (`edgesync_mqtt.c:92-95`);
  `TRANSPORTS.md:102` says the transport "Never returns `EDGESYNC_DELIVERY_PERMANENT_FAILURE`".

## 6. Not modelled

- Random ids and the CRC's error detection: probabilistic.
- `max_storage_bytes`: documented in `edgesync.h:63`, read nowhere.
- Ids that callers reuse: `edgesync.h:117` forbids it.
- Arguments that are NULL or too large: rejected before any state changes.
- The byte layout of records, topics, URLs and headers, and `bytes_queued` and the storage sizes of
  the statistics, which follow from it.
- NVS, the MQTT and HTTP clients and FreeRTOS beyond what the code's calls show of them.
- The build files, examples and tests.

## 7. Plan

Done: the models of every operation of the component that changes state, and theorems for every
safety invariant and action property the runs check, among them both refinements of the storage
contract. What is left is proof:

1. `CompactionFits` under every fault: the sizes of the indexed messages never exceed the cursor,
   and never reach the reserve, which needs the same of every log a faulty flash can hold.
2. `PayloadIntact` and `AttemptsDurable` under write and erase errors that are reported, where
   the code keeps them, in place of `CrashOnly`.
3. That the storage of `SyncPipeline` is the contract `DurableQueue` as long as no call fails
   and no recovery happens: a refinement stated for its variable `q` and proved like the other
   two; and that what each backend does in a call that fails is among the choices of
   `SyncPipeline`, which is argued in section 2 only.
