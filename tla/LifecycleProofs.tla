-------------------------- MODULE LifecycleProofs ---------------------------
(* Every resource is released once and not before its last use, through any *)
(* number of instances, restarts and failed calls.  The argument: what is   *)
(* allocated is at all times a function of where the lifecycle task is, of  *)
(* the configuration and of the worker and the client, and nothing else.    *)
EXTENDS Lifecycle, TLAPS

\* edgesync_init has got past these of its steps.
PastStorage == pc \notin {"down", "storage"}
PastTransport == pc \notin {"down", "storage", "transport"}
PastQueue == pc \in {"recover", "up", "stopping"}
Initialised == pc \in {"up", "stopping"}

LifeTypes ==
  /\ pc \in {"down", "storage", "transport", "connect", "queue", "recover", "up", "stopping"}
  /\ config \in Configs
  /\ started \in BOOLEAN /\ worker \in {"none", "running", "given"} /\ stopRequested \in BOOLEAN
  /\ ending \in Nat /\ calls \in Nat /\ inits \in Nat /\ shortfalls \in Nat
  /\ client \in {"none", "created", "running"}

\* Who may be running when.  The worker task exists from start to the end of
\* stop, and the client runs for as long as the instance it was handed to.
ControlInv ==
  /\ started <=> worker # "none"
  /\ started => Initialised
  /\ pc = "stopping" => started
  /\ worker = "given" => pc = "stopping"
  /\ worker = "running" /\ stopRequested => pc = "stopping"
  /\ calls > 0 => Initialised
  /\ config.storage = "CUSTOM_NULL" => ~PastStorage
  /\ client = "running" <=> config.transport = "MQTT" /\ pc \in {"queue", "recover", "up", "stopping"}
  /\ config.transport = "MQTT" /\ pc # "down" => client # "none"

\* What is in use now, by whichever part it is.
Owns(r) ==
  \/ r = "ctx" /\ pc # "down"
  \/ r \in FlashqParts /\ config.storage = "FLASHQ" /\ PastStorage
  \/ r \in NvsParts \cup {"nvs_handle"} /\ config.storage = "NVS" /\ PastStorage
  \/ r = "storage_lock" /\ config.storage # "CUSTOM" /\ Initialised
  \/ r = "http_ctx" /\ config.transport # "MQTT" /\ PastTransport
  \/ r \in QueueParts /\ PastQueue
  \/ r \in WorkerParts /\ started
  \/ r = "task" /\ worker = "running"
  \/ r \in MqttParts /\ client # "none"

\* What is left over: handles that were not closed, tasks not deleted yet.
LeftOver(r) == IF r = "nvs_handle" THEN shortfalls ELSE IF r = "task" THEN ending ELSE 0

\* Nothing else is allocated, and everything that is in use is, once.
LiveInv == live = [r \in Resources |-> (IF Owns(r) THEN 1 ELSE 0) + LeftOver(r)]

LifeInv == LifeTypes /\ ControlInv /\ LiveInv

-----------------------------------------------------------------------------
(* Counting.                                                                *)

Count(r) == (IF Owns(r) THEN 1 ELSE 0) + LeftOver(r)

\* No resource belongs to two parts of the system.
LEMMA PartsApart ==
  ASSUME NEW r
  PROVE  /\ r \in FlashqParts => r \notin NvsParts \cup QueueParts \cup WorkerParts \cup MqttParts
         /\ r \in NvsParts => r \notin QueueParts \cup WorkerParts \cup MqttParts
         /\ r \in QueueParts => r \notin WorkerParts \cup MqttParts
         /\ r \in WorkerParts => r \notin MqttParts
         /\ r \in {"ctx", "storage_lock", "nvs_handle", "http_ctx", "task"} =>
              /\ r \notin FlashqParts \cup NvsParts
              /\ r \notin QueueParts \cup WorkerParts \cup MqttParts
         /\ r \in FlashqParts \cup NvsParts \cup QueueParts \cup WorkerParts \cup MqttParts =>
              r \in Resources
         /\ r \in {"ctx", "storage_lock", "nvs_handle", "http_ctx", "task"} => r \in Resources
BY DEF FlashqParts, NvsParts, QueueParts, WorkerParts, MqttParts, Buffers, Resources

\* What is allocated is a count of what is in use.
LEMMA LiveCounts ==
  ASSUME LifeTypes, LiveInv
  PROVE  /\ live = [r \in Resources |-> Count(r)]
         /\ \A r \in Resources : live[r] = Count(r) /\ Count(r) \in Nat /\ LeftOver(r) \in Nat
                                 /\ (live[r] > 0 <=> Owns(r) \/ LeftOver(r) > 0)
<1>1. live = [r \in Resources |-> Count(r)]
  BY DEF LiveInv, Count
<1>2. \A r \in Resources : LeftOver(r) \in Nat
  BY DEF LifeTypes, LeftOver
<1> QED BY <1>1, <1>2 DEF Count

\* A step that allocates `parts' and releases nothing.
LEMMA Allocates ==
  ASSUME LifeTypes, LiveInv, NEW parts, live' = With(live, parts),
         \A r \in Resources : LeftOver(r)' = LeftOver(r)
                              /\ (r \in parts => ~Owns(r))
                              /\ (Owns(r)' <=> Owns(r) \/ r \in parts)
  PROVE  LiveInv'
BY LiveCounts DEF LiveInv, With, Count

\* A step that releases `parts' and allocates nothing.
LEMMA Releases ==
  ASSUME LifeTypes, LiveInv, NEW parts, live' = Without(live, parts),
         \A r \in Resources : LeftOver(r)' = LeftOver(r)
                              /\ (r \in parts => Owns(r))
                              /\ (Owns(r)' <=> Owns(r) /\ r \notin parts)
  PROVE  LiveInv'
BY LiveCounts DEF LiveInv, Without, Count

\* A step that does neither.
LEMMA LeavesLive ==
  ASSUME LiveInv, UNCHANGED live,
         \A r \in Resources : LeftOver(r)' = LeftOver(r) /\ (Owns(r)' <=> Owns(r))
  PROVE  LiveInv'
BY DEF LiveInv

LEMMA LifeInit == Init => LifeInv
<1> SUFFICES ASSUME Init PROVE LifeInv
  OBVIOUS
<1>1. LifeTypes
  BY DEF Init, LifeTypes
<1>2. ControlInv
  BY DEF Init, ControlInv, Initialised, PastStorage
<1>3. \A r \in Resources : ~Owns(r) /\ LeftOver(r) = 0
  BY DEF Init, Owns, LeftOver, PastStorage, PastTransport, PastQueue, Initialised
<1>4. LiveInv
  BY <1>3 DEF Init, LiveInv
<1> QED BY <1>1, <1>2, <1>4 DEF LifeInv

-----------------------------------------------------------------------------
(* The steps of edgesync_init.                                              *)

\* Nothing of an instance is left once edgesync_init has failed.
LEMMA Unwound ==
  ASSUME LifeTypes, LiveInv, LifeTypes', pc' = "down", ~started, ~started', worker = "none",
         worker' = "none", UNCHANGED ending, client' # "none" <=> client # "none",
         NEW parts,
         live' = Without(live, parts),
         \A r \in Resources : LeftOver(r)' = LeftOver(r),
         \A r \in Resources : r \in parts <=> Owns(r) /\ r \notin MqttParts
  PROVE  LiveInv'
<1>1. \A r \in Resources : Owns(r)' <=> r \in MqttParts /\ client # "none"
  BY DEF Owns, PastStorage, PastTransport, PastQueue, Initialised
<1>2. \A r \in Resources : r \in MqttParts /\ client # "none" => Owns(r)
  BY DEF Owns
<1>3. \A r \in Resources : r \in MqttParts => (Owns(r) <=> client # "none")
  BY PartsApart DEF Owns
<1> QED BY <1>1, <1>2, <1>3, Releases

\* What storage_destroy and transport_destroy release.
StorageHeld(l) ==
  CASE config.storage = "FLASHQ" -> FlashqParts \cup Present(l, {"storage_lock"})
    [] config.storage = "NVS" -> NvsParts \cup {"nvs_handle"} \cup Present(l, {"storage_lock"})
    [] OTHER -> {}
TransportHeld == IF config.transport = "MQTT" THEN {} ELSE {"http_ctx"}

LEMMA WithoutTwice ==
  ASSUME NEW l, NEW a, NEW b, \A r \in a : r \notin b
  PROVE  Without(Without(l, a), b) = Without(l, a \cup b)
BY DEF Without

\* The unwinding releases nothing twice.
LEMMA UnwindReleases ==
  ASSUME NEW l
  PROVE  Unwind(l) = Without(l, {"ctx"} \cup TransportHeld \cup StorageHeld(l))
<1> DEFINE t == TransportHeld
           s == StorageHeld(l)
<1>1. transport_destroy(l) = Without(l, t)
  BY DEF transport_destroy, TransportHeld
<1>2. storage_destroy(Without(l, t)) = Without(Without(l, t), s)
  <2>1. Present(Without(l, t), {"storage_lock"}) = Present(l, {"storage_lock"})
    <3>1. "storage_lock" \in Resources /\ "storage_lock" \notin t
      BY PartsApart DEF TransportHeld
    <3>2. Without(l, t)["storage_lock"] = l["storage_lock"]
      BY <3>1 DEF Without
    <3> QED BY <3>2 DEF Present
  <2> QED BY <2>1 DEF storage_destroy, StorageHeld
<1>3. \A r \in s : r \in FlashqParts \cup NvsParts \cup {"storage_lock", "nvs_handle"}
  BY DEF StorageHeld, Present
<1>4. /\ \A r \in t : r \notin s
      /\ \A r \in t \cup s : r \notin {"ctx"}
  <2>1. \A r \in t : r = "http_ctx"
    BY DEF TransportHeld
  <2>2. "http_ctx" \notin s
    BY <1>3, PartsApart
  <2>3. "ctx" \notin s
    BY <1>3, PartsApart
  <2> QED BY <2>1, <2>2, <2>3
<1> HIDE DEF t, s
<1>5. storage_destroy(transport_destroy(l)) = Without(l, t \cup s)
  BY <1>1, <1>2, <1>4, WithoutTwice
<1>6. Unwind(l) = Without(l, t \cup s \cup {"ctx"})
  BY <1>4, <1>5, WithoutTwice DEF Unwind, Freed
<1>7. t \cup s \cup {"ctx"} = {"ctx"} \cup t \cup s
  OBVIOUS
<1> QED BY <1>6, <1>7 DEF t, s

\* The mutex of the storage exists once the instance is up, if it has one.
LEMMA LockPresent ==
  ASSUME LifeTypes, LiveInv
  PROVE  /\ Initialised /\ config.storage # "CUSTOM" =>
              Present(live, {"storage_lock"}) = {"storage_lock"}
         /\ ~Initialised => live["storage_lock"] = 0 /\ Present(live, {"storage_lock"}) = {}
<1>1. "storage_lock" \in Resources /\ LeftOver("storage_lock") = 0
  BY PartsApart DEF LeftOver
<1>2. Owns("storage_lock") <=> config.storage # "CUSTOM" /\ Initialised
  BY PartsApart DEF Owns
<1>3. live["storage_lock"] = IF config.storage # "CUSTOM" /\ Initialised THEN 1 ELSE 0
  BY <1>1, <1>2, LiveCounts DEF Count
<1> QED BY <1>3 DEF Present

\* edgesync_init fails after its storage and its transport were created.
LEMMA UnwindSafe ==
  ASSUME LifeTypes, ControlInv, LiveInv, LifeTypes', pc' = "down",
         pc \in {"connect", "queue", "recover", "up"}, ~started,
         UNCHANGED <<started, worker, ending, shortfalls>>, client' = client_closed,
         live' = Unwind(IF PastQueue THEN queue_destroy(live) ELSE live)
  PROVE  LiveInv'
<1> DEFINE Q == IF PastQueue THEN QueueParts ELSE {}
           S == StorageHeld(live)
           parts == Q \cup ({"ctx"} \cup TransportHeld \cup S)
<1>1. live' = Without(live, parts)
  <2>1. CASE ~PastQueue
    <3>1. Q = {} /\ parts = {"ctx"} \cup TransportHeld \cup S
      BY <2>1
    <3> QED BY <2>1, <3>1, UnwindReleases
  <2>2. CASE PastQueue
    <3>1. live' = Unwind(Without(live, QueueParts))
      BY <2>2 DEF queue_destroy
    <3>2. Present(Without(live, QueueParts), {"storage_lock"}) = Present(live, {"storage_lock"})
      <4>1. "storage_lock" \in Resources /\ "storage_lock" \notin QueueParts
        BY PartsApart
      <4>2. Without(live, QueueParts)["storage_lock"] = live["storage_lock"]
        BY <4>1 DEF Without
      <4> QED BY <4>2 DEF Present
    <3>3. StorageHeld(Without(live, QueueParts)) = S
      BY <3>2 DEF StorageHeld
    <3>4. live' = Without(Without(live, QueueParts), {"ctx"} \cup TransportHeld \cup S)
      BY <3>1, <3>3, UnwindReleases
    <3>5. \A r \in QueueParts : r \notin {"ctx"} \cup TransportHeld \cup S
      BY PartsApart DEF TransportHeld, StorageHeld, Present
    <3>6. Q = QueueParts
      BY <2>2
    <3> HIDE DEF S, Q
    <3> QED BY <3>4, <3>5, <3>6, WithoutTwice
  <2> QED BY <2>1, <2>2
<1>2. \A r \in Resources : r \in parts <=> Owns(r) /\ r \notin MqttParts
  <2>0. PastStorage /\ PastTransport /\ pc # "down" /\ config.storage # "CUSTOM_NULL"
    BY DEF PastStorage, PastTransport, ControlInv
  <2> SUFFICES ASSUME NEW r \in Resources PROVE r \in parts <=> Owns(r) /\ r \notin MqttParts
    OBVIOUS
  <2>1. r \in S <=> \/ r \in FlashqParts /\ config.storage = "FLASHQ"
                    \/ r \in NvsParts \cup {"nvs_handle"} /\ config.storage = "NVS"
                    \/ r = "storage_lock" /\ config.storage # "CUSTOM" /\ Initialised
    <3>1. config.storage \in {"FLASHQ", "NVS", "CUSTOM"}
      BY <2>0 DEF LifeTypes, Configs
    <3> QED BY <3>1, LockPresent DEF StorageHeld
  <2>2. worker = "none"
    BY DEF ControlInv
  <2> HIDE DEF S
  <2> QED BY <2>0, <2>1, <2>2, PartsApart DEF Owns, TransportHeld
<1>3. worker = "none" /\ (client' # "none" <=> client # "none")
  BY DEF ControlInv, client_closed
<1>4. \A r \in Resources : LeftOver(r)' = LeftOver(r)
  BY DEF LeftOver
<1> HIDE DEF parts
<1> QED BY <1>1, <1>2, <1>3, <1>4, Unwound

-----------------------------------------------------------------------------
(* The invariant, action by action.                                         *)

\* The types of what a step may change.
LEMMA LifeTypesNext == LifeTypes /\ [Next]_vars => LifeTypes'
<1> SUFFICES ASSUME LifeTypes, [Next]_vars PROVE LifeTypes'
  OBVIOUS
<1> USE DEF LifeTypes, runtime
<1>1. ASSUME NEW c \in Configs, InitCall(c) PROVE LifeTypes'
  BY <1>1 DEF InitCall, Fail
<1>2. CASE storage_create
  <2>1. pc' \in {"down", "transport"} /\ UNCHANGED <<config, runtime, client, inits>>
    BY <1>2 DEF storage_create, CreateFlashq, CreateNvs, CreateCustom, Fail
  <2>2. shortfalls' = shortfalls \/ shortfalls' = shortfalls + 1
    <3>1. CASE CreateFlashq \/ CreateCustom
      BY <3>1 DEF CreateFlashq, CreateCustom
    <3>2. CASE CreateNvs
      BY <3>2, Zenon DEF CreateNvs
    <3> QED BY <1>2, <3>1, <3>2 DEF storage_create
  <2> QED BY <2>1, <2>2
<1>3. CASE transport_create
  BY <1>3 DEF transport_create, CreateHttp, Fail
<1>4. CASE transport_init
  BY <1>4 DEF transport_init, client_closed, Fail
<1>5. CASE queue_create
  BY <1>5 DEF queue_create, client_closed, Fail
<1>6. CASE queue_recover
  BY <1>6 DEF queue_recover, client_closed, Fail
<1>7. CASE Start
  <2>1. started' \in BOOLEAN /\ stopRequested' \in BOOLEAN /\ worker' \in {"none", "running", "given"}
    BY <1>7 DEF Start
  <2> QED BY <1>7, <2>1 DEF Start
<1>8. CASE StopCall
  BY <1>8 DEF StopCall
<1>9. CASE WorkerGives
  BY <1>9 DEF WorkerGives
<1>10. CASE TaskDeleted
  BY <1>10 DEF TaskDeleted
<1>11. CASE StopReturns
  BY <1>11 DEF StopReturns
<1>12. CASE Deinit
  BY <1>12 DEF Deinit, client_closed
<1>13. CASE CallBegins \/ CallReturns
  BY <1>13 DEF CallBegins, CallReturns
<1>14. CASE MqttCreate \/ MqttDestroy
  BY <1>14 DEF MqttCreate, MqttDestroy
<1>15. CASE UNCHANGED vars
  BY <1>15 DEF vars
<1> QED BY <1>1, <1>2, <1>3, <1>4, <1>5, <1>6, <1>7, <1>8, <1>9, <1>10, <1>11, <1>12, <1>13,
           <1>14, <1>15 DEF Next

\* Who runs when, after every step.
LEMMA ControlNext == LifeTypes /\ ControlInv /\ [Next]_vars => ControlInv'
<1> SUFFICES ASSUME LifeTypes, ControlInv, [Next]_vars PROVE ControlInv'
  OBVIOUS
<1> USE DEF ControlInv, Initialised, PastStorage, runtime
<1>1. ASSUME NEW c \in Configs, InitCall(c) PROVE ControlInv'
  BY <1>1 DEF InitCall, Fail, LifeTypes
<1>2. CASE storage_create
  BY <1>2 DEF storage_create, CreateFlashq, CreateNvs, CreateCustom, Fail, LifeTypes
<1>3. CASE transport_create
  BY <1>3 DEF transport_create, CreateHttp, Fail
<1>4. CASE transport_init
  BY <1>4 DEF transport_init, client_closed, Fail, LifeTypes
<1>5. CASE queue_create
  BY <1>5 DEF queue_create, client_closed, Fail
<1>6. CASE queue_recover
  BY <1>6 DEF queue_recover, client_closed, Fail
<1>7. CASE Start
  BY <1>7 DEF Start
<1>8. CASE StopCall
  BY <1>8 DEF StopCall
<1>9. CASE WorkerGives
  BY <1>9 DEF WorkerGives
<1>10. CASE TaskDeleted
  BY <1>10 DEF TaskDeleted
<1>11. CASE StopReturns
  BY <1>11 DEF StopReturns
<1>12. CASE Deinit
  BY <1>12 DEF Deinit, client_closed, LifeTypes
<1>13. CASE CallBegins \/ CallReturns
  BY <1>13 DEF CallBegins, CallReturns, LifeTypes
<1>14. CASE MqttCreate \/ MqttDestroy
  BY <1>14 DEF MqttCreate, MqttDestroy
<1>15. CASE UNCHANGED vars
  BY <1>15 DEF vars
<1> QED BY <1>1, <1>2, <1>3, <1>4, <1>5, <1>6, <1>7, <1>8, <1>9, <1>10, <1>11, <1>12, <1>13,
           <1>14, <1>15 DEF Next

\* Before the worker is started and while no instance is up, only the parts that
\* edgesync_init has come to are in use.
LEMMA OwnsEarly ==
  ASSUME ControlInv, pc \in {"down", "storage", "transport"}, NEW r \in Resources
  PROVE  Owns(r) <=> \/ r = "ctx" /\ pc # "down"
                     \/ r \in FlashqParts /\ config.storage = "FLASHQ" /\ pc = "transport"
                     \/ r \in NvsParts \cup {"nvs_handle"} /\ config.storage = "NVS" /\ pc = "transport"
                     \/ r \in MqttParts /\ client # "none"
BY DEF Owns, ControlInv, PastStorage, PastTransport, PastQueue, Initialised
LEMMA OwnsEarlyNext ==
  ASSUME ControlInv', pc' \in {"down", "storage", "transport"}, NEW r \in Resources
  PROVE  Owns(r)' <=> \/ r = "ctx" /\ pc' # "down"
                      \/ r \in FlashqParts /\ config'.storage = "FLASHQ" /\ pc' = "transport"
                      \/ r \in NvsParts \cup {"nvs_handle"} /\ config'.storage = "NVS" /\ pc' = "transport"
                      \/ r \in MqttParts /\ client' # "none"
BY DEF Owns, ControlInv, PastStorage, PastTransport, PastQueue, Initialised

LEMMA LiveInitCall ==
  ASSUME LifeInv, ControlInv', NEW c \in Configs, InitCall(c)
  PROVE  LiveInv'
<1> USE DEF runtime
<1>0. LifeTypes /\ ControlInv /\ LiveInv
  BY DEF LifeInv
<1>1. \A r \in Resources : LeftOver(r)' = LeftOver(r)
  BY DEF InitCall, LeftOver
<1>2. pc = "down" /\ client' = client
  BY DEF InitCall
<1>3. CASE pc' = "storage" /\ live' = With(live, {"ctx"})
  <2>1. \A r \in Resources : /\ r = "ctx" => ~Owns(r)
                             /\ Owns(r)' <=> Owns(r) \/ r \in {"ctx"}
    BY <1>0, <1>2, <1>3, OwnsEarly, OwnsEarlyNext, PartsApart
  <2> QED BY <1>0, <1>1, <1>3, <2>1, Allocates
<1>4. CASE Fail(live)
  BY <1>0, <1>1, <1>2, <1>4, OwnsEarly, OwnsEarlyNext, LeavesLive DEF Fail
<1> QED BY <1>3, <1>4 DEF InitCall

\* edgesync_init fails before it has a storage.
LEMMA FailEarly ==
  ASSUME LifeInv, ControlInv', pc = "storage", pc' = "down", live' = Freed(live),
         UNCHANGED <<client, ending, shortfalls>>
  PROVE  LiveInv'
<1>0. LifeTypes /\ ControlInv /\ LiveInv
  BY DEF LifeInv
<1>1. \A r \in Resources : LeftOver(r)' = LeftOver(r)
  BY DEF LeftOver
<1>2. \A r \in Resources : /\ r = "ctx" => Owns(r)
                           /\ Owns(r)' <=> Owns(r) /\ r \notin {"ctx"}
  BY <1>0, OwnsEarly, OwnsEarlyNext, PartsApart
<1> QED BY <1>0, <1>1, <1>2, Releases DEF Freed

\* What was allocated is released again.
LEMMA WithWithout ==
  ASSUME LifeTypes, LiveInv, NEW parts
  PROVE  Without(With(live, parts), parts) = live
<1>1. live = [r \in Resources |-> live[r]] /\ \A r \in Resources : live[r] \in Int
  BY LiveCounts
<1>2. \A r \in Resources : (live[r] + 1) - 1 = live[r]
  BY <1>1
<1>3. \A r \in Resources : Without(With(live, parts), parts)[r] = live[r]
  BY <1>2 DEF With, Without
<1> QED BY <1>1, <1>3 DEF Without

LEMMA LiveStorage ==
  ASSUME LifeInv, ControlInv', storage_create
  PROVE  LiveInv'
<1> USE DEF runtime
<1>0. /\ LifeTypes /\ ControlInv /\ LiveInv /\ pc = "storage"
      /\ UNCHANGED <<client, started, worker, ending>>
  BY DEF LifeInv, storage_create
<1>1. CASE CreateFlashq
  <2>1. UNCHANGED shortfalls /\ \A r \in Resources : LeftOver(r)' = LeftOver(r)
    BY <1>0, <1>1 DEF CreateFlashq, LeftOver
  <2>2. CASE Fail(Freed(live))
    BY <1>0, <2>1, <2>2, FailEarly DEF Fail
  <2>3. ASSUME NEW got \in SUBSET Buffers["FLASHQ"], got = Buffers["FLASHQ"],
               pc' = "transport", live' = With(live, {"fq_ctx"} \cup got), UNCHANGED config
        PROVE  LiveInv'
    <3>1. live' = With(live, FlashqParts)
      BY <2>3 DEF FlashqParts
    <3>2. config.storage = "FLASHQ"
      BY <1>1 DEF CreateFlashq
    <3>3. \A r \in Resources : /\ r \in FlashqParts => ~Owns(r)
                               /\ Owns(r)' <=> Owns(r) \/ r \in FlashqParts
      BY <1>0, <2>3, <3>2, OwnsEarly, OwnsEarlyNext, PartsApart
    <3> QED BY <1>0, <2>1, <3>1, <3>3, Allocates
  <2>4. ASSUME NEW got \in SUBSET Buffers["FLASHQ"],
               Fail(Freed(Without(With(live, {"fq_ctx"} \cup got), {"fq_ctx"} \cup got)))
        PROVE  LiveInv'
    <3>1. Fail(Freed(live))
      BY <1>0, <2>4, WithWithout
    <3> QED BY <1>0, <2>1, <3>1, FailEarly DEF Fail
  <2> QED BY <1>1, <2>2, <2>3, <2>4 DEF CreateFlashq
<1>2. CASE CreateNvs
  <2>1. config.storage = "NVS"
    BY <1>2 DEF CreateNvs
  <2>2. CASE Fail(Freed(live)) /\ UNCHANGED shortfalls
    BY <1>0, <2>2, FailEarly DEF Fail
  <2>3. ASSUME NEW got \in SUBSET Buffers["NVS"], got = Buffers["NVS"], pc' = "transport",
               live' = With(live, {"nvs_ctx", "nvs_handle"} \cup got),
               UNCHANGED <<config, shortfalls>>
        PROVE  LiveInv'
    <3>1. live' = With(live, NvsParts \cup {"nvs_handle"})
      <4>1. {"nvs_ctx", "nvs_handle"} \cup got = NvsParts \cup {"nvs_handle"}
        BY <2>3 DEF NvsParts
      <4> QED BY <2>3, <4>1
    <3>2. \A r \in Resources : LeftOver(r)' = LeftOver(r)
      BY <1>0, <2>3 DEF LeftOver
    <3>3. \A r \in Resources : /\ r \in NvsParts \cup {"nvs_handle"} => ~Owns(r)
                               /\ Owns(r)' <=> Owns(r) \/ r \in NvsParts \cup {"nvs_handle"}
      BY <1>0, <2>1, <2>3, OwnsEarly, OwnsEarlyNext, PartsApart
    <3> QED BY <1>0, <3>1, <3>2, <3>3, Allocates
  <2>4. ASSUME NEW got \in SUBSET Buffers["NVS"], shortfalls' = shortfalls + 1,
               Fail(Freed(Without(With(live, {"nvs_ctx", "nvs_handle"} \cup got),
                                  {"nvs_ctx"} \cup got)))
        PROVE  LiveInv'
    <3> DEFINE parts == {"nvs_ctx"} \cup got
               l == With(live, {"nvs_ctx", "nvs_handle"} \cup got)
    <3>1. "nvs_handle" \notin parts /\ "ctx" \notin parts
      <4>1. parts \subseteq NvsParts
        BY DEF NvsParts
      <4> QED BY <4>1, PartsApart
    <3>2. \A r \in Resources :
            l[r] = IF r = "nvs_handle" \/ r \in parts THEN live[r] + 1 ELSE live[r]
      BY DEF With
    <3> HIDE DEF l
    <3>3. \A r \in Resources :
            Without(l, parts)[r] = IF r \in parts THEN l[r] - 1 ELSE l[r]
      BY DEF Without
    <3>4. \A r \in Resources : live[r] \in Nat
      BY <1>0, LiveCounts
    <3>5. \A r \in Resources :
            Without(l, parts)[r] = IF r = "nvs_handle" THEN live[r] + 1 ELSE live[r]
      <4> SUFFICES ASSUME NEW r \in Resources
                   PROVE  Without(l, parts)[r] = IF r = "nvs_handle" THEN live[r] + 1 ELSE live[r]
        OBVIOUS
      <4> HIDE DEF parts
      <4>1. CASE r \in parts
        <5>1. l[r] = live[r] + 1 /\ Without(l, parts)[r] = l[r] - 1 /\ r # "nvs_handle"
          BY <4>1, <3>1, <3>2, <3>3
        <5> QED BY <5>1, <3>4
      <4>2. CASE r \notin parts
        BY <4>2, <3>2, <3>3
      <4> QED BY <4>1, <4>2
    <3>6. live' = Freed(Without(l, parts)) /\ pc' = "down"
      BY <2>4 DEF l, Fail
    <3> HIDE DEF parts
    <3>7. live' = [r \in Resources |-> IF r = "ctx" THEN Without(l, parts)[r] - 1
                                       ELSE Without(l, parts)[r]]
      BY <3>6 DEF Freed, Without
    <3>8. live' = [r \in Resources |-> IF r = "ctx" THEN live[r] - 1
                                       ELSE IF r = "nvs_handle" THEN live[r] + 1 ELSE live[r]]
      BY <3>5, <3>7
    <3>9. \A r \in Resources : LeftOver(r)' = IF r = "nvs_handle" THEN LeftOver(r) + 1 ELSE LeftOver(r)
      BY <1>0, <2>4 DEF LeftOver
    <3>10. \A r \in Resources : /\ r = "ctx" => Owns(r)
                                /\ Owns(r)' <=> Owns(r) /\ r # "ctx"
      BY <1>0, <3>6, OwnsEarly, OwnsEarlyNext, PartsApart
    <3> QED BY <1>0, <3>8, <3>9, <3>10, LiveCounts DEF LiveInv, Count
  <2> QED BY <1>2, <2>2, <2>3, <2>4 DEF CreateNvs
<1>3. CASE CreateCustom
  <2>1. UNCHANGED shortfalls /\ config.storage \in {"CUSTOM", "CUSTOM_NULL"}
    BY <1>3 DEF CreateCustom
  <2>2. CASE pc' = "transport" /\ UNCHANGED <<config, live>>
    <3>1. \A r \in Resources : Owns(r)' <=> Owns(r)
      BY <1>0, <2>1, <2>2, OwnsEarly, OwnsEarlyNext, PartsApart
    <3>2. \A r \in Resources : LeftOver(r)' = LeftOver(r)
      BY <1>0, <2>1 DEF LeftOver
    <3> QED BY <1>0, <2>2, <3>1, <3>2, LeavesLive
  <2>3. CASE Fail(Freed(live))
    BY <1>0, <2>1, <2>3, FailEarly DEF Fail
  <2> QED BY <1>3, <2>2, <2>3 DEF CreateCustom
<1> QED BY <1>1, <1>2, <1>3 DEF storage_create

\* When edgesync_http_transport_create fails, the storage and the handle are
\* released; when it succeeds there is one more context.
LEMMA LiveTransport ==
  ASSUME LifeInv, ControlInv', transport_create
  PROVE  LiveInv'
<1> USE DEF runtime
<1>0. /\ LifeTypes /\ ControlInv /\ LiveInv /\ pc = "transport"
      /\ UNCHANGED <<client, started, worker, ending, shortfalls>>
  BY DEF LifeInv, transport_create
<1>1. \A r \in Resources : LeftOver(r)' = LeftOver(r)
  BY <1>0 DEF LeftOver
<1>2. CASE config.transport = "MQTT" /\ pc' = "connect" /\ UNCHANGED <<config, live>>
  <2>1. \A r \in Resources : Owns(r)' <=> Owns(r)
    BY <1>0, <1>2 DEF Owns, PastStorage, PastTransport, PastQueue, Initialised
  <2> QED BY <1>0, <1>1, <1>2, <2>1, LeavesLive
<1>3. CASE config.transport = "HTTP" /\ pc' = "connect" /\ live' = With(live, {"http_ctx"})
           /\ UNCHANGED config
  <2>1. \A r \in Resources : r \in {"http_ctx"} => ~Owns(r)
    BY <1>0, OwnsEarly, PartsApart
  <2>2. \A r \in Resources : Owns(r)' <=> Owns(r) \/ r \in {"http_ctx"}
    BY <1>0, <1>3 DEF Owns, PastStorage, PastTransport, PastQueue, Initialised
  <2> QED BY <1>0, <1>1, <1>3, <2>1, <2>2, Allocates
<1>4. CASE Fail(Freed(storage_destroy(live)))
  <2> DEFINE S == StorageHeld(live)
  <2>1. pc' = "down" /\ live' = Freed(Without(live, S)) /\ UNCHANGED config
    BY <1>4 DEF Fail, storage_destroy, StorageHeld
  <2>2. \A r : r \in S <=> \/ r \in FlashqParts /\ config.storage = "FLASHQ"
                           \/ r \in NvsParts \cup {"nvs_handle"} /\ config.storage = "NVS"
    <3>1. Present(live, {"storage_lock"}) = {}
      BY <1>0, LockPresent DEF Initialised
    <3> QED BY <3>1 DEF StorageHeld
  <2> HIDE DEF S
  <2>3. "ctx" \notin S
    BY <2>2, PartsApart
  <2>4. live' = Without(live, S \cup {"ctx"})
    BY <2>1, <2>3, WithoutTwice DEF Freed
  <2>5. \A r \in Resources : /\ r \in S \cup {"ctx"} => Owns(r)
                             /\ Owns(r)' <=> Owns(r) /\ r \notin S \cup {"ctx"}
    BY <1>0, <2>1, <2>2, OwnsEarly, OwnsEarlyNext, PartsApart
  <2> QED BY <1>0, <1>1, <2>4, <2>5, Releases
<1> QED BY <1>2, <1>3, <1>4 DEF transport_create, CreateHttp

LEMMA LiveConnect ==
  ASSUME LifeInv, LifeTypes', transport_init
  PROVE  LiveInv'
<1> USE DEF runtime
<1>0. /\ LifeTypes /\ ControlInv /\ LiveInv /\ pc = "connect"
      /\ UNCHANGED <<started, worker, ending, shortfalls>>
  BY DEF LifeInv, transport_init
<1>1. CASE pc' = "queue" /\ UNCHANGED <<config, live>>
           /\ client' = IF config.transport = "MQTT" THEN "running" ELSE client
  <2>1. client' # "none" <=> client # "none"
    BY <1>0, <1>1 DEF ControlInv
  <2>2. \A r \in Resources : LeftOver(r)' = LeftOver(r) /\ (Owns(r)' <=> Owns(r))
    BY <1>0, <1>1, <2>1 DEF LeftOver, Owns, PastStorage, PastTransport, PastQueue, Initialised
  <2> QED BY <1>0, <1>1, <2>2, LeavesLive
<1>2. CASE Fail(Unwind(live)) /\ client' = client_closed
  <2>1. ~started /\ ~PastQueue
    BY <1>0 DEF ControlInv, PastQueue, Initialised
  <2> QED BY <1>0, <1>2, <2>1, UnwindSafe DEF Fail
<1> QED BY <1>1, <1>2 DEF transport_init

LEMMA LiveQueue ==
  ASSUME LifeInv, LifeTypes', queue_create
  PROVE  LiveInv'
<1> USE DEF runtime
<1>0. /\ LifeTypes /\ ControlInv /\ LiveInv /\ pc = "queue"
      /\ UNCHANGED <<started, worker, ending, shortfalls>>
  BY DEF LifeInv, queue_create
<1>1. CASE pc' = "recover" /\ live' = With(live, QueueParts) /\ UNCHANGED <<config, client>>
  <2>1. \A r \in Resources : LeftOver(r)' = LeftOver(r) /\ (Owns(r)' <=> Owns(r) \/ r \in QueueParts)
    BY <1>0, <1>1 DEF LeftOver, Owns, PastStorage, PastTransport, PastQueue, Initialised
  <2>2. \A r \in Resources : r \in QueueParts => ~Owns(r)
    BY <1>0, PartsApart DEF Owns, PastQueue
  <2> QED BY <1>0, <1>1, <2>1, <2>2, Allocates
<1>2. CASE Fail(Unwind(live)) /\ client' = client_closed
  <2>1. ~started /\ ~PastQueue
    BY <1>0 DEF ControlInv, PastQueue, Initialised
  <2> QED BY <1>0, <1>2, <2>1, UnwindSafe DEF Fail
<1> QED BY <1>1, <1>2 DEF queue_create

\* The mutex that the storage's init made before recover failed is released with
\* the rest: nothing tells the unwinding that it was made but the pointer.
LEMMA LockUnwound ==
  ASSUME LifeTypes, LiveInv, ~Initialised, config.storage \in {"FLASHQ", "NVS"}
  PROVE  Unwind(queue_destroy(With(live, {"storage_lock"}))) = Unwind(queue_destroy(live))
<1> DEFINE L == {"storage_lock"}
           before == Without(live, QueueParts)
           after == Without(With(live, L), QueueParts)
           S == StorageHeld(before)
           rest == {"ctx"} \cup TransportHeld \cup S
<1>1. "storage_lock" \in Resources /\ "storage_lock" \notin QueueParts
  BY PartsApart
<1>2. live["storage_lock"] = 0 /\ \A r \in Resources : live[r] \in Nat
  BY LockPresent, LiveCounts
<1>3. before["storage_lock"] = 0 /\ after["storage_lock"] = 1
  BY <1>1, <1>2 DEF With, Without
<1>4. \A r \in Resources : r # "storage_lock" => after[r] = before[r]
  BY DEF With, Without
<1> HIDE DEF before, after
<1>5. S = StorageHeld(before) /\ StorageHeld(after) = S \cup L
  BY <1>3 DEF StorageHeld, Present
<1>6. "storage_lock" \notin rest
  <2>1. Present(before, L) = {}
    BY <1>3 DEF Present
  <2>2. S = FlashqParts \/ S = NvsParts \cup {"nvs_handle"}
    BY <2>1 DEF StorageHeld
  <2>3. "storage_lock" \notin S
    BY <2>2, PartsApart
  <2> QED BY <2>3 DEF TransportHeld
<1>7. Unwind(before) = Without(before, rest)
  BY UnwindReleases
<1>8. Unwind(after) = Without(after, rest \cup L)
  <2>1. Unwind(after) = Without(after, {"ctx"} \cup TransportHeld \cup (S \cup L))
    BY <1>5, UnwindReleases
  <2>2. {"ctx"} \cup TransportHeld \cup (S \cup L) = rest \cup L
    OBVIOUS
  <2> QED BY <2>1, <2>2
<1> HIDE DEF rest
<1>9. Without(after, rest \cup L) = Without(before, rest)
  <2> SUFFICES ASSUME NEW r \in Resources
               PROVE  Without(after, rest \cup L)[r] = Without(before, rest)[r]
    BY DEF Without
  <2>1. CASE r = "storage_lock"
    BY <1>3, <1>6, <2>1 DEF Without
  <2>2. CASE r # "storage_lock"
    BY <1>4, <2>2 DEF Without
  <2> QED BY <2>1, <2>2
<1> QED BY <1>7, <1>8, <1>9 DEF queue_destroy, before, after

LEMMA LiveRecover ==
  ASSUME LifeInv, LifeTypes', queue_recover
  PROVE  LiveInv'
<1> USE DEF runtime
<1>0. /\ LifeTypes /\ ControlInv /\ LiveInv /\ pc = "recover"
      /\ UNCHANGED <<started, worker, ending, shortfalls>>
  BY DEF LifeInv, queue_recover
<1> DEFINE l == IF config.storage = "CUSTOM" THEN live ELSE With(live, {"storage_lock"})
<1>1. CASE pc' = "up" /\ live' = l /\ UNCHANGED <<config, client>>
  <2>1. CASE config.storage = "CUSTOM"
    <3>1. \A r \in Resources : LeftOver(r)' = LeftOver(r) /\ (Owns(r)' <=> Owns(r))
      BY <1>0, <1>1, <2>1 DEF LeftOver, Owns, PastStorage, PastTransport, PastQueue, Initialised
    <3> QED BY <1>0, <1>1, <2>1, <3>1, LeavesLive
  <2>2. CASE config.storage # "CUSTOM"
    <3>1. \A r \in Resources : LeftOver(r)' = LeftOver(r)
                               /\ (Owns(r)' <=> Owns(r) \/ r \in {"storage_lock"})
      BY <1>0, <1>1, <2>2 DEF LeftOver, Owns, PastStorage, PastTransport, PastQueue, Initialised
    <3>2. \A r \in Resources : r \in {"storage_lock"} => ~Owns(r)
      BY <1>0, PartsApart DEF Owns, Initialised
    <3> QED BY <1>0, <1>1, <2>2, <3>1, <3>2, Allocates
  <2> QED BY <2>1, <2>2
<1>2. ASSUME NEW found \in {live, l}, Fail(Unwind(queue_destroy(found))), client' = client_closed
      PROVE  LiveInv'
  <2>1. ~started /\ PastQueue /\ ~Initialised /\ config.storage \in {"FLASHQ", "NVS", "CUSTOM"}
    BY <1>0 DEF ControlInv, PastQueue, Initialised, PastStorage, LifeTypes, Configs
  <2>2. Unwind(queue_destroy(found)) = Unwind(queue_destroy(live))
    BY <1>0, <1>2, <2>1, LockUnwound
  <2> QED BY <1>0, <1>2, <2>1, <2>2, UnwindSafe DEF Fail
<1> QED BY <1>1, <1>2 DEF queue_recover

-----------------------------------------------------------------------------
(* An instance that is up.                                                  *)

\* start, stop and the worker task: the task is the worker's until it has given
\* the semaphore, and then its own.
LEMMA LiveWorker ==
  ASSUME LifeInv, Start \/ StopCall \/ WorkerGives \/ TaskDeleted \/ StopReturns
  PROVE  LiveInv'
<1>0. LifeTypes /\ ControlInv /\ LiveInv
  BY DEF LifeInv
<1> USE DEF PastStorage, PastTransport, PastQueue, Initialised
<1>1. CASE Start /\ UNCHANGED <<started, worker, stopRequested, live>>
  BY <1>0, <1>1, LeavesLive DEF Start, Owns, LeftOver
<1>2. CASE Start /\ started' = TRUE /\ worker' = "running"
           /\ live' = With(live, WorkerParts \cup {"task"})
  <2>1. ~started /\ worker = "none"
    BY <1>0, <1>2 DEF Start, ControlInv
  <2>2. \A r \in Resources : LeftOver(r)' = LeftOver(r)
                             /\ (Owns(r)' <=> Owns(r) \/ r \in WorkerParts \cup {"task"})
    BY <1>2, <2>1 DEF Start, Owns, LeftOver
  <2>3. \A r \in Resources : r \in WorkerParts \cup {"task"} => ~Owns(r)
    BY <2>1, PartsApart DEF Owns
  <2> QED BY <1>0, <1>2, <2>2, <2>3, Allocates
<1>3. CASE StopCall
  BY <1>0, <1>3, LeavesLive DEF StopCall, Owns, LeftOver
<1>4. CASE WorkerGives
  <2>1. \A r \in Resources : r # "task" =>
          LeftOver(r)' = LeftOver(r) /\ (Owns(r)' <=> Owns(r))
    BY <1>4 DEF WorkerGives, Owns, LeftOver
  <2>2. Owns("task") /\ ~Owns("task")' /\ LeftOver("task") = ending /\ LeftOver("task")' = ending + 1
    BY <1>4, PartsApart DEF WorkerGives, Owns, LeftOver
  <2>3. ending \in Nat /\ live' = live
    BY <1>0, <1>4 DEF LifeTypes, WorkerGives
  <2>4. \A r \in Resources : (IF Owns(r)' THEN 1 ELSE 0) + LeftOver(r)' =
                             (IF Owns(r) THEN 1 ELSE 0) + LeftOver(r)
    BY <2>1, <2>2, <2>3
  <2> QED BY <1>0, <2>3, <2>4 DEF LiveInv
<1>5. CASE TaskDeleted
  <2>1. \A r \in Resources : /\ Owns(r)' <=> Owns(r)
                             /\ LeftOver(r)' = IF r = "task" THEN LeftOver(r) - 1 ELSE LeftOver(r)
    BY <1>5 DEF TaskDeleted, Owns, LeftOver
  <2>2. live' = [r \in Resources |-> IF r = "task" THEN live[r] - 1 ELSE live[r]]
    BY <1>5 DEF TaskDeleted, Without
  <2> QED BY <1>0, <2>1, <2>2, LiveCounts DEF LiveInv, Count
<1>6. CASE StopReturns
  <2>1. started /\ worker = "given"
    BY <1>0, <1>6 DEF StopReturns, ControlInv
  <2>2. \A r \in Resources : LeftOver(r)' = LeftOver(r)
    BY <1>6 DEF StopReturns, LeftOver
  <2>3. \A r \in Resources : /\ r \in WorkerParts => Owns(r)
                             /\ Owns(r)' <=> Owns(r) /\ r \notin WorkerParts
    BY <1>6, <2>1, PartsApart DEF StopReturns, Owns
  <2>4. live' = Without(live, WorkerParts)
    BY <1>6 DEF StopReturns
  <2> QED BY <1>0, <2>2, <2>3, <2>4, Releases
<1> QED BY <1>1, <1>2, <1>3, <1>4, <1>5, <1>6 DEF Start

LEMMA LiveDeinit ==
  ASSUME LifeInv, LifeTypes', Deinit
  PROVE  LiveInv'
<1>1. /\ pc = "up" /\ pc' = "down" /\ ~started /\ client' = client_closed
      /\ UNCHANGED <<started, worker, ending, shortfalls>>
      /\ live' = Unwind(queue_destroy(live))
  BY DEF Deinit, runtime
<1>2. LifeTypes /\ ControlInv /\ LiveInv /\ PastQueue
  BY <1>1 DEF LifeInv, PastQueue
<1> QED BY <1>1, <1>2, UnwindSafe

\* The application's own calls, and its transport.
LEMMA LiveApplication ==
  ASSUME LifeInv, CallBegins \/ CallReturns \/ MqttCreate \/ MqttDestroy \/ UNCHANGED vars
  PROVE  LiveInv'
<1>0. LifeTypes /\ ControlInv /\ LiveInv
  BY DEF LifeInv
<1> USE DEF PastStorage, PastTransport, PastQueue, Initialised, runtime
<1>1. CASE CallBegins \/ CallReturns \/ UNCHANGED vars
  <2>1. /\ UNCHANGED <<pc, config, live, started, worker, client>>
        /\ UNCHANGED <<ending, shortfalls>>
    BY <1>1 DEF CallBegins, CallReturns, vars
  <2> QED BY <1>0, <2>1, LeavesLive DEF Owns, LeftOver
<1>2. CASE MqttCreate
  <2>1. /\ UNCHANGED <<pc, config, started, worker, ending, shortfalls>>
        /\ pc = "down" /\ client = "none"
    BY <1>2 DEF MqttCreate
  <2>2. CASE UNCHANGED <<client, live>>
    BY <1>0, <2>1, <2>2, LeavesLive DEF Owns, LeftOver
  <2>3. CASE client' = "created" /\ live' = With(live, MqttParts)
    <3>1. \A r \in Resources : LeftOver(r)' = LeftOver(r)
                               /\ (Owns(r)' <=> Owns(r) \/ r \in MqttParts)
      BY <2>1, <2>3 DEF Owns, LeftOver
    <3>2. \A r \in Resources : r \in MqttParts => ~Owns(r)
      BY <1>0, <2>1, OwnsEarly, PartsApart
    <3> QED BY <1>0, <2>3, <3>1, <3>2, Allocates
  <2> QED BY <1>2, <2>2, <2>3 DEF MqttCreate
<1>3. CASE MqttDestroy
  <2>1. /\ UNCHANGED <<pc, config, started, worker, ending, shortfalls>>
        /\ pc = "down" /\ client = "created" /\ client' = "none"
        /\ live' = Without(live, MqttParts)
    BY <1>3 DEF MqttDestroy
  <2>2. \A r \in Resources : LeftOver(r)' = LeftOver(r)
    BY <2>1 DEF LeftOver
  <2>3. \A r \in Resources : Owns(r) <=> r \in MqttParts
    BY <1>0, <2>1, OwnsEarly
  <2>4. ~started /\ worker = "none"
    BY <1>0, <2>1 DEF ControlInv
  <2>5. \A r \in Resources : ~Owns(r)'
    BY <2>1, <2>4 DEF Owns
  <2> QED BY <1>0, <2>1, <2>2, <2>3, <2>5, Releases
<1> QED BY <1>1, <1>2, <1>3

LEMMA LifeInvNext == LifeInv /\ [Next]_vars => LifeInv'
<1> SUFFICES ASSUME LifeInv, [Next]_vars PROVE LifeInv'
  OBVIOUS
<1>1. LifeTypes' /\ ControlInv'
  BY LifeTypesNext, ControlNext DEF LifeInv
<1>2. LiveInv'
  BY <1>1, LiveInitCall, LiveStorage, LiveTransport, LiveConnect, LiveQueue, LiveRecover,
     LiveWorker, LiveDeinit, LiveApplication DEF Next
<1> QED BY <1>1, <1>2 DEF LifeInv

-----------------------------------------------------------------------------
(* The theorems.                                                            *)

\* What is allocated is at all times what the parts in use own, and the left
\* overs: for any number of instances, restarts, failed allocations and worker
\* tasks that are slow to end.
THEOREM LifecycleInvariant == Spec => []LifeInv
BY LifeInit, LifeInvNext, PTL DEF Spec

\* edgesync_deinit and every failed edgesync_init leave nothing of the library's
\* behind, and nothing is released twice; but for the NVS handles.
THEOREM NothingEverLeaks == Spec => []NothingLeaks
<1>1. LifeInv => NothingLeaks
  <2> SUFFICES ASSUME LifeInv PROVE NothingLeaks
    OBVIOUS
  <2>0. LifeTypes /\ ControlInv /\ LiveInv
    BY DEF LifeInv
  <2>1. \A r \in Resources : live[r] >= 0
    BY <2>0, LiveCounts
  <2>2. ASSUME pc = "down"
        PROVE  /\ \A r \in Resources \ (MqttParts \cup {"task", "nvs_handle"}) : live[r] = 0
               /\ live["nvs_handle"] = shortfalls
               /\ live["task"] = ending
    <3>1. \A r \in Resources : Owns(r) => r \in MqttParts
      BY <2>0, <2>2, OwnsEarly
    <3>2. \A r \in Resources : r \notin MqttParts => live[r] = LeftOver(r)
      BY <2>0, <3>1, LiveCounts DEF Count
    <3> QED BY <3>2, PartsApart DEF LeftOver
  <2> QED BY <2>1, <2>2 DEF NothingLeaks
<1> QED BY <1>1, LifecycleInvariant, PTL

\* What the worker, the calls in progress and the MQTT client work on is
\* allocated for as long as they work on it.
THEOREM UsedIsLive == Spec => []InUseIsLive
<1>1. LifeInv => InUseIsLive
  <2> SUFFICES ASSUME LifeInv PROVE InUseIsLive
    OBVIOUS
  <2>0. LifeTypes /\ ControlInv /\ LiveInv
    BY DEF LifeInv
  <2>1. \A r \in Resources : Owns(r) => live[r] > 0
    BY <2>0, LiveCounts
  <2>2. ASSUME Initialised
        PROVE  \A r \in {"ctx"} \cup QueueParts \cup StorageParts(config.storage) : live[r] > 0
    <3>1. \A r \in {"ctx"} \cup QueueParts \cup StorageParts(config.storage) : r \in Resources
      BY PartsApart DEF StorageParts
    <3>2. \A r \in {"ctx"} \cup QueueParts \cup StorageParts(config.storage) : Owns(r)
      BY <2>2 DEF Initialised, PastQueue, PastStorage, Owns, StorageParts
    <3> QED BY <2>1, <3>1, <3>2
  <2>3. ASSUME worker = "running"
        PROVE  \A r \in WorkerParts \cup {"task"} \cup TransportParts(config.transport) : live[r] > 0
    <3>1. \A r \in WorkerParts \cup {"task"} \cup TransportParts(config.transport) : r \in Resources
      BY PartsApart DEF TransportParts
    <3>2. started /\ Initialised /\ PastTransport
      BY <2>0, <2>3 DEF ControlInv, Initialised, PastTransport
    <3>3. config.transport = "MQTT" => client # "none"
      BY <2>0, <3>2 DEF ControlInv, Initialised
    <3>4. \A r \in WorkerParts \cup {"task"} \cup TransportParts(config.transport) : Owns(r)
      BY <2>3, <3>2, <3>3 DEF Owns, TransportParts
    <3> QED BY <2>1, <3>1, <3>4
  <2>4. ASSUME client = "running"
        PROVE  pc # "down" /\ \A r \in MqttParts : live[r] > 0
    <3>1. pc # "down"
      BY <2>0, <2>4 DEF ControlInv
    <3>2. \A r \in MqttParts : r \in Resources /\ Owns(r)
      BY <2>4, PartsApart DEF Owns
    <3> QED BY <2>1, <3>1, <3>2
  <2>5. worker = "running" \/ calls > 0 => Initialised
    BY <2>0 DEF ControlInv
  <2> QED BY <2>2, <2>3, <2>4, <2>5 DEF InUseIsLive
<1> QED BY <1>1, LifecycleInvariant, PTL
=============================================================================
