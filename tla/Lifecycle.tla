----------------------------- MODULE Lifecycle ------------------------------
(***************************************************************************)
(* What is allocated, by whom and until when: edgesync_init with the       *)
(* unwinding of every step that can fail, edgesync_start, _stop and        *)
(* _deinit, the constructors and destructors of the storage backends, the  *)
(* queue, the worker and the transports, and the application that owns an  *)
(* MQTT transport and hands it over in the configuration.                  *)
(*                                                                         *)
(* Lifecycle calls come from one task, so that a call is one step up to    *)
(* the next place where it can fail; edgesync_stop, which waits for the    *)
(* worker, takes several.  Any allocation may fail.  The application calls *)
(* edgesync_deinit when none of its other calls is in progress.            *)
(***************************************************************************)
EXTENDS Integers, FiniteSets

CONSTANTS
  MaxInits,   \* bound: calls of edgesync_init
  MaxEnding,  \* bound: worker tasks that have not been deleted yet
  MaxCalls    \* bound: edgesync_publish and edgesync_get_stats in progress

ASSUME LifecycleAssumption == MaxInits \in Nat /\ MaxEnding \in Nat /\ MaxCalls \in Nat

-----------------------------------------------------------------------------
(* The resources.                                                          *)

Buffers == [FLASHQ |-> {"fq_index", "fq_write", "fq_verify", "fq_claim"},
            NVS    |-> {"nvs_slots", "nvs_index", "nvs_scratch", "nvs_claim"}]
FlashqParts == {"fq_ctx"} \cup Buffers["FLASHQ"]
NvsParts == {"nvs_ctx"} \cup Buffers["NVS"]
QueueParts == {"queue", "queue_lock"}
WorkerParts == {"worker", "stopped_sem"}
MqttParts == {"mqtt_ctx", "mqtt_client", "ack_queue"}
Resources == {"ctx", "storage_lock", "nvs_handle", "http_ctx", "task"}
             \cup FlashqParts \cup NvsParts \cup QueueParts \cup WorkerParts \cup MqttParts

\* storage = CUSTOM with and without storage_ops; transport_ops set (an MQTT
\* transport) or NULL (the built-in HTTP transport), with and without a URL.
Configs == [storage : {"FLASHQ", "NVS", "CUSTOM", "CUSTOM_NULL"},
            transport : {"HTTP", "HTTP_NULL", "MQTT"}]

VARIABLES
  pc,        \* the lifecycle task: between calls ("down", "up") or in one
  config,    \* the configuration of the instance
  live,      \* how many of each resource are allocated
  started,   \* handle->started
  worker,    \* the worker task: "none", "running", "given" (the semaphore)
  stopRequested,
  ending,    \* worker tasks that gave the semaphore and are not deleted yet
  client,    \* the MQTT client: "none", "created", "running"
  calls,     \* application calls in progress
  inits, shortfalls   \* history: calls of init; NVS buffers that were refused

vars == <<pc, config, live, started, worker, stopRequested, ending, client, calls,
          inits, shortfalls>>
runtime == <<started, worker, stopRequested, ending, calls>>

With(l, parts) == [r \in Resources |-> IF r \in parts THEN l[r] + 1 ELSE l[r]]
Without(l, parts) == [r \in Resources |-> IF r \in parts THEN l[r] - 1 ELSE l[r]]
\* Pointers that are NULL are not released.
Present(l, parts) == {r \in parts : l[r] > 0}

Init ==
  /\ pc = "down" /\ config \in Configs /\ live = [r \in Resources |-> 0]
  /\ started = FALSE /\ worker = "none" /\ stopRequested = FALSE /\ ending = 0
  /\ client = "none" /\ calls = 0 /\ inits = 0 /\ shortfalls = 0

-----------------------------------------------------------------------------
(* Destructors, as what they leave of l.                                   *)

\* close, then the backend's own destructor; a custom backend keeps its own.
storage_destroy(l) ==
  Without(l, CASE config.storage = "FLASHQ" -> FlashqParts \cup Present(l, {"storage_lock"})
               [] config.storage = "NVS" ->
                    NvsParts \cup {"nvs_handle"} \cup Present(l, {"storage_lock"})
               [] OTHER -> {})

\* A transport that came with the configuration is closed and not freed.
transport_destroy(l) ==
  Without(l, IF config.transport = "MQTT" THEN {} ELSE {"http_ctx"})
client_closed == IF config.transport = "MQTT" THEN "created" ELSE client

queue_destroy(l) == Without(l, QueueParts)
Freed(l) == Without(l, {"ctx"})

-----------------------------------------------------------------------------
(* edgesync_init.                                                          *)

Fail(l) == pc' = "down" /\ live' = l /\ UNCHANGED config

\* The first allocation; the application has created the transport it passes.
InitCall(c) ==
  /\ pc = "down" /\ inits < MaxInits /\ inits' = inits + 1
  /\ c.transport = "MQTT" => client = "created"
  /\ \/ pc' = "storage" /\ config' = c /\ live' = With(live, {"ctx"})
     \/ Fail(live)
  /\ UNCHANGED <<runtime, client, shortfalls>>

\* edgesync_flashq_create: the partition, the context, then the buffers.
CreateFlashq ==
  /\ config.storage = "FLASHQ"
  /\ \/ Fail(Freed(live))
     \/ \E got \in SUBSET Buffers["FLASHQ"] :
          LET l == With(live, {"fq_ctx"} \cup got) IN
            IF got = Buffers["FLASHQ"]
            THEN pc' = "transport" /\ live' = l /\ UNCHANGED config
            ELSE Fail(Freed(Without(l, {"fq_ctx"} \cup got)))
  /\ UNCHANGED shortfalls

\* edgesync_nvs_storage_create: when a buffer is refused the context is
\* destroyed, and the handle that nvs_open returned is not closed.
CreateNvs ==
  /\ config.storage = "NVS"
  /\ \/ Fail(Freed(live)) /\ UNCHANGED shortfalls
     \/ \E got \in SUBSET Buffers["NVS"] :
          LET l == With(live, {"nvs_ctx", "nvs_handle"} \cup got) IN
            IF got = Buffers["NVS"]
            THEN /\ pc' = "transport" /\ live' = l /\ UNCHANGED <<config, shortfalls>>
            ELSE /\ Fail(Freed(Without(l, {"nvs_ctx"} \cup got)))
                 /\ shortfalls' = shortfalls + 1

CreateCustom ==
  /\ config.storage \in {"CUSTOM", "CUSTOM_NULL"}
  /\ IF config.storage = "CUSTOM"
     THEN pc' = "transport" /\ UNCHANGED <<config, live>>
     ELSE Fail(Freed(live))
  /\ UNCHANGED shortfalls

storage_create ==
  /\ pc = "storage"
  /\ CreateFlashq \/ CreateNvs \/ CreateCustom
  /\ UNCHANGED <<runtime, client, inits>>

Bug_StorageKept ==
  \/ config.transport = "HTTP" /\ pc' = "connect" /\ live' = With(live, {"http_ctx"})
     /\ UNCHANGED config
  \/ Fail(Freed(live))
\* edgesync_http_transport_create; when it fails, close is called on a storage
\* that was never initialised.
CreateHttp ==
  \/ config.transport = "HTTP" /\ pc' = "connect" /\ live' = With(live, {"http_ctx"})
     /\ UNCHANGED config
  \/ Fail(Freed(storage_destroy(live)))

transport_create ==
  /\ pc = "transport"
  /\ \/ config.transport = "MQTT" /\ pc' = "connect" /\ UNCHANGED <<config, live>>
     \/ config.transport # "MQTT" /\ CreateHttp
  /\ UNCHANGED <<runtime, client, inits, shortfalls>>

Unwind(l) == Freed(storage_destroy(transport_destroy(l)))

\* The transport's init: MQTT registers its handler and starts the client.
transport_init ==
  /\ pc = "connect"
  /\ \/ pc' = "queue" /\ UNCHANGED <<config, live>>
        /\ client' = IF config.transport = "MQTT" THEN "running" ELSE client
     \/ config.transport = "MQTT" /\ Fail(Unwind(live)) /\ client' = client_closed
  /\ UNCHANGED <<runtime, inits, shortfalls>>

queue_create ==
  /\ pc = "queue"
  /\ \/ pc' = "recover" /\ live' = With(live, QueueParts) /\ UNCHANGED <<config, client>>
     \/ Fail(Unwind(live)) /\ client' = client_closed
  /\ UNCHANGED <<runtime, inits, shortfalls>>

\* The storage's init makes its mutex; recover may fail in many ways.
queue_recover ==
  /\ pc = "recover"
  /\ LET l == IF config.storage = "CUSTOM" THEN live ELSE With(live, {"storage_lock"}) IN
       \/ pc' = "up" /\ live' = l /\ UNCHANGED <<config, client>>
       \/ \E found \in {live, l} :
            Fail(Unwind(queue_destroy(found))) /\ client' = client_closed
  /\ UNCHANGED <<runtime, inits, shortfalls>>

-----------------------------------------------------------------------------
(* edgesync_start, edgesync_stop and the worker task.                      *)

\* When the context, the semaphore or the task is refused, what was made
\* before it is released again and the instance stays as it was.
Start ==
  /\ pc = "up" /\ ~started /\ ending < MaxEnding
  /\ \/ /\ started' = TRUE /\ worker' = "running" /\ stopRequested' = FALSE
        /\ live' = With(live, WorkerParts \cup {"task"})
     \/ UNCHANGED <<started, worker, stopRequested, live>>
  /\ UNCHANGED <<pc, config, ending, client, calls, inits, shortfalls>>

StopCall ==
  /\ pc = "up" /\ started
  /\ pc' = "stopping" /\ stopRequested' = TRUE
  /\ UNCHANGED <<config, live, started, worker, ending, client, calls, inits, shortfalls>>

\* The task's last use of the worker is giving the semaphore.
WorkerGives ==
  /\ worker = "running" /\ stopRequested
  /\ worker' = "given" /\ ending' = ending + 1
  /\ UNCHANGED <<pc, config, live, started, stopRequested, client, calls, inits, shortfalls>>

TaskDeleted ==
  /\ ending > 0 /\ ending' = ending - 1 /\ live' = Without(live, {"task"})
  /\ UNCHANGED <<pc, config, started, worker, stopRequested, client, calls, inits,
                 shortfalls>>

Bug_DoesNotWait ==
  /\ pc = "stopping"
  /\ pc' = "up" /\ started' = FALSE /\ live' = Without(live, WorkerParts)
  /\ UNCHANGED <<config, worker, stopRequested, ending, client, calls, inits, shortfalls>>
StopReturns ==
  /\ pc = "stopping" /\ worker = "given"
  /\ pc' = "up" /\ started' = FALSE /\ worker' = "none"
  /\ live' = Without(live, WorkerParts)
  /\ UNCHANGED <<config, stopRequested, ending, client, calls, inits, shortfalls>>

Deinit ==
  /\ pc = "up" /\ ~started /\ calls = 0
  /\ pc' = "down" /\ live' = Unwind(queue_destroy(live)) /\ client' = client_closed
  /\ UNCHANGED <<config, runtime, inits, shortfalls>>

-----------------------------------------------------------------------------
(* The application's other calls.                                          *)

\* edgesync_get_stats needs a handle, edgesync_publish also `started'.
CallBegins ==
  /\ pc \in {"up", "stopping"} /\ calls < MaxCalls /\ calls' = calls + 1
  /\ UNCHANGED <<pc, config, live, started, worker, stopRequested, ending, client,
                 inits, shortfalls>>
CallReturns ==
  /\ calls > 0 /\ calls' = calls - 1
  /\ UNCHANGED <<pc, config, live, started, worker, stopRequested, ending, client,
                 inits, shortfalls>>

\* Before edgesync_init; what was made is released when a later step fails.
MqttCreate ==
  /\ pc = "down" /\ client = "none"
  /\ \/ client' = "created" /\ live' = With(live, MqttParts)
     \/ UNCHANGED <<client, live>>
  /\ UNCHANGED <<pc, config, runtime, inits, shortfalls>>
\* After edgesync_deinit, or after an edgesync_init that failed.
MqttDestroy ==
  /\ pc = "down" /\ client = "created"
  /\ client' = "none" /\ live' = Without(live, MqttParts)
  /\ UNCHANGED <<pc, config, runtime, inits, shortfalls>>

Next ==
  \/ \E c \in Configs : InitCall(c)
  \/ storage_create \/ transport_create \/ transport_init
  \/ queue_create \/ queue_recover
  \/ Start \/ StopCall \/ WorkerGives \/ TaskDeleted \/ StopReturns \/ Deinit
  \/ CallBegins \/ CallReturns
  \/ MqttCreate \/ MqttDestroy

Spec == Init /\ [][Next]_vars

-----------------------------------------------------------------------------
(* Properties.                                                             *)

\* After edgesync_deinit, and after an edgesync_init that failed at any step,
\* the library holds nothing: what is left is the application's own transport
\* and a task that is about to delete itself.  At no time was anything released
\* twice, by two branches of the unwinding or by library and application.  The
\* one exception of the code is the NVS handle, once for every time its buffers
\* were refused.
NothingLeaks ==
  /\ \A r \in Resources : live[r] >= 0
  /\ pc = "down" => /\ \A r \in Resources \ (MqttParts \cup {"task", "nvs_handle"}) : live[r] = 0
                    /\ live["nvs_handle"] = shortfalls
                    /\ live["task"] = ending

StorageParts(s) ==
  CASE s = "FLASHQ" -> FlashqParts \cup {"storage_lock"}
    [] s = "NVS" -> NvsParts \cup {"storage_lock", "nvs_handle"}
    [] OTHER -> {}
TransportParts(t) == IF t = "MQTT" THEN MqttParts ELSE {"http_ctx"}
\* What the worker task and the calls in progress work on exists for as long
\* as they do: the handle, the queue, its storage and its transport, and for the
\* worker its own context, through start, stop, failed starts and restarts.  An
\* MQTT client runs only between init and deinit, and then the context and the
\* mailbox its event handler writes to exist.
InUseIsLive ==
  /\ worker = "running" \/ calls > 0 =>
       \A r \in {"ctx"} \cup QueueParts \cup StorageParts(config.storage) : live[r] > 0
  /\ worker = "running" =>
       \A r \in WorkerParts \cup {"task"} \cup TransportParts(config.transport) : live[r] > 0
  /\ client = "running" => pc # "down" /\ \A r \in MqttParts : live[r] > 0
=============================================================================
