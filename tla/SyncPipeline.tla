---------------------------- MODULE SyncPipeline ----------------------------
(***************************************************************************)
(* The tasks around the storage backend: application tasks that publish    *)
(* (edgesync_publish, edgesync_queue_publish), the worker task that claims,*)
(* delivers and reports (edgesync_worker.c), and the task that owns the    *)
(* lifecycle (edgesync_init, _start, _stop).  The backend is the storage   *)
(* contract DurableQueue, whose calls the queue's mutex makes atomic.      *)
(*                                                                         *)
(* What happens between two calls is interleaved freely: events and the    *)
(* wake-up of the worker come after the mutex is released, and delivery    *)
(* holds no lock at all.                                                   *)
(*                                                                         *)
(* A storage call may return an error and have done its work in RAM, on    *)
(* the medium, on both or on neither: q is the index the calls go by, kept *)
(* what a recovery may find.  The choices are those of both backends, of   *)
(* which each makes some; recovery itself is taken to succeed (what its    *)
(* own flash and NVS calls may do is in FlashQueue and NvsQueue).          *)
(* Notifying a task that no longer exists is undefined behaviour; the      *)
(* model goes on as if it had no effect.                                   *)
(***************************************************************************)
EXTENDS Integers, FiniteSets

CONSTANTS
  Ids,           \* message ids, each published once
  NoId,          \* no message
  Publishers,    \* application tasks
  MaxMessages,   \* max_queue_size
  MaxAttempts,   \* retry_max_attempts, 0: unlimited
  Dropping,      \* overflow_policy is one of the two DROP policies
  QuietStart,    \* edgesync_start is called with no publish in progress
  MaxStarts,     \* bound: calls of edgesync_start in a behaviour
  MaxRecoveries, \* bound: resets of the device, and deinit followed by init
  MaxErrors      \* bound: storage calls that return an error

ASSUME PipelineAssumption ==
  /\ NoId \notin Ids /\ IsFiniteSet(Ids)
  /\ MaxMessages \in Nat \ {0} /\ MaxAttempts \in Nat
  /\ Dropping \in BOOLEAN /\ QuietStart \in BOOLEAN
  /\ MaxStarts \in Nat /\ MaxRecoveries \in Nat /\ MaxErrors \in Nat

VARIABLES
  q, kept,                        \* storage: the index, what a recovery may find
  ripe,                           \* messages whose retry time has come
  offered, pub,                   \* ids given to a publish; the publish calls
  wpc, wmsg, wres,                \* the worker task
  notified, stopRequested,        \* its notification and stop_requested
  opc, started, inc, wake,        \* lifecycle; worker generation; wake_cb
  fired, acked,                   \* history: events, deliveries reported as SUCCESS
  errors, recoveries

storage == <<q, kept, ripe>>
publishing == <<offered, pub>>
worker == <<wpc, wmsg, wres, notified>>
owner == <<stopRequested, opc, started, inc, wake>>
history == <<fired, acked>>
vars == <<q, kept, ripe, offered, pub, wpc, wmsg, wres, notified, stopRequested, opc,
          started, inc, wake, fired, acked, errors, recoveries>>

Storage == INSTANCE DurableQueue

-----------------------------------------------------------------------------
Idle == [pc |-> "idle", msg |-> NoId, drop |-> NoId, err |-> "none", wake |-> 0]
\* The queue's mutex is held over several steps only while a publish drops.
LockFree == \A p \in Publishers : pub[p].pc \notin {"drop", "again"}
Room == Cardinality(Storage!Stored) < MaxMessages
InState(st) == {m \in Ids : q[m].st = st}
Eligible == InState("PENDING") \cap ripe

\* A storage call about m that returns ESP_OK: a recovery finds what it did.
Works(m, call) == call /\ kept' = [kept EXCEPT ![m] = {q'[m]}] /\ UNCHANGED errors
\* One that returns an error: a recovery may find m as it was, or as `new'.
Fails(m, new) ==
  /\ errors < MaxErrors /\ errors' = errors + 1
  /\ kept' = [kept EXCEPT ![m] = @ \cup {new}]
\* The index may have been changed to `new' before the write that failed.
MayShow(m, new) == q' \in {q, [q EXCEPT ![m] = new]}
\* The message is in the index, and perhaps no longer on the medium.
Hollow(m) == Storage!Gone \in kept[m]

\* The task a notification is meant for exists.
WorkerLives == wpc \notin {"none", "exited"}

Init ==
  /\ Storage!Init /\ kept = [m \in Ids |-> {q[m]}] /\ ripe = {}
  /\ offered = {} /\ pub = [p \in Publishers |-> Idle]
  /\ wpc = "none" /\ wmsg = NoId /\ wres = "none" /\ notified = FALSE
  /\ stopRequested = FALSE /\ opc = "stopped" /\ started = FALSE
  /\ inc = 0 /\ wake = 0
  /\ fired = {} /\ acked = [m \in Ids |-> "never"]
  /\ errors = 0 /\ recoveries = 0

-----------------------------------------------------------------------------
(* edgesync_publish.                                                       *)

\* The handle's `started' is read without a lock.
PublishCall(p, m) ==
  /\ pub[p].pc = "idle" /\ started /\ m \notin offered
  /\ offered' = offered \cup {m}
  /\ pub' = [pub EXCEPT ![p] = [Idle EXCEPT !.pc = "enqueue", !.msg = m]]
  /\ UNCHANGED <<storage, worker, owner, history, errors, recoveries>>

\* The mutex is released; wake_cb has been copied if the message was accepted.
Leave(p, err) ==
  pub' = [pub EXCEPT ![p].pc = "announce", ![p].err = err,
                     ![p].wake = IF err = "ok" THEN wake ELSE 0]
Enqueue(p) ==
  /\ \/ pub[p].pc = "enqueue" /\ LockFree
     \/ pub[p].pc = "again"
  /\ LET m == pub[p].msg IN
       \/ /\ Room /\ Works(m, Storage!Accept(m))
          /\ ripe' = ripe \cup {m} /\ Leave(p, "ok")
       \/ /\ Room /\ Fails(m, Storage!Message("PENDING", 0)) /\ UNCHANGED q
          /\ ripe' = ripe \cup {m} /\ Leave(p, "error")
       \/ /\ ~Room /\ UNCHANGED <<storage, errors>>
          /\ IF Dropping /\ pub[p].pc = "enqueue" /\ InState("PENDING") # {}
             THEN pub' = [pub EXCEPT ![p].pc = "drop"]
             ELSE Leave(p, "full")
  /\ UNCHANGED <<offered, worker, owner, history, recoveries>>

\* find_drop_candidate and remove; the result of remove is not looked at.
DropOne(p) ==
  /\ pub[p].pc = "drop"
  /\ \E d \in InState("PENDING") :
       /\ \/ Works(d, Storage!Close(d))
          \/ (Fails(d, Storage!Gone) \/ Fails(d, q[d])) /\ UNCHANGED q
       /\ pub' = [pub EXCEPT ![p].pc = "again", ![p].drop = d]
  /\ UNCHANGED <<ripe, offered, worker, owner, history, recoveries>>

Bug_SilentDrop(p) ==
  LET c == pub[p] IN
    CASE c.err = "ok"   -> {<<"QUEUED", c.msg>>}
      [] c.err = "full" -> {<<"QUEUE_FULL", c.msg>>}
      [] OTHER -> {}
\* The events a publish fires, from its own task, after the mutex.
Announced(p) ==
  LET c == pub[p] IN
    (IF c.drop # NoId THEN {<<"QUEUE_FULL", c.drop>>} ELSE {})
    \cup CASE c.err = "ok"   -> {<<"QUEUED", c.msg>>}
           [] c.err = "full" -> {<<"QUEUE_FULL", c.msg>>}
           [] OTHER -> {}
Announce(p) ==
  /\ pub[p].pc = "announce"
  /\ fired' = fired \cup Announced(p)
  /\ pub' = [pub EXCEPT ![p] = IF pub[p].wake # 0 THEN [@ EXCEPT !.pc = "wake"] ELSE Idle]
  /\ UNCHANGED <<storage, offered, worker, owner, acked, errors, recoveries>>

\* wake_cb(wake_ctx): the worker it was copied for may be gone by now.
Wake(p) ==
  /\ pub[p].pc = "wake"
  /\ notified' = IF pub[p].wake = inc /\ WorkerLives THEN TRUE ELSE notified
  /\ pub' = [pub EXCEPT ![p] = Idle]
  /\ UNCHANGED <<storage, offered, wpc, wmsg, wres, owner, history, errors, recoveries>>

-----------------------------------------------------------------------------
(* worker_task.                                                            *)

Bug_ExitsWithoutSemaphore ==
  /\ wpc = "loop"
  /\ wpc' = IF stopRequested THEN "none" ELSE "claim"
  /\ UNCHANGED <<storage, publishing, wmsg, wres, notified, owner, history, errors, recoveries>>
LoopCheck ==
  /\ wpc = "loop"
  /\ wpc' = IF stopRequested THEN "exited" ELSE "claim"
  /\ UNCHANGED <<storage, publishing, wmsg, wres, notified, owner, history, errors, recoveries>>

ClaimNothing ==
  /\ wpc = "claim" /\ LockFree /\ Eligible = {}
  /\ wpc' = "nothing"
  /\ UNCHANGED <<storage, publishing, wmsg, wres, notified, owner, history, errors, recoveries>>
Bug_DrainsNotification ==
  /\ wpc = "nothing"
  /\ wpc' = "sleep" /\ notified' = FALSE
  /\ UNCHANGED <<storage, publishing, wmsg, wres, owner, history, errors, recoveries>>
\* ulTaskNotifyTake: a notification given since the last one is still counted.
Sleep ==
  /\ wpc = "nothing"
  /\ wpc' = "sleep"
  /\ UNCHANGED <<storage, publishing, wmsg, wres, notified, owner, history, errors, recoveries>>

\* claim_next takes a message.
ClaimNext(m) ==
  /\ wpc = "claim" /\ LockFree /\ m \in Eligible
  /\ Works(m, Storage!Claim(m))
  /\ wpc' = "deliver" /\ wmsg' = m
  /\ UNCHANGED <<ripe, publishing, wres, notified, owner, history, recoveries>>
\* Its bytes are corrupt; NVS erases them and keeps the entry.
ClaimCorrupt(m) ==
  /\ wpc = "claim" /\ LockFree /\ m \in Eligible
  /\ errors < MaxErrors /\ errors' = errors + 1 /\ Storage!Condemn(m)
  /\ kept' \in {[kept EXCEPT ![m] = {q'[m]}], [kept EXCEPT ![m] = @ \cup {q'[m], Storage!Gone}]}
  /\ wpc' = "event" /\ wmsg' = m /\ wres' = "DEAD_LETTER"
  /\ UNCHANGED <<ripe, publishing, notified, owner, history, recoveries>>
\* They cannot be read: NVS says NOT_FOUND, of one that is hollow each time.
ClaimMissing(m) ==
  /\ wpc = "claim" /\ LockFree /\ m \in Eligible
  /\ \/ Hollow(m) /\ UNCHANGED errors
     \/ errors < MaxErrors /\ errors' = errors + 1
  /\ wpc' = "nothing"
  /\ UNCHANGED <<storage, publishing, wmsg, wres, notified, owner, history, recoveries>>
\* Another error; NVS changes its index before it writes, the flash queue after.
ClaimFails(m) ==
  LET attempted == Storage!Message("IN_FLIGHT", q[m].att + 1)
      dead == Storage!Message("DEAD_LETTER", q[m].att) IN
    /\ wpc = "claim" /\ LockFree /\ m \in Eligible
    /\ \/ Fails(m, attempted) /\ MayShow(m, attempted)
       \/ Fails(m, dead) /\ UNCHANGED q
    /\ wpc' = "pause"
    /\ UNCHANGED <<ripe, publishing, wmsg, wres, notified, owner, history, recoveries>>

Bug_NoIdlePoll ==
  /\ wpc \in {"sleep", "pause"} /\ notified
  /\ wpc' = "loop" /\ notified' = FALSE
  /\ UNCHANGED <<storage, publishing, wmsg, wres, owner, history, errors, recoveries>>
\* It returns on a notification, which it clears, or on a timeout.
WakeUp ==
  /\ wpc \in {"sleep", "pause"}
  /\ wpc' = "loop" /\ notified' = FALSE
  /\ UNCHANGED <<storage, publishing, wmsg, wres, owner, history, errors, recoveries>>

Results == {"success", "retryable", "permanent"}
Bug_ChecksStopAgain ==
  /\ wpc = "deliver"
  /\ \E res \in Results :
       /\ wpc' = IF stopRequested THEN "loop" ELSE "report"
       /\ wres' = res
       /\ acked' = [acked EXCEPT ![wmsg] = IF res = "success" THEN "now" ELSE @]
  /\ UNCHANGED <<storage, publishing, wmsg, notified, owner, fired, errors, recoveries>>
\* The transport classifies the attempt; it holds no lock meanwhile.  The
\* destination may have taken a message whose attempt is retryable, too: no more
\* is known of it than that no answer came in time, and it is sent again.
Deliver ==
  /\ wpc = "deliver"
  /\ \E res \in Results :
       /\ wpc' = "report" /\ wres' = res
       /\ acked' = [acked EXCEPT ![wmsg] = IF res = "success" THEN "now" ELSE @]
  /\ UNCHANGED <<storage, publishing, wmsg, notified, owner, fired, errors, recoveries>>

ShouldRetry(att) == MaxAttempts = 0 \/ att < MaxAttempts
\* What handle_delivery_result decides.
Bug_ExhaustedIsDelivered(res, att) ==
  CASE res = "success" -> "DELIVERED"
    [] res = "retryable" /\ ShouldRetry(att) -> "RETRY"
    [] OTHER -> "DELIVERED"
Verdict(res, att) ==
  CASE res = "success" -> "DELIVERED"
    [] res = "retryable" /\ ShouldRetry(att) -> "RETRY"
    [] OTHER -> "DEAD_LETTER"
\* The call that records it, and what it makes of the message.
Record(m, verdict) ==
  CASE verdict = "DELIVERED"   -> Storage!Close(m)
    [] verdict = "DEAD_LETTER" -> Storage!DeadLetter(m)
    [] verdict = "RETRY"       -> Storage!PutBack(m)
Recorded(m, verdict) ==
  CASE verdict = "DELIVERED"   -> Storage!Gone
    [] verdict = "DEAD_LETTER" -> Storage!Message("DEAD_LETTER", q[m].att)
    [] verdict = "RETRY"       -> Storage!Message("PENDING", q[m].att)
Bug_RetriesWhenUnrecorded ==
  /\ wpc = "report" /\ LockFree
  /\ LET verdict == Verdict(wres, q[wmsg].att) IN
       /\ \/ Works(wmsg, Record(wmsg, verdict))
          \/ Fails(wmsg, Recorded(wmsg, verdict)) /\ Storage!PutBack(wmsg)
       /\ ripe' = IF verdict = "RETRY" THEN ripe \ {wmsg} ELSE ripe
       /\ wpc' = "event" /\ wres' = verdict
  /\ UNCHANGED <<publishing, wmsg, notified, owner, history, recoveries>>
\* The outcome is reported to storage; the result of that call is not looked at.
Report ==
  /\ wpc = "report" /\ LockFree
  /\ LET verdict == Verdict(wres, q[wmsg].att)
         new == Recorded(wmsg, verdict) IN
       /\ \/ Works(wmsg, Record(wmsg, verdict))
          \/ Fails(wmsg, new) /\ IF verdict = "DELIVERED" THEN UNCHANGED q
                                                         ELSE MayShow(wmsg, new)
       /\ ripe' = IF verdict = "RETRY" THEN ripe \ {wmsg} ELSE ripe
       /\ wpc' = "event" /\ wres' = verdict
  /\ UNCHANGED <<publishing, wmsg, notified, owner, history, recoveries>>

\* The event callback, outside the lock.
WorkerEvent ==
  /\ wpc = "event"
  /\ fired' = fired \cup {<<wres, wmsg>>}
  /\ wpc' = "loop" /\ wmsg' = NoId /\ wres' = "none"
  /\ UNCHANGED <<storage, publishing, notified, owner, acked, errors, recoveries>>

\* The retry time of a message comes.
Ripen(m) ==
  /\ m \in InState("PENDING") \ ripe
  /\ ripe' = ripe \cup {m}
  /\ UNCHANGED <<q, kept, publishing, worker, owner, history, errors, recoveries>>

-----------------------------------------------------------------------------
(* edgesync_start, edgesync_stop, one call at a time.                      *)

StartCall ==
  /\ opc = "stopped" /\ inc < MaxStarts
  /\ QuietStart => \A p \in Publishers : pub[p].pc = "idle"
  /\ inc' = inc + 1 /\ stopRequested' = FALSE
  /\ wpc' = "loop" /\ wmsg' = NoId /\ wres' = "none" /\ notified' = FALSE
  /\ opc' = "created"
  /\ UNCHANGED <<storage, publishing, started, wake, history, errors, recoveries>>
\* The worker may have run for a while when wake_cb is set.
StartReturns ==
  /\ opc = "created" /\ LockFree
  /\ wake' = inc /\ started' = TRUE /\ opc' = "running"
  /\ UNCHANGED <<storage, publishing, worker, stopRequested, inc, history,
                 errors, recoveries>>

StopCall ==
  /\ opc = "running" /\ LockFree
  /\ wake' = 0 /\ opc' = "unhooked"
  /\ UNCHANGED <<storage, publishing, worker, stopRequested, started, inc, history,
                 errors, recoveries>>
StopRequest ==
  /\ opc = "unhooked"
  /\ stopRequested' = TRUE /\ opc' = "requested"
  /\ UNCHANGED <<storage, publishing, worker, started, inc, wake, history, errors, recoveries>>
StopNotify ==
  /\ opc = "requested"
  /\ notified' = IF WorkerLives THEN TRUE ELSE notified
  /\ opc' = "waiting"
  /\ UNCHANGED <<storage, publishing, wpc, wmsg, wres, stopRequested, started, inc, wake,
                 history, errors, recoveries>>
Bug_StopDoesNotWait ==
  /\ opc = "waiting"
  /\ wpc' = "none" /\ started' = FALSE /\ opc' = "stopped"
  /\ UNCHANGED <<storage, publishing, wmsg, wres, notified, stopRequested, inc, wake,
                 history, errors, recoveries>>
\* stopped_sem is given last thing by the worker; its memory is freed after.
StopReturn ==
  /\ opc = "waiting" /\ wpc = "exited"
  /\ wpc' = "none" /\ started' = FALSE /\ opc' = "stopped"
  /\ UNCHANGED <<storage, publishing, wmsg, wres, notified, stopRequested, inc, wake,
                 history, errors, recoveries>>

\* recover: one of what it may find of each message, IN_FLIGHT ones put back.
Requeued(k) == IF k.st = "IN_FLIGHT" THEN Storage!Message("PENDING", k.att) ELSE k
Recover ==
  /\ \E found \in [Ids -> UNION {kept[m] : m \in Ids}] :
       /\ \A m \in Ids : found[m] \in kept[m]
       /\ q' = [m \in Ids |-> Requeued(found[m])]
       /\ ripe' = ripe \cup {m \in Ids : found[m].st = "IN_FLIGHT"}
  /\ Cardinality(Storage!Stored') <= MaxMessages
  /\ kept' = [m \in Ids |-> {q'[m]}]
  /\ acked' = [m \in Ids |-> IF acked[m] = "now" THEN "before" ELSE acked[m]]
  /\ recoveries < MaxRecoveries /\ recoveries' = recoveries + 1

\* A reset of the device, at any moment, followed by edgesync_init.
Reset ==
  /\ Recover
  /\ pub' = [p \in Publishers |-> Idle]
  /\ wpc' = "none" /\ wmsg' = NoId /\ wres' = "none" /\ notified' = FALSE
  /\ stopRequested' = FALSE /\ opc' = "stopped" /\ started' = FALSE /\ wake' = 0
  /\ UNCHANGED <<offered, inc, fired, errors>>

\* edgesync_deinit of an instance that nobody uses, and edgesync_init.
Reinit ==
  /\ opc = "stopped" /\ \A p \in Publishers : pub[p].pc = "idle"
  /\ Recover
  /\ UNCHANGED <<publishing, worker, owner, fired, errors>>

-----------------------------------------------------------------------------
Publishing == \E p \in Publishers : Enqueue(p) \/ DropOne(p) \/ Announce(p) \/ Wake(p)
Worker ==
  \/ LoopCheck \/ ClaimNothing \/ Sleep \/ WakeUp \/ Deliver \/ Report \/ WorkerEvent
  \/ \E m \in Ids : ClaimNext(m) \/ ClaimCorrupt(m) \/ ClaimMissing(m) \/ ClaimFails(m)
Stopping == StartReturns \/ StopRequest \/ StopNotify \/ StopReturn
Next ==
  \/ \E p \in Publishers, m \in Ids : PublishCall(p, m)
  \/ Publishing \/ Worker \/ Stopping
  \/ StartCall \/ StopCall \/ Reset \/ Reinit
  \/ \E m \in Ids : Ripen(m)

Spec == Init /\ [][Next]_vars

\* A task that has something to do does it, a call that has begun goes on, and
\* retry times come.  Nobody has to publish, to start or to stop.
Fairness ==
  /\ WF_vars(Publishing) /\ WF_vars(Worker) /\ WF_vars(Stopping)
  /\ \A m \in Ids : WF_vars(Ripen(m))
FairSpec == Spec /\ Fairness

-----------------------------------------------------------------------------
(* Properties.                                                             *)

Errs == {"none", "ok", "error", "full"}
Calls == [pc : {"idle", "enqueue", "drop", "again", "announce", "wake"},
          msg : Ids \cup {NoId}, drop : Ids \cup {NoId}, err : Errs, wake : Nat]
Events == {"QUEUED", "QUEUE_FULL", "DELIVERED", "RETRY", "DEAD_LETTER"}
Messages == [st : {"absent", "PENDING", "IN_FLIGHT", "DEAD_LETTER", "gone"}, att : Nat]
\* The types of the storage, of the tasks and of the history.
TypeOK ==
  /\ q \in [Ids -> Messages] /\ kept \in [Ids -> SUBSET Messages]
  /\ ripe \subseteq Ids /\ offered \subseteq Ids
  /\ pub \in [Publishers -> Calls]
  /\ wpc \in {"none", "loop", "claim", "nothing", "sleep", "pause", "deliver",
              "report", "event", "exited"}
  /\ wmsg \in Ids \cup {NoId} /\ wres \in {"none"} \cup Results \cup Events
  /\ notified \in BOOLEAN /\ stopRequested \in BOOLEAN /\ started \in BOOLEAN
  /\ opc \in {"stopped", "created", "running", "unhooked", "requested", "waiting"}
  /\ inc \in Nat /\ wake \in Nat
  /\ fired \subseteq Events \X Ids /\ acked \in [Ids -> {"never", "now", "before"}]
  /\ errors \in Nat /\ recoveries \in Nat

\* A new message never waits for the idle poll: while the worker sleeps with
\* no notification, whoever published it has yet to wake it (worker.c:86-90).
\* After a storage call that failed it may: a NOT_FOUND of claim_next can mean
\* one blob that is missing instead of an empty queue.
NoLostWakeup ==
  errors = 0 /\ wpc = "sleep" /\ ~notified /\ opc = "running" =>
    \A m \in Eligible : q[m].att = 0 =>
      \E p \in Publishers : pub[p].msg = m /\ pub[p].wake = inc

\* When edgesync_stop has returned no attempt is in progress, and, unless a
\* storage call failed, none is left without an outcome: the worker looks at
\* stop_requested only between messages (edgesync.h:171-176).
QuietWhenStopped ==
  opc = "stopped" => wpc = "none" /\ (errors = 0 => InState("IN_FLIGHT") = {})

\* A message is IN_FLIGHT only in the hands of the worker, unless a storage
\* call failed to say how the attempt ended.
InFlightIsHeld ==
  errors = 0 => \A m \in InState("IN_FLIGHT") : wpc \in {"deliver", "report"} /\ wmsg = m

\* Once the transport has reported SUCCESS for a message, it is not handed to
\* the transport again before the next recovery, whatever calls to storage fail,
\* the one that should have recorded the delivery included.
NoResendAfterSuccess == wpc = "deliver" => acked[wmsg] # "now"

\* "IN_FLIGHT and DEAD_LETTER messages are never silently discarded", and a
\* dropped PENDING one is announced (RELIABILITY.md:94-97): what is no longer
\* queued was delivered, or its drop is announced, as long as nothing has made
\* the backend recover.
NothingSilentlyDropped ==
  recoveries = 0 => \A m \in InState("gone") :
    \/ acked[m] # "never"
    \/ <<"QUEUE_FULL", m>> \in fired
    \/ \E p \in Publishers : pub[p].drop = m

\* An event reports what storage has recorded (edgesync_events.h:14-19), as long
\* as no storage call fails: the code announces an outcome whatever became of it.
EventsAreTrue ==
  errors = 0 => \A m \in Ids :
    /\ <<"QUEUED", m>> \in fired => q[m].st # "absent"
    /\ <<"DELIVERED", m>> \in fired => q[m].st = "gone" /\ acked[m] # "never"
    /\ <<"DEAD_LETTER", m>> \in fired => q[m].st = "DEAD_LETTER"
    /\ <<"QUEUE_FULL", m>> \in fired => q[m].st \in {"absent", "gone"}

Resolved(m) == q[m].st \in {"gone", "DEAD_LETTER"}
Accepted(m) == q[m].st # "absent"
\* Left IN_FLIGHT by a storage call that failed to record an attempt or its
\* outcome: no claim takes it again before a recovery.
Abandoned(m) == q[m].st = "IN_FLIGHT" /\ wmsg # m
\* For as long as EdgeSync stays started, an accepted message comes to an end,
\* "it will be delivered (or explicitly dead-lettered)" (RELIABILITY.md:8-10),
\* if finitely many storage calls fail, in every way they may but one: a PENDING
\* entry of NVS that stays without its blob holds up all that come after it.
\* Finitely many is a hypothesis the flash queue may not meet: an append that
\* failed after it wrote leaves the cursor on units that are not blank, and
\* every later one fails until a compaction (flashq.c:206-216).
Resolves ==
  <>[](opc = "running" /\ \A m \in InState("PENDING") : ~Hollow(m)) =>
    \A m \in Ids : Accepted(m) ~> Resolved(m) \/ Abandoned(m)

\* edgesync_stop returns: it never waits for a worker that sleeps on, nor for
\* one whose storage calls fail.
StopReturns == opc = "unhooked" ~> opc = "stopped"
=============================================================================
