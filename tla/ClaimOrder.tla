----------------------------- MODULE ClaimOrder -----------------------------
(***************************************************************************)
(* Which message comes next: the order of the index of a backend.  Both    *)
(* backends keep an array of entries, append at its end, fill the hole of  *)
(* a removed entry with the last one, and scan it from the start for the   *)
(* next message to claim or to drop; the scans of the two are the same     *)
(* code.  The queue layer's overflow policy and counters are here too.     *)
(*                                                                         *)
(* Times are esp_timer_get_time(): microseconds since boot, one unit being *)
(* one Tick.  They are stored with a message and outlive the boot that     *)
(* they count from.  Storage calls succeed here; how they fail is the      *)
(* subject of FlashQueue and NvsQueue.                                     *)
(***************************************************************************)
EXTENDS Integers, Sequences, FiniteSets, Functions

CONSTANTS
  MaxPublishes,   \* bound: messages 1, 2, ... in the order of their publish calls
  Priorities,     \* edgesync_priority_t
  MaxMessages,    \* max_queue_size
  MaxAttempts,    \* retry_max_attempts, 0: unlimited
  Delays,         \* what edgesync_retry_compute_delay_ms may return
  MaxPublishers,  \* bound: publish calls in progress
  MaxTime,        \* bound: the clock of one boot
  MaxResets       \* bound: resets of the device

ASSUME OrderAssumption ==
  /\ MaxPublishes \in Nat /\ Priorities \subseteq Nat
  /\ MaxMessages \in Nat \ {0} /\ MaxAttempts \in Nat /\ Delays \subseteq Nat
  /\ MaxPublishers \in Nat /\ MaxTime \in Nat /\ MaxResets \in Nat

Ids == 1..MaxPublishes
Policies == {"REJECT_NEW", "DROP_OLDEST", "DROP_LOWEST_PRIORITY"}

VARIABLES
  index,      \* the entries, in the order of the array
  now,        \* esp_timer_get_time()
  policy,     \* overflow_policy
  stamped,    \* messages of publish calls that have not got the mutex yet
  counters,   \* successful_deliveries, failed_deliveries
  \* History: publishes; the boot a message was created in; the real time its
  \* back-off ends; real time at boot; resets; messages taken
  \* in (found or accepted, less dropped) and attempts begun since boot.
  offered, born, due, bootedAt, resets, since

history == <<offered, born, due, bootedAt, resets, since>>
vars == <<index, now, policy, stamped, counters, offered, born, due, bootedAt,
          resets, since>>

-----------------------------------------------------------------------------
(* The scans.                                                              *)

Nothing == 0   \* best == NULL; an entry is its position in the array otherwise
Entries == {index[i] : i \in DOMAIN index}
Entry(m) == CHOOSE e \in Entries : e.id = m
Position(m) == CHOOSE i \in DOMAIN index : index[i].id = m

Eligible(e) == e.st = "PENDING" /\ e.retry <= now
Bug_NewestFirst(e, best) ==
  \/ e.prio > best.prio
  \/ e.prio = best.prio /\ e.retry < best.retry
  \/ e.prio = best.prio /\ e.retry = best.retry /\ e.created > best.created
Before(e, best) ==
  \/ e.prio > best.prio
  \/ e.prio = best.prio /\ e.retry < best.retry
  \/ e.prio = best.prio /\ e.retry = best.retry /\ e.created < best.created
\* One pass over the array: best[n] is the choice among the first n entries.
Scan(candidates, beats) ==
  LET best[n \in 0 .. Len(index)] ==
        CASE n = 0 -> Nothing
          [] n # 0 /\ n \in candidates
             /\ (best[n - 1] = Nothing \/ <<n, best[n - 1]>> \in beats) -> n
          [] OTHER -> best[n - 1]
  IN best[Len(index)]
Pairs == (DOMAIN index) \X (DOMAIN index)
claim_next == Scan({i \in DOMAIN index : Eligible(index[i])},
                   {p \in Pairs : Before(index[p[1]], index[p[2]])})

Pending(e) == e.st = "PENDING"
Bug_AgeOnly(e, best) == e.created < best.created
DropBefore(e, best) ==
  \/ policy = "DROP_LOWEST_PRIORITY" /\ e.prio < best.prio
  \/ /\ policy = "DROP_LOWEST_PRIORITY" => e.prio = best.prio
     /\ e.created < best.created
find_drop_candidate == Scan({i \in DOMAIN index : Pending(index[i])},
                            {p \in Pairs : DropBefore(index[p[1]], index[p[2]])})

\* The last entry takes the place of the removed one.
remove_entry(m) ==
  [i \in 1..(Len(index) - 1) |-> IF i = Position(m) THEN index[Len(index)] ELSE index[i]]
Update(m, e) == [index EXCEPT ![Position(m)] = e]

Init ==
  /\ index = <<>> /\ now = 0 /\ policy \in Policies /\ stamped = {}
  /\ counters = [successful |-> 0, failed |-> 0]
  /\ offered = 0 /\ born = [m \in Ids |-> 0] /\ due = [m \in Ids |-> 0]
  /\ bootedAt = 0 /\ resets = 0
  /\ since = [taken |-> 0, claimed |-> 0]

-----------------------------------------------------------------------------
(* Publishing: the time is read before the mutex of the queue is taken.    *)

Stamp(p) ==
  /\ offered < MaxPublishes /\ Cardinality(stamped) < MaxPublishers
  /\ offered' = offered + 1 /\ born' = [born EXCEPT ![offered'] = resets]
  /\ stamped' = stamped \cup {[id |-> offered', prio |-> p, created |-> now]}
  /\ UNCHANGED <<index, now, policy, counters, due, bootedAt, resets, since>>

NewEntry(s) == [id |-> s.id, st |-> "PENDING", prio |-> s.prio,
                created |-> s.created, retry |-> 0, att |-> 0]
\* edgesync_queue_publish under the mutex: what becomes of the index, and how
\* many messages it gained.
Published(s) ==
  LET victim == find_drop_candidate IN
    CASE Len(index) < MaxMessages -> <<Append(index, NewEntry(s)), 1>>
      [] Len(index) >= MaxMessages /\ (policy = "REJECT_NEW" \/ victim = Nothing) ->
           <<index, 0>>
      [] OTHER -> <<Append(remove_entry(index[victim].id), NewEntry(s)), 0>>
Publish(s) ==
  /\ index' = Published(s)[1]
  /\ since' = [since EXCEPT !.taken = @ + Published(s)[2]]
  /\ stamped' = stamped \ {s}
  /\ UNCHANGED <<now, policy, counters, offered, born, due, bootedAt, resets>>

-----------------------------------------------------------------------------
(* The worker: one attempt at a time.                                      *)

InFlight == {e \in Entries : e.st = "IN_FLIGHT"}

Claim ==
  /\ InFlight = {} /\ claim_next # Nothing
  /\ LET e == index[claim_next] IN
       index' = Update(e.id, [e EXCEPT !.st = "IN_FLIGHT", !.att = @ + 1])
  /\ since' = [since EXCEPT !.claimed = @ + 1]
  /\ UNCHANGED <<now, policy, stamped, counters, offered, born, due, bootedAt, resets>>

MarkDelivered(e) ==
  /\ index' = remove_entry(e.id)
  /\ counters' = [counters EXCEPT !.successful = @ + 1]
  /\ UNCHANGED <<now, policy, stamped, history>>

\* A retryable failure with attempts left, after the back-off d.
ScheduleRetry(e, d) ==
  /\ MaxAttempts = 0 \/ e.att < MaxAttempts
  /\ now + d <= MaxTime
  /\ index' = Update(e.id, [e EXCEPT !.st = "PENDING", !.retry = now + d])
  /\ due' = [due EXCEPT ![e.id] = bootedAt + now + d]
  /\ counters' = [counters EXCEPT !.failed = @ + 1]
  /\ UNCHANGED <<now, policy, stamped, offered, born, bootedAt, resets, since>>

Bug_DeadLetterNotCounted(e) ==
  /\ index' = Update(e.id, [e EXCEPT !.st = "DEAD_LETTER", !.retry = 0])
  /\ UNCHANGED <<now, policy, stamped, counters, history>>
\* A permanent failure, or the last attempt.
DeadLetter(e) ==
  /\ index' = Update(e.id, [e EXCEPT !.st = "DEAD_LETTER", !.retry = 0])
  /\ counters' = [counters EXCEPT !.failed = @ + 1]
  /\ UNCHANGED <<now, policy, stamped, history>>

-----------------------------------------------------------------------------
(* Time and resets.                                                        *)

Tick ==
  /\ now < MaxTime /\ now' = now + 1
  /\ UNCHANGED <<index, policy, stamped, counters, history>>

Bug_ClearsEveryRetry(e) == [e EXCEPT !.st = IF @ = "IN_FLIGHT" THEN "PENDING" ELSE @,
                                     !.retry = 0]
Requeued(e) ==
  IF e.st = "IN_FLIGHT" THEN [e EXCEPT !.st = "PENDING", !.retry = 0] ELSE e
\* The flash queue replays its log and finds the order it had; the NVS
\* backend finds the order of its slots, which may be any.
Reset ==
  /\ resets < MaxResets /\ resets' = resets + 1
  /\ \E perm \in Bijection(DOMAIN index, DOMAIN index) :
       index' = [i \in DOMAIN index |-> Requeued(index[perm[i]])]
  /\ bootedAt' = bootedAt + now /\ now' = 0
  /\ stamped' = {} /\ counters' = [successful |-> 0, failed |-> 0]
  /\ since' = [taken |-> Len(index), claimed |-> 0]
  /\ UNCHANGED <<policy, offered, born, due>>

Done == offered = MaxPublishes /\ stamped = {} /\ now = MaxTime /\ resets = MaxResets
        /\ InFlight = {} /\ claim_next = Nothing
Quiescent == Done /\ UNCHANGED vars

Outcome ==
  \E e \in InFlight :
    \/ MarkDelivered(e)
    \/ \E d \in Delays : ScheduleRetry(e, d)
    \/ DeadLetter(e)
Next ==
  \/ \E p \in Priorities : Stamp(p)
  \/ \E s \in stamped : Publish(s)
  \/ Claim
  \/ Outcome
  \/ Tick
  \/ Reset
  \/ Quiescent

Spec == Init /\ [][Next]_vars

-----------------------------------------------------------------------------
(* edgesync_get_stats.                                                     *)

Count(st) == Cardinality({e \in Entries : e.st = st})
Retrying == Cardinality({e \in Entries : e.st = "PENDING" /\ e.att > 0})
Stats ==
  [pending_messages      |-> Count("PENDING") - Retrying,
   retrying_messages     |-> Retrying,
   in_flight_messages    |-> Count("IN_FLIGHT"),
   dead_letter_messages  |-> Count("DEAD_LETTER"),
   successful_deliveries |-> counters.successful,
   failed_deliveries     |-> counters.failed]

-----------------------------------------------------------------------------
(* Properties.                                                             *)

\* The numbers of edgesync_get_stats account for everything since boot, in the
\* two views a reader takes of them: the messages found or accepted, and
\* not dropped, are delivered or in one of the four classes, and the attempts
\* begun are counted as a success, a failure or in flight.
StatsAccount ==
  /\ Stats.pending_messages + Stats.retrying_messages + Stats.in_flight_messages
       + Stats.dead_letter_messages + Stats.successful_deliveries = since.taken
  /\ Stats.successful_deliveries + Stats.failed_deliveries + Stats.in_flight_messages
     = since.claimed

Claimed(m) == \E e \in InFlight' : e.id = m /\ e \notin InFlight
\* claim_next serves the most urgent priority that has anything eligible, and
\* within it messages of one boot get their first attempt in the order of
\* their creation, however removals have shuffled the index.
ClaimsInOrder ==
  [][\A m \in Ids : Claimed(m) =>
       \A e \in Entries : Eligible(e) =>
         /\ e.prio <= Entry(m).prio
         /\ (e.prio = Entry(m).prio /\ e.att = 0 /\ Entry(m).att = 0
             /\ born[e.id] = born[m]) => Entry(m).created <= e.created]_vars

\* A retry is not attempted before its back-off has elapsed in real time, also
\* when resets have restarted the clock that next_retry_at_us counts in.
BackoffRespected ==
  [][\A m \in Ids : Claimed(m) => bootedAt + now >= due[m]]_vars

Dropped(m) == \E e \in Entries : e.id = m /\ e.st = "PENDING" /\ m \notin {d.id : d \in Entries'}
\* An overflow takes a PENDING message of the lowest priority under
\* DROP_LOWEST_PRIORITY, of any under DROP_OLDEST, none under REJECT_NEW, and no
\* message of the same boot (and priority) that stays is older.
DropsByPolicy ==
  [][\A m \in Ids : Dropped(m) =>
       /\ policy # "REJECT_NEW"
       /\ \A e \in Entries : Pending(e) =>
            /\ policy = "DROP_LOWEST_PRIORITY" => Entry(m).prio <= e.prio
            /\ (born[e.id] = born[m]
                /\ (policy = "DROP_OLDEST" \/ e.prio = Entry(m).prio))
               => Entry(m).created <= e.created]_vars
=============================================================================
