---------------------------- MODULE DurableQueue ----------------------------
(***************************************************************************)
(* What a storage backend promises the layers above it (edgesync_storage.h *)
(* and the state machine of RELIABILITY.md): every message is in one       *)
(* durable state, which changes only by the operations below, one message  *)
(* at a time, whatever crashes happen in between.  A restart is no         *)
(* operation of its own: all it may do is put IN_FLIGHT messages back.     *)
(***************************************************************************)
EXTENDS Naturals, FiniteSets

CONSTANTS Ids,          \* message ids
          MaxMessages   \* slots: messages of any durable state

VARIABLE q              \* the durable state of each message

Message(st, att) == [st |-> st, att |-> att]
NotStored == Message("absent", 0)
Gone      == Message("gone", 0)
Stored    == {m \in Ids : q[m].st \notin {"absent", "gone"}}

Init == q = [m \in Ids |-> NotStored]

Become(m, new) == q' = [q EXCEPT ![m] = new]

\* enqueue: once the record is on the backing store the message is accepted.
Accept(m) ==
  /\ q[m] = NotStored /\ Cardinality(Stored) < MaxMessages
  /\ Become(m, Message("PENDING", 0))

\* claim_next: the attempt is counted before it is made.
Claim(m) ==
  /\ q[m].st = "PENDING"
  /\ Become(m, Message("IN_FLIGHT", q[m].att + 1))

\* schedule_retry, or the recovery that follows a crash; the count is kept.
PutBack(m) ==
  /\ q[m].st = "IN_FLIGHT"
  /\ Become(m, Message("PENDING", q[m].att))

\* schedule_retry with dead_letter: for good, no action leaves DEAD_LETTER.
DeadLetter(m) ==
  /\ q[m].st = "IN_FLIGHT"
  /\ Become(m, Message("DEAD_LETTER", q[m].att))

\* claim_next of a message whose stored bytes are found corrupt.
Condemn(m) ==
  /\ q[m].st = "PENDING"
  /\ Become(m, Message("DEAD_LETTER", q[m].att))

\* mark_delivered of an IN_FLIGHT message, remove of a PENDING one.
Close(m) ==
  /\ q[m].st \in {"IN_FLIGHT", "PENDING"}
  /\ Become(m, Gone)

\* A step moves one message.
Next == \E m \in Ids :
  /\ q'[m] # q[m]
  /\ Accept(m) \/ Claim(m) \/ PutBack(m) \/ DeadLetter(m) \/ Condemn(m) \/ Close(m)

Spec == Init /\ [][Next]_q
=============================================================================
