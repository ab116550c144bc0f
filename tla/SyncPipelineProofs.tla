------------------------- MODULE SyncPipelineProofs -------------------------
(* Publishers, worker and lifecycle around the storage contract: what the   *)
(* interleaving of their steps cannot do, for any number of messages, of    *)
(* publishing tasks, of starts, of recoveries and of failing storage calls. *)
EXTENDS SyncPipeline, TLAPS

Entering(p) == pub[p].pc \in {"enqueue", "drop", "again"}
Active(p) == pub[p].pc # "idle"

\* A call of publish has an id of its own, not stored before the call has decided
\* about it, and remembers what it dropped for it.
CallOK(p) ==
  /\ ~Active(p) => pub[p] = Idle
  /\ Active(p) => pub[p].msg \in offered
  /\ Entering(p) => q[pub[p].msg].st = "absent" /\ pub[p].wake = 0
  /\ pub[p].pc \in {"enqueue", "drop"} => pub[p].drop = NoId
  /\ pub[p].pc = "announce" /\ pub[p].err = "ok" => q[pub[p].msg].st # "absent"
  /\ pub[p].pc = "announce" /\ pub[p].err = "full" => q[pub[p].msg].st = "absent"
  /\ pub[p].drop # NoId => q[pub[p].drop].st # "absent"
CallInv ==
  /\ \A p \in Publishers : CallOK(p)
  /\ \A p, r \in Publishers :
       Active(p) /\ Active(r) /\ pub[p].msg = pub[r].msg => p = r
  /\ \A m \in Ids : q[m].st # "absent" => m \in offered
  /\ \A e \in fired : e[2] \in offered

\* The message the worker delivers is IN_FLIGHT until it reports.
WorkerInv ==
  /\ wpc \in {"deliver", "report"} => wmsg \in Ids /\ q[wmsg].st = "IN_FLIGHT"
  /\ wpc = "report" => wres \in Results /\ (wres = "success" => acked[wmsg] = "now")
  /\ wpc = "event" => /\ wmsg \in Ids /\ q[wmsg].st # "absent"
                      /\ wres \in {"DELIVERED", "RETRY", "DEAD_LETTER"}
  /\ opc = "stopped" => wpc = "none"

\* A message that can still be claimed, or is being delivered, has not been reported
\* as delivered since the last recovery.
Unacked(m) ==
  \/ q[m].st \in {"absent", "PENDING", "DEAD_LETTER"}
  \/ wmsg = m /\ (wpc = "deliver" \/ (wpc = "report" /\ wres # "success"))
ResendInv == \A m \in Ids : Unacked(m) => acked[m] # "now"

\* A call that has announced what it dropped has fired the event.
DropInv ==
  /\ NothingSilentlyDropped
  /\ \A p \in Publishers :
       pub[p].pc = "wake" /\ pub[p].drop # NoId => <<"QUEUE_FULL", pub[p].drop>> \in fired

\* What is about to be announced is as true as what has been.
EventInv ==
  /\ EventsAreTrue
  /\ \A p \in Publishers : Entering(p) => <<"QUEUE_FULL", pub[p].msg>> \notin fired
  /\ errors = 0 =>
       /\ \A p \in Publishers : pub[p].drop # NoId => q[pub[p].drop].st = "gone"
       /\ wpc = "event" /\ wres = "DELIVERED" => q[wmsg].st = "gone" /\ acked[wmsg] # "never"
       /\ wpc = "event" /\ wres = "DEAD_LETTER" => q[wmsg].st = "DEAD_LETTER"

SafetyInv ==
  CallInv /\ WorkerInv /\ InFlightIsHeld /\ ResendInv /\ DropInv /\ EventInv

\* What a recovery finds is what the index says, until a call fails; and of an id
\* that nobody has published there is nothing to find.
KeptInv == \A m \in Ids : errors = 0 \/ m \notin offered => kept[m] = {q[m]}

\* A message that was never attempted is ripe.
AttemptInv ==
  errors = 0 =>
    /\ \A m \in Ids : q[m].st = "IN_FLIGHT" => q[m].att > 0
    /\ \A m \in Ids : q[m].st = "PENDING" /\ q[m].att = 0 => m \in ripe
\* wake_cb is set while EdgeSync is running; nobody publishes while it starts.
OwnerInv ==
  /\ opc # "stopped" => inc > 0
  /\ opc = "running" => wake = inc
  /\ opc \in {"stopped", "created"} => ~started
  /\ opc = "created" => \A p \in Publishers : ~Active(p)
\* A worker that has found nothing to claim since its last notification is to be
\* woken for every new message.
Promised(m) == \E p \in Publishers : pub[p].msg = m /\ pub[p].wake = inc
PromiseInv ==
  errors = 0 /\ wpc \in {"nothing", "sleep"} /\ ~notified /\ opc \in {"created", "running"} =>
    \A m \in Eligible : q[m].att = 0 => Promised(m)
WakeInv == AttemptInv /\ OwnerInv /\ PromiseInv

-----------------------------------------------------------------------------
(* Types.                                                                   *)

States == {"absent", "PENDING", "IN_FLIGHT", "DEAD_LETTER", "gone"}

LEMMA IdleType == Idle \in Calls /\ Idle.pc = "idle" /\ Idle.drop = NoId /\ Idle.wake = 0
BY DEF Idle, Calls, Errs

\* A call of storage moves message m, out of one of the states `from'.
Moved(m, from, st) ==
  /\ q[m].st \in from /\ q'[m].st = st
  /\ q' \in [Ids -> Messages] /\ \A n \in Ids : n # m => q'[n] = q[n]

LEMMA BecomeMoves ==
  ASSUME TypeOK, NEW m \in Ids, NEW st \in States, NEW att \in Nat,
         Storage!Become(m, [st |-> st, att |-> att])
  PROVE  Moved(m, {q[m].st}, st) /\ q'[m].att = att
<1>1. [st |-> st, att |-> att] \in Messages
  BY DEF Messages, States
<1> QED BY <1>1 DEF TypeOK, Storage!Become, Moved, Messages, States

LEMMA KeptType ==
  ASSUME TypeOK, NEW m \in Ids, NEW set \in SUBSET Messages, kept' = [kept EXCEPT ![m] = set]
  PROVE  /\ kept' \in [Ids -> SUBSET Messages] /\ kept'[m] = set
         /\ \A n \in Ids : n # m => kept'[n] = kept[n]
BY DEF TypeOK

\* A call that works, and one that returns an error.
LEMMA WorksType ==
  ASSUME TypeOK, NEW m \in Ids, q' \in [Ids -> Messages], NEW ACTION call, Works(m, call)
  PROVE  /\ call /\ errors' = errors /\ kept' \in [Ids -> SUBSET Messages]
         /\ kept'[m] = {q'[m]} /\ \A n \in Ids : n # m => kept'[n] = kept[n]
<1>1. {q'[m]} \in SUBSET Messages /\ kept' = [kept EXCEPT ![m] = {q'[m]}]
  BY DEF Works
<1> QED BY <1>1, KeptType DEF Works

LEMMA FailsType ==
  ASSUME TypeOK, NEW m \in Ids, NEW new \in Messages, Fails(m, new)
  PROVE  /\ errors' # 0 /\ errors' \in Nat /\ kept' \in [Ids -> SUBSET Messages]
         /\ \A n \in Ids : n # m => kept'[n] = kept[n]
<1>1. kept[m] \cup {new} \in SUBSET Messages /\ kept' = [kept EXCEPT ![m] = kept[m] \cup {new}]
  BY DEF Fails, TypeOK
<1>2. errors' # 0 /\ errors' \in Nat
  BY DEF Fails, TypeOK
<1> QED BY <1>1, <1>2, KeptType

LEMMA ShowMoves ==
  ASSUME TypeOK, NEW m \in Ids, NEW st \in States, NEW att \in Nat,
         MayShow(m, [st |-> st, att |-> att])
  PROVE  UNCHANGED q \/ (Moved(m, {q[m].st}, st) /\ q'[m].att = att)
<1>1. CASE UNCHANGED q
  BY <1>1
<1>2. CASE q' = [q EXCEPT ![m] = [st |-> st, att |-> att]]
  BY <1>2, BecomeMoves DEF Storage!Become
<1> QED BY <1>1, <1>2 DEF MayShow

\* What the calls that fail may leave behind are messages.
LEMMA MessageTypes ==
  ASSUME TypeOK, NEW m \in Ids
  PROVE  /\ q[m] \in Messages /\ q[m].att \in Nat /\ q[m].att + 1 \in Nat
         /\ Storage!Gone \in Messages
         /\ \A st \in States, att \in Nat : /\ Storage!Message(st, att) = [st |-> st, att |-> att]
                                          /\ Storage!Message(st, att) \in Messages
BY DEF TypeOK, Messages, States, Storage!Message, Storage!Gone

\* The calls of the contract.
LEMMA StorageMoves ==
  ASSUME TypeOK, NEW m \in Ids
  PROVE  /\ Storage!Accept(m) => Moved(m, {"absent"}, "PENDING") /\ q'[m].att = 0
         /\ Storage!Claim(m) => /\ Moved(m, {"PENDING"}, "IN_FLIGHT")
                                /\ q'[m].att = q[m].att + 1
         /\ Storage!PutBack(m) => /\ Moved(m, {"IN_FLIGHT"}, "PENDING")
                                  /\ q'[m].att = q[m].att
         /\ Storage!DeadLetter(m) => Moved(m, {"IN_FLIGHT"}, "DEAD_LETTER")
         /\ Storage!Condemn(m) => Moved(m, {"PENDING"}, "DEAD_LETTER")
         /\ Storage!Close(m) => Moved(m, {"IN_FLIGHT", "PENDING"}, "gone")
<1> USE DEF Storage!Message, Storage!NotStored, Storage!Gone
<1>0. q[m].att \in Nat /\ q[m].att + 1 \in Nat
  BY DEF TypeOK, Messages
<1>1. \A st \in States : \A att \in Nat :
        Storage!Become(m, [st |-> st, att |-> att]) => Moved(m, {q[m].st}, st) /\ q'[m].att = att
  BY BecomeMoves
<1>2. Storage!Accept(m) => Moved(m, {"absent"}, "PENDING") /\ q'[m].att = 0
  BY <1>1 DEF Storage!Accept, States, Moved
<1>3. Storage!Claim(m) => Moved(m, {"PENDING"}, "IN_FLIGHT") /\ q'[m].att = q[m].att + 1
  BY <1>0, <1>1 DEF Storage!Claim, States, Moved
<1>4. Storage!PutBack(m) => Moved(m, {"IN_FLIGHT"}, "PENDING") /\ q'[m].att = q[m].att
  BY <1>0, <1>1 DEF Storage!PutBack, States, Moved
<1>5. Storage!DeadLetter(m) => Moved(m, {"IN_FLIGHT"}, "DEAD_LETTER")
  BY <1>0, <1>1 DEF Storage!DeadLetter, States, Moved
<1>6. Storage!Condemn(m) => Moved(m, {"PENDING"}, "DEAD_LETTER")
  BY <1>0, <1>1 DEF Storage!Condemn, States, Moved
<1>7. Storage!Close(m) => Moved(m, {"IN_FLIGHT", "PENDING"}, "gone")
  BY <1>0, <1>1 DEF Storage!Close, States, Moved
<1> QED BY <1>2, <1>3, <1>4, <1>5, <1>6, <1>7

\* What a publish call is once it leaves the mutex.
LEMMA LeaveType ==
  ASSUME TypeOK, NEW p \in Publishers, NEW err \in Errs, Leave(p, err)
  PROVE  /\ pub' \in [Publishers -> Calls] /\ \A r \in Publishers : r # p => pub'[r] = pub[r]
         /\ pub'[p].pc = "announce" /\ pub'[p].err = err
         /\ pub'[p].msg = pub[p].msg /\ pub'[p].drop = pub[p].drop
         /\ pub'[p].wake = IF err = "ok" THEN wake ELSE 0
<1> DEFINE w == IF err = "ok" THEN wake ELSE 0
           c == [pub[p] EXCEPT !.pc = "announce", !.err = err, !.wake = w]
<1>1. pub[p] \in Calls /\ w \in Nat
  BY DEF TypeOK
<1>2. pub' = [pub EXCEPT ![p] = c]
  BY DEF Leave
<1>3. c \in Calls /\ c.pc = "announce" /\ c.err = err /\ c.msg = pub[p].msg
      /\ c.drop = pub[p].drop /\ c.wake = w
  BY <1>1 DEF Calls
<1> HIDE DEF c
<1> QED BY <1>2, <1>3 DEF TypeOK

LEMMA TypeInit == Init => TypeOK
<1> SUFFICES ASSUME Init PROVE TypeOK
  OBVIOUS
<1>1. q \in [Ids -> Messages]
  BY DEF Init, Storage!Init, Storage!NotStored, Storage!Message, Messages
<1>2. kept \in [Ids -> SUBSET Messages]
  BY <1>1 DEF Init
<1>3. pub \in [Publishers -> Calls]
  BY IdleType DEF Init
<1> QED BY <1>1, <1>2, <1>3 DEF Init, TypeOK

\* The steps of publishing.
LEMMA PublishType ==
  ASSUME TypeOK, CallInv, NEW p \in Publishers,
         (\E m \in Ids : PublishCall(p, m)) \/ Enqueue(p) \/ DropOne(p) \/ Announce(p) \/ Wake(p)
  PROVE  TypeOK'
<1> USE DEF storage, worker, owner, history, publishing
<1>0. Active(p) => pub[p].msg \in Ids
  BY DEF CallInv, CallOK, TypeOK
<1>1. ASSUME NEW m \in Ids, PublishCall(p, m) PROVE TypeOK'
  <2>1. [Idle EXCEPT !.pc = "enqueue", !.msg = m] \in Calls
    BY IdleType DEF Calls
  <2>2. pub' \in [Publishers -> Calls] /\ offered' \subseteq Ids
    BY <1>1, <2>1 DEF PublishCall, TypeOK
  <2>3. UNCHANGED <<storage, worker, owner, history, errors, recoveries>>
    BY <1>1 DEF PublishCall
  <2> QED BY <2>2, <2>3 DEF TypeOK
<1>2. CASE Enqueue(p)
  <2> DEFINE m == pub[p].msg
  <2>1. m \in Ids
    BY <1>0, <1>2 DEF Enqueue, Active
  <2>2. UNCHANGED <<offered, worker, owner, history, recoveries>>
    BY <1>2 DEF Enqueue
  <2>3. CASE Works(m, Storage!Accept(m)) /\ ripe' = ripe \cup {m} /\ Leave(p, "ok")
    <3>1. pub' \in [Publishers -> Calls] /\ ripe' \subseteq Ids
      BY <2>1, <2>3, LeaveType DEF TypeOK, Errs
    <3>2. q' \in [Ids -> Messages]
      BY <2>1, <2>3, StorageMoves DEF Works, Moved
    <3>3. kept' \in [Ids -> SUBSET Messages] /\ errors' \in Nat
      BY <2>1, <2>3, <3>2, WorksType DEF TypeOK
    <3> QED BY <2>2, <3>1, <3>2, <3>3 DEF TypeOK
  <2>4. CASE /\ Fails(m, Storage!Message("PENDING", 0)) /\ UNCHANGED q
             /\ ripe' = ripe \cup {m} /\ Leave(p, "error")
    <3>1. pub' \in [Publishers -> Calls] /\ ripe' \subseteq Ids
      BY <2>1, <2>4, LeaveType DEF TypeOK, Errs
    <3>2. kept' \in [Ids -> SUBSET Messages] /\ errors' \in Nat
      BY <2>1, <2>4, FailsType, MessageTypes DEF States
    <3> QED BY <2>2, <2>4, <3>1, <3>2 DEF TypeOK
  <2>5. CASE UNCHANGED <<storage, errors>> /\ Leave(p, "full")
    <3>1. pub' \in [Publishers -> Calls]
      BY <2>5, LeaveType DEF Errs
    <3> QED BY <2>2, <2>5, <3>1 DEF TypeOK
  <2>6. CASE UNCHANGED <<storage, errors>> /\ pub' = [pub EXCEPT ![p].pc = "drop"]
    <3>1. [pub[p] EXCEPT !.pc = "drop"] \in Calls
      BY DEF TypeOK, Calls
    <3>2. pub' \in [Publishers -> Calls]
      BY <2>6, <3>1 DEF TypeOK
    <3> QED BY <2>2, <2>6, <3>2 DEF TypeOK
  <2> QED BY <1>2, <2>3, <2>4, <2>5, <2>6 DEF Enqueue
<1>3. CASE DropOne(p)
  <2>1. PICK d \in InState("PENDING") :
          /\ \/ Works(d, Storage!Close(d))
             \/ (Fails(d, Storage!Gone) \/ Fails(d, q[d])) /\ UNCHANGED q
          /\ pub' = [pub EXCEPT ![p].pc = "again", ![p].drop = d]
    BY <1>3 DEF DropOne
  <2>2. d \in Ids
    BY DEF InState
  <2>3. [pub[p] EXCEPT !.pc = "again", !.drop = d] \in Calls
    <3>1. pub[p] \in Calls /\ "again" \in {"idle", "enqueue", "drop", "again", "announce", "wake"}
      BY DEF TypeOK
    <3> QED BY <2>2, <3>1 DEF Calls
  <2>4. pub' \in [Publishers -> Calls]
    BY <2>1, <2>3 DEF TypeOK
  <2>5. q' \in [Ids -> Messages] /\ errors' \in Nat /\ kept' \in [Ids -> SUBSET Messages]
    <3>1. CASE Works(d, Storage!Close(d))
      <4>1. q' \in [Ids -> Messages]
        BY <2>2, <3>1, StorageMoves DEF Works, Moved
      <4> QED BY <2>2, <3>1, <4>1, WorksType DEF TypeOK
    <3>2. CASE (Fails(d, Storage!Gone) \/ Fails(d, q[d])) /\ UNCHANGED q
      BY <2>2, <3>2, FailsType, MessageTypes DEF TypeOK
    <3> QED BY <2>1, <3>1, <3>2
  <2>6. UNCHANGED <<ripe, offered, worker, owner, history, recoveries>>
    BY <1>3 DEF DropOne
  <2> QED BY <2>4, <2>5, <2>6 DEF TypeOK
<1>4. CASE Announce(p)
  <2>1. /\ pub[p] \in Calls /\ [pub[p] EXCEPT !.pc = "wake"] \in Calls
        /\ pub[p].drop \in Ids \cup {NoId} /\ pub[p].msg \in Ids
    BY <1>0, <1>4 DEF TypeOK, Calls, Announce, Active
  <2>2. pub' \in [Publishers -> Calls]
    BY <1>4, <2>1, IdleType DEF Announce, TypeOK
  <2>3. Announced(p) \subseteq Events \X Ids
    BY <2>1 DEF Announced, Events
  <2> QED BY <1>4, <2>2, <2>3 DEF Announce, TypeOK
<1>5. CASE Wake(p)
  <2>1. pub' \in [Publishers -> Calls]
    BY <1>5, IdleType DEF Wake, TypeOK
  <2>2. notified' \in BOOLEAN
    BY <1>5 DEF Wake, TypeOK
  <2>3. UNCHANGED <<storage, offered, wpc, wmsg, wres, owner, history, errors, recoveries>>
    BY <1>5 DEF Wake
  <2> QED BY <2>1, <2>2, <2>3 DEF TypeOK
<1> QED BY <1>1, <1>2, <1>3, <1>4, <1>5

\* The call that records an outcome moves the message or, when it fails, may leave
\* it IN_FLIGHT.
LEMMA ReportEffect ==
  ASSUME TypeOK, WorkerInv, Report
  PROVE  LET v == Verdict(wres, q[wmsg].att)
             st == CASE v = "DELIVERED" -> "gone" [] v = "DEAD_LETTER" -> "DEAD_LETTER"
                     [] v = "RETRY" -> "PENDING" IN
           /\ wmsg \in Ids /\ v \in {"DELIVERED", "DEAD_LETTER", "RETRY"}
           /\ v = "DELIVERED" <=> wres = "success"
           /\ errors' \in Nat /\ (errors' = 0 => errors = 0)
           /\ q' \in [Ids -> Messages] /\ kept' \in [Ids -> SUBSET Messages]
           /\ \/ UNCHANGED q /\ errors' # 0
              \/ /\ Moved(wmsg, {"IN_FLIGHT"}, st)
                 /\ v = "RETRY" => q'[wmsg].att = q[wmsg].att
           /\ errors' = 0 => kept'[wmsg] = {q'[wmsg]}
           /\ \A n \in Ids : n # wmsg => kept'[n] = kept[n]
<1> DEFINE v == Verdict(wres, q[wmsg].att)
           st == CASE v = "DELIVERED" -> "gone" [] v = "DEAD_LETTER" -> "DEAD_LETTER"
                   [] v = "RETRY" -> "PENDING"
<1>1. /\ wmsg \in Ids /\ q[wmsg].st = "IN_FLIGHT" /\ v \in {"DELIVERED", "DEAD_LETTER", "RETRY"}
      /\ v = "DELIVERED" <=> wres = "success"
  BY DEF Report, WorkerInv, Verdict
<1>2. /\ \/ Works(wmsg, Record(wmsg, v))
         \/ Fails(wmsg, Recorded(wmsg, v)) /\ IF v = "DELIVERED" THEN UNCHANGED q
                                              ELSE MayShow(wmsg, Recorded(wmsg, v))
  BY DEF Report
<1> HIDE DEF v
<1>3. q[wmsg] \in Messages /\ q[wmsg].att \in Nat /\ errors \in Nat
  BY <1>1 DEF TypeOK, Messages
<1>4. CASE Works(wmsg, Record(wmsg, v))
  <2>1. Moved(wmsg, {"IN_FLIGHT"}, st) /\ (v = "RETRY" => q'[wmsg].att = q[wmsg].att)
    <3>1. Record(wmsg, v)
      BY <1>4 DEF Works
    <3>2. CASE v = "DELIVERED"
      BY <1>1, <3>1, <3>2, StorageMoves DEF Record, Moved
    <3>3. CASE v = "DEAD_LETTER"
      BY <1>1, <3>1, <3>3, StorageMoves DEF Record
    <3>4. CASE v = "RETRY"
      BY <1>1, <3>1, <3>4, StorageMoves DEF Record
    <3> QED BY <1>1, <3>2, <3>3, <3>4
  <2>2. q' \in [Ids -> Messages]
    BY <2>1 DEF Moved
  <2>3. /\ errors' = errors /\ kept' \in [Ids -> SUBSET Messages]
        /\ kept'[wmsg] = {q'[wmsg]} /\ \A n \in Ids : n # wmsg => kept'[n] = kept[n]
    BY <1>1, <1>4, <2>2, WorksType
  <2> QED BY <1>1, <1>3, <2>1, <2>2, <2>3 DEF v
<1>5. CASE /\ Fails(wmsg, Recorded(wmsg, v))
           /\ IF v = "DELIVERED" THEN UNCHANGED q ELSE MayShow(wmsg, Recorded(wmsg, v))
  <2>1. Recorded(wmsg, v) \in Messages
    BY <1>1, <1>3, MessageTypes DEF Recorded, States
  <2>2. /\ errors' # 0 /\ errors' \in Nat /\ kept' \in [Ids -> SUBSET Messages]
        /\ \A n \in Ids : n # wmsg => kept'[n] = kept[n]
    BY <1>1, <1>5, <2>1, FailsType
  <2>3. \/ UNCHANGED q
        \/ Moved(wmsg, {"IN_FLIGHT"}, st) /\ q'[wmsg].att = q[wmsg].att
    <3>1. CASE v = "DELIVERED"
      BY <1>5, <3>1
    <3>2. CASE v = "DEAD_LETTER"
      <4>1. MayShow(wmsg, [st |-> "DEAD_LETTER", att |-> q[wmsg].att])
        BY <1>5, <3>2 DEF Recorded, Storage!Message
      <4> QED BY <1>1, <1>3, <3>2, <4>1, ShowMoves DEF States
    <3>3. CASE v = "RETRY"
      <4>1. MayShow(wmsg, [st |-> "PENDING", att |-> q[wmsg].att])
        BY <1>5, <3>3 DEF Recorded, Storage!Message
      <4> QED BY <1>1, <1>3, <3>3, <4>1, ShowMoves DEF States
    <3> QED BY <1>1, <3>1, <3>2, <3>3
  <2>4. q' \in [Ids -> Messages]
    BY <2>3 DEF Moved, TypeOK
  <2> QED BY <1>1, <2>2, <2>3, <2>4 DEF v
<1> QED BY <1>2, <1>4, <1>5

\* What a claim of message m does to it.
LEMMA ClaimEffect ==
  ASSUME TypeOK, NEW m \in Ids
  PROVE  /\ ClaimNext(m) =>
              /\ Moved(m, {"PENDING"}, "IN_FLIGHT") /\ q'[m].att > 0 /\ errors' = errors
              /\ kept'[m] = {q'[m]} /\ kept' \in [Ids -> SUBSET Messages]
              /\ \A n \in Ids : n # m => kept'[n] = kept[n]
         /\ ClaimCorrupt(m) =>
              /\ Moved(m, {"PENDING"}, "DEAD_LETTER") /\ errors' # 0 /\ errors' \in Nat
              /\ kept' \in [Ids -> SUBSET Messages]
              /\ \A n \in Ids : n # m => kept'[n] = kept[n]
         /\ ClaimFails(m) =>
              /\ UNCHANGED q \/ Moved(m, {"PENDING"}, "IN_FLIGHT")
              /\ errors' # 0 /\ errors' \in Nat /\ kept' \in [Ids -> SUBSET Messages]
              /\ \A n \in Ids : n # m => kept'[n] = kept[n]
<1>0. /\ q[m] \in Messages /\ q[m].att \in Nat /\ q[m].att + 1 \in Nat /\ errors \in Nat
      /\ Storage!Gone \in Messages
  BY MessageTypes DEF TypeOK
<1>1. ASSUME ClaimNext(m)
      PROVE  /\ Moved(m, {"PENDING"}, "IN_FLIGHT") /\ q'[m].att > 0 /\ errors' = errors
             /\ kept'[m] = {q'[m]} /\ kept' \in [Ids -> SUBSET Messages]
             /\ \A n \in Ids : n # m => kept'[n] = kept[n]
  <2>1. Works(m, Storage!Claim(m))
    BY <1>1 DEF ClaimNext
  <2>2. Moved(m, {"PENDING"}, "IN_FLIGHT") /\ q'[m].att = q[m].att + 1
    BY <2>1, StorageMoves DEF Works
  <2>3. q' \in [Ids -> Messages]
    BY <2>2 DEF Moved
  <2> QED BY <1>0, <2>1, <2>2, <2>3, WorksType
<1>2. ASSUME ClaimCorrupt(m)
      PROVE  /\ Moved(m, {"PENDING"}, "DEAD_LETTER") /\ errors' # 0 /\ errors' \in Nat
             /\ kept' \in [Ids -> SUBSET Messages]
             /\ \A n \in Ids : n # m => kept'[n] = kept[n]
  <2>1. Moved(m, {"PENDING"}, "DEAD_LETTER") /\ errors' = errors + 1
    BY <1>2, StorageMoves DEF ClaimCorrupt
  <2>2. {q'[m]} \in SUBSET Messages /\ kept[m] \cup {q'[m], Storage!Gone} \in SUBSET Messages
    BY <1>0, <2>1 DEF Moved, TypeOK
  <2>3. \/ kept' = [kept EXCEPT ![m] = {q'[m]}]
        \/ kept' = [kept EXCEPT ![m] = kept[m] \cup {q'[m], Storage!Gone}]
    BY <1>2 DEF ClaimCorrupt
  <2> QED BY <1>0, <2>1, <2>2, <2>3, KeptType
<1>3. ASSUME ClaimFails(m)
      PROVE  /\ UNCHANGED q \/ Moved(m, {"PENDING"}, "IN_FLIGHT")
             /\ errors' # 0 /\ errors' \in Nat /\ kept' \in [Ids -> SUBSET Messages]
             /\ \A n \in Ids : n # m => kept'[n] = kept[n]
  <2> DEFINE attempted == [st |-> "IN_FLIGHT", att |-> q[m].att + 1]
             dead == [st |-> "DEAD_LETTER", att |-> q[m].att]
  <2>1. /\ q[m].st = "PENDING"
        /\ \/ Fails(m, attempted) /\ MayShow(m, attempted)
           \/ Fails(m, dead) /\ UNCHANGED q
    BY <1>3 DEF ClaimFails, Storage!Message, Eligible, InState
  <2>2. attempted \in Messages /\ dead \in Messages
    BY <1>0 DEF Messages
  <2>3. CASE Fails(m, attempted) /\ MayShow(m, attempted)
    <3>1. UNCHANGED q \/ Moved(m, {"PENDING"}, "IN_FLIGHT")
      BY <1>0, <2>1, <2>3, ShowMoves DEF States
    <3> QED BY <2>2, <2>3, <3>1, FailsType
  <2>4. CASE Fails(m, dead) /\ UNCHANGED q
    BY <2>2, <2>4, FailsType
  <2> QED BY <2>1, <2>3, <2>4
<1> QED BY <1>1, <1>2, <1>3

\* The steps of the worker.
LEMMA WorkerType == TypeOK /\ WorkerInv /\ Worker => TypeOK'
<1> SUFFICES ASSUME TypeOK, WorkerInv, Worker PROVE TypeOK'
  OBVIOUS
<1> USE DEF storage, worker, owner, history, publishing
<1>1. CASE LoopCheck \/ ClaimNothing \/ Sleep \/ WakeUp
  BY <1>1 DEF LoopCheck, ClaimNothing, Sleep, WakeUp, TypeOK
<1>2. CASE Deliver
  <2>1. PICK res \in Results :
          /\ wpc' = "report" /\ wres' = res
          /\ acked' = [acked EXCEPT ![wmsg] = IF res = "success" THEN "now" ELSE @]
    BY <1>2 DEF Deliver
  <2>2. acked' \in [Ids -> {"never", "now", "before"}]
    BY <1>2, <2>1 DEF Deliver, WorkerInv, TypeOK
  <2> QED BY <1>2, <2>1, <2>2 DEF Deliver, TypeOK
<1>3. CASE Report
  <2>1. /\ wmsg \in Ids /\ Verdict(wres, q[wmsg].att) \in {"DELIVERED", "DEAD_LETTER", "RETRY"}
        /\ q' \in [Ids -> Messages] /\ errors' \in Nat /\ kept' \in [Ids -> SUBSET Messages]
    BY <1>3, ReportEffect
  <2>2. ripe' \subseteq Ids /\ wpc' = "event" /\ wres' \in Events
    BY <1>3, <2>1 DEF Report, TypeOK, Events
  <2>3. UNCHANGED <<publishing, wmsg, notified, owner, history, recoveries>>
    BY <1>3 DEF Report
  <2> QED BY <2>1, <2>2, <2>3 DEF TypeOK
<1>4. CASE WorkerEvent
  <2>1. <<wres, wmsg>> \in Events \X Ids
    BY <1>4 DEF WorkerEvent, WorkerInv, Events
  <2> QED BY <1>4, <2>1 DEF WorkerEvent, TypeOK
<1>5. ASSUME NEW m \in Ids, ClaimNext(m) \/ ClaimCorrupt(m) \/ ClaimFails(m) PROVE TypeOK'
  <2>1. q' \in [Ids -> Messages] /\ errors' \in Nat /\ kept' \in [Ids -> SUBSET Messages]
    BY <1>5, ClaimEffect DEF Moved, TypeOK
  <2>2. /\ wpc' \in {"deliver", "event", "pause"} /\ wmsg' \in Ids \cup {NoId}
        /\ wres' \in {"none"} \cup Results \cup Events
    BY <1>5 DEF ClaimNext, ClaimCorrupt, ClaimFails, TypeOK, Events
  <2>3. UNCHANGED <<ripe, publishing, notified, owner, history, recoveries>>
    BY <1>5 DEF ClaimNext, ClaimCorrupt, ClaimFails
  <2> QED BY <2>1, <2>2, <2>3 DEF TypeOK
<1>6. ASSUME NEW m \in Ids, ClaimMissing(m) PROVE TypeOK'
  BY <1>6 DEF ClaimMissing, TypeOK
<1> QED BY <1>1, <1>2, <1>3, <1>4, <1>5, <1>6 DEF Worker

\* A recovery, of whatever it finds: nothing stays IN_FLIGHT, and what no call has
\* left in doubt is found as it was.
LEMMA RecoverEffect ==
  ASSUME TypeOK, Recover
  PROVE  /\ q' \in [Ids -> Messages] /\ kept' \in [Ids -> SUBSET Messages]
         /\ \A m \in Ids : /\ q'[m].st # "IN_FLIGHT" /\ kept'[m] = {q'[m]}
                           /\ kept[m] = {q[m]} =>
                                /\ q'[m].att = q[m].att
                                /\ q'[m].st = IF q[m].st = "IN_FLIGHT" THEN "PENDING"
                                                                     ELSE q[m].st
                           /\ acked'[m] \in {"never", "before"}
                           /\ acked[m] # "never" => acked'[m] # "never"
         /\ acked' \in [Ids -> {"never", "now", "before"}]
         /\ ripe \subseteq ripe' /\ ripe' \subseteq Ids /\ recoveries' = recoveries + 1
<1>1. PICK found \in [Ids -> UNION {kept[m] : m \in Ids}] :
        /\ \A m \in Ids : found[m] \in kept[m]
        /\ q' = [m \in Ids |-> Requeued(found[m])]
        /\ ripe' = ripe \cup {m \in Ids : found[m].st = "IN_FLIGHT"}
  BY DEF Recover
<1>2. \A m \in Ids : /\ found[m] \in Messages /\ Requeued(found[m]) \in Messages
                     /\ Requeued(found[m]).att = found[m].att
                     /\ Requeued(found[m]).st = IF found[m].st = "IN_FLIGHT" THEN "PENDING"
                                                                          ELSE found[m].st
  <2>1. \A k \in Messages : /\ Requeued(k) \in Messages /\ Requeued(k).att = k.att
                            /\ Requeued(k).st = IF k.st = "IN_FLIGHT" THEN "PENDING" ELSE k.st
    BY DEF Requeued, Storage!Message, Messages
  <2> QED BY <1>1, <2>1 DEF TypeOK
<1>3. q' \in [Ids -> Messages] /\ \A m \in Ids : q'[m] = Requeued(found[m])
  BY <1>1, <1>2
<1>4. kept' = [m \in Ids |-> {q'[m]}] /\ \A m \in Ids : {q'[m]} \in SUBSET Messages
  BY <1>3 DEF Recover
<1>5. kept' \in [Ids -> SUBSET Messages] /\ \A m \in Ids : kept'[m] = {q'[m]}
  BY <1>4
<1>6. ASSUME NEW m \in Ids, kept[m] = {q[m]} PROVE found[m] = q[m]
  BY <1>1, <1>6
<1>7. /\ acked' = [m \in Ids |-> IF acked[m] = "now" THEN "before" ELSE acked[m]]
      /\ recoveries' = recoveries + 1
  BY DEF Recover
<1>8. /\ acked' \in [Ids -> {"never", "now", "before"}]
      /\ \A m \in Ids : /\ acked'[m] \in {"never", "before"}
                        /\ acked[m] # "never" => acked'[m] # "never"
  BY <1>7 DEF TypeOK
<1>9. ripe \subseteq ripe' /\ ripe' \subseteq Ids
  BY <1>1 DEF TypeOK
<1>10. \A m \in Ids : q'[m].st # "IN_FLIGHT"
  BY <1>2, <1>3
<1>11. \A m \in Ids :
         kept[m] = {q[m]} =>
           /\ q'[m].att = q[m].att
           /\ q'[m].st = IF q[m].st = "IN_FLIGHT" THEN "PENDING" ELSE q[m].st
  BY <1>2, <1>3, <1>6
<1> QED BY <1>3, <1>5, <1>7, <1>8, <1>9, <1>10, <1>11

\* Lifecycle calls, retry times and recoveries.
LEMMA OwnerType ==
  ASSUME TypeOK,
         \/ Stopping \/ StartCall \/ StopCall \/ Reset \/ Reinit
         \/ \E m \in Ids : Ripen(m)
  PROVE  TypeOK'
<1> USE DEF storage, worker, owner, history, publishing
<1>1. CASE StartReturns
  BY <1>1 DEF StartReturns, TypeOK
<1>2. CASE StopCall
  BY <1>2 DEF StopCall, TypeOK
<1>8. CASE StopRequest
  BY <1>8 DEF StopRequest, TypeOK
<1>3. CASE StopNotify
  BY <1>3 DEF StopNotify, TypeOK
<1>4. CASE StopReturn
  BY <1>4 DEF StopReturn, TypeOK
<1>5. CASE StartCall
  <2>1. notified' \in BOOLEAN /\ stopRequested' \in BOOLEAN /\ started' \in BOOLEAN
    BY <1>5 DEF StartCall, TypeOK
  <2> QED BY <1>5, <2>1 DEF StartCall, TypeOK
<1>6. CASE Reset
  <2>1. pub' \in [Publishers -> Calls]
    BY <1>6, IdleType DEF Reset
  <2>2. notified' \in BOOLEAN /\ stopRequested' \in BOOLEAN /\ started' \in BOOLEAN
    BY <1>6 DEF Reset
  <2>3. /\ q' \in [Ids -> Messages] /\ kept' \in [Ids -> SUBSET Messages] /\ ripe' \subseteq Ids
        /\ acked' \in [Ids -> {"never", "now", "before"}] /\ recoveries' \in Nat
    BY <1>6, RecoverEffect DEF Reset, TypeOK
  <2> QED BY <1>6, <2>1, <2>2, <2>3 DEF Reset, TypeOK
<1>9. CASE Reinit
  <2>1. /\ q' \in [Ids -> Messages] /\ kept' \in [Ids -> SUBSET Messages] /\ ripe' \subseteq Ids
        /\ acked' \in [Ids -> {"never", "now", "before"}] /\ recoveries' \in Nat
    BY <1>9, RecoverEffect DEF Reinit, TypeOK
  <2> QED BY <1>9, <2>1 DEF Reinit, TypeOK
<1>7. ASSUME NEW m \in Ids, Ripen(m) PROVE TypeOK'
  BY <1>7 DEF Ripen, TypeOK
<1> QED BY <1>1, <1>2, <1>3, <1>4, <1>5, <1>6, <1>7, <1>8, <1>9 DEF Stopping

LEMMA TypeNext == TypeOK /\ CallInv /\ WorkerInv /\ [Next]_vars => TypeOK'
<1> SUFFICES ASSUME TypeOK, CallInv, WorkerInv, [Next]_vars PROVE TypeOK'
  OBVIOUS
<1>1. CASE UNCHANGED vars
  <2>1. /\ UNCHANGED <<q, kept, ripe, offered, pub, wpc, wmsg, wres, notified, stopRequested>>
        /\ UNCHANGED <<opc, started, inc, wake, fired, acked, errors, recoveries>>
    BY <1>1 DEF vars
  <2> QED BY <2>1 DEF TypeOK
<1> QED BY <1>1, PublishType, WorkerType, OwnerType DEF Next, Publishing

-----------------------------------------------------------------------------
(* Safety.                                                                  *)

LEMMA SafetyInit == Init => SafetyInv
<1> SUFFICES ASSUME Init PROVE SafetyInv
  OBVIOUS
<1>1. \A m \in Ids : q[m].st = "absent"
  BY DEF Init, Storage!Init, Storage!NotStored, Storage!Message
<1>2. \A p \in Publishers : pub[p] = Idle /\ ~Active(p) /\ ~Entering(p)
  BY IdleType DEF Init, Active, Entering
<1>3. CallInv
  BY <1>1, <1>2, IdleType DEF Init, CallInv, CallOK
<1>4. WorkerInv /\ InFlightIsHeld
  BY <1>1 DEF Init, WorkerInv, InFlightIsHeld, InState
<1>5. ResendInv
  BY DEF Init, ResendInv
<1>6. DropInv /\ EventInv
  BY <1>1, <1>2, IdleType
     DEF Init, DropInv, NothingSilentlyDropped, EventInv, EventsAreTrue, InState
<1> QED BY <1>3, <1>4, <1>5, <1>6 DEF SafetyInv

\* No call of storage takes a message back from where it ends.
Forward ==
  \A m \in Ids : /\ q[m].st # "absent" => q'[m].st # "absent"
                 /\ q[m].st \in {"gone", "DEAD_LETTER"} => q'[m].st = q[m].st
SameAbsent == \A m \in Ids : q'[m].st = "absent" <=> q[m].st = "absent"

LEMMA MovedForward ==
  ASSUME NEW m \in Ids, NEW from, NEW st, Moved(m, from, st), st # "absent",
         from \subseteq {"absent", "PENDING", "IN_FLIGHT"}
  PROVE  Forward /\ ("absent" \notin from => SameAbsent)
BY DEF Moved, Forward, SameAbsent

\* The events fired so far stay true.
LEMMA EventsKept ==
  ASSUME TypeOK, TypeOK', EventsAreTrue, UNCHANGED fired, errors' = 0 => errors = 0 /\ Forward,
         \A m \in Ids : acked[m] # "never" => acked'[m] # "never",
         \A m \in Ids : <<"QUEUE_FULL", m>> \in fired /\ q[m].st = "absent" => q'[m].st = "absent"
  PROVE  EventsAreTrue'
<1> SUFFICES ASSUME errors' = 0, NEW m \in Ids
             PROVE  /\ <<"QUEUED", m>> \in fired => q'[m].st # "absent"
                    /\ <<"DELIVERED", m>> \in fired => q'[m].st = "gone" /\ acked'[m] # "never"
                    /\ <<"DEAD_LETTER", m>> \in fired => q'[m].st = "DEAD_LETTER"
                    /\ <<"QUEUE_FULL", m>> \in fired => q'[m].st \in {"absent", "gone"}
  BY DEF EventsAreTrue
<1> QED BY DEF EventsAreTrue, Forward

\* Calls in progress are as they were, when storage takes in no message.
LEMMA CallKept ==
  ASSUME TypeOK, CallInv, SameAbsent, UNCHANGED <<pub, offered>>,
         \A e \in fired' : e[2] \in offered
  PROVE  CallInv'
<1>1. \A p \in Publishers : /\ Active(p)' = Active(p) /\ Entering(p)' = Entering(p)
                            /\ Active(p) => pub[p].msg \in Ids
                            /\ pub[p].drop # NoId => pub[p].drop \in Ids
  BY DEF Active, Entering, CallInv, CallOK, TypeOK, Calls
<1>2. \A p \in Publishers : CallOK(p)'
  <2> SUFFICES ASSUME NEW p \in Publishers PROVE CallOK(p)'
    OBVIOUS
  <2>1. CallOK(p)
    BY DEF CallInv
  <2>2. Entering(p) => Active(p)
    BY DEF Entering, Active
  <2> QED BY <1>1, <2>1, <2>2 DEF CallOK, SameAbsent, Active
<1> QED BY <1>1, <1>2 DEF CallInv, SameAbsent

\* The worker's side is as it was.
LEMMA WorkerKept ==
  ASSUME TypeOK, SafetyInv, errors' = 0 => errors = 0,
         UNCHANGED <<q, wpc, wmsg, wres, opc, acked, recoveries>>
  PROVE  WorkerInv' /\ InFlightIsHeld' /\ ResendInv'
BY DEF SafetyInv, WorkerInv, InFlightIsHeld, InState, ResendInv, Unacked

\* Steps between two looks at storage: the loop of the worker, its sleep, and the
\* calls of the lifecycle.
LEMMA SafetyQuiet ==
  ASSUME TypeOK, TypeOK', SafetyInv,
         UNCHANGED <<q, offered, pub, fired, acked, recoveries>>, errors' = 0 => errors = 0,
         \/ UNCHANGED <<wpc, wmsg, wres>>
         \/ wpc \notin {"deliver", "report"} /\ wpc' \notin {"deliver", "report", "event"},
         opc' = "stopped" => wpc' = "none"
  PROVE  SafetyInv'
<1>0. CallInv /\ WorkerInv /\ InFlightIsHeld /\ ResendInv /\ DropInv /\ EventInv
  BY DEF SafetyInv
<1>1. CallInv'
  BY <1>0, CallKept DEF SameAbsent, CallInv
<1>2. WorkerInv'
  BY <1>0 DEF WorkerInv
<1>3. InFlightIsHeld'
  BY <1>0 DEF InFlightIsHeld, InState
<1>4. ResendInv'
  BY <1>0 DEF ResendInv, Unacked
<1>5. DropInv'
  BY <1>0 DEF DropInv, NothingSilentlyDropped, InState
<1>6. EventInv'
  BY <1>0 DEF EventInv, EventsAreTrue, Entering
<1> QED BY <1>1, <1>2, <1>3, <1>4, <1>5, <1>6 DEF SafetyInv

LEMMA SafetyQuietSteps ==
  ASSUME TypeOK, TypeOK', SafetyInv,
         \/ UNCHANGED vars \/ LoopCheck \/ ClaimNothing \/ Sleep \/ WakeUp
         \/ Stopping \/ StartCall \/ StopCall
         \/ \E m \in Ids : Ripen(m) \/ ClaimMissing(m)
  PROVE  SafetyInv'
<1> USE DEF storage, publishing, worker, owner, history
<1>0. opc = "stopped" => wpc = "none"
  BY DEF SafetyInv, WorkerInv
<1>1. CASE UNCHANGED vars
  BY <1>0, <1>1, SafetyQuiet DEF vars
<1>2. CASE LoopCheck \/ ClaimNothing \/ Sleep \/ WakeUp
  BY <1>0, <1>2, SafetyQuiet DEF LoopCheck, ClaimNothing, Sleep, WakeUp
<1>3. CASE StartReturns \/ StopRequest \/ StopNotify \/ StopCall
  BY <1>0, <1>3, SafetyQuiet DEF StartReturns, StopRequest, StopNotify, StopCall
<1>4. CASE StopReturn \/ StartCall
  BY <1>0, <1>4, SafetyQuiet DEF StopReturn, StartCall
<1>5. ASSUME NEW m \in Ids, Ripen(m) PROVE SafetyInv'
  BY <1>0, <1>5, SafetyQuiet DEF Ripen
<1>6. ASSUME NEW m \in Ids, ClaimMissing(m) PROVE SafetyInv'
  <2>1. errors' = 0 => errors = 0
    BY <1>6 DEF ClaimMissing, TypeOK
  <2> QED BY <1>0, <1>6, <2>1, SafetyQuiet DEF ClaimMissing
<1> QED BY <1>1, <1>2, <1>3, <1>4, <1>5, <1>6 DEF Stopping

-----------------------------------------------------------------------------
(* Safety: the calls of publish.                                            *)

\* A call begins, with an id nobody has offered yet.
LEMMA SafetyPublishCall ==
  ASSUME TypeOK, TypeOK', SafetyInv, NEW p \in Publishers, NEW m \in Ids, PublishCall(p, m)
  PROVE  SafetyInv'
<1> USE DEF storage, worker, owner, history
<1>0. CallInv /\ DropInv /\ EventInv
  BY DEF SafetyInv
<1>1. /\ pub[p].pc = "idle" /\ m \notin offered /\ offered' = offered \cup {m}
      /\ UNCHANGED <<q, wpc, wmsg, wres, opc, fired, acked, errors, recoveries>>
  BY DEF PublishCall
<1>2. /\ pub'[p].pc = "enqueue" /\ pub'[p].msg = m /\ pub'[p].drop = NoId /\ pub'[p].wake = 0
      /\ \A r \in Publishers : r # p => pub'[r] = pub[r]
  BY DEF PublishCall, Idle, TypeOK
<1>3. pub[p] = Idle /\ pub[p].drop = NoId /\ q[m].st = "absent"
  BY <1>0, <1>1, IdleType DEF CallInv, CallOK, Active
<1>4. CallInv'
  <2>1. CallOK(p)'
    BY <1>1, <1>2, <1>3 DEF CallOK, Active, Entering
  <2>2. \A r \in Publishers : r # p => CallOK(r)'
    BY <1>0, <1>1, <1>2 DEF CallInv, CallOK, Active, Entering
  <2>3. \A r \in Publishers : r # p /\ Active(r)' => Active(r) /\ pub'[r].msg \in offered
    BY <1>0, <1>2 DEF CallInv, CallOK, Active
  <2>4. \A r, t \in Publishers : Active(r)' /\ Active(t)' /\ pub'[r].msg = pub'[t].msg => r = t
    BY <1>0, <1>1, <1>2, <2>3 DEF CallInv
  <2> QED BY <1>0, <1>1, <2>1, <2>2, <2>4 DEF CallInv
<1>5. DropInv'
  <2>1. ASSUME recoveries = 0, NEW n \in InState("gone")
        PROVE  \/ acked[n] # "never" \/ <<"QUEUE_FULL", n>> \in fired
               \/ \E r \in Publishers : pub'[r].drop = n
    BY <1>0, <1>2, <1>3, <2>1, PipelineAssumption DEF DropInv, NothingSilentlyDropped, InState
  <2> QED BY <1>0, <1>1, <1>2, <2>1 DEF DropInv, NothingSilentlyDropped, InState
<1>6. EventInv'
  <2>1. <<"QUEUE_FULL", m>> \notin fired
    BY <1>0, <1>1 DEF CallInv
  <2> QED BY <1>0, <1>1, <1>2, <2>1 DEF EventInv, EventsAreTrue, Entering
<1> QED BY <1>1, <1>4, <1>5, <1>6, WorkerKept DEF SafetyInv

\* What edgesync_queue_publish does under the mutex: the message is stored, or
\* refused, or room is to be made for it first.
LEMMA EnqueueEffect ==
  ASSUME TypeOK, CallInv, NEW p \in Publishers, Enqueue(p)
  PROVE  /\ pub[p].pc \in {"enqueue", "again"} /\ pub[p].msg \in Ids
         /\ UNCHANGED <<offered, wpc, wmsg, wres, notified, opc, started, inc, wake, fired,
                        acked, recoveries>>
         /\ errors' = 0 => errors = 0
         /\ pub'[p].msg = pub[p].msg /\ pub'[p].drop = pub[p].drop
         /\ \A r \in Publishers : r # p => pub'[r] = pub[r]
         /\ \/ /\ Moved(pub[p].msg, {"absent"}, "PENDING") /\ q'[pub[p].msg].att = 0
               /\ ripe' = ripe \cup {pub[p].msg} /\ kept'[pub[p].msg] = {q'[pub[p].msg]}
               /\ pub'[p].pc = "announce" /\ pub'[p].err = "ok" /\ pub'[p].wake = wake
            \/ /\ UNCHANGED q /\ pub'[p].wake = 0 /\ (errors' = 0 => UNCHANGED <<kept, ripe>>)
               /\ \/ pub'[p].pc = "announce" /\ pub'[p].err # "ok"
                  \/ pub[p].pc = "enqueue" /\ pub'[p].pc = "drop"
         /\ \A n \in Ids : n # pub[p].msg => kept'[n] = kept[n]
<1> USE DEF storage, worker, owner, history
<1> DEFINE m == pub[p].msg
<1>1. pub[p].pc \in {"enqueue", "again"}
  BY DEF Enqueue
<1>2. m \in Ids /\ pub[p].wake = 0
  BY <1>1 DEF CallInv, CallOK, Active, Entering, TypeOK
<1>3. UNCHANGED <<offered, wpc, wmsg, wres, notified, opc, started, inc, wake, fired, acked,
                  recoveries>>
  BY DEF Enqueue
<1>4. CASE Works(m, Storage!Accept(m)) /\ ripe' = ripe \cup {m} /\ Leave(p, "ok")
  <2>1. Moved(m, {"absent"}, "PENDING") /\ q'[m].att = 0
    BY <1>2, <1>4, StorageMoves DEF Works
  <2>2. q' \in [Ids -> Messages]
    BY <2>1 DEF Moved
  <2>3. errors' = errors /\ kept'[m] = {q'[m]} /\ \A n \in Ids : n # m => kept'[n] = kept[n]
    BY <1>2, <1>4, <2>2, WorksType
  <2> QED BY <1>1, <1>2, <1>3, <1>4, <2>1, <2>3, LeaveType DEF Errs
<1>5. CASE /\ Fails(m, Storage!Message("PENDING", 0)) /\ UNCHANGED q
           /\ ripe' = ripe \cup {m} /\ Leave(p, "error")
  <2>1. errors' # 0 /\ \A n \in Ids : n # m => kept'[n] = kept[n]
    BY <1>2, <1>5, FailsType, MessageTypes DEF States
  <2> QED BY <1>1, <1>2, <1>3, <1>5, <2>1, LeaveType DEF Errs
<1>6. CASE UNCHANGED <<storage, errors>> /\ Leave(p, "full")
  BY <1>1, <1>2, <1>3, <1>6, LeaveType DEF Errs
<1>7. CASE /\ UNCHANGED <<storage, errors>> /\ pub[p].pc = "enqueue"
           /\ pub' = [pub EXCEPT ![p].pc = "drop"]
  <2>1. /\ pub'[p].pc = "drop" /\ pub'[p].msg = m /\ pub'[p].drop = pub[p].drop
        /\ pub'[p].wake = 0 /\ \A r \in Publishers : r # p => pub'[r] = pub[r]
    BY <1>2, <1>7 DEF TypeOK, Calls
  <2> QED BY <1>1, <1>2, <1>3, <1>7, <2>1
<1> QED BY <1>4, <1>5, <1>6, <1>7 DEF Enqueue

LEMMA SafetyEnqueue ==
  ASSUME TypeOK, TypeOK', SafetyInv, NEW p \in Publishers, Enqueue(p)
  PROVE  SafetyInv'
<1> DEFINE m == pub[p].msg
<1>0. CallInv /\ WorkerInv /\ InFlightIsHeld /\ ResendInv /\ DropInv /\ EventInv
  BY DEF SafetyInv
<1>1. /\ pub[p].pc \in {"enqueue", "again"} /\ m \in Ids
      /\ UNCHANGED <<offered, wpc, wmsg, wres, opc, fired, acked, recoveries>>
      /\ errors' = 0 => errors = 0
      /\ pub'[p].msg = m /\ pub'[p].drop = pub[p].drop
      /\ \A r \in Publishers : r # p => pub'[r] = pub[r]
  BY <1>0, EnqueueEffect
<1>2. /\ Active(p) /\ Entering(p) /\ q[m].st = "absent" /\ m \in offered
      /\ \A r \in Publishers : r # p /\ Active(r) => pub[r].msg # m
      /\ <<"QUEUE_FULL", m>> \notin fired
  BY <1>0, <1>1 DEF CallInv, CallOK, EventInv, Active, Entering
<1>3. \A r \in Publishers : Active(r)' => Active(r) /\ pub'[r].msg = pub[r].msg
  BY <1>1, <1>2 DEF Active
<1>4. \A r, t \in Publishers : Active(r)' /\ Active(t)' /\ pub'[r].msg = pub'[t].msg => r = t
  BY <1>0, <1>3 DEF CallInv
<1>5. \A r \in Publishers : pub[r].drop # NoId => pub[r].drop \in Ids /\ pub[r].drop # m
  BY <1>0, <1>2 DEF CallInv, CallOK, TypeOK, Calls
<1>6. CASE /\ Moved(m, {"absent"}, "PENDING")
           /\ pub'[p].pc = "announce" /\ pub'[p].err = "ok"
  <2>1. /\ q'[m].st = "PENDING" /\ \A n \in Ids : n # m => q'[n] = q[n]
    BY <1>6 DEF Moved
  <2>2. CallInv'
    <3>1. CallOK(p)'
      BY <1>0, <1>1, <1>2, <1>5, <1>6, <2>1 DEF CallInv, CallOK, Active, Entering
    <3>2. ASSUME NEW r \in Publishers, r # p PROVE CallOK(r)'
      <4>1. CallOK(r) /\ pub'[r] = pub[r]
        BY <1>0, <1>1, <3>2 DEF CallInv
      <4>2. Active(r) => pub[r].msg \in Ids /\ pub[r].msg # m
        BY <1>2, <3>2, <4>1 DEF CallOK, TypeOK
      <4> QED BY <1>1, <1>5, <2>1, <4>1, <4>2 DEF CallOK, Active, Entering
    <3> QED BY <1>0, <1>1, <1>2, <1>4, <2>1, <3>1, <3>2 DEF CallInv
  <2>3. WorkerInv' /\ InFlightIsHeld'
    BY <1>0, <1>1, <1>2, <2>1 DEF WorkerInv, InFlightIsHeld, InState
  <2>4. ResendInv'
    BY <1>0, <1>1, <1>2, <2>1 DEF ResendInv, Unacked
  <2>5. DropInv'
    BY <1>0, <1>1, <1>6, <2>1 DEF DropInv, NothingSilentlyDropped, InState
  <2>6. EventsAreTrue'
    <3>1. Forward
      BY <1>1, <1>6, MovedForward
    <3>2. \A n \in Ids : acked[n] # "never" => acked'[n] # "never"
      BY <1>1 DEF TypeOK
    <3> QED BY <1>0, <1>1, <1>2, <2>1, <3>1, <3>2, EventsKept DEF EventInv
  <2>7. EventInv'
    BY <1>0, <1>1, <1>2, <1>5, <1>6, <2>1, <2>6 DEF EventInv, Entering, WorkerInv
  <2> QED BY <2>2, <2>3, <2>4, <2>5, <2>7 DEF SafetyInv
<1>7. CASE /\ UNCHANGED q /\ pub'[p].wake = 0
           /\ \/ pub'[p].pc = "announce" /\ pub'[p].err # "ok"
              \/ pub[p].pc = "enqueue" /\ pub'[p].pc = "drop"
  <2>1. CallInv'
    <3>1. CallOK(p)'
      BY <1>0, <1>1, <1>2, <1>7 DEF CallInv, CallOK, Active, Entering
    <3>2. ASSUME NEW r \in Publishers, r # p PROVE CallOK(r)'
      BY <1>0, <1>1, <1>7, <3>2 DEF CallInv, CallOK, Active, Entering
    <3> QED BY <1>0, <1>1, <1>4, <1>7, <3>1, <3>2 DEF CallInv
  <2>2. WorkerInv' /\ InFlightIsHeld' /\ ResendInv'
    BY <1>1, <1>7, WorkerKept
  <2>3. DropInv'
    BY <1>0, <1>1, <1>7 DEF DropInv, NothingSilentlyDropped, InState
  <2>4. EventInv'
    BY <1>0, <1>1, <1>2, <1>7 DEF EventInv, EventsAreTrue, Entering
  <2> QED BY <2>1, <2>2, <2>3, <2>4 DEF SafetyInv
<1> QED BY <1>0, <1>6, <1>7, EnqueueEffect

\* The overflow policy removes a PENDING message, and remembers which one.
LEMMA DropEffect ==
  ASSUME TypeOK, CallInv, NEW p \in Publishers, DropOne(p)
  PROVE  \E d \in Ids :
           /\ q[d].st = "PENDING" /\ pub[p].pc = "drop"
           /\ UNCHANGED <<ripe, offered, wpc, wmsg, wres, notified, opc, started, inc, wake,
                          fired, acked, recoveries>>
           /\ \/ Moved(d, {"PENDING"}, "gone") /\ errors' = errors /\ kept'[d] = {q'[d]}
              \/ UNCHANGED q /\ errors' # 0
           /\ \A n \in Ids : n # d => kept'[n] = kept[n]
           /\ pub'[p].pc = "again" /\ pub'[p].drop = d
           /\ pub'[p].msg = pub[p].msg /\ pub'[p].wake = pub[p].wake
           /\ \A r \in Publishers : r # p => pub'[r] = pub[r]
<1>1. PICK d \in InState("PENDING") :
        /\ \/ Works(d, Storage!Close(d))
           \/ (Fails(d, Storage!Gone) \/ Fails(d, q[d])) /\ UNCHANGED q
        /\ pub' = [pub EXCEPT ![p].pc = "again", ![p].drop = d]
  BY DEF DropOne
<1>2. d \in Ids /\ q[d].st = "PENDING"
  BY DEF InState
<1>3. pub[p] \in Calls
  BY DEF TypeOK
<1>4. /\ pub'[p].pc = "again" /\ pub'[p].drop = d /\ pub'[p].msg = pub[p].msg
      /\ pub'[p].wake = pub[p].wake /\ \A r \in Publishers : r # p => pub'[r] = pub[r]
  BY <1>1, <1>3 DEF TypeOK, Calls
<1>5. /\ \/ Moved(d, {"PENDING"}, "gone") /\ errors' = errors /\ kept'[d] = {q'[d]}
         \/ UNCHANGED q /\ errors' # 0
      /\ \A n \in Ids : n # d => kept'[n] = kept[n]
  <2>1. CASE Works(d, Storage!Close(d))
    <3>1. Moved(d, {"PENDING"}, "gone")
      BY <1>2, <2>1, StorageMoves DEF Works, Moved
    <3>2. q' \in [Ids -> Messages]
      BY <3>1 DEF Moved
    <3> QED BY <1>2, <2>1, <3>1, <3>2, WorksType
  <2>2. CASE (Fails(d, Storage!Gone) \/ Fails(d, q[d])) /\ UNCHANGED q
    BY <1>2, <2>2, FailsType, MessageTypes
  <2> QED BY <1>1, <2>1, <2>2
<1>6. /\ pub[p].pc = "drop"
      /\ UNCHANGED <<ripe, offered, wpc, wmsg, wres, notified, opc, started, inc, wake, fired,
                     acked, recoveries>>
  BY DEF DropOne, worker, owner, history
<1> QED BY <1>2, <1>4, <1>5, <1>6

LEMMA SafetyDropOne ==
  ASSUME TypeOK, TypeOK', SafetyInv, NEW p \in Publishers, DropOne(p)
  PROVE  SafetyInv'
<1>0. CallInv /\ WorkerInv /\ InFlightIsHeld /\ ResendInv /\ DropInv /\ EventInv
  BY DEF SafetyInv
<1>1. PICK d \in Ids :
        /\ q[d].st = "PENDING" /\ pub[p].pc = "drop"
        /\ UNCHANGED <<offered, wpc, wmsg, wres, opc, fired, acked, recoveries>>
        /\ \/ Moved(d, {"PENDING"}, "gone") /\ errors' = errors
           \/ UNCHANGED q /\ errors' # 0
        /\ pub'[p].pc = "again" /\ pub'[p].drop = d
        /\ pub'[p].msg = pub[p].msg /\ pub'[p].wake = pub[p].wake
        /\ \A r \in Publishers : r # p => pub'[r] = pub[r]
  BY <1>0, DropEffect
<1>2. /\ \A n \in Ids : n # d => q'[n] = q[n]
      /\ q'[d].st \in {"PENDING", "gone"}
      /\ Forward /\ SameAbsent
      /\ errors' = 0 => errors = 0 /\ q'[d].st = "gone"
  <2>1. CASE Moved(d, {"PENDING"}, "gone") /\ errors' = errors
    <3>1. Forward /\ SameAbsent
      BY <2>1, MovedForward
    <3> QED BY <2>1, <3>1 DEF Moved
  <2>2. CASE UNCHANGED q /\ errors' # 0
    BY <1>1, <2>2 DEF Forward, SameAbsent
  <2> QED BY <1>1, <2>1, <2>2
<1>3. pub[p].drop = NoId /\ Entering(p) /\ Active(p) /\ d # NoId
  BY <1>0, <1>1, PipelineAssumption DEF CallInv, CallOK, Entering, Active
<1>4. CallInv'
  <2>1. \A r \in Publishers : /\ Active(r)' = Active(r) /\ Entering(r)' = Entering(r)
                              /\ pub'[r].msg = pub[r].msg
                              /\ Active(r) => pub[r].msg \in Ids
    BY <1>0, <1>1, <1>3 DEF Active, Entering, CallInv, CallOK, TypeOK
  <2>2. CallOK(p)'
    BY <1>0, <1>1, <1>2, <1>3, <2>1 DEF CallInv, CallOK, SameAbsent
  <2>3. ASSUME NEW r \in Publishers, r # p PROVE CallOK(r)'
    <3>1. /\ pub'[r] = pub[r] /\ CallOK(r)
          /\ pub[r].drop # NoId => pub[r].drop \in Ids
      BY <1>0, <1>1, <2>3 DEF CallInv, TypeOK, Calls
    <3> QED BY <1>1, <1>2, <2>1, <3>1 DEF CallOK, SameAbsent, Active, Entering
  <2> QED BY <1>0, <1>1, <1>2, <2>1, <2>2, <2>3 DEF CallInv, SameAbsent
<1>5. WorkerInv' /\ InFlightIsHeld'
  BY <1>0, <1>1, <1>2 DEF WorkerInv, InFlightIsHeld, InState, SameAbsent
<1>6. ResendInv'
  BY <1>0, <1>1, <1>2 DEF ResendInv, Unacked, WorkerInv
<1>7. DropInv'
  <2>1. ASSUME recoveries = 0, NEW n \in Ids, q'[n].st = "gone"
        PROVE  \/ acked[n] # "never" \/ <<"QUEUE_FULL", n>> \in fired
               \/ \E r \in Publishers : pub'[r].drop = n
    <3>1. CASE n = d BY <1>1, <3>1
    <3>2. CASE n # d
      <4>1. q[n].st = "gone"
        BY <1>2, <2>1, <3>2
      <4>2. \A r \in Publishers : pub[r].drop = n => pub'[r].drop = n
        BY <1>1, <1>3, PipelineAssumption
      <4> QED BY <1>0, <2>1, <4>1, <4>2 DEF DropInv, NothingSilentlyDropped, InState
    <3> QED BY <3>1, <3>2
  <2>2. \A r \in Publishers : pub'[r].pc = "wake" => r # p
    BY <1>1
  <2> QED BY <1>0, <1>1, <2>1, <2>2 DEF DropInv, NothingSilentlyDropped, InState
<1>8. EventsAreTrue'
  <2>1. \A n \in Ids : acked[n] # "never" => acked'[n] # "never"
    BY <1>1 DEF TypeOK
  <2> QED BY <1>0, <1>1, <1>2, <2>1, EventsKept DEF EventInv, SameAbsent
<1>9. EventInv'
  <2>1. \A r \in Publishers : Entering(r)' => Entering(r) /\ pub'[r].msg = pub[r].msg
    BY <1>1, <1>3 DEF Entering
  <2>2. ASSUME errors' = 0
        PROVE  \A r \in Publishers : pub'[r].drop # NoId => q'[pub'[r].drop].st = "gone"
    BY <1>0, <1>1, <1>2, <2>2 DEF EventInv, Forward, TypeOK, Calls
  <2>3. ASSUME errors' = 0
        PROVE  /\ wpc = "event" /\ wres = "DELIVERED" => q'[wmsg].st = "gone" /\ acked[wmsg] # "never"
               /\ wpc = "event" /\ wres = "DEAD_LETTER" => q'[wmsg].st = "DEAD_LETTER"
    BY <1>0, <1>2, <2>3 DEF EventInv, Forward, WorkerInv
  <2> QED BY <1>0, <1>1, <1>8, <2>1, <2>2, <2>3 DEF EventInv
<1> QED BY <1>4, <1>5, <1>6, <1>7, <1>9 DEF SafetyInv

\* The events of a publish are fired after the mutex is released.
LEMMA SafetyAnnounce ==
  ASSUME TypeOK, TypeOK', SafetyInv, NEW p \in Publishers, Announce(p)
  PROVE  SafetyInv'
<1> USE DEF storage, worker, owner
<1> DEFINE c == pub[p]
<1>0. CallInv /\ WorkerInv /\ InFlightIsHeld /\ ResendInv /\ DropInv /\ EventInv
  BY DEF SafetyInv
<1>1. /\ c.pc = "announce" /\ fired' = fired \cup Announced(p)
      /\ UNCHANGED <<q, offered, wpc, wmsg, wres, opc, acked, errors, recoveries>>
  BY DEF Announce
<1>2. /\ \A r \in Publishers : r # p => pub'[r] = pub[r]
      /\ \/ pub'[p] = Idle
         \/ pub'[p].pc = "wake" /\ pub'[p].msg = c.msg /\ pub'[p].drop = c.drop
  BY DEF Announce, TypeOK, Calls
<1>3. /\ Active(p) /\ CallOK(p) /\ c.msg \in offered /\ c.msg \in Ids
      /\ c.drop # NoId => c.drop \in Ids /\ c.drop \in offered
  BY <1>0, <1>1 DEF CallInv, CallOK, Active, TypeOK, Calls
<1>4. \A e \in Announced(p) :
        \/ c.drop # NoId /\ e = <<"QUEUE_FULL", c.drop>>
        \/ c.err = "ok" /\ e = <<"QUEUED", c.msg>>
        \/ c.err = "full" /\ e = <<"QUEUE_FULL", c.msg>>
  BY DEF Announced
<1>5. c.drop # NoId => <<"QUEUE_FULL", c.drop>> \in fired'
  BY <1>1 DEF Announced
<1>6. CallInv'
  <2>1. CallOK(p)'
    BY <1>1, <1>2, <1>3, IdleType DEF CallOK, Active, Entering
  <2>2. ASSUME NEW r \in Publishers, r # p PROVE CallOK(r)'
    BY <1>0, <1>1, <1>2, <2>2 DEF CallInv, CallOK, Active, Entering
  <2>3. \A r \in Publishers : Active(r)' => Active(r) /\ pub'[r].msg = pub[r].msg
    BY <1>2, <1>3, IdleType DEF Active
  <2>4. \A e \in fired' : e[2] \in offered
    BY <1>0, <1>1, <1>3, <1>4 DEF CallInv
  <2> QED BY <1>0, <1>1, <2>1, <2>2, <2>3, <2>4 DEF CallInv
<1>7. DropInv'
  BY <1>0, <1>1, <1>2, <1>5, IdleType, PipelineAssumption DEF DropInv, NothingSilentlyDropped, InState
<1>8. EventsAreTrue'
  <2> SUFFICES ASSUME errors = 0, NEW n \in Ids
               PROVE  /\ <<"QUEUED", n>> \in fired' => q[n].st # "absent"
                      /\ <<"DELIVERED", n>> \in fired' => q[n].st = "gone" /\ acked[n] # "never"
                      /\ <<"DEAD_LETTER", n>> \in fired' => q[n].st = "DEAD_LETTER"
                      /\ <<"QUEUE_FULL", n>> \in fired' => q[n].st \in {"absent", "gone"}
    BY <1>1 DEF EventsAreTrue
  <2>1. <<"QUEUED", n>> \in Announced(p) => q[n].st # "absent"
    BY <1>1, <1>3, <1>4 DEF CallOK
  <2>2. <<"DELIVERED", n>> \notin Announced(p) /\ <<"DEAD_LETTER", n>> \notin Announced(p)
    BY <1>4
  <2>3. <<"QUEUE_FULL", n>> \in Announced(p) => q[n].st \in {"absent", "gone"}
    BY <1>0, <1>1, <1>3, <1>4 DEF CallOK, EventInv
  <2> QED BY <1>0, <1>1, <2>1, <2>2, <2>3 DEF EventInv, EventsAreTrue
<1>9. EventInv'
  <2>1. ASSUME NEW r \in Publishers, Entering(r)'
        PROVE  <<"QUEUE_FULL", pub'[r].msg>> \notin fired'
    <3>1. r # p /\ pub'[r] = pub[r] /\ Entering(r) /\ Active(r)
      BY <1>2, <2>1, IdleType DEF Entering, Active
    <3>2. pub[r].msg # c.msg /\ q[pub[r].msg].st = "absent"
      BY <1>0, <1>3, <3>1 DEF CallInv, CallOK
    <3>3. c.drop # NoId => pub[r].msg # c.drop
      BY <1>3, <3>2 DEF CallOK
    <3> QED BY <1>0, <1>1, <1>4, <3>1, <3>2, <3>3 DEF EventInv
  <2>2. ASSUME errors = 0
        PROVE  \A r \in Publishers : pub'[r].drop # NoId => q[pub'[r].drop].st = "gone"
    BY <1>0, <1>2, <2>2, IdleType DEF EventInv
  <2> QED BY <1>0, <1>1, <1>8, <2>1, <2>2 DEF EventInv
<1> QED BY <1>1, <1>6, <1>7, <1>9, WorkerKept DEF SafetyInv

\* The call returns after it has woken the worker.
LEMMA SafetyWake ==
  ASSUME TypeOK, TypeOK', SafetyInv, NEW p \in Publishers, Wake(p)
  PROVE  SafetyInv'
<1> USE DEF storage, owner, history
<1>0. CallInv /\ WorkerInv /\ InFlightIsHeld /\ ResendInv /\ DropInv /\ EventInv
  BY DEF SafetyInv
<1>1. /\ pub[p].pc = "wake" /\ pub'[p] = Idle
      /\ \A r \in Publishers : r # p => pub'[r] = pub[r]
      /\ UNCHANGED <<q, offered, wpc, wmsg, wres, opc, fired, acked, errors, recoveries>>
  BY DEF Wake, TypeOK
<1>2. CallInv'
  <2>1. CallOK(p)'
    BY <1>1, IdleType DEF CallOK, Active, Entering
  <2>2. ASSUME NEW r \in Publishers, r # p PROVE CallOK(r)'
    BY <1>0, <1>1, <2>2 DEF CallInv, CallOK, Active, Entering
  <2>3. \A r \in Publishers : Active(r)' => Active(r) /\ pub'[r].msg = pub[r].msg
    BY <1>1, IdleType DEF Active
  <2> QED BY <1>0, <1>1, <2>1, <2>2, <2>3 DEF CallInv
<1>3. DropInv'
  BY <1>0, <1>1, IdleType, PipelineAssumption DEF DropInv, NothingSilentlyDropped, InState
<1>4. EventInv'
  BY <1>0, <1>1, IdleType DEF EventInv, EventsAreTrue, Entering
<1> QED BY <1>1, <1>2, <1>3, <1>4, WorkerKept DEF SafetyInv

-----------------------------------------------------------------------------
(* Safety: the worker, and recovery.                                        *)

\* What the publishers and the announced events know, across a step in which the
\* worker moves a message.
LEMMA WorkerMoves ==
  ASSUME TypeOK, TypeOK', SafetyInv, NEW m \in Ids, NEW from, NEW st, Moved(m, from, st),
         from \subseteq {"PENDING", "IN_FLIGHT"}, st \in {"PENDING", "IN_FLIGHT", "DEAD_LETTER", "gone"},
         UNCHANGED <<pub, offered, fired, acked, recoveries>>, errors' = 0 => errors = 0
  PROVE  /\ CallInv' /\ EventsAreTrue'
         /\ \A p \in Publishers : Entering(p)' => <<"QUEUE_FULL", pub'[p].msg>> \notin fired'
         /\ errors' = 0 =>
              \A p \in Publishers : pub'[p].drop # NoId => q'[pub'[p].drop].st = "gone"
         /\ \A p \in Publishers :
              pub'[p].pc = "wake" /\ pub'[p].drop # NoId => <<"QUEUE_FULL", pub'[p].drop>> \in fired'
<1>0. CallInv /\ DropInv /\ EventInv
  BY DEF SafetyInv
<1>1. Forward /\ SameAbsent
  <2>1. /\ st # "absent" /\ "absent" \notin from
        /\ from \subseteq {"absent", "PENDING", "IN_FLIGHT"}
    OBVIOUS
  <2> QED BY <2>1, MovedForward
<1>2. CallInv'
  BY <1>0, <1>1, CallKept DEF CallInv
<1>3. \A n \in Ids : acked[n] # "never" => acked'[n] # "never"
  BY DEF TypeOK
<1>4. EventsAreTrue'
  BY <1>0, <1>1, <1>3, EventsKept DEF EventInv, SameAbsent
<1>5. \A p \in Publishers : pub[p].drop # NoId => pub[p].drop \in Ids
  BY DEF TypeOK, Calls
<1>6. errors' = 0 =>
        \A p \in Publishers : pub'[p].drop # NoId => q'[pub'[p].drop].st = "gone"
  BY <1>0, <1>1, <1>5 DEF EventInv, Forward
<1> QED BY <1>0, <1>2, <1>4, <1>6 DEF EventInv, DropInv, Entering

\* claim_next hands a message to the worker.
LEMMA SafetyClaim ==
  ASSUME TypeOK, TypeOK', SafetyInv, NEW m \in Ids, ClaimNext(m)
  PROVE  SafetyInv'
<1> USE DEF publishing, owner, history
<1>0. CallInv /\ WorkerInv /\ InFlightIsHeld /\ ResendInv /\ DropInv /\ EventInv
  BY DEF SafetyInv
<1>1. /\ wpc = "claim" /\ wpc' = "deliver" /\ wmsg' = m
      /\ UNCHANGED <<wres, pub, offered, opc, fired, acked, recoveries>>
  BY DEF ClaimNext
<1>2. opc # "stopped"
  BY <1>0, <1>1 DEF WorkerInv
<1>3. Moved(m, {"PENDING"}, "IN_FLIGHT") /\ errors' = errors
  BY ClaimEffect
<1>4. /\ q[m].st = "PENDING" /\ q'[m].st = "IN_FLIGHT"
      /\ \A n \in Ids : n # m => q'[n] = q[n]
  BY <1>3 DEF Moved
<1>5. /\ CallInv' /\ EventsAreTrue'
      /\ \A p \in Publishers : Entering(p)' => <<"QUEUE_FULL", pub'[p].msg>> \notin fired'
      /\ errors' = 0 =>
           \A p \in Publishers : pub'[p].drop # NoId => q'[pub'[p].drop].st = "gone"
      /\ \A p \in Publishers :
           pub'[p].pc = "wake" /\ pub'[p].drop # NoId => <<"QUEUE_FULL", pub'[p].drop>> \in fired'
  BY <1>1, <1>3, WorkerMoves
<1>6. WorkerInv' /\ InFlightIsHeld'
  BY <1>0, <1>1, <1>2, <1>3, <1>4 DEF WorkerInv, InFlightIsHeld, InState
<1>7. ResendInv'
  BY <1>0, <1>1, <1>4 DEF ResendInv, Unacked
<1>8. DropInv'
  BY <1>0, <1>1, <1>4, <1>5 DEF DropInv, NothingSilentlyDropped, InState
<1>9. EventInv'
  BY <1>1, <1>5 DEF EventInv
<1> QED BY <1>5, <1>6, <1>7, <1>8, <1>9 DEF SafetyInv

\* It finds the message corrupt.
LEMMA SafetyCorrupt ==
  ASSUME TypeOK, TypeOK', SafetyInv, NEW m \in Ids, ClaimCorrupt(m)
  PROVE  SafetyInv'
<1> USE DEF publishing, owner, history
<1>0. CallInv /\ WorkerInv /\ InFlightIsHeld /\ ResendInv /\ DropInv /\ EventInv
  BY DEF SafetyInv
<1>1. /\ wpc = "claim" /\ wpc' = "event" /\ wmsg' = m /\ wres' = "DEAD_LETTER"
      /\ UNCHANGED <<pub, offered, opc, fired, acked, recoveries>>
  BY DEF ClaimCorrupt
<1>2. opc # "stopped"
  BY <1>0, <1>1 DEF WorkerInv
<1>3. Moved(m, {"PENDING"}, "DEAD_LETTER") /\ errors' # 0
  BY ClaimEffect
<1>4. /\ q[m].st = "PENDING" /\ q'[m].st = "DEAD_LETTER"
      /\ \A n \in Ids : n # m => q'[n] = q[n]
  BY <1>3 DEF Moved
<1>5. /\ CallInv' /\ EventsAreTrue'
      /\ \A p \in Publishers : Entering(p)' => <<"QUEUE_FULL", pub'[p].msg>> \notin fired'
      /\ \A p \in Publishers :
           pub'[p].pc = "wake" /\ pub'[p].drop # NoId => <<"QUEUE_FULL", pub'[p].drop>> \in fired'
  BY <1>1, <1>3, WorkerMoves
<1>6. WorkerInv' /\ InFlightIsHeld'
  BY <1>1, <1>2, <1>3, <1>4 DEF WorkerInv, InFlightIsHeld
<1>7. ResendInv'
  BY <1>0, <1>1, <1>4 DEF ResendInv, Unacked
<1>8. DropInv'
  BY <1>0, <1>1, <1>4, <1>5 DEF DropInv, NothingSilentlyDropped, InState
<1>9. EventInv'
  BY <1>3, <1>5 DEF EventInv
<1> QED BY <1>5, <1>6, <1>7, <1>8, <1>9 DEF SafetyInv

\* It fails, and may leave the message IN_FLIGHT in the index, held by nobody.
LEMMA SafetyClaimFails ==
  ASSUME TypeOK, TypeOK', SafetyInv, NEW m \in Ids, ClaimFails(m)
  PROVE  SafetyInv'
<1> USE DEF publishing, owner, history
<1>0. CallInv /\ WorkerInv /\ InFlightIsHeld /\ ResendInv /\ DropInv /\ EventInv
  BY DEF SafetyInv
<1>1. /\ wpc = "claim" /\ wpc' = "pause" /\ errors' # 0
      /\ UNCHANGED <<wmsg, wres, pub, offered, opc, fired, acked, recoveries>>
  BY ClaimEffect DEF ClaimFails
<1>2. opc # "stopped"
  BY <1>0, <1>1 DEF WorkerInv
<1>3. CASE UNCHANGED q
  BY <1>1, <1>2, <1>3, SafetyQuiet
<1>4. CASE Moved(m, {"PENDING"}, "IN_FLIGHT")
  <2>1. /\ q[m].st = "PENDING" /\ q'[m].st = "IN_FLIGHT"
        /\ \A n \in Ids : n # m => q'[n] = q[n]
    BY <1>4 DEF Moved
  <2>2. /\ CallInv' /\ EventsAreTrue'
        /\ \A p \in Publishers : Entering(p)' => <<"QUEUE_FULL", pub'[p].msg>> \notin fired'
        /\ \A p \in Publishers :
             pub'[p].pc = "wake" /\ pub'[p].drop # NoId => <<"QUEUE_FULL", pub'[p].drop>> \in fired'
    BY <1>1, <1>4, WorkerMoves
  <2>3. WorkerInv' /\ InFlightIsHeld'
    BY <1>1, <1>2 DEF WorkerInv, InFlightIsHeld
  <2>4. ResendInv'
    BY <1>0, <1>1, <2>1 DEF ResendInv, Unacked
  <2>5. DropInv'
    BY <1>0, <1>1, <2>1, <2>2 DEF DropInv, NothingSilentlyDropped, InState
  <2>6. EventInv'
    BY <1>1, <2>2 DEF EventInv
  <2> QED BY <2>2, <2>3, <2>4, <2>5, <2>6 DEF SafetyInv
<1> QED BY <1>3, <1>4, ClaimEffect

\* The transport may report SUCCESS for the message; it has not since the last
\* recovery.
LEMMA SafetyDeliver == TypeOK /\ TypeOK' /\ SafetyInv /\ Deliver => SafetyInv'
<1> SUFFICES ASSUME TypeOK, TypeOK', SafetyInv, Deliver PROVE SafetyInv'
  OBVIOUS
<1> USE DEF storage, publishing, owner
<1>0. CallInv /\ WorkerInv /\ InFlightIsHeld /\ ResendInv /\ DropInv /\ EventInv
  BY DEF SafetyInv
<1>1. /\ wpc = "deliver" /\ wpc' = "report"
      /\ UNCHANGED <<q, pub, offered, wmsg, opc, fired, errors, recoveries>>
  BY DEF Deliver
<1>2. wmsg \in Ids /\ q[wmsg].st = "IN_FLIGHT" /\ Unacked(wmsg) /\ opc # "stopped"
  BY <1>0, <1>1 DEF WorkerInv, Unacked
<1>3. /\ wres' \in Results
      /\ acked'[wmsg] = IF wres' = "success" THEN "now" ELSE acked[wmsg]
      /\ \A n \in Ids : n # wmsg => acked'[n] = acked[n]
  BY <1>2 DEF Deliver, TypeOK
<1>4. \A n \in Ids : acked[n] # "never" => acked'[n] # "never"
  BY <1>2, <1>3
<1>5. CallInv'
  BY <1>0, <1>1, CallKept DEF CallInv, SameAbsent
<1>6. WorkerInv' /\ InFlightIsHeld'
  BY <1>0, <1>1, <1>2, <1>3 DEF WorkerInv, InFlightIsHeld, InState
<1>7. ResendInv'
  <2> SUFFICES ASSUME NEW n \in Ids, Unacked(n)' PROVE acked'[n] # "now"
    BY DEF ResendInv
  <2>1. CASE n = wmsg
    BY <1>0, <1>1, <1>2, <1>3, <2>1 DEF Unacked, ResendInv
  <2>2. CASE n # wmsg
    BY <1>0, <1>1, <1>3, <2>2 DEF Unacked, ResendInv
  <2> QED BY <2>1, <2>2
<1>8. DropInv'
  BY <1>0, <1>1, <1>4 DEF DropInv, NothingSilentlyDropped, InState
<1>9. EventsAreTrue'
  BY <1>0, <1>1, <1>4, EventsKept DEF EventInv, Forward
<1>10. EventInv'
  BY <1>0, <1>1, <1>9 DEF EventInv, Entering
<1> QED BY <1>5, <1>6, <1>7, <1>8, <1>10 DEF SafetyInv

\* The outcome is recorded, or the call fails and may leave the message IN_FLIGHT.
LEMMA SafetyReport == TypeOK /\ TypeOK' /\ SafetyInv /\ Report => SafetyInv'
<1> SUFFICES ASSUME TypeOK, TypeOK', SafetyInv, Report PROVE SafetyInv'
  OBVIOUS
<1> USE DEF publishing, owner, history
<1> DEFINE v == Verdict(wres, q[wmsg].att)
           st == CASE v = "DELIVERED" -> "gone" [] v = "DEAD_LETTER" -> "DEAD_LETTER"
                   [] v = "RETRY" -> "PENDING"
<1>0. CallInv /\ WorkerInv /\ InFlightIsHeld /\ ResendInv /\ DropInv /\ EventInv
  BY DEF SafetyInv
<1>1. /\ wpc = "report" /\ wpc' = "event" /\ wres' = v
      /\ UNCHANGED <<pub, offered, wmsg, opc, fired, acked, recoveries>>
  BY DEF Report
<1>2. /\ wmsg \in Ids /\ q[wmsg].st = "IN_FLIGHT" /\ opc # "stopped"
      /\ wres = "success" => acked[wmsg] = "now"
  BY <1>0, <1>1 DEF WorkerInv
<1>3. /\ v \in {"DELIVERED", "DEAD_LETTER", "RETRY"} /\ (v = "DELIVERED" <=> wres = "success")
      /\ errors' = 0 => errors = 0
      /\ (UNCHANGED q /\ errors' # 0) \/ Moved(wmsg, {"IN_FLIGHT"}, st)
  BY <1>0, ReportEffect
<1> HIDE DEF v
<1>4. CASE UNCHANGED q /\ errors' # 0
  <2>1. CallInv'
    BY <1>0, <1>1, <1>4, CallKept DEF CallInv, SameAbsent
  <2>2. WorkerInv' /\ InFlightIsHeld'
    BY <1>1, <1>2, <1>3, <1>4 DEF WorkerInv, InFlightIsHeld
  <2>3. ResendInv'
    BY <1>0, <1>1, <1>4 DEF ResendInv, Unacked
  <2>4. DropInv'
    BY <1>0, <1>1, <1>4 DEF DropInv, NothingSilentlyDropped, InState
  <2>5. EventInv'
    BY <1>0, <1>1, <1>4 DEF EventInv, EventsAreTrue, Entering
  <2> QED BY <2>1, <2>2, <2>3, <2>4, <2>5 DEF SafetyInv
<1>5. CASE Moved(wmsg, {"IN_FLIGHT"}, st)
  <2>1. st \in {"PENDING", "IN_FLIGHT", "DEAD_LETTER", "gone"} /\ st # "IN_FLIGHT"
    BY <1>3
  <2>2. /\ q'[wmsg].st = st /\ \A n \in Ids : n # wmsg => q'[n] = q[n]
    BY <1>5 DEF Moved
  <2>3. /\ CallInv' /\ EventsAreTrue'
        /\ \A p \in Publishers : Entering(p)' => <<"QUEUE_FULL", pub'[p].msg>> \notin fired'
        /\ errors' = 0 =>
             \A p \in Publishers : pub'[p].drop # NoId => q'[pub'[p].drop].st = "gone"
        /\ \A p \in Publishers :
             pub'[p].pc = "wake" /\ pub'[p].drop # NoId => <<"QUEUE_FULL", pub'[p].drop>> \in fired'
    <3> HIDE DEF st
    <3> QED BY <1>1, <1>2, <1>3, <1>5, <2>1, WorkerMoves
  <2>4. WorkerInv'
    BY <1>1, <1>2, <1>3, <2>2 DEF WorkerInv
  <2>5. InFlightIsHeld'
    BY <1>0, <1>1, <1>3, <2>1, <2>2 DEF InFlightIsHeld, InState
  <2>6. ResendInv'
    <3>1. v # "DELIVERED" => Unacked(wmsg)
      BY <1>1, <1>3 DEF Unacked
    <3>2. ASSUME NEW n \in Ids, Unacked(n)' PROVE acked[n] # "now"
      <4>1. CASE n = wmsg
        BY <1>0, <1>1, <1>2, <2>2, <3>1, <3>2, <4>1 DEF Unacked, ResendInv
      <4>2. CASE n # wmsg
        BY <1>0, <1>1, <2>2, <3>2, <4>2 DEF Unacked, ResendInv
      <4> QED BY <4>1, <4>2
    <3> QED BY <1>1, <3>2 DEF ResendInv
  <2>7. DropInv'
    <3>1. q'[wmsg].st = "gone" => acked[wmsg] # "never"
      BY <1>2, <1>3, <2>2
    <3> QED BY <1>0, <1>1, <2>2, <2>3, <3>1 DEF DropInv, NothingSilentlyDropped, InState
  <2>8. EventInv'
    BY <1>1, <1>2, <1>3, <2>2, <2>3 DEF EventInv
  <2> QED BY <2>3, <2>4, <2>5, <2>6, <2>7, <2>8 DEF SafetyInv
<1> QED BY <1>3, <1>4, <1>5

\* The event callback says what was recorded.
LEMMA SafetyEvent == TypeOK /\ TypeOK' /\ SafetyInv /\ WorkerEvent => SafetyInv'
<1> SUFFICES ASSUME TypeOK, TypeOK', SafetyInv, WorkerEvent PROVE SafetyInv'
  OBVIOUS
<1> USE DEF storage, publishing, owner
<1>0. CallInv /\ WorkerInv /\ InFlightIsHeld /\ ResendInv /\ DropInv /\ EventInv
  BY DEF SafetyInv
<1>1. /\ wpc = "event" /\ wpc' = "loop" /\ fired' = fired \cup {<<wres, wmsg>>}
      /\ UNCHANGED <<q, pub, offered, opc, acked, errors, recoveries>>
  BY DEF WorkerEvent
<1>2. /\ wmsg \in Ids /\ q[wmsg].st # "absent" /\ opc # "stopped" /\ wmsg \in offered
      /\ wres \in {"DELIVERED", "RETRY", "DEAD_LETTER"}
  BY <1>0, <1>1 DEF WorkerInv, CallInv
<1>3. CallInv'
  <2>1. \A e \in fired' : e[2] \in offered
    BY <1>0, <1>1, <1>2 DEF CallInv
  <2> QED BY <1>0, <1>1, <2>1, CallKept DEF SameAbsent
<1>4. WorkerInv' /\ InFlightIsHeld'
  BY <1>0, <1>1, <1>2 DEF WorkerInv, InFlightIsHeld, InState
<1>5. ResendInv'
  BY <1>0, <1>1 DEF ResendInv, Unacked
<1>6. DropInv'
  BY <1>0, <1>1 DEF DropInv, NothingSilentlyDropped, InState
<1>7. EventsAreTrue'
  <2> SUFFICES ASSUME errors = 0, NEW n \in Ids
               PROVE  /\ <<"QUEUED", n>> \in fired' => q[n].st # "absent"
                      /\ <<"DELIVERED", n>> \in fired' => q[n].st = "gone" /\ acked[n] # "never"
                      /\ <<"DEAD_LETTER", n>> \in fired' => q[n].st = "DEAD_LETTER"
                      /\ <<"QUEUE_FULL", n>> \in fired' => q[n].st \in {"absent", "gone"}
    BY <1>1 DEF EventsAreTrue
  <2>1. <<"QUEUED", n>> # <<wres, wmsg>> /\ <<"QUEUE_FULL", n>> # <<wres, wmsg>>
    BY <1>2
  <2> QED BY <1>0, <1>1, <2>1 DEF EventInv, EventsAreTrue
<1>8. EventInv'
  <2>1. \A n : <<"QUEUE_FULL", n>> # <<wres, wmsg>>
    BY <1>2
  <2> QED BY <1>0, <1>1, <1>7, <2>1 DEF EventInv, Entering
<1> QED BY <1>3, <1>4, <1>5, <1>6, <1>8 DEF SafetyInv

\* A recovery finds whatever the calls that failed have left; the calls of publish
\* have ended, or are none.
LEMMA SafetyRecover ==
  ASSUME TypeOK, TypeOK', SafetyInv, KeptInv, Recover,
         UNCHANGED <<offered, fired, errors>>, wpc' = "none",
         \A p \in Publishers : pub'[p] = Idle
  PROVE  SafetyInv'
<1>0. CallInv /\ WorkerInv /\ InFlightIsHeld /\ ResendInv /\ DropInv /\ EventInv
  BY DEF SafetyInv
<1>1. \A p \in Publishers : pub'[p] = Idle /\ ~Active(p)' /\ ~Entering(p)'
  BY IdleType DEF Active, Entering
<1>2. /\ \A m \in Ids : q'[m].st # "IN_FLIGHT" /\ acked'[m] # "now"
      /\ \A m \in Ids : acked[m] # "never" => acked'[m] # "never"
      /\ recoveries \in Nat /\ recoveries' = recoveries + 1
  BY RecoverEffect DEF TypeOK
<1>3. \A m \in Ids : m \notin offered => q'[m].st = "absent"
  <2> SUFFICES ASSUME NEW m \in Ids, m \notin offered PROVE q'[m].st = "absent"
    OBVIOUS
  <2>1. q[m].st = "absent" /\ kept[m] = {q[m]}
    BY <1>0 DEF CallInv, KeptInv
  <2> QED BY <2>1, RecoverEffect
<1>4. errors = 0 => \A m \in Ids :
        q'[m].st = IF q[m].st = "IN_FLIGHT" THEN "PENDING" ELSE q[m].st
  BY RecoverEffect DEF KeptInv
<1>5. CallInv'
  BY <1>0, <1>1, <1>3, IdleType DEF CallInv, CallOK
<1>6. WorkerInv' /\ InFlightIsHeld'
  BY <1>2 DEF WorkerInv, InFlightIsHeld, InState
<1>7. ResendInv'
  BY <1>2 DEF ResendInv
<1>8. DropInv'
  BY <1>1, <1>2, IdleType DEF DropInv, NothingSilentlyDropped
<1>9. EventsAreTrue'
  <2> SUFFICES ASSUME errors = 0, NEW m \in Ids
               PROVE  /\ <<"QUEUED", m>> \in fired => q'[m].st # "absent"
                      /\ <<"DELIVERED", m>> \in fired => q'[m].st = "gone" /\ acked'[m] # "never"
                      /\ <<"DEAD_LETTER", m>> \in fired => q'[m].st = "DEAD_LETTER"
                      /\ <<"QUEUE_FULL", m>> \in fired => q'[m].st \in {"absent", "gone"}
    BY DEF EventsAreTrue
  <2> QED BY <1>0, <1>2, <1>4 DEF EventInv, EventsAreTrue
<1>10. EventInv'
  BY <1>1, <1>9, IdleType DEF EventInv
<1> QED BY <1>5, <1>6, <1>7, <1>8, <1>10 DEF SafetyInv

\* A reset ends every call; deinit and init come when there is none.
LEMMA SafetyReset ==
  ASSUME TypeOK, TypeOK', SafetyInv, KeptInv, Reset \/ Reinit
  PROVE  SafetyInv'
<1>1. CASE Reset
  <2>1. /\ Recover /\ UNCHANGED <<offered, fired, errors>> /\ wpc' = "none"
        /\ \A p \in Publishers : pub'[p] = Idle
    BY <1>1 DEF Reset
  <2> QED BY <2>1, SafetyRecover
<1>2. CASE Reinit
  <2>1. /\ Recover /\ UNCHANGED <<offered, fired, errors>> /\ wpc' = wpc /\ UNCHANGED pub
        /\ opc = "stopped" /\ \A p \in Publishers : pub[p].pc = "idle"
    BY <1>2 DEF Reinit, publishing, worker
  <2>2. wpc = "none" /\ \A p \in Publishers : pub[p] = Idle
    BY <2>1 DEF SafetyInv, WorkerInv, CallInv, CallOK, Active
  <2> QED BY <2>1, <2>2, SafetyRecover
<1> QED BY <1>1, <1>2

\* What a recovery may find changes for the message a call is about, if for any.
LEMMA KeptMoves ==
  ASSUME KeptInv, NEW m \in Ids, m \in offered, UNCHANGED offered,
         errors' = 0 => errors = 0,
         errors' = 0 => kept'[m] = {q'[m]},
         \A n \in Ids : n # m => q'[n] = q[n] /\ kept'[n] = kept[n]
  PROVE  KeptInv'
BY DEF KeptInv

LEMMA KeptNext == TypeOK /\ SafetyInv /\ KeptInv /\ [Next]_vars => KeptInv'
<1> SUFFICES ASSUME TypeOK, SafetyInv, KeptInv, [Next]_vars PROVE KeptInv'
  OBVIOUS
<1> USE DEF storage, publishing, worker, owner, history
<1>0. CallInv /\ WorkerInv
  BY DEF SafetyInv
<1>1. \A m \in Ids : q[m].st # "absent" => m \in offered
  BY <1>0 DEF CallInv
<1>2. CASE UNCHANGED <<q, kept>> /\ offered \subseteq offered' /\ (errors' = 0 => errors = 0)
  BY <1>2 DEF KeptInv
<1>3. ASSUME NEW p \in Publishers, Enqueue(p) PROVE KeptInv'
  <2>1. pub[p].msg \in Ids /\ pub[p].msg \in offered
    BY <1>0, <1>3, EnqueueEffect DEF CallInv, CallOK, Active
  <2>2. kept[pub[p].msg] = {q[pub[p].msg]} \/ errors # 0
    BY <2>1 DEF KeptInv
  <2>3. /\ UNCHANGED offered /\ (errors' = 0 => errors = 0)
        /\ errors' = 0 => kept'[pub[p].msg] = {q'[pub[p].msg]}
        /\ \A n \in Ids : n # pub[p].msg => q'[n] = q[n] /\ kept'[n] = kept[n]
    BY <1>0, <1>3, <2>2, EnqueueEffect DEF Moved
  <2> QED BY <2>1, <2>3, KeptMoves
<1>4. ASSUME NEW p \in Publishers, DropOne(p) PROVE KeptInv'
  <2>1. PICK d \in Ids :
          /\ q[d].st = "PENDING" /\ UNCHANGED offered
          /\ \/ Moved(d, {"PENDING"}, "gone") /\ errors' = errors /\ kept'[d] = {q'[d]}
             \/ UNCHANGED q /\ errors' # 0
          /\ \A n \in Ids : n # d => kept'[n] = kept[n]
    BY <1>0, <1>4, DropEffect
  <2>2. \A n \in Ids : n # d => q'[n] = q[n]
    BY <2>1 DEF Moved
  <2> QED BY <1>1, <2>1, <2>2, KeptMoves
<1>5. ASSUME NEW m \in Ids, ClaimNext(m) \/ ClaimCorrupt(m) \/ ClaimFails(m) PROVE KeptInv'
  <2>1. q[m].st = "PENDING" /\ UNCHANGED offered
    BY <1>5 DEF ClaimNext, ClaimCorrupt, ClaimFails, Eligible, InState
  <2>2. /\ errors' = 0 => errors = 0 /\ kept'[m] = {q'[m]}
        /\ \A n \in Ids : n # m => q'[n] = q[n] /\ kept'[n] = kept[n]
    BY <1>5, ClaimEffect DEF Moved
  <2> QED BY <1>1, <2>1, <2>2, KeptMoves
<1>6. CASE Report
  <2>1. wmsg \in Ids /\ q[wmsg].st = "IN_FLIGHT" /\ UNCHANGED offered
    BY <1>0, <1>6 DEF Report, WorkerInv
  <2>2. /\ errors' = 0 => errors = 0 /\ kept'[wmsg] = {q'[wmsg]}
        /\ \A n \in Ids : n # wmsg => q'[n] = q[n] /\ kept'[n] = kept[n]
    BY <1>0, <1>6, ReportEffect DEF Moved
  <2> QED BY <1>1, <2>1, <2>2, KeptMoves
<1>7. CASE Reset \/ Reinit
  BY <1>7, RecoverEffect DEF Reset, Reinit, KeptInv
<1>8. ASSUME NEW m \in Ids, ClaimMissing(m) PROVE KeptInv'
  BY <1>2, <1>8 DEF ClaimMissing, TypeOK
<1>9. CASE UNCHANGED vars \/ Stopping \/ StartCall \/ StopCall
  BY <1>2, <1>9 DEF vars, Stopping, StartReturns, StopRequest, StopNotify, StopReturn, StartCall,
                    StopCall
<1>10. CASE LoopCheck \/ ClaimNothing \/ Sleep \/ WakeUp \/ Deliver \/ WorkerEvent
  BY <1>2, <1>10 DEF LoopCheck, ClaimNothing, Sleep, WakeUp, Deliver, WorkerEvent
<1>11. ASSUME NEW p \in Publishers,
             Announce(p) \/ Wake(p) \/ \E m \in Ids : PublishCall(p, m)
      PROVE  KeptInv'
  BY <1>2, <1>11 DEF Announce, Wake, PublishCall
<1>12. ASSUME NEW m \in Ids, Ripen(m) PROVE KeptInv'
  BY <1>2, <1>12 DEF Ripen
<1> QED BY <1>3, <1>4, <1>5, <1>6, <1>7, <1>8, <1>9, <1>10, <1>11, <1>12
        DEF Next, Publishing, Worker

\* The invariant is inductive.
LEMMA SafetyNext ==
  TypeOK /\ SafetyInv /\ KeptInv /\ [Next]_vars => TypeOK' /\ SafetyInv' /\ KeptInv'
<1> SUFFICES ASSUME TypeOK, SafetyInv, KeptInv, [Next]_vars
             PROVE  TypeOK' /\ SafetyInv' /\ KeptInv'
  OBVIOUS
<1>1. TypeOK' /\ KeptInv'
  BY TypeNext, KeptNext DEF SafetyInv
<1>2. CASE Worker
  BY <1>1, <1>2, SafetyQuietSteps, SafetyClaim, SafetyCorrupt, SafetyClaimFails, SafetyDeliver,
     SafetyReport, SafetyEvent DEF Worker
<1>3. CASE Publishing
  BY <1>1, <1>3, SafetyEnqueue, SafetyDropOne, SafetyAnnounce, SafetyWake DEF Publishing
<1> QED BY <1>1, <1>2, <1>3, SafetyPublishCall, SafetyQuietSteps, SafetyReset DEF Next

\* Types and the safety invariant hold at every moment.
THEOREM PipelineInvariant == Spec => [](TypeOK /\ SafetyInv)
<1>1. Init => TypeOK /\ SafetyInv /\ KeptInv
  BY TypeInit, SafetyInit DEF Init, KeptInv
<1> QED BY <1>1, SafetyNext, PTL DEF Spec

\* A message the transport has reported as delivered is not handed to it again before
\* the device resets or is deinitialised: the index goes on saying that it is held,
\* even when the call that should have recorded the delivery has failed.
THEOREM NoResend == Spec => []NoResendAfterSuccess
<1>1. SafetyInv => NoResendAfterSuccess
  BY DEF SafetyInv, WorkerInv, ResendInv, Unacked, NoResendAfterSuccess
<1> QED BY <1>1, PipelineInvariant, PTL

\* Without failing storage calls, a message is IN_FLIGHT only in the hands of the
\* worker.
THEOREM PipelineInFlightIsHeld == Spec => []InFlightIsHeld
<1>1. SafetyInv => InFlightIsHeld
  BY DEF SafetyInv
<1> QED BY <1>1, PipelineInvariant, PTL

\* When edgesync_stop has returned there is no worker and no attempt without an
\* outcome, whoever is publishing meanwhile.
THEOREM StoppedIsQuiet == Spec => []QuietWhenStopped
<1>1. SafetyInv => QuietWhenStopped
  BY DEF SafetyInv, WorkerInv, InFlightIsHeld, QuietWhenStopped, InState
<1> QED BY <1>1, PipelineInvariant, PTL

\* Until the backend recovers, a message that is gone was reported as delivered, or
\* its drop has been or is about to be announced.
THEOREM DropsAreAnnounced == Spec => []NothingSilentlyDropped
<1>1. SafetyInv => NothingSilentlyDropped
  BY DEF SafetyInv, DropInv
<1> QED BY <1>1, PipelineInvariant, PTL

\* Without failing storage calls, events report what storage has recorded, though
\* they are fired after the mutex has been released.
THEOREM EventsReportTruth == Spec => []EventsAreTrue
<1>1. SafetyInv => EventsAreTrue
  BY DEF SafetyInv, EventInv
<1> QED BY <1>1, PipelineInvariant, PTL

-----------------------------------------------------------------------------
(* Wake-ups, when edgesync_start is called with no publish in progress.     *)

LEMMA WakeInit == Init => WakeInv
BY DEF Init, Storage!Init, Storage!NotStored, Storage!Message, WakeInv, AttemptInv, OwnerInv,
       PromiseInv

\* Messages and their retry times.
LEMMA AttemptsKept ==
  ASSUME TypeOK, TypeOK', SafetyInv, KeptInv, AttemptInv, [Next]_vars
  PROVE  AttemptInv'
<1> USE DEF storage, publishing, worker, owner, history
<1>0. CallInv /\ WorkerInv
  BY DEF SafetyInv
<1>1. CASE UNCHANGED q /\ ripe \subseteq ripe' /\ (errors' = 0 => errors = 0)
  BY <1>1 DEF AttemptInv
<1>2. ASSUME NEW p \in Publishers, Enqueue(p) PROVE AttemptInv'
  BY <1>0, <1>2, EnqueueEffect DEF AttemptInv, Moved
<1>3. ASSUME NEW p \in Publishers, DropOne(p) PROVE AttemptInv'
  BY <1>0, <1>3, DropEffect DEF AttemptInv, Moved
<1>4. ASSUME NEW m \in Ids, ClaimNext(m) PROVE AttemptInv'
  <2>1. /\ Moved(m, {"PENDING"}, "IN_FLIGHT") /\ q'[m].att > 0 /\ errors' = errors
        /\ UNCHANGED ripe
    BY <1>4, ClaimEffect DEF ClaimNext
  <2> QED BY <2>1 DEF AttemptInv, Moved
<1>5. CASE Report
  <2>1. /\ wmsg \in Ids /\ q[wmsg].st = "IN_FLIGHT" /\ ripe \ {wmsg} \subseteq ripe'
    BY <1>0, <1>5 DEF Report, WorkerInv
  <2>2. ASSUME errors' = 0
        PROVE  /\ errors = 0 /\ \A n \in Ids : n # wmsg => q'[n] = q[n]
               /\ \/ q'[wmsg].st \in {"gone", "DEAD_LETTER"}
                  \/ q'[wmsg].st = "PENDING" /\ q'[wmsg].att = q[wmsg].att
    BY <1>0, <1>5, <2>2, ReportEffect DEF Moved
  <2> QED BY <2>1, <2>2 DEF AttemptInv
<1>6. CASE Reset \/ Reinit
  <2>1. /\ ripe \subseteq ripe' /\ UNCHANGED errors
        /\ errors = 0 =>
             \A m \in Ids : /\ q'[m].att = q[m].att
                            /\ q'[m].st = IF q[m].st = "IN_FLIGHT" THEN "PENDING" ELSE q[m].st
    BY <1>6, RecoverEffect DEF Reset, Reinit, KeptInv
  <2> QED BY <2>1 DEF AttemptInv
<1>7. CASE UNCHANGED vars \/ Stopping \/ StartCall \/ StopCall
  BY <1>1, <1>7 DEF vars, Stopping, StartReturns, StopRequest, StopNotify, StopReturn, StartCall,
                    StopCall
<1>8. CASE LoopCheck \/ ClaimNothing \/ Sleep \/ WakeUp \/ Deliver \/ WorkerEvent
  BY <1>1, <1>8 DEF LoopCheck, ClaimNothing, Sleep, WakeUp, Deliver, WorkerEvent
<1>9. ASSUME NEW p \in Publishers,
             Announce(p) \/ Wake(p) \/ \E m \in Ids : PublishCall(p, m)
      PROVE  AttemptInv'
  BY <1>1, <1>9 DEF Announce, Wake, PublishCall
<1>10. ASSUME NEW m \in Ids, Ripen(m) PROVE AttemptInv'
  BY <1>1, <1>10 DEF Ripen
<1>11. ASSUME NEW m \in Ids, ClaimMissing(m) PROVE AttemptInv'
  BY <1>1, <1>11 DEF ClaimMissing, TypeOK
<1>12. ASSUME NEW m \in Ids, ClaimCorrupt(m) \/ ClaimFails(m) PROVE AttemptInv'
  BY <1>12, ClaimEffect DEF AttemptInv
<1> QED BY <1>2, <1>3, <1>4, <1>5, <1>6, <1>7, <1>8, <1>9, <1>10, <1>11, <1>12
        DEF Next, Publishing, Worker

\* Publishing leaves the lifecycle alone, and goes on only when it is not starting.
LEMMA PublishOwner ==
  ASSUME TypeOK, CallInv, OwnerInv, NEW p \in Publishers,
         (\E m \in Ids : PublishCall(p, m)) \/ Enqueue(p) \/ DropOne(p) \/ Announce(p) \/ Wake(p)
  PROVE  OwnerInv' /\ opc # "created" /\ UNCHANGED <<opc, inc, wake, wpc>>
<1>1. /\ UNCHANGED <<opc, started, inc, wake, wpc>>
      /\ Active(p) \/ started
  BY DEF PublishCall, Enqueue, DropOne, Announce, Wake, owner, worker, Active
<1>2. opc # "created"
  BY <1>1 DEF OwnerInv
<1> QED BY <1>1, <1>2 DEF OwnerInv

\* The lifecycle.
LEMMA OwnerKept ==
  ASSUME QuietStart, TypeOK, CallInv, OwnerInv, [Next]_vars
  PROVE  OwnerInv'
<1> USE DEF storage, publishing, worker, owner, history
<1>1. CASE UNCHANGED <<opc, started, inc, wake, pub>>
  BY <1>1 DEF OwnerInv, Active
<1>2. CASE StartCall
  BY <1>2 DEF StartCall, OwnerInv, TypeOK, Active
<1>3. CASE StartReturns
  BY <1>3 DEF StartReturns, OwnerInv
<1>4. CASE StopCall \/ StopRequest \/ StopNotify \/ StopReturn
  BY <1>4 DEF StopCall, StopRequest, StopNotify, StopReturn, OwnerInv
<1>5. CASE Reset \/ Reinit
  BY <1>1, <1>5 DEF Reset, Reinit, OwnerInv
<1>6. CASE Worker \/ UNCHANGED vars \/ \E m \in Ids : Ripen(m)
  BY <1>1, <1>6 DEF Worker, LoopCheck, ClaimNothing, Sleep, WakeUp, Deliver, Report, WorkerEvent,
                    ClaimNext, ClaimCorrupt, ClaimMissing, ClaimFails, Ripen, vars
<1> QED BY <1>2, <1>3, <1>4, <1>5, <1>6, PublishOwner DEF Next, Publishing, Stopping

\* Publishers keep, and keep to, their promise to wake the worker.
LEMMA PublishPromise ==
  ASSUME TypeOK, TypeOK', CallInv, OwnerInv, PromiseInv, NEW p \in Publishers,
         (\E m \in Ids : PublishCall(p, m)) \/ Enqueue(p) \/ DropOne(p) \/ Announce(p) \/ Wake(p)
  PROVE  PromiseInv'
<1> USE DEF storage, worker, owner, history
<1>1. opc # "created" /\ UNCHANGED <<opc, inc, wake, wpc>>
  BY PublishOwner
<1> SUFFICES ASSUME errors' = 0, wpc \in {"nothing", "sleep"}, ~notified', opc = "running",
                    NEW m \in Eligible', q'[m].att = 0
             PROVE  Promised(m)'
  BY <1>1 DEF PromiseInv
<1>2. wake = inc /\ inc # 0 /\ inc \in Nat /\ m \in Ids
  BY DEF OwnerInv, TypeOK, Eligible, InState
<1>3. ~notified
  BY DEF PublishCall, Enqueue, DropOne, Announce, Wake
<1>10. errors = 0
  BY EnqueueEffect, DropEffect DEF PublishCall, Announce, Wake
<1>4. ASSUME m \in Eligible, q[m].att = 0,
             \A r \in Publishers : pub[r].wake = inc =>
               pub'[r].msg = pub[r].msg /\ pub'[r].wake = pub[r].wake
      PROVE  Promised(m)'
  BY <1>1, <1>3, <1>4, <1>10 DEF PromiseInv, Promised
<1>5. ASSUME NEW n \in Ids, PublishCall(p, n) PROVE Promised(m)'
  <2>1. /\ pub[p].wake = 0 /\ UNCHANGED <<q, ripe>>
        /\ \A r \in Publishers : r # p => pub'[r] = pub[r]
    BY <1>5, IdleType DEF PublishCall, CallInv, CallOK, Active, TypeOK
  <2> QED BY <1>2, <1>4, <2>1 DEF Eligible, InState
<1>6. CASE Enqueue(p)
  <2>1. pub[p].wake = 0 /\ \A r \in Publishers : r # p => pub'[r] = pub[r]
    BY <1>6, EnqueueEffect DEF CallInv, CallOK, Entering
  <2>2. CASE m = pub[p].msg /\ pub'[p].wake = wake
    BY <1>1, <1>2, <1>6, <2>2, EnqueueEffect DEF Promised
  <2>3. CASE m # pub[p].msg \/ UNCHANGED <<q, ripe>>
    <3>1. m \in Eligible /\ q[m].att = 0
      BY <1>2, <1>6, <2>3, EnqueueEffect DEF Eligible, InState, Moved
    <3> QED BY <1>2, <1>4, <2>1, <3>1
  <2> QED BY <1>6, <2>2, <2>3, EnqueueEffect
<1>7. CASE DropOne(p)
  <2>1. /\ pub[p].wake = 0 /\ \A r \in Publishers : r # p => pub'[r] = pub[r]
    BY <1>7, DropEffect DEF CallInv, CallOK, Entering
  <2>2. m \in Eligible /\ q[m].att = 0
    BY <1>2, <1>7, DropEffect DEF Eligible, InState, Moved
  <2> QED BY <1>2, <1>4, <2>1, <2>2
<1>8. CASE Announce(p)
  <2>1. /\ UNCHANGED <<q, ripe>> /\ \A r \in Publishers : r # p => pub'[r] = pub[r]
        /\ pub[p].wake # 0 => pub'[p].msg = pub[p].msg /\ pub'[p].wake = pub[p].wake
    BY <1>8 DEF Announce, TypeOK, Calls
  <2> QED BY <1>2, <1>4, <2>1 DEF Eligible, InState
<1>9. CASE Wake(p)
  <2>1. /\ UNCHANGED <<q, ripe>> /\ \A r \in Publishers : r # p => pub'[r] = pub[r]
    BY <1>9 DEF Wake, TypeOK
  <2>2. pub[p].wake # inc
    BY <1>9 DEF Wake, WorkerLives
  <2> QED BY <1>4, <2>1, <2>2 DEF Eligible, InState
<1> QED BY <1>5, <1>6, <1>7, <1>8, <1>9

\* A worker that goes to sleep has just found nothing to claim.
LEMMA PromiseKept ==
  ASSUME TypeOK, TypeOK', CallInv, KeptInv, AttemptInv, OwnerInv, PromiseInv, [Next]_vars
  PROVE  PromiseInv'
<1> USE DEF storage, publishing, worker, owner, history
<1>1. CASE wpc' \notin {"nothing", "sleep"} \/ opc' \notin {"created", "running"}
  BY <1>1 DEF PromiseInv
<1>2. CASE \/ LoopCheck \/ WakeUp \/ Deliver \/ Report \/ WorkerEvent
           \/ \E m \in Ids : ClaimNext(m) \/ ClaimCorrupt(m) \/ ClaimFails(m)
  BY <1>1, <1>2 DEF LoopCheck, WakeUp, Deliver, Report, WorkerEvent, ClaimNext, ClaimCorrupt,
                    ClaimFails
<1>3. CASE StartCall \/ StopCall \/ StopRequest \/ StopNotify \/ StopReturn \/ Reset \/ Reinit
  BY <1>1, <1>3 DEF StartCall, StopCall, StopRequest, StopNotify, StopReturn, Reset, Reinit
<1>4. CASE ClaimNothing
  BY <1>4 DEF ClaimNothing, PromiseInv, Eligible, InState
<1>5. CASE Sleep \/ StartReturns \/ UNCHANGED vars
  BY <1>5 DEF Sleep, StartReturns, vars, PromiseInv, Eligible, InState, Promised
<1>6. ASSUME NEW m \in Ids, Ripen(m) PROVE PromiseInv'
  <2>1. errors = 0 => \A n \in Eligible' : q'[n].att = 0 => n \in Eligible
    BY <1>6 DEF Ripen, Eligible, InState, AttemptInv
  <2> QED BY <1>6, <2>1 DEF Ripen, PromiseInv, Promised
<1>7. ASSUME NEW m \in Ids, ClaimMissing(m) PROVE PromiseInv'
  <2>1. errors = 0 => ~Hollow(m)
    BY <1>7 DEF ClaimMissing, KeptInv, Hollow, Storage!Gone, Storage!Message, Eligible, InState
  <2>2. errors' # 0
    BY <1>7, <2>1 DEF ClaimMissing, TypeOK
  <2> QED BY <2>2 DEF PromiseInv
<1> QED BY <1>2, <1>3, <1>4, <1>5, <1>6, <1>7, PublishPromise
        DEF Next, Publishing, Worker, Stopping

\* A new message never waits for the idle poll when no publish is in progress as
\* EdgeSync starts, until a call to storage fails: between the look at storage and the
\* sleep of the worker, whoever stores a message wakes it.
THEOREM WakeupsNotLost ==
  ASSUME QuietStart PROVE Spec => []NoLostWakeup
<1> DEFINE Inv == TypeOK /\ SafetyInv /\ KeptInv /\ WakeInv
<1>1. Init => Inv
  BY TypeInit, SafetyInit, WakeInit DEF Init, KeptInv
<1>2. Inv /\ [Next]_vars => Inv'
  BY SafetyNext, AttemptsKept, OwnerKept, PromiseKept DEF WakeInv, SafetyInv
<1>3. Inv => NoLostWakeup
  BY DEF WakeInv, PromiseInv, Promised, NoLostWakeup
<1> QED BY <1>1, <1>2, <1>3, PTL DEF Spec
=============================================================================
