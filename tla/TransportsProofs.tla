-------------------------- MODULE TransportsProofs --------------------------
(* What deliver() reports is true: a success was accepted by the           *)
(* destination, an acknowledgement is not lost while it is waited for but  *)
(* to the late event of an earlier attempt, and a message is given up only *)
(* on an answer of the server.  For any number of deliveries and any       *)
(* status codes.                                                           *)
EXTENDS Transports, TLAPS

PosNat == Nat \ {0}
Reasons == {"none", "too long", "refused", "ack", "other ack", "timeout", "no client",
            "status", "no answer"}
Outcomes == [result : Results, why : Reasons, status : Int]
\* The types of the state.
TypeInv ==
  /\ kind \in {"mqtt", "http"} /\ qos \in {0, 1} /\ classify \in Overrides
  /\ pc \in {"idle", "reset", "publish", "sent", "wait", "connect", "perform", "cleanup"}
  /\ out \in Seq(Outcomes) /\ verdict \in Outcomes
  /\ mailbox \in Nat /\ outbox \subseteq PosNat /\ acks \subseteq PosNat
  /\ client \in BOOLEAN
  /\ accepted \subseteq PosNat /\ posted \subseteq PosNat

\* What is known of an attempt to the client, to its event task and to the
\* mailbox: nothing of the one in progress before it is handed over.  Its event is
\* posted once at most, and what is still to be posted, or to be received, of an
\* attempt that has ended belongs to one that was given up for the time being.
Known == outbox \cup acks \cup posted
Late == outbox \cup acks \cup {mailbox}
AttemptInv ==
  /\ \A a \in Known : a < This \/ (a = This /\ pc \in {"sent", "wait"})
  /\ acks \subseteq accepted /\ posted \subseteq accepted
  /\ mailbox # 0 => mailbox \in posted
  /\ outbox \cap acks = {} /\ (outbox \cup acks) \cap posted = {}
  /\ \A a \in Late : a \in 1 .. Len(out) => out[a].result = "RETRYABLE"
  /\ pc \in {"sent", "wait"} /\ This \in posted => mailbox # 0

\* What an outcome says of attempt i when nobody overrides the classification.
Sound(o, i) ==
  /\ o.result = "SUCCESS" => i \in accepted
  /\ o.result = "PERMANENT" =>
       \/ o.why = "too long"
       \/ o.why = "status" /\ o.status \in Definitive
OutcomeInv ==
  classify = NoOverride =>
    /\ \A i \in 1 .. Len(out) : Sound(out[i], i)
    /\ pc = "cleanup" => Sound(verdict, This)

TransportInv == TypeInv /\ AttemptInv /\ OutcomeInv

-----------------------------------------------------------------------------
\* The built-in classification answers with a result, takes 2xx and nothing else
\* for a success, and gives up only on an answer that is not transient.
LEMMA ClassifiedSound ==
  ASSUME NEW status \in Int
  PROVE  /\ default_classify(status) \in Results
         /\ default_classify(status) = "SUCCESS" => status \in 200 .. 299
         /\ default_classify(status) = "PERMANENT" =>
              status \in Definitive
BY DEF default_classify, Permanent, Retryable, Results, Definitive

\* An overridden classification is a result too.
LEMMA ClassifiedType ==
  ASSUME TypeInv, NEW status \in Statuses
  PROVE  /\ Classified(status) \in Results
         /\ classify = NoOverride => Classified(status) = default_classify(status)
<1>1. status \in Int /\ classify \in [Statuses -> Results \cup {"DEFAULT"}]
  BY TransportAssumption DEF TypeInv
<1>2. classify[status] \in Results \cup {"DEFAULT"}
  BY <1>1
<1>3. classify = NoOverride => classify[status] = "DEFAULT"
  BY TransportAssumption
<1> QED BY <1>1, <1>2, <1>3, ClassifiedSound DEF Classified

\* A return appends one outcome, and the next attempt has the next number.
LEMMA ReturnAppends ==
  ASSUME TypeInv, NEW o \in Outcomes, Return(o)
  PROVE  /\ out' \in Seq(Outcomes) /\ pc' = "idle"
         /\ Len(out) \in Nat /\ Len(out') = Len(out) + 1 /\ This' = This + 1
         /\ This \in PosNat
         /\ \A i \in 1 .. Len(out) : out'[i] = out[i]
         /\ out'[This] = o
BY DEF TypeInv, Return, This, PosNat

\* Attempts are kept in order across a return that leaves the client alone: an
\* attempt that may still be heard of is one that ends RETRYABLE.
LEMMA ReturnOrders ==
  ASSUME TypeInv, AttemptInv, NEW o \in Outcomes, Return(o),
         UNCHANGED <<acks, accepted, posted>>,
         outbox' = outbox \/ (outbox' = outbox \cup {This} /\ This \notin acks \cup posted),
         mailbox' \in {mailbox, 0},
         o.result = "RETRYABLE" \/ This \notin Late'
  PROVE  AttemptInv'
<1>1. /\ pc' = "idle" /\ Len(out) \in Nat /\ Len(out') = Len(out) + 1
      /\ This' = This + 1 /\ This \in PosNat /\ This = Len(out) + 1
      /\ \A i \in 1 .. Len(out) : out'[i] = out[i]
      /\ out'[This] = o
  BY ReturnAppends DEF This
<1>2. \A a \in Known' : a \in Nat /\ a < This'
  <2>1. Known' \subseteq Known \cup {This} /\ Known \subseteq PosNat
    BY DEF TypeInv, Known
  <2>2. \A a \in Known : a <= This
    BY <1>1, <2>1 DEF AttemptInv, PosNat
  <2> QED BY <1>1, <2>1, <2>2 DEF PosNat
<1>3. mailbox' # 0 => mailbox' \in posted'
  BY DEF AttemptInv
<1>4. outbox' \cap acks' = {} /\ (outbox' \cup acks') \cap posted' = {}
  BY DEF AttemptInv
<1>5. ASSUME NEW a \in Late', a \in 1 .. Len(out') PROVE out'[a].result = "RETRYABLE"
  <2>1. CASE a = This
    BY <1>1, <1>5, <2>1
  <2>2. CASE a # This
    <3>1. a \in 1 .. Len(out) /\ a \in Late
      BY <1>1, <1>5, <2>2 DEF Late
    <3> QED BY <1>1, <3>1 DEF AttemptInv
  <2> QED BY <2>1, <2>2
<1> QED BY <1>1, <1>2, <1>3, <1>4, <1>5 DEF AttemptInv

LEMMA ReturnKeeps ==
  ASSUME TransportInv, NEW o \in Outcomes, Return(o), Sound(o, This),
         UNCHANGED <<classify, acks, accepted, posted>>,
         outbox' = outbox \/ (outbox' = outbox \cup {This} /\ This \notin acks \cup posted),
         mailbox' \in {mailbox, 0},
         o.result = "RETRYABLE" \/ This \notin Late'
  PROVE  AttemptInv' /\ OutcomeInv'
<1>1. /\ pc' = "idle" /\ Len(out) \in Nat /\ Len(out') = Len(out) + 1
      /\ This \in PosNat /\ This = Len(out) + 1
      /\ \A i \in 1 .. Len(out) : out'[i] = out[i]
      /\ out'[This] = o
  BY ReturnAppends DEF TransportInv, This
<1>2. AttemptInv'
  BY ReturnOrders DEF TransportInv
<1>3. ASSUME classify = NoOverride, NEW i \in 1 .. Len(out')
      PROVE  Sound(out'[i], i)
  <2>1. CASE i = This BY <1>1, <2>1
  <2>2. CASE i \in 1 .. Len(out)
    BY <1>1, <1>3, <2>2 DEF TransportInv, OutcomeInv
  <2> QED BY <1>1, <2>1, <2>2
<1>4. OutcomeInv'
  BY <1>1, <1>3 DEF OutcomeInv, Sound
<1> QED BY <1>2, <1>4

LEMMA TransportInit == Init => TransportInv
<1> SUFFICES ASSUME Init PROVE TransportInv
  OBVIOUS
<1>1. qos \in {0, 1}
  BY DEF Init, EffectiveQos
<1>2. TypeInv
  <2>1. NoOutcome \in Outcomes
    BY DEF NoOutcome, Outcome, Outcomes, Results, Reasons
  <2>2. out \in Seq(Outcomes)
    BY DEF Init
  <2> QED BY <1>1, <2>1, <2>2 DEF Init, TypeInv
<1>3. AttemptInv /\ OutcomeInv
  BY DEF Init, AttemptInv, OutcomeInv, Known, Late
<1> QED BY <1>2, <1>3 DEF TransportInv

\* The outcomes the code names are outcomes, and sound by themselves but for the
\* acknowledgement.
LEMMA OutcomeTypes ==
  ASSUME NEW i
  PROVE  /\ \A why \in Reasons : \A res \in Results : Outcome(res, why, 0) \in Outcomes
         /\ Sound(Outcome("PERMANENT", "too long", 0), i)
         /\ \A why \in Reasons : Sound(Outcome("RETRYABLE", why, 0), i)
         /\ i \in accepted => Sound(Outcome("SUCCESS", "ack", 0), i)
BY DEF Outcome, Outcomes, Sound, Results, Reasons

-----------------------------------------------------------------------------
(* Action by action.                                                       *)

LEMMA DeliverStep == TransportInv /\ Deliver => TransportInv'
<1> SUFFICES ASSUME TransportInv, Deliver PROVE TransportInv'
  OBVIOUS
<1> USE DEF config, mqtt, http
<1>1. CASE pc' = (IF kind = "mqtt" THEN "reset" ELSE "connect") /\ UNCHANGED out
  <2>1. TypeInv'
    BY <1>1 DEF Deliver, TransportInv, TypeInv
  <2>2. This' = This /\ Known' = Known /\ Late' = Late
    BY <1>1 DEF Deliver, This, Known, Late
  <2>3. pc = "idle" /\ pc' \in {"reset", "connect"}
    BY <1>1 DEF Deliver
  <2>4. AttemptInv'
    BY <1>1, <2>2, <2>3 DEF Deliver, TransportInv, AttemptInv
  <2>5. OutcomeInv'
    BY <1>1, <2>3 DEF Deliver, TransportInv, OutcomeInv, Sound
  <2> QED BY <2>1, <2>4, <2>5 DEF TransportInv
<1>2. CASE Return(Outcome("PERMANENT", "too long", 0))
  <2> DEFINE o == Outcome("PERMANENT", "too long", 0)
  <2>1. o \in Outcomes /\ Sound(o, This)
    BY OutcomeTypes DEF Results, Reasons
  <2>2. TypeInv'
    BY <1>2, <2>1, ReturnAppends DEF Deliver, TransportInv, TypeInv
  <2>3. This \notin Late'
    <3>1. Late' = Late /\ pc = "idle"
      BY DEF Deliver, Late
    <3>2. This \in PosNat
      BY DEF TransportInv, TypeInv, This, PosNat
    <3>3. This \notin Known
      BY <3>1, <3>2 DEF TransportInv, AttemptInv, PosNat
    <3> QED BY <3>1, <3>2, <3>3 DEF TransportInv, AttemptInv, Known, Late, PosNat
  <2>4. AttemptInv' /\ OutcomeInv'
    BY <1>2, <2>1, <2>3, ReturnKeeps DEF Deliver
  <2> QED BY <2>2, <2>4 DEF TransportInv
<1> QED BY <1>1, <1>2 DEF Deliver

\* The mailbox is emptied before the publish, when no acknowledgement of this
\* attempt can be in it.
LEMMA ResetStep == TransportInv /\ ResetMailbox => TransportInv'
<1> SUFFICES ASSUME TransportInv, ResetMailbox PROVE TransportInv'
  OBVIOUS
<1> USE DEF config, mqtt, http
<1>1. This' = This /\ Known' = Known
  BY DEF ResetMailbox, This, Known
<1>2. TypeInv'
  BY DEF ResetMailbox, TransportInv, TypeInv
<1>3. AttemptInv'
  BY <1>1 DEF ResetMailbox, TransportInv, AttemptInv, Late
<1>4. OutcomeInv'
  BY DEF ResetMailbox, TransportInv, OutcomeInv, Sound
<1> QED BY <1>2, <1>3, <1>4 DEF TransportInv

LEMMA PublishStep ==
  TransportInv /\ (PublishSends \/ PublishFails \/ PublishReturns) => TransportInv'
<1> SUFFICES ASSUME TransportInv, PublishSends \/ PublishFails \/ PublishReturns
             PROVE  TransportInv'
  OBVIOUS
<1> USE DEF config, mqtt, http
<1>0. This \in PosNat /\ Len(out) \in Nat
  BY DEF TransportInv, TypeInv, This, PosNat
<1>1. CASE PublishSends
  <2>1. /\ pc = "publish" /\ pc' = "sent" /\ This' = This
        /\ UNCHANGED <<kind, qos, classify, out, mailbox, acks, client, verdict, posted>>
        /\ outbox' \subseteq outbox \cup {This}
        /\ accepted \subseteq accepted' /\ accepted' \subseteq accepted \cup {This}
    BY <1>1 DEF PublishSends, This
  <2>2. TypeInv'
    BY <1>0, <2>1 DEF TransportInv, TypeInv
  <2>3. \A a \in Known' : a \in Known \/ a = This
    BY <2>1 DEF Known
  <2>4. This \notin posted \cup acks /\ This \notin 1 .. Len(out)
    BY <1>0, <2>1 DEF TransportInv, AttemptInv, Known, PosNat, This
  <2>5. AttemptInv'
    BY <2>1, <2>3, <2>4 DEF TransportInv, AttemptInv, Late
  <2>6. OutcomeInv'
    BY <2>1 DEF TransportInv, OutcomeInv, Sound
  <2> QED BY <2>2, <2>5, <2>6 DEF TransportInv
<1>2. CASE PublishFails
  <2> DEFINE o == Outcome("RETRYABLE", "refused", 0)
  <2>1. o \in Outcomes /\ Sound(o, This) /\ o.result = "RETRYABLE"
    BY OutcomeTypes DEF Results, Reasons, Outcome
  <2>2. Return(o) /\ (outbox' = outbox \/ outbox' = outbox \cup {This})
        /\ This \notin acks \cup posted
    BY <1>0, <1>2 DEF PublishFails, TransportInv, AttemptInv, Known, PosNat
  <2>3. TypeInv'
    BY <1>0, <1>2, <2>1, <2>2, ReturnAppends DEF PublishFails, TransportInv, TypeInv
  <2>4. AttemptInv' /\ OutcomeInv'
    BY <1>2, <2>1, <2>2, ReturnKeeps DEF PublishFails
  <2> QED BY <2>3, <2>4 DEF TransportInv
<1>3. CASE PublishReturns
  <2>1. This' = This /\ Known' = Known /\ Late' = Late
    BY <1>3 DEF PublishReturns, This, Known, Late
  <2>2. TypeInv'
    BY <1>3 DEF PublishReturns, TransportInv, TypeInv
  <2>3. AttemptInv'
    BY <1>3, <2>1 DEF PublishReturns, TransportInv, AttemptInv
  <2>4. OutcomeInv'
    BY <1>3 DEF PublishReturns, TransportInv, OutcomeInv, Sound
  <2> QED BY <2>2, <2>3, <2>4 DEF TransportInv
<1> QED BY <1>1, <1>2, <1>3

\* The wait ends with the acknowledgement of this attempt, with another one, or
\* with none.
LEMMA WaitStep == TransportInv /\ (Receive \/ Timeout) => TransportInv'
<1> SUFFICES ASSUME TransportInv, Receive \/ Timeout PROVE TransportInv'
  OBVIOUS
<1> USE DEF config, mqtt, http
<1>1. UNCHANGED <<kind, qos, classify, outbox, acks, client, verdict, accepted, posted>>
      /\ mailbox' \in {mailbox, 0}
  BY DEF Receive, Timeout
<1>2. \E o \in Outcomes :
        Return(o) /\ Sound(o, This) /\ (o.result = "RETRYABLE" \/ This \notin Late')
  <2>1. CASE Receive /\ mailbox = MsgId
    <3>1. mailbox # 0 /\ mailbox = This /\ mailbox' = 0 /\ UNCHANGED <<outbox, acks>>
      BY <2>1 DEF Receive, MsgId
    <3>2. This \in accepted /\ This \notin outbox \cup acks
      BY <3>1 DEF TransportInv, AttemptInv
    <3>3. This \notin Late'
      BY <3>1, <3>2 DEF Late
    <3> QED BY <2>1, <3>2, <3>3, OutcomeTypes DEF Receive, Results, Reasons
  <2>2. CASE Receive /\ mailbox # MsgId
    BY <2>2, OutcomeTypes DEF Receive, Results, Reasons, Outcome
  <2>3. CASE Timeout
    BY <2>3, OutcomeTypes DEF Timeout, Results, Reasons, Outcome
  <2> QED BY <2>1, <2>2, <2>3
<1>3. PICK o \in Outcomes :
        Return(o) /\ Sound(o, This) /\ (o.result = "RETRYABLE" \/ This \notin Late')
  BY <1>2
<1>4. TypeInv'
  BY <1>1, <1>3, ReturnAppends DEF TransportInv, TypeInv
<1>5. AttemptInv' /\ OutcomeInv'
  BY <1>1, <1>3, ReturnKeeps
<1> QED BY <1>4, <1>5 DEF TransportInv

\* The event task and the network, at any moment of a call or between calls.
LEMMA NetworkStep == TransportInv /\ Network => TransportInv'
<1> SUFFICES ASSUME TransportInv, NEW a \in Attempts,
                    EventPublished(a) \/ BrokerAccepts(a) \/ OutboxExpires(a)
             PROVE  TransportInv'
  BY DEF Network
<1> USE DEF config, mqtt, http
<1>1. a \in PosNat
  BY TransportAssumption DEF Attempts, PosNat
<1>2. /\ UNCHANGED <<kind, qos, classify, pc, out, client, verdict>> /\ This' = This
      /\ Known' \subseteq Known
      /\ accepted \subseteq accepted' /\ accepted' \subseteq accepted \cup {a}
  BY DEF EventPublished, BrokerAccepts, OutboxExpires, This, Known
<1>3. TypeInv'
  BY <1>1, <1>2 DEF EventPublished, BrokerAccepts, OutboxExpires, TransportInv, TypeInv, PosNat
<1>4. AttemptInv'
  <2>1. CASE EventPublished(a)
    BY <1>1, <1>2, <2>1 DEF EventPublished, TransportInv, AttemptInv, Late, PosNat
  <2>2. CASE BrokerAccepts(a) \/ OutboxExpires(a)
    BY <1>2, <2>2 DEF BrokerAccepts, OutboxExpires, TransportInv, AttemptInv, Late
  <2> QED BY <2>1, <2>2
<1>5. OutcomeInv'
  BY <1>2 DEF TransportInv, OutcomeInv, Sound
<1> QED BY <1>3, <1>4, <1>5 DEF TransportInv

LEMMA HttpStep == TransportInv /\ Http => TransportInv'
<1> SUFFICES ASSUME TransportInv, Http PROVE TransportInv'
  OBVIOUS
<1> USE DEF config, mqtt, http
<1>0. This \in PosNat /\ Len(out) \in Nat
  BY DEF TransportInv, TypeInv, This, PosNat
<1>1. CASE ClientInit
  <2>1. CASE client' = TRUE /\ pc' = "perform" /\ UNCHANGED out
    <3>1. This' = This /\ Known' = Known /\ Late' = Late
      BY <1>1, <2>1 DEF ClientInit, This, Known, Late
    <3>2. TypeInv'
      BY <1>1, <2>1 DEF ClientInit, TransportInv, TypeInv
    <3>3. AttemptInv'
      BY <1>1, <2>1, <3>1 DEF ClientInit, TransportInv, AttemptInv
    <3>4. OutcomeInv'
      BY <1>1, <2>1 DEF ClientInit, TransportInv, OutcomeInv, Sound
    <3> QED BY <3>2, <3>3, <3>4 DEF TransportInv
  <2>2. CASE Return(Outcome("RETRYABLE", "no client", 0)) /\ UNCHANGED client
    <3> DEFINE o == Outcome("RETRYABLE", "no client", 0)
    <3>1. o \in Outcomes /\ Sound(o, This) /\ o.result = "RETRYABLE"
      BY OutcomeTypes DEF Results, Reasons, Outcome
    <3>2. TypeInv'
      BY <1>1, <2>2, <3>1, ReturnAppends DEF ClientInit, TransportInv, TypeInv
    <3>3. AttemptInv' /\ OutcomeInv'
      BY <1>1, <2>2, <3>1, ReturnKeeps DEF ClientInit
    <3> QED BY <3>2, <3>3 DEF TransportInv
  <2> QED BY <1>1, <2>1, <2>2 DEF ClientInit
<1>2. CASE PerformAnswered \/ PerformFails
  <2>1. /\ UNCHANGED <<kind, qos, classify, out, mailbox, outbox, acks, client, posted>>
        /\ pc = "perform" /\ pc' = "cleanup" /\ This' = This /\ Known' = Known
        /\ Late' = Late
        /\ accepted \subseteq accepted' /\ accepted' \subseteq accepted \cup {This}
    BY <1>2 DEF PerformAnswered, PerformFails, This, Known, Late
  <2>2. verdict' \in Outcomes /\ (classify = NoOverride => Sound(verdict, This)')
    <3>1. CASE PerformAnswered
      <4>1. PICK status \in Statuses :
              /\ verdict' = Outcome(Classified(status), "status", status)
              /\ accepted' = IF status \in 200 .. 299 THEN accepted \cup {This} ELSE accepted
        BY <3>1 DEF PerformAnswered
      <4>2. status \in Int /\ Classified(status) \in Results
        BY TransportAssumption, ClassifiedType DEF TransportInv
      <4>3. /\ verdict'.result = Classified(status) /\ verdict'.why = "status"
            /\ verdict'.status = status
        BY <4>1 DEF Outcome
      <4>4. verdict' \in Outcomes
        BY <4>1, <4>2 DEF Outcome, Outcomes, Reasons
      <4>5. ASSUME classify = NoOverride PROVE Sound(verdict, This)'
        <5>1. verdict'.result = default_classify(status)
          BY <4>3, <4>5, ClassifiedType DEF TransportInv
        <5>2. status \in 200 .. 299 => This' \in accepted'
          BY <2>1, <4>1
        <5> QED BY <4>2, <4>3, <5>1, <5>2, ClassifiedSound DEF Sound
      <4> QED BY <4>4, <4>5
    <3>2. CASE PerformFails
      BY <3>2, OutcomeTypes DEF PerformFails, Sound, Outcome, Results, Reasons
    <3> QED BY <1>2, <3>1, <3>2
  <2>3. TypeInv'
    BY <1>0, <2>1, <2>2 DEF TransportInv, TypeInv
  <2>4. AttemptInv'
    BY <2>1 DEF TransportInv, AttemptInv
  <2>5. OutcomeInv'
    BY <2>1, <2>2 DEF TransportInv, OutcomeInv, Sound
  <2> QED BY <2>3, <2>4, <2>5 DEF TransportInv
<1>3. CASE Cleanup
  <2>1. Return(verdict) /\ verdict \in Outcomes /\ NoOutcome \in Outcomes
    BY <1>3, OutcomeTypes DEF Cleanup, TransportInv, TypeInv, NoOutcome, Results, Reasons
  <2>2. TypeInv'
    BY <1>3, <2>1, ReturnAppends DEF Cleanup, TransportInv, TypeInv
  <2>3. This \notin Late' /\ UNCHANGED <<classify, mailbox, outbox, acks, accepted, posted>>
    BY <1>0, <1>3 DEF Cleanup, TransportInv, TypeInv, AttemptInv, Known, Late, PosNat
  <2>4. CASE classify = NoOverride
    <3>1. Sound(verdict, This)
      BY <1>3, <2>4 DEF Cleanup, TransportInv, OutcomeInv
    <3>2. AttemptInv' /\ OutcomeInv'
      BY <2>1, <2>3, <3>1, ReturnKeeps
    <3> QED BY <2>2, <3>2 DEF TransportInv
  <2>5. CASE classify # NoOverride
    <3>1. OutcomeInv'
      BY <2>3, <2>5 DEF OutcomeInv
    <3>2. AttemptInv'
      BY <2>1, <2>3, ReturnOrders DEF TransportInv
    <3> QED BY <2>2, <3>1, <3>2 DEF TransportInv
  <2> QED BY <2>4, <2>5
<1> QED BY <1>1, <1>2, <1>3 DEF Http

\* The invariant is inductive.
LEMMA TransportNext == TransportInv /\ [Next]_vars => TransportInv'
<1> SUFFICES ASSUME TransportInv, [Next]_vars PROVE TransportInv'
  OBVIOUS
<1>1. CASE UNCHANGED vars \/ Horizon
  <2>1. UNCHANGED vars
    BY <1>1 DEF Horizon
  <2>2. This' = This /\ Known' = Known /\ Late' = Late
    BY <2>1 DEF vars, This, Known, Late
  <2>3. TypeInv' /\ AttemptInv'
    BY <2>1, <2>2 DEF vars, TransportInv, TypeInv, AttemptInv
  <2>4. OutcomeInv'
    BY <2>1, <2>2 DEF vars, TransportInv, OutcomeInv, Sound
  <2> QED BY <2>3, <2>4 DEF TransportInv
<1>2. CASE Mqtt
  BY <1>2, ResetStep, PublishStep, WaitStep DEF Mqtt
<1> QED BY <1>1, <1>2, DeliverStep, HttpStep, NetworkStep DEF Next

\* The state of the client, of the mailbox and of the outcomes is related as
\* above at every moment.
THEOREM TransportInvariant == FairSpec => []TransportInv
BY TransportInit, TransportNext, PTL DEF FairSpec

\* deliver() never returns SUCCESS for an attempt the destination did not accept:
\* the emptied mailbox and the comparison of msg_id keep out late
\* acknowledgements, however many attempts came before.
THEOREM SuccessTrue == FairSpec => []SuccessIsAccepted
<1>1. TransportInv => SuccessIsAccepted
  BY DEF TransportInv, OutcomeInv, Sound, SuccessIsAccepted
<1> QED BY <1>1, TransportInvariant, PTL

\* An acknowledgement posted before the end of the wait is in the mailbox, or
\* the late event of an attempt that was given up has taken its place: xQueueReset
\* before the publish cannot drop it, and QoS 0, whose msg_id is 0, has none.
THEOREM AckKept == FairSpec => []AckNotLost
<1>1. TransportInv => AckNotLost
  <2> SUFFICES ASSUME TransportInv, pc = "wait", MsgId \in posted
               PROVE  mailbox = MsgId \/ (/\ mailbox \in 1 .. Len(out)
                                         /\ out[mailbox].result = "RETRYABLE")
    BY DEF AckNotLost
  <2>1. MsgId = This /\ Len(out) \in Nat
    BY DEF TransportInv, TypeInv, MsgId, PosNat
  <2>2. mailbox \in Known /\ mailbox \in PosNat /\ mailbox \in Late
    BY <2>1 DEF TransportInv, TypeInv, AttemptInv, Known, Late
  <2>3. mailbox = This \/ mailbox \in 1 .. Len(out)
    BY <2>1, <2>2 DEF TransportInv, AttemptInv, This, PosNat
  <2> QED BY <2>1, <2>2, <2>3 DEF TransportInv, AttemptInv
<1> QED BY <1>1, TransportInvariant, PTL

\* PERMANENT is returned for a destination that does not fit, or on an answer of
\* the server that is neither a success nor transient, whatever the status codes.
THEOREM GivenUpRightly == FairSpec => []GivenUpOnAnswer
<1>1. TransportInv => GivenUpOnAnswer
  BY DEF TransportInv, OutcomeInv, Sound, GivenUpOnAnswer
<1> QED BY <1>1, TransportInvariant, PTL
=============================================================================
