----------------------------- MODULE Transports -----------------------------
(***************************************************************************)
(* The two built-in transports, as the worker uses them: a sequence of     *)
(* calls of deliver(), one at a time.                                      *)
(*                                                                         *)
(* MQTT (edgesync_mqtt.c) publishes and then waits for the event task of   *)
(* the MQTT client to put the acknowledged msg_id into a mailbox of one    *)
(* entry.  The client and the broker are external: a publish stays in the  *)
(* client's outbox until it is acknowledged or expires, acknowledgements   *)
(* come late, in any order, or never, also after the call they belong to   *)
(* has given up.  The msg_id of the a-th attempt is a, 0 for QoS 0: that   *)
(* the client's 16-bit ids differ while one is outstanding is assumed.     *)
(*                                                                         *)
(* HTTP (edgesync_http.c) opens a client, performs the request, classifies *)
(* the status and closes the client, all inside the call.                  *)
(***************************************************************************)
EXTENDS Integers, Sequences

CONSTANTS
  MaxDeliveries,   \* bound: calls of deliver()
  Statuses,        \* HTTP status codes the server may answer with
  Overrides,       \* values of classify_status: Statuses -> Results or "DEFAULT"
  NoOverride       \* the one that stands for NULL: "DEFAULT" everywhere

Results == {"SUCCESS", "RETRYABLE", "PERMANENT"}

ASSUME TransportAssumption ==
  /\ MaxDeliveries \in Nat /\ Statuses \subseteq Int
  /\ Overrides \subseteq [Statuses -> Results \cup {"DEFAULT"}]
  /\ NoOverride = [s \in Statuses |-> "DEFAULT"] /\ NoOverride \in Overrides

VARIABLES
  kind, qos, classify,     \* configuration
  pc, out,                 \* the call in progress; the outcomes so far
  mailbox,                 \* MQTT: ack_queue, 0 when empty
  outbox, acks,            \* MQTT: unacknowledged; acknowledged, event to come
  client,                  \* HTTP: an esp_http_client handle is open
  verdict,                 \* HTTP: the outcome to return
  accepted, posted         \* history: accepted attempts; acks the handler saw

config == <<kind, qos, classify>>
mqtt == <<mailbox, outbox, acks>>
http == <<client, verdict>>
vars == <<kind, qos, classify, pc, out, mailbox, outbox, acks, client, verdict,
          accepted, posted>>

-----------------------------------------------------------------------------
Outcome(res, why, status) == [result |-> res, why |-> why, status |-> status]
NoOutcome == Outcome("RETRYABLE", "none", 0)
Attempts == 1 .. MaxDeliveries
This == Len(out) + 1                       \* the attempt in progress
MsgId == IF qos = 0 THEN 0 ELSE This
Return(outcome) == pc' = "idle" /\ out' = Append(out, outcome)

\* A configured QoS that is none of 0, 1 and 2 is the default, 1.
EffectiveQos(q) == IF q < 0 \/ q > 2 THEN 1 ELSE q

Init ==
  /\ kind \in {"mqtt", "http"} /\ classify \in Overrides
  /\ \E q \in -1 .. 1 : qos = EffectiveQos(q)
  /\ kind = "mqtt" => classify = NoOverride
  /\ kind = "http" => qos = 1
  /\ pc = "idle" /\ out = << >> /\ mailbox = 0 /\ outbox = {} /\ acks = {}
  /\ client = FALSE /\ verdict = NoOutcome /\ accepted = {} /\ posted = {}

\* deliver() is called; the topic or the URL made of the destination may be too
\* long for its buffer.
Deliver ==
  /\ pc = "idle" /\ Len(out) < MaxDeliveries
  /\ \/ pc' = (IF kind = "mqtt" THEN "reset" ELSE "connect") /\ UNCHANGED out
     \/ Return(Outcome("PERMANENT", "too long", 0))
  /\ UNCHANGED <<config, mqtt, http, accepted, posted>>

-----------------------------------------------------------------------------
(* MQTT.                                                                   *)

\* xQueueReset: drop what an earlier call left.
ResetMailbox ==
  /\ pc = "reset"
  /\ mailbox' = 0 /\ pc' = "publish"
  /\ UNCHANGED <<config, out, outbox, acks, http, accepted, posted>>

\* esp_mqtt_client_publish hands the message over, or fails; one that fails may
\* have been kept for retransmission all the same.
PublishSends ==
  /\ pc = "publish"
  /\ pc' = "sent"
  /\ IF qos = 0
     THEN UNCHANGED outbox /\ accepted' \in {accepted, accepted \cup {This}}
     ELSE outbox' = outbox \cup {This} /\ UNCHANGED accepted
  /\ UNCHANGED <<config, out, mailbox, acks, http, posted>>
PublishFails ==
  /\ pc = "publish"
  /\ outbox' \in {outbox} \cup (IF qos = 0 THEN {} ELSE {outbox \cup {This}})
  /\ Return(Outcome("RETRYABLE", "refused", 0))
  /\ UNCHANGED <<config, mailbox, acks, http, accepted, posted>>

Bug_ResetsLate ==
  /\ pc = "sent"
  /\ mailbox' = 0 /\ pc' = "wait"
  /\ UNCHANGED <<config, out, outbox, acks, http, accepted, posted>>
\* It returns msg_id; the acknowledgement may be in the mailbox already.
PublishReturns ==
  /\ pc = "sent"
  /\ pc' = "wait"
  /\ UNCHANGED <<config, out, mqtt, http, accepted, posted>>

Bug_AnyAck ==
  /\ pc = "wait" /\ mailbox # 0
  /\ mailbox' = 0
  /\ Return(Outcome("SUCCESS", "ack", 0))
  /\ UNCHANGED <<config, outbox, acks, http, accepted, posted>>
\* xQueueReceive: the first acknowledgement ends the wait, whichever it is.
Receive ==
  /\ pc = "wait" /\ mailbox # 0
  /\ mailbox' = 0
  /\ IF mailbox = MsgId THEN Return(Outcome("SUCCESS", "ack", 0))
                        ELSE Return(Outcome("RETRYABLE", "other ack", 0))
  /\ UNCHANGED <<config, outbox, acks, http, accepted, posted>>

Bug_WaitsForever ==
  /\ pc = "wait" /\ mailbox = 0 /\ This \in posted
  /\ Return(Outcome("RETRYABLE", "timeout", 0))
  /\ UNCHANGED <<config, mqtt, http, accepted, posted>>
Timeout ==
  /\ pc = "wait" /\ mailbox = 0
  /\ Return(Outcome("RETRYABLE", "timeout", 0))
  /\ UNCHANGED <<config, mqtt, http, accepted, posted>>

\* mqtt_event_handler on MQTT_EVENT_PUBLISHED: xQueueOverwrite.
EventPublished(a) ==
  /\ a \in acks
  /\ mailbox' = a /\ acks' = acks \ {a} /\ posted' = posted \cup {a}
  /\ UNCHANGED <<config, pc, out, outbox, http, accepted>>

\* The broker takes a publish; its acknowledgement arrives, or is lost and the
\* client sends the publish again.
BrokerAccepts(a) ==
  /\ a \in outbox
  /\ accepted' = accepted \cup {a}
  /\ \/ outbox' = outbox \ {a} /\ acks' = acks \cup {a}
     \/ UNCHANGED <<outbox, acks>>
  /\ UNCHANGED <<config, pc, out, mailbox, http, posted>>
OutboxExpires(a) ==
  /\ a \in outbox
  /\ outbox' = outbox \ {a}
  /\ UNCHANGED <<config, pc, out, mailbox, acks, http, accepted, posted>>

-----------------------------------------------------------------------------
(* HTTP.                                                                   *)

Permanent == {400, 401, 403, 404, 422}
Retryable == {408, 429, 500, 502, 503, 504}
Bug_NoAnswerIsPermanent(status) ==
  CASE status >= 200 /\ status < 300 -> "SUCCESS"
    [] status \in Permanent -> "PERMANENT"
    [] status \in Retryable -> "RETRYABLE"
    [] OTHER -> IF status >= 500 THEN "RETRYABLE" ELSE "PERMANENT"
default_classify(status) ==
  CASE status <= 0 -> "RETRYABLE"
    [] status >= 200 /\ status < 300 -> "SUCCESS"
    [] status \in Permanent -> "PERMANENT"
    [] status \in Retryable -> "RETRYABLE"
    [] OTHER -> IF status >= 500 THEN "RETRYABLE" ELSE "PERMANENT"

\* classify_status, unless it is NULL or answers -1.
Classified(status) ==
  IF classify[status] # "DEFAULT" THEN classify[status] ELSE default_classify(status)

ClientInit ==
  /\ pc = "connect"
  /\ \/ client' = TRUE /\ pc' = "perform" /\ UNCHANGED out
     \/ Return(Outcome("RETRYABLE", "no client", 0)) /\ UNCHANGED client
  /\ UNCHANGED <<config, mqtt, verdict, accepted, posted>>

\* The server answers.
PerformAnswered ==
  /\ pc = "perform"
  /\ \E status \in Statuses :
       /\ verdict' = Outcome(Classified(status), "status", status)
       /\ accepted' = IF status \in 200 .. 299 THEN accepted \cup {This} ELSE accepted
  /\ pc' = "cleanup"
  /\ UNCHANGED <<config, out, mqtt, client, posted>>
\* Connection, DNS, TLS or time-out failure, perhaps after the server took it.
PerformFails ==
  /\ pc = "perform"
  /\ accepted' \in {accepted, accepted \cup {This}}
  /\ verdict' = Outcome("RETRYABLE", "no answer", 0)
  /\ pc' = "cleanup"
  /\ UNCHANGED <<config, out, mqtt, client, posted>>
Cleanup ==
  /\ pc = "cleanup"
  /\ client' = FALSE /\ Return(verdict) /\ verdict' = NoOutcome
  /\ UNCHANGED <<config, mqtt, accepted, posted>>

-----------------------------------------------------------------------------
Mqtt == ResetMailbox \/ PublishSends \/ PublishFails \/ PublishReturns
        \/ Receive \/ Timeout
Http == ClientInit \/ PerformAnswered \/ PerformFails \/ Cleanup
Network == \E a \in Attempts : EventPublished(a) \/ BrokerAccepts(a) \/ OutboxExpires(a)
\* The end of what is modelled.
Horizon == pc = "idle" /\ Len(out) = MaxDeliveries /\ UNCHANGED vars
Next == Deliver \/ Mqtt \/ Http \/ Network \/ Horizon

\* A call of deliver() that has begun goes on; broker and server owe nothing.
Fairness == WF_vars(Mqtt) /\ WF_vars(Http)
FairSpec == Init /\ [][Next]_vars /\ Fairness

-----------------------------------------------------------------------------
(* Properties.                                                             *)

\* SUCCESS means that the destination accepted this very attempt, "safe to mark
\* DELIVERED" (edgesync_transport.h:20): a late acknowledgement of an earlier
\* attempt is never taken for the one that is waited for.
SuccessIsAccepted ==
  classify = NoOverride =>
    \A i \in 1 .. Len(out) : out[i].result = "SUCCESS" => i \in accepted

\* An acknowledgement that comes between the publish and the end of the wait is
\* in the mailbox until the wait ends, so that the call that waits for it cannot
\* time out (mqtt.c:103-105); nothing takes its place but the late event of an
\* earlier attempt that was given up (xQueueOverwrite, mqtt.c:60), which makes
\* the call return RETRYABLE for a publish that was acknowledged.
AckNotLost ==
  pc = "wait" /\ MsgId \in posted =>
    \/ mailbox = MsgId
    \/ mailbox \in 1 .. Len(out) /\ out[mailbox].result = "RETRYABLE"

\* Answers that are neither a success nor documented as transient.
Definitive == (1 .. 499) \ ((200 .. 299) \cup {408, 429})
\* A message is given up for good only on an answer of the server that is
\* neither a success nor documented as transient, or for a destination that
\* does not fit: trouble with the network never loses it (TRANSPORTS.md:40-43,
\* 58-64).
GivenUpOnAnswer ==
  classify = NoOverride =>
    \A i \in 1 .. Len(out) : out[i].result = "PERMANENT" =>
      \/ out[i].why = "too long"
      \/ out[i].why = "status" /\ out[i].status \in Definitive

\* deliver() returns, whatever broker and server do, and has closed the HTTP
\* client it opened: transports "must not block indefinitely"
\* (edgesync_transport.h:30-31).
DeliverReturns == pc # "idle" ~> pc = "idle" /\ ~client
=============================================================================
