----------------------------- MODULE Deliveries -----------------------------
(***************************************************************************)
(* The outbox relay and the webhook worker of every process. A process     *)
(* that stops loses what both have in hand.                                *)
(***************************************************************************)
EXTENDS OutboxRelay, Webhooks

CONSTANT Mixed  \* bound: whether a behaviour may have both events and deliveries

deliveryVars == <<outboxVars, webhookVars, faults>>

DeliveriesInit == OutboxInit /\ WebhookInit /\ faults = 0

OutboxNext ==
  /\ \/ \E e \in Event : AppendEntry(e) /\ (Mixed \/ \A d \in Delivery : delivery[d] = NoRow)
     \/ \E p \in Process : RelayStep(p) \/ RecordFails(p)
  /\ UNCHANGED webhookVars

WebhookNext ==
  /\ \/ \E w \in Webhook : CreateWebhook(w) \/ DeleteWebhook(w) \/ \E c \in {"on", "off"} : UpdateWebhook(w, c)
     \/ \E d \in Delivery : \/ (Trigger(d) \/ Replay(d)) /\ (Mixed \/ \A e \in Event : ~entry[e].there)
                            \/ BackoffEnds(d)
     \/ \E p \in Process : WorkerStep(p) \/ AttemptFails(p)
  /\ UNCHANGED outboxVars

\* The process stops and another instance takes its place.
Stop(p) ==
  /\ relay[p] # Resting \/ worker[p] # Waiting
  /\ Fault
  /\ ForgetBatch(p) /\ ForgetDeliveries(p)
  /\ UNCHANGED <<entry, bus, config, delivery, due, received>>

DeliveriesNext == OutboxNext \/ WebhookNext \/ \E p \in Process : Stop(p)

\* The loops of both workers go on and time passes. Nobody has to use the API.
DeliveriesFairness ==
  /\ \A d \in Delivery : WF_deliveryVars(BackoffEnds(d) /\ UNCHANGED outboxVars)
  /\ \A p \in Process : /\ WF_deliveryVars(RelayStep(p) /\ UNCHANGED webhookVars)
                        /\ WF_deliveryVars(WorkerStep(p) /\ UNCHANGED outboxVars)

DeliveriesSpec == DeliveriesInit /\ [][DeliveriesNext]_deliveryVars /\ DeliveriesFairness

-----------------------------------------------------------------------------
\* The variables keep their types; no row counts more attempts than allowed.
DeliveriesTypeOK == OutboxTypeOK /\ WebhookTypeOK /\ faults \in 0 .. MaxFaults

Item == (Event \X {"outbox"}) \cup (Delivery \X {"webhook"})

Abstract == INSTANCE AtLeastOnce WITH
  Final <- Event \X {"outbox"},
  status <- [i \in Item |-> IF i[2] = "outbox" THEN OutboxStatus(i[1]) ELSE WebhookStatus(i[1])],
  received <- (bus \X {"outbox"}) \cup (received \X {"webhook"})

\* An event whose row is published was taken by the bus and stays published; a
\* delivery whose row says Succeeded has reached the receiver, although a worker
\* with an older copy may write something else over it (record_results,
\* attempt_delivery).
DeliversAtLeastOnce == Abstract!AbstractSpec

InAttempt(d) == {p \in Process : worker[p].pc \in {"ok", "retryable", "fatal"} /\ Current(p).id = d}

\* As long as no two workers had a delivery at once and no attempt went
\* unrecorded, the attempts that were made are those of the row and the one
\* under way: max_attempts bounds the requests the receiver gets.
AttemptsCounted ==
  \A d \in Delivery \ muddled : made[d] = delivery[d].attempts + IF InAttempt(d) = {} THEN 0 ELSE 1

\* Deliveries that may be tried forever: every request fails with an error that is
\* not recorded.
Stuck == {d \in Delivery : WebhookStatus(d) = "waiting" /\ WebhookOf[d] \in LongUrl}

Settled ==
  /\ \A e \in Event : OutboxStatus(e) # "waiting"
  /\ Cardinality(Stuck) < WebhookLimit => \A d \in Delivery : WebhookStatus(d) = "waiting" => d \in Stuck

\* Every event is published or given up and every delivery ends, and in the end
\* nothing that a worker with an old copy writes opens them again. The exceptions are
\* those of the code: deliveries to URLs that are too long for their errors, and, when
\* there are as many of them as a batch has room for, the deliveries that come after
\* them in every batch.
EverythingSettles == <>[]Settled
=============================================================================
