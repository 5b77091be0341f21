------------------------------ MODULE Webhooks ------------------------------
(***************************************************************************)
(* The webhooks, their deliveries and the workers, one in each process     *)
(* (webhook_service.rs, webhook.rs of the domain, webhook_impl.rs of the   *)
(* storages). A worker reads a batch of deliveries in one transaction and  *)
(* goes on with its copies: it reads the configuration, sends, and writes  *)
(* the copy over the row. Nothing claims a delivery and the write asks for *)
(* no revision. How long a failed delivery waits, with the backoff and the *)
(* circuit breaker, is left open.                                          *)
(***************************************************************************)
EXTENDS DeliveryProcess, FiniteSets, Sequences, SequencesExt

CONSTANTS
  Delivery,           \* deliveries, numbered in the order of their ids
  Webhook,            \* webhooks
  WebhookOf,          \* the webhook of each delivery
  LongUrl,            \* webhooks whose URL is so long that the error of a request that
                      \* fails, which has the URL in it, is refused by the delivery
  Managed,            \* bound: webhooks that are changed or deleted once they are there
  WebhookLimit,       \* deliveries of a batch
  WebhookMaxAttempts  \* max_attempts

ASSUME WebhookAssumption ==
  /\ IsFiniteSet(Delivery) /\ Delivery \subseteq Nat
  /\ WebhookOf \in [Delivery -> Webhook] /\ LongUrl \cup Managed \subseteq Webhook
  /\ {WebhookLimit, WebhookMaxAttempts} \subseteq Nat \ {0}

VARIABLES
  config,     \* rows of webhook_configs
  delivery,   \* rows of webhook_deliveries
  due,        \* failed deliveries whose next_attempt_at has passed
  worker,     \* the copies each worker goes through and where it is
  received,   \* deliveries that have reached the receiver
  muddled,    \* history: deliveries that two workers had at once, or whose
              \* attempt went unrecorded
  made        \* history: attempts made of each delivery that is not muddled

webhookVars == <<config, delivery, due, worker, received, made, muddled>>

Config == {"none", "on", "off", "deleted"}

Status == {"none", "Pending", "Failed", "Succeeded", "DeadLetter"}

Row == [status : Status, attempts : 0 .. WebhookMaxAttempts]

NoRow == [status |-> "none", attempts |-> 0]

Outcome == {"ok", "retryable", "fatal", "unwanted"}

\* pc: "next" reads the configuration for the head of todo, "send" sends it,
\* and an outcome waits to be saved.
Worker == [todo : Seq([id : Delivery, attempts : Nat]), pc : {"next", "send"} \cup Outcome]

Waiting == [todo |-> <<>>, pc |-> "next"]

WebhookInit ==
  /\ config = [w \in Webhook |-> "none"]
  /\ delivery = [d \in Delivery |-> NoRow] /\ due = {}
  /\ worker = [p \in Process |-> Waiting]
  /\ received = {} /\ made = [d \in Delivery |-> 0] /\ muddled = {}

-----------------------------------------------------------------------------
\* The requests of the API.

\* create_webhook.
CreateWebhook(w) ==
  /\ config[w] = "none" /\ config' = [config EXCEPT ![w] = "on"]
  /\ UNCHANGED <<delivery, due, worker, received, made, muddled, faults>>

\* update_webhook reads the row, compares its revision with If-Match and saves
\* the next one. The statement asks for the revision that was read, so of two
\* updates one fails and changes nothing; but with PostgreSQL it inserts the row
\* again if that was deleted since it was read. The URL stays as it is.
UpdateWebhook(w, c) ==
  /\ w \in Managed /\ config[w] # "none" /\ config' = [config EXCEPT ![w] = c]
  /\ UNCHANGED <<delivery, due, worker, received, made, muddled, faults>>

DeleteWebhook(w) ==
  /\ w \in Managed /\ config[w] \in {"on", "off"} /\ config' = [config EXCEPT ![w] = "deleted"]
  /\ UNCHANGED <<delivery, due, worker, received, made, muddled, faults>>

Queued(d) == delivery[d] = NoRow /\ delivery' = [delivery EXCEPT ![d].status = "Pending"]

\* trigger_webhook.
Trigger(d) ==
  /\ config[WebhookOf[d]] = "on" /\ Queued(d)
  /\ UNCHANGED <<config, due, worker, received, made, muddled, faults>>

\* replay_delivery: a new delivery of the event of an earlier one, whether or not
\* the webhook is enabled.
Replay(d) ==
  /\ config[WebhookOf[d]] \in {"on", "off"} /\ Queued(d)
  /\ UNCHANGED <<config, due, worker, received, made, muddled, faults>>

-----------------------------------------------------------------------------
\* The worker.

Current(p) == Head(worker[p].todo)

Has(p, d) == \E n \in DOMAIN worker[p].todo : worker[p].todo[n].id = d

Muddles(D) ==
  /\ muddled' = muddled \cup D
  /\ made' = [d \in Delivery |-> IF d \in D THEN 0 ELSE made[d]]

Rows(status) == {d \in Delivery : delivery[d].status = status}

\* The backoff of a failed delivery ends.
BackoffEnds(d) ==
  /\ d \in Rows("Failed") \ due /\ due' = due \cup {d}
  /\ UNCHANGED <<config, delivery, worker, received, made, muddled, faults>>

\* pending: WebhookLimit deliveries at most. Those that were never tried have no
\* next_attempt_at and come first, by their ids; then those that failed and are due,
\* in any order.
DueLists ==
  LET new == Rows("Pending")
      again == Rows("Failed") \cap due
      n == Cardinality(new \cup again)
  IN  {s \in SetToAllKPermutations(new \cup again) :
         /\ s # <<>> /\ Len(s) = IF n < WebhookLimit THEN n ELSE WebhookLimit
         /\ \A i, j \in DOMAIN s : i < j /\ s[j] \in new => s[i] \in new /\ s[i] < s[j]
         /\ \A d \in new \ ToSet(s) : \A i \in DOMAIN s : s[i] \in new /\ s[i] < d}

\* process_pending.
ProcessPending(p) ==
  /\ worker[p] = Waiting
  /\ \E s \in DueLists :
       /\ worker' = [worker EXCEPT ![p].todo = [n \in DOMAIN s |-> [id |-> s[n], attempts |-> delivery[s[n]].attempts]]]
       /\ Muddles({d \in ToSet(s) : \E q \in Process : Has(q, d)})
  /\ UNCHANGED <<config, delivery, due, received, faults>>

\* attempt_delivery reads the configuration.
LoadConfig(p) ==
  /\ worker[p].pc = "next" /\ worker[p].todo # <<>>
  /\ worker' = [worker EXCEPT ![p].pc = IF config[WebhookOf[Current(p).id]] = "on" THEN "send" ELSE "unwanted"]
  /\ UNCHANGED <<config, delivery, due, received, made, muddled, faults>>

\* start_attempt, sign_delivery and send. A request that fails may have reached
\* the receiver.
SendRequest(p) ==
  /\ worker[p].pc = "send"
  /\ \E o \in {"ok", "retryable", "fatal"}, took \in BOOLEAN :
       /\ o = "ok" => took
       /\ worker' = [worker EXCEPT ![p].pc = o]
       /\ received' = IF took THEN received \cup {Current(p).id} ELSE received
  /\ made' = IF Current(p).id \in muddled THEN made ELSE [made EXCEPT ![Current(p).id] = @ + 1]
  /\ UNCHANGED <<config, delivery, due, muddled, faults>>

\* Mutant: only failures are counted.
AfterCountsFailures(copy, o) ==
  LET n == IF o \in {"ok", "unwanted"} THEN copy.attempts ELSE copy.attempts + 1
  IN  [attempts |-> n,
       status |-> IF o = "ok" THEN "Succeeded"
                  ELSE IF o = "retryable" /\ n < WebhookMaxAttempts THEN "Failed" ELSE "DeadLetter"]

\* succeed, fail_delivery, handle_send_failure and dead_letter.
After(copy, o) ==
  LET n == IF o = "unwanted" THEN copy.attempts ELSE copy.attempts + 1
  IN  [attempts |-> n,
       status |-> IF o = "ok" THEN "Succeeded"
                  ELSE IF o = "retryable" /\ n < WebhookMaxAttempts THEN "Failed" ELSE "DeadLetter"]

Proceeds(p) == worker' = [worker EXCEPT ![p] = [todo |-> Tail(@.todo), pc |-> "next"]]

\* save_delivery: the copy replaces the row.
SaveDelivery(p) ==
  /\ worker[p].pc \in Outcome
  /\ delivery' = [delivery EXCEPT ![Current(p).id] = After(Current(p), worker[p].pc)]
  /\ due' = due \ {Current(p).id}
  /\ Proceeds(p)
  /\ UNCHANGED <<config, received, made, muddled, faults>>

\* A request that fails with an error that is longer than a delivery may record: fail
\* and dead_letter return an error before anything is saved, so that the row stays as
\* it is, and due; the worker goes on. With the same URL this happens again.
SendRefused(p) ==
  /\ worker[p].pc = "send" /\ WebhookOf[Current(p).id] \in LongUrl
  /\ \E took \in BOOLEAN : received' = IF took THEN received \cup {Current(p).id} ELSE received
  /\ Proceeds(p)
  /\ Muddles({Current(p).id})
  /\ UNCHANGED <<config, delivery, due, faults>>

\* The configuration cannot be read or the save fails: likewise.
AttemptFails(p) ==
  /\ worker[p].todo # <<>> /\ worker[p].pc # "send"
  /\ Fault /\ Proceeds(p)
  /\ Muddles({Current(p).id})
  /\ UNCHANGED <<config, delivery, due, received>>

\* The process stops.
ForgetDeliveries(p) ==
  /\ worker' = [worker EXCEPT ![p] = Waiting]
  /\ Muddles({d \in Delivery : Has(p, d)})

WorkerStep(p) == ProcessPending(p) \/ LoadConfig(p) \/ SendRequest(p) \/ SendRefused(p) \/ SaveDelivery(p)

WebhookTypeOK ==
  /\ config \in [Webhook -> Config]
  /\ delivery \in [Delivery -> Row]
  /\ worker \in [Process -> Worker]
  /\ \A p \in Process : worker[p].pc # "next" => worker[p].todo # <<>>
  /\ received \cup muddled \cup due \subseteq Delivery

\* What the row says of a delivery.
WebhookStatus(d) ==
  CASE delivery[d].status = "none" -> "none"
    [] delivery[d].status \in {"Pending", "Failed"} -> "waiting"
    [] delivery[d].status = "Succeeded" -> "delivered"
    [] delivery[d].status = "DeadLetter" -> "dropped"
=============================================================================
