SPECIFICATION DeliveriesSpec
CONSTANTS
  p1 = p1
  p2 = p2
  w1 = w1
  w2 = w2
  Process <- MCProcess
  Delivery = {1, 2}
  Webhook <- MCWebhook
  WebhookOf <- MCWebhookOf
  LongUrl <- MCLongUrl
  Managed <- MCLongUrl
  WebhookLimit = 2
  Mixed = FALSE
  MaxFaults = 1
  NumEvents = 1
  BatchSize = 2
  OutboxMaxAttempts = 2
  WebhookMaxAttempts = 2
INVARIANTS
  AttemptsCounted
PROPERTIES
  DeliversAtLeastOnce
  EverythingSettles
CHECK_DEADLOCK FALSE
