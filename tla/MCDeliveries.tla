---------------------------- MODULE MCDeliveries ----------------------------
(***************************************************************************)
(* Two processes, one event and two deliveries of two webhooks, of which   *)
(* the first has a URL that is too long for its errors.                    *)
(***************************************************************************)
EXTENDS Deliveries

CONSTANTS p1, p2, w1, w2

MCProcess == {p1, p2}

MCWebhook == {w1, w2}

MCWebhookOf == <<w1, w2>>

MCLongUrl == {w1}
=============================================================================
