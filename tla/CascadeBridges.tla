--------------------------- MODULE CascadeBridges ---------------------------
(***************************************************************************)
(* The media bridges of an upstream platform link (cascade/bridge.rs):     *)
(* what one request, one call of the application or one expired deadline   *)
(* does to one bridge. An upstream INVITE makes a bridge, the application  *)
(* fetches the media and answers, and the bridge ends by a BYE from either *)
(* side, by CANCEL, by the application or by a deadline.                   *)
(*                                                                         *)
(* Every operator gives the effect on a bridge in state s: the next state, *)
(* the SIP messages sent, the event for the application, and what happens  *)
(* to the dialog of the call the upstream platform has acknowledged.       *)
(***************************************************************************)

BridgeState == {"None", "Invited", "Accepted", "Active", "Closing"}

\* SIP responses and requests, named by status code or method.
Message == {"100", "200", "486", "487", "OK", "BYE"}

Effect == [to : BridgeState, send : SUBSET Message,
           tell : {"nothing", "requested", "stopped", "lost"}, dialog : {"keep", "up", "down"}]

Keep(s) == [to |-> s, send |-> {}, tell |-> "nothing", dialog |-> "keep"]

\* build_invite_response_from_bridge without a change of the bridge.
Answer(s, m) == [Keep(s) EXCEPT !.send = {m}]

\* CascadePlayStopped; the bridge leaves the map.
Stop(m) == [to |-> "None", send |-> m, tell |-> "stopped", dialog |-> "keep"]

\* build_bye_from_bridge, when it can build the request.
StopWithBye == [Stop({"BYE"}) EXCEPT !.dialog = "down"]

\* The bridge has left the map when the handler returns an error: there is no
\* message and no event.
Lose == [Stop({}) EXCEPT !.tell = "lost"]

-----------------------------------------------------------------------------
\* handle_invite of a request that passed every check, but for capacity. The
\* rejected ones (403, 400, 486) leave the bridges alone.
OnInvite(s, full) ==
  IF s = "Invited" THEN Answer(s, "100")
  ELSE IF s # "None" THEN Keep(s)
  ELSE IF full THEN Answer(s, "486")
  ELSE [to |-> "Invited", send |-> {"100"}, tell |-> "requested", dialog |-> "down"]

\* handle_ack; bye: whether the BYE of the call can be built. A closing bridge
\* without it goes back into the map, now with a dialog.
OnAck(s, bye) ==
  IF s = "Accepted" \/ (s = "Closing" /\ ~bye)
  THEN [Keep(IF s = "Accepted" THEN "Active" ELSE s) EXCEPT !.dialog = "up"]
  ELSE IF s = "Closing" THEN StopWithBye
  ELSE Keep(s)

OnBye(s) ==
  IF s = "None" THEN Keep(s) ELSE [Stop({"OK"}) EXCEPT !.dialog = "down"]

OnCancel(s) ==
  IF s = "None" THEN Keep(s)
  ELSE IF s = "Invited" THEN Stop({"OK", "487"})
  ELSE Answer(s, "OK")

\* on_media_ready.
OnMediaReady(s) == IF s = "Invited" THEN Answer("Accepted", "200") ELSE Keep(s)

\* Mutant: an active bridge ends without a BYE.
MediaStopQuietly(s, bye) ==
  IF s = "None" THEN Keep(s)
  ELSE IF s = "Accepted" THEN Keep("Closing")
  ELSE Stop(IF s = "Invited" THEN {"486"} ELSE {})

\* on_media_stop: a bridge whose ACK is awaited closes when the ACK arrives.
\* An active one is removed before its BYE is built.
OnMediaStop(s, bye) ==
  CASE s = "Accepted" -> Keep("Closing")
    [] s = "Invited" -> Stop({"486"})
    [] s = "Active" -> IF bye THEN StopWithBye ELSE Lose
    [] s = "Closing" -> Stop({})
    [] OTHER -> Keep(s)

\* Mutant: active bridges have no deadline.
ExpireUnlessActive(s, active) ==
  CASE s = "Invited" -> Stop({"487"})
    [] s \in {"Accepted", "Closing"} -> Stop({})
    [] OTHER -> Keep(s)

\* on_tick, of a bridge whose expires_at has passed and whose BYE, if it needs
\* one, can be built; active: whether active bridges have a deadline. After a
\* 200 without ACK nothing is sent: "The upstream will time out its
\* transaction on its own".
OnExpiry(s, active) ==
  CASE s = "Invited" -> Stop({"487"})
    [] s = "Accepted" -> Stop({})
    [] s = "Active" -> IF active THEN StopWithBye ELSE Keep(s)
    [] s = "Closing" -> Stop({})
    [] OTHER -> Keep(s)
=============================================================================
