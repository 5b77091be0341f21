------------------------------- MODULE MCSip -------------------------------
(***************************************************************************)
(* One call of a peer over UDP, of whose requests CANCEL has nothing to do *)
(* with the dialog, two requests over TCP, and commands of both kinds; a   *)
(* behaviour has some of them.                                             *)
(***************************************************************************)
EXTENDS SipDriver

CONSTANTS l1, l2

MCRequest == {"invite", "ack", "invite-ack", "re-invite", "bye", "cancel",
              "stateless", "tcp"}

InCall(method, cseqm, branch, cseq, needs) ==
  [method |-> method, cseqm |-> cseqm, branch |-> branch, cseq |-> cseq, needs |-> needs,
   call |-> 1, tcp |-> FALSE, keyed |-> TRUE]

Message(branch) ==
  [InCall("MESSAGE", "MESSAGE", branch, 1, "none") EXCEPT !.call = 2, !.tcp = TRUE]

\* The second ACK has the CSeq method by which it would be matched.
MCHeader ==
  [m \in MCRequest |->
     CASE m = "invite" -> InCall("INVITE", "INVITE", 1, 1, "none")
       [] m = "ack" -> InCall("ACK", "ACK", 1, 1, "failure")
       [] m = "invite-ack" -> InCall("ACK", "INVITE", 1, 1, "failure")
       [] m = "re-invite" -> InCall("INVITE", "INVITE", 2, 2, "2xx")
       [] m = "bye" -> InCall("BYE", "BYE", 3, 3, "2xx")
       [] m = "cancel" -> InCall("CANCEL", "CANCEL", 1, 1, "INVITE")
       [] m = "stateless" -> [Message(5) EXCEPT !.keyed = FALSE]
       [] OTHER -> Message(4)]

MCCommand == {"query", "play"}

MCOutbound == [c \in MCCommand |-> IF c = "play" THEN "INVITE" ELSE "MESSAGE"]

MCLoop == {l1, l2}
=============================================================================
