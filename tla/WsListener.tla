------------------------------- MODULE WsListener -------------------------------
(***************************************************************************)
(* What a WebSocketListener is promised: the handshake completes at most   *)
(* once, messages come only between that and the close, and the close      *)
(* comes once and is the last thing it hears.                              *)
(***************************************************************************)
EXTENDS Naturals

VARIABLES
    phase,  \* "idle", "open" or "closed"
    heard   \* messages received

Init == phase = "idle" /\ heard = 0

\* onOpen()
Open == phase = "idle" /\ phase' = "open" /\ UNCHANGED heard

\* onTextMessage(), onBinaryMessage()
Message == phase = "open" /\ heard' = heard + 1 /\ UNCHANGED phase

\* onClose()
Close == phase # "closed" /\ phase' = "closed" /\ UNCHANGED heard

Next == Open \/ Message \/ Close

Spec == Init /\ [][Next]_<<phase, heard>>
================================================================================
