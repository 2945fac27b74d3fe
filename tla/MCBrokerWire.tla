---------------------------- MODULE MCBrokerWire ----------------------------
(***************************************************************************)
(* One client sends a GET, the other an AUTHORIZE or a request of another  *)
(* lane, a malformed or an oversized one.  Each lane has one worker and    *)
(* one place in its queue, so a lane is full while its worker has yet to   *)
(* take the first.  A payload is empty, as long as a frame may be, or too  *)
(* long.                                                                   *)
(***************************************************************************)
EXTENDS BrokerWire, TLC

F(op, fields, bytes) == [op |-> op, fields |-> fields, bytes |-> bytes]
Get == F("GET", <<<<"key", "text">>>>, 1)
Lock == F("LOCK", <<>>, 1)
Authorize == F("AUTHORIZE", <<<<"cap", "text">>>>, 1)
Hello == F("HELLO", <<<<"version", "number">>>>, 1)
Redeem == F("REDEEM", <<<<"receipt", "text">>, <<"cap", "text">>>>, 1)
Deny(id) == F("DENY", <<<<"id", id>>>>, 1)
Others == {Authorize, Lock, Hello, Redeem, Deny("number"), Deny("text"),
           F("SUBSCRIBE", <<>>, 1), F("GRANTS", <<>>, 1), F("LOCK", <<>>, 3)}

CONSTANTS c1, c2
SmallFrames == c1 :> {Get} @@ c2 :> Others
One == [l \in Lanes |-> 1]
=============================================================================
