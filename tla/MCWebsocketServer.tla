-------------------------- MODULE MCWebsocketServer --------------------------
(* Two clients, one of which awaits each reply. *)
EXTENDS WebsocketServer, TLC

CONSTANTS alice, bob

MCConnections == {alice, bob}
MCKinds == {"registration", "test", "iss_object", "malformed", "kill"}
=============================================================================
