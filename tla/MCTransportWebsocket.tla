------------------------ MODULE MCTransportWebsocket ------------------------
(* The instance of TransportWebsocket for TLC.  Without symmetry, which    *)
(* liveness does not allow.                                                *)
EXTENDS TransportWebsocket

MCMessages == {"PING", "ECHO"}
=============================================================================
