----------------------- MODULE MCTransportSessionLife -----------------------
(* Instances of TransportSessionLife for TLC.                              *)
EXTENDS TransportSessionLife

AnyMessage == {"SESSION_AUTHENTICATED", "SESSION_CLOSE", "EXAMPLE_ECHO"}
=============================================================================
