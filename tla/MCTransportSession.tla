------------------------- MODULE MCTransportSession -------------------------
(* Instances of TransportSession for TLC.  The contexts are interchangeable*)
(* in the runs that have no liveness property.                             *)
EXTENDS TransportSession, TLC

ContextSymmetry == Permutations(Contexts)

AnyCall == {"open", "close", "send"}
AnyMessage == {"SESSION_AUTHENTICATED", "SESSION_CLOSE", "EXAMPLE_ECHO"}
=============================================================================
