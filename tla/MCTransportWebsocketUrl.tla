---------------------- MODULE MCTransportWebsocketUrl ----------------------
(* Instances of TransportWebsocketUrl for TLC: every URL with up to five   *)
(* characters after the scheme.                                            *)
EXTENDS TransportWebsocketUrl

MCLetters == {"h", "."}

MCRests == UNION {[1 .. n -> MCLetters \cup Digits \cup {":"}] : n \in 0 .. 5}
=============================================================================
