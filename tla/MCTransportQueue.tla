-------------------------- MODULE MCTransportQueue --------------------------
(* Instances of TransportQueue for TLC.                                    *)
EXTENDS TransportQueue, TLC

NodeSymmetry == Permutations(Nodes)
=============================================================================
