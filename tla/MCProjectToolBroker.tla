------------------------- MODULE MCProjectToolBroker -------------------------
(* ProjectToolBroker for TLC: the instances are in the Broker*.cfg files. *)
EXTENDS ProjectToolBroker
=============================================================================
