--------------------------------- MODULE MCBroker ---------------------------------
(***************************************************************************)
(* The broker for TLC.  Clients, channels and messages are interchangeable *)
(* where no liveness property is checked.                                  *)
(***************************************************************************)
EXTENDS BrokerProperties

Symmetry == Permutations(Client) \cup Permutations(Channel) \cup Permutations(Message)
=============================================================================
