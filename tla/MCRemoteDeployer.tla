-------------------------- MODULE MCRemoteDeployer --------------------------
(***************************************************************************)
(* Two machines under two names, or one machine listed with two ports.      *)
(***************************************************************************)
EXTENDS RemoteDeployer

TwoNames == [m \in Machine |-> m]
OneName == [m \in Machine |-> "host"]
=============================================================================
