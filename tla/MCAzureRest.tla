---------------------------- MODULE MCAzureRest ----------------------------
(* Two machines whose requests may be repeated once, with two faults and   *)
(* two moments at which all tokens expire.                                 *)
EXTENDS AzureVirtualMachine
=============================================================================
