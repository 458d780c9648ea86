---------------------------- MODULE AzureServer ----------------------------
(***************************************************************************)
(* Azure as the tasks see it (external; from what the code sends and how   *)
(* it reads the answers): requests are answered for as long as their token *)
(* is valid, operations go on after the answer that accepts them, and a    *)
(* second deletion finds nothing to delete.                                *)
(***************************************************************************)
EXTENDS Integers

CONSTANTS
  VM,           \* virtual machines of the resource group
  Lister,       \* the caller that lists them
  MaxFaults,    \* bound: failures, and expiries after the first
  MaxEpoch      \* bound: times at which all tokens expire

ASSUME AzureAssumption == Lister \notin VM /\ MaxFaults \in Nat /\ MaxEpoch \in Nat

VARIABLES
  action,       \* task input: Start (as Stop and Restart) or Delete
  op,           \* operations on machines and on their extensions
  epoch,        \* how often tokens have expired; a token is its epoch
  faults,       \* faults so far
  wants,        \* what a caller asks for
  reply         \* what it is told

serverVars == <<action, op, epoch, faults>>

Caller == VM \cup {Lister}
Part == {"extension", "machine"}

Fault == faults < MaxFaults /\ faults' = faults + 1 /\ UNCHANGED <<action, epoch>>
NoFault == UNCHANGED <<action, epoch, faults>>

Request(part) == IF part = "extension" THEN "deleteExtension" ELSE "act"
Poll(part) == IF part = "extension" THEN "pollExtension" ELSE "poll"

Gone(v, part) == action = "Delete" /\ op[v][part] = "succeeded"

(* The server begins what the caller asks for.                             *)
Begins(a, part) == wants[a] = Request(part) /\ ~Gone(a, part)

Execute(a) ==
  op' = [v \in VM |-> [part \in Part |->
           IF v = a /\ Begins(a, part) THEN "running" ELSE op[v][part]]]

ReplyTo(a) ==
  CASE wants[a] = "page" -> "page"
    [] wants[a] = "deleteExtension" -> IF Gone(a, "extension") THEN "gone" ELSE "accepted"
    [] wants[a] = "act" -> IF Gone(a, "machine") THEN "gone" ELSE "accepted"
    [] wants[a] = "pollExtension" -> op[a]["extension"]
    [] wants[a] = "poll" -> op[a]["machine"]

(* An operation ends.                                                      *)
Finish(v, part) ==
  /\ op[v][part] = "running"
  /\ \E outcome \in {"succeeded", "failed"} :
       /\ op' = [op EXCEPT ![v] = [op[v] EXCEPT ![part] = outcome]]
       /\ IF outcome = "failed" THEN Fault ELSE NoFault

(* All tokens handed out so far expire.  It is no fault that they do once. *)
Expire ==
  /\ epoch < MaxEpoch
  /\ epoch' = epoch + 1
  /\ epoch > 0 => faults < MaxFaults
  /\ faults' = IF epoch > 0 THEN faults + 1 ELSE faults
  /\ UNCHANGED <<action, op>>

InitServer ==
  /\ action \in {"Start", "Delete"}
  /\ \E extension \in {"none", "succeeded"} :
       op = [v \in VM |-> [part \in Part |-> IF part = "extension" THEN extension ELSE "none"]]
  /\ epoch = 0 /\ faults = 0
=============================================================================
