------------------------ MODULE AzureVirtualMachine ------------------------
(***************************************************************************)
(* AzureResourceGroupDeployment's actions on virtual machines: all of the  *)
(* resource group at once, each as an operation that is begun and then     *)
(* polled until it has ended.                                              *)
(***************************************************************************)
EXTENDS AzureRest, FiniteSets

CONSTANTS
  IgnoreTimeoutErrorThreshold   \* timeouts a polling ignores (5)

ASSUME PollAssumption == IgnoreTimeoutErrorThreshold \in Nat /\ IsFiniteSet(VM)

VARIABLES
  listed,       \* the machines the pages so far have named
  threshold,    \* timeouts a machine's polling may still ignore
  successCount, failureCount,
  result        \* of the task: none, succeeded or failed

taskVars == <<listed, threshold, successCount, failureCount, result>>
vars == <<serverVars, tokenVars, requestVars, taskVars>>

-----------------------------------------------------------------------------
(* VirtualMachine.execute                                                  *)

FirstRequest == IF action = "Delete" THEN "deleteExtension" ELSE "act"

(* A page names machines, and links to the next unless it is the last.     *)
TakePage ==
  /\ At(Lister, "answered") /\ reply[Lister] = "page"
  /\ \E page \in SUBSET (VM \ listed) : listed' = listed \cup page
  /\ \/ listed' # listed /\ Begin({Lister}, "page") /\ UNCHANGED result
     \/ /\ pc' = [a \in Caller |-> IF a \in listed' THEN "begin" ELSE "done"]
        /\ wants' = [a \in Caller |-> FirstRequest]
        /\ result' = IF listed' = {} THEN "succeeded" ELSE result
        /\ reply' = [a \in Caller |-> "none"]
        /\ UNCHANGED <<asked, bearer, attempts, renewed>>
  /\ UNCHANGED <<threshold, successCount, failureCount, tokenVars, serverVars>>

ListFails ==
  /\ At(Lister, "answered") /\ reply[Lister] # "page"
  /\ To(Lister, "done")
  /\ result' = "failed"
  /\ UNCHANGED <<listed, threshold, successCount, failureCount, asked, bearer, attempts,
                 renewed, wants, reply, tokenVars, serverVars>>

(* Mutant: the first failure ends the task. *)
ResultAtOnce ==
  result' = IF failureCount' > 0 THEN "failed"
            ELSE IF successCount' = Cardinality(listed) THEN "succeeded" ELSE result

(* Mutant: a machine that succeeds speaks for all. *)
ResultOfSome ==
  result' = IF successCount' + failureCount' # Cardinality(listed) THEN result
            ELSE IF successCount' > 0 THEN "succeeded" ELSE "failed"

Result ==
  result' = IF successCount' + failureCount' # Cardinality(listed) THEN result
            ELSE IF failureCount' > 0 THEN "failed" ELSE "succeeded"

(* The callback of a machine.                                              *)
Callback(v, error) ==
  /\ IF error THEN failureCount' = failureCount + 1 /\ UNCHANGED successCount
     ELSE successCount' = successCount + 1 /\ UNCHANGED failureCount
  /\ Result
  /\ To(v, "done")
  /\ UNCHANGED <<listed, threshold, asked, bearer, attempts, renewed, wants, reply>>

-----------------------------------------------------------------------------
(* virtualMachines.start, deleteMethod; virtualMachineExtensions.deleteMethod *)

Has(v, what) == At(v, "answered") /\ wants[v] = what

Continue(v, what) ==
  /\ Begin({v}, what)
  /\ UNCHANGED <<listed, successCount, failureCount, result>>

StartPolling(v, part) ==
  /\ Continue(v, Poll(part))
  /\ threshold' = [threshold EXCEPT ![v] = IgnoreTimeoutErrorThreshold]

(* Mutant: a failed deletion of the extension is not followed. *)
ExtensionRefusedEnds(v) ==
  /\ Has(v, "deleteExtension")
  /\ IF reply[v] = "accepted" THEN StartPolling(v, "extension")
     ELSE To(v, "done") /\ UNCHANGED <<asked, bearer, attempts, renewed, wants, reply, taskVars>>
  /\ UNCHANGED <<tokenVars, serverVars>>

(* The machine is deleted whether or not its extension could be.            *)
ExtensionAnswered(v) ==
  /\ Has(v, "deleteExtension")
  /\ IF reply[v] = "accepted" THEN StartPolling(v, "extension")
     ELSE Continue(v, "act") /\ UNCHANGED threshold
  /\ UNCHANGED <<tokenVars, serverVars>>

(* Nothing to delete is no error, but there is nothing to poll either,     *)
(* which is one.                                                           *)
ActAnswered(v) ==
  /\ Has(v, "act")
  /\ IF reply[v] = "accepted" THEN StartPolling(v, "machine") ELSE Callback(v, TRUE)
  /\ UNCHANGED <<tokenVars, serverVars>>

-----------------------------------------------------------------------------
(* getLongRunningOperationResult; no caller gives it a time limit          *)

PollAgain(v, part) ==
  /\ Has(v, Poll(part))
  /\ \/ reply[v] = "running" /\ UNCHANGED threshold
     \/ /\ reply[v] = "timeout" /\ threshold[v] > 0
        /\ threshold' = [threshold EXCEPT ![v] = threshold[v] - 1]
  /\ Continue(v, Poll(part))
  /\ UNCHANGED <<tokenVars, serverVars>>

Ended(v) == reply[v] # "running" /\ ~(reply[v] = "timeout" /\ threshold[v] > 0)

ExtensionPolled(v) ==
  /\ Has(v, "pollExtension") /\ Ended(v)
  /\ Continue(v, "act") /\ UNCHANGED threshold
  /\ UNCHANGED <<tokenVars, serverVars>>

(* Without a body the reading of its status throws where nobody catches,   *)
(* and the callback is never called.                                       *)
Polled(v) ==
  /\ Has(v, "poll") /\ Ended(v)
  /\ IF reply[v] = "bodiless"
     THEN To(v, "lost") /\ UNCHANGED <<asked, bearer, attempts, renewed, wants, reply, taskVars>>
     ELSE Callback(v, reply[v] # "succeeded")
  /\ UNCHANGED <<tokenVars, serverVars>>

-----------------------------------------------------------------------------
MachineStep(v) ==
  \/ ExtensionAnswered(v) \/ ActAnswered(v)
  \/ \E part \in Part : PollAgain(v, part)
  \/ ExtensionPolled(v) \/ Polled(v)

Init ==
  /\ InitServer /\ InitRest
  /\ listed = {} /\ threshold = [v \in VM |-> 0]
  /\ successCount = 0 /\ failureCount = 0 /\ result = "none"

ClientStep(a) ==
  \/ RequestStep(a) /\ UNCHANGED taskVars
  \/ a = Lister /\ (TakePage \/ ListFails)
  \/ a \in VM /\ MachineStep(a)

ServerStep ==
  /\ \/ \E v \in VM, part \in Part : Finish(v, part)
     \/ Expire
  /\ UNCHANGED <<tokenVars, requestVars, taskVars>>

Next == (\E a \in Caller : ClientStep(a)) \/ ServerStep

(* Requests are answered or fail, continuations run, operations end.        *)
Fairness ==
  /\ \A a \in Caller : WF_vars(ClientStep(a))
  /\ \A v \in VM, part \in Part :
       WF_vars(Finish(v, part) /\ UNCHANGED <<tokenVars, requestVars, taskVars>>)

Spec == Init /\ [][Next]_vars /\ Fairness

-----------------------------------------------------------------------------
(* Properties                                                              *)

Label == {"idle", "begin", "token", "send", "answered", "lost", "done"}
Token == {NoToken, Pending, TimedOut, Rejected} \cup (0..MaxEpoch)
Want == {"page", "deleteExtension", "act", "pollExtension", "poll"}
Answer == {"none", "page", "accepted", "gone", "running", "succeeded", "failed", "refused",
           "timeout", "bodiless"}

ServerTypeOK ==
  /\ action \in {"Start", "Delete"} /\ epoch \in 0..MaxEpoch /\ faults \in 0..MaxFaults
  /\ op \in [VM -> [Part -> {"none", "running", "succeeded", "failed"}]]

RestTypeOK ==
  /\ accessToken \in BOOLEAN /\ cached \in Token /\ fetcher \in Caller
  /\ pc \in [Caller -> Label] /\ asked \in [Caller -> Caller]
  /\ bearer \in [Caller -> Token] /\ renewed \in [Caller -> BOOLEAN]
  /\ attempts \in [Caller -> 0..(RetryCount - 1)]
  /\ wants \in [Caller -> Want] /\ reply \in [Caller -> Answer]

TaskTypeOK ==
  /\ listed \subseteq VM /\ threshold \in [VM -> 0..IgnoreTimeoutErrorThreshold]
  /\ successCount \in Nat /\ failureCount \in Nat
  /\ result \in {"none", "succeeded", "failed"}

(* No request is attempted more often than its limit allows, no token is    *)
(* awaited that nobody fetches, and every machine counts once.              *)
AzureTypeOK ==
  /\ ServerTypeOK /\ RestTypeOK /\ TaskTypeOK
  /\ \A a \in Caller : At(a, "token") =>
       pc[asked[a]] \in {"token", "lost"} /\ asked[asked[a]] = asked[a]
  /\ successCount + failureCount = Cardinality({v \in listed : pc[v] = "done"})

(* A task that succeeds has done to every machine what it was asked to do, *)
(* however often requests were repeated or tokens expired.                 *)
ActionIsReal == result = "succeeded" => \A v \in listed : op[v]["machine"] = "succeeded"

(* The task ends when the last of its operations does, so that none of its  *)
(* requests or of the operations it has begun is left alone.                *)
EndsTogether ==
  result # "none" =>
    /\ \A a \in Caller : pc[a] \notin {"begin", "token", "send"}
    /\ faults = 0 => \A v \in VM, part \in Part : op[v][part] # "running"

(* Nothing fails because all tokens expire once, at whatever moment and however  *)
(* many requests are on their way: every one of them is sent again with a   *)
(* token that is valid.                                                    *)
ExpiryHarmless == faults = 0 => failureCount = 0 /\ result # "failed"

(* The task ends, unless the answer that ends a fetch or an operation had   *)
(* no body.                                                                *)
ReportsEventually == <>(result # "none" \/ \E a \in Caller : At(a, "lost"))
=============================================================================
