--------------------------- MODULE RemoteDeployer ---------------------------
(***************************************************************************)
(* Invoke-RemoteScript: one PowerShell job for each target machine over a   *)
(* remote session, a loop that collects the results, and the verdict.      *)
(* Machines work, and connections drop, between any two statements of the  *)
(* loop that look at them.  The loop visits the jobs of a round in a fixed *)
(* order, the model in any order; the five seconds between two rounds are  *)
(* left out.                                                               *)
(***************************************************************************)
EXTENDS Integers, FiniteSets

CONSTANTS
  Machine,        \* the distinct entries, name and port, of the task's input
  NoMachine,
  Location,       \* Location[m]: the computer name of m, without the port
  MaxConnects,    \* maxRetryLimit of Get-WinRmConnectionToTargetMachine
  MaxRetrievals,  \* JobRetrievelCount at which a job is dropped
  MaxReconnects,  \* connection attempts after which a job is given up
  Faults,         \* kinds of faults that may occur
  MaxFaults,      \* bound: faults in one behaviour
  MaxDrops        \* bound: dropped connections in one behaviour

FaultKind == {"connect", "invoke", "getJob", "reconnect", "break"}

ASSUME MachineAssumption ==
  /\ IsFiniteSet(Machine) /\ Machine # {} /\ NoMachine \notin Machine
  /\ DOMAIN Location = Machine

ASSUME LimitAssumption ==
  /\ {MaxConnects, MaxRetrievals, MaxReconnects} \subseteq Nat \ {0}
  /\ Faults \subseteq FaultKind /\ MaxFaults \in Nat /\ MaxDrops \in Nat

VARIABLES
  parallel,       \* RunPowershellInParallel
  pending,        \* machines of later calls of Invoke-RemoteScript
  batch,          \* machines of this call
  pc,             \* the statement the task is at
  todo,           \* machines of the round not visited yet
  at, seen,       \* the machine being visited, and $jobState
  connects,       \* $retryCount
  retrievals,     \* JobRetrievelCount
  reconnects,     \* $connectionAttemptsByLocation
  status,         \* $remoteExecutionStatusByLocation
  jobResults,     \* machines whose result has been collected
  result,         \* of the task
  script,         \* on the machine: the script and how it ended
  output,         \* where the job's result is
  job,            \* the state of the local job
  session,        \* the remote session
  faults, drops

loopVars == <<todo, at, seen, retrievals, reconnects, status, jobResults>>
callVars == <<parallel, pending, batch, connects, result>>
remoteVars == <<script, output, job, session>>
boundVars == <<faults, drops>>
vars == <<pc, loopVars, callVars, remoteVars, boundVars>>

Names == {Location[m] : m \in Machine}
Ending == {"passed", "nonzero", "failed"}

Fault(kind) ==
  /\ kind \in Faults /\ faults < MaxFaults
  /\ faults' = faults + 1 /\ UNCHANGED drops

-----------------------------------------------------------------------------
(* The machines.                                                           *)

(* A script ends, connected or not; its result waits in the session. *)
ScriptEnds(m) ==
  /\ script[m] = "running" /\ session[m] # "lost"
  /\ script' \in {[script EXCEPT ![m] = e] : e \in Ending}
  /\ output' = [output EXCEPT ![m] = "remote"]
  /\ UNCHANGED <<pc, loopVars, callVars, boundVars, job, session>>

(* The result reaches the local job. *)
Deliver(m) ==
  /\ output[m] = "remote" /\ job[m] = "running" /\ session[m] = "open"
  /\ output' = [output EXCEPT ![m] = "local"]
  /\ UNCHANGED <<pc, loopVars, callVars, boundVars, script, job, session>>

(* A job completes after its last output has arrived. *)
Complete(m) ==
  /\ job[m] = "running" /\ output[m] \in {"local", "received", "lost"}
  /\ job' = [job EXCEPT ![m] = "completed"]
  /\ UNCHANGED <<pc, loopVars, callVars, boundVars, script, output, session>>

(* The connection drops; the session lives on without it. *)
Drop(m) ==
  /\ drops < MaxDrops /\ drops' = drops + 1
  /\ job[m] = "running" /\ session[m] = "open"
  /\ job' = [job EXCEPT ![m] = "disconnected"]
  /\ session' = [session EXCEPT ![m] = "dropped"]
  /\ UNCHANGED <<pc, loopVars, callVars, faults, script, output>>

(* The session is lost, with whatever has not reached the local job. *)
Break(m) ==
  /\ job[m] \in {"running", "disconnected"} /\ session[m] \in {"open", "dropped"}
  /\ Fault("break")
  /\ job' = [job EXCEPT ![m] = "broken"]
  /\ session' = [session EXCEPT ![m] = "lost"]
  /\ UNCHANGED <<pc, loopVars, callVars, script, output>>

Remote ==
  \E m \in Machine : ScriptEnds(m) \/ Deliver(m) \/ Complete(m) \/ Drop(m) \/ Break(m)

-----------------------------------------------------------------------------
(* Connecting and starting.                                                *)

(* The next call of Invoke-RemoteScript: all machines, or one at a time. *)
Begin ==
  /\ pc = "begin" /\ pc' = "connect"
  /\ IF parallel THEN batch' = pending ELSE batch' \in {{m} : m \in pending}
  /\ pending' = pending \ batch'
  /\ todo' = batch' /\ connects' = 0 /\ jobResults' = {}
  /\ UNCHANGED <<parallel, result, at, seen, retrievals, reconnects, status,
                 remoteVars, boundVars>>

(* The finally block of Invoke-RemoteScript. *)
Disconnected ==
  [m \in Machine |-> IF m \in batch /\ session[m] = "open" THEN "dropped"
                     ELSE session[m]]

(* An exception ends the task. *)
Throw ==
  /\ result' = "Failed" /\ pc' = "ended"
  /\ session' = Disconnected
  /\ UNCHANGED <<parallel, pending, batch, connects, loopVars, script, output, job>>

(* Get-WinRmConnectionToTargetMachine *)
Connect(m) ==
  /\ pc = "connect" /\ m \in todo
  /\ session' = [session EXCEPT ![m] = "open"]
  /\ todo' = todo \ {m} /\ connects' = 0
  /\ pc' = IF todo' = {} THEN "invoke" ELSE "connect"
  /\ UNCHANGED <<parallel, pending, batch, result, at, seen, retrievals,
                 reconnects, status, jobResults, script, output, job, boundVars>>

ConnectFails ==
  /\ pc = "connect" /\ Fault("connect")
  /\ \/ /\ connects + 1 < MaxConnects /\ connects' = connects + 1
        /\ UNCHANGED <<pc, parallel, pending, batch, result, loopVars, remoteVars>>
     \/ connects + 1 >= MaxConnects /\ Throw

(* Invoke-Command -AsJob, and the tables at the top of Get-JobResults. *)
Invoke ==
  /\ pc = "invoke"
  /\ \/ /\ pc' = "get" /\ todo' = batch
        /\ job' = [m \in Machine |-> IF m \in batch THEN "running" ELSE job[m]]
        /\ script' = [m \in Machine |-> IF m \in batch THEN "running" ELSE script[m]]
        /\ status' = [l \in Names |-> "Unknown"]
        /\ reconnects' = [l \in Names |-> 0]
        /\ retrievals' = [m \in Machine |-> 0]
        /\ UNCHANGED <<callVars, boundVars, at, seen, jobResults, output, session>>
     \/ Fault("invoke") /\ Throw

-----------------------------------------------------------------------------
(* Get-JobResults.                                                         *)

(* Mutant: the loop waits for the results, not for the statuses. *)
VisitedUntilHeard(m, st) ==
  LET rest == todo \ {m}
  IN /\ todo' = IF rest = {} /\ jobResults # batch THEN batch ELSE rest
     /\ pc' = IF rest = {} /\ jobResults = batch THEN "report" ELSE "get"

(* The end of a visit; after a round without an unknown status the loop ends. *)
Visited(m, st) ==
  LET rest == todo \ {m}
      left == \E x \in batch : st[Location[x]] = "Unknown"
  IN /\ todo' = IF rest = {} /\ left THEN batch ELSE rest
     /\ pc' = IF rest = {} /\ ~left THEN "report" ELSE "get"

Skip(m) ==
  /\ pc = "get" /\ m \in todo /\ status[Location[m]] = "Finished"
  /\ Visited(m, status)
  /\ UNCHANGED <<at, seen, retrievals, reconnects, status, jobResults, callVars,
                 remoteVars, boundVars>>

(* Get-Job, and the state of the job at this moment. *)
GetJob(m) ==
  /\ pc = "get" /\ m \in todo /\ status[Location[m]] = "Unknown"
  /\ pc' = "receive" /\ at' = m /\ seen' = job[m]
  /\ retrievals' = [retrievals EXCEPT ![m] = 0]
  /\ UNCHANGED <<todo, reconnects, status, jobResults, callVars, remoteVars,
                 boundVars>>

GetJobFails(m) ==
  /\ pc = "get" /\ m \in todo /\ status[Location[m]] = "Unknown"
  /\ Fault("getJob")
  /\ retrievals' = [retrievals EXCEPT ![m] = @ + 1]
  /\ status' = IF retrievals'[m] >= MaxRetrievals
                 THEN [status EXCEPT ![Location[m]] = "Finished"] ELSE status
  /\ Visited(m, status')
  /\ UNCHANGED <<at, seen, reconnects, jobResults, callVars, remoteVars>>

(* Mutant: only a job in a desirable state is received from. *)
ReceiveIfSettled ==
  /\ pc = "receive" /\ pc' = "decide"
  /\ IF output[at] = "local" /\ seen \in {"running", "completed"}
       THEN /\ jobResults' = jobResults \cup {at}
            /\ output' = [output EXCEPT ![at] = "received"]
       ELSE UNCHANGED <<jobResults, output>>
  /\ UNCHANGED <<todo, at, seen, retrievals, reconnects, status, callVars, script,
                 job, session, boundVars>>

(* Receive-Job collects what has arrived by now. *)
Receive ==
  /\ pc = "receive" /\ pc' = "decide"
  /\ IF output[at] = "local"
       THEN /\ jobResults' = jobResults \cup {at}
            /\ output' = [output EXCEPT ![at] = "received"]
       ELSE UNCHANGED <<jobResults, output>>
  /\ UNCHANGED <<todo, at, seen, retrievals, reconnects, status, callVars, script,
                 job, session, boundVars>>

(* Mutant: the state of the job is read after its output. *)
DecideSettledNow ==
  /\ pc = "decide" /\ seen \in {"completed", "running"}
  /\ status' = IF job[at] = "completed"
                 THEN [status EXCEPT ![Location[at]] = "Finished"] ELSE status
  /\ Visited(at, status')
  /\ UNCHANGED <<at, seen, retrievals, reconnects, jobResults, callVars,
                 remoteVars, boundVars>>

(* What the loop does about a job that was seen completed or running. *)
DecideSettled ==
  /\ pc = "decide" /\ seen \in {"completed", "running"}
  /\ status' = IF seen = "completed"
                 THEN [status EXCEPT ![Location[at]] = "Finished"] ELSE status
  /\ Visited(at, status')
  /\ UNCHANGED <<at, seen, retrievals, reconnects, jobResults, callVars,
                 remoteVars, boundVars>>

(* Mutant: one attempt too many. *)
ExhaustedLate(m) == reconnects[Location[m]] > MaxReconnects

Exhausted(m) == reconnects[Location[m]] >= MaxReconnects

GiveUp ==
  /\ pc = "decide" /\ seen \notin {"completed", "running"}
  /\ Exhausted(at)
  /\ status' = [status EXCEPT ![Location[at]] = "Finished"]
  /\ Visited(at, status')
  /\ UNCHANGED <<at, seen, retrievals, reconnects, jobResults, callVars,
                 remoteVars, boundVars>>

(* Retry-Connection finds one machine of that name, and a session that is   *)
(* disconnected and free.  The new job takes the place of the old one, and  *)
(* with the old one goes what has not been received from it.               *)
Reconnectable(m) ==
  /\ session[m] = "dropped"
  /\ \A x \in batch : Location[x] = Location[m] => x = m

Reconnect ==
  /\ pc = "decide" /\ seen \notin {"completed", "running"}
  /\ ~Exhausted(at)
  /\ \/ /\ Reconnectable(at)
        /\ job' = [job EXCEPT ![at] = "running"]
        /\ output' = [output EXCEPT ![at] = IF @ = "local" THEN "lost" ELSE @]
        /\ session' = [session EXCEPT ![at] = "open"]
        /\ retrievals' = [retrievals EXCEPT ![at] = 0]
        /\ reconnects' = [reconnects EXCEPT ![Location[at]] = 0]
        /\ UNCHANGED boundVars
     \/ /\ \/ ~Reconnectable(at) /\ UNCHANGED boundVars
           \/ Fault("reconnect")
        /\ reconnects' = [reconnects EXCEPT ![Location[at]] = @ + 1]
        /\ UNCHANGED <<job, output, session, retrievals>>
  /\ Visited(at, status)
  /\ UNCHANGED <<at, seen, status, jobResults, callVars, script>>

(* Mutant: the results that are there are enough. *)
PassedOfResults == \A m \in jobResults : script[m] = "passed"

Passed ==
  /\ Cardinality(jobResults) = Cardinality(batch)
  /\ \A m \in jobResults : script[m] = "passed"

(* Set-TaskResult, and the end of the call. *)
Report ==
  /\ pc = "report" /\ UNCHANGED boundVars
  /\ \/ /\ Passed
        /\ result' = "Succeeded" /\ session' = Disconnected
        /\ pc' = IF pending = {} THEN "ended" ELSE "begin"
        /\ UNCHANGED <<parallel, pending, batch, connects, loopVars, script, output, job>>
     \/ ~Passed /\ Throw

-----------------------------------------------------------------------------

Init ==
  /\ parallel \in BOOLEAN /\ pending = Machine /\ batch = {}
  /\ pc = "begin" /\ todo = {} /\ at = NoMachine /\ seen = "none" /\ connects = 0
  /\ retrievals = [m \in Machine |-> 0] /\ reconnects = [l \in Names |-> 0]
  /\ status = [l \in Names |-> "Unknown"]
  /\ jobResults = {} /\ result = "none"
  /\ script = [m \in Machine |-> "idle"] /\ output = [m \in Machine |-> "none"]
  /\ job = [m \in Machine |-> "none"] /\ session = [m \in Machine |-> "none"]
  /\ faults = 0 /\ drops = 0

TaskStep ==
  \/ Begin \/ ConnectFails \/ Invoke \/ Receive \/ DecideSettled \/ GiveUp
  \/ Reconnect \/ Report
  \/ \E m \in Machine : Connect(m) \/ Skip(m) \/ GetJob(m) \/ GetJobFails(m)

Next == TaskStep \/ Remote

Spec == Init /\ [][Next]_vars

(* The loop goes on, scripts end and their results arrive while there is a  *)
(* connection.                                                             *)
FairSpec ==
  /\ Spec /\ WF_vars(TaskStep)
  /\ \A m \in Machine : /\ WF_vars(ScriptEnds(m)) /\ WF_vars(Deliver(m))
                        /\ WF_vars(Complete(m))

-----------------------------------------------------------------------------
(* Properties.                                                             *)

(* Every variable has its type. *)
RemoteTypeOK ==
  /\ parallel \in BOOLEAN /\ pending \subseteq Machine /\ batch \subseteq Machine
  /\ pc \in {"begin", "connect", "invoke", "get", "receive", "decide", "report", "ended"}
  /\ todo \subseteq batch /\ at \in Machine \cup {NoMachine}
  /\ seen \in {"none", "running", "completed", "disconnected", "broken"}
  /\ connects \in 0 .. MaxConnects - 1
  /\ retrievals \in [Machine -> 0 .. MaxRetrievals]
  /\ reconnects \in [Names -> 0 .. MaxReconnects]
  /\ status \in [Names -> {"Unknown", "Finished"}]
  /\ jobResults \subseteq batch
  /\ result \in {"none", "Succeeded", "Failed"}
  /\ script \in [Machine -> {"idle", "running"} \cup Ending]
  /\ output \in [Machine -> {"none", "remote", "local", "received", "lost"}]
  /\ job \in [Machine -> {"none", "running", "completed", "disconnected", "broken"}]
  /\ session \in [Machine -> {"none", "open", "dropped", "lost"}]
  /\ faults \in 0 .. MaxFaults /\ drops \in 0 .. MaxDrops

(* A job that the loop is through with, other than one it could not get hold *)
(* of, has not completed behind its back: the state is read before the       *)
(* output, so what arrives in between is collected in the next round.      *)
FinishedCollected ==
  \A m \in batch :
    status[Location[m]] = "Finished" /\ job[m] = "completed" /\ retrievals[m] < MaxRetrievals
      => m \in jobResults

(* The task succeeds only if every script was run, ended with exit code 0    *)
(* and was heard of.                                                       *)
SuccessIsComplete ==
  pc = "ended" /\ result = "Succeeded" => \A m \in Machine : script[m] = "passed"

(* Without a fault, and however connections drop and come back, the loop     *)
(* leaves with a result of every job.  It keeps one status for each computer *)
(* name, so this needs what Parse-TargetMachineNames says of its filter,     *)
(* that there is one connection to each machine.                           *)
EveryJobHeard == pc = "report" /\ faults = 0 => jobResults = batch

(* The collection of results ends, whatever the machines do. *)
CollectionEnds == <>(pc = "ended")
=============================================================================
