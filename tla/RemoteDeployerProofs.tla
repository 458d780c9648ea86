------------------------ MODULE RemoteDeployerProofs ------------------------
(***************************************************************************)
(* Proofs about RemoteDeployer, for any machines, limits, faults and drops. *)
(***************************************************************************)
EXTENDS RemoteDeployer, FiniteSetTheorems, TLAPS

-----------------------------------------------------------------------------
(* Types.                                                                  *)

(* The machine being visited is one of this call's. *)
VisitingOne == pc \in {"receive", "decide"} => at \in batch

(* A job whose status is unknown has not used up its retrievals. *)
RetrievalsLeft ==
  \A m \in Machine : status[Location[m]] = "Unknown" => retrievals[m] < MaxRetrievals

Typed == RemoteTypeOK /\ VisitingOne /\ RetrievalsLeft

LEMMA LocationName == \A m \in Machine : Location[m] \in Names
BY DEF Names

LEMMA FaultType ==
  ASSUME faults \in 0 .. MaxFaults, drops \in 0 .. MaxDrops, NEW kind, Fault(kind)
  PROVE  faults' \in 0 .. MaxFaults /\ drops' = drops /\ faults' # 0
BY LimitAssumption DEF Fault

(* The end of a visit: the loop goes on, or every job is accounted for. *)
LEMMA VisitedType ==
  ASSUME todo \subseteq batch, NEW m, NEW st, Visited(m, st)
  PROVE  /\ todo' \subseteq batch /\ pc' \in {"get", "report"}
         /\ pc' = "report" => \A x \in batch : st[Location[x]] # "Unknown"
<1> DEFINE rest == todo \ {m}
           left == \E x \in batch : st[Location[x]] = "Unknown"
<1>1. /\ todo' = IF rest = {} /\ left THEN batch ELSE rest
      /\ pc' = IF rest = {} /\ ~left THEN "report" ELSE "get"
  BY DEF Visited
<1> QED BY <1>1

LEMMA TypedInit == Init => Typed
<1> SUFFICES ASSUME Init PROVE Typed
  OBVIOUS
<1> USE MachineAssumption, LimitAssumption
<1>1. parallel \in BOOLEAN
  BY Zenon DEF Init
<1> QED BY <1>1, LocationName DEF Init, Typed, RemoteTypeOK, VisitingOne, RetrievalsLeft

(* The machines and the network do not touch the task. *)
LEMMA RemoteTyped ==
  ASSUME Typed, Remote
  PROVE  Typed'
<1> USE DEF Typed, RemoteTypeOK, VisitingOne, RetrievalsLeft, loopVars, callVars, boundVars
<1>1. PICK m \in Machine : \/ ScriptEnds(m) \/ Deliver(m) \/ Complete(m)
                           \/ Drop(m) \/ Break(m)
  BY DEF Remote
<1>2. CASE ScriptEnds(m)
  BY <1>2 DEF ScriptEnds, Ending
<1>3. CASE Deliver(m)
  BY <1>3 DEF Deliver
<1>4. CASE Complete(m)
  BY <1>4 DEF Complete
<1>5. CASE Drop(m)
  BY <1>5, LimitAssumption DEF Drop
<1>6. CASE Break(m)
  BY <1>6, FaultType DEF Break
<1> QED BY <1>1, <1>2, <1>3, <1>4, <1>5, <1>6

LEMMA ThrowTyped ==
  ASSUME Typed, Throw, faults' \in 0 .. MaxFaults, drops' = drops
  PROVE  Typed'
BY DEF Throw, Disconnected, Typed, RemoteTypeOK, VisitingOne, RetrievalsLeft, loopVars

(* Connecting, starting and reporting. *)
LEMMA CallTyped ==
  ASSUME Typed, \/ Begin \/ ConnectFails \/ Invoke \/ Report
                \/ \E m \in Machine : Connect(m)
  PROVE  Typed'
<1> USE DEF Typed, RemoteTypeOK, VisitingOne, RetrievalsLeft, loopVars, callVars,
            remoteVars, boundVars
<1>1. CASE Begin
  <2>1. batch' \subseteq Machine /\ pending' \subseteq Machine
    BY <1>1 DEF Begin
  <2> QED BY <1>1, <2>1, LimitAssumption DEF Begin
<1>2. CASE ConnectFails
  <2>1. faults' \in 0 .. MaxFaults /\ drops' = drops
    BY <1>2, FaultType DEF ConnectFails
  <2>2. CASE Throw
    BY <2>1, <2>2, ThrowTyped
  <2>3. CASE /\ connects + 1 < MaxConnects /\ connects' = connects + 1
             /\ UNCHANGED <<pc, parallel, pending, batch, result, loopVars, remoteVars>>
    BY <2>1, <2>3, LimitAssumption
  <2> QED BY <1>2, <2>2, <2>3 DEF ConnectFails
<1>3. CASE Invoke
  <2>1. CASE Throw
    BY <1>3, <2>1, FaultType, ThrowTyped DEF Invoke
  <2>2. CASE pc' = "get"
    BY <1>3, <2>2, LimitAssumption, LocationName DEF Invoke, Throw
  <2> QED BY <1>3, <2>1, <2>2 DEF Invoke
<1>4. CASE Report
  <2>1. CASE Throw
    BY <1>4, <2>1, ThrowTyped DEF Report
  <2>2. CASE result' = "Succeeded"
    BY <1>4, <2>2 DEF Report, Throw, Disconnected
  <2> QED BY <1>4, <2>1, <2>2 DEF Report
<1>5. ASSUME NEW m \in Machine, Connect(m) PROVE Typed'
  BY <1>5, LimitAssumption DEF Connect
<1> QED BY <1>1, <1>2, <1>3, <1>4, <1>5

(* Collecting the results. *)
LEMMA LoopTyped ==
  ASSUME Typed, \/ Receive \/ DecideSettled \/ GiveUp \/ Reconnect
                \/ \E m \in Machine : Skip(m) \/ GetJob(m) \/ GetJobFails(m)
  PROVE  Typed'
<1> USE DEF Typed, RemoteTypeOK, VisitingOne, RetrievalsLeft, loopVars, callVars,
            remoteVars, boundVars
<1>1. CASE Receive
  BY <1>1 DEF Receive
<1>2. CASE DecideSettled
  <2>1. /\ todo' \subseteq batch /\ pc' \in {"get", "report"}
        /\ status' \in {status, [status EXCEPT ![Location[at]] = "Finished"]}
        /\ UNCHANGED <<at, seen, retrievals, reconnects, jobResults, callVars,
                       remoteVars, boundVars>>
    BY <1>2, VisitedType DEF DecideSettled
  <2>2. /\ status' \in [Names -> {"Unknown", "Finished"}]
        /\ \A m \in Machine : status'[Location[m]] = "Unknown" => status[Location[m]] = "Unknown"
    BY <2>1, LocationName
  <2> QED BY <2>1, <2>2
<1>3. CASE GiveUp
  <2>1. /\ todo' \subseteq batch /\ pc' \in {"get", "report"}
        /\ status' \in {status, [status EXCEPT ![Location[at]] = "Finished"]}
        /\ UNCHANGED <<at, seen, retrievals, reconnects, jobResults, callVars,
                       remoteVars, boundVars>>
    BY <1>3, VisitedType DEF GiveUp
  <2>2. /\ status' \in [Names -> {"Unknown", "Finished"}]
        /\ \A m \in Machine : status'[Location[m]] = "Unknown" => status[Location[m]] = "Unknown"
    BY <2>1, LocationName
  <2> QED BY <2>1, <2>2
<1>4. CASE Reconnect
  <2>1. /\ todo' \subseteq batch /\ pc' \in {"get", "report"}
        /\ UNCHANGED <<at, seen, status, jobResults, callVars, script>>
    BY <1>4, VisitedType DEF Reconnect
  <2>2. at \in Machine /\ Location[at] \in Names
    BY <1>4, LocationName DEF Reconnect
  <2>3. reconnects[Location[at]] \in 0 .. MaxReconnects - 1
    BY <1>4, <2>2, LimitAssumption DEF Reconnect, Exhausted
  <2>4. CASE UNCHANGED <<job, output, session, retrievals>>
    BY <1>4, <2>1, <2>2, <2>3, <2>4, FaultType, LimitAssumption DEF Reconnect
  <2>5. CASE Reconnectable(at) /\ UNCHANGED boundVars
    BY <1>4, <2>1, <2>2, <2>3, <2>5, FaultType, LimitAssumption DEF Reconnect
  <2> QED BY <1>4, <2>4, <2>5 DEF Reconnect
<1>5. ASSUME NEW m \in Machine, Skip(m) PROVE Typed'
  BY <1>5, VisitedType DEF Skip
<1>6. ASSUME NEW m \in Machine, GetJob(m) PROVE Typed'
  BY <1>6, LimitAssumption DEF GetJob
<1>7. ASSUME NEW m \in Machine, GetJobFails(m) PROVE Typed'
  <2>1. /\ todo' \subseteq batch /\ pc' \in {"get", "report"}
        /\ UNCHANGED <<at, seen, reconnects, jobResults, callVars, remoteVars>>
    BY <1>7, VisitedType DEF GetJobFails
  <2>2. retrievals[m] \in 0 .. MaxRetrievals - 1 /\ Location[m] \in Names
    BY <1>7, LimitAssumption, LocationName DEF GetJobFails
  <2> QED BY <1>7, <2>1, <2>2, FaultType, LimitAssumption DEF GetJobFails
<1> QED BY <1>1, <1>2, <1>3, <1>4, <1>5, <1>6, <1>7

LEMMA TypedStep == Typed /\ [Next]_vars => Typed'
<1> SUFFICES ASSUME Typed, [Next]_vars PROVE Typed'
  OBVIOUS
<1>1. CASE UNCHANGED vars
  BY <1>1 DEF vars, loopVars, callVars, remoteVars, boundVars, Typed, RemoteTypeOK,
              VisitingOne, RetrievalsLeft
<1>2. CASE Next
  BY <1>2, RemoteTyped, CallTyped, LoopTyped DEF Next, TaskStep
<1> QED BY <1>1, <1>2

(* Every variable keeps its type: the retries never exceed their limits and  *)
(* no result comes from a machine of another call.                         *)
THEOREM RemoteTypeCorrect == Spec => []RemoteTypeOK
<1>1. Typed => RemoteTypeOK
  BY DEF Typed
<1> QED BY <1>1, TypedInit, TypedStep, PTL DEF Spec

-----------------------------------------------------------------------------
(* Success.                                                                *)

(* The machines of different calls are different; a call ends, and the next  *)
(* one begins, when all its scripts have passed.                           *)
PassedSoFar ==
  /\ batch \cap pending = {}
  /\ \A m \in Machine \ (pending \cup batch) : script[m] = "passed"
  /\ pc = "begin" => \A m \in batch : script[m] = "passed"

Succeeding == PassedSoFar /\ SuccessIsComplete

(* As many results as machines are the results of all machines. *)
LEMMA AllPassed ==
  ASSUME Typed, Passed
  PROVE  \A m \in batch : script[m] = "passed"
<1>1. IsFiniteSet(batch) /\ jobResults \in SUBSET batch
  BY MachineAssumption, FS_Subset DEF Typed, RemoteTypeOK
<1>2. jobResults = batch
  BY <1>1, FS_Subset DEF Passed
<1> QED BY <1>2 DEF Passed

LEMMA SucceedingStep ==
  ASSUME Typed, Succeeding, [Next]_vars
  PROVE  Succeeding'
<1> USE DEF Succeeding, PassedSoFar, SuccessIsComplete, loopVars, callVars, remoteVars,
            boundVars
<1>1. CASE UNCHANGED <<pc, callVars, script>>
  BY <1>1
<1>2. CASE Remote
  <2>1. UNCHANGED <<pc, callVars>>
    BY <1>2 DEF Remote, ScriptEnds, Deliver, Complete, Drop, Break
  <2>2. \A m \in Machine : script[m] = "passed" => script'[m] = "passed"
    BY <1>2 DEF Remote, ScriptEnds, Deliver, Complete, Drop, Break, Typed, RemoteTypeOK
  <2> QED BY <2>1, <2>2 DEF Typed, RemoteTypeOK
<1>3. CASE Throw
  BY <1>3 DEF Throw
<1>4. CASE Begin
  <2>1. batch' \subseteq pending /\ pending' = pending \ batch'
    BY <1>4 DEF Begin
  <2> QED BY <1>4, <2>1 DEF Begin
<1>5. CASE Invoke
  BY <1>3, <1>5 DEF Invoke, Typed, RemoteTypeOK
<1>6. CASE Report
  <2>1. CASE /\ Passed /\ result' = "Succeeded"
             /\ pc' = IF pending = {} THEN "ended" ELSE "begin"
             /\ UNCHANGED <<pending, batch, script>>
    BY <2>1, AllPassed
  <2> QED BY <1>3, <1>6, <2>1 DEF Report
<1>7. CASE \/ ConnectFails \/ Receive \/ DecideSettled \/ GiveUp \/ Reconnect
           \/ \E m \in Machine : Connect(m) \/ Skip(m) \/ GetJob(m) \/ GetJobFails(m)
  <2>1. CASE UNCHANGED <<pending, batch, script>> /\ pc' \notin {"begin", "ended"}
    BY <2>1
  <2> QED BY <1>3, <1>7, <2>1, VisitedType
          DEF ConnectFails, Receive, DecideSettled, GiveUp, Reconnect, Connect, Skip,
              GetJob, GetJobFails, Typed, RemoteTypeOK
<1> QED BY <1>1, <1>2, <1>4, <1>5, <1>6, <1>7 DEF Next, TaskStep, vars

(* The task succeeds only if the script passed on every machine: as many     *)
(* results as machines cannot be fewer machines, and a call begins only when *)
(* all scripts of those before it passed.                                  *)
THEOREM SuccessComplete == Spec => []SuccessIsComplete
<1>1. Init => Typed /\ Succeeding
  BY TypedInit DEF Init, Succeeding, PassedSoFar, SuccessIsComplete
<1>2. Typed /\ Succeeding /\ [Next]_vars => (Typed /\ Succeeding)'
  BY TypedStep, SucceedingStep
<1>3. Succeeding => SuccessIsComplete
  BY DEF Succeeding
<1> QED BY <1>1, <1>2, <1>3, PTL DEF Spec

-----------------------------------------------------------------------------
(* Without faults.                                                         *)

(* A machine whose call has not invoked its job yet. *)
Untouched(m) == job[m] = "none" /\ output[m] = "none" /\ script[m] = "idle"

(* What is known of the job of m while the loop runs. *)
JobSound(m) ==
  /\ job[m] \in {"running", "completed", "disconnected"}
  /\ script[m] = "running" => output[m] = "none"
  /\ output[m] # "lost"
  /\ output[m] = "received" => m \in jobResults
  /\ job[m] = "completed" => output[m] \in {"local", "received"}
  /\ job[m] = "disconnected" => session[m] = "dropped"
  /\ status[Location[m]] = "Finished" => m \in jobResults
  /\ retrievals[m] = 0 /\ reconnects[Location[m]] = 0

(* What the visit knows of the job it looks at. *)
VisitSound ==
  /\ pc \in {"receive", "decide"} => seen \in {"running", "completed", "disconnected"}
  /\ pc \in {"receive", "decide"} /\ seen # "running" => job[at] = seen
  /\ pc = "decide" /\ seen = "completed" => at \in jobResults
  /\ pc = "decide" /\ seen = "disconnected" => output[at] # "local"

Waiting ==
  /\ \A m \in pending : Untouched(m)
  /\ pc \in {"connect", "invoke"} => \A m \in batch : Untouched(m)

LoopSound == pc \in {"get", "receive", "decide"} => \A m \in batch : JobSound(m)

Heard == faults = 0 => Waiting /\ LoopSound /\ VisitSound /\ EveryJobHeard

DistinctNames == \A m, x \in Machine : Location[m] = Location[x] => m = x

LEMMA FaultsStay ==
  ASSUME Typed, [Next]_vars, faults' = 0
  PROVE  faults = 0
<1> USE LimitAssumption DEF Typed, RemoteTypeOK, boundVars
<1>1. \/ faults' = faults \/ faults' = faults + 1
  BY Zenon DEF Next, TaskStep, Remote, ScriptEnds, Deliver, Complete, Drop, Break, Begin,
     Connect, ConnectFails, Invoke, Skip, GetJob, GetJobFails, Receive, DecideSettled,
     GiveUp, Reconnect, Report, Fault, vars
<1> QED BY <1>1

(* The machines and the network, as long as no session is lost. *)
LEMMA RemoteHeard ==
  ASSUME Typed, Heard, faults = 0, faults' = 0, Remote
  PROVE  Heard'
<1> USE DEF Typed, RemoteTypeOK, VisitingOne, Heard, Waiting, LoopSound, VisitSound,
            EveryJobHeard, Untouched, JobSound, loopVars, callVars, boundVars
<1>1. PICK m \in Machine : \/ ScriptEnds(m) \/ Deliver(m) \/ Complete(m)
                           \/ Drop(m) \/ Break(m)
  BY DEF Remote
<1>2. CASE ScriptEnds(m)
  <2>1. /\ script[m] = "running" /\ script'[m] # "running"
        /\ \A x \in Machine \ {m} : script'[x] = script[x] /\ output'[x] = output[x]
        /\ output'[m] = "remote"
        /\ UNCHANGED <<pc, loopVars, callVars, boundVars, job, session>>
    BY <1>2 DEF ScriptEnds, Ending
  <2> QED BY <2>1
<1>3. CASE Deliver(m)
  BY <1>3 DEF Deliver
<1>4. CASE Complete(m)
  BY <1>4 DEF Complete
<1>5. CASE Drop(m)
  BY <1>5 DEF Drop
<1>6. CASE Break(m)
  BY <1>6, FaultType DEF Break
<1> QED BY <1>1, <1>2, <1>3, <1>4, <1>5, <1>6

(* A visit that leaves the job sound, and its status finished only if heard. *)
LEMMA VisitHeard ==
  ASSUME Typed, Typed', Heard, faults = 0, faults' = 0, NEW m, Visited(m, status'),
         \A x \in batch : JobSound(x)', UNCHANGED <<batch, pending>>,
         \A x \in pending : Untouched(x)'
  PROVE  Heard'
<1>1. /\ pc' \in {"get", "report"}
      /\ pc' = "report" => \A x \in batch : status'[Location[x]] # "Unknown"
  BY VisitedType DEF Typed, RemoteTypeOK
<1>2. pc' = "report" => jobResults' = batch
  <2>1. /\ batch \subseteq Machine /\ jobResults' \subseteq batch
        /\ status' \in [Names -> {"Unknown", "Finished"}]
    BY DEF Typed, RemoteTypeOK
  <2>2. \A x \in batch : status'[Location[x]] = "Finished" => x \in jobResults'
    BY DEF JobSound
  <2> QED BY <1>1, <2>1, <2>2, LocationName
<1> QED BY <1>1, <1>2 DEF Heard, Waiting, LoopSound, VisitSound, EveryJobHeard

LEMMA LoopHeard ==
  ASSUME DistinctNames, Typed, Typed', Heard, faults = 0, faults' = 0,
         \/ Receive \/ DecideSettled \/ GiveUp \/ Reconnect
         \/ \E m \in Machine : Skip(m) \/ GetJob(m) \/ GetJobFails(m)
  PROVE  Heard'
<1>1. ASSUME UNCHANGED pending, UNCHANGED remoteVars
      PROVE  \A x \in pending : Untouched(x)'
  BY <1>1 DEF Heard, Waiting, Untouched, remoteVars
<1>2. CASE Receive
  <2>1. pc = "receive" /\ pc' = "decide" /\ at \in batch /\ at \in Machine
    BY <1>2 DEF Receive, Typed, RemoteTypeOK, VisitingOne
  <2>2. \A x \in batch : JobSound(x)
    BY <2>1 DEF Heard, LoopSound
  <2>3. /\ UNCHANGED <<batch, pending, at, seen, retrievals, reconnects, status, script,
                       job, session>>
        /\ \A x \in Machine \ {at} : output'[x] = output[x]
        /\ output[at] # "local" => output'[at] = output[at] /\ jobResults' = jobResults
        /\ output[at] = "local" => /\ output'[at] = "received"
                                   /\ jobResults' = jobResults \cup {at}
    BY <1>2, <2>1 DEF Receive, Typed, RemoteTypeOK, callVars
  <2>4. \A x \in batch : JobSound(x)'
    BY <2>1, <2>2, <2>3 DEF JobSound, Typed, RemoteTypeOK
  <2>5. at \notin pending
    BY <2>1, <2>2 DEF Heard, Waiting, Untouched, JobSound
  <2>6. \A x \in pending : Untouched(x)'
    BY <2>3, <2>5 DEF Heard, Waiting, Untouched, Typed, RemoteTypeOK
  <2>7. VisitSound'
    BY <2>1, <2>2, <2>3 DEF Heard, VisitSound, JobSound
  <2> QED BY <2>1, <2>3, <2>4, <2>6, <2>7 DEF Heard, Waiting, LoopSound, EveryJobHeard
<1>3. CASE DecideSettled
  <2>1. /\ pc = "decide" /\ at \in batch /\ at \in Machine
        /\ status' = IF seen = "completed"
                       THEN [status EXCEPT ![Location[at]] = "Finished"] ELSE status
        /\ Visited(at, status')
        /\ UNCHANGED <<at, seen, retrievals, reconnects, jobResults, callVars,
                       remoteVars, boundVars>>
    BY <1>3 DEF DecideSettled, Typed, RemoteTypeOK, VisitingOne
  <2>2. /\ \A x \in batch : JobSound(x)
        /\ seen = "completed" => at \in jobResults
    BY <2>1 DEF Heard, LoopSound, VisitSound
  <2>3. \A x \in batch : x # at => status'[Location[x]] = status[Location[x]]
    BY <2>1, LocationName DEF DistinctNames, Typed, RemoteTypeOK
  <2>4. \A x \in batch : JobSound(x)'
    BY <2>1, <2>2, <2>3 DEF JobSound, callVars, remoteVars
  <2> QED BY <1>1, <2>1, <2>4, VisitHeard DEF callVars
<1>4. CASE GiveUp
  <2>1. pc = "decide" /\ at \in batch /\ Exhausted(at)
    BY <1>4 DEF GiveUp, VisitingOne, Typed
  <2>2. reconnects[Location[at]] = 0
    BY <2>1 DEF Heard, LoopSound, JobSound
  <2> QED BY <2>1, <2>2, LimitAssumption DEF Exhausted
<1>5. CASE Reconnect
  <2>1. /\ pc = "decide" /\ at \in batch /\ at \in Machine /\ batch \subseteq Machine
        /\ Visited(at, status')
        /\ UNCHANGED <<at, seen, status, jobResults, callVars, script>>
        /\ seen = "disconnected"
    BY <1>5 DEF Reconnect, Typed, RemoteTypeOK, VisitingOne, Heard, VisitSound
  <2>2. \A x \in batch : JobSound(x)
    BY <2>1 DEF Heard, LoopSound
  <2>3. job[at] = "disconnected" /\ output[at] # "local"
    BY <2>1 DEF Heard, VisitSound
  <2>4. Reconnectable(at)
    BY <2>1, <2>2, <2>3 DEF Reconnectable, JobSound, DistinctNames
  <2>5. /\ job' = [job EXCEPT ![at] = "running"]
        /\ output' = [output EXCEPT ![at] = IF @ = "local" THEN "lost" ELSE @]
        /\ session' = [session EXCEPT ![at] = "open"]
        /\ retrievals' = [retrievals EXCEPT ![at] = 0]
        /\ reconnects' = [reconnects EXCEPT ![Location[at]] = 0]
    BY <1>5, <2>4, FaultType DEF Reconnect, Typed, RemoteTypeOK
  <2>6. /\ output' = output
        /\ \A x \in Machine \ {at} : /\ job'[x] = job[x] /\ session'[x] = session[x]
                                     /\ retrievals'[x] = retrievals[x]
        /\ job'[at] = "running" /\ retrievals'[at] = 0
        /\ \A x \in Machine : reconnects[Location[x]] = 0 => reconnects'[Location[x]] = 0
    BY <2>1, <2>3, <2>5, LocationName DEF Typed, RemoteTypeOK
  <2>7. \A x \in batch : JobSound(x)'
    BY <2>1, <2>2, <2>6 DEF JobSound
  <2>8. at \notin pending
    BY <2>3 DEF Heard, Waiting, Untouched
  <2>9. \A x \in pending : Untouched(x)'
    BY <2>1, <2>6, <2>8 DEF Heard, Waiting, Untouched, Typed, RemoteTypeOK
  <2> QED BY <2>1, <2>7, <2>9, VisitHeard DEF callVars
<1>6. ASSUME NEW m \in Machine, Skip(m) PROVE Heard'
  <2>1. /\ pc = "get" /\ Visited(m, status') /\ UNCHANGED <<pending, batch>>
        /\ UNCHANGED <<retrievals, reconnects, status, jobResults, remoteVars>>
    BY <1>6 DEF Skip, callVars
  <2>2. \A x \in batch : JobSound(x)'
    BY <2>1 DEF Heard, LoopSound, JobSound, remoteVars
  <2> QED BY <1>1, <2>1, <2>2, VisitHeard
<1>7. ASSUME NEW m \in Machine, GetJob(m) PROVE Heard'
  <2>1. /\ pc = "get" /\ pc' = "receive" /\ at' = m /\ seen' = job[m] /\ m \in batch
        /\ UNCHANGED <<pending, batch, reconnects, status, jobResults, remoteVars>>
        /\ retrievals' = [retrievals EXCEPT ![m] = 0]
    BY <1>7 DEF GetJob, callVars, Typed, RemoteTypeOK
  <2>2. \A x \in batch : JobSound(x)
    BY <2>1 DEF Heard, LoopSound
  <2>3. \A x \in batch : JobSound(x)'
    BY <2>1, <2>2 DEF JobSound, remoteVars, Typed, RemoteTypeOK
  <2>4. VisitSound'
    BY <2>1, <2>2 DEF VisitSound, JobSound, remoteVars
  <2> QED BY <1>1, <2>1, <2>3, <2>4 DEF Heard, Waiting, LoopSound, EveryJobHeard
<1>8. ASSUME NEW m \in Machine, GetJobFails(m) PROVE FALSE
  BY <1>8, FaultType DEF GetJobFails, Typed, RemoteTypeOK
<1> QED BY <1>2, <1>3, <1>4, <1>5, <1>6, <1>7, <1>8

LEMMA CallHeard ==
  ASSUME Typed, Typed', PassedSoFar, Heard, faults = 0, faults' = 0,
         Begin \/ ConnectFails \/ Invoke \/ Report \/ \E m \in Machine : Connect(m)
  PROVE  Heard'
<1>1. CASE Begin
  <2>1. /\ batch' \subseteq pending /\ pending' \subseteq pending /\ pc' = "connect"
        /\ UNCHANGED remoteVars
    BY <1>1 DEF Begin
  <2> QED BY <2>1 DEF Heard, Waiting, Untouched, LoopSound, VisitSound, EveryJobHeard,
                      remoteVars
<1>2. CASE ConnectFails
  BY <1>2, FaultType DEF ConnectFails, Typed, RemoteTypeOK
<1>3. CASE Invoke
  <2>1. /\ pc = "invoke" /\ pc' = "get" /\ UNCHANGED <<pending, batch, output, session>>
        /\ job' = [m \in Machine |-> IF m \in batch THEN "running" ELSE job[m]]
        /\ script' = [m \in Machine |-> IF m \in batch THEN "running" ELSE script[m]]
        /\ status' = [l \in Names |-> "Unknown"]
        /\ reconnects' = [l \in Names |-> 0] /\ retrievals' = [m \in Machine |-> 0]
    BY <1>3, FaultType DEF Invoke, callVars, Typed, RemoteTypeOK
  <2>2. \A x \in batch : Untouched(x)
    BY <2>1 DEF Heard, Waiting
  <2>3. \A x \in batch : JobSound(x)'
    BY <2>1, <2>2, LocationName DEF JobSound, Untouched, Typed, RemoteTypeOK
  <2>4. \A x \in pending : Untouched(x)'
    BY <2>1 DEF Heard, Waiting, Untouched, PassedSoFar, Typed, RemoteTypeOK
  <2> QED BY <2>1, <2>3, <2>4 DEF Heard, Waiting, LoopSound, VisitSound, EveryJobHeard
<1>4. CASE Report
  <2>1. /\ pc' \in {"ended", "begin"} /\ UNCHANGED <<pending, batch, script, output, job>>
    BY <1>4 DEF Report, Throw
  <2> QED BY <2>1 DEF Heard, Waiting, Untouched, LoopSound, VisitSound, EveryJobHeard
<1>5. ASSUME NEW m \in Machine, Connect(m) PROVE Heard'
  <2>1. /\ pc = "connect" /\ pc' \in {"connect", "invoke"}
        /\ UNCHANGED <<pending, batch, script, output, job>>
    BY <1>5 DEF Connect
  <2> QED BY <2>1 DEF Heard, Waiting, Untouched, LoopSound, VisitSound, EveryJobHeard
<1> QED BY <1>1, <1>2, <1>3, <1>4, <1>5

LEMMA HeardStep ==
  ASSUME DistinctNames, Typed, Typed', PassedSoFar, Heard, [Next]_vars
  PROVE  Heard'
<1>1. CASE faults' # 0
  BY <1>1 DEF Heard
<1>2. CASE faults' = 0
  <2>1. faults = 0
    BY <1>2, FaultsStay
  <2>2. CASE UNCHANGED vars
    BY <2>1, <2>2 DEF Heard, Waiting, Untouched, LoopSound, JobSound, VisitSound,
       EveryJobHeard, vars, loopVars, callVars, remoteVars, boundVars
  <2>3. CASE Next
    BY <1>2, <2>1, <2>3, RemoteHeard, LoopHeard, CallHeard DEF Next, TaskStep
  <2> QED BY <2>2, <2>3
<1> QED BY <1>1, <1>2

(* Where no two entries of the input name one machine, every result is heard *)
(* however many connections drop, at whatever moment: a dropped job is       *)
(* received from before it is reconnected, its session can be reconnected at *)
(* the first attempt, and a completed job is read once more.               *)
THEOREM EveryoneHeard ==
  ASSUME DistinctNames
  PROVE  Spec => []EveryJobHeard
<1>1. Init => Typed /\ Succeeding /\ Heard
  BY TypedInit, MachineAssumption
     DEF Init, Succeeding, PassedSoFar, SuccessIsComplete, Heard, Waiting, Untouched,
         LoopSound, VisitSound, EveryJobHeard
<1>2. Typed /\ Succeeding /\ Heard /\ [Next]_vars => (Typed /\ Succeeding /\ Heard)'
  BY TypedStep, SucceedingStep, HeardStep DEF Succeeding
<1>3. Heard => EveryJobHeard
  BY DEF Heard, EveryJobHeard
<1> QED BY <1>1, <1>2, <1>3, PTL DEF Spec

-----------------------------------------------------------------------------
(* With faults: what the loop is through with.                             *)

(* Nobody visits the job of m any more, and why that loses nothing.        *)
Settled(m) ==
  \/ m \in jobResults
  \/ retrievals[m] >= MaxRetrievals
  \/ job[m] \in {"none", "disconnected", "broken"}

Collected(m) ==
  /\ script[m] = "running" => output[m] = "none"
  /\ output[m] = "received" => m \in jobResults
  /\ output[m] # "lost"
  /\ job[m] = "completed" => output[m] \in {"local", "received"}
  /\ status[Location[m]] = "Finished" => Settled(m)

(* The visit acts on the state it has seen, and nobody else has ended the  *)
(* visits to the job.                                                      *)
VisitCurrent ==
  /\ pc \in {"receive", "decide"} =>
       /\ status[Location[at]] = "Unknown"
       /\ seen = "completed" => job[at] = "completed"
       /\ seen \notin {"completed", "running"} => job[at] \notin {"completed", "running"}
  /\ pc = "decide" =>
       /\ seen = "completed" => at \in jobResults
       /\ seen \notin {"completed", "running"} => output[at] # "local"

Collecting ==
  /\ Waiting
  /\ \A m \in batch : Collected(m)
  /\ VisitCurrent

LEMMA CollectedEnough ==
  ASSUME Typed, Collecting
  PROVE  FinishedCollected
<1> SUFFICES ASSUME NEW m \in batch, status[Location[m]] = "Finished",
                    job[m] = "completed", retrievals[m] < MaxRetrievals
             PROVE  m \in jobResults
  BY DEF FinishedCollected
<1>1. Settled(m) /\ m \in Machine
  BY DEF Collecting, Collected, Typed, RemoteTypeOK
<1>2. ~(retrievals[m] >= MaxRetrievals)
  BY <1>1, LimitAssumption DEF Typed, RemoteTypeOK
<1> QED BY <1>1, <1>2 DEF Settled

(* The machines and the network: a job that is not running stays as it is,  *)
(* or its session is lost.                                                 *)
LEMMA RemoteCollects ==
  ASSUME Typed, Collecting, Remote
  PROVE  Collecting'
<1> USE DEF Typed, RemoteTypeOK, VisitingOne, Collecting, Waiting, Untouched, Collected,
            Settled, VisitCurrent, loopVars, callVars, boundVars
<1>1. PICK m \in Machine : \/ ScriptEnds(m) \/ Deliver(m) \/ Complete(m)
                           \/ Drop(m) \/ Break(m)
  BY DEF Remote
<1>2. CASE ScriptEnds(m)
  <2>1. /\ script[m] = "running" /\ output'[m] = "remote"
        /\ \A x \in Machine \ {m} : script'[x] = script[x] /\ output'[x] = output[x]
        /\ UNCHANGED <<pc, loopVars, callVars, boundVars, job, session>>
    BY <1>2 DEF ScriptEnds
  <2>2. script'[m] # "running"
    BY <1>2 DEF ScriptEnds, Ending
  <2>3. m \notin pending /\ (pc \in {"connect", "invoke"} => m \notin batch)
    BY <2>1
  <2>4. m \in batch => output[m] = "none" /\ job[m] # "completed"
    BY <2>1
  <2>5. Waiting'
    BY <2>1, <2>3
  <2>6. \A x \in batch' : Collected(x)'
    BY <2>1, <2>2, <2>4
  <2>7. VisitCurrent'
    BY <2>1
  <2> QED BY <2>5, <2>6, <2>7
<1>3. CASE Deliver(m)
  BY <1>3 DEF Deliver
<1>4. CASE Complete(m)
  BY <1>4 DEF Complete
<1>5. CASE Drop(m)
  BY <1>5 DEF Drop
<1>6. CASE Break(m)
  <2>1. UNCHANGED <<pc, loopVars, callVars, script, output>>
    BY <1>6 DEF Break
  <2>2. /\ job[m] \in {"running", "disconnected"} /\ job'[m] = "broken"
        /\ \A x \in Machine \ {m} : job'[x] = job[x]
    BY <1>6 DEF Break
  <2>3. Waiting'
    BY <2>1, <2>2
  <2>4. \A x \in batch' : Collected(x)'
    BY <2>1, <2>2
  <2>5. VisitCurrent'
    BY <2>1, <2>2
  <2> QED BY <2>3, <2>4, <2>5
<1> QED BY <1>1, <1>2, <1>3, <1>4, <1>5, <1>6

(* A visit that ends leaves the other jobs as they were. *)
LEMMA VisitCollects ==
  ASSUME Typed, Collecting, NEW m, Visited(m, status'), UNCHANGED <<batch, pending>>,
         \A x \in pending : Untouched(x)', \A x \in batch : Collected(x)'
  PROVE  Collecting'
<1>1. pc' \in {"get", "report"}
  BY VisitedType DEF Typed, RemoteTypeOK
<1> QED BY <1>1 DEF Collecting, Waiting, VisitCurrent

LEMMA LoopCollects ==
  ASSUME DistinctNames, Typed, Typed', PassedSoFar, Collecting,
         \/ Receive \/ DecideSettled \/ GiveUp \/ Reconnect
         \/ \E m \in Machine : Skip(m) \/ GetJob(m) \/ GetJobFails(m)
  PROVE  Collecting'
<1>1. /\ \A x \in batch : Collected(x)
      /\ \A x \in pending : Untouched(x)
      /\ batch \subseteq Machine /\ pending \subseteq Machine /\ batch \cap pending = {}
  BY DEF Collecting, Waiting, Typed, RemoteTypeOK, PassedSoFar
<1>2. CASE Receive
  <2>1. pc = "receive" /\ pc' = "decide" /\ at \in batch /\ at \in Machine
    BY <1>2 DEF Receive, Typed, RemoteTypeOK, VisitingOne
  <2>2. /\ UNCHANGED <<batch, pending, at, seen, retrievals, status, script, job>>
        /\ \A x \in Machine \ {at} : output'[x] = output[x]
        /\ output[at] # "local" => output'[at] = output[at] /\ jobResults' = jobResults
        /\ output[at] = "local" => /\ output'[at] = "received"
                                   /\ jobResults' = jobResults \cup {at}
    BY <1>2, <2>1 DEF Receive, Typed, RemoteTypeOK, callVars
  <2>3. \A x \in batch : Collected(x)'
    BY <1>1, <2>1, <2>2 DEF Collected, Settled
  <2>4. \A x \in pending : Untouched(x)'
    BY <1>1, <2>1, <2>2 DEF Untouched
  <2>5. VisitCurrent'
    BY <1>1, <2>1, <2>2 DEF Collecting, VisitCurrent, Collected
  <2> QED BY <2>1, <2>2, <2>3, <2>4, <2>5 DEF Collecting, Waiting
<1>3. CASE DecideSettled
  <2>1. /\ pc = "decide" /\ at \in batch /\ at \in Machine
        /\ status' = IF seen = "completed"
                       THEN [status EXCEPT ![Location[at]] = "Finished"] ELSE status
        /\ Visited(at, status')
        /\ UNCHANGED <<retrievals, jobResults, callVars, remoteVars>>
    BY <1>3 DEF DecideSettled, Typed, RemoteTypeOK, VisitingOne
  <2>2. seen = "completed" => at \in jobResults
    BY <2>1 DEF Collecting, VisitCurrent
  <2>3. \A x \in batch : x # at => status'[Location[x]] = status[Location[x]]
    BY <1>1, <2>1, LocationName DEF DistinctNames, Typed, RemoteTypeOK
  <2>4. \A x \in batch : Collected(x)'
    BY <1>1, <2>1, <2>2, <2>3 DEF Collected, Settled, callVars, remoteVars
  <2>5. \A x \in pending : Untouched(x)'
    BY <1>1, <2>1 DEF Untouched, remoteVars
  <2> QED BY <2>1, <2>4, <2>5, VisitCollects DEF callVars
<1>4. CASE GiveUp
  <2>1. /\ pc = "decide" /\ at \in batch /\ at \in Machine
        /\ seen \notin {"completed", "running"}
        /\ status' = [status EXCEPT ![Location[at]] = "Finished"]
        /\ Visited(at, status')
        /\ UNCHANGED <<retrievals, jobResults, callVars, remoteVars>>
    BY <1>4 DEF GiveUp, Typed, RemoteTypeOK, VisitingOne
  <2>2. job[at] \in {"none", "disconnected", "broken"}
    BY <2>1 DEF Collecting, VisitCurrent, Typed, RemoteTypeOK
  <2>3. \A x \in batch : x # at => status'[Location[x]] = status[Location[x]]
    BY <1>1, <2>1, LocationName DEF DistinctNames, Typed, RemoteTypeOK
  <2>4. \A x \in batch : Collected(x)'
    BY <1>1, <2>1, <2>2, <2>3 DEF Collected, Settled, callVars, remoteVars
  <2>5. \A x \in pending : Untouched(x)'
    BY <1>1, <2>1 DEF Untouched, remoteVars
  <2> QED BY <2>1, <2>4, <2>5, VisitCollects DEF callVars
<1>5. CASE Reconnect
  <2>1. /\ pc = "decide" /\ at \in batch /\ at \in Machine
        /\ seen \notin {"completed", "running"}
        /\ Visited(at, status')
        /\ UNCHANGED <<status, jobResults, callVars, script>>
    BY <1>5 DEF Reconnect, Typed, RemoteTypeOK, VisitingOne
  <2>2. status[Location[at]] = "Unknown" /\ output[at] # "local"
    BY <2>1 DEF Collecting, VisitCurrent
  <2>3. /\ output' = output
        /\ \A x \in Machine \ {at} : job'[x] = job[x] /\ retrievals'[x] = retrievals[x]
        /\ job'[at] \in {job[at], "running"}
    BY <1>5, <2>1, <2>2 DEF Reconnect, Typed, RemoteTypeOK
  <2>4. \A x \in batch : Collected(x)'
    BY <1>1, <2>1, <2>2, <2>3 DEF Collected, Settled
  <2>5. \A x \in pending : Untouched(x)'
    BY <1>1, <2>1, <2>3 DEF Untouched
  <2> QED BY <2>1, <2>4, <2>5, VisitCollects DEF callVars
<1>6. ASSUME NEW m \in Machine, Skip(m) PROVE Collecting'
  <2>1. /\ Visited(m, status')
        /\ UNCHANGED <<retrievals, status, jobResults, callVars, remoteVars>>
    BY <1>6 DEF Skip
  <2>2. /\ \A x \in batch : Collected(x)'
        /\ \A x \in pending : Untouched(x)'
    BY <1>1, <2>1 DEF Collected, Settled, Untouched, callVars, remoteVars
  <2> QED BY <2>1, <2>2, VisitCollects DEF callVars
<1>7. ASSUME NEW m \in Machine, GetJob(m) PROVE Collecting'
  <2>1. /\ pc = "get" /\ pc' = "receive" /\ at' = m /\ seen' = job[m] /\ m \in batch
        /\ status[Location[m]] = "Unknown"
        /\ UNCHANGED <<status, jobResults, callVars, remoteVars>>
        /\ \A x \in Machine \ {m} : retrievals'[x] = retrievals[x]
    BY <1>7 DEF GetJob, Typed, RemoteTypeOK
  <2>2. /\ \A x \in batch : Collected(x)'
        /\ \A x \in pending : Untouched(x)'
    BY <1>1, <2>1 DEF Collected, Settled, Untouched, callVars, remoteVars
  <2>3. VisitCurrent'
    BY <2>1 DEF VisitCurrent, remoteVars
  <2> QED BY <2>1, <2>2, <2>3 DEF Collecting, Waiting, callVars
<1>8. ASSUME NEW m \in Machine, GetJobFails(m) PROVE Collecting'
  <2>1. /\ m \in batch /\ status[Location[m]] = "Unknown"
        /\ retrievals' = [retrievals EXCEPT ![m] = @ + 1]
        /\ status' = IF retrievals'[m] >= MaxRetrievals
                       THEN [status EXCEPT ![Location[m]] = "Finished"] ELSE status
        /\ Visited(m, status')
        /\ UNCHANGED <<jobResults, callVars, remoteVars>>
    BY <1>8 DEF GetJobFails, Typed, RemoteTypeOK
  <2>2. \A x \in batch : x # m => /\ status'[Location[x]] = status[Location[x]]
                                  /\ retrievals'[x] = retrievals[x]
    BY <1>1, <2>1, LocationName DEF DistinctNames, Typed, RemoteTypeOK
  <2>3. status'[Location[m]] = "Finished" => retrievals'[m] >= MaxRetrievals
    BY <2>1
  <2>4. \A x \in batch : Collected(x)'
    BY <1>1, <2>1, <2>2, <2>3 DEF Collected, Settled, callVars, remoteVars
  <2>5. \A x \in pending : Untouched(x)'
    BY <1>1, <2>1 DEF Untouched, remoteVars
  <2> QED BY <2>1, <2>4, <2>5, VisitCollects DEF callVars
<1> QED BY <1>2, <1>3, <1>4, <1>5, <1>6, <1>7, <1>8

(* A new call begins with machines nobody has touched; an exception keeps  *)
(* everything as it was.                                                   *)
LEMMA CallCollects ==
  ASSUME Typed, PassedSoFar, Collecting,
         Begin \/ ConnectFails \/ Invoke \/ Report \/ \E m \in Machine : Connect(m)
  PROVE  Collecting'
<1>1. CASE Begin
  <2>1. /\ batch' \subseteq pending /\ pending' \subseteq pending /\ pc' = "connect"
        /\ UNCHANGED remoteVars
    BY <1>1 DEF Begin
  <2>2. \A x \in pending : Untouched(x)'
    BY <2>1 DEF Collecting, Waiting, Untouched, remoteVars
  <2>3. \A x \in batch' : Collected(x)'
    BY <2>1, <2>2 DEF Collected, Settled, Untouched
  <2> QED BY <2>1, <2>2, <2>3 DEF Collecting, Waiting, VisitCurrent
<1>2. ASSUME UNCHANGED <<batch, pending, loopVars, script, output, job>>,
             pc' \notin {"receive", "decide"},
             pc' \in {"connect", "invoke"} => pc \in {"connect", "invoke"}
      PROVE  Collecting'
  BY <1>2 DEF Collecting, Waiting, Untouched, Collected, Settled, VisitCurrent, loopVars
<1>3. CASE Throw
  BY <1>2, <1>3 DEF Throw
<1>4. CASE ConnectFails
  BY <1>2, <1>3, <1>4 DEF ConnectFails, callVars, remoteVars
<1>5. CASE Invoke
  <2>1. CASE /\ pc' = "get" /\ UNCHANGED <<batch, pending, jobResults, output>>
             /\ job' = [m \in Machine |-> IF m \in batch THEN "running" ELSE job[m]]
             /\ script' = [m \in Machine |-> IF m \in batch THEN "running" ELSE script[m]]
             /\ status' = [l \in Names |-> "Unknown"]
    <3>1. \A x \in batch : Untouched(x)
      BY <1>5 DEF Invoke, Collecting, Waiting
    <3>2. \A x \in batch : Collected(x)'
      BY <2>1, <3>1, LocationName DEF Collected, Settled, Untouched, Typed, RemoteTypeOK
    <3>3. \A x \in pending : Untouched(x)'
      BY <2>1 DEF Collecting, Waiting, Untouched, PassedSoFar, Typed, RemoteTypeOK
    <3> QED BY <2>1, <3>2, <3>3 DEF Collecting, Waiting, VisitCurrent
  <2> QED BY <1>3, <1>5, <2>1 DEF Invoke, callVars
<1>6. CASE Report
  BY <1>2, <1>3, <1>6 DEF Report
<1>7. ASSUME NEW m \in Machine, Connect(m) PROVE Collecting'
  <2>1. /\ pc = "connect" /\ pc' \in {"connect", "invoke"}
        /\ UNCHANGED <<batch, pending, retrievals, status, jobResults, script, output, job>>
    BY <1>7 DEF Connect
  <2> QED BY <2>1 DEF Collecting, Waiting, Untouched, Collected, Settled, VisitCurrent
<1> QED BY <1>1, <1>4, <1>5, <1>6, <1>7

LEMMA CollectingStep ==
  ASSUME DistinctNames, Typed, Typed', PassedSoFar, Collecting, [Next]_vars
  PROVE  Collecting'
<1>1. CASE UNCHANGED vars
  BY <1>1 DEF Collecting, Waiting, Untouched, Collected, Settled, VisitCurrent,
     vars, loopVars, callVars, remoteVars, boundVars
<1> QED BY <1>1, RemoteCollects, LoopCollects, CallCollects DEF Next, TaskStep

(* Whatever fails and whenever connections drop: a completed job that the   *)
(* loop is through with was heard, unless it could not be retrieved.  The   *)
(* state is read before the output, a job that has dropped delivers nothing *)
(* before it is reconnected, and one that is given up never completes.     *)
THEOREM FinishedAreCollected ==
  ASSUME DistinctNames
  PROVE  Spec => []FinishedCollected
<1>1. Init => Typed /\ Succeeding /\ Collecting
  BY TypedInit, MachineAssumption
     DEF Init, Succeeding, PassedSoFar, SuccessIsComplete, Collecting, Waiting, Untouched,
         VisitCurrent
<1>2. Typed /\ Succeeding /\ Collecting /\ [Next]_vars => (Typed /\ Succeeding /\ Collecting)'
  BY TypedStep, SucceedingStep, CollectingStep DEF Succeeding
<1>3. Typed /\ Collecting => FinishedCollected
  BY CollectedEnough
<1> QED BY <1>1, <1>2, <1>3, PTL DEF Spec
=============================================================================
