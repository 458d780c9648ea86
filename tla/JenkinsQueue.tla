---------------------------- MODULE JenkinsQueue ----------------------------
(***************************************************************************)
(* The JenkinsQueueJobV2 task after it has submitted its job: the JobQueue *)
(* with its 100 ms tick, the tree of Job objects that follow the builds of *)
(* a Jenkins pipeline, the JobSearch objects that find the builds, and the *)
(* final report.  The task is one Node.js process: every timer or response *)
(* callback is one atomic action, and a promise continuation that is       *)
(* already due runs before any other callback.  A request is answered from *)
(* one state of the server, that of the moment of the response.            *)
(***************************************************************************)
EXTENDS JenkinsServer, JenkinsJobStates

CONSTANTS
  Job,          \* the Job objects the task may construct
  Root, NoJob,
  Parent,       \* Parent[j]: Job.Parent, NoJob for the root
  Ident,        \* Ident[j]: Job.Identifier
  OptionSet,    \* the TaskOptions the task may be started with
  Faults,       \* kinds of failed requests that may occur
  MaxFaults     \* bound: failed requests in one behaviour

FaultKind == {"initReset", "initFail", "pollReset", "pollError",
              "streamStatus", "unauthorized", "finishStatus",
              "locateStatus", "reportStatus", "reportError", "logEndsEarly"}

Options == [captureConsole : BOOLEAN, capturePipeline : BOOLEAN,
            teamBuildPlugin : BOOLEAN, shouldFail : BOOLEAN]

Children(j) == {c \in Job : Parent[c] = j}

ASSUME JobAssumption ==
  /\ Root \in Job /\ NoJob \notin Job
  /\ Parent \in [Job -> Job \cup {NoJob}]
  /\ \A j \in Job : Parent[j] = NoJob <=> j = Root
  /\ Ident \in [Job -> Id]
  /\ \A j \in Job : Ident[j] = RootId <=> j = Root

(* A Job object is constructed by its parent: every chain of parents ends,   *)
(* at the root.                                                            *)
ASSUME RootAssumption ==
  \A S \in SUBSET Job : S # {} => \E j \in S : Parent[j] \notin S

(* The children of a job are the downstream projects of its own project,   *)
(* one child for each.                                                     *)
ASSUME TreeAssumption ==
  \A j \in Job : /\ {Ident[c] : c \in Children(j)} = Downstream[Ident[j]]
                 /\ \A c, d \in Children(j) : Ident[c] = Ident[d] => c = d

ASSUME OptionAssumption ==
  /\ OptionSet \subseteq Options
  /\ \A o \in OptionSet : /\ o.capturePipeline => o.captureConsole
                          /\ ~o.shouldFail
  /\ Faults \subseteq FaultKind /\ MaxFaults \in Nat

VARIABLES
  state,        \* Job.State, "Absent" before construction
  num,          \* Job.ExecutableNumber, -1 when not known
  joined,       \* Job.Joined
  pc,           \* what the job's asynchronous work is waiting for
  console,      \* jobs with jobConsoleEnabled
  opts,         \* TaskOptions; a 401 changes them
  ctor,         \* ctor[id]: the JobSearch constructor's request is in flight
  initialized,  \* JobSearch.Initialized
  initialNum,   \* initialSearchBuildNumber
  nextNum,      \* nextSearchBuildNumber
  forward,      \* searchDirection > 0
  spc,          \* what the search is waiting for
  searchingFor, \* JobSearch.searchingFor
  foundCauses,  \* foundCauses[id]: build numbers whose causes are known
  unresolved,   \* locateExecution's loop: jobs not yet looked at
  phase,        \* of the process
  complete,     \* stop's argument
  failed,       \* some tl.setResult(Failed) has been issued
  faults,       \* failed requests so far
  threw         \* history: a state check (Util.fail) has thrown

trackVars  == <<state, num, joined>>
initVars   == <<ctor, initialized, initialNum>>
searchVars == <<nextNum, forward, spc, searchingFor, foundCauses, unresolved>>
runVars    == <<phase, complete, threw>>
vars == <<trackVars, pc, console, opts, initVars, searchVars, runVars, failed,
          faults, serverVars>>

-----------------------------------------------------------------------------
(* Derived from the tree and from the server.                              *)

Ancestors[j \in Job] ==
  IF j = Root THEN {} ELSE {Parent[j]} \cup Ancestors[Parent[j]]

Result(j) == builds[Ident[j]][num[j]].result

GoodResult == {"SUCCESS", "UNSTABLE"}

(* Seeded fault: an unstable build counts as a failed one. *)
HasFailedUnlessStable(j) == state[j] = "Done" /\ Result(j) # "SUCCESS"

(* GetTaskResult of a job that is Done. *)
HasFailed(j) == state[j] = "Done" /\ Result(j) \notin GoodResult

(* The causes of a build are known once foundCauses has them. *)
CauseSet(id, n) ==
  {builds[id][n].causes[i] : i \in DOMAIN builds[id][n].causes}

-----------------------------------------------------------------------------
(* Tracking: what the synchronous part of a callback does to the jobs.  t   *)
(* is the tracking state [state, num, joined, known, legal]; legal becomes  *)
(* FALSE where the code calls Util.fail, and nothing is done after that.   *)

Track(st, nu, jo, kn, le) ==
  [state |-> st, num |-> nu, joined |-> jo, known |-> kn, legal |-> le]

T == Track(state, num, joined, foundCauses, TRUE)

(* A check throws: what was changed before it stays. *)
Thrown(t) == Track(t.state, t.num, t.joined, t.known, FALSE)

BuildNumber(t, j) == <<Ident[j], t.num[j]>>

(* Seeded fault: the child's identifier is not compared. *)
CauseChildrenAnyIdent(t, id, n, S) ==
  {x \in Job \ {Root} :
     /\ n \in t.known[id] /\ t.state[x] # "Absent"
     /\ t.state[Parent[x]] \in S
     /\ BuildNumber(t, Parent[x]) \in CauseSet(id, n)}

(* findChild over the causes of build n of project id: the children with    *)
(* this identifier whose parent is a cause in one of the states S.          *)
CauseChildren(t, id, n, S) ==
  {x \in Job \ {Root} :
     /\ n \in t.known[id] /\ Ident[x] = id /\ t.state[x] # "Absent"
     /\ t.state[Parent[x]] \in S
     /\ BuildNumber(t, Parent[x]) \in CauseSet(id, n)}

Masters(t, id, n) ==
  {x \in CauseChildren(t, id, n, Ran) : t.state[x] \in Mastering}

(* The position of a child's parent in the list of causes. *)
CausePosition(t, id, n, x) ==
  CHOOSE i \in DOMAIN builds[id][n].causes :
    builds[id][n].causes[i] = BuildNumber(t, Parent[x])

(* Seeded fault: the cause's project is compared, not its number. *)
MainJobOfProject(t, id, n) ==
  LET of == {x \in Job \ {Root} :
               /\ Ident[x] = id /\ t.state[x] # "Absent"
               /\ t.state[Parent[x]] \in Ran
               /\ \E c \in CauseSet(id, n) : c[1] = Ident[Parent[x]]}
  IN IF of = {} THEN NoJob ELSE CHOOSE x \in of : TRUE

MainJob(t, id, n) ==
  LET ran == CauseChildren(t, id, n, Ran)
      masters == Masters(t, id, n)
  IN CASE masters # {} -> CHOOSE x \in masters : TRUE
       [] masters = {} /\ ran # {} ->
            CHOOSE x \in ran : \A y \in ran :
              CausePosition(t, id, n, x) <= CausePosition(t, id, n, y)
       [] OTHER -> NoJob

(* Seeded fault: the other children are never found. *)
SecondariesNone(t, id, n) == {}

(* The other children whose parent ran, or never will: there are none as     *)
(* long as there is no main job.                                           *)
Secondaries(t, id, n) ==
  {x \in CauseChildren(t, id, n, Ran \cup GivenUp) \ Masters(t, id, n) :
     MainJob(t, id, n) \notin {x, NoJob}}

(* DetermineMainJob does not throw: the build is known, there is at most one *)
(* master, and no cause is in an unexpected state.                         *)
Determinable(t, id, n) ==
  /\ n \in t.known[id]
  /\ \A x, y \in Masters(t, id, n) : x = y
  /\ \A x \in Job : t.state[x] = "Killed"
                      => BuildNumber(t, x) \notin CauseSet(id, n)

(* Seeded fault: Job.Joined is not set. *)
JoinedToNobody(t, S, m) ==
  LET cut == {d \in Job : t.state[d] # "Absent" /\ S \cap Ancestors[d] # {}}
  IN Track([x \in Job |-> IF x \in S THEN "Joined"
                          ELSE IF x \in cut THEN "Cut" ELSE t.state[x]],
           t.num, t.joined, t.known, t.legal)

(* Seeded fault: the jobs below a joined one are not cut. *)
JoinedToNoCut(t, S, m) ==
  Track([x \in Job |-> IF x \in S THEN "Joined" ELSE t.state[x]], t.num,
        [x \in Job |-> IF x \in S THEN m ELSE t.joined[x]], t.known, t.legal)

(* SetJoined(m) of the jobs in S, which cuts the jobs below them.  Joined is *)
(* set before the state is checked, and m is checked before anything is cut. *)
JoinedTo(t, S, m) ==
  LET joins == {x \in S : CheckStateTransition(t.state[x], "Joined")}
      below == {d \in Job : t.state[d] # "Absent" /\ joins \cap Ancestors[d] # {}}
      cut == {d \in below : /\ t.state[m] \notin GivenUp
                            /\ CheckStateTransition(t.state[d], "Cut")}
  IN Track([x \in Job |-> IF x \in joins THEN "Joined"
                          ELSE IF x \in cut THEN "Cut" ELSE t.state[x]],
           t.num,
           [x \in Job |-> IF x \in S THEN m ELSE t.joined[x]],
           t.known,
           /\ t.legal
           /\ S # {} => t.state[m] \notin GivenUp
           /\ joins = S /\ cut = below)

(* Job.Cut *)
CutTree(t, j) ==
  LET below == {d \in Job : t.state[d] # "Absent" /\ j \in Ancestors[d] \cup {d}}
      cut == {d \in below : CheckStateTransition(t.state[d], "Cut")}
  IN Track([x \in Job |-> IF x \in cut THEN "Cut" ELSE t.state[x]],
           t.num, t.joined, t.known, t.legal /\ cut = below)

(* The jobs of S that joinOthersToMe comes to: secondaryJobs lists those whose *)
(* parent ran before the others, each in the order of the causes, and the    *)
(* loop ends at the first one that may not be joined.                       *)
Reached(t, id, n, S) ==
  LET late(x) == t.state[Parent[x]] \in GivenUp
      before(x, y) ==
        \/ late(y) /\ ~late(x)
        \/ /\ late(y) <=> late(x)
           /\ CausePosition(t, id, n, x) < CausePosition(t, id, n, y)
  IN {y \in S : \A x \in S : before(x, y) => CheckStateTransition(t.state[x], "Joined")}

(* joinOthersToMe *)
WithOthersJoined(t, j) ==
  LET id == Ident[j]
      n == t.num[j]
      others == {x \in Secondaries(t, id, n) : t.state[x] # "Cut"}
  IN CASE j = Root -> t
       [] j # Root /\ Determinable(t, id, n) /\ MainJob(t, id, n) = j ->
            JoinedTo(t, Reached(t, id, n, others), j)
       [] OTHER -> Thrown(t)

(* changeState to Streaming of a pending job, in a call that leaves it in     *)
(* state s.                                                                *)
Started(t, j, s, n) ==
  Track([t.state EXCEPT ![j] = s], [t.num EXCEPT ![j] = n], t.joined, t.known, t.legal)

(* Job.SetStreaming *)
Streaming(t, j, n) ==
  CASE ~opts.captureConsole /\ t.state[j] \in Pending ->
         Started(t, j, "Finishing", t.num[j])
    [] opts.captureConsole /\ t.state[j] \in Pending ->
         WithOthersJoined(Started(t, j, "Streaming", n), j)
    [] opts.captureConsole /\ t.state[j] \notin Pending \cup GivenUp ->
         WithOthersJoined(t, j)
    [] OTHER -> Thrown(t)

(* Seeded fault: a job whose parent is a cause of a build follows it, whoever *)
(* follows it already.                                                     *)
ResolvedAlone(t, j) ==
  LET hits == {n \in t.known[Ident[j]] : j \in CauseChildren(t, Ident[j], n, Ran)}
  IN CASE t.state[j] \notin Pending -> t
       [] t.state[j] \in Pending /\ j = Root -> Streaming(t, j, t.num[j])
       [] OTHER -> IF hits = {} THEN t
                   ELSE Started(t, j, "Streaming", CHOOSE n \in hits : TRUE)

(* JobSearch.ResolveIfKnown; the job is resolved iff it is no longer pending *)
(* afterwards.  The known builds are tried in ascending order.             *)
Resolved(t, j) ==
  LET id == Ident[j]
      hits == {n \in t.known[id] : j = MainJob(t, id, n)
                                     \/ j \in Secondaries(t, id, n)}
      first == CHOOSE n \in hits : \A m \in hits : n <= m
      tried == IF hits = {} THEN t.known[id] ELSE {n \in t.known[id] : n <= first}
      safe == \A n \in tried : Determinable(t, id, n)
      main == MainJob(t, id, first)
  IN CASE t.state[j] \notin Pending -> t
       [] t.state[j] \in Pending /\ j = Root -> Streaming(t, j, t.num[j])
       [] /\ t.state[j] \in Pending /\ j # Root
          /\ t.state[Parent[j]] \in GivenUp -> CutTree(t, j)
       [] OTHER -> CASE ~safe -> Thrown(t)
                     [] safe /\ hits = {} -> t
                     [] safe /\ hits # {} /\ main = j -> Streaming(t, j, first)
                     [] OTHER -> JoinedTo(t, {j}, main)

-----------------------------------------------------------------------------
(* Pieces of actions.                                                      *)

(* No callback is being run: the next event may be taken. *)
Free ==
  /\ phase # "ended"
  /\ \A j \in Job : pc[j] # "ready"
  /\ \A id \in Id : spc[id] # "resolving"

Fault(kind) ==
  /\ kind \in Faults
  /\ faults < MaxFaults
  /\ faults' = faults + 1

(* Seeded fault: finished jobs are not flushed. *)
FlushedWithoutDone(st) ==
  LET busy == {j \in Job : st[j] \in {"Streaming", "Finishing"}}
  IN IF (\E j \in console : st[j] \in Active) \/ ~opts.captureConsole
       THEN console
       ELSE console \cup (IF \E j \in Job : busy = {j} THEN busy ELSE {})

(* Seeded fault: every running job gets the console. *)
FlushedAllBusy(st) ==
  IF (\E j \in console : st[j] \in Active) \/ ~opts.captureConsole
    THEN console
    ELSE console \cup {j \in Job : st[j] \in {"Streaming", "Finishing", "Done"}}

(* FlushJobConsolesSafely, in the job states st.  EnableConsole does nothing *)
(* unless the console is captured.                                         *)
Flushed(st) ==
  LET busy == {j \in Job : st[j] \in {"Streaming", "Finishing"}}
      sole == IF \E j \in Job : busy = {j} THEN busy ELSE {}
      done == {j \in Job : st[j] = "Done"}
  IN IF (\E j \in console : st[j] \in Active) \/ ~opts.captureConsole
       THEN console
       ELSE console \cup done \cup sole

(* stopWork of job j with a state to go to, or to work again later. *)
Enter(j, s) ==
  /\ state' = [state EXCEPT ![j] = s]
  /\ pc' = [pc EXCEPT ![j] = "idle"]
  /\ console' = IF s \in Active THEN console ELSE Flushed(state')

Again(j) ==
  /\ pc' = [pc EXCEPT ![j] = "idle"]
  /\ UNCHANGED <<state, console>>

(* A callback threw before stopWork: the job keeps working = true for ever. *)
Stuck(j) ==
  /\ pc' = [pc EXCEPT ![j] = "stuck"]
  /\ UNCHANGED <<state, console>>

(* failReturnCode, or task-lib's handler of uncaught exceptions. *)
Fail == failed' = TRUE

-----------------------------------------------------------------------------
(* Initialization of searches and jobs.                                    *)

(* lastBuild.number; a project that never ran is assumed to start at 1. *)
LastBuild(id) == IF builds[id] = << >> THEN 1 ELSE Len(builds[id])

(* requestCallBack of JobSearch.Initialize with status 200: only the first  *)
(* answer counts, so ctor forgets a request that comes too late to matter. *)
InitSearch(id) ==
  IF initialized[id]
    THEN UNCHANGED <<initialized, initialNum, nextNum>>
    ELSE /\ initialized' = [initialized EXCEPT ![id] = TRUE]
         /\ initialNum' = [initialNum EXCEPT ![id] = LastBuild(id)]
         /\ nextNum' = [nextNum EXCEPT ![id] = LastBuild(id)]

(* The request of the JobSearch constructor is answered.  A failure is kept *)
(* by the promise: nobody else looks at it.                                *)
CtorResponse(id) ==
  /\ ctor[id] /\ Free
  /\ ctor' = [ctor EXCEPT ![id] = FALSE]
  /\ \/ InitSearch(id) /\ UNCHANGED faults
     \/ /\ ~initialized[id]
        /\ Fault("initReset") \/ Fault("initFail")
        /\ UNCHANGED <<initialized, initialNum, nextNum>>
  /\ UNCHANGED <<trackVars, pc, console, opts, forward, spc, searchingFor, foundCauses,
                 unresolved, runVars, failed, serverVars>>

(* The jobs after a resolution, which may have thrown. *)
Settle(r) ==
  /\ state' = r.state /\ num' = r.num /\ joined' = r.joined
  /\ threw' = (threw \/ ~r.legal)

(* The continuation of Job.initialize: construct the children (each with    *)
(* its search, unless the identifier has one), resolve, else start locating. *)
(* A throw skips stopWork, and only the promise gets to know of it.        *)
Continue(j) ==
  LET kids == IF opts.capturePipeline THEN Children(j) ELSE {}
      searched == {Ident[x] : x \in {y \in Job : state[y] # "Absent"}}
      t == Track([x \in Job |-> IF x \in kids THEN "New" ELSE state[x]],
                 num, joined, foundCauses, TRUE)
      r == Resolved(t, j)
  IN /\ Settle(Track([r.state EXCEPT ![j] =
                       IF @ = "New" /\ r.legal THEN "Locating" ELSE @],
                     r.num, r.joined, r.known, r.legal))
     /\ ctor' = [id \in Id |-> \/ ctor[id] /\ id # Ident[j]
                               \/ id \in {Ident[c] : c \in kids} \ searched]
     /\ pc' = [x \in Job |->
          CASE x = j -> IF r.legal THEN "idle" ELSE "stuck"
            [] x \in kids /\ x # j ->
                 IF initialized[Ident[x]] THEN "ready" ELSE "init"
            [] OTHER -> pc[x]]

(* Seeded fault: after a reset the job goes on as if it were initialized. *)
JobInitResponseUnchecked(j) ==
  /\ pc[j] = "init" /\ Free
  /\ \/ InitSearch(Ident[j]) /\ Continue(j) /\ UNCHANGED <<console, faults>>
     \/ /\ ~initialized[Ident[j]] /\ Fault("initReset") /\ Continue(j)
        /\ UNCHANGED <<console, initialized, initialNum, nextNum>>
  /\ UNCHANGED <<opts, forward, spc, searchingFor, foundCauses, unresolved,
                 phase, complete, failed, serverVars>>

(* The job's own request for the project is answered. *)
JobInitResponse(j) ==
  /\ pc[j] = "init" /\ Free
  /\ \/ InitSearch(Ident[j]) /\ Continue(j) /\ UNCHANGED <<console, faults>>
     \/ /\ ~initialized[Ident[j]] /\ Fault("initReset") /\ Again(j)
        /\ UNCHANGED <<num, joined, initVars, nextNum, threw>>
     \/ /\ ~initialized[Ident[j]] /\ Fault("initFail") /\ Stuck(j)
        /\ UNCHANGED <<num, joined, initVars, nextNum, threw>>
  /\ UNCHANGED <<opts, forward, spc, searchingFor, foundCauses, unresolved,
                 phase, complete, failed, serverVars>>

(* The search was initialized before the job: the continuation is due now. *)
JobInitReady(j) ==
  /\ phase # "ended" /\ pc[j] = "ready"
  /\ Continue(j)
  /\ UNCHANGED <<console, opts, initialized, initialNum, searchVars, phase,
                 complete, failed, faults, serverVars>>

-----------------------------------------------------------------------------
(* The tick.                                                               *)

(* findNextJobSearches, for the search of project id. *)
Sought(id) ==
  {j \in Job : /\ Ident[j] = id /\ state[j] = "Locating"
               /\ j = Root \/ state[Parent[j]] = "Done"}

(* Job.DoWork.  Only finish() looks at anything before it sends its request; *)
(* for the other states the timeout and the request are one wait.          *)
DoWork(s) == IF s = "Finishing" THEN "timer" ELSE "http"

(* The interval callback of JobQueue.Start: start the searches and the      *)
(* running jobs that are not working, then stop or flush the consoles.     *)
Tick ==
  LET starts == {id \in Id : spc[id] = "idle" /\ Sought(id) # {}}
      failing == \E j \in Job : HasFailed(j)
      active == \E j \in Job : state[j] \in Active
  IN /\ phase = "running" /\ Free
     /\ spc' = [id \in Id |-> IF id \in starts THEN "timer" ELSE spc[id]]
     /\ searchingFor' = [id \in Id |-> IF id \in starts THEN Sought(id)
                                       ELSE searchingFor[id]]
     /\ pc' = [j \in Job |-> IF pc[j] = "idle" /\ state[j] \in Running
                               THEN DoWork(state[j]) ELSE pc[j]]
     /\ console' = Flushed(state)
     /\ phase' = IF failing \/ ~active THEN "asking" ELSE "running"
     /\ complete' = (~failing /\ ~active)
     /\ UNCHANGED <<threw, trackVars, opts, initVars, nextNum, forward, foundCauses,
                    unresolved, failed, faults, serverVars>>

-----------------------------------------------------------------------------
(* The work of a job.                                                      *)

(* The timeout of a job that is finishing: a job that is not followed ends   *)
(* here, for another one the request is sent.                              *)
FinishTimer(j) ==
  /\ pc[j] = "timer" /\ Free
  /\ \/ ~opts.captureConsole /\ Enter(j, "Queued")
     \/ /\ opts.captureConsole
        /\ pc' = [pc EXCEPT ![j] = "http"]
        /\ UNCHANGED <<state, console>>
  /\ UNCHANGED <<num, joined, opts, initVars, searchVars, runVars, failed,
                 faults, serverVars>>

(* requestCallback of streamConsole.  A reset is handled there, but the       *)
(* request has a second listener for errors, which throws.                 *)
StreamResponse(j) ==
  /\ pc[j] = "http" /\ state[j] = "Streaming" /\ Free
  /\ \/ /\ Result(j) = "none" /\ Again(j)            \* x-more-data
        /\ UNCHANGED <<opts, failed, faults>>
     \/ /\ Result(j) # "none" /\ Enter(j, "Finishing")
        /\ UNCHANGED <<opts, failed, faults>>
     \/ /\ Fault("logEndsEarly") /\ Enter(j, "Finishing")
        /\ UNCHANGED <<opts, failed>>
     \/ /\ Fault("pollReset") \/ Fault("streamStatus")
        /\ Fail /\ Again(j) /\ UNCHANGED opts
     \/ Fault("pollError") /\ Fail /\ Stuck(j) /\ UNCHANGED opts
     \/ /\ Fault("unauthorized") /\ Fail /\ Enter(j, "Finishing")
        /\ opts' = [opts EXCEPT !.captureConsole = FALSE,
                                !.capturePipeline = FALSE, !.shouldFail = TRUE]
  /\ UNCHANGED <<num, joined, initVars, searchVars, runVars, serverVars>>

(* requestCallback of finish. *)
FinishResponse(j) ==
  /\ pc[j] = "http" /\ state[j] = "Finishing" /\ Free
  /\ \/ Result(j) = "none" /\ Again(j) /\ UNCHANGED <<failed, faults>>
     \/ /\ Result(j) # "none"
        /\ Enter(j, IF opts.teamBuildPlugin THEN "Downloading" ELSE "Done")
        /\ UNCHANGED <<failed, faults>>
     \/ Fault("pollReset") /\ Again(j) /\ UNCHANGED failed
     \/ Fault("finishStatus") /\ Fail /\ Enter(j, "Killed")
     \/ Fault("pollError") /\ Fail /\ Stuck(j)
  /\ UNCHANGED <<num, joined, opts, initVars, searchVars, runVars, serverVars>>

(* downloadResults: whatever the answer is, the job is done after it. *)
DownloadResponse(j) ==
  /\ pc[j] = "http" /\ state[j] = "Downloading" /\ Free
  /\ \/ Enter(j, "Done") /\ UNCHANGED <<failed, faults>>
     \/ Fault("pollReset") /\ Again(j) /\ UNCHANGED failed
     \/ Fault("pollError") /\ Fail /\ Stuck(j)
  /\ UNCHANGED <<num, joined, opts, initVars, searchVars, runVars, serverVars>>

-----------------------------------------------------------------------------
(* The work of a search.                                                   *)

(* The timeout of JobSearch.DoWork enters the loop of locateExecution. *)
SearchTimer(id) ==
  /\ spc[id] = "timer" /\ Free
  /\ spc' = [spc EXCEPT ![id] = "resolving"]
  /\ unresolved' = searchingFor[id]
  /\ UNCHANGED <<trackVars, pc, console, opts, initVars, nextNum, forward,
                 searchingFor, foundCauses, runVars, failed, faults, serverVars>>

(* One iteration of the loop.  The code takes the jobs in the order of their *)
(* construction, this action in any order.  A throw ends the loop before     *)
(* stopWork: the search keeps working = true for ever.                     *)
ResolveOne(id) ==
  /\ phase # "ended" /\ spc[id] = "resolving"
  /\ \E j \in unresolved :
       LET r == Resolved(T, j)
       IN /\ Settle(r)
          /\ failed' = (failed \/ ~r.legal)
          /\ unresolved' = IF r.legal THEN unresolved \ {j} ELSE {}
          /\ spc' = IF r.legal THEN spc ELSE [spc EXCEPT ![id] = "stuck"]
  /\ UNCHANGED <<pc, console, opts, initVars, nextNum, forward, searchingFor,
                 foundCauses, phase, complete, faults, serverVars>>

(* The end of the loop: stopWork if all are found, else ask for a build. *)
ResolveDone(id) ==
  LET foundAll == \A j \in searchingFor[id] : state[j] \notin Pending
  IN /\ phase # "ended" /\ spc[id] = "resolving" /\ unresolved = {}
     /\ spc' = [spc EXCEPT ![id] = IF foundAll THEN "idle" ELSE "http"]
     /\ searchingFor' = IF foundAll THEN [searchingFor EXCEPT ![id] = {}]
                        ELSE searchingFor
     /\ UNCHANGED <<trackVars, pc, console, opts, initVars, nextNum, forward,
                    foundCauses, unresolved, runVars, failed, faults, serverVars>>

(* stopWork of a search *)
StopSearch(id) ==
  /\ spc' = [spc EXCEPT ![id] = "idle"]
  /\ searchingFor' = [searchingFor EXCEPT ![id] = {}]

(* Seeded fault: the backward search turns one build too late. *)
TurnTooLate(id, n) == n < 1 \/ n < OldBuilds[id]

(* The backward search ends at the first build, or at one whose timestamp is *)
(* before the root build's.                                                *)
Turn(id, n) == n <= 1 \/ n <= OldBuilds[id]

(* The next build number: backwards, then forwards from the initial one. *)
Advance(id) ==
  LET n == nextNum[id]
  IN /\ forward' = [forward EXCEPT ![id] = @ \/ Turn(id, n)]
     /\ nextNum' = [nextNum EXCEPT ![id] =
          CASE forward[id] -> n + 1
            [] ~forward[id] /\ Turn(id, n) -> initialNum[id] + 1
            [] OTHER -> n - 1]

(* requestCallback of locateExecution. *)
LocateResponse(id) ==
  LET n == nextNum[id]
      stuck == spc' = [spc EXCEPT ![id] = "stuck"] /\ UNCHANGED searchingFor
  IN /\ spc[id] = "http" /\ Free
     /\ \/ /\ n \in DOMAIN builds[id]
           /\ LET t == Track(state, num, joined,
                             [foundCauses EXCEPT ![id] = @ \cup {n}], TRUE)
                  main == MainJob(t, id, n)
                  r == CASE ~Determinable(t, id, n) -> Thrown(t)
                         [] Determinable(t, id, n) /\ main = NoJob -> t
                         [] OTHER -> Streaming(t, main, n)
              IN /\ Settle(r)
                 /\ failed' = (failed \/ ~r.legal)
                 /\ foundCauses' = r.known
                 /\ IF r.legal THEN Advance(id) /\ StopSearch(id)
                    ELSE stuck /\ UNCHANGED <<nextNum, forward>>
           /\ UNCHANGED faults
        \/ /\ n \notin DOMAIN builds[id] /\ StopSearch(id)      \* 404
           /\ UNCHANGED <<trackVars, threw, foundCauses, nextNum, forward,
                          failed, faults>>
        \/ /\ Fault("pollReset") /\ StopSearch(id)
           /\ UNCHANGED <<trackVars, threw, foundCauses, nextNum, forward, failed>>
        \/ /\ Fault("pollError") \/ Fault("locateStatus")
           /\ Fail /\ stuck
           /\ UNCHANGED <<trackVars, threw, foundCauses, nextNum, forward>>
     /\ UNCHANGED <<pc, console, opts, initVars, unresolved, phase, complete,
                    serverVars>>

-----------------------------------------------------------------------------
(* The report: writeFinalMarkdown and the end of the process.              *)

InFlight ==
  \/ \E j \in Job : pc[j] \in {"init", "ready", "timer", "http"}
  \/ \E id \in Id : ctor[id] \/ spc[id] \in {"timer", "resolving", "http"}

(* isPipelineJob is answered; its callback reads response.statusCode, which  *)
(* throws if the request failed.                                           *)
AskPipelineResponse ==
  /\ phase = "asking" /\ Free
  /\ \/ phase' \in {"describing", "writing"} /\ UNCHANGED <<failed, faults>>
     \/ Fault("reportError") /\ Fail /\ phase' = "reported"
  /\ UNCHANGED <<trackVars, pc, console, opts, initVars, searchVars, complete,
                 threw, serverVars>>

(* getPipelineReport is answered.  Any status but 200 rejects a promise that *)
(* has no handler: the chain that would report the result ends there.      *)
DescribeResponse ==
  /\ phase = "describing" /\ Free
  /\ \/ phase' = "writing" /\ UNCHANGED <<failed, faults>>
     \/ Fault("reportStatus") /\ phase' = "reported" /\ UNCHANGED failed
     \/ Fault("reportError") /\ Fail /\ phase' = "reported"
  /\ UNCHANGED <<trackVars, pc, console, opts, initVars, searchVars, complete,
                 threw, serverVars>>

(* Seeded fault: stop's argument is not looked at. *)
WriteResultOfOptions ==
  /\ phase = "writing" /\ Free
  /\ phase' = "reported"
  /\ failed' = (failed \/ opts.shouldFail)
  /\ UNCHANGED <<trackVars, pc, console, opts, initVars, searchVars, complete,
                 threw, faults, serverVars>>

(* The callback of writeFile sets the result.  A Failed that was set before  *)
(* stays: the agent keeps the worst result it was told.                    *)
WriteResult ==
  /\ phase = "writing" /\ Free
  /\ phase' = "reported"
  /\ failed' = (failed \/ ~complete \/ opts.shouldFail)
  /\ UNCHANGED <<trackVars, pc, console, opts, initVars, searchVars, complete,
                 threw, faults, serverVars>>

(* Nothing is in flight any more: Node exits. *)
Exit ==
  /\ phase = "reported" /\ ~InFlight /\ Free
  /\ phase' = "ended"
  /\ UNCHANGED <<trackVars, pc, console, opts, initVars, searchVars, complete,
                 threw, failed, faults, serverVars>>

Jenkins ==
  /\ Free /\ ServerStep
  /\ UNCHANGED <<trackVars, pc, console, opts, initVars, searchVars, runVars,
                 failed, faults>>

-----------------------------------------------------------------------------

(* createRootJob constructed the root job, and with it its search; Start.  *)
Init ==
  /\ InitServer
  /\ state = [j \in Job |-> IF j = Root THEN "New" ELSE "Absent"]
  /\ num = [j \in Job |-> IF j = Root THEN RootNumber ELSE -1]
  /\ joined = [j \in Job |-> NoJob]
  /\ pc = [j \in Job |-> IF j = Root THEN "init" ELSE "none"]
  /\ console = {}
  /\ opts \in OptionSet
  /\ ctor = [id \in Id |-> id = RootId]
  /\ initialized = [id \in Id |-> FALSE]
  /\ initialNum = [id \in Id |-> -1] /\ nextNum = [id \in Id |-> -1]
  /\ forward = [id \in Id |-> FALSE]
  /\ spc = [id \in Id |-> "idle"]
  /\ searchingFor = [id \in Id |-> {}]
  /\ foundCauses = [id \in Id |-> {}] /\ unresolved = {}
  /\ phase = "running" /\ complete = FALSE /\ failed = FALSE /\ faults = 0
  /\ threw = FALSE

JobStep(j) ==
  JobInitResponse(j) \/ JobInitReady(j) \/ FinishTimer(j) \/ StreamResponse(j)
    \/ FinishResponse(j) \/ DownloadResponse(j)

SearchStep(id) ==
  CtorResponse(id) \/ SearchTimer(id) \/ ResolveOne(id) \/ ResolveDone(id)
    \/ LocateResponse(id)

ReportStep == AskPipelineResponse \/ DescribeResponse \/ WriteResult \/ Exit

TaskStep ==
  \/ \E j \in Job : JobStep(j)
  \/ \E id \in Id : SearchStep(id)
  \/ ReportStep

Next == Tick \/ TaskStep \/ Jenkins

Spec == Init /\ [][Next]_vars

(* Some callback of the task other than the tick is due: this is what        *)
(* ENABLED <<TaskStep>>_vars amounts to, in a form TLC evaluates quickly.  *)
Due == phase # "ended" /\ (InFlight \/ phase # "running")

(* Node keeps taking callbacks that are due, the interval's among them, and  *)
(* Jenkins keeps working.  Tick and Jenkins wait while a callback runs, hence *)
(* strong fairness; the first conjunct is WF_vars(TaskStep).  Nothing is     *)
(* assumed of the order in which the callbacks of different jobs and        *)
(* searches are taken.                                                     *)
Fairness ==
  /\ []<>(~Due) \/ []<><<TaskStep>>_vars
  /\ SF_vars(Tick)
  /\ SF_vars(Jenkins)

FairSpec == Spec /\ Fairness

-----------------------------------------------------------------------------
(* Properties.                                                             *)

Phase == {"running", "asking", "describing", "writing", "reported", "ended"}

(* Every variable has its type. *)
TypeOK ==
  /\ ServerTypeOK
  /\ state \in [Job -> JobState \cup {"Absent"}]
  /\ num \in [Job -> Nat \cup {-1}]
  /\ joined \in [Job -> Job \cup {NoJob}]
  /\ pc \in [Job -> {"none", "init", "ready", "idle", "timer", "http", "stuck"}]
  /\ console \in SUBSET Job
  /\ opts \in Options
  /\ ctor \in [Id -> BOOLEAN] /\ initialized \in [Id -> BOOLEAN]
  /\ initialNum \in [Id -> (Nat \ {0}) \cup {-1}]
  /\ nextNum \in [Id -> (Nat \ {0}) \cup {-1}]
  /\ forward \in [Id -> BOOLEAN]
  /\ spc \in [Id -> {"idle", "timer", "resolving", "http", "stuck"}]
  /\ searchingFor \in [Id -> SUBSET Job]
  /\ foundCauses \in [Id -> SUBSET Nat] /\ unresolved \in SUBSET Job
  /\ phase \in Phase /\ complete \in BOOLEAN /\ failed \in BOOLEAN
  /\ faults \in 0 .. MaxFaults /\ threw \in BOOLEAN

(* A search is used only after its project was read: a job is located, and a  *)
(* build asked for, with a starting number from Jenkins.                   *)
SearchReady ==
  /\ \A j \in Job : state[j] = "Locating" => initialized[Ident[j]]
  /\ \A id \in Id : spc[id] # "idle" => initialized[id]
  /\ \A id \in Id : initialized[id] => initialNum[id] >= 1 /\ nextNum[id] >= 1

(* A job follows a build that its parent's build really started: the search *)
(* never attaches a job to somebody else's build of the same project.      *)
TrackSound ==
  \A j \in Job \ {Root} : num[j] # -1 =>
    /\ num[j] \in DOMAIN builds[Ident[j]]
    /\ BuildNumber(T, Parent[j]) \in CauseSet(Ident[j], num[j])

(* A joined job shares a build with the main job it points to, and no other  *)
(* build than that one is ever followed there.  A main job may be joined     *)
(* itself later on, but the pointers end: findWorkingJob, which follows them *)
(* (jobqueue.ts:211), finds a job that ran or still may run.                 *)
JoinSound ==
  LET given == {j \in Job : state[j] = "Joined"}
  IN /\ \A j \in given :
          LET m == joined[j]
          IN /\ m \in Job \ {j} /\ Ident[m] = Ident[j]
             /\ state[m] \notin {"Absent", "Cut"}
             /\ \E n \in foundCauses[Ident[j]] :
                  /\ {BuildNumber(T, Parent[j]), BuildNumber(T, Parent[m])}
                       \subseteq CauseSet(Ident[j], n)
                  /\ num[m] \in {-1, n}
     /\ \A S \in SUBSET given : S # {} => \E j \in S : joined[j] \notin S

(* "there can be only one" (jobsearch.ts:134): no build has two followers. *)
OneFollower ==
  \A i, j \in Job : /\ i # j /\ Ident[i] = Ident[j] /\ num[i] # -1
                    => num[i] # num[j]

(* Job.Cut and SetJoined take the whole subtree: below a job that will not   *)
(* be followed nothing is followed.                                        *)
CutBelow ==
  \A j \in Job \ {Root} :
    state[Parent[j]] \in GivenUp => state[j] \in {"Absent", "New", "Cut"}

(* The logs of two running builds are never interleaved: at most one active  *)
(* job writes to the console.                                              *)
ConsoleExclusive ==
  \A i, j \in console : state[i] \in Active /\ state[j] \in Active => i = j

(* When the queue stops complete, the log of every finished job has been    *)
(* written to the console.                                                 *)
LogsFlushed ==
  complete /\ opts.captureConsole
    => \A j \in Job : state[j] = "Done" => j \in console

(* No state check of the code (Util.fail) has thrown. *)
NeverThrows == ~threw

(* The number of the build that belongs to job j's place in the pipeline, by *)
(* Jenkins' records alone; 0 if there is none.                             *)
PipelineBuild[j \in Job] ==
  IF j = Root THEN RootNumber
  ELSE LET started == {n \in DOMAIN builds[Ident[j]] :
                        <<Ident[Parent[j]], PipelineBuild[Parent[j]]>>
                          \in CauseSet(Ident[j], n)}
       IN IF started = {} THEN 0 ELSE CHOOSE n \in started : TRUE

Outcome(j) ==
  IF PipelineBuild[j] = 0 THEN "none"
  ELSE builds[Ident[j]][PipelineBuild[j]].result

(* The jobs whose result counts, by the options. *)
Captured == {j \in Job : \/ opts.capturePipeline
                         \/ j = Root /\ opts.captureConsole}

(* "succeed/fail based on the Jenkins build pipeline result" (task.json): a  *)
(* task that ends with no failure reported has a pipeline whose builds all  *)
(* exist and all succeeded.                                                *)
SuccessIsReal ==
  phase = "ended" /\ ~failed => \A j \in Captured : Outcome(j) \in GoodResult

(* And the converse: if no request failed, a reported failure means that a   *)
(* build of the pipeline failed.                                           *)
FailureIsReal ==
  failed /\ faults = 0
    => \E j \in Captured : Outcome(j) \notin GoodResult \cup {"none"}

(* The task ends. *)
Terminates == <>(phase = "ended")

(* The queue implements PipelineTracking.                                   *)
Status(j) ==
  CASE state[j] = "Absent"             -> "unknown"
    [] state[j] \in Pending            -> "waiting"
    [] state[j] \in Running            -> "following"
    [] state[j] = "Done"               -> IF HasFailed(j) THEN "bad" ELSE "good"
    [] state[j] \in {"Joined", "Cut"}  -> "dropped"
    [] state[j] = "Queued"             -> "released"
    [] state[j] = "Killed"             -> "bad"

NoBuild == <<>>

Follows(j) ==
  IF state[j] \in {"Absent", "New", "Locating", "Joined", "Cut"} \/ num[j] = -1
    THEN NoBuild ELSE BuildNumber(T, j)

Tracking == INSTANCE PipelineTracking WITH
  status  <- [j \in Job |-> Status(j)],
  follows <- [j \in Job |-> Follows(j)],
  verdict <- CASE phase # "ended"           -> "open"
               [] phase = "ended" /\ failed  -> "failed"
               [] phase = "ended" /\ ~failed -> "succeeded"

(* Every job is waited for, followed once or dropped, no build is followed   *)
(* twice, and success is announced only over jobs that all ended well.     *)
ImplementsTracking == Tracking!TrackingSpec
=============================================================================
