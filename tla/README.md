# Verification of the pipeline tasks

TLA+ models of the stateful parts of this repository, which holds the tasks that
Azure Pipelines agents run and the packages the tasks share. A task is a Node.js
or PowerShell program that lives for one step of a build: it reads its inputs,
talks to some service, and reports *Succeeded* or *Failed* to the agent. Most
of them are straight lines of calls. The models are about those that are not:
that poll, retry, run things in parallel, or leave something behind for a later
step.

## 1. The system

| Component | State it keeps | Operations | What is hard |
|---|---|---|---|
| **JenkinsQueueJobV2** (`src/Tasks/JenkinsQueueJobV2`): queues a Jenkins job and follows the pipeline of builds it starts | a tree of `Job` objects with a state machine (`states.ts`, `job.ts`), one `JobSearch` per project (`jobsearch.ts`), the `JobQueue` with its 100 ms tick (`jobqueue.ts`), options that a 401 changes | submit and poll the root job (`util.ts`), tick, initialize, locate, stream, finish, download, join, cut, report | every request is a callback; Jenkins may merge several triggers into one build; builds of other people; connection resets; liveness |
| **RemoteDeployer** (`src/Tasks/Common/RemoteDeployer`), the core of PowerShellOnTargetMachinesV3: runs a script on many machines | status and connection attempts per computer name, PowerShell jobs and sessions | connect, start jobs, collect results, reconnect, judge | sessions drop while jobs run; retry limits; results that never arrive |
| **KubernetesManifestV0**, canary strategy | none of its own: workloads, services and the traffic split in the cluster | deploy, promote, reject | partial failure within and between `kubectl` calls; the order of traffic switches; what an interrupted task leaves |
| **NpmAuthenticateV0**: writes credentials to `.npmrc`, restores it after the job | saved files and `index.json` in a directory the steps share | main handler, post-job handler | several steps on the same file, a step that fails or is killed |
| **InstallSSHKeyV0**: installs a key, `known_hosts`, `config` | saved contents in variables, the ssh agent | pre-job install, post-job restore | nested installations restored in reverse order, a kill between a change and its record |
| **azure-arm-rest-v2**: HTTP client of the Azure tasks | retry counters, the token that all callers share | send with retries, refresh the token, poll a long operation | expiry while many requests are on their way; a request repeated that was executed |
| **AzureResourceGroupDeploymentV2**, actions on virtual machines | counters of ended operations | start, stop, restart, delete on all machines at once | operations end in any order; the last one has to end the task |
| other Azure deployments, AppCenterDistributeV3 | Azure's, App Center's | a fixed sequence of REST calls | little: one failure ends the task |
| packaging-common, securefiles-common and the other packages | almost none | helpers | none of their own |
| `make.js`, build scripts | none | build, test, package | none |

How they interact: tasks do not call each other. They share packages, and they
meet in what one step leaves for the next (task variables, files), which is why
NpmAuthenticate and InstallSSHKey have behaviours that no single step shows.
`PROJECT.json` lists every component with its status and, under `hazards`, the
places where the code can go wrong in ways a test would hardly reach.

Modelled are the components in bold; section 8 says why the others are not.

### JenkinsQueueJobV2

1. `doWork` submits the job (`pollSubmitJob`: a crumb, then a post to the
   team-build plugin, or to the default endpoint after a 404) and polls the
   queue item until it has a build (`pollCreateRootJob`).
2. The root `Job` is constructed; each `Job` asks its `JobSearch` for the
   project, then constructs one child per downstream project. Jobs of the same
   project share a search.
3. Every 100 ms the tick hands the jobs that are `Locating` under a parent that
   is `Done` to their searches, starts work of the running jobs, and decides
   whether to stop: a job that failed stops the queue at once, no active job
   stops it complete.
4. A search reads builds of its project one at a time, backwards from the last
   build to the first one older than the root build, then forwards. The causes
   of a build say which jobs it belongs to. One of these becomes the *main* job
   and follows the build; the others are `Joined` to it, and everything below a
   joined job is `Cut`.
5. A job that follows a build streams its log, waits for its result, downloads
   results if the plugin is there, and is `Done`. The log of only one job at a
   time goes to the console; the others buffer theirs.
6. `stop` writes a report and sets the result of the task.

### RemoteDeployer

1. The task calls `Invoke-RemoteScript` once for all machines, or once for each,
   one after the other; a call that throws ends the task.
2. A call connects to each machine (three attempts each) and starts one job in
   each session.
3. `Get-JobResults` visits every job of unknown status, round after round: it
   looks at the job's state, receives what has arrived, and then decides by the
   state it saw. Completed: finished. Running: next round. Anything else:
   reconnect the session, which gives a new job in place of the old; fifteen
   failed attempts in a row, or three failures to find the job, end the visits.
4. `Set-TaskResult` wants as many results as machines, all passed with exit code
   0, and throws otherwise. The sessions are disconnected in any case.

### KubernetesManifest, canary strategy

1. `deploy` applies, for each deployment in the manifests, a canary with the new
   image and, if the stable deployment is there, a baseline with its image. With
   the SMI method it then creates the services of the variants and one
   `TrafficSplit` per service: the shares, or everything to the canary when there
   is nothing stable yet. Then it checks the result of the apply, and the rollout.
2. `promote` gives all traffic to the canary, applies the manifests as the stable
   deployment, checks its rollout, gives all traffic to it and deletes canary and
   baseline. `reject` gives all traffic to the stable deployment and deletes them.
3. The three are tasks of a pipeline, one after the other, with people and
   failures between them. A task that fails leaves what it has done in the cluster,
   and the next one finds it there.

### One job: InstallSSHKey and NpmAuthenticate

1. The agent runs the pre-job handlers of all steps, then the steps, then the
   post-job handlers in reverse order, these also after a failure.
2. InstallSSHKey's pre-job handler writes the private key, starts an ssh agent
   unless there is one and then notes its process, adds the key and then notes that,
   adds the user's default identities (a bare `ssh-add`), and writes `known_hosts` and
   `config`: the first installation overwrites them, the next ones append. It saves
   what it has read in a variable *after* each write. The post-job handler writes it
   back, kills the agent it started or takes its key out of another one; if either
   fails, it goes on.
3. NpmAuthenticate's main handler puts the file's path into the `index.json` of a
   directory that the steps of the job share, copies the file there if the path is
   new, and then edits it. Its post-job handler copies back and deletes the copy;
   the handler of a rejection deletes the whole directory.

### Azure REST and the virtual machines

1. `VirtualMachine.execute` lists the machines page by page, then begins an
   operation on each, all at once. A deletion first deletes the machine's extension.
2. Every request asks `getToken` for the token: the endpoint's own, or the promise
   that all callers share, fetched by the first of them. `sendRequest` repeats a
   request up to five times; a 401 with `ExpiredAuthenticationToken` makes
   `beginRequest` fetch a new token, once, and send again.
3. An accepted operation is polled by `getLongRunningOperationResult` until it has
   ended; a number of timeouts are ignored. The callback counts successes and
   failures, and the last of them ends the task.

## 2. Modules

| Module | Models | State and actions |
|---|---|---|
| `JenkinsJobStates` | `states.ts` and the classes of states the code asks about | no state: `Successors`, `Active`, `Running`, `Ran`, `Mastering` |
| `JenkinsServer` | Jenkins, external: modelled from what the task reads of it | `builds[id][n]` with causes and result, `queued[id]`; `StartBuild`, `FinishBuild`, `ForeignBuild` |
| `JenkinsQueue` | the queue, the jobs, the searches, the report; extends the two above | below |
| `PipelineTracking` | abstract specification: what following a pipeline promises | `status`, `follows`, `verdict`; `MoveOn`, `Announce` |
| `JenkinsSubmit` | submission, up to the root job | `phase`, `plugin`, `followed`, Jenkins' queue items; one action per request or timeout |
| `RemoteDeployer` | `Invoke-RemoteScript` and what it calls, the task around it; machines and network, external | below |
| `KubernetesManifest` | deploy, promote and reject with their helpers; the cluster, external | below |
| `AgentJob` | the build agent, external: in which order handlers run, and that they may be killed | `stage`, `at`, `pc`, `failed`, `killed` (the calls at which handlers were stopped), `faults` |
| `InstallSSHKey`, `NpmAuthenticate` | both handlers of each task; extend `AgentJob` | below |
| `JobFiles` | composes the two in one job, with steps that do not run and a script | `Skip`, `Interrupt`, `Script` |
| `AzureServer` | Azure, external: tokens that expire, operations that end | `op`, `epoch`; `Finish`, `Expire` |
| `AzureRest` | one request: token, retries, renewal; extends `AzureServer` | below |
| `AzureVirtualMachine` | listing, the operations, polling, the verdict; extends `AzureRest` | below |
| `MCJenkinsQueue` | pipelines and options for TLC | chain, diamond, kite, fan |
| `MCRemoteDeployer`, `MCKubernetesManifest`, `MCJobFiles`, `MCAzureRest` | instances for TLC | names, steps, symmetry |
| `JenkinsQueueProofs`, `JenkinsQueueTracking`, `JenkinsQueueOutcome`, `JenkinsSubmitProofs`, `RemoteDeployerProofs`, `KubernetesManifestProofs`, `JobFilesProofs`, `AzureRestProofs` | theorems | section 6 |

`JenkinsQueue` and the code:

| Variable | Code |
|---|---|
| `state`, `num`, `joined` | `Job.State`, `ExecutableNumber`, `Joined`; "Absent" is a job not constructed yet |
| `pc[j]` | `Job.working` and what the job waits for: `init` (its own `Initialize` request), `ready` (the promise is resolved, the continuation due), `timer`/`http` (after `DoWork`), `idle` (`working` is false), `stuck` (a callback threw before `stopWork`) |
| `console` | the jobs with `jobConsoleEnabled` |
| `opts` | the `TaskOptions` that matter: `captureConsole`, `capturePipeline`, `teamBuildPluginAvailable`, `shouldFail` |
| `ctor`, `initialized`, `initialNum`, `nextNum`, `forward`, `searchingFor`, `foundCauses` | the fields of `JobSearch`; `ctor` is the request its constructor sends |
| `spc`, `unresolved` | `JobSearch.working` and the loop of `locateExecution` |
| `phase`, `complete`, `failed` | the process: running, the steps of the report, ended; the argument of `stop`; whether some `setResult(Failed)` was issued |
| `threw` | history: one of the code's own checks (`Util.fail`) has thrown |

| Action | Code |
|---|---|
| `Tick` | the interval callback of `JobQueue.Start`, with `stop` |
| `CtorResponse`, `JobInitResponse`, `JobInitReady` | `JobSearch.Initialize` answered, for the constructor and for a job; the continuation in `Job.initialize` |
| `SearchTimer`, `ResolveOne`, `ResolveDone`, `LocateResponse` | `JobSearch.DoWork`, the loop of `locateExecution`, its `requestCallback` |
| `FinishTimer`, `FinishResponse`, `StreamResponse`, `DownloadResponse` | `finish`, `streamConsole`, `downloadResults` |
| `AskPipelineResponse`, `DescribeResponse`, `WriteResult`, `Exit` | the requests of the report, the callback of `writeFile`, the end of the process |
| `Jenkins` | a step of the server |

What a callback does to the jobs before it returns (`SetStreaming`,
`joinOthersToMe`, `SetJoined`, `Cut`, `DetermineMainJob`, `ResolveIfKnown`)
is written as operators on a record of the tracking state, so that an action is
one whole callback and every check at which the code throws (`Util.fail`, an
illegal state change) is kept, in the field `legal`. What was changed before the
throw stays, in the model as in the code.

`RemoteDeployer` and the code:

| Variable | Code |
|---|---|
| `parallel`, `pending`, `batch` | the task's choice; the machines of later calls; `$targetMachines` of this call |
| `pc`, `todo`, `at`, `seen` | the statement the task is at, the jobs of the round still to visit, the job visited and its `$jobState` |
| `connects`, `retrievals`, `reconnects` | `$retryCount`, `JobRetrievelCount`, `$connectionAttemptsByLocation` |
| `status`, `jobResults`, `result` | `$remoteExecutionStatusByLocation`, the machines in `$jobResults`, the task's result |
| `script`, `output`, `job`, `session` | on the machine: whether and how the script ended; where its result is (`remote` in the session, `local` in the job, `received`, or `lost` with a replaced job); the local job's state; the session |

| Action | Code |
|---|---|
| `Begin`, `Connect`, `ConnectFails`, `Invoke` | the calls of the task, `Get-WinRmConnectionToTargetMachine`, `Run-RemoteScriptJobs` with the tables of `Get-JobResults` |
| `Skip`, `GetJob`, `GetJobFails`, `Receive` | the first half of a visit |
| `DecideSettled`, `GiveUp`, `Reconnect` | the second half, with `Retry-Connection`; each ends the visit, and the round with the last one (`Visited`) |
| `Report` | `Set-TaskResult` and the `finally` of the call |
| `ScriptEnds`, `Deliver`, `Complete`, `Drop`, `Break` | machines and network, between any two of the above |

`KubernetesManifest` and the code:

| Variable | Code |
|---|---|
| `method`, `action`, `pc`, `applied` | the task's inputs, the `kubectl` call it is at, `result` of the apply that `deploy.ts` checks later |
| `release`, `last` | the pipeline: what the manifests hold, the task that ended last and how |
| `image`, `marked`, `rolledOut` | the cluster's deployments with the release they run; the label `azure-pipelines/version: stable`; the rollout was seen to succeed |
| `service`, `split` | the services of the variants, the weights in the `TrafficSplit` objects |

| Action | Code |
|---|---|
| `ApplyCanary` | `deployPodCanary`, `deploySMICanary`: the queries for stable deployments, `isResourceMarkedAsStable`, the apply |
| `CreateServices` | `createCanaryService` with `createTrafficSplitManifestFile`, one apply for all |
| `CheckRollout` | `checkForErrors` of the apply, `checkManifestStability` |
| `TrafficToCanary`, `TrafficToStable` | `redirectTrafficToCanaryDeployment`, `redirectTrafficToStableDeployment` |
| `ApplyStable`, `Delete` | `deploy` with the stable label; `deleteCanaryDeployment` with its two deletions, whose errors `promote` turns into warnings |
| `StartDeploy`, `StartPromote`, `StartReject`, `Cancel` | the pipeline and the agent |

`InstallSSHKey`, `NpmAuthenticate` and the code:

| Variable | Code |
|---|---|
| `content`, `read`, `saved`, `located` | the files as the set of steps that have written to them; what the running handler read; the variables `*_CONTENTS`/`*_FILE_DELETE` of a step and `*_LOCATION` of the job |
| `agent`, `keys`, `killSetting`, `deleteSetting` | the ssh agent and its keys, by step, 0 for the user's default identities; `INSTALL_SSH_KEY_KILL_SSH_AGENT_PID`, `INSTALL_SSH_KEY_DELETE_KEY` |
| `refused`, `removed` | history: the steps whose kill or `ssh-add -d` had no effect, the files a script has removed |
| `keyFile`, `preserved` | the private key's file and the variable that has it deleted later |
| `npmrc`, `copy`, `index`, `directory`, `savePath` | the `.npmrc` files by the step that changed them last, the copies, `index.json`, their directory, the variables that name it |

| Action | Code |
|---|---|
| `Download`, `StartAgent`, `RecordAgent`, `InstallKey`, `RecordKey`, `AddIdentities`, `WriteHosts`, `RecordHosts`, `WriteConfig`, `RecordConfig` | `preinstallsshkey.ts` in its order, one action for each effect another process can see |
| `RestoreHosts`, `RestoreConfig`, `CleanSession` | `postinstallsshkey.ts` |
| `Authenticate`, `Index`, `Save`, `Endpoints`, `Edit`, `Authenticated` | `npmauth.ts`; `Throw` is the handler of its rejection |
| `CleanUp` | `npmauthcleanup.ts` |

`AzureRest`, `AzureVirtualMachine` and the code:

| Variable | Code |
|---|---|
| `accessToken`, `cached`, `fetcher` | the endpoint's own token; `token_deferred` and who makes the fetch it waits for. A token is the epoch in which it was handed out |
| `pc[a]`, `asked`, `bearer`, `attempts`, `renewed` | a caller's request: awaiting whose token, with which token, `i` of `sendRequest`, whether the token was renewed |
| `wants`, `reply` | the request and what `beginRequest` answered: `refused` stands for every rejection or status the callers treat as an error |
| `listed`, `threshold`, `successCount`, `failureCount`, `result` | the machines found, `ignoreTimeoutErrorThreshold`, the counters of `getCallback`, the end of the task |

| Action | Code |
|---|---|
| `GetToken`, `Settle`, `LoseFetch`, `NoRequest` | `getToken` and the fetches, and `beginRequest` when they were rejected |
| `Answered`, `Retry`, `FailRequest`, `Unauthorized` | `sendRequest` and the second half of `beginRequest` |
| `TakePage`, `ListFails` | `accumulateResultFromPagedResult`, `execute` |
| `ExtensionAnswered`, `ExtensionPolled` | `deleteExtensionFromSingleVM`, whose failures are only logged |
| `ActAnswered`, `PollAgain`, `Polled` | the operations of `VirtualMachines`, `getLongRunningOperationResult`, `getCallback` |

### Abstractions

* Node runs one callback at a time. `Free` makes every action wait while a
  continuation that is already due (`ready`) or the loop of a search
  (`resolving`) has not run; these are microtasks or the middle of one callback.
* A request is answered by the server as it is when the response arrives. The
  time between the server's answer and its arrival is left out. The timeout and
  the request of a streaming or downloading job are one wait, as nothing is
  read between the two.
* The jobs of one search are resolved in any order (the code: the order of
  their construction), so the model has more behaviours than the code.
* `FindJob` returns the first job with a given build; the model takes any job
  with it. `OneFollower` says there is one at most.
* A throw at one of the code's own checks keeps what was changed before it and leaves
  the rest of the callback undone: the search or the job stays `stuck`, because
  `stopWork` is not reached, and the queue goes on with its intervals. In a timer or
  response callback the throw sets `failed` (the handler task-lib installs for
  uncaught exceptions). In the continuation of `initialize` it does not: the `throw`
  in the promise's `.fail` only rejects another promise. `threw` remembers either.
* The constructor's request of a search is forgotten when a job's own request
  was answered first: its answer is ignored by the code (`Initialized`).
* A stable build triggers its downstream projects once, an unstable or failed
  one does not; a project already queued is not queued twice. This is Jenkins'
  default behaviour and the one the comment at `jobsearch.ts:259` describes.
* Bodies that are not JSON, builds without a list of causes, and disabled
  downstream projects are left out.
* In `RemoteDeployer` a visit has three steps, because the machine may act between
  reading the job's state, receiving and deciding; a reconnection is one step. The
  jobs of a round are visited in any order, and one entry of the input is one
  machine with one result. What a script prints, the log files and the telemetry
  are left out. A dropped connection keeps its session and what waits in it, a
  lost session does not: that is what WinRM promises, and it is external. If
  starting the jobs fails, no script is taken to have started.
* `JenkinsSubmit` leaves out the value of the crumb. It ends where
  `JenkinsQueue` begins: `started` with `plugin` is `Init` with
  `opts.teamBuildPlugin`.

* `KubernetesManifest`: tasks of a pipeline run one at a time in a namespace, as the
  strategy requires; an agent may cancel one between two calls. Each name is a
  deployment (or another workload with a rollout) and a service, each object in a
  file of its own, deployments before services. An apply or a deletion may do a part,
  all or nothing of what it should and report a failure; a query that fails reads as
  "not there", which is what the code makes of it. Weights are kept in thousandths as
  in the code, with its division by two.
* `InstallSSHKey`: a file is the set of steps whose entry it has. `ssh-agent` may not
  start and `ssh-add` may add nothing, with or without a file, and nobody notices, as
  neither exit code nor output is looked at. Killing the agent and `ssh-add -d` may
  fail unnoticed, too. Writing a file back does not fail, removing one fails only if
  it is gone. Only one job of the machine's user is modelled: two agents of one user
  share `~/.ssh` without any protection.
* `NpmAuthenticate`: the edits of a file are one action, after which the step may
  still fail; what an edit does to other registries' credentials is left out
  (`clearFileOfReferences` goes by parts of a URL, npmauth.ts:128).
* A handler may be killed between any two effects in the pre-job and main stages.
  Post-job handlers run to their end, as the agent grants them time.
* `AzureRest`: `Retry` covers retriable statuses and error codes, with or without
  the request having taken effect. `Start` stands for start, stop, restart and
  deallocation, which have the same code around one URL. No caller gives
  `getLongRunningOperationResult` a time limit, so it is left out, as are the
  retries inside a fetch of a token and `beginRequestExpBackoff`. The waiting between
  attempts and polls takes no state. The first expiry of the tokens is
  normal; later ones count as faults, because a request renews its token once only.

## 3. Properties

* `SearchReady`: no search is used before it knows where to start.
* `TrackSound`: a job only follows a build its parent's build caused.
* `JoinSound`: a joined job shares a build with the main job it points to, and that
  job follows this build or none yet. The main job may be joined itself later on, but
  the pointers end; `findWorkingJob` in the report follows them.
* `OneFollower`: no build has two followers (run `kite` checks it without the team-build
  plugin, where it holds; with it, see section 5).
* `CutBelow`: nothing below a joined or cut job is followed.
* `ConsoleExclusive`, `LogsFlushed`: logs are not interleaved, and none is lost.
* `NeverThrows`: the code's own checks never fire.
* `SuccessIsReal`, `FailureIsReal`: the result of the task is the result of the
  pipeline, judged by Jenkins' records alone (`PipelineBuild`).
* `Terminates`: the task ends.
* `ImplementsTracking`: the queue refines `PipelineTracking`, under which a job
  moves forward only, never changes the build it follows, never shares it, and
  success is announced only when every job is accounted for.
* `OrphansUnheard`, `RootExecuting`, `SubmitEnds`: the submission.
* `FinishedCollected`: no completed job is left with its result uncollected.
* `EveryJobHeard`: without faults, the collection ends with every result, however
  connections drop. `SuccessIsComplete`: success means that every script ran and
  passed. `CollectionEnds`: the task ends.
* `StableUpdatedUnloaded`: the stable workload changes only while no traffic goes to
  it. `ReturnedWhenVerified`: traffic returns only to a release whose rollout was
  seen to succeed. `RemovedUnloaded`: nothing is removed while it gets traffic. All
  three are about single steps after any history of failures and cancellations.
* `ManifestResultIsReal`: success of a promotion or rejection is what the cluster
  shows. `TrafficServed`, `GradualExposure`: without faults, traffic goes to what is
  there, and a canary gets no more than its share.
* `HomeRestored`, `NpmrcRestored`: at the end of a job the files are as at its
  beginning. `OriginalsKept`: no copy is ever of a changed file. `SessionClean`: no
  ssh agent of the job and no key of a step is left behind, unless a kill or removal
  was refused or a handler was stopped between a change and noting it; the default
  identities are excepted.
* `ActionIsReal`: a task that succeeds did its action on every machine.
  `EndsTogether`: it ends after the last of its requests and, if nothing failed, of its
  operations. `ExpiryHarmless`: tokens
  that expire once, whenever that is, break nothing. `ReportsEventually`: it ends.
* One type invariant per specification (`TypeOK`, `SubmitTypeOK`, `RemoteTypeOK`,
  `ManifestTypeOK`, `JobTypeOK`, `AzureTypeOK`), with the relations between
  variables that the types alone do not give.

## 4. Runs

| Run | Instance | Result |
|---|---|---|
| `chain` | r → a; one old and one foreign build, three results, all four modes, one failed request of any of ten kinds | holds |
| `kite` | r → a, c; a → c; c → d: c is reached along two paths and has a child; Jenkins merges the triggers or not | holds |
| `diamond` | r → a, b → c, one reset or one refused report; liveness | holds |
| `submit` | three failed requests | holds |
| `remote` | two machines, in parallel or in sequence, two drops, two faults of any of five kinds; limits of 2 | holds |
| `canary` | two apps, 30 %, three releases, two faults, both methods | holds |
| `job` | two ssh steps, a script, two npm steps on two files; two failures, kills or removals | holds |
| `arm` | two machines, at most two attempts per request, two faults, two expiries; liveness | holds |
| `hang` | chain, one reset during initialization | `Terminates` violated |
| `report` | chain, the description of the pipeline refused | `SuccessIsReal` violated |
| `fan` | r → a, b, c; a, b → c: three places wait for c, which runs twice | `FailureIsReal` violated |
| `shared` | one machine with two ports, no fault, no drop | `EveryJobHeard` violated |

Deadlock is not checked: the task ends.

**Bounds.** A job interacts only with its parent, its children and the other
jobs of its project. Two jobs of one project at different depths with a job below
(kite) is the smallest tree in which joining, cutting and a choice of master all
happen; three (fan) is the smallest in which a job can be joined twice. One old
build makes the backward search turn at a build, none makes it turn at the first
build of the project; one foreign build puts a build between. `MaxFaults` is 1
in the queue: each fault is handled where it happens and leaves no counter
behind. In the submission it is 3: a lost post, a lost post again, and a fault of
the polling.

In `RemoteDeployer` two machines are enough for a round to end with one of them
finished and for a sequential task to fail at its second call; limits of 2 (the
code: 3, 3 and 15) with two faults let a limit be reached by faults alone, and a
lost session exhausts the reconnections by itself; two drops let a connection
drop again after it was restored. The theorems hold for all bounds.

In `KubernetesManifest` two apps let a call do a part of its work; three releases let
a canary be deployed over the remains of another one that was promoted before; two
faults let a promotion be interrupted and its repetition, too. The apps are
interchangeable, and the configuration says so. In `JobFiles` two installations nest. The
two npm steps share a file or have one each: if they share it, the first copies, the
second must not, and the post-job handler that runs first restores for both; if they
do not, a failure in one of them meets the copy of the other. The two files are interchangeable. In
`AzureVirtualMachine` two machines share a fetch, count together and end in either order;
two attempts and one ignored timeout (the code: 5 and 5) let each limit be reached;
one expiry is what `ExpiryHarmless` is about, the second is one that comes too early.

**Fairness.** `FairSpec` assumes that Node keeps taking callbacks that are due,
among them the interval's, and that Jenkins keeps working; it says nothing of
the order among callbacks. The tick and Jenkins are disabled while a callback is
in the middle of its work, hence strong fairness for them. Faults are bounded by
`MaxFaults`: a network that resets every connection is not asked to let the task
end. For `RemoteDeployer` it assumes that the loop goes on, that a script ends and
that its result arrives while there is a connection; that connections drop
finitely often is `MaxDrops`. The loop has no time limit of its own, so a script
that never ends keeps it running. For `AzureVirtualMachine`: a request is answered or
fails, a continuation runs, an operation of Azure ends.

## 5. What the runs found

1. **A reset while a job initializes hangs the task** (`hang`). The comments say
   that a job will try again; nobody does: `findRunningJobs` ignores jobs in
   state New, and New is an active state, so the queue does not stop either.
2. **A refused pipeline report loses the result** (`report`). The promise of
   `getPipelineReport` has no rejection handler, so `setResult` is never called:
   a failed Jenkins build leaves a task that reported nothing.
3. **A third path to one project makes a successful pipeline fail** (`fan`). A search
   reads a build before the jobs that caused it are seen to run, so it has no main job
   yet and is only remembered. Later one of the two jobs waiting for it is resolved
   as secondary and joined to the other, which is still `Locating`. When that other
   one is resolved as main, it starts to stream and joins its secondaries, the first
   again, which is an illegal state change and throws.
4. **One machine under two ports loses a result** (`shared`). The comment in
   `Utility.ps1` says that multiple connections to one machine are filtered; the
   filter compares the entries as text, with their ports. The collection keeps
   one status per computer name, so the first of the two jobs to complete ends
   the visits to the other, and the task fails for want of its result.

Also seen in the queue, and listed as hazards without a property: an unstable build leaves its
children waiting for builds that Jenkins never starts; a status other than 200 or
404 leaves a search working for ever; a job left New by a reset may be started by
another place of its project, and then has no children (section 6, "The result"); a
reset while the log is streamed fails the task (`job.ts:435`); and a job that is
`Downloading` or `Killed` is not counted as the master of its build
(`jobsearch.ts:140`). In this last case a second job starts to follow the build, and
only then, when it joins the others, the code throws: the build has two followers.

Seen in the other components, where a property is stated so that it leaves the case
out, or the hazard's note says why none covers it:

* **Canary.** The first rejection of a service sends all traffic to a stable workload
  that does not exist (`reject.ts:21`). A split left by an interrupted promotion is
  kept by the next deployment, whose canary then has all the traffic
  (`SMICanaryDeploymentHelper.ts:103`); a query that fails has the same effect
  (`CanaryDeploymentHelper.ts:77`). When the apply of canary and baseline fails, the
  traffic is switched to them before the failure is reported
  (`SMICanaryDeploymentHelper.ts:62`). `TrafficServed` and `GradualExposure` hold as long
  as nothing fails.
* **Job.** A `known_hosts` or `config` that existed but was empty keeps the job's
  entries: the empty string is taken for nothing saved, although the comment at
  `installsshkey-util.ts:303-305` speaks of restoring it. If a script has removed a file
  that did not exist before the job, the restoration throws (`:294`) and neither
  `config` nor the agent is cleaned. A kill between writing and saving loses the
  original. A handler stopped after the agent was started (`:154`), or after its key
  was added to another agent (`:212`), leaves them there; so does a kill or an
  `ssh-add -d` that fails, which is not noticed (`postinstallsshkey.ts:15-24`). The
  default identities that the bare `ssh-add` adds (`:215`) stay in an agent that is
  not the job's. If the writing of `config` fails, the private key's file stays
  (`preinstallsshkey.ts:54`). If an npm step fails, the copies of all steps go with it
  and earlier files keep their credentials (`npmauth.ts:120`), and later steps on new
  files fail, too. `HomeRestored`, `SessionClean` and `NpmrcRestored` name these
  exceptions, and hold in all other cases.
* **Azure.** A rejected fetch stays in `token_deferred` and fails every later request
  (`azure-arm-common.ts:101`). When the endpoint has a token of its own, `getToken`
  keeps returning it after it has expired, and every request renews again. A deletion
  repeated after its answer was lost is answered with 204, for which there is nothing
  to poll: the task fails although the machine is deleted (`azure-arm-compute.ts:368`).
  The last answer of an operation without a body throws where nobody catches
  (`azure-arm-compute.ts:236`), and so does a token's: the callback is never called and
  the task ends without a result. `ReportsEventually` names these two.

## 6. Proofs

TLAPS checks the following for every value of the constants that satisfies the
assumptions `ServerAssumption`, `JobAssumption`, `RootAssumption`, `TreeAssumption`
and `OptionAssumption` (a tree of jobs in which every chain of parents ends and the
children of a job are the downstream projects of its project, once each; a finite
number of faults); TLC evaluates the assumptions in every run. For `RemoteDeployer` the assumptions are
`MachineAssumption` and `LimitAssumption`: finitely many machines, positive limits.
For `KubernetesManifest`: a percentage between 0 and 100, any set of apps. For
`JobFiles`: the steps of the two tasks are different steps of the job, any files. For
`AzureVirtualMachine`: finitely many machines, at least one attempt.

| Theorem | Module | Says |
|---|---|---|
| `TypeCorrect` | `JenkinsQueueProofs` | `Spec => []TypeOK` |
| `SearchesReady` | `JenkinsQueueProofs` | `Spec => []SearchReady` |
| `TracksSound` | `JenkinsQueueProofs` | `Spec => []TrackSound` |
| `ConsoleNeverInterleaved` | `JenkinsQueueProofs` | `Spec => []ConsoleExclusive` |
| `CutsReachBelow` | `JenkinsQueueTracking` | `Spec => [](NeverThrows => CutBelow)` |
| `BuildsHaveOneFollower` | `JenkinsQueueTracking` | `Spec => [](NeverThrows => OneFollower)` |
| `BuildsAreTakenOnce` | `JenkinsQueueTracking` | without the team-build plugin, and if no request about a build's end fails, `Spec => []OneFollower` |
| `JoinsAreSound` | `JenkinsQueueTracking` | `Spec => [](NeverThrows => JoinSound)` |
| `LogsAreFlushed` | `JenkinsQueueOutcome` | `Spec => [](NeverThrows => LogsFlushed)` |
| `QueueTracksPipeline` | `JenkinsQueueOutcome` | if no request for a project fails and the report is answered, `Spec /\ []NeverThrows => ImplementsTracking` |
| `SuccessIsAlwaysReal` | `JenkinsQueueOutcome` | if no request for a project is reset and the report is answered, `Spec => [](NeverThrows => SuccessIsReal)` |
| `FailuresAreReal` | `JenkinsQueueOutcome` | `Spec => [](NeverThrows => FailureIsReal)` |
| `UnsharedNeverThrows` | `JenkinsQueueOutcome` | if no project is at two places, `Spec => []NeverThrows` |
| `UnsharedFailuresAreReal` | `JenkinsQueueOutcome` | if no project is at two places, `Spec => []FailureIsReal` |
| `UnsharedSuccessIsReal` | `JenkinsQueueOutcome` | if no project is at two places and the report is answered, `Spec => []SuccessIsReal` |
| `OnlyUnheardOrphans` | `JenkinsSubmitProofs` | `Spec => []OrphansUnheard` |
| `SubmitTypeCorrect` | `JenkinsSubmitProofs` | `Spec => []SubmitTypeOK` |
| `RootIsExecuting` | `JenkinsSubmitProofs` | `Spec => []RootExecuting` |
| `RemoteTypeCorrect` | `RemoteDeployerProofs` | `Spec => []RemoteTypeOK` |
| `SuccessComplete` | `RemoteDeployerProofs` | `Spec => []SuccessIsComplete` |
| `EveryoneHeard` | `RemoteDeployerProofs` | if names are distinct, `Spec => []EveryJobHeard` |
| `FinishedAreCollected` | `RemoteDeployerProofs` | if names are distinct, `Spec => []FinishedCollected` |
| `ManifestTypeCorrect` | `KubernetesManifestProofs` | `Spec => []ManifestTypeOK` |
| `ManifestResultReal` | `KubernetesManifestProofs` | `Spec => []ManifestResultIsReal` |
| `StableUpdatedSafely` | `KubernetesManifestProofs` | `Spec => StableUpdatedUnloaded` |
| `ReturnedSafely` | `KubernetesManifestProofs` | `Spec => ReturnedWhenVerified` |
| `RemovedSafely` | `KubernetesManifestProofs` | `Spec => RemovedUnloaded` |
| `TrafficIsServed` | `KubernetesManifestProofs` | `Spec => []TrafficServed` |
| `ExposureIsGradual` | `KubernetesManifestProofs` | `Spec => []GradualExposure` |
| `JobTypeCorrect` | `JobFilesProofs` | `Spec => []JobTypeOK` |
| `FilesRestored` | `JobFilesProofs` | `Spec => []HomeRestored` |
| `SessionsCleaned` | `JobFilesProofs` | `Spec => []SessionClean` |
| `OriginalsAlwaysKept` | `JobFilesProofs` | `Spec => []OriginalsKept` |
| `NpmrcsRestored` | `JobFilesProofs` | `Spec => []NpmrcRestored` |
| `ArmTypeCorrect` | `AzureRestProofs` | `Spec => []AzureTypeOK` |
| `ActionsAreReal` | `AzureRestProofs` | `Spec => []ActionIsReal` |
| `AllEndTogether` | `AzureRestProofs` | `Spec => []EndsTogether` |
| `ExpiryIsHarmless` | `AzureRestProofs` | `Spec => []ExpiryHarmless` |

**JenkinsQueue.** `TypeOK` is not inductive: that `nextNum` stays above 0 needs `SearchReady`, which
needs that a job whose continuation is due has an initialized search
(`ReadySearched`) and that a known build exists (`FoundExist`). `Typed` is their
conjunction. `TrackSound` says what a job's number means at the moment it is
given and needs that it keeps its meaning: a parent that has a constructed child
never loses its number, a job that is not followed has none (`Constructed`,
`Unnumbered`). `ConsoleExclusive` needs that only jobs past `Streaming` have a
console (`OnConsole`), because the test for a free console looks at active jobs
only, and that a job which is finishing cannot become a streaming one. `Safe` is
the invariant. The operators of tracking have a lemma each (what `JoinedTo`,
`CutTree`, `Streaming`, `Resolved` keep and change), so an action is a few lines.

**Sharing builds.** The invariant is `TrackInv`, which is stated over a tracking record so that
it can be followed through the middle of a callback: a job below a joined or cut
one is not followed (`Nested`), a number belongs to a build whose known causes name the
parent's build (`Numbered`), a join shares a build and pointers end (`JoinsShare`,
`JoinsEnd`), and two jobs of a project with one build are one job (`OneEach`). In the
middle of a callback `OneEach` may fail, so the rest (`Arranged`) is kept apart. A throw
keeps the changes made before it, and they need not be sound: a job may be joined twice
or have a second follower beside it. So these theorems speak of the time before the
first throw, as the code promises nothing after one. `BuildsAreTakenOnce` needs no such
condition: where a job with a build is never `Downloading` nor `Killed`, it is seen as
its master until it ends (`Claimed`), also by what the queue does after a throw.
Beside `TrackInv`, `ServerInv` says of Jenkins that a cause is a build that ended and is
in one build or in the queue, never both. `OneFollower` rests on
both: the jobs that could take a build are its causes' children; the one that takes
it joins all others, and two masters make the code throw. In an
earlier form `JoinSound` asked that the main job is not joined itself; a
main job that still locates may join another one later, and the report follows the
pointers, so the property now asks that they end.

**The end of the queue.** `LogsFlushed` needs `Ending`: a job with a request on its way is
running (`Requested`), and once the queue has stopped complete, what is still active is a
new job below one that was given up, which nobody starts (`Stopped`, `Abandoned`). For the refinement, a new job is waiting for its
initialization (`NewWaits`), which a failed request for a project breaks, and the
report sets a result (`Reported`), which a bad status of its answer breaks: these are
the hypotheses of `QueueTracksPipeline`; run `kite` checks `ImplementsTracking` without any
failed request. Each action is then shown to be `MoveOn`, `Announce` or a stutter.

**The result.** `SuccessIsReal` compares the result with `PipelineBuild`, which follows
the causes in Jenkins' records down the tree and is defined along the chain of
parents. Instead of an induction over the tree, `RootAssumption` gives the set of the places
for which the claim fails a member whose parent is not in it, and that member has a
job of its own, or one it is joined to, that is done with the same build
(`SuccessAtEnd`). It needs `Bred`: a job whose initialization is over has constructed
its children. A reset request breaks that, and with it the property: if a
project is at two places, a job left New by a reset is started by the search of
the other place, ends Done without children, and a failure below it is never seen. TLC shows it on the
kite with the fault `initReset`. `UnsharedSuccessIsReal` says that nothing else does:
without a shared project the reset job stays New and the queue does not end.
`FailuresAreReal` needs `Blameless`, that a queue stopped before its end or a reported failure has
a failed job behind it as long as nothing threw; run `fan` shows that the
code's own checks can throw over a successful pipeline. For a pipeline in which no
project is at two places `UnsharedNeverThrows` proves that they cannot, with `Served`: a search serves one
job, whose parent is done, and is in use only while that job is located; and
`FromUpstream`: builds are caused by upstream projects only. Then no join happens,
and every state change of the code is legal.

**JenkinsSubmit.** `OrphansUnheard` needs that nothing is followed while a post is
still to come (`NothingFollowed`), `RootExecuting` that whoever follows an item was
answered in the mode `plugin` says (`Followed`).

**RemoteDeployer.** `SuccessIsComplete` needs that machines of earlier calls have passed and that the
calls share no machine (`PassedSoFar`); as many results as machines are the results
of all machines because the set is finite. `EveryJobHeard` needs, for every job of
the call, that its result is never lost, that "received" and "finished" mean
collected and "completed" that the result has arrived (`JobSound`), and for the
visit that a state seen as completed or disconnected is still the job's state
(`VisitSound`). Its hypothesis `DistinctNames` is what run `shared` breaks. `FinishedCollected` holds with
faults, too: a job seen as dropped delivers nothing before it is reconnected, so a
reconnection loses nothing, and a job that is given up stays where it is (`Collecting`).

**KubernetesManifest.** `ManifestInv` says what each call of a task may rely on. The
interesting parts: at `applyStable` every split gives all to the canary, at `delete`
all to the stable workload (`Unloaded`), because a redirection that did not
reach every split ends the task; after the rollout check of a promotion all stable
workloads run the release and were verified (`Promoted`). Nothing is assumed of what
earlier tasks left. The action properties follow from the invariant and a lemma for
each: which calls can change a stable image, return traffic, or remove something.
`TrafficServed` and `GradualExposure` hold as long as nothing fails and need the
history of the pipeline, too (`CalmInv`): that no promotion fails (`Orderly`), that the
first promotion labels every workload and a labelled one stays, while a workload
deployed without the strategy stops a deployment at its first call (`Labelled`,
`Unlabelled`), what every call of a task finds done (`Staged`), and both properties for
the moments between calls (`Served`, `Gradual`).

**JobFiles.** `FilesRestored` rests on `HomeInv`: a step's saved content is the set
of the earlier steps that saved one, or the original if there was none (`SavedInv`);
only steps before the running one hold a file (`HoldersInv`); and as long as
nothing was lost, the file is the set of the steps that have still to restore it, or
the original (`ContentInv`). Restoring in reverse order takes them off one by one.
For the `.npmrc` files a file that is changed has a copy, which is the original, and a
step whose post-job handler is still to come (`Recoverable`): a shared file is
restored by the first of them. `SessionInv` says the same of the session: whoever
started the agent or added a key that is there has still to clean up, was refused, or
is at (or was stopped at) the call that notes it.

**AzureVirtualMachine.** A fetch that is awaited or cached is still being made by its
caller (`Waiting`); machines begin only after the listing (`Listing`); a machine told
"succeeded" in answer to its poll can rely on it, as an operation that succeeded never
runs again (`Replies`); the counters are the cardinalities of the sets of machines that
succeeded and failed (`Counts`), so their sum reaches the number of machines when
the last has ended (`Verdict`). For `ExpiryHarmless`, while nothing has failed
(`ExpiryInv`): there was one expiry at most, a token is of the epoch before or after
it, a request that has renewed holds the later one (`Tokens`), and every operation is
where its caller believes it is (`Sound`).

Model-checked only: liveness under fairness (`Terminates`, `SubmitEnds`,
`CollectionEnds`, `ReportsEventually`), which the prover does not handle, and, for a
pipeline with a project at two places, `NeverThrows` and `FailureIsReal` without its
hypothesis: there they hold for some trees (kite, without failed requests) and not for
others (fan), so no theorem about every tree states them.

## 7. Plan

Order of work, most important first:

1. *Done.* `JenkinsQueue` with its states and server, `JenkinsSubmit`.
2. *Done.* `RemoteDeployer`.
3. *Done.* `KubernetesManifest`.
4. *Done.* `InstallSSHKey` and `NpmAuthenticate`, composed in `JobFiles`.
5. *Done.* `AzureServer`, `AzureRest`, `AzureVirtualMachine`.
6. *Done.* The safety invariants of the queue, the canary and the refinement proved.
7. Open: a condition on the tree, weaker than `Unshared`, under which `NeverThrows` holds
   (two places of a project are safe in kite, three are not in fan).

## 8. Not modelled

* The tasks that are straight lines: they read inputs, build a command line or a
  sequence of requests, run it, and report its result. That is most of the repository's
  hundreds of task directories, among them the other actions of KubernetesManifest,
  the deployments of templates and web apps, AppCenterDistribute, and all
  installers. A model of one would repeat its program: there is no other actor, no
  state that outlives a call and no retry, and their first failure ends them.
* What is a copy: earlier versions of a task in their own directories (`V0` to `V4`),
  `azure-arm-rest` beside `azure-arm-rest-v2`, the copies under `Tasks/Common`.
* The tests and their mocks, the build scripts (`make.js`, `make-util.js`), vendored
  modules and localized resources: they are not part of what runs in a pipeline.
* The other clients of azure-arm-rest-v2 send their requests through the same
  `beginRequest` that `AzureRest` models; what they add is URLs and the
  interpretation of statuses.
* `JenkinsQueueJobV2/unzip.ts` and the results archive: file I/O, whose failure only
  warns.

So the models cover the programs with behaviour of their own, and a small part of the
repository's lines.
