--------------------------- MODULE JenkinsSubmit ---------------------------
(***************************************************************************)
(* The JenkinsQueueJobV2 task before the JobQueue starts: pollSubmitJob     *)
(* asks for a crumb and posts the job, first to the team-build plugin, then *)
(* to the default endpoint; pollCreateRootJob follows the queue item until *)
(* its build exists.  A connection that is reset is no failure: the poll   *)
(* starts again.  One request is in flight at a time.                      *)
(***************************************************************************)
EXTENDS Integers, Sequences

CONSTANTS
  Faults,       \* kinds of failed requests that may occur
  MaxFaults     \* bound: failed requests in one behaviour

FaultKind == {"reset", "error", "badBody"}

ASSUME SubmitAssumption == Faults \subseteq FaultKind /\ MaxFaults \in Nat

VARIABLES
  phase,        \* the request or timeout the task waits for
  plugin,       \* TaskOptions.teamBuildPluginAvailable
  followed,     \* the queue item of queueUri, 0 as long as there is none
  faults,       \* failed requests so far
  installed,    \* Jenkins: the team-build plugin is installed
  items,        \* Jenkins: the queue items of the posts it processed
  unheard       \* Jenkins: processed posts whose answer did not arrive

jenkinsVars == <<installed, items, unheard>>
vars == <<phase, plugin, followed, faults, jenkinsVars>>

Polling == {"crumb", "team", "classic", "submitTimer", "queue", "queueTimer"}

Fault(kind) ==
  /\ kind \in Faults /\ faults < MaxFaults
  /\ faults' = faults + 1

-----------------------------------------------------------------------------
(* Jenkins.                                                                *)

(* A post is processed: it makes a new item, or it is folded into one that   *)
(* is still in the queue; item i is the answer.                            *)
Process(i) ==
  \/ i = Len(items) + 1 /\ items' = Append(items, "queued")
  \/ i \in DOMAIN items /\ items[i] = "queued" /\ UNCHANGED items

Item == 1 .. Len(items) + 1

(* A queued item gets its build, or is cancelled. *)
LeaveQueue ==
  \E i \in DOMAIN items, s \in {"executing", "cancelled"} :
    /\ items[i] = "queued"
    /\ items' = [items EXCEPT ![i] = s]
    /\ UNCHANGED <<phase, plugin, followed, faults, installed, unheard>>

-----------------------------------------------------------------------------
(* The requests.                                                           *)

(* reject: doWork's catch sets the result to Failed and nothing is left to   *)
(* do.  A callback that throws ends the same way.                          *)
Reject == phase' = "failed"

(* getCrumb; 200 gives a crumb, 404 gives NO_CRUMB. *)
GetCrumb ==
  /\ phase = "crumb"
  /\ \/ phase' = "team" /\ UNCHANGED faults
     \/ Fault("reset") /\ phase' = "submitTimer"
     \/ Fault("error") /\ Reject
  /\ UNCHANGED <<plugin, followed, jenkinsVars>>

(* Seeded fault: the location of the next item. *)
PostedNext ==
  /\ \E i \in Item : Process(i) /\ followed' = i + 1
  /\ phase' = "queue"
  /\ UNCHANGED <<unheard, faults>>

(* A post of which Jenkins' answer is 201. *)
Posted ==
  /\ \E i \in Item : Process(i) /\ followed' = i
  /\ phase' = "queue"
  /\ UNCHANGED <<unheard, faults>>

(* A post that fails, whether or not Jenkins could process it before. *)
PostFailed(processable) ==
  /\ \/ Fault("reset") /\ phase' = "submitTimer"
     \/ Fault("error") /\ Reject
  /\ \/ UNCHANGED <<items, unheard>>
     \/ /\ processable
        /\ \E i \in Item : Process(i)
        /\ unheard' = unheard + 1
  /\ UNCHANGED followed

(* teamBuildRequestCallback *)
PostTeamBuild ==
  /\ phase = "team"
  /\ \/ installed /\ Posted /\ plugin' = TRUE
     \/ /\ installed /\ Fault("badBody") /\ Reject
        /\ \E i \in Item : Process(i)
        /\ plugin' = TRUE /\ unheard' = unheard + 1
        /\ UNCHANGED followed
     \/ /\ ~installed /\ phase' = "classic" /\ plugin' = FALSE      \* 404
        /\ UNCHANGED <<followed, faults, items, unheard>>
     \/ PostFailed(installed) /\ UNCHANGED plugin
  /\ UNCHANGED installed

(* jobQueueRequestCallback *)
PostJobQueue ==
  /\ phase = "classic"
  /\ Posted \/ PostFailed(TRUE)
  /\ UNCHANGED <<plugin, installed>>

(* setTimeout(poll, pollIntervalMillis) of pollSubmitJob *)
SubmitTimer ==
  /\ phase = "submitTimer" /\ phase' = "crumb"
  /\ UNCHANGED <<plugin, followed, faults, jenkinsVars>>

(* Seeded fault: a cancelled item counts as one that left the queue. *)
CreateRootJobIgnoringCancel ==
  /\ phase = "queue"
  /\ \/ /\ phase' = IF items[followed] = "queued" THEN "queueTimer" ELSE "started"
        /\ UNCHANGED faults
     \/ Fault("reset") /\ phase' = "queueTimer"
     \/ /\ Fault("error") \/ Fault("badBody")
        /\ Reject
  /\ UNCHANGED <<plugin, followed, jenkinsVars>>

(* createRootJob *)
CreateRootJob ==
  /\ phase = "queue"
  /\ \/ items[followed] = "queued" /\ phase' = "queueTimer" /\ UNCHANGED faults
     \/ items[followed] = "executing" /\ phase' = "started" /\ UNCHANGED faults
     \/ items[followed] = "cancelled" /\ Reject /\ UNCHANGED faults
     \/ Fault("reset") /\ phase' = "queueTimer"
     \/ /\ Fault("error") \/ Fault("badBody")
        /\ Reject
  /\ UNCHANGED <<plugin, followed, jenkinsVars>>

(* Seeded fault: the reset of a poll posts the job again. *)
QueueTimerPostsAgain ==
  /\ phase = "queueTimer" /\ phase' \in {"queue", "crumb"}
  /\ UNCHANGED <<plugin, followed, faults, jenkinsVars>>

(* Seeded fault: the poll is not scheduled again. *)
QueueTimerMissing == FALSE /\ UNCHANGED vars

(* setTimeout(poll, pollIntervalMillis) of pollCreateRootJob *)
QueueTimer ==
  /\ phase = "queueTimer" /\ phase' = "queue"
  /\ UNCHANGED <<plugin, followed, faults, jenkinsVars>>

-----------------------------------------------------------------------------

Init ==
  /\ phase = "crumb" /\ plugin = FALSE /\ followed = 0 /\ faults = 0
  /\ installed \in BOOLEAN /\ items = << >> /\ unheard = 0

TaskStep ==
  \/ GetCrumb \/ PostTeamBuild \/ PostJobQueue \/ SubmitTimer
  \/ CreateRootJob \/ QueueTimer

Next == TaskStep \/ LeaveQueue

Spec == Init /\ [][Next]_vars

(* Node runs the callback of the request or timeout that is due, and Jenkins *)
(* does not keep an item in its queue for ever.                            *)
FairSpec == Spec /\ WF_vars(TaskStep) /\ WF_vars(LeaveQueue)

-----------------------------------------------------------------------------
(* Properties.                                                             *)

(* Every variable has its type. *)
SubmitTypeOK ==
  /\ phase \in Polling \cup {"started", "failed"}
  /\ plugin \in BOOLEAN /\ installed \in BOOLEAN
  /\ items \in Seq({"queued", "executing", "cancelled"})
  /\ followed \in 0 .. Len(items)
  /\ faults \in 0 .. MaxFaults /\ unheard \in 0 .. faults

(* The task starts builds it does not follow only by posts whose answer it  *)
(* did not hear: each of them leaves at most one, and none but those.      *)
OrphansUnheard == Len(items) <= unheard + (IF followed = 0 THEN 0 ELSE 1)

(* The queue starts over a build of this task, in the mode of the plugin     *)
(* that answered; a cancelled item never starts it.                        *)
RootExecuting ==
  phase = "started" =>
    /\ followed \in DOMAIN items /\ items[followed] = "executing"
    /\ plugin = installed

(* The submission ends. *)
SubmitEnds == <>(phase \in {"started", "failed"})
=============================================================================
