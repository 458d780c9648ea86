------------------------- MODULE JenkinsSubmitProofs -------------------------
(***************************************************************************)
(* Proofs about JenkinsSubmit, for any number and kind of failed requests. *)
(***************************************************************************)
EXTENDS JenkinsSubmit, TLAPS

(* Until a post was answered the task follows nothing; it never posts again  *)
(* once it follows an item.                                                *)
NothingFollowed ==
  phase \in {"crumb", "team", "classic", "submitTimer"} => followed = 0

Submitted == SubmitTypeOK /\ NothingFollowed /\ OrphansUnheard

(* Processing a post adds one item at most, and answers with an item. *)
LEMMA ProcessType ==
  ASSUME items \in Seq({"queued", "executing", "cancelled"}),
         NEW i \in Item, Process(i)
  PROVE  /\ items' \in Seq({"queued", "executing", "cancelled"})
         /\ Len(items') \in {Len(items), Len(items) + 1}
         /\ i \in 1 .. Len(items')
BY DEF Process, Item

LEMMA FaultType ==
  ASSUME faults \in 0 .. MaxFaults, NEW kind, Fault(kind)
  PROVE  faults' \in 0 .. MaxFaults /\ faults' = faults + 1
BY SubmitAssumption DEF Fault

LEMMA SubmittedInit == Init => Submitted
<1> SUFFICES ASSUME Init PROVE Submitted
  OBVIOUS
<1> USE SubmitAssumption DEF Init
<1>1. plugin \in BOOLEAN /\ installed \in BOOLEAN
  BY Zenon
<1>2. items \in Seq({"queued", "executing", "cancelled"}) /\ Len(items) = 0
  OBVIOUS
<1>3. phase \in Polling /\ followed \in 0 .. Len(items)
  BY <1>2 DEF Polling
<1>4. faults \in 0 .. MaxFaults /\ unheard \in 0 .. faults
  OBVIOUS
<1> QED BY <1>1, <1>2, <1>3, <1>4 DEF Submitted, SubmitTypeOK, NothingFollowed,
                                      OrphansUnheard

(* The requests of the first half: nothing is followed yet. *)
LEMMA PostKeeps ==
  ASSUME Submitted, PostTeamBuild \/ PostJobQueue
  PROVE  Submitted'
<1> USE DEF Submitted, SubmitTypeOK, NothingFollowed, OrphansUnheard
<1>1. followed = 0 /\ installed' = installed
  BY DEF PostTeamBuild, PostJobQueue
<1>2. CASE Posted /\ plugin' \in BOOLEAN
  BY <1>1, <1>2, ProcessType DEF Posted, Polling
<1>3. ASSUME NEW b \in BOOLEAN, PostFailed(b), plugin' = plugin
      PROVE  Submitted'
  <2>1. faults' \in 0 .. MaxFaults /\ faults' = faults + 1
    BY <1>3, FaultType DEF PostFailed
  <2>2. phase' \in {"submitTimer", "failed"} /\ followed' = followed
    BY <1>3 DEF PostFailed, Reject
  <2>3. \/ UNCHANGED <<items, unheard>>
        \/ \E i \in Item : Process(i) /\ unheard' = unheard + 1
    BY <1>3 DEF PostFailed
  <2> QED BY <1>1, <1>3, <2>1, <2>2, <2>3, ProcessType DEF Polling
<1>4. CASE /\ Fault("badBody") /\ Reject /\ \E i \in Item : Process(i)
           /\ plugin' = TRUE /\ unheard' = unheard + 1 /\ followed' = followed
  <2>1. faults' \in 0 .. MaxFaults /\ faults' = faults + 1
    BY <1>4, FaultType
  <2> QED BY <1>1, <1>4, <2>1, ProcessType DEF Reject, Polling
<1>5. CASE /\ phase' = "classic" /\ plugin' = FALSE
           /\ UNCHANGED <<followed, faults, items, unheard>>
  BY <1>1, <1>5 DEF Polling
<1> QED BY <1>2, <1>3, <1>4, <1>5 DEF PostTeamBuild, PostJobQueue

(* The other callbacks leave the items alone. *)
LEMMA PollKeeps ==
  ASSUME Submitted, GetCrumb \/ SubmitTimer \/ CreateRootJob \/ QueueTimer
  PROVE  Submitted'
<1> USE DEF Submitted, SubmitTypeOK, NothingFollowed, OrphansUnheard
<1>1. UNCHANGED <<plugin, followed, installed, items, unheard>>
  BY DEF GetCrumb, SubmitTimer, CreateRootJob, QueueTimer, jenkinsVars
<1>2. \/ faults' = faults
      \/ faults' \in 0 .. MaxFaults /\ faults' = faults + 1
  BY FaultType DEF GetCrumb, SubmitTimer, CreateRootJob, QueueTimer
<1>3. \/ phase \in {"crumb", "submitTimer"} /\ phase' \in {"crumb", "team", "submitTimer", "failed"}
      \/ phase' \in {"queue", "queueTimer", "started", "failed"}
  BY DEF GetCrumb, SubmitTimer, CreateRootJob, QueueTimer, Reject
<1> QED BY <1>1, <1>2, <1>3 DEF Polling

LEMMA SubmittedNext ==
  ASSUME Submitted, [Next]_vars
  PROVE  Submitted'
<1> USE DEF Submitted, SubmitTypeOK, NothingFollowed, OrphansUnheard
<1>1. CASE LeaveQueue
  <2>1. /\ items' \in Seq({"queued", "executing", "cancelled"})
        /\ Len(items') = Len(items)
    BY <1>1 DEF LeaveQueue
  <2>2. UNCHANGED <<phase, plugin, followed, faults, installed, unheard>>
    BY <1>1 DEF LeaveQueue
  <2> QED BY <2>1, <2>2
<1>2. CASE UNCHANGED vars
  BY <1>2 DEF vars, jenkinsVars
<1> QED BY <1>1, <1>2, PostKeeps, PollKeeps DEF Next, TaskStep

(* The types hold in every behaviour: no poll of the queue asks for an item *)
(* Jenkins has not named.                                                  *)
THEOREM SubmitTypeCorrect == Spec => []SubmitTypeOK
<1>1. Init => Submitted
  BY SubmittedInit
<1>2. Submitted /\ [Next]_vars => Submitted'
  BY SubmittedNext
<1>3. Submitted => SubmitTypeOK
  BY DEF Submitted
<1> QED BY <1>1, <1>2, <1>3, PTL DEF Spec

(* In every behaviour the builds of Jenkins which the task started and does   *)
(* not follow are at most as many as its posts that were processed without   *)
(* an answer arriving: pollSubmitJob repeats a post only then, and never     *)
(* once createRootJob has an item to poll.                                 *)
THEOREM OnlyUnheardOrphans == Spec => []OrphansUnheard
<1>1. Init => Submitted
  BY SubmittedInit
<1>2. Submitted /\ [Next]_vars => Submitted'
  BY SubmittedNext
<1>3. Submitted => OrphansUnheard
  BY DEF Submitted
<1> QED BY <1>1, <1>2, <1>3, PTL DEF Spec

-----------------------------------------------------------------------------
(* Who follows an item was answered by the plugin, if it is installed, and  *)
(* by the default endpoint otherwise.                                      *)
Followed ==
  /\ phase = "classic" => ~plugin /\ ~installed
  /\ phase \in {"queue", "queueTimer", "started"} => followed # 0 /\ plugin = installed
  /\ phase = "started" => items[followed] = "executing"

Rooted == Submitted /\ Followed

LEMMA PostRoots ==
  ASSUME Rooted, PostTeamBuild \/ PostJobQueue
  PROVE  Followed'
<1> USE DEF Rooted, Submitted, SubmitTypeOK, Followed
<1>1. installed' = installed
  BY DEF PostTeamBuild, PostJobQueue
<1>2. ASSUME Posted PROVE phase' = "queue" /\ followed' # 0
  BY <1>2 DEF Posted, Item
<1>3. ASSUME NEW b, PostFailed(b) PROVE phase' \in {"submitTimer", "failed"}
  BY <1>3 DEF PostFailed, Reject
<1>4. CASE PostTeamBuild
  <2>1. CASE installed /\ Posted /\ plugin' = TRUE
    BY <2>1, <1>1, <1>2
  <2>2. CASE phase' \in {"failed", "submitTimer"}
    BY <2>2
  <2>3. CASE ~installed /\ phase' = "classic" /\ plugin' = FALSE
    BY <2>3, <1>1
  <2> QED BY <1>4, <1>3, <2>1, <2>2, <2>3 DEF PostTeamBuild, Reject
<1>5. CASE PostJobQueue
  <2>1. phase = "classic" /\ plugin' = plugin
    BY <1>5 DEF PostJobQueue
  <2> QED BY <1>5, <2>1, <1>1, <1>2, <1>3 DEF PostJobQueue
<1> QED BY <1>4, <1>5

LEMMA PollRoots ==
  ASSUME Rooted, GetCrumb \/ SubmitTimer \/ CreateRootJob \/ QueueTimer
  PROVE  Followed'
<1> USE DEF Rooted, Followed
<1>1. UNCHANGED <<plugin, followed, installed, items>>
  BY DEF GetCrumb, SubmitTimer, CreateRootJob, QueueTimer, jenkinsVars
<1>2. \/ phase' \in {"crumb", "team", "submitTimer", "failed"}
      \/ phase \in {"queue", "queueTimer"} /\ phase' \in {"queue", "queueTimer"}
      \/ phase = "queue" /\ phase' = "started" /\ items[followed] = "executing"
  BY DEF GetCrumb, SubmitTimer, CreateRootJob, QueueTimer, Reject
<1> QED BY <1>1, <1>2

(* An item that has a build keeps it.                                      *)
LEMMA LeaveRoots ==
  ASSUME Rooted, LeaveQueue
  PROVE  Followed'
<1> USE DEF Rooted, Submitted, SubmitTypeOK, Followed
<1>1. UNCHANGED <<phase, plugin, followed, installed>>
  BY DEF LeaveQueue
<1>2. phase = "started" => items'[followed] = "executing"
  BY DEF LeaveQueue
<1> QED BY <1>1, <1>2

(* The queue starts over an item that has its build, in the mode of the    *)
(* endpoint that answered, however often posts and polls were repeated.     *)
THEOREM RootIsExecuting == Spec => []RootExecuting
<1>1. Init => Rooted
  <2>1. Init => Followed
    BY DEF Init, Followed
  <2> QED BY <2>1, SubmittedInit DEF Rooted
<1>2. Rooted /\ [Next]_vars => Rooted'
  <2>1. Rooted /\ UNCHANGED vars => Followed'
    BY DEF Rooted, Followed, vars, jenkinsVars
  <2> QED
    BY <2>1, SubmittedNext, PostRoots, PollRoots, LeaveRoots DEF Rooted, Next, TaskStep
<1>3. Rooted => RootExecuting
  BY DEF Rooted, Submitted, SubmitTypeOK, Followed, RootExecuting
<1> QED BY <1>1, <1>2, <1>3, PTL DEF Spec
=============================================================================
