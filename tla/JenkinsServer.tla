--------------------------- MODULE JenkinsServer ---------------------------
(***************************************************************************)
(* The Jenkins server as the task observes it over HTTP (external code):   *)
(* numbered builds of each project with the causes and the result that     *)
(* job.ts and jobsearch.ts read, and the queue in which a project that was *)
(* triggered several times before its build starts is run only once, with  *)
(* all the causes (the comment at jobsearch.ts:259).                       *)
(***************************************************************************)
EXTENDS Integers, Sequences

CONSTANTS
  Id,           \* the projects, by Job.Identifier
  RootId,       \* the project the task submitted
  Downstream,   \* Downstream[id]: projects a stable build of id triggers
  OldBuilds,    \* OldBuilds[id]: builds of id older than the root build
  Results,      \* the results Jenkins may give to a build
  MaxForeign    \* bound: builds somebody else starts meanwhile

ASSUME ServerAssumption ==
  /\ RootId \in Id
  /\ Downstream \in [Id -> SUBSET Id]
  /\ OldBuilds \in [Id -> Nat]
  /\ "SUCCESS" \in Results /\ "none" \notin Results
  /\ MaxForeign \in Nat

VARIABLES
  builds,       \* builds[id][n]: build number n of project id
  queued,       \* queued[id]: causes of the queue item of id, << >> if none
  foreign       \* foreign builds so far

serverVars == <<builds, queued, foreign>>

Cause == Id \X Nat
Build == [causes : Seq(Cause), result : Results \cup {"none"}]

RootNumber == OldBuilds[RootId] + 1

NewBuild(causes) == [causes |-> causes, result |-> "none"]

(* The root build has just left Jenkins' queue: createRootJob saw an        *)
(* "executable" in the queue item and learned the build's number.          *)
InitServer ==
  /\ builds = [id \in Id |->
       [n \in 1 .. (IF id = RootId THEN RootNumber ELSE OldBuilds[id]) |->
          IF n <= OldBuilds[id]
            THEN [causes |-> << >>, result |-> "SUCCESS"]
            ELSE NewBuild(<< >>)]]
  /\ queued = [id \in Id |-> << >>]
  /\ foreign = 0

(* The queue item of id becomes its next build. *)
StartBuild(id) ==
  /\ queued[id] # << >>
  /\ builds' = [builds EXCEPT ![id] = Append(@, NewBuild(queued[id]))]
  /\ queued' = [queued EXCEPT ![id] = << >>]
  /\ UNCHANGED foreign

(* A running build ends.  A stable one triggers the downstream projects; a  *)
(* project already in the queue is not queued twice: the cause is added.   *)
FinishBuild(id, n) ==
  /\ n \in DOMAIN builds[id]
  /\ builds[id][n].result = "none"
  /\ \E r \in Results :
       /\ builds' = [builds EXCEPT ![id][n].result = r]
       /\ queued' = IF r = "SUCCESS"
                      THEN [d \in Id |-> IF d \in Downstream[id]
                                           THEN Append(queued[d], <<id, n>>)
                                           ELSE queued[d]]
                      ELSE queued
  /\ UNCHANGED foreign

(* Somebody else starts a build of a project of the pipeline. *)
ForeignBuild(id) ==
  /\ foreign < MaxForeign
  /\ foreign' = foreign + 1
  /\ builds' = [builds EXCEPT ![id] = Append(@, NewBuild(<< >>))]
  /\ UNCHANGED queued

ServerStep ==
  \/ \E id \in Id : StartBuild(id) \/ ForeignBuild(id)
  \/ \E id \in Id : \E n \in DOMAIN builds[id] : FinishBuild(id, n)

ServerTypeOK ==
  /\ builds \in [Id -> Seq(Build)]
  /\ queued \in [Id -> Seq(Cause)]
  /\ foreign \in 0 .. MaxForeign
=============================================================================
