-------------------------- MODULE JenkinsJobStates --------------------------
(***************************************************************************)
(* The life cycle of a tracked Jenkins job: states.ts, and the state       *)
(* classes the queue and the searches ask about.  "Absent" is a job whose  *)
(* Job object has not been constructed yet; it is not a state of the code. *)
(***************************************************************************)

JobState == {"New", "Locating", "Streaming", "Finishing", "Done", "Joined",
             "Queued", "Cut", "Downloading", "Killed"}

(* checkStateTransitions: the pairs it accepts. *)
Successors(s) ==
  CASE s = "New"         -> {"Locating", "Streaming", "Joined", "Cut"}
    [] s = "Locating"    -> {"Streaming", "Joined", "Cut"}
    [] s = "Streaming"   -> {"Finishing"}
    [] s = "Finishing"   -> {"Downloading", "Queued", "Done", "Killed"}
    [] s = "Downloading" -> {"Done"}
    [] OTHER             -> {}

CheckStateTransition(s, t) == t \in Successors(s)

(* Seeded fault: a job that is still located is not active. *)
ActiveOnceStarted == {"New", "Streaming", "Downloading", "Finishing"}

(* Job.IsActive: the queue keeps running while a job is in one of these. *)
Active == {"New", "Locating", "Streaming", "Downloading", "Finishing"}

(* findRunningJobs: the states whose jobs the tick gives work to. *)
Running == {"Streaming", "Downloading", "Finishing"}

(* DetermineMainJob: a cause in one of these states has run. *)
Ran == {"Streaming", "Finishing", "Downloading", "Queued", "Done"}

(* DetermineMainJob: a child in one of these states is the master. *)
Mastering == {"Streaming", "Finishing", "Done"}

Pending == {"New", "Locating"}

(* DetermineMainJob: a cause in one of these states will not run. *)
GivenUp == {"Joined", "Cut"}
=============================================================================
