-------------------------- MODULE PipelineTracking --------------------------
(***************************************************************************)
(* What the queue promises, without searches, requests or consoles: each   *)
(* job of the pipeline is waited for, then follows one build until it ends, *)
(* or is dropped because another job follows its build or nobody needs it. *)
(* A build is never followed twice, a job never changes its build, and     *)
(* success is only announced when every job that was not dropped has ended *)
(* well.                                                                   *)
(***************************************************************************)
CONSTANTS Job, NoBuild

VARIABLES
  status,       \* status[j]: how far job j is
  follows,      \* follows[j]: the build job j follows
  verdict       \* what has been announced

trackingVars == <<status, follows, verdict>>

Later(s) ==
  CASE s = "unknown"   -> {"waiting", "dropped"}
    [] s = "waiting"   -> {"following", "dropped"}
    [] s = "following" -> {"good", "bad", "released"}
    [] OTHER           -> {}

InitTracking ==
  /\ \A j \in Job : status[j] \in {"unknown", "waiting"}
  /\ \A j \in Job : follows[j] = NoBuild
  /\ verdict = "open"

(* Some jobs move on.  At most one of them starts to follow a build, which  *)
(* must be nobody else's; the ones that ended well had a build to follow.  *)
MoveOn ==
  LET moved == {j \in Job : status'[j] # status[j]}
      started == {j \in Job : follows'[j] # follows[j]}
  IN /\ verdict = "open" /\ verdict' = verdict
     /\ \A j \in moved : status'[j] \in Later(status[j])
     /\ \A i, j \in started : i = j
     /\ \A j \in started : /\ status[j] = "waiting" /\ status'[j] = "following"
                           /\ \A i \in Job \ {j} : follows[i] # follows'[j]
     /\ \A j \in moved : status'[j] = "good" => follows[j] # NoBuild

Announce ==
  /\ verdict = "open"
  /\ \/ verdict' = "failed"
     \/ /\ verdict' = "succeeded"
        /\ \A j \in Job : status[j] \in {"unknown", "good", "dropped", "released"}
  /\ UNCHANGED <<status, follows>>

NextTracking == MoveOn \/ Announce

TrackingSpec == InitTracking /\ [][NextTracking]_trackingVars
=============================================================================
