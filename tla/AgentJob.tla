------------------------------ MODULE AgentJob ------------------------------
(***************************************************************************)
(* A job as the build agent runs it (external; from the task.json files    *)
(* and what the tasks rely on): the pre-job handlers of its steps in order, *)
(* the steps themselves, and the post-job handlers in the opposite order,  *)
(* these last whatever happened before.  After a failure, steps run only   *)
(* if their condition says so.                                             *)
(***************************************************************************)
EXTENDS Integers

CONSTANTS
  Steps,        \* number of steps of the job
  MaxFaults     \* bound: handlers that fail or are killed

ASSUME JobAssumption == Steps \in Nat \ {0} /\ MaxFaults \in Nat

VARIABLES
  stage,        \* pre, main, post or ended
  at,           \* the step whose handler runs, or is the next to run
  pc,           \* where in its handler the step is; enter: at its beginning
  failed,       \* a step has failed
  killed,       \* the calls handlers were stopped at, by a kill or a late failure
  faults        \* failures so far

agentVars == <<stage, at, pc, failed, killed, faults>>

Step == 1..Steps

Running(s, steps) == stage = s /\ at \in steps

(* The next step of the stage, or the first of the next stage.             *)
Advance ==
  /\ pc' = "enter"
  /\ \/ /\ stage \in {"pre", "main"} /\ at < Steps
        /\ at' = at + 1 /\ UNCHANGED stage
     \/ /\ stage = "pre" /\ at = Steps
        /\ stage' = "main" /\ at' = 1
     \/ /\ stage = "main" /\ at = Steps
        /\ stage' = "post" /\ UNCHANGED at
     \/ /\ stage = "post" /\ at > 1
        /\ at' = at - 1 /\ UNCHANGED stage
     \/ /\ stage = "post" /\ at = 1
        /\ stage' = "ended" /\ UNCHANGED at

Succeed == Advance /\ UNCHANGED <<failed, killed, faults>>

Fault == faults < MaxFaults /\ faults' = faults + 1

Fail == Advance /\ failed' = TRUE /\ Fault /\ UNCHANGED killed

(* A failure that an earlier fault has made inevitable.                     *)
FailAgain == Advance /\ failed' = TRUE /\ UNCHANGED <<killed, faults>>

(* A failure that the handler does not notice.                             *)
Overlook == Advance /\ Fault /\ UNCHANGED <<failed, killed>>

Continue(call) == pc' = call /\ UNCHANGED <<stage, at, failed, killed, faults>>

(* The handler is left before the call it is at, with what it did so far.  *)
Abort == Advance /\ failed' = TRUE /\ Fault /\ killed' = killed \cup {pc}

(* Cancelled, or out of time.  Post-job handlers are let run to their end.  *)
Kill == stage \in {"pre", "main"} /\ pc # "enter" /\ Abort

InitJob ==
  /\ stage = "pre" /\ at = 1 /\ pc = "enter"
  /\ failed = FALSE /\ killed = {} /\ faults = 0
=============================================================================
