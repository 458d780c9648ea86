------------------------- MODULE KubernetesManifest -------------------------
(***************************************************************************)
(* The canary strategy of the KubernetesManifest task: deploy a canary and *)
(* a baseline beside the stable workload, then promote or reject.  Every    *)
(* kubectl call may fail, and an apply or a delete that fails may have      *)
(* done part of its work.  Tasks of one pipeline, one at a time; any of     *)
(* them may be cancelled between two calls.                                *)
(***************************************************************************)
EXTENDS Integers

CONSTANTS
  App,            \* names in the manifests: a deployment and its service each
  Percentage,     \* task input percentage, an integer
  MaxRelease,     \* bound: releases of the manifests
  MaxFaults       \* bound: calls that fail or are cancelled in one behaviour

ASSUME PercentageAssumption == Percentage \in 0..100
ASSUME BoundAssumption == MaxRelease \in Nat \ {0} /\ MaxFaults \in Nat

VARIABLES
  method,         \* task input trafficSplitMethod
  release,        \* the release the pipeline's manifests hold
  action,         \* task input action
  pc,             \* the kubectl call the task is at
  applied,        \* the result of apply that is still to be checked
  last,           \* the latest task that ended, and whether it succeeded
  image,          \* the release each workload runs, 0 where there is none
  marked,         \* apps whose stable workload carries the label stable
  rolledOut,      \* apps whose stable workload passed the stability check
  service,        \* the services of the variants
  split,          \* weights of the TrafficSplit objects, in thousandths
  faults          \* calls that failed and tasks that were cancelled so far

taskVars == <<release, action, pc, applied, last>>
workloadVars == <<image, marked, rolledOut>>
trafficVars == <<service, split>>
vars == <<method, taskVars, workloadVars, trafficVars, faults>>

Variant == {"stable", "baseline", "canary"}
Object == App \X Variant
SMI == method = "SMI"

Weights(s, b, c) == [stable |-> s, baseline |-> b, canary |-> c]
NoSplit == Weights(0, 0, 0)
AllToCanary == Weights(0, 0, 1000)
AllToStable == Weights(1000, 0, 0)
Shares ==
  LET percentage == Percentage * 10
      half == percentage \div 2
  IN  Weights(1000 - percentage, half, half)

(* kubectl reports a failure whether it did nothing, a part or all of what *)
(* it was asked for; a success means all of it.                            *)
Outcomes(objs) == {r \in [done : SUBSET objs, ok : BOOLEAN] : r.ok => r.done = objs}

Fault(failed) ==
  /\ failed => faults < MaxFaults
  /\ faults' = IF failed THEN faults + 1 ELSE faults

-----------------------------------------------------------------------------
(* The task's skeleton                                                     *)

Finish(ok) ==
  /\ pc' = "idle"
  /\ last' = <<action, ok>>
  /\ UNCHANGED <<release, action, applied>>

GoTo(call) ==
  /\ pc' = call
  /\ UNCHANGED <<release, action, applied, last>>

Start(act, call) ==
  /\ pc = "idle"
  /\ action' = act
  /\ pc' = call
  /\ UNCHANGED <<method, applied, last, workloadVars, trafficVars, faults>>

StartDeploy ==
  /\ Start("deploy", "applyCanary")
  /\ release' \in {release, release + 1} \cap 1..MaxRelease

StartPromote ==
  /\ last \in {<<"deploy", TRUE>>, <<"promote", FALSE>>}
  /\ Start("promote", IF SMI THEN "trafficToCanary" ELSE "applyStable")
  /\ UNCHANGED release

StartReject ==
  /\ last \in {<<"deploy", TRUE>>, <<"deploy", FALSE>>,
               <<"promote", FALSE>>, <<"reject", FALSE>>}
  /\ Start("reject", IF SMI THEN "trafficToStable" ELSE "delete")
  /\ UNCHANGED release

Cancel ==
  /\ pc # "idle"
  /\ Finish(FALSE)
  /\ Fault(TRUE)
  /\ UNCHANGED <<method, workloadVars, trafficVars>>

-----------------------------------------------------------------------------
(* Deploying                                                               *)

(* seen: the apps whose stable workload the query returned; a query that   *)
(* fails is taken for a workload that is not there.                        *)
NotMarkedStable(seen) == SMI /\ ~ seen \subseteq marked

ApplyCanary ==
  /\ pc = "applyCanary"
  /\ \E seen \in SUBSET {a \in App : image[<<a, "stable">>] # 0} :
       LET objs == (App \X {"canary"}) \cup (seen \X {"baseline"})
           missed == \E a \in App \ seen : image[<<a, "stable">>] # 0
       IN  \/ /\ NotMarkedStable(seen)
              /\ Finish(FALSE)
              /\ Fault(missed)
              /\ UNCHANGED workloadVars
           \/ /\ ~ NotMarkedStable(seen)
              /\ \E r \in Outcomes(objs) :
                   /\ image' = [o \in Object |->
                        IF o \notin r.done THEN image[o]
                        ELSE IF o[2] = "canary" THEN release
                        ELSE image[<<o[1], "stable">>]]
                   /\ applied' = r.ok
                   /\ Fault(missed \/ ~r.ok)
              /\ pc' = IF SMI THEN "createServices" ELSE "checkRollout"
              /\ UNCHANGED <<release, action, last, marked, rolledOut>>
  /\ UNCHANGED <<method, trafficVars>>

(* seen: apps whose stable service was returned; read: apps whose traffic  *)
(* split was returned.                                                     *)
NeedsSplit(a, seen, read) ==
  a \notin seen \/ ~(a \in read /\ split[a].canary = 1000)

(* Mutant: the percentage is not halved. *)
NewSplitDoubled(a, seen) ==
  IF a \in seen THEN Weights(1000 - 10 * Percentage, 10 * Percentage, 10 * Percentage)
  ELSE AllToCanary

(* Mutant: no share for the baseline. *)
NewSplitSkewed(a, seen) ==
  IF a \in seen THEN Weights(1000 - 10 * Percentage, 0, 10 * Percentage)
  ELSE AllToCanary

NewSplit(a, seen) == IF a \in seen THEN Shares ELSE AllToCanary

CreateServices ==
  /\ pc = "createServices"
  /\ \E seen \in SUBSET {a \in App : <<a, "stable">> \in service} :
     \E read \in SUBSET {a \in seen : split[a] # NoSplit} :
       LET objs == (App \X {"canary", "baseline"}) \cup ((App \ seen) \X {"stable"})
           routes == {a \in App : NeedsSplit(a, seen, read)} \X {"split"}
           missed == \/ \E a \in App \ seen : <<a, "stable">> \in service
                     \/ \E a \in seen \ read : split[a] # NoSplit
       IN  \E r \in Outcomes(objs \cup routes) :
             /\ service' = service \cup (r.done \cap objs)
             /\ split' = [a \in App |-> IF <<a, "split">> \in r.done
                                        THEN NewSplit(a, seen) ELSE split[a]]
             /\ IF r.ok THEN GoTo("checkRollout") ELSE Finish(FALSE)
             /\ Fault(missed \/ ~r.ok)
  /\ UNCHANGED <<method, workloadVars>>

ApplyStable ==
  /\ pc = "applyStable"
  /\ \E r \in Outcomes(App) :
       /\ image' = [o \in Object |-> IF o[2] = "stable" /\ o[1] \in r.done
                                     THEN release ELSE image[o]]
       /\ marked' = IF SMI THEN marked \cup r.done ELSE marked
       /\ rolledOut' = rolledOut \ {a \in r.done : image[<<a, "stable">>] # release}
       /\ applied' = r.ok
       /\ Fault(~r.ok)
  /\ pc' = "checkRollout"
  /\ UNCHANGED <<method, release, action, last, trafficVars>>

(* Mutant: rollout errors are only logged. *)
SettledAnyway(up) == TRUE

Settled(up) == up = App

(* The result of apply is checked first, then the rollout of each workload. *)
CheckRollout ==
  /\ pc = "checkRollout"
  /\ \/ /\ ~applied
        /\ Finish(FALSE)
        /\ UNCHANGED <<rolledOut, faults>>
     \/ /\ applied
        /\ \E up \in SUBSET App :
             /\ IF action = "promote"
                THEN rolledOut' = rolledOut \cup up
                ELSE UNCHANGED rolledOut
             /\ IF ~Settled(up) THEN Finish(FALSE)
                ELSE IF action = "deploy" THEN Finish(TRUE)
                ELSE GoTo(IF SMI THEN "trafficToStable" ELSE "delete")
             /\ Fault(up # App)
  /\ UNCHANGED <<method, image, marked, trafficVars>>

-----------------------------------------------------------------------------
(* Promoting and rejecting                                                 *)

(* Mutant: the result is not checked. *)
AdjustTrafficUnchecked(weights, next) ==
  /\ \E r \in Outcomes(App) :
       /\ split' = [a \in App |-> IF a \in r.done THEN weights ELSE split[a]]
       /\ GoTo(next)
       /\ Fault(~r.ok)
  /\ UNCHANGED <<method, workloadVars, service>>

AdjustTraffic(weights, next) ==
  /\ \E r \in Outcomes(App) :
       /\ split' = [a \in App |-> IF a \in r.done THEN weights ELSE split[a]]
       /\ IF r.ok THEN GoTo(next) ELSE Finish(FALSE)
       /\ Fault(~r.ok)
  /\ UNCHANGED <<method, workloadVars, service>>

TrafficToCanary == pc = "trafficToCanary" /\ AdjustTraffic(AllToCanary, "applyStable")

(* Mutant: the traffic stays where it is. *)
TrafficKept ==
  /\ pc = "trafficToStable"
  /\ GoTo("delete")
  /\ UNCHANGED <<method, workloadVars, trafficVars, faults>>

TrafficToStable == pc = "trafficToStable" /\ AdjustTraffic(AllToStable, "delete")

(* Mutant: reject ignores errors, too. *)
DeleteSucceedsAlways(okW, okS) == TRUE

DeleteSucceeds(okW, okS) == action = "promote" \/ (okW /\ okS)

(* Workloads first, as the manifests list them; services only if that and  *)
(* the SMI method ask for it.  Names that are not there are an error.  A    *)
(* promotion turns the error into a warning.                               *)
Remove(workloads, services, r, q) ==
  LET okW == r.ok /\ \A o \in workloads : image[o] # 0
      okS == SMI => q.ok /\ services \subseteq service
  IN  /\ image' = [o \in Object |-> IF o \in r.done THEN 0 ELSE image[o]]
      /\ service' = IF SMI /\ okW THEN service \ q.done ELSE service
      /\ Finish(DeleteSucceeds(okW, okS))

(* The variants that are deleted; seen are those of which a baseline was   *)
(* returned.                                                               *)
Named(seen) == (App \X {"canary"}) \cup (seen \X {"baseline"})

Delete ==
  /\ pc = "delete"
  /\ \E seen \in SUBSET {a \in App : image[<<a, "baseline">>] # 0},
        svcs \in SUBSET {a \in App : <<a, "baseline">> \in service} :
     \E r \in Outcomes(Named(seen)), q \in Outcomes(Named(svcs)) :
       /\ Remove(Named(seen), Named(svcs), r, q)
       /\ Fault(\/ ~r.ok
                \/ SMI /\ ~q.ok
                \/ \E a \in App \ seen : image[<<a, "baseline">>] # 0
                \/ SMI /\ \E a \in App \ svcs : <<a, "baseline">> \in service)
  /\ UNCHANGED <<method, marked, rolledOut, split>>

-----------------------------------------------------------------------------
(* A workload that is there at the beginning was deployed without the      *)
(* strategy and carries no label.                                          *)
Init ==
  /\ method \in {"SMI", "POD"}
  /\ release \in 0..1
  /\ image \in [Object -> {0, release}]
  /\ \A o \in Object : o[2] # "stable" => image[o] = 0
  /\ action = "none" /\ pc = "idle" /\ applied = TRUE
  /\ last = <<"none", TRUE>>
  /\ marked = {} /\ rolledOut = {} /\ service = {}
  /\ split = [a \in App |-> NoSplit]
  /\ faults = 0

TaskCall ==
  \/ ApplyCanary \/ CreateServices \/ ApplyStable \/ CheckRollout
  \/ TrafficToCanary \/ TrafficToStable \/ Delete

Pipeline == StartDeploy \/ StartPromote \/ StartReject \/ Cancel

Next == TaskCall \/ Pipeline

Spec == Init /\ [][Next]_vars

-----------------------------------------------------------------------------
(* Properties                                                              *)

Call == {"applyCanary", "createServices", "applyStable", "checkRollout",
         "trafficToCanary", "trafficToStable", "delete"}

(* Each task is at a call its action makes, and no object runs a release    *)
(* the pipeline has not had.                                               *)
ManifestTypeOK ==
  /\ method \in {"SMI", "POD"}
  /\ release \in 0..MaxRelease
  /\ action \in {"none", "deploy", "promote", "reject"}
  /\ pc \in {"idle"} \cup Call
  /\ last \in {"none", "deploy", "promote", "reject"} \X BOOLEAN
  /\ applied \in BOOLEAN /\ faults \in 0..MaxFaults
  /\ image \in [Object -> 0..release]
  /\ marked \subseteq App /\ rolledOut \subseteq App
  /\ service \subseteq Object
  /\ split \in [App -> {NoSplit, AllToCanary, AllToStable, Shares}]

(* The stable workload changes only while the traffic split sends nothing  *)
(* to it, whatever failed or was cancelled before: promote redirects the    *)
(* traffic of every service, and stops if one of them could not be.         *)
StableUpdatedUnloaded ==
  [][\A a \in App : SMI /\ image'[<<a, "stable">>] # image[<<a, "stable">>]
                      => action = "promote" /\ split[a] = AllToCanary]_vars

(* A promotion gives the traffic back to a stable workload only when it runs *)
(* the promoted release and its rollout was seen to end well.               *)
ReturnedWhenVerified ==
  [][\A a \in App : split'[a] = AllToStable /\ split[a] # AllToStable /\ action = "promote"
                      => a \in rolledOut /\ image[<<a, "stable">>] = release]_vars

(* No workload and no service is removed while the traffic split still     *)
(* sends traffic to it.                                                    *)
RemovedUnloaded ==
  [][\A a \in App, v \in Variant :
        \/ image[<<a, v>>] # 0 /\ image'[<<a, v>>] = 0
        \/ <<a, v>> \in service \ service'
        => split[a][v] = 0]_vars

(* What a task reports is so: after a promotion the stable workloads run   *)
(* the release, verified, with all the traffic; after a rejection no canary *)
(* is left and no traffic goes to it.                                      *)
ManifestResultIsReal ==
  pc = "idle" =>
    /\ last = <<"promote", TRUE>> =>
         \A a \in App : /\ image[<<a, "stable">>] = release
                        /\ a \in rolledOut
                        /\ SMI => split[a] = AllToStable
    /\ last = <<"reject", TRUE>> =>
         \A a \in App : /\ image[<<a, "canary">>] = 0
                        /\ SMI => split[a] = AllToStable /\ <<a, "canary">> \notin service

(* Once a promotion has put the stable workload there, and as long as       *)
(* nothing fails, no traffic goes to a service or workload that is missing. *)
TrafficServed ==
  faults = 0 => \A a \in App, v \in Variant :
    a \in marked /\ split[a][v] # 0
      => <<a, v>> \in service /\ image[<<a, v>>] # 0

(* As long as nothing fails, a canary beside a stable workload gets no more *)
(* than its share until it is promoted.                                    *)
GradualExposure ==
  faults = 0 /\ action # "promote" =>
    \A a \in App : image[<<a, "stable">>] # 0 => split[a].canary <= Shares.canary
=============================================================================
