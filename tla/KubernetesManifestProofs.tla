----------------------- MODULE KubernetesManifestProofs -----------------------
(***************************************************************************)
(* The safety of the traffic during a promotion and a rejection, for any   *)
(* apps, percentage, releases and faults.                                  *)
(***************************************************************************)
EXTENDS KubernetesManifest, TLAPS

(* What each call of a task may rely on: the call belongs to the action,   *)
(* and the calls before it have established what the next ones need.       *)
CallsOfAction ==
  /\ pc \in {"applyCanary", "createServices"} => action = "deploy"
  /\ pc \in {"trafficToCanary", "applyStable"} => action = "promote"
  /\ pc = "checkRollout" => action \in {"deploy", "promote"}
  /\ pc \in {"trafficToStable", "delete"} => action \in {"promote", "reject"}
  /\ pc \in {"createServices", "trafficToCanary", "trafficToStable"} => SMI

ReleaseNamed ==
  /\ pc # "idle" => release # 0
  /\ last[1] # "none" => release # 0

Unloaded ==
  /\ pc = "applyStable" /\ SMI => \A a \in App : split[a] = AllToCanary
  /\ pc = "delete" /\ SMI => \A a \in App : split[a] = AllToStable
  /\ ~SMI => \A a \in App : split[a] = NoSplit

Promoted ==
  /\ pc = "checkRollout" /\ action = "promote" /\ applied
       => \A a \in App : image[<<a, "stable">>] = release
  /\ pc \in {"trafficToStable", "delete"} /\ action = "promote"
       => \A a \in App : a \in rolledOut /\ image[<<a, "stable">>] = release

ManifestInv ==
  /\ ManifestTypeOK
  /\ CallsOfAction
  /\ ReleaseNamed
  /\ Unloaded
  /\ Promoted
  /\ ManifestResultIsReal

LEMMA OutcomeFacts ==
  ASSUME NEW objs, NEW r \in Outcomes(objs)
  PROVE  /\ r.done \subseteq objs
         /\ r.ok \in BOOLEAN
         /\ r.ok => r.done = objs
<1>1. r \in [done : SUBSET objs, ok : BOOLEAN] /\ (r.ok => r.done = objs)
  BY DEF Outcomes
<1>2. r.done \in SUBSET objs /\ r.ok \in BOOLEAN
  BY <1>1
<1> QED
  BY <1>1, <1>2

LEMMA FaultFacts ==
  ASSUME ManifestTypeOK, NEW failed, Fault(failed)
  PROVE  faults' \in 0..MaxFaults
BY BoundAssumption DEF ManifestTypeOK, Fault

LEMMA SplitWeights ==
  /\ \A v \in Variant : NoSplit[v] = 0
  /\ AllToStable["canary"] = 0 /\ AllToStable["baseline"] = 0
  /\ AllToCanary # AllToStable /\ NoSplit # AllToStable
<1>1. \A v \in Variant : NoSplit[v] = 0
  BY DEF NoSplit, Weights, Variant
<1>2. AllToStable["canary"] = 0 /\ AllToStable["baseline"] = 0 /\ AllToStable["stable"] = 1000
  BY DEF AllToStable, Weights
<1>3. AllToCanary["canary"] = 1000 /\ NoSplit["stable"] = 0
  BY DEF AllToCanary, NoSplit, Weights
<1> QED
  BY <1>1, <1>2, <1>3

LEMMA InitInv == Init => ManifestInv
<1> SUFFICES ASSUME Init PROVE ManifestInv
  OBVIOUS
<1> USE DEF Init
<1>1. ManifestTypeOK
  <2>1. release \in 0..MaxRelease
    BY BoundAssumption
  <2>2. image \in [Object -> 0..release]
    <3>1. {0, release} \subseteq 0..release
      BY <2>1
    <3> QED
      BY <3>1
  <2>3. split \in [App -> {NoSplit, AllToCanary, AllToStable, Shares}]
    OBVIOUS
  <2>4. faults \in 0..MaxFaults
    BY BoundAssumption
  <2> QED
    BY <2>1, <2>2, <2>3, <2>4 DEF ManifestTypeOK
<1>2. CallsOfAction
  BY DEF CallsOfAction
<1>3. ReleaseNamed
  BY DEF ReleaseNamed
<1>4. Unloaded
  BY DEF Unloaded
<1>5. Promoted
  BY DEF Promoted
<1>6. ManifestResultIsReal
  BY DEF ManifestResultIsReal
<1> QED
  BY <1>1, <1>2, <1>3, <1>4, <1>5, <1>6 DEF ManifestInv

-----------------------------------------------------------------------------
(* The pipeline's steps                                                     *)

LEMMA StartInv ==
  ManifestInv /\ (StartDeploy \/ StartPromote \/ StartReject) => ManifestInv'
<1> SUFFICES ASSUME ManifestInv, StartDeploy \/ StartPromote \/ StartReject
             PROVE  ManifestInv'
  OBVIOUS
<1> USE DEF ManifestInv
<1>1. /\ pc = "idle"
      /\ UNCHANGED <<method, applied, last, workloadVars, trafficVars, faults>>
  BY DEF StartDeploy, StartPromote, StartReject, Start
<1>2. /\ method' = method /\ applied' = applied /\ last' = last /\ faults' = faults
      /\ image' = image /\ marked' = marked /\ rolledOut' = rolledOut
      /\ service' = service /\ split' = split
  BY <1>1 DEF workloadVars, trafficVars
<1>3. \/ action' = "deploy" /\ pc' = "applyCanary"
      \/ action' = "promote" /\ pc' = IF SMI THEN "trafficToCanary" ELSE "applyStable"
      \/ action' = "reject" /\ pc' = IF SMI THEN "trafficToStable" ELSE "delete"
  BY DEF StartDeploy, StartPromote, StartReject, Start
<1>4. release' \in 1..MaxRelease /\ release <= release'
  <2>1. release \in 0..MaxRelease
    BY DEF ManifestTypeOK
  <2>2. CASE StartDeploy
    BY <2>1, <2>2, BoundAssumption DEF StartDeploy
  <2>3. CASE StartPromote \/ StartReject
    <3>1. release' = release
      BY <2>3 DEF StartPromote, StartReject
    <3>2. last \in {<<"deploy", TRUE>>, <<"deploy", FALSE>>, <<"promote", FALSE>>,
                    <<"reject", FALSE>>}
      BY <2>3, Zenon DEF StartPromote, StartReject
    <3>3. last[1] # "none"
      <4>1. /\ <<"deploy", TRUE>>[1] = "deploy" /\ <<"deploy", FALSE>>[1] = "deploy"
            /\ <<"promote", FALSE>>[1] = "promote" /\ <<"reject", FALSE>>[1] = "reject"
        OBVIOUS
      <4>2. last[1] \in {"deploy", "promote", "reject"}
        BY <3>2, <4>1, Zenon
      <4> QED
        BY <4>2
    <3>4. release # 0
      BY <3>3 DEF ReleaseNamed
    <3> QED
      BY <3>1, <3>4, <2>1, BoundAssumption
  <2> QED
    BY <2>2, <2>3
<1>5. ManifestTypeOK'
  <2>1. image' \in [Object -> 0..release']
    <3>1. 0..release \subseteq 0..release'
      BY <1>4, BoundAssumption DEF ManifestTypeOK
    <3> QED
      BY <3>1, <1>2 DEF ManifestTypeOK
  <2>2. release' \in 0..MaxRelease
    BY <1>4, BoundAssumption
  <2>3. pc' \in Call /\ action' \in {"deploy", "promote", "reject"}
    BY <1>3 DEF Call
  <2> QED
    BY <2>1, <2>2, <2>3, <1>2 DEF ManifestTypeOK
<1>6. CallsOfAction'
  BY <1>2, <1>3 DEF CallsOfAction, SMI
<1>7. ReleaseNamed'
  <2>1. release' # 0
    BY <1>4, BoundAssumption
  <2> QED
    BY <2>1, Zenon DEF ReleaseNamed
<1>8. Unloaded'
  BY <1>2, <1>3 DEF Unloaded, SMI
<1>9. Promoted'
  BY <1>3 DEF Promoted, SMI
<1>10. ManifestResultIsReal'
  BY <1>3 DEF ManifestResultIsReal
<1> QED
  BY <1>5, <1>6, <1>7, <1>8, <1>9, <1>10

(* A task that fails, whatever its last call has changed.                  *)
LEMMA FailedInv ==
  ASSUME ManifestInv, pc # "idle", Finish(FALSE), method' = method,
         faults' \in 0..MaxFaults,
         image' \in [Object -> 0..release],
         marked' \subseteq App, rolledOut' \subseteq App, service' \subseteq Object,
         split' \in [App -> {NoSplit, AllToCanary, AllToStable, Shares}],
         ~SMI => split' = split
  PROVE  ManifestInv'
<1>1. /\ pc' = "idle" /\ last' = <<action, FALSE>>
      /\ release' = release /\ action' = action /\ applied' = applied
  BY DEF Finish
<1>2. ManifestTypeOK'
  <2>1. last' \in {"none", "deploy", "promote", "reject"} \X BOOLEAN
    BY <1>1 DEF ManifestInv, ManifestTypeOK
  <2> QED
    BY <2>1, <1>1 DEF ManifestInv, ManifestTypeOK
<1>3. CallsOfAction' /\ ReleaseNamed' /\ Promoted'
  BY <1>1 DEF ManifestInv, CallsOfAction, ReleaseNamed, Promoted
<1>4. Unloaded'
  BY <1>1 DEF ManifestInv, Unloaded, SMI
<1>5. ManifestResultIsReal'
  <2>1. last' # <<"promote", TRUE>> /\ last' # <<"reject", TRUE>>
    BY <1>1
  <2> QED
    BY <2>1 DEF ManifestResultIsReal
<1> QED
  BY <1>2, <1>3, <1>4, <1>5 DEF ManifestInv

(* A task that goes on to another call: what remains to be shown is what   *)
(* that call relies on.                                                    *)
LEMMA GoneOnInv ==
  ASSUME ManifestInv, pc # "idle", NEW call \in Call, pc' = call,
         UNCHANGED <<method, release, action, last>>,
         faults' \in 0..MaxFaults, applied' \in BOOLEAN,
         image' \in [Object -> 0..release],
         marked' \subseteq App, rolledOut' \subseteq App, service' \subseteq Object,
         split' \in [App -> {NoSplit, AllToCanary, AllToStable, Shares}],
         CallsOfAction', Unloaded', Promoted'
  PROVE  ManifestInv'
<1>1. pc' # "idle" /\ pc' \in Call
  BY DEF Call
<1>2. ManifestTypeOK'
  BY <1>1 DEF ManifestInv, ManifestTypeOK
<1>3. ReleaseNamed'
  BY DEF ManifestInv, ReleaseNamed
<1>4. ManifestResultIsReal'
  BY <1>1 DEF ManifestResultIsReal
<1> QED
  BY <1>2, <1>3, <1>4 DEF ManifestInv

LEMMA CancelInv == ManifestInv /\ Cancel => ManifestInv'
<1> SUFFICES ASSUME ManifestInv, Cancel PROVE ManifestInv'
  OBVIOUS
<1>1. faults' \in 0..MaxFaults
  BY FaultFacts DEF Cancel, ManifestInv
<1>2. /\ pc # "idle" /\ Finish(FALSE) /\ method' = method
      /\ image' = image /\ marked' = marked /\ rolledOut' = rolledOut
      /\ service' = service /\ split' = split
  BY DEF Cancel, workloadVars, trafficVars
<1>3. /\ image' \in [Object -> 0..release]
      /\ marked' \subseteq App /\ rolledOut' \subseteq App /\ service' \subseteq Object
      /\ split' \in [App -> {NoSplit, AllToCanary, AllToStable, Shares}]
  BY <1>2 DEF ManifestInv, ManifestTypeOK
<1> QED
  BY <1>1, <1>2, <1>3, FailedInv

-----------------------------------------------------------------------------
(* The calls of a deployment                                               *)

LEMMA ApplyCanaryInv == ManifestInv /\ ApplyCanary => ManifestInv'
<1> SUFFICES ASSUME ManifestInv, ApplyCanary PROVE ManifestInv'
  OBVIOUS
<1>1. faults' \in 0..MaxFaults
  BY FaultFacts DEF ApplyCanary, ManifestInv
<1>2. /\ pc = "applyCanary" /\ action = "deploy"
      /\ method' = method /\ service' = service /\ split' = split
  BY DEF ApplyCanary, trafficVars, ManifestInv, CallsOfAction
<1>3. /\ service' \subseteq Object
      /\ split' \in [App -> {NoSplit, AllToCanary, AllToStable, Shares}]
  BY <1>2 DEF ManifestInv, ManifestTypeOK
<1>4. PICK seen \in SUBSET {a \in App : image[<<a, "stable">>] # 0} :
        \/ /\ Finish(FALSE)
           /\ UNCHANGED workloadVars
        \/ /\ \E r \in Outcomes((App \X {"canary"}) \cup (seen \X {"baseline"})) :
                /\ image' = [o \in Object |->
                     IF o \notin r.done THEN image[o]
                     ELSE IF o[2] = "canary" THEN release
                     ELSE image[<<o[1], "stable">>]]
                /\ applied' = r.ok
           /\ pc' = IF SMI THEN "createServices" ELSE "checkRollout"
           /\ UNCHANGED <<release, action, last, marked, rolledOut>>
  BY DEF ApplyCanary
<1>5. CASE Finish(FALSE) /\ UNCHANGED workloadVars
  <2>1. /\ image' \in [Object -> 0..release]
        /\ marked' \subseteq App /\ rolledOut' \subseteq App
    BY <1>5 DEF workloadVars, ManifestInv, ManifestTypeOK
  <2> QED
    BY <1>1, <1>2, <1>3, <1>5, <2>1, FailedInv
<1>6. CASE /\ \E r \in Outcomes((App \X {"canary"}) \cup (seen \X {"baseline"})) :
                /\ image' = [o \in Object |->
                     IF o \notin r.done THEN image[o]
                     ELSE IF o[2] = "canary" THEN release
                     ELSE image[<<o[1], "stable">>]]
                /\ applied' = r.ok
           /\ pc' = IF SMI THEN "createServices" ELSE "checkRollout"
           /\ UNCHANGED <<release, action, last, marked, rolledOut>>
  <2>1. PICK r \in Outcomes((App \X {"canary"}) \cup (seen \X {"baseline"})) :
          /\ image' = [o \in Object |->
                 IF o \notin r.done THEN image[o]
                 ELSE IF o[2] = "canary" THEN release
                 ELSE image[<<o[1], "stable">>]]
          /\ applied' = r.ok
    BY <1>6
  <2>2. /\ UNCHANGED <<method, release, action, last>>
        /\ marked' = marked /\ rolledOut' = rolledOut
        /\ pc' \in {"createServices", "checkRollout"}
        /\ pc' = "createServices" => SMI
    BY <1>2, <1>6
  <2>3. applied' \in BOOLEAN
    BY <2>1, OutcomeFacts
  <2>4. image' \in [Object -> 0..release]
    <3>1. ASSUME NEW o \in Object PROVE image'[o] \in 0..release
      <4>1. image[o] \in 0..release /\ image[<<o[1], "stable">>] \in 0..release
            /\ release \in 0..release
        BY DEF ManifestInv, ManifestTypeOK, Object, Variant
      <4> QED
        BY <4>1, <2>1
    <3> QED
      BY <3>1, <2>1
  <2>5. marked' \subseteq App /\ rolledOut' \subseteq App
    BY <2>2 DEF ManifestInv, ManifestTypeOK
  <2>6. CallsOfAction' /\ Promoted'
    BY <1>2, <2>2 DEF CallsOfAction, Promoted, SMI
  <2>7. Unloaded'
    BY <1>2, <2>2 DEF ManifestInv, Unloaded, SMI
  <2>8. pc # "idle" /\ pc' \in Call
    BY <1>2, <2>2 DEF Call
  <2> QED
    BY <1>1, <1>3, <2>2, <2>3, <2>4, <2>5, <2>6, <2>7, <2>8, GoneOnInv
<1> QED
  BY <1>4, <1>5, <1>6

LEMMA CreateServicesInv == ManifestInv /\ CreateServices => ManifestInv'
<1> SUFFICES ASSUME ManifestInv, CreateServices PROVE ManifestInv'
  OBVIOUS
<1>1. faults' \in 0..MaxFaults
  BY FaultFacts DEF CreateServices, ManifestInv
<1>2. /\ pc = "createServices" /\ action = "deploy" /\ SMI
      /\ method' = method /\ image' = image /\ marked' = marked /\ rolledOut' = rolledOut
  BY DEF CreateServices, workloadVars, ManifestInv, CallsOfAction
<1>3. /\ image' \in [Object -> 0..release]
      /\ marked' \subseteq App /\ rolledOut' \subseteq App
  BY <1>2 DEF ManifestInv, ManifestTypeOK
<1>4. PICK seen \in SUBSET {a \in App : <<a, "stable">> \in service} :
        \E r :
          /\ service' = service \cup (r.done \cap
               ((App \X {"canary", "baseline"}) \cup ((App \ seen) \X {"stable"})))
          /\ split' = [a \in App |-> IF <<a, "split">> \in r.done
                                     THEN NewSplit(a, seen) ELSE split[a]]
          /\ IF r.ok THEN GoTo("checkRollout") ELSE Finish(FALSE)
  BY DEF CreateServices
<1>5. split' \in [App -> {NoSplit, AllToCanary, AllToStable, Shares}]
  <2> DEFINE Splits == {NoSplit, AllToCanary, AllToStable, Shares}
  <2>1. \A a \in App : NewSplit(a, seen) \in Splits
    BY DEF NewSplit
  <2>2. split \in [App -> Splits]
    BY DEF ManifestInv, ManifestTypeOK
  <2> HIDE DEF Splits
  <2>3. split' \in [App -> Splits]
    BY <1>4, <2>1, <2>2
  <2> QED
    BY <2>3 DEF Splits
<1>6. service' \subseteq Object
  <2> DEFINE objs == (App \X {"canary", "baseline"}) \cup ((App \ seen) \X {"stable"})
  <2>1. objs \subseteq Object
    BY DEF Object, Variant
  <2>2. \E r : service' = service \cup (r.done \cap objs)
    BY <1>4
  <2>3. service \subseteq Object
    BY DEF ManifestInv, ManifestTypeOK
  <2> HIDE DEF objs
  <2> QED
    BY <2>1, <2>2, <2>3
<1>7. CASE Finish(FALSE)
  BY <1>1, <1>2, <1>3, <1>5, <1>6, <1>7, FailedInv
<1>8. CASE GoTo("checkRollout")
  <2>1. /\ pc' = "checkRollout" /\ UNCHANGED <<method, release, action, last>>
        /\ applied' = applied
    BY <1>2, <1>8 DEF GoTo
  <2>2. applied' \in BOOLEAN
    BY <2>1 DEF ManifestInv, ManifestTypeOK
  <2>3. CallsOfAction' /\ Promoted'
    BY <1>2, <2>1 DEF CallsOfAction, Promoted
  <2>4. Unloaded'
    BY <1>2, <2>1 DEF Unloaded, SMI
  <2>5. pc # "idle" /\ pc' \in Call
    BY <1>2, <2>1 DEF Call
  <2> QED
    BY <1>1, <1>3, <1>5, <1>6, <2>1, <2>2, <2>3, <2>4, <2>5, GoneOnInv
<1> QED
  BY <1>4, <1>7, <1>8

LEMMA ApplyStableInv == ManifestInv /\ ApplyStable => ManifestInv'
<1> SUFFICES ASSUME ManifestInv, ApplyStable PROVE ManifestInv'
  OBVIOUS
<1>1. faults' \in 0..MaxFaults
  BY FaultFacts DEF ApplyStable, ManifestInv
<1>2. /\ pc = "applyStable" /\ action = "promote" /\ pc' = "checkRollout"
      /\ UNCHANGED <<method, release, action, last>>
      /\ service' = service /\ split' = split
  BY DEF ApplyStable, trafficVars, ManifestInv, CallsOfAction
<1>3. PICK r \in Outcomes(App) :
        /\ image' = [o \in Object |-> IF o[2] = "stable" /\ o[1] \in r.done
                                      THEN release ELSE image[o]]
        /\ marked' = IF SMI THEN marked \cup r.done ELSE marked
        /\ rolledOut' = rolledOut \ {a \in r.done : image[<<a, "stable">>] # release}
        /\ applied' = r.ok
  BY DEF ApplyStable
<1>4. r.done \subseteq App /\ r.ok \in BOOLEAN /\ (r.ok => r.done = App)
  BY OutcomeFacts
<1>5. image' \in [Object -> 0..release]
  <2>1. \A o \in Object : image[o] \in 0..release /\ release \in 0..release
    BY DEF ManifestInv, ManifestTypeOK
  <2> QED
    BY <1>3, <2>1
<1>6. /\ marked' \subseteq App /\ rolledOut' \subseteq App /\ service' \subseteq Object
      /\ split' \in [App -> {NoSplit, AllToCanary, AllToStable, Shares}]
  BY <1>2, <1>3, <1>4 DEF ManifestInv, ManifestTypeOK
<1>7. applied' \in BOOLEAN
  BY <1>3, <1>4
<1>8. CallsOfAction'
  BY <1>2 DEF CallsOfAction
<1>9. Unloaded'
  BY <1>2 DEF ManifestInv, Unloaded, SMI
<1>10. Promoted'
  <2>1. ASSUME applied', NEW a \in App PROVE image'[<<a, "stable">>] = release
    <3>1. r.done = App
      BY <1>3, <1>4, <2>1, Zenon
    <3>2. <<a, "stable">> \in Object /\ <<a, "stable">>[1] = a /\ <<a, "stable">>[2] = "stable"
      BY DEF Object, Variant
    <3> QED
      BY <1>3, <3>1, <3>2
  <2> QED
    BY <1>2, <2>1 DEF Promoted
<1>11. pc # "idle" /\ pc' \in Call
  BY <1>2 DEF Call
<1> QED
  BY <1>1, <1>2, <1>5, <1>6, <1>7, <1>8, <1>9, <1>10, <1>11, GoneOnInv

LEMMA CheckRolloutInv == ManifestInv /\ CheckRollout => ManifestInv'
<1> SUFFICES ASSUME ManifestInv, CheckRollout PROVE ManifestInv'
  OBVIOUS
<1>1. faults' \in 0..MaxFaults
  BY FaultFacts DEF CheckRollout, ManifestInv, ManifestTypeOK
<1>2. /\ pc = "checkRollout" /\ action \in {"deploy", "promote"}
      /\ method' = method /\ image' = image /\ marked' = marked
      /\ service' = service /\ split' = split
  BY DEF CheckRollout, trafficVars, ManifestInv, CallsOfAction
<1>3. \/ /\ Finish(FALSE)
         /\ UNCHANGED rolledOut
      \/ /\ applied
         /\ \E up \in SUBSET App :
              /\ IF action = "promote"
                 THEN rolledOut' = rolledOut \cup up
                 ELSE UNCHANGED rolledOut
              /\ IF ~Settled(up) THEN Finish(FALSE)
                 ELSE IF action = "deploy" THEN Finish(TRUE)
                 ELSE GoTo(IF SMI THEN "trafficToStable" ELSE "delete")
  BY DEF CheckRollout
<1>4. rolledOut' \subseteq App
  BY <1>3 DEF ManifestInv, ManifestTypeOK
<1>5. /\ image' \in [Object -> 0..release]
      /\ marked' \subseteq App /\ service' \subseteq Object
      /\ split' \in [App -> {NoSplit, AllToCanary, AllToStable, Shares}]
  BY <1>2 DEF ManifestInv, ManifestTypeOK
<1>6. CASE Finish(FALSE)
  <2>1. pc # "idle"
    BY <1>2
  <2> QED
    BY <1>1, <1>2, <1>4, <1>5, <1>6, <2>1, FailedInv
<1>7. CASE action = "deploy" /\ Finish(TRUE)
  <2>1. /\ pc' = "idle" /\ last' = <<"deploy", TRUE>>
        /\ release' = release /\ action' = action /\ applied' = applied
    BY <1>7 DEF Finish
  <2>2. ManifestTypeOK'
    BY <1>1, <1>2, <1>4, <1>5, <2>1 DEF ManifestInv, ManifestTypeOK
  <2>3. CallsOfAction' /\ ReleaseNamed' /\ Promoted'
    BY <1>2, <2>1 DEF ManifestInv, CallsOfAction, ReleaseNamed, Promoted
  <2>4. Unloaded'
    BY <1>2, <2>1 DEF ManifestInv, Unloaded, SMI
  <2>5. ManifestResultIsReal'
    <3>1. last' # <<"promote", TRUE>> /\ last' # <<"reject", TRUE>>
      BY <2>1
    <3> QED
      BY <3>1 DEF ManifestResultIsReal
  <2> QED
    BY <2>2, <2>3, <2>4, <2>5 DEF ManifestInv
<1>8. CASE /\ applied /\ action = "promote"
           /\ rolledOut' = App
           /\ GoTo(IF SMI THEN "trafficToStable" ELSE "delete")
  <2>1. /\ UNCHANGED <<method, release, action, last>> /\ applied' = applied
        /\ pc' \in {"trafficToStable", "delete"}
        /\ pc' = "trafficToStable" => SMI
        /\ pc' = "delete" => ~SMI
    BY <1>2, <1>8 DEF GoTo
  <2>2. applied' \in BOOLEAN
    BY <2>1 DEF ManifestInv, ManifestTypeOK
  <2>3. CallsOfAction'
    BY <1>8, <2>1 DEF CallsOfAction, SMI
  <2>4. Unloaded'
    BY <1>2, <2>1 DEF ManifestInv, Unloaded, SMI
  <2>5. Promoted'
    <3>1. \A a \in App : image[<<a, "stable">>] = release
      BY <1>2, <1>8 DEF ManifestInv, Promoted
    <3> QED
      BY <1>2, <1>8, <2>1, <3>1 DEF Promoted
  <2>6. pc # "idle" /\ pc' \in Call
    BY <1>2, <2>1 DEF Call
  <2> QED
    BY <1>1, <1>4, <1>5, <2>1, <2>2, <2>3, <2>4, <2>5, <2>6, GoneOnInv
<1>9. \/ Finish(FALSE)
      \/ action = "deploy" /\ Finish(TRUE)
      \/ /\ applied /\ action = "promote"
         /\ rolledOut' = App
         /\ GoTo(IF SMI THEN "trafficToStable" ELSE "delete")
  <2>1. rolledOut \subseteq App
    BY DEF ManifestInv, ManifestTypeOK
  <2> QED
    BY <1>2, <1>3, <2>1 DEF Settled
<1> QED
  BY <1>6, <1>7, <1>8, <1>9

-----------------------------------------------------------------------------
(* The calls that move the traffic and remove the variants                 *)

LEMMA AdjustTrafficInv ==
  ASSUME ManifestInv, SMI, pc # "idle", NEW next \in Call,
         NEW weights \in {AllToCanary, AllToStable}, AdjustTraffic(weights, next),
         next \in {"applyStable", "delete"},
         next = "applyStable" => weights = AllToCanary /\ action = "promote",
         next = "delete" => /\ weights = AllToStable
                            /\ pc = "trafficToStable"
                            /\ action \in {"promote", "reject"}
  PROVE  ManifestInv'
<1>1. faults' \in 0..MaxFaults
  BY FaultFacts DEF AdjustTraffic, ManifestInv
<1>2. /\ method' = method /\ image' = image /\ marked' = marked
      /\ rolledOut' = rolledOut /\ service' = service
  BY DEF AdjustTraffic, workloadVars
<1>3. PICK r \in Outcomes(App) :
        /\ split' = [a \in App |-> IF a \in r.done THEN weights ELSE split[a]]
        /\ IF r.ok THEN GoTo(next) ELSE Finish(FALSE)
  BY DEF AdjustTraffic
<1>4. r.done \subseteq App /\ r.ok \in BOOLEAN /\ (r.ok => r.done = App)
  BY OutcomeFacts
<1>5. /\ image' \in [Object -> 0..release]
      /\ marked' \subseteq App /\ rolledOut' \subseteq App /\ service' \subseteq Object
  BY <1>2 DEF ManifestInv, ManifestTypeOK
<1>6. split' \in [App -> {NoSplit, AllToCanary, AllToStable, Shares}]
  <2> DEFINE Splits == {NoSplit, AllToCanary, AllToStable, Shares}
  <2>1. weights \in Splits /\ split \in [App -> Splits]
    BY DEF ManifestInv, ManifestTypeOK
  <2> HIDE DEF Splits
  <2>2. split' \in [App -> Splits]
    BY <1>3, <2>1
  <2> QED
    BY <2>2 DEF Splits
<1>7. CASE ~r.ok
  <2>1. Finish(FALSE)
    BY <1>3, <1>7
  <2> QED
    BY <1>1, <1>2, <1>5, <1>6, <2>1, FailedInv
<1>8. CASE r.ok
  <2>1. GoTo(next)
    BY <1>3, <1>8
  <2>2. /\ UNCHANGED <<method, release, action, last>> /\ pc' = next
        /\ applied' = applied
    BY <1>2, <2>1 DEF GoTo
  <2>3. applied' \in BOOLEAN
    BY <2>2 DEF ManifestInv, ManifestTypeOK
  <2>4. CallsOfAction'
    BY <2>2 DEF CallsOfAction
  <2>5. \A a \in App : split'[a] = weights
    BY <1>3, <1>4, <1>8
  <2>6. Unloaded'
    BY <1>2, <2>2, <2>5 DEF Unloaded, SMI
  <2>7. Promoted'
    BY <1>2, <2>2 DEF ManifestInv, Promoted
  <2> QED
    BY <1>1, <1>5, <1>6, <2>2, <2>3, <2>4, <2>6, <2>7, GoneOnInv
<1> QED
  BY <1>4, <1>7, <1>8

LEMMA TrafficInv ==
  ManifestInv /\ (TrafficToCanary \/ TrafficToStable) => ManifestInv'
<1> SUFFICES ASSUME ManifestInv, TrafficToCanary \/ TrafficToStable PROVE ManifestInv'
  OBVIOUS
<1>1. CASE TrafficToCanary
  <2>1. /\ pc = "trafficToCanary" /\ action = "promote" /\ SMI
        /\ AdjustTraffic(AllToCanary, "applyStable")
    BY <1>1 DEF TrafficToCanary, ManifestInv, CallsOfAction
  <2>2. "applyStable" \in Call
    BY DEF Call
  <2> QED
    BY <2>1, <2>2, AdjustTrafficInv
<1>2. CASE TrafficToStable
  <2>1. /\ pc = "trafficToStable" /\ action \in {"promote", "reject"} /\ SMI
        /\ AdjustTraffic(AllToStable, "delete")
    BY <1>2 DEF TrafficToStable, ManifestInv, CallsOfAction
  <2>2. "delete" \in Call
    BY DEF Call
  <2> QED
    BY <2>1, <2>2, AdjustTrafficInv
<1> QED
  BY <1>1, <1>2

(* The workloads and services a delete may remove, and what it leaves when *)
(* the task succeeds.                                                      *)
LEMMA DeleteFacts ==
  ASSUME ManifestInv, Delete
  PROVE  \E w, q :
           /\ w \subseteq App \X {"canary", "baseline"}
           /\ q \subseteq App \X {"canary", "baseline"}
           /\ image' = [o \in Object |-> IF o \in w THEN 0 ELSE image[o]]
           /\ service' = service \ q
           /\ \/ Finish(FALSE)
              \/ Finish(TRUE) /\ action = "promote"
              \/ /\ Finish(TRUE) /\ App \X {"canary"} \subseteq w
                 /\ SMI => App \X {"canary"} \subseteq q
<1>1. PICK seen \in SUBSET {a \in App : image[<<a, "baseline">>] # 0},
           svcs \in SUBSET {a \in App : <<a, "baseline">> \in service} :
        \E r \in Outcomes(Named(seen)), q \in Outcomes(Named(svcs)) :
          Remove(Named(seen), Named(svcs), r, q)
  BY DEF Delete
<1> DEFINE named == Named(seen)
           namedSvcs == Named(svcs)
<1>2. /\ named \subseteq App \X {"canary", "baseline"} /\ App \X {"canary"} \subseteq named
      /\ namedSvcs \subseteq App \X {"canary", "baseline"}
      /\ App \X {"canary"} \subseteq namedSvcs
  BY DEF Named
<1>3. PICK r \in Outcomes(named), q \in Outcomes(namedSvcs) :
        Remove(named, namedSvcs, r, q)
  BY <1>1
<1> DEFINE okW == r.ok /\ \A o \in named : image[o] # 0
           okS == SMI => q.ok /\ namedSvcs \subseteq service
<1>4. /\ image' = [o \in Object |-> IF o \in r.done THEN 0 ELSE image[o]]
      /\ service' = IF SMI /\ okW THEN service \ q.done ELSE service
      /\ Finish(DeleteSucceeds(okW, okS))
  BY <1>3 DEF Remove
<1>5. /\ r.done \subseteq named /\ (r.ok => r.done = named)
      /\ q.done \subseteq namedSvcs /\ (q.ok => q.done = namedSvcs)
  BY OutcomeFacts
<1>6. okW => r.ok
  OBVIOUS
<1>7. okS /\ SMI => q.ok
  OBVIOUS
<1> DEFINE gone == IF SMI /\ okW THEN q.done ELSE {}
<1> HIDE DEF named, namedSvcs, okW, okS
<1>8. r.done \subseteq App \X {"canary", "baseline"} /\ gone \subseteq App \X {"canary", "baseline"}
  BY <1>2, <1>5
<1>9. service' = service \ gone
  BY <1>4
<1>10. Finish(TRUE) \/ Finish(FALSE)
  <2>1. DeleteSucceeds(okW, okS) \in BOOLEAN
    BY DEF DeleteSucceeds
  <2>2. CASE DeleteSucceeds(okW, okS) = TRUE
    BY <1>4, <2>2
  <2>3. CASE DeleteSucceeds(okW, okS) = FALSE
    BY <1>4, <2>3
  <2> QED
    BY <2>1, <2>2, <2>3
<1>11. \/ Finish(FALSE)
       \/ Finish(TRUE) /\ action = "promote"
       \/ Finish(TRUE) /\ okW /\ okS
  <2>1. CASE action = "promote"
    BY <1>10, <2>1
  <2>2. CASE action # "promote" /\ okW /\ okS
    BY <1>10, <2>2
  <2>3. CASE action # "promote" /\ ~(okW /\ okS)
    <3>1. DeleteSucceeds(okW, okS) = FALSE
      BY <2>3 DEF DeleteSucceeds
    <3> QED
      BY <1>4, <3>1
  <2> QED
    BY <2>1, <2>2, <2>3
<1>12. ASSUME okW, okS
       PROVE  /\ App \X {"canary"} \subseteq r.done
              /\ SMI => App \X {"canary"} \subseteq gone
  BY <1>2, <1>5, <1>6, <1>7, <1>12
<1> HIDE DEF gone
<1> QED
  BY <1>4, <1>8, <1>9, <1>11, <1>12

LEMMA DeleteInv == ManifestInv /\ Delete => ManifestInv'
<1> SUFFICES ASSUME ManifestInv, Delete PROVE ManifestInv'
  OBVIOUS
<1>1. faults' \in 0..MaxFaults
  BY FaultFacts DEF Delete, ManifestInv
<1>2. /\ pc = "delete" /\ action \in {"promote", "reject"}
      /\ method' = method /\ marked' = marked /\ rolledOut' = rolledOut /\ split' = split
  BY DEF Delete, ManifestInv, CallsOfAction
<1>3. PICK w, q :
        /\ w \subseteq App \X {"canary", "baseline"}
        /\ q \subseteq App \X {"canary", "baseline"}
        /\ image' = [o \in Object |-> IF o \in w THEN 0 ELSE image[o]]
        /\ service' = service \ q
        /\ \/ Finish(FALSE)
           \/ Finish(TRUE) /\ action = "promote"
           \/ /\ Finish(TRUE) /\ App \X {"canary"} \subseteq w
              /\ SMI => App \X {"canary"} \subseteq q
  BY DeleteFacts
<1>4. image' \in [Object -> 0..release]
  <2>1. \A o \in Object : image[o] \in 0..release /\ 0 \in 0..release
    BY DEF ManifestInv, ManifestTypeOK
  <2> QED
    BY <1>3, <2>1
<1>5. /\ marked' \subseteq App /\ rolledOut' \subseteq App /\ service' \subseteq Object
      /\ split' \in [App -> {NoSplit, AllToCanary, AllToStable, Shares}]
  BY <1>2, <1>3 DEF ManifestInv, ManifestTypeOK
<1>6. CASE Finish(FALSE)
  <2>1. pc # "idle"
    BY <1>2
  <2> QED
    BY <1>1, <1>2, <1>4, <1>5, <1>6, <2>1, FailedInv
<1>7. CASE /\ Finish(TRUE)
           /\ \/ action = "promote"
              \/ /\ App \X {"canary"} \subseteq w
                 /\ SMI => App \X {"canary"} \subseteq q
  <2>1. /\ pc' = "idle" /\ last' = <<action, TRUE>>
        /\ release' = release /\ action' = action /\ applied' = applied
    BY <1>7 DEF Finish
  <2>2. ManifestTypeOK'
    <3>1. last' \in {"none", "deploy", "promote", "reject"} \X BOOLEAN
      BY <1>2, <2>1
    <3> QED
      BY <1>1, <1>2, <1>4, <1>5, <2>1, <3>1 DEF ManifestInv, ManifestTypeOK
  <2>3. CallsOfAction' /\ ReleaseNamed' /\ Promoted'
    BY <1>2, <2>1 DEF ManifestInv, CallsOfAction, ReleaseNamed, Promoted
  <2>4. Unloaded'
    BY <1>2, <2>1 DEF ManifestInv, Unloaded, SMI
  <2>5. \A a \in App : SMI => split[a] = AllToStable
    BY <1>2 DEF ManifestInv, Unloaded
  <2>6. ASSUME action = "promote", NEW a \in App
        PROVE  image'[<<a, "stable">>] = release' /\ a \in rolledOut'
    <3>1. image[<<a, "stable">>] = release /\ a \in rolledOut
      BY <1>2, <2>6 DEF ManifestInv, Promoted
    <3>2. <<a, "stable">> \in Object /\ <<a, "stable">> \notin w
      BY <1>3 DEF Object, Variant
    <3> QED
      BY <1>2, <1>3, <2>1, <3>1, <3>2
  <2>7. ASSUME action = "reject", NEW a \in App
        PROVE  image'[<<a, "canary">>] = 0 /\ (SMI => <<a, "canary">> \notin service')
    <3>1. <<a, "canary">> \in Object /\ <<a, "canary">> \in App \X {"canary"}
      BY DEF Object, Variant
    <3>2. App \X {"canary"} \subseteq w /\ (SMI => App \X {"canary"} \subseteq q)
      BY <1>7, <2>7
    <3> QED
      BY <1>3, <3>1, <3>2
  <2>8. /\ last' = <<"promote", TRUE>> => action = "promote"
        /\ last' = <<"reject", TRUE>> => action = "reject"
    BY <2>1
  <2>9. ManifestResultIsReal'
    BY <1>2, <2>1, <2>5, <2>6, <2>7, <2>8 DEF ManifestResultIsReal, SMI
  <2> QED
    BY <2>2, <2>3, <2>4, <2>9 DEF ManifestInv
<1> QED
  BY <1>3, <1>6, <1>7

-----------------------------------------------------------------------------
(* What a step may change                                                  *)

(* Every step that is not a call to the cluster leaves it alone.            *)
LEMMA PipelineChanges ==
  ASSUME Pipeline \/ UNCHANGED vars
  PROVE  image' = image /\ service' = service /\ split' = split
<1>1. CASE Pipeline
  BY <1>1 DEF Pipeline, StartDeploy, StartPromote, StartReject, Start, Cancel,
     workloadVars, trafficVars
<1>2. CASE UNCHANGED vars
  BY <1>2 DEF vars, workloadVars, trafficVars
<1> QED
  BY <1>1, <1>2

(* Only the apply of a promotion changes what a stable workload runs.       *)
LEMMA StableChanges ==
  ASSUME ManifestInv, [Next]_vars, NEW a \in App,
         image'[<<a, "stable">>] # image[<<a, "stable">>]
  PROVE  pc = "applyStable"
<1>1. <<a, "stable">> \in Object /\ <<a, "stable">>[2] = "stable"
  BY DEF Object, Variant
<1>2. CASE ApplyCanary
  <2>1. PICK seen \in SUBSET {b \in App : image[<<b, "stable">>] # 0} :
          \/ image' = image
          \/ \E r \in Outcomes((App \X {"canary"}) \cup (seen \X {"baseline"})) :
               image' = [o \in Object |->
                     IF o \notin r.done THEN image[o]
                     ELSE IF o[2] = "canary" THEN release
                     ELSE image[<<o[1], "stable">>]]
    BY <1>2 DEF ApplyCanary, workloadVars
  <2>2. CASE image' = image
    BY <2>2
  <2>3. ASSUME NEW r \in Outcomes((App \X {"canary"}) \cup (seen \X {"baseline"})),
               image' = [o \in Object |->
                     IF o \notin r.done THEN image[o]
                     ELSE IF o[2] = "canary" THEN release
                     ELSE image[<<o[1], "stable">>]]
        PROVE FALSE
    <3>1. <<a, "stable">> \notin (App \X {"canary"}) \cup (seen \X {"baseline"})
      OBVIOUS
    <3>2. <<a, "stable">> \notin r.done
      BY <3>1, OutcomeFacts
    <3> QED
      BY <2>3, <3>2, <1>1
  <2> QED
    BY <2>1, <2>2, <2>3
<1>3. CASE CreateServices \/ CheckRollout
  BY <1>3 DEF CreateServices, CheckRollout, workloadVars
<1>4. CASE ApplyStable
  BY <1>4 DEF ApplyStable
<1>5. CASE TrafficToCanary \/ TrafficToStable
  BY <1>5 DEF TrafficToCanary, TrafficToStable, AdjustTraffic, workloadVars
<1>6. CASE Delete
  <2>1. PICK w : /\ w \subseteq App \X {"canary", "baseline"}
                 /\ image' = [o \in Object |-> IF o \in w THEN 0 ELSE image[o]]
    BY <1>6, DeleteFacts
  <2>2. <<a, "stable">> \notin w
    BY <2>1
  <2> QED
    BY <2>1, <2>2, <1>1
<1>7. CASE Pipeline \/ UNCHANGED vars
  BY <1>7, PipelineChanges
<1> QED
  BY <1>2, <1>3, <1>4, <1>5, <1>6, <1>7 DEF Next, TaskCall

(* Only a redirection that follows the rollout gives a stable workload all  *)
(* the traffic.                                                            *)
LEMMA ReturnChanges ==
  ASSUME ManifestInv, [Next]_vars, action = "promote", NEW a \in App,
         split'[a] = AllToStable, split[a] # AllToStable
  PROVE  pc = "trafficToStable"
<1>1. CASE ApplyCanary \/ ApplyStable \/ CheckRollout
  BY <1>1 DEF ApplyCanary, ApplyStable, CheckRollout, trafficVars
<1>2. CASE CreateServices
  BY <1>2 DEF CreateServices, ManifestInv, CallsOfAction
<1>3. CASE TrafficToCanary
  <2>1. PICK r \in Outcomes(App) :
          split' = [b \in App |-> IF b \in r.done THEN AllToCanary ELSE split[b]]
    BY <1>3 DEF TrafficToCanary, AdjustTraffic
  <2>2. split'[a] \in {AllToCanary, split[a]}
    BY <2>1
  <2> QED
    BY <2>2, SplitWeights
<1>4. CASE TrafficToStable
  BY <1>4 DEF TrafficToStable
<1>5. CASE Delete
  BY <1>5 DEF Delete
<1>6. CASE Pipeline \/ UNCHANGED vars
  BY <1>6, PipelineChanges
<1> QED
  BY <1>1, <1>2, <1>3, <1>4, <1>5, <1>6 DEF Next, TaskCall

(* Workloads go only when they are deleted.                                *)
LEMMA WorkloadGone ==
  ASSUME ManifestInv, [Next]_vars, NEW o \in Object, image[o] # 0, image'[o] = 0
  PROVE  Delete
<1> SUFFICES ASSUME ~Delete PROVE FALSE
  OBVIOUS
<1>1. CASE ApplyCanary
  <2>1. release # 0
    BY <1>1 DEF ManifestInv, ReleaseNamed, ApplyCanary
  <2>2. PICK seen \in SUBSET {a \in App : image[<<a, "stable">>] # 0} :
          \/ image' = image
          \/ \E r \in Outcomes((App \X {"canary"}) \cup (seen \X {"baseline"})) :
               image' = [p \in Object |->
                     IF p \notin r.done THEN image[p]
                     ELSE IF p[2] = "canary" THEN release
                     ELSE image[<<p[1], "stable">>]]
    BY <1>1 DEF ApplyCanary, workloadVars
  <2>3. CASE image' = image
    BY <2>3
  <2>4. ASSUME NEW r \in Outcomes((App \X {"canary"}) \cup (seen \X {"baseline"})),
               image' = [p \in Object |->
                     IF p \notin r.done THEN image[p]
                     ELSE IF p[2] = "canary" THEN release
                     ELSE image[<<p[1], "stable">>]]
        PROVE FALSE
    <3>1. r.done \subseteq (App \X {"canary"}) \cup (seen \X {"baseline"})
      BY OutcomeFacts
    <3>2. o \in r.done /\ o[2] # "canary" /\ image[<<o[1], "stable">>] = 0
      BY <2>1, <2>4
    <3>3. o \in seen \X {"baseline"}
      <4>1. \A p \in App \X {"canary"} : p[2] = "canary"
        OBVIOUS
      <4> QED
        BY <3>1, <3>2, <4>1
    <3>4. o[1] \in seen
      BY <3>3
    <3> QED
      BY <3>2, <3>4
  <2> QED
    BY <2>2, <2>3, <2>4
<1>2. CASE CreateServices \/ CheckRollout
  BY <1>2 DEF CreateServices, CheckRollout, workloadVars
<1>3. CASE ApplyStable
  <2>1. release # 0
    BY <1>3 DEF ManifestInv, ReleaseNamed, ApplyStable
  <2>2. PICK r \in Outcomes(App) :
          image' = [p \in Object |-> IF p[2] = "stable" /\ p[1] \in r.done
                                     THEN release ELSE image[p]]
    BY <1>3 DEF ApplyStable
  <2> QED
    BY <2>1, <2>2
<1>4. CASE TrafficToCanary \/ TrafficToStable
  BY <1>4 DEF TrafficToCanary, TrafficToStable, AdjustTraffic, workloadVars
<1>5. CASE Pipeline \/ UNCHANGED vars
  BY <1>5, PipelineChanges
<1> QED
  BY <1>1, <1>2, <1>3, <1>4, <1>5 DEF Next, TaskCall

(* Services go only when they are deleted.                                 *)
LEMMA ServiceGone ==
  ASSUME ManifestInv, [Next]_vars, NEW o \in service, o \notin service'
  PROVE  Delete
<1>1. CASE ApplyCanary \/ ApplyStable \/ CheckRollout
  BY <1>1 DEF ApplyCanary, ApplyStable, CheckRollout, trafficVars
<1>2. CASE CreateServices
  <2>1. service \subseteq service'
    BY <1>2 DEF CreateServices
  <2> QED
    BY <2>1
<1>3. CASE TrafficToCanary \/ TrafficToStable
  BY <1>3 DEF TrafficToCanary, TrafficToStable, AdjustTraffic
<1>4. CASE Pipeline \/ UNCHANGED vars
  BY <1>4, PipelineChanges
<1> QED
  BY <1>1, <1>2, <1>3, <1>4 DEF Next, TaskCall

-----------------------------------------------------------------------------
(* As long as nothing fails                                                *)

(* The pipeline is between a deployment that succeeded and the deletion    *)
(* that ends its promotion or rejection.                                   *)
Deployed ==
  \/ pc = "idle" /\ last = <<"deploy", TRUE>>
  \/ pc = "checkRollout" /\ action = "deploy"
  \/ pc \in {"trafficToCanary", "applyStable"}

(* Tasks end as they should: no promotion fails.                           *)
Orderly ==
  /\ last # <<"promote", FALSE>>
  /\ pc = "idle" => last[1] = action
  /\ pc \in {"createServices", "checkRollout"} => applied

(* The first promotion labels every workload, and a labelled one stays.     *)
Labelled ==
  /\ marked # {} => marked = App
  /\ \A a \in marked : image[<<a, "stable">>] # 0 /\ <<a, "stable">> \in service

(* Where a workload was deployed without the strategy no deployment gets    *)
(* past its first call.                                                    *)
Unlabelled ==
  (\E a \in App \ marked : image[<<a, "stable">>] # 0) =>
    /\ pc \in {"idle", "applyCanary", "trafficToStable", "delete"}
    /\ action # "promote"
    /\ last # <<"deploy", TRUE>>

(* What the calls of a deployment leave for the next ones.                 *)
Staged ==
  /\ pc = "createServices" =>
       /\ \A a \in App : image[<<a, "canary">>] # 0
       /\ \A a \in marked : image[<<a, "baseline">>] # 0
  /\ Deployed => Object \subseteq service /\ \A a \in App : image[<<a, "canary">>] # 0

Served ==
  \A a \in marked, v \in Variant :
    split[a][v] # 0 => <<a, v>> \in service /\ image[<<a, v>>] # 0

Gradual ==
  action # "promote" =>
    \A a \in App : image[<<a, "stable">>] # 0 => split[a].canary <= Shares.canary

CalmInv == Orderly /\ Labelled /\ Unlabelled /\ Staged /\ Served /\ Gradual

LEMMA NoFault ==
  ASSUME ManifestTypeOK, NEW failed \in BOOLEAN, Fault(failed), faults' = 0
  PROVE  faults = 0 /\ ~failed
BY DEF ManifestTypeOK, Fault

LEMMA ShareWeights ==
  /\ Shares.canary \in 0..500
  /\ NoSplit.canary = 0 /\ AllToStable.canary = 0 /\ AllToCanary.canary = 1000
  /\ \A v \in Variant : AllToStable[v] # 0 => v = "stable"
  /\ \A v \in Variant : AllToCanary[v] # 0 => v = "canary"
  /\ "canary" \in Variant
<1>1. Percentage * 10 \in 0..1000 /\ (Percentage * 10) \div 2 \in 0..500
  BY PercentageAssumption
<1>2. Shares.canary = (Percentage * 10) \div 2
  BY DEF Shares, Weights
<1>3. /\ NoSplit.canary = 0 /\ AllToStable.canary = 0 /\ AllToCanary.canary = 1000
      /\ \A v \in Variant : AllToStable[v] # 0 => v = "stable"
      /\ \A v \in Variant : AllToCanary[v] # 0 => v = "canary"
      /\ "canary" \in Variant
  BY DEF NoSplit, AllToStable, AllToCanary, Weights, Variant
<1> QED
  BY <1>1, <1>2, <1>3

LEMMA InitCalm == Init => CalmInv
<1> SUFFICES ASSUME Init PROVE CalmInv
  OBVIOUS
<1>1. \A a \in App : split[a] = NoSplit
  BY DEF Init
<1>2. Orderly /\ Labelled /\ Unlabelled /\ Served
  BY DEF Init, Orderly, Labelled, Unlabelled, Served
<1>3. Staged
  BY DEF Init, Staged, Deployed
<1>4. Gradual
  BY <1>1, ShareWeights DEF Gradual
<1> QED
  BY <1>2, <1>3, <1>4 DEF CalmInv

LEMMA StartCalm ==
  ASSUME ManifestInv, CalmInv, SMI, StartDeploy \/ StartPromote \/ StartReject
  PROVE  CalmInv'
<1>1. /\ pc = "idle" /\ applied' = applied /\ last' = last
      /\ image' = image /\ marked' = marked /\ service' = service /\ split' = split
      /\ \/ action' = "deploy" /\ pc' = "applyCanary"
         \/ /\ action' = "promote" /\ pc' = "trafficToCanary"
            /\ last \in {<<"deploy", TRUE>>, <<"promote", FALSE>>}
         \/ action' = "reject" /\ pc' = "trafficToStable"
  BY DEF StartDeploy, StartPromote, StartReject, Start, workloadVars, trafficVars
<1>2. Orderly'
  BY <1>1 DEF CalmInv, Orderly
<1>3. Labelled' /\ Served'
  BY <1>1 DEF CalmInv, Labelled, Served
<1>4. action' = "promote" => last = <<"deploy", TRUE>>
  BY <1>1 DEF CalmInv, Orderly
<1>5. Unlabelled'
  BY <1>1, <1>4 DEF CalmInv, Unlabelled
<1>6. Staged'
  BY <1>1, <1>4 DEF CalmInv, Staged, Deployed
<1>7. Gradual'
  <2>1. CASE action # "promote"
    BY <1>1, <2>1 DEF CalmInv, Gradual
  <2>2. CASE action = "promote"
    <3>1. last[1] = "promote" /\ last # <<"promote", FALSE>>
      BY <1>1, <2>2 DEF CalmInv, Orderly
    <3>2. last = <<"promote", TRUE>>
      <4>1. last \in {"none", "deploy", "promote", "reject"} \X BOOLEAN
        BY DEF ManifestInv, ManifestTypeOK
      <4>2. last = <<last[1], last[2]>> /\ last[2] \in BOOLEAN
        BY <4>1
      <4> QED
        BY <3>1, <4>2
    <3>3. \A a \in App : split[a] = AllToStable
      BY <1>1, <3>2 DEF ManifestInv, ManifestResultIsReal
    <3> QED
      BY <1>1, <3>3, ShareWeights DEF Gradual
  <2> QED
    BY <2>1, <2>2
<1> QED
  BY <1>2, <1>3, <1>5, <1>6, <1>7 DEF CalmInv

-----------------------------------------------------------------------------
LEMMA ApplyCanaryCalm ==
  ASSUME ManifestInv, CalmInv, SMI, ApplyCanary, faults' = 0
  PROVE  CalmInv'
<1>1. /\ pc = "applyCanary" /\ action = "deploy" /\ release # 0
      /\ service' = service /\ split' = split
  BY DEF ApplyCanary, trafficVars, ManifestInv, CallsOfAction, ReleaseNamed
<1> DEFINE Stable == {a \in App : image[<<a, "stable">>] # 0}
           Objs(seen) == (App \X {"canary"}) \cup (seen \X {"baseline"})
<1>2. PICK seen \in SUBSET Stable :
        LET missed == \E a \in App \ seen : image[<<a, "stable">>] # 0
        IN  \/ /\ NotMarkedStable(seen)
               /\ Finish(FALSE)
               /\ Fault(missed)
               /\ UNCHANGED workloadVars
            \/ /\ ~ NotMarkedStable(seen)
               /\ \E r \in Outcomes(Objs(seen)) :
                   /\ image' = [o \in Object |->
                        IF o \notin r.done THEN image[o]
                        ELSE IF o[2] = "canary" THEN release
                        ELSE image[<<o[1], "stable">>]]
                   /\ applied' = r.ok
                   /\ Fault(missed \/ ~r.ok)
               /\ pc' = "createServices"
               /\ UNCHANGED <<release, action, last, marked, rolledOut>>
  BY DEF ApplyCanary
<1>3. CASE /\ NotMarkedStable(seen)
           /\ Finish(FALSE)
           /\ UNCHANGED workloadVars
  <2>1. /\ pc' = "idle" /\ last' = <<"deploy", FALSE>> /\ action' = action
        /\ applied' = applied /\ image' = image /\ marked' = marked
    BY <1>1, <1>3 DEF Finish, workloadVars
  <2>2. Orderly'
    BY <1>1, <2>1 DEF CalmInv, Orderly
  <2>3. Labelled' /\ Served' /\ Gradual' /\ Staged'
    BY <1>1, <2>1 DEF CalmInv, Labelled, Served, Gradual, Staged, Deployed
  <2>4. Unlabelled'
    BY <1>1, <2>1 DEF Unlabelled
  <2> QED
    BY <2>2, <2>3, <2>4 DEF CalmInv
<1>4. ASSUME ~ NotMarkedStable(seen), NEW r \in Outcomes(Objs(seen)),
             image' = [o \in Object |->
                        IF o \notin r.done THEN image[o]
                        ELSE IF o[2] = "canary" THEN release
                        ELSE image[<<o[1], "stable">>]],
             applied' = r.ok,
             Fault((\E a \in App \ seen : image[<<a, "stable">>] # 0) \/ ~r.ok),
             pc' = "createServices",
             UNCHANGED <<release, action, last, marked, rolledOut>>
      PROVE  CalmInv'
  <2> HIDE DEF Objs
  <2>1. /\ r.ok \in BOOLEAN /\ r.ok => r.done = Objs(seen)
    BY OutcomeFacts
  <2>2. (\E a \in App \ seen : image[<<a, "stable">>] # 0) \in BOOLEAN
    OBVIOUS
  <2>3. r.ok /\ seen = Stable
    BY <1>4, <2>1, <2>2, NoFault DEF ManifestInv
  <2>4. Stable \subseteq marked
    BY <1>4, <2>3 DEF NotMarkedStable
  <2>5. ASSUME NEW a \in App
        PROVE  /\ image'[<<a, "stable">>] = image[<<a, "stable">>]
               /\ image'[<<a, "canary">>] # 0
               /\ a \in Stable => image'[<<a, "baseline">>] # 0
               /\ a \notin Stable => image'[<<a, "baseline">>] = image[<<a, "baseline">>]
    <3>1. /\ <<a, "stable">> \in Object /\ <<a, "canary">> \in Object
          /\ <<a, "baseline">> \in Object
      BY DEF Object, Variant
    <3>2. /\ <<a, "stable">> \notin Objs(seen) /\ <<a, "canary">> \in Objs(seen)
          /\ a \in Stable <=> <<a, "baseline">> \in Objs(seen)
      BY <2>3 DEF Objs
    <3>3. /\ image'[<<a, "stable">>] = image[<<a, "stable">>]
          /\ image'[<<a, "canary">>] = release
          /\ image'[<<a, "baseline">>] = IF a \in Stable THEN image[<<a, "stable">>]
                                         ELSE image[<<a, "baseline">>]
      BY <1>4, <2>1, <2>3, <3>1, <3>2
    <3> QED
      BY <1>1, <3>3
  <2>6. marked \subseteq Stable /\ marked \subseteq App
    BY DEF CalmInv, Labelled, ManifestInv, ManifestTypeOK
  <2>7. Orderly'
    BY <1>4, <2>3 DEF CalmInv, Orderly
  <2>8. Labelled'
    BY <1>1, <1>4, <2>5, <2>6 DEF CalmInv, Labelled
  <2>9. Unlabelled'
    BY <1>4, <2>4, <2>5 DEF Unlabelled
  <2>10. Staged'
    BY <1>4, <2>5, <2>6 DEF Staged, Deployed
  <2>11. Served'
    <3>1. ASSUME NEW a \in marked, NEW v \in Variant, image[<<a, v>>] # 0
          PROVE  image'[<<a, v>>] # 0
      BY <2>5, <2>6, <3>1 DEF Variant
    <3> QED
      BY <1>1, <1>4, <3>1 DEF CalmInv, Served
  <2>12. Gradual'
    BY <1>1, <1>4, <2>5 DEF CalmInv, Gradual
  <2> QED
    BY <2>7, <2>8, <2>9, <2>10, <2>11, <2>12 DEF CalmInv
<1> QED
  BY <1>2, <1>3, <1>4

LEMMA CreateServicesCalm ==
  ASSUME ManifestInv, CalmInv, SMI, CreateServices, faults' = 0
  PROVE  CalmInv'
<1>1. /\ pc = "createServices" /\ action = "deploy"
      /\ image' = image /\ marked' = marked
  BY DEF CreateServices, workloadVars, ManifestInv, CallsOfAction
<1> DEFINE Objs(seen) == (App \X {"canary", "baseline"}) \cup ((App \ seen) \X {"stable"})
           Routes(seen, read) == {a \in App : NeedsSplit(a, seen, read)} \X {"split"}
           Missed(seen, read) == \/ \E a \in App \ seen : <<a, "stable">> \in service
                                 \/ \E a \in seen \ read : split[a] # NoSplit
           Stable == {a \in App : <<a, "stable">> \in service}
<1>2. PICK seen \in SUBSET Stable :
        \E read : \E r \in Outcomes(Objs(seen) \cup Routes(seen, read)) :
          /\ service' = service \cup (r.done \cap Objs(seen))
          /\ split' = [a \in App |-> IF <<a, "split">> \in r.done
                                     THEN NewSplit(a, seen) ELSE split[a]]
          /\ IF r.ok THEN GoTo("checkRollout") ELSE Finish(FALSE)
          /\ Fault(Missed(seen, read) \/ ~r.ok)
  BY DEF CreateServices
<1> HIDE DEF Objs, Routes, Missed
<1>3. PICK read : \E r \in Outcomes(Objs(seen) \cup Routes(seen, read)) :
          /\ service' = service \cup (r.done \cap Objs(seen))
          /\ split' = [a \in App |-> IF <<a, "split">> \in r.done
                                     THEN NewSplit(a, seen) ELSE split[a]]
          /\ IF r.ok THEN GoTo("checkRollout") ELSE Finish(FALSE)
          /\ Fault(Missed(seen, read) \/ ~r.ok)
  BY <1>2
<1>3a. PICK r \in Outcomes(Objs(seen) \cup Routes(seen, read)) :
          /\ service' = service \cup (r.done \cap Objs(seen))
          /\ split' = [a \in App |-> IF <<a, "split">> \in r.done
                                     THEN NewSplit(a, seen) ELSE split[a]]
          /\ IF r.ok THEN GoTo("checkRollout") ELSE Finish(FALSE)
          /\ Fault(Missed(seen, read) \/ ~r.ok)
  BY <1>3
<1>4. r.ok /\ ~Missed(seen, read) /\ r.done = Objs(seen) \cup Routes(seen, read)
  <2>1. Missed(seen, read) \in BOOLEAN
    BY DEF Missed
  <2>2. r.ok \in BOOLEAN /\ (r.ok => r.done = Objs(seen) \cup Routes(seen, read))
    BY OutcomeFacts
  <2> QED
    BY <1>3a, <2>1, <2>2, NoFault DEF ManifestInv
<1>5. seen = Stable /\ \A a \in seen : split[a] # NoSplit => a \in read
  BY <1>2, <1>4 DEF Missed
<1>6. /\ pc' = "checkRollout" /\ action' = action /\ applied' = applied /\ last' = last
  BY <1>3a, <1>4 DEF GoTo
<1>7. service \subseteq service' /\ Object \subseteq service'
  <2>1. Object \subseteq service \cup Objs(seen)
    BY <1>5 DEF Object, Variant, Objs
  <2> QED
    BY <1>3a, <1>4, <2>1
<1>8. \A a \in App : split'[a] = IF NeedsSplit(a, seen, read) THEN NewSplit(a, seen)
                                 ELSE split[a]
  <2>1. \A a \in App : <<a, "split">> \in r.done <=> NeedsSplit(a, seen, read)
    BY <1>4 DEF Objs, Routes
  <2> QED
    BY <1>3a, <2>1
<1>9. marked \subseteq App /\ Object = App \X Variant
  BY DEF ManifestInv, ManifestTypeOK, Object
<1>10. Orderly'
  BY <1>1, <1>6 DEF CalmInv, Orderly
<1>11. Labelled'
  BY <1>1, <1>7 DEF CalmInv, Labelled
<1>12. Unlabelled'
  BY <1>1, <1>6 DEF CalmInv, Unlabelled
<1>13. Staged'
  BY <1>1, <1>6, <1>7 DEF CalmInv, Staged, Deployed
<1>14. Served'
  BY <1>1, <1>7, <1>9 DEF CalmInv, Labelled, Staged, Served, Variant
<1>15. Gradual'
  <2>1. ASSUME NEW a \in App, image[<<a, "stable">>] # 0
        PROVE  split'[a].canary <= Shares.canary
    <3>1. a \in marked
      BY <1>1, <2>1 DEF CalmInv, Unlabelled
    <3>2. a \in seen
      BY <1>5, <3>1 DEF CalmInv, Labelled
    <3>3. NewSplit(a, seen) = Shares
      BY <3>2 DEF NewSplit
    <3>4. split[a].canary <= Shares.canary
      BY <1>1, <2>1 DEF CalmInv, Gradual
    <3> QED
      BY <1>8, <3>3, <3>4, ShareWeights
  <2> QED
    BY <1>1, <2>1 DEF Gradual
<1> QED
  BY <1>10, <1>11, <1>12, <1>13, <1>14, <1>15 DEF CalmInv

LEMMA ApplyStableCalm ==
  ASSUME ManifestInv, CalmInv, SMI, ApplyStable, faults' = 0
  PROVE  CalmInv'
<1>1. /\ pc = "applyStable" /\ pc' = "checkRollout" /\ action = "promote" /\ release # 0
      /\ service' = service /\ split' = split /\ action' = action /\ last' = last
  BY DEF ApplyStable, trafficVars, ManifestInv, CallsOfAction, ReleaseNamed
<1>2. PICK r \in Outcomes(App) :
        /\ image' = [o \in Object |-> IF o[2] = "stable" /\ o[1] \in r.done
                                      THEN release ELSE image[o]]
        /\ marked' = marked \cup r.done
        /\ applied' = r.ok
        /\ Fault(~r.ok)
  BY DEF ApplyStable
<1>3. r.ok /\ r.done = App
  <2>1. r.ok \in BOOLEAN /\ (r.ok => r.done = App)
    BY OutcomeFacts
  <2> QED
    BY <1>2, <2>1, NoFault DEF ManifestInv
<1>4. marked' = App
  BY <1>2, <1>3 DEF ManifestInv, ManifestTypeOK
<1>5. ASSUME NEW a \in App
      PROVE  image'[<<a, "stable">>] # 0 /\ image'[<<a, "canary">>] # 0
  <2>1. image[<<a, "canary">>] # 0
    BY <1>1 DEF CalmInv, Staged, Deployed
  <2>2. <<a, "stable">> \in Object /\ <<a, "canary">> \in Object
    BY DEF Object, Variant
  <2> QED
    BY <1>1, <1>2, <1>3, <2>1, <2>2
<1>6. Object \subseteq service' /\ \A a \in App, v \in Variant : <<a, v>> \in service'
  BY <1>1 DEF CalmInv, Staged, Deployed, Object
<1>7. \A a \in App : split'[a] = AllToCanary
  BY <1>1 DEF ManifestInv, Unloaded
<1>8. Orderly'
  BY <1>1, <1>2, <1>3 DEF CalmInv, Orderly
<1>9. Labelled'
  BY <1>4, <1>5, <1>6 DEF Labelled, Variant
<1>10. Unlabelled' /\ Gradual'
  BY <1>1, <1>4 DEF Unlabelled, Gradual
<1>11. Staged'
  BY <1>1, <1>5, <1>6 DEF Staged, Deployed
<1>12. Served'
  <2>1. ASSUME NEW a \in App, NEW v \in Variant, split'[a][v] # 0
        PROVE  <<a, v>> \in service' /\ image'[<<a, v>>] # 0
    <3>1. v = "canary"
      BY <1>7, <2>1, ShareWeights
    <3> QED
      BY <1>5, <1>6, <3>1
  <2> QED
    BY <1>4, <2>1 DEF Served
<1> QED
  BY <1>8, <1>9, <1>10, <1>11, <1>12 DEF CalmInv

LEMMA CheckRolloutCalm ==
  ASSUME ManifestInv, CalmInv, SMI, CheckRollout, faults' = 0
  PROVE  CalmInv'
<1>1. /\ pc = "checkRollout" /\ action \in {"deploy", "promote"} /\ applied
      /\ image' = image /\ marked' = marked /\ service' = service /\ split' = split
  BY DEF CheckRollout, trafficVars, ManifestInv, CallsOfAction, CalmInv, Orderly
<1>2. PICK up \in SUBSET App :
        /\ IF ~Settled(up) THEN Finish(FALSE)
           ELSE IF action = "deploy" THEN Finish(TRUE)
           ELSE GoTo("trafficToStable")
        /\ Fault(up # App)
  BY <1>1 DEF CheckRollout
<1>3. up = App
  <2>1. (up # App) \in BOOLEAN
    OBVIOUS
  <2> QED
    BY <1>2, <2>1, NoFault DEF ManifestInv
<1>4. \/ /\ action = "deploy" /\ pc' = "idle" /\ last' = <<"deploy", TRUE>>
      \/ action = "promote" /\ pc' = "trafficToStable" /\ last' = last
  BY <1>1, <1>2, <1>3 DEF Settled, Finish, GoTo
<1>5. action' = action
  BY <1>2 DEF Finish, GoTo
<1>6. Orderly'
  <2>1. <<"deploy", TRUE>>[1] = "deploy" /\ <<"promote", FALSE>>[1] = "promote"
    OBVIOUS
  <2>2. last' # <<"promote", FALSE>>
    BY <1>4, <2>1 DEF CalmInv, Orderly
  <2> QED
    BY <1>4, <1>5, <2>1, <2>2 DEF Orderly
<1>7. Labelled' /\ Served' /\ Gradual' /\ Unlabelled'
  BY <1>1, <1>5 DEF CalmInv, Labelled, Served, Gradual, Unlabelled
<1>8. Staged'
  BY <1>1, <1>4, <1>5 DEF CalmInv, Staged, Deployed
<1> QED
  BY <1>6, <1>7, <1>8 DEF CalmInv

(* Adjusting the traffic of every service.                                 *)
LEMMA AdjustFacts ==
  ASSUME ManifestInv, NEW weights, NEW next, AdjustTraffic(weights, next), faults' = 0
  PROVE  /\ \A a \in App : split'[a] = weights
         /\ pc' = next /\ action' = action /\ applied' = applied /\ last' = last
         /\ image' = image /\ marked' = marked /\ service' = service
<1>1. PICK r \in Outcomes(App) :
        /\ split' = [a \in App |-> IF a \in r.done THEN weights ELSE split[a]]
        /\ IF r.ok THEN GoTo(next) ELSE Finish(FALSE)
        /\ Fault(~r.ok)
  BY DEF AdjustTraffic
<1>2. r.ok /\ r.done = App
  <2>1. r.ok \in BOOLEAN /\ (r.ok => r.done = App)
    BY OutcomeFacts
  <2> QED
    BY <1>1, <2>1, NoFault DEF ManifestInv
<1>3. image' = image /\ marked' = marked /\ service' = service
  BY DEF AdjustTraffic, workloadVars
<1> QED
  BY <1>1, <1>2, <1>3 DEF GoTo

LEMMA TrafficCalm ==
  ASSUME ManifestInv, CalmInv, SMI, TrafficToCanary \/ TrafficToStable, faults' = 0
  PROVE  CalmInv'
<1>1. CASE TrafficToCanary
  <2>1. /\ pc = "trafficToCanary" /\ action = "promote"
        /\ AdjustTraffic(AllToCanary, "applyStable")
    BY <1>1 DEF TrafficToCanary, ManifestInv, CallsOfAction
  <2>2. /\ \A a \in App : split'[a] = AllToCanary
        /\ pc' = "applyStable" /\ action' = action /\ applied' = applied /\ last' = last
        /\ image' = image /\ marked' = marked /\ service' = service
    BY <2>1, AdjustFacts
  <2>3. Deployed /\ marked \subseteq App
    BY <2>1 DEF Deployed, ManifestInv, ManifestTypeOK
  <2>4. Orderly' /\ Labelled' /\ Unlabelled' /\ Gradual'
    BY <2>1, <2>2 DEF CalmInv, Orderly, Labelled, Unlabelled, Gradual
  <2>5. Staged'
    BY <2>2, <2>3 DEF CalmInv, Staged
  <2>6. Served'
    BY <2>2, <2>3, ShareWeights DEF CalmInv, Staged, Served, Object
  <2> QED
    BY <2>4, <2>5, <2>6 DEF CalmInv
<1>2. CASE TrafficToStable
  <2>1. pc = "trafficToStable" /\ AdjustTraffic(AllToStable, "delete")
    BY <1>2 DEF TrafficToStable
  <2>2. /\ \A a \in App : split'[a] = AllToStable
        /\ pc' = "delete" /\ action' = action /\ applied' = applied /\ last' = last
        /\ image' = image /\ marked' = marked /\ service' = service
    BY <2>1, AdjustFacts
  <2>3. marked \subseteq App
    BY DEF ManifestInv, ManifestTypeOK
  <2>4. Orderly' /\ Labelled'
    BY <2>1, <2>2 DEF CalmInv, Orderly, Labelled
  <2>5. Unlabelled'
    BY <2>1, <2>2 DEF CalmInv, Unlabelled
  <2>6. Gradual'
    BY <2>2, ShareWeights DEF Gradual
  <2>7. Staged'
    BY <2>2 DEF Staged, Deployed
  <2>8. Served'
    BY <2>2, <2>3, ShareWeights DEF CalmInv, Labelled, Served
  <2> QED
    BY <2>4, <2>5, <2>6, <2>7, <2>8 DEF CalmInv
<1> QED
  BY <1>1, <1>2

LEMMA DeleteCalm ==
  ASSUME ManifestInv, CalmInv, SMI, Delete
  PROVE  CalmInv'
<1>1. /\ pc = "delete" /\ action \in {"promote", "reject"}
      /\ marked' = marked /\ split' = split
      /\ \A a \in App : split[a] = AllToStable
  BY DEF Delete, ManifestInv, CallsOfAction, Unloaded
<1>2. PICK w, q :
        /\ w \subseteq App \X {"canary", "baseline"}
        /\ q \subseteq App \X {"canary", "baseline"}
        /\ image' = [o \in Object |-> IF o \in w THEN 0 ELSE image[o]]
        /\ service' = service \ q
        /\ \/ Finish(FALSE)
           \/ Finish(TRUE) /\ action = "promote"
           \/ /\ Finish(TRUE) /\ App \X {"canary"} \subseteq w
              /\ SMI => App \X {"canary"} \subseteq q
  BY DeleteFacts
<1>3. \E ok \in BOOLEAN : Finish(ok) /\ (action = "promote" => ok)
  <2>1. PICK r, okW, okS : Finish(DeleteSucceeds(okW, okS))
    BY DEF Delete, Remove
  <2>2. CASE action = "promote"
    BY <2>1, <2>2 DEF DeleteSucceeds
  <2>3. CASE action # "promote"
    BY <1>2, <2>3
  <2> QED
    BY <2>2, <2>3
<1>4. PICK ok \in BOOLEAN : Finish(ok) /\ (action = "promote" => ok)
  BY <1>3
<1>5. pc' = "idle" /\ last' = <<action, ok>> /\ action' = action
  BY <1>4 DEF Finish
<1>6. ASSUME NEW a \in App
      PROVE  /\ image'[<<a, "stable">>] = image[<<a, "stable">>]
             /\ <<a, "stable">> \in service' <=> <<a, "stable">> \in service
  <2>1. <<a, "stable">> \in Object /\ <<a, "stable">> \notin w /\ <<a, "stable">> \notin q
    BY <1>2 DEF Object, Variant
  <2> QED
    BY <1>2, <2>1
<1>7. marked \subseteq App
  BY DEF ManifestInv, ManifestTypeOK
<1>8. Orderly'
  BY <1>1, <1>4, <1>5 DEF CalmInv, Orderly
<1>9. Labelled'
  BY <1>1, <1>6, <1>7 DEF CalmInv, Labelled
<1>10. Unlabelled'
  BY <1>1, <1>5, <1>6 DEF CalmInv, Unlabelled
<1>11. Gradual'
  BY <1>1, ShareWeights DEF Gradual
<1>12. Staged'
  BY <1>1, <1>5 DEF Staged, Deployed
<1>13. Served'
  BY <1>1, <1>6, <1>7, ShareWeights DEF CalmInv, Labelled, Served
<1> QED
  BY <1>8, <1>9, <1>10, <1>11, <1>12, <1>13 DEF CalmInv

(* The same, as an invariant of the behaviours in which nothing has failed. *)
CanaryInv == SMI /\ faults = 0 => CalmInv

LEMMA CalmBefore ==
  ASSUME ManifestInv, [Next]_vars, SMI', faults' = 0
  PROVE  SMI /\ faults = 0 /\ ~Cancel
<1>1. faults \in Nat
  BY BoundAssumption DEF ManifestInv, ManifestTypeOK
<1>2. method' = method
  BY DEF Next, TaskCall, Pipeline, ApplyCanary, CreateServices, ApplyStable, CheckRollout,
     TrafficToCanary, TrafficToStable, AdjustTraffic, Delete, StartDeploy, StartPromote,
     StartReject, Start, Cancel, vars
<1>3. ~Cancel
  <2>1. Cancel => faults' = faults + 1
    BY Zenon DEF Cancel, Fault
  <2> QED
    BY <1>1, <2>1
<1>4. (\E failed : Fault(failed)) => faults' \in {faults, faults + 1}
  BY DEF Fault
<1>5. faults' \in {faults, faults + 1}
  <2>1. CASE ApplyCanary \/ CreateServices \/ ApplyStable
    BY <2>1, <1>4 DEF ApplyCanary, CreateServices, ApplyStable
  <2>2. CASE CheckRollout
    BY <2>2, <1>4 DEF CheckRollout
  <2>3. CASE TrafficToCanary \/ TrafficToStable \/ Delete
    BY <2>3, <1>4 DEF TrafficToCanary, TrafficToStable, AdjustTraffic, Delete
  <2>4. CASE StartDeploy \/ StartPromote \/ StartReject \/ UNCHANGED vars
    BY <2>4 DEF StartDeploy, StartPromote, StartReject, Start, vars
  <2> QED
    BY <2>1, <2>2, <2>3, <2>4, <1>3 DEF Next, TaskCall, Pipeline
<1> QED
  BY <1>1, <1>2, <1>3, <1>5 DEF SMI

LEMMA CanaryStep == ManifestInv /\ CanaryInv /\ [Next]_vars => CanaryInv'
<1> SUFFICES ASSUME ManifestInv, CanaryInv, [Next]_vars, SMI', faults' = 0
             PROVE  CalmInv'
  BY DEF CanaryInv
<1>1. SMI /\ faults = 0 /\ ~Cancel
  BY CalmBefore
<1>2. CalmInv
  BY <1>1 DEF CanaryInv
<1>3. CASE TaskCall
  BY <1>1, <1>2, <1>3, ApplyCanaryCalm, CreateServicesCalm, ApplyStableCalm,
     CheckRolloutCalm, TrafficCalm, DeleteCalm DEF TaskCall
<1>4. CASE Pipeline
  BY <1>1, <1>2, <1>4, StartCalm DEF Pipeline
<1>5. CASE UNCHANGED vars
  BY <1>2, <1>5 DEF vars, taskVars, workloadVars, trafficVars, CalmInv, Orderly, Labelled,
     Unlabelled, Staged, Deployed, Served, Gradual
<1> QED
  BY <1>3, <1>4, <1>5 DEF Next

-----------------------------------------------------------------------------
(* The theorems                                                            *)

(* Every reachable state satisfies the inductive invariant.                *)
THEOREM ManifestInvariant == Spec => []ManifestInv
<1>1. ManifestInv /\ [Next]_vars => ManifestInv'
  <2> SUFFICES ASSUME ManifestInv, [Next]_vars PROVE ManifestInv'
    OBVIOUS
  <2>1. CASE TaskCall
    BY <2>1, ApplyCanaryInv, CreateServicesInv, ApplyStableInv, CheckRolloutInv,
       TrafficInv, DeleteInv DEF TaskCall
  <2>2. CASE Pipeline
    BY <2>2, StartInv, CancelInv DEF Pipeline
  <2>3. CASE UNCHANGED vars
    BY <2>3 DEF vars, taskVars, workloadVars, trafficVars, ManifestInv, ManifestTypeOK,
         CallsOfAction, ReleaseNamed, Unloaded, Promoted, ManifestResultIsReal, SMI
  <2> QED
    BY <2>1, <2>2, <2>3 DEF Next
<1> QED
  BY InitInv, <1>1, PTL DEF Spec

(* Types: each task is at a call of its action, and nothing but the four   *)
(* kinds of traffic split is ever written.                                 *)
THEOREM ManifestTypeCorrect == Spec => []ManifestTypeOK
<1>1. ManifestInv => ManifestTypeOK
  BY DEF ManifestInv
<1> QED
  BY ManifestInvariant, <1>1, PTL

(* A promotion or rejection that reports success left the cluster as its    *)
(* name says.                                                              *)
THEOREM ManifestResultReal == Spec => []ManifestResultIsReal
<1>1. ManifestInv => ManifestResultIsReal
  BY DEF ManifestInv
<1> QED
  BY ManifestInvariant, <1>1, PTL

(* A stable workload changes only while it gets no traffic, whatever failed *)
(* or was cancelled before.                                                *)
THEOREM StableUpdatedSafely == Spec => StableUpdatedUnloaded
<1>1. ASSUME ManifestInv, [Next]_vars, NEW a \in App, SMI,
             image'[<<a, "stable">>] # image[<<a, "stable">>]
      PROVE  action = "promote" /\ split[a] = AllToCanary
  <2>1. pc = "applyStable"
    BY <1>1, StableChanges
  <2> QED
    BY <1>1, <2>1 DEF ManifestInv, CallsOfAction, Unloaded
<1>2. ManifestInv /\ [Next]_vars =>
        [\A a \in App : SMI /\ image'[<<a, "stable">>] # image[<<a, "stable">>]
                        => action = "promote" /\ split[a] = AllToCanary]_vars
  BY <1>1
<1> QED
  BY ManifestInvariant, <1>2, PTL DEF Spec, StableUpdatedUnloaded

(* A promotion returns the traffic only to what it has updated and seen    *)
(* roll out.                                                               *)
THEOREM ReturnedSafely == Spec => ReturnedWhenVerified
<1>1. ASSUME ManifestInv, [Next]_vars, NEW a \in App,
             split'[a] = AllToStable, split[a] # AllToStable, action = "promote"
      PROVE  a \in rolledOut /\ image[<<a, "stable">>] = release
  <2>1. pc = "trafficToStable"
    BY <1>1, ReturnChanges
  <2> QED
    BY <1>1, <2>1 DEF ManifestInv, Promoted
<1>2. ManifestInv /\ [Next]_vars =>
        [\A a \in App : split'[a] = AllToStable /\ split[a] # AllToStable /\ action = "promote"
                        => a \in rolledOut /\ image[<<a, "stable">>] = release]_vars
  BY <1>1
<1> QED
  BY ManifestInvariant, <1>2, PTL DEF Spec, ReturnedWhenVerified

(* What is removed gets no traffic.                                        *)
THEOREM RemovedSafely == Spec => RemovedUnloaded
<1>1. ASSUME ManifestInv, [Next]_vars, NEW a \in App, NEW v \in Variant,
             \/ image[<<a, v>>] # 0 /\ image'[<<a, v>>] = 0
             \/ <<a, v>> \in service \ service'
      PROVE  split[a][v] = 0
  <2>1. <<a, v>> \in Object /\ <<a, v>>[2] = v
    BY DEF Object
  <2>2. Delete
    BY <1>1, <2>1, WorkloadGone, ServiceGone
  <2>3. PICK w, q :
          /\ w \subseteq App \X {"canary", "baseline"}
          /\ q \subseteq App \X {"canary", "baseline"}
          /\ image' = [o \in Object |-> IF o \in w THEN 0 ELSE image[o]]
          /\ service' = service \ q
    BY <1>1, <2>2, DeleteFacts
  <2>4. v \in {"canary", "baseline"}
    BY <1>1, <2>1, <2>3
  <2>5. split[a] = AllToStable \/ split[a] = NoSplit
    BY <1>1, <2>2 DEF ManifestInv, Unloaded, Delete
  <2> QED
    BY <2>4, <2>5, SplitWeights
<1>2. ManifestInv /\ [Next]_vars =>
        [\A a \in App, v \in Variant :
            \/ image[<<a, v>>] # 0 /\ image'[<<a, v>>] = 0
            \/ <<a, v>> \in service \ service'
            => split[a][v] = 0]_vars
  BY <1>1
<1> QED
  BY ManifestInvariant, <1>2, PTL DEF Spec, RemovedUnloaded

(* What holds as long as nothing fails: each call of a deployment leaves    *)
(* what the next one needs.                                                *)
THEOREM CanaryInvariant == Spec => []CanaryInv
<1>1. Init => CanaryInv
  BY InitCalm DEF CanaryInv
<1>2. ManifestInv /\ CanaryInv /\ [Next]_vars => CanaryInv'
  BY CanaryStep
<1> QED
  BY ManifestInvariant, <1>1, <1>2, PTL DEF Spec

(* A traffic split never names a service or a workload that is not there.   *)
THEOREM TrafficIsServed == Spec => []TrafficServed
<1>1. ASSUME ManifestInv, CanaryInv PROVE TrafficServed
  <2>1. CASE SMI
    BY <1>1, <2>1 DEF CanaryInv, CalmInv, Served, TrafficServed
  <2>2. CASE ~SMI
    BY <1>1, <2>2, SplitWeights DEF ManifestInv, Unloaded, TrafficServed
  <2> QED
    BY <2>1, <2>2
<1> QED
  BY ManifestInvariant, CanaryInvariant, <1>1, PTL

(* A canary gets more than its share only during its promotion.            *)
THEOREM ExposureIsGradual == Spec => []GradualExposure
<1>1. ASSUME ManifestInv, CanaryInv PROVE GradualExposure
  <2>1. CASE SMI
    BY <1>1, <2>1 DEF CanaryInv, CalmInv, Gradual, GradualExposure
  <2>2. CASE ~SMI
    BY <1>1, <2>2, ShareWeights DEF ManifestInv, Unloaded, GradualExposure
  <2> QED
    BY <2>1, <2>2
<1> QED
  BY ManifestInvariant, CanaryInvariant, <1>1, PTL
=============================================================================
