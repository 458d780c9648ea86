-------------------------- MODULE MCJenkinsQueue --------------------------
(***************************************************************************)
(* Small pipelines for JenkinsQueue.  A job is named by its path in the     *)
(* tree, a project by its last letter.                                     *)
(***************************************************************************)
EXTENDS JenkinsQueue

(* r alone starts a. *)
ChainJob == {"r", "ra"}
ChainParent == [r |-> NoJob, ra |-> "r"]
ChainIdent == [r |-> "r", ra |-> "a"]
ChainId == {"r", "a"}
ChainDownstream == [r |-> {"a"}, a |-> {}]
ChainOld == [r |-> 1, a |-> 1]

(* r starts a and b, both start c. *)
DiamondJob == {"r", "ra", "rb", "rac", "rbc"}
DiamondParent == [r |-> NoJob, ra |-> "r", rb |-> "r", rac |-> "ra", rbc |-> "rb"]
DiamondIdent == [r |-> "r", ra |-> "a", rb |-> "b", rac |-> "c", rbc |-> "c"]
DiamondId == {"r", "a", "b", "c"}
DiamondDownstream == [r |-> {"a", "b"}, a |-> {"c"}, b |-> {"c"}, c |-> {}]
DiamondOld == [r |-> 0, a |-> 0, b |-> 0, c |-> 0]

(* r starts a and c, a starts c too, and c starts d: Jenkins runs c once or   *)
(* twice, and the task joins a job that has a job below it.                *)
KiteJob == {"r", "ra", "rc", "rac", "rcd", "racd"}
KiteParent == [r |-> NoJob, ra |-> "r", rc |-> "r", rac |-> "ra", rcd |-> "rc",
               racd |-> "rac"]
KiteIdent == [r |-> "r", ra |-> "a", rc |-> "c", rac |-> "c", rcd |-> "d", racd |-> "d"]
KiteId == {"r", "a", "c", "d"}
KiteDownstream == [r |-> {"a", "c"}, a |-> {"c"}, c |-> {"d"}, d |-> {}]
KiteOld == [r |-> 0, a |-> 0, c |-> 0, d |-> 0]

(* r starts a, b and c; a and b start c as well. *)
FanJob == {"r", "ra", "rb", "rc", "rac", "rbc"}
FanParent == [r |-> NoJob, ra |-> "r", rb |-> "r", rc |-> "r", rac |-> "ra",
              rbc |-> "rb"]
FanIdent == [r |-> "r", ra |-> "a", rb |-> "b", rc |-> "c", rac |-> "c", rbc |-> "c"]
FanDownstream == [r |-> {"a", "b", "c"}, a |-> {"c"}, b |-> {"c"}, c |-> {}]

(* Jenkins is faster than the task: it has run the whole pipeline, c twice,  *)
(* when the task first hears from it.  Only used to find one behaviour.    *)
FastServer ==
  pc["r"] # "init" =>
    /\ Len(builds["c"]) = 2
    /\ \A id \in Id : \A n \in DOMAIN builds[id] : builds[id][n].result # "none"

Option(console_, pipeline, plugin) ==
  [captureConsole |-> console_, capturePipeline |-> pipeline,
   teamBuildPlugin |-> plugin, shouldFail |-> FALSE]

AllOptions == {Option(TRUE, TRUE, TRUE), Option(TRUE, TRUE, FALSE),
               Option(TRUE, FALSE, FALSE), Option(FALSE, FALSE, FALSE)}
PipelineOption == {Option(TRUE, TRUE, FALSE)}
PluginOption == {Option(TRUE, TRUE, TRUE)}
=============================================================================
