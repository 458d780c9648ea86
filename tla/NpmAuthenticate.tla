--------------------------- MODULE NpmAuthenticate ---------------------------
(***************************************************************************)
(* The NpmAuthenticate task: it writes credentials into an .npmrc file and *)
(* its post-job handler takes them out again.  The steps of a job share    *)
(* one directory, with a copy of each file as it was before the first of   *)
(* them and an index of the copies; a step that fails removes it.          *)
(***************************************************************************)
EXTENDS AgentJob

CONSTANTS
  NpmStep,      \* the job's steps that are NpmAuthenticate
  NpmFile       \* the .npmrc files

ASSUME NpmAssumption == NpmStep \subseteq Step

VARIABLES
  workingFile,  \* task input workingFile of each step
  npmrc,        \* the step that changed a file last, 0 if it is unchanged
  savePath,     \* job's variables SAVE_NPMRC_PATH, NPM_AUTHENTICATE_TEMP_DIRECTORY
  directory,    \* the directory is there
  index,        \* the files its index.json names
  copy,         \* its copies
  threw         \* steps that failed by themselves

npmVars == <<workingFile, npmrc, savePath, directory, index, copy, threw>>

NoCopy == -1
Copies == {f \in NpmFile : copy[f] # NoCopy}
File == workingFile[at]

RemoveDirectory ==
  /\ directory' = FALSE
  /\ index' = {}
  /\ copy' = [f \in NpmFile |-> NoCopy]

-----------------------------------------------------------------------------
(* npmauth                                                                 *)

(* The rejection handler of main.                                          *)
Throw ==
  /\ threw' = threw \cup {at}
  /\ IF savePath THEN RemoveDirectory ELSE UNCHANGED <<directory, index, copy>>
  /\ UNCHANGED savePath

Authenticate ==
  /\ Running("main", NpmStep) /\ pc = "enter"
  /\ \/ Fail /\ Throw
     \/ /\ Continue("index")
        /\ savePath' = TRUE
        /\ directory' = (directory \/ ~savePath)
        /\ UNCHANGED <<index, copy, threw>>
  /\ UNCHANGED npmrc

(* Mutant: the directory is created again.                                 *)
IndexAnew ==
  /\ pc = "index"
  /\ directory' = TRUE
  /\ index' = index \cup {File}
  /\ Continue(IF File \in index THEN "endpoints" ELSE "save")
  /\ UNCHANGED <<savePath, copy, threw, npmrc>>

(* Mutant: every step saves its file.                                      *)
IndexAlways ==
  /\ pc = "index"
  /\ IF ~directory
     THEN FailAgain /\ Throw
     ELSE /\ index' = index \cup {File}
          /\ Continue("save")
          /\ UNCHANGED <<savePath, directory, copy, threw>>
  /\ UNCHANGED npmrc

(* The index cannot be written where there is no directory.                *)
Index ==
  /\ pc = "index"
  /\ IF File \in index
     THEN Continue("endpoints") /\ UNCHANGED <<savePath, directory, index, copy, threw>>
     ELSE IF ~directory
     THEN FailAgain /\ Throw
     ELSE /\ index' = index \cup {File}
          /\ Continue("save")
          /\ UNCHANGED <<savePath, directory, copy, threw>>
  /\ UNCHANGED npmrc

Save ==
  /\ pc = "save"
  /\ \/ Fail /\ Throw
     \/ /\ copy' = [copy EXCEPT ![File] = npmrc[File]]
        /\ Continue("endpoints")
        /\ UNCHANGED <<savePath, directory, index, threw>>
  /\ UNCHANGED npmrc

Endpoints ==
  /\ pc = "endpoints"
  /\ \/ Fail /\ Throw
     \/ Continue("edit") /\ UNCHANGED <<savePath, directory, index, copy, threw>>
  /\ UNCHANGED npmrc

(* The file is cleared of old credentials and appended to, registry by     *)
(* registry; it may fail or be killed after some of them.                  *)
Edit ==
  /\ pc = "edit"
  /\ npmrc' = [npmrc EXCEPT ![File] = at]
  /\ \/ Fail /\ Throw
     \/ Continue("edited") /\ UNCHANGED <<savePath, directory, index, copy, threw>>

Authenticated ==
  /\ pc = "edited" /\ Succeed
  /\ UNCHANGED <<npmrc, savePath, directory, index, copy, threw>>

-----------------------------------------------------------------------------
(* npmauthcleanup: without the variables or the index nothing is done, and *)
(* a copy is used once.  The directory goes when nothing but the index is  *)
(* left in it.                                                             *)
CleanUp ==
  /\ Running("post", NpmStep) /\ pc = "enter"
  /\ IF ~savePath \/ index = {}
     THEN UNCHANGED <<npmrc, directory, index, copy>>
     ELSE /\ npmrc' = IF File \in Copies /\ File \in index
                      THEN [npmrc EXCEPT ![File] = copy[File]] ELSE npmrc
          /\ IF Copies \subseteq {File} THEN RemoveDirectory
             ELSE /\ copy' = [copy EXCEPT ![File] = NoCopy]
                  /\ UNCHANGED <<directory, index>>
  /\ Succeed
  /\ UNCHANGED <<savePath, threw>>

-----------------------------------------------------------------------------
AuthenticateStep ==
  Authenticate \/ Index \/ Save \/ Endpoints \/ Edit \/ Authenticated

NpmTask == (AuthenticateStep \/ CleanUp) /\ UNCHANGED workingFile

InitNpm ==
  /\ workingFile \in [NpmStep -> NpmFile]
  /\ npmrc = [f \in NpmFile |-> 0]
  /\ savePath = FALSE /\ directory = FALSE
  /\ index = {}
  /\ copy = [f \in NpmFile |-> NoCopy]
  /\ threw = {}
=============================================================================
