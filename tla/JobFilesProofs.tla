------------------------- MODULE JobFilesProofs -------------------------
(***************************************************************************)
(* What a job gives back, for any number of steps, files and faults.        *)
(***************************************************************************)
EXTENDS JobFiles, TLAPS

(* The post-job handler of step i has not come to its end.                 *)
Pending(i) == stage \in {"pre", "main"} \/ (stage = "post" /\ i <= at)

(* The handler ends.                                                       *)
Ends == Succeed \/ Fail \/ FailAgain \/ Overlook \/ (pc # "enter" /\ Abort)

(* No pre-job handler runs after a failure, and a kill is one.              *)
OrderInv ==
  /\ pc \in InstallCall => ~failed
  /\ killed # {} => failed
  /\ pc \in {"writeConfig", "recordConfig"} => at \in config

-----------------------------------------------------------------------------
(* NpmAuthenticate                                                         *)

(* No step has failed by itself, and none was killed before its copy.       *)
Unharmed == threw = {} /\ "save" \notin killed

(* A file that is changed has a copy, and a step that will copy it back.    *)
Recoverable(f) ==
  /\ f \in Copies
  /\ \E i \in NpmStep : workingFile[i] = f /\ Pending(i)

NpmInv ==
  /\ OriginalsKept
  /\ stage = "pre" => ~savePath
  /\ ~savePath => ~directory /\ \A f \in NpmFile : npmrc[f] = 0
  /\ pc \in NpmCall => savePath
  /\ pc \in NpmCall \ {"index"} => File \in index
  /\ pc = "save" => npmrc[File] = 0
  /\ directory => \A f \in NpmFile : f \notin index => npmrc[f] = 0
  /\ Unharmed => \A f \in NpmFile : npmrc[f] # 0 => Recoverable(f)
  /\ Unharmed /\ stage = "main" => \A f \in index : f \in Copies \/ (pc = "save" /\ f = File)

-----------------------------------------------------------------------------
(* InstallSSHKey                                                           *)

Holders(f) == {i \in SshStep : saved[i][f] # Unset}
Before(f, i) == {j \in Holders(f) : j < i}

(* Step i has still to restore f.                                          *)
Owed(f, i) ==
  \/ stage \in {"pre", "main"}
  \/ stage = "post" /\ i < at
  \/ stage = "post" /\ i = at /\ (pc = "enter" \/ (f = "config" /\ pc = "restoreConfig"))

Owing(f) == {i \in Holders(f) : Owed(f, i)}

Untouched(f) == IF Owing(f) = {} THEN original[f] ELSE Owing(f)

(* Every step after the first saves what the steps before it have written.  *)
SavedInv ==
  \A f \in HomeFile : \A i \in Holders(f) :
    saved[i][f] = IF Before(f, i) = {} THEN original[f] ELSE Before(f, i)

(* Steps before the one that runs hold a file, and that one when it has    *)
(* saved it.                                                               *)
HoldersInv ==
  stage = "pre" =>
    /\ removed = {}
    /\ \A f \in HomeFile : located[f] <=> Holders(f) # {}
    /\ \A f \in HomeFile : \A i \in Holders(f) :
         \/ i < at
         \/ i = at /\ f = "known_hosts" /\ pc \in {"writeConfig", "recordConfig"}

ContentInv ==
  removed = {} => \A f \in HomeFile :
    /\ Owing(f) # {} => content[f] # Absent
    /\ pc = RecordOf(f) => read = Untouched(f) /\ content[f] = Owing(f) \cup {at}
    /\ /\ original[f] # {} \/ stage \in {"pre", "main"}
       /\ RecordOf(f) \notin killed /\ pc # RecordOf(f)
       => content[f] = Untouched(f)

HomeInv == SavedInv /\ HoldersInv /\ ContentInv

-----------------------------------------------------------------------------
(* The ssh agent                                                           *)

SessionInv ==
  removed = {} =>
    /\ agent = "ours" => \/ pc = "recordAgent" \/ "recordAgent" \in killed
                         \/ \E i \in killSetting : Pending(i) \/ i \in refused
    /\ "recordKey" \notin killed =>
         \A i \in keys \ {0} :
           \/ i \in refused
           \/ Pending(i) /\ (i \in deleteSetting \/ (pc = "recordKey" /\ i = at))

SshInv == OrderInv /\ HomeInv /\ SessionInv

JobInv == JobTypeOK /\ NpmInv /\ SshInv

-----------------------------------------------------------------------------
(* The moves of the agent                                                  *)

LEMMA AdvanceFacts ==
  ASSUME AgentTypeOK, Advance
  PROVE  /\ pc' = "enter" /\ at' \in Step
         /\ stage' \in {"pre", "main", "post", "ended"} /\ stage # "ended"
         /\ stage = "pre" => stage' \in {"pre", "main"}
         /\ stage = "main" => stage' \in {"main", "post"}
         /\ stage = "post" => stage' \in {"post", "ended"}
         /\ stage' = "pre" => stage = "pre" /\ at' = at + 1
         /\ \A i \in Step : Pending(i)' <=> Pending(i) /\ ~(stage = "post" /\ i = at)
         /\ \A i \in Step, f \in HomeFile : Owed(f, i)' <=> Pending(i)'
         /\ \A i \in Step, f \in HomeFile : i # at => (Owed(f, i) <=> Pending(i))
<1> USE DEF AgentTypeOK, Step
<1>1. Steps \in Nat \ {0} /\ at \in 1..Steps
  BY JobAssumption
<1>2. \/ stage \in {"pre", "main"} /\ at < Steps /\ at' = at + 1 /\ stage' = stage
      \/ stage = "pre" /\ at = Steps /\ stage' = "main" /\ at' = 1
      \/ stage = "main" /\ at = Steps /\ stage' = "post" /\ at' = at
      \/ stage = "post" /\ at > 1 /\ at' = at - 1 /\ stage' = stage
      \/ stage = "post" /\ at = 1 /\ stage' = "ended" /\ at' = at
  BY DEF Advance
<1>3. pc' = "enter"
  BY DEF Advance
<1>4. /\ at' \in Step
      /\ stage' \in {"pre", "main", "post", "ended"} /\ stage # "ended"
      /\ stage = "pre" => stage' \in {"pre", "main"}
      /\ stage = "main" => stage' \in {"main", "post"}
      /\ stage = "post" => stage' \in {"post", "ended"}
      /\ stage' = "pre" => stage = "pre" /\ at' = at + 1
  BY <1>1, <1>2
<1>5. ASSUME NEW i \in Step
      PROVE  Pending(i)' <=> Pending(i) /\ ~(stage = "post" /\ i = at)
  <2>1. i \in 1..Steps
    OBVIOUS
  <2> QED
    BY <1>1, <1>2, <2>1 DEF Pending
<1>6. ASSUME NEW i \in Step, NEW f \in HomeFile
      PROVE  /\ Owed(f, i)' <=> Pending(i)'
             /\ i # at => (Owed(f, i) <=> Pending(i))
  <2>1. i \in 1..Steps /\ at' \in 1..Steps
    BY <1>4
  <2> QED
    BY <1>1, <1>3, <2>1 DEF Owed, Pending
<1> QED
  BY <1>3, <1>4, <1>5, <1>6

LEMMA EndType ==
  ASSUME AgentTypeOK, Ends
  PROVE  /\ AgentTypeOK' /\ pc' = "enter" /\ Advance
         /\ killed \subseteq killed' /\ (failed => failed')
         /\ killed' # killed => failed' /\ pc # "enter" /\ killed' = killed \cup {pc}
<1>1. Advance
  BY DEF Ends, Succeed, Fail, FailAgain, Overlook, Abort
<1>2. pc' = "enter" /\ at' \in Step /\ stage' \in {"pre", "main", "post", "ended"}
  BY <1>1, AdvanceFacts
<1>3. failed' \in BOOLEAN
  BY DEF Ends, Succeed, Fail, FailAgain, Overlook, Abort, AgentTypeOK
<1>4. killed' \subseteq Call
  BY DEF Ends, Succeed, Fail, FailAgain, Overlook, Abort, AgentTypeOK
<1>5. faults' \in 0..MaxFaults
  BY JobAssumption DEF Ends, Succeed, Fail, FailAgain, Overlook, Abort, AgentTypeOK, Fault
<1>6. AgentTypeOK'
  BY <1>2, <1>3, <1>4, <1>5 DEF AgentTypeOK, InstallCall, UninstallCall, NpmCall
<1>7. /\ killed \subseteq killed' /\ (failed => failed')
      /\ killed' # killed => failed' /\ pc # "enter" /\ killed' = killed \cup {pc}
  BY DEF Ends, Succeed, Fail, FailAgain, Overlook, Abort, AgentTypeOK
<1> QED
  BY <1>1, <1>2, <1>6, <1>7

LEMMA ContinueType ==
  ASSUME AgentTypeOK, NEW call \in Call, Continue(call),
         call \in InstallCall => Running("pre", SshStep),
         call \in UninstallCall => Running("post", SshStep),
         call \in NpmCall => Running("main", NpmStep)
  PROVE  AgentTypeOK' /\ (\A i : Pending(i)' <=> Pending(i))
BY DEF AgentTypeOK, Continue, Running, Pending

-----------------------------------------------------------------------------
(* NpmAuthenticate                                                         *)

(* Steps of others, and kills.                                             *)
LEMMA NpmFrame ==
  ASSUME NpmTypeOK, NpmInv, UNCHANGED npmVars, pc' \notin NpmCall,
         killed \subseteq killed', pc = "save" => "save" \in killed',
         stage' = "pre" => stage = "pre",
         stage' = "main" => stage \in {"pre", "main"},
         \A i \in NpmStep : Pending(i) => Pending(i)'
  PROVE  NpmTypeOK' /\ NpmInv'
<1>1. /\ workingFile' = workingFile /\ npmrc' = npmrc /\ savePath' = savePath
      /\ directory' = directory /\ index' = index /\ copy' = copy /\ threw' = threw
  BY DEF npmVars
<1>2. Copies' = Copies
  BY <1>1 DEF Copies
<1>3. NpmTypeOK'
  BY <1>1, <1>2 DEF NpmTypeOK
<1>4. Unharmed' => Unharmed /\ pc # "save"
  BY <1>1 DEF Unharmed
<1>5. \A f \in NpmFile : Recoverable(f) => Recoverable(f)'
  BY <1>1, <1>2 DEF Recoverable
<1>6. /\ OriginalsKept'
      /\ stage' = "pre" => ~savePath'
      /\ ~savePath' => ~directory' /\ \A f \in NpmFile : npmrc'[f] = 0
      /\ directory' => \A f \in NpmFile : f \notin index' => npmrc'[f] = 0
  BY <1>1 DEF NpmInv, OriginalsKept
<1>7. Unharmed' => \A f \in NpmFile : npmrc'[f] # 0 => Recoverable(f)'
  BY <1>1, <1>4, <1>5 DEF NpmInv
<1>8. Unharmed' /\ stage' = "main" => \A f \in index' : f \in Copies'
  <2>1. CASE stage = "pre"
    BY <1>1, <2>1 DEF NpmInv, NpmTypeOK
  <2>2. CASE stage = "main"
    BY <1>1, <1>2, <1>4, <2>2 DEF NpmInv
  <2> QED
    BY <2>1, <2>2
<1>9. pc' # "save"
  BY DEF NpmCall
<1> QED
  BY <1>3, <1>6, <1>7, <1>8, <1>9 DEF NpmInv

(* A step that fails by itself.                                            *)
LEMMA ThrowInv ==
  ASSUME AgentTypeOK, NpmTypeOK, NpmInv, Fail \/ FailAgain, Throw, Running("main", NpmStep),
         workingFile' = workingFile, npmrc' \in [NpmFile -> {0} \cup NpmStep],
         savePath \/ npmrc' = npmrc
  PROVE  AgentTypeOK' /\ NpmTypeOK' /\ NpmInv'
<1>1. AgentTypeOK' /\ pc' = "enter" /\ Advance
  BY EndType DEF Ends
<1>2. stage' # "pre"
  BY <1>1, AdvanceFacts DEF Running
<1>3. pc' \notin NpmCall /\ pc' # "save"
  BY <1>1 DEF NpmCall
<1>4. /\ threw' = threw \cup {at} /\ savePath' = savePath
      /\ savePath => RemoveDirectory
      /\ ~savePath => UNCHANGED <<directory, index, copy>>
  BY DEF Throw
<1>5. ~Unharmed'
  BY <1>4 DEF Unharmed
<1>6. /\ Copies' \subseteq index' /\ index' \subseteq NpmFile /\ directory' \in BOOLEAN
      /\ directory' = FALSE /\ index' = {}
      /\ copy' \in [NpmFile -> {NoCopy, 0} \cup NpmStep]
      /\ OriginalsKept'
  <2>1. CASE savePath
    BY <1>4, <2>1 DEF RemoveDirectory, OriginalsKept, Copies
  <2>2. CASE ~savePath
    <3>1. directory' = directory /\ index' = index /\ copy' = copy
      BY <1>4, <2>2
    <3>2. directory = FALSE /\ index = {}
      BY <2>2 DEF NpmInv, NpmTypeOK
    <3> QED
      BY <3>1, <3>2 DEF NpmInv, NpmTypeOK, OriginalsKept, Copies
  <2> QED
    BY <2>1, <2>2
<1>7. NpmTypeOK'
  BY <1>4, <1>6 DEF NpmTypeOK, Running
<1>8. ~savePath' => \A f \in NpmFile : npmrc'[f] = 0
  BY <1>4 DEF NpmInv
<1> QED
  BY <1>1, <1>2, <1>3, <1>5, <1>6, <1>7, <1>8 DEF NpmInv

LEMMA AuthenticateInv ==
  ASSUME AgentTypeOK, NpmTypeOK, NpmInv, Authenticate, workingFile' = workingFile
  PROVE  AgentTypeOK' /\ NpmTypeOK' /\ NpmInv'
<1>1. Running("main", NpmStep) /\ pc = "enter" /\ npmrc' = npmrc
  BY DEF Authenticate
<1>2. CASE Fail /\ Throw
  BY <1>1, <1>2, ThrowInv DEF NpmTypeOK
<1>3. CASE Continue("index") /\ savePath' = TRUE /\ directory' = (directory \/ ~savePath)
           /\ UNCHANGED <<index, copy, threw>>
  <2>1. AgentTypeOK' /\ \A i : Pending(i)' <=> Pending(i)
    BY <1>1, <1>3, ContinueType DEF InstallCall, UninstallCall, NpmCall, Call
  <2>2. pc' = "index" /\ stage' = stage /\ at' = at /\ killed' = killed
    BY <1>3 DEF Continue
  <2>3. Copies' = Copies
    BY <1>3 DEF Copies
  <2>4. NpmTypeOK'
    BY <1>1, <1>3, <2>3 DEF NpmTypeOK
  <2>5. Unharmed' <=> Unharmed
    BY <1>3, <2>2 DEF Unharmed
  <2>6. \A f \in NpmFile : Recoverable(f)' <=> Recoverable(f)
    BY <2>1, <2>3 DEF Recoverable
  <2>7. directory' => \A f \in NpmFile : f \notin index' => npmrc'[f] = 0
    BY <1>1, <1>3 DEF NpmInv
  <2>8. Unharmed' => \A f \in NpmFile : npmrc'[f] # 0 => Recoverable(f)'
    BY <1>1, <2>5, <2>6 DEF NpmInv
  <2>9. Unharmed' /\ stage' = "main" => \A f \in index' : f \in Copies'
    BY <1>1, <1>3, <2>2, <2>3, <2>5 DEF NpmInv
  <2> QED
    BY <1>1, <1>3, <2>1, <2>2, <2>4, <2>7, <2>8, <2>9
    DEF NpmInv, OriginalsKept, NpmCall, Running
<1> QED
  BY <1>2, <1>3 DEF Authenticate

LEMMA IndexInv ==
  ASSUME AgentTypeOK, NpmTypeOK, NpmInv, Index, workingFile' = workingFile
  PROVE  AgentTypeOK' /\ NpmTypeOK' /\ NpmInv'
<1>1. Running("main", NpmStep) /\ pc = "index" /\ npmrc' = npmrc /\ savePath
  BY DEF Index, AgentTypeOK, NpmCall, NpmInv
<1>2. File \in NpmFile /\ File' = workingFile[at']
  BY <1>1 DEF File, NpmTypeOK, Running
<1>3. CASE FailAgain /\ Throw
  BY <1>1, <1>3, ThrowInv DEF NpmTypeOK
<1>4. CASE \E call \in {"endpoints", "save"} :
             /\ Continue(call) /\ index' = index \cup {File}
             /\ UNCHANGED <<savePath, directory, copy, threw>>
             /\ call = "endpoints" <=> File \in index
             /\ directory
  <2>1. PICK call \in {"endpoints", "save"} :
             /\ Continue(call) /\ index' = index \cup {File}
             /\ UNCHANGED <<savePath, directory, copy, threw>>
             /\ call = "endpoints" <=> File \in index
             /\ directory
    BY <1>4
  <2>2. AgentTypeOK' /\ \A i : Pending(i)' <=> Pending(i)
    BY <1>1, <2>1, ContinueType DEF InstallCall, UninstallCall, NpmCall, Call
  <2>3. pc' = call /\ stage' = stage /\ at' = at /\ killed' = killed /\ File' = File
    BY <1>2, <2>1 DEF Continue, File
  <2>4. Copies' = Copies
    BY <2>1 DEF Copies
  <2>5. NpmTypeOK'
    BY <1>1, <1>2, <2>1, <2>4 DEF NpmTypeOK
  <2>6. Unharmed' <=> Unharmed
    BY <2>1, <2>3 DEF Unharmed
  <2>7. \A f \in NpmFile : Recoverable(f)' <=> Recoverable(f)
    BY <2>2, <2>4 DEF Recoverable
  <2>8. pc' = "save" => npmrc'[File'] = 0
    BY <1>1, <1>2, <2>1, <2>3 DEF NpmInv
  <2>9. Unharmed' => \A f \in NpmFile : npmrc'[f] # 0 => Recoverable(f)'
    BY <1>1, <2>6, <2>7 DEF NpmInv
  <2>10. Unharmed' /\ stage' = "main" =>
           \A f \in index' : f \in Copies' \/ (pc' = "save" /\ f = File')
    BY <1>1, <2>1, <2>3, <2>4, <2>6 DEF NpmInv
  <2> QED
    BY <1>1, <2>1, <2>2, <2>3, <2>5, <2>8, <2>9, <2>10
    DEF NpmInv, OriginalsKept, NpmCall, Running
<1>5. \/ FailAgain /\ Throw
      \/ \E call \in {"endpoints", "save"} :
             /\ Continue(call) /\ index' = index \cup {File}
             /\ UNCHANGED <<savePath, directory, copy, threw>>
             /\ call = "endpoints" <=> File \in index
             /\ directory
  <2>1. CASE File \in index
    <3>1. Continue("endpoints") /\ UNCHANGED <<savePath, directory, index, copy, threw>>
      BY <2>1 DEF Index
    <3>2. index' = index \cup {File} /\ directory
      BY <2>1, <3>1 DEF NpmTypeOK
    <3> QED
      BY <2>1, <3>1, <3>2
  <2>2. CASE File \notin index /\ ~directory
    BY <2>2 DEF Index
  <2>3. CASE File \notin index /\ directory
    <3>1. Continue("save") /\ index' = index \cup {File}
          /\ UNCHANGED <<savePath, directory, copy, threw>>
      BY <2>3 DEF Index
    <3> QED
      BY <2>3, <3>1
  <2> QED
    BY <2>1, <2>2, <2>3
<1> QED
  BY <1>3, <1>4, <1>5

LEMMA SaveInv ==
  ASSUME AgentTypeOK, NpmTypeOK, NpmInv, Save, workingFile' = workingFile
  PROVE  AgentTypeOK' /\ NpmTypeOK' /\ NpmInv'
<1>1. /\ Running("main", NpmStep) /\ pc = "save" /\ npmrc' = npmrc /\ savePath
      /\ File \in index /\ npmrc[File] = 0
  BY DEF Save, AgentTypeOK, NpmCall, NpmInv
<1>2. CASE Fail /\ Throw
  BY <1>1, <1>2, ThrowInv DEF NpmTypeOK
<1>3. CASE /\ copy' = [copy EXCEPT ![File] = npmrc[File]]
           /\ Continue("endpoints")
           /\ UNCHANGED <<savePath, directory, index, threw>>
  <2>1. AgentTypeOK' /\ \A i : Pending(i)' <=> Pending(i)
    BY <1>1, <1>3, ContinueType DEF InstallCall, UninstallCall, NpmCall, Call
  <2>2. /\ pc' = "endpoints" /\ stage' = stage /\ at' = at /\ killed' = killed
        /\ File' = File
    BY <1>3 DEF Continue, File
  <2>3. File \in NpmFile
    BY <1>1 DEF NpmTypeOK
  <2>4. \A f \in NpmFile : copy'[f] = IF f = File THEN 0 ELSE copy[f]
    BY <1>1, <1>3, <2>3 DEF NpmTypeOK
  <2>5. Copies' = Copies \cup {File}
    BY <2>3, <2>4 DEF Copies, NoCopy
  <2>6. copy' \in [NpmFile -> {NoCopy, 0} \cup NpmStep]
    BY <1>1, <1>3 DEF NpmTypeOK
  <2>7. NpmTypeOK'
    BY <1>1, <1>3, <2>5, <2>6 DEF NpmTypeOK
  <2>8. OriginalsKept'
    BY <2>4 DEF NpmInv, OriginalsKept
  <2>9. Unharmed' <=> Unharmed
    BY <1>3, <2>2 DEF Unharmed
  <2>10. \A f \in NpmFile : Recoverable(f) => Recoverable(f)'
    BY <2>1, <2>5 DEF Recoverable
  <2>11. Unharmed' => \A f \in NpmFile : npmrc'[f] # 0 => Recoverable(f)'
    BY <1>1, <2>9, <2>10 DEF NpmInv
  <2>12. Unharmed' /\ stage' = "main" => \A f \in index' : f \in Copies'
    BY <1>1, <1>3, <2>2, <2>5, <2>9 DEF NpmInv
  <2> QED
    BY <1>1, <1>3, <2>1, <2>2, <2>7, <2>8, <2>11, <2>12 DEF NpmInv, NpmCall, Running
<1> QED
  BY <1>2, <1>3 DEF Save

(* Steps of the handler that change nothing but where it is.               *)
LEMMA ContinueInv ==
  ASSUME AgentTypeOK, NpmTypeOK, NpmInv, UNCHANGED npmVars,
         pc \in {"endpoints", "edited"}, Continue("edit") \/ Succeed
  PROVE  AgentTypeOK' /\ NpmTypeOK' /\ NpmInv'
<1>1. Running("main", NpmStep) /\ pc \in NpmCall
  BY DEF AgentTypeOK, NpmCall
<1>2. CASE Succeed
  <2>1. AgentTypeOK' /\ pc' = "enter" /\ Advance /\ killed' = killed
    BY <1>2, EndType DEF Ends, Succeed
  <2>2. /\ stage' # "pre" /\ (stage' = "main" => stage = "main")
        /\ \A i \in NpmStep : Pending(i) => Pending(i)'
    BY <1>1, <2>1, AdvanceFacts, NpmAssumption DEF Running
  <2>3. NpmTypeOK' /\ NpmInv'
    BY <1>1, <2>1, <2>2, NpmFrame DEF NpmCall, Running
  <2> QED
    BY <2>1, <2>3
<1>3. CASE Continue("edit")
  <2>1. AgentTypeOK' /\ \A i : Pending(i)' <=> Pending(i)
    BY <1>1, <1>3, ContinueType DEF InstallCall, UninstallCall, NpmCall, Call
  <2>2. /\ pc' = "edit" /\ stage' = stage /\ at' = at /\ killed' = killed
    BY <1>3 DEF Continue
  <2>3. /\ workingFile' = workingFile /\ npmrc' = npmrc /\ savePath' = savePath
        /\ directory' = directory /\ index' = index /\ copy' = copy /\ threw' = threw
    BY DEF npmVars
  <2>4. Copies' = Copies /\ File' = File
    BY <2>2, <2>3 DEF Copies, File
  <2>5. (Unharmed' <=> Unharmed) /\ \A f \in NpmFile : Recoverable(f)' <=> Recoverable(f)
    BY <2>1, <2>2, <2>3, <2>4 DEF Unharmed, Recoverable
  <2>6. NpmTypeOK'
    BY <2>3, <2>4 DEF NpmTypeOK
  <2>7. Unharmed' => \A f \in NpmFile : npmrc'[f] # 0 => Recoverable(f)'
    BY <2>3, <2>5 DEF NpmInv
  <2>8. Unharmed' /\ stage' = "main" => \A f \in index' : f \in Copies'
    BY <2>2, <2>3, <2>4, <2>5 DEF NpmInv
  <2> QED
    BY <1>1, <2>1, <2>2, <2>3, <2>4, <2>6, <2>7, <2>8 DEF NpmInv, OriginalsKept, NpmCall, Running
<1> QED
  BY <1>2, <1>3

LEMMA EditInv ==
  ASSUME AgentTypeOK, NpmTypeOK, NpmInv, Edit, workingFile' = workingFile
  PROVE  AgentTypeOK' /\ NpmTypeOK' /\ NpmInv'
<1>1. /\ Running("main", NpmStep) /\ pc = "edit" /\ savePath /\ File \in index
      /\ npmrc' = [npmrc EXCEPT ![File] = at]
  BY DEF Edit, AgentTypeOK, NpmCall, NpmInv
<1>2. npmrc' \in [NpmFile -> {0} \cup NpmStep]
  BY <1>1 DEF NpmTypeOK, Running
<1>3. CASE Fail /\ Throw
  BY <1>1, <1>2, <1>3, ThrowInv
<1>4. CASE Continue("edited") /\ UNCHANGED <<savePath, directory, index, copy, threw>>
  <2>1. AgentTypeOK' /\ \A i : Pending(i)' <=> Pending(i)
    BY <1>1, <1>4, ContinueType DEF InstallCall, UninstallCall, NpmCall, Call
  <2>2. /\ pc' = "edited" /\ stage' = stage /\ at' = at /\ killed' = killed /\ File' = File
    BY <1>4 DEF Continue, File
  <2>3. Copies' = Copies
    BY <1>4 DEF Copies
  <2>4. NpmTypeOK'
    BY <1>2, <1>4, <2>3 DEF NpmTypeOK
  <2>5. (Unharmed' <=> Unharmed) /\ \A f \in NpmFile : Recoverable(f)' <=> Recoverable(f)
    BY <1>4, <2>1, <2>2, <2>3 DEF Unharmed, Recoverable
  <2>6. \A f \in NpmFile : f # File => npmrc'[f] = npmrc[f]
    BY <1>1 DEF NpmTypeOK
  <2>7. Unharmed => Recoverable(File)
    <3>1. Unharmed => File \in Copies
      BY <1>1 DEF NpmInv, Running
    <3>2. at \in NpmStep /\ workingFile[at] = File /\ Pending(at)
      BY <1>1 DEF Running, Pending, File
    <3> QED
      BY <3>1, <3>2 DEF Recoverable
  <2>8. Unharmed' => \A f \in NpmFile : npmrc'[f] # 0 => Recoverable(f)'
    BY <2>5, <2>6, <2>7 DEF NpmInv
  <2>9. Unharmed' /\ stage' = "main" => \A f \in index' : f \in Copies'
    BY <1>1, <1>4, <2>2, <2>3, <2>5 DEF NpmInv
  <2>10. directory' => \A f \in NpmFile : f \notin index' => npmrc'[f] = 0
    BY <1>1, <1>4, <2>6 DEF NpmInv
  <2> QED
    BY <1>1, <1>4, <2>1, <2>2, <2>4, <2>8, <2>9, <2>10
    DEF NpmInv, OriginalsKept, NpmCall, Running
<1> QED
  BY <1>3, <1>4 DEF Edit

LEMMA CleanUpInv ==
  ASSUME AgentTypeOK, NpmTypeOK, NpmInv, CleanUp, workingFile' = workingFile
  PROVE  AgentTypeOK' /\ NpmTypeOK' /\ NpmInv'
<1>1. /\ Running("post", NpmStep) /\ Succeed /\ savePath' = savePath /\ threw' = threw
  BY DEF CleanUp
<1>2. AgentTypeOK' /\ pc' = "enter" /\ Advance /\ killed' = killed
  BY <1>1, EndType DEF Ends, Succeed
<1>3. /\ stage' \in {"post", "ended"}
      /\ \A i \in NpmStep : i # at /\ Pending(i) => Pending(i)'
  BY <1>1, <1>2, AdvanceFacts, NpmAssumption DEF Running
<1>4. Unharmed' <=> Unharmed
  BY <1>1, <1>2 DEF Unharmed
<1>5. CASE ~savePath \/ index = {}
  <2>1. npmrc' = npmrc /\ directory' = directory /\ index' = index /\ copy' = copy
    BY <1>5 DEF CleanUp
  <2>2. Copies' = Copies /\ Copies = {}
    BY <1>5, <2>1 DEF Copies, NpmInv, NpmTypeOK
  <2>3. NpmTypeOK'
    BY <1>1, <2>1, <2>2 DEF NpmTypeOK
  <2>4. Unharmed' => \A f \in NpmFile : npmrc'[f] = 0
    BY <1>4, <2>1, <2>2 DEF NpmInv, Recoverable
  <2>5. /\ OriginalsKept'
        /\ ~savePath' => ~directory' /\ \A f \in NpmFile : npmrc'[f] = 0
        /\ directory' => \A f \in NpmFile : f \notin index' => npmrc'[f] = 0
    BY <1>1, <2>1 DEF NpmInv, OriginalsKept
  <2> QED
    BY <1>2, <1>3, <2>3, <2>4, <2>5 DEF NpmInv, NpmCall
<1>6. CASE savePath /\ index # {}
  <2>1. /\ npmrc' = IF File \in Copies /\ File \in index
                    THEN [npmrc EXCEPT ![File] = copy[File]] ELSE npmrc
        /\ IF Copies \subseteq {File} THEN RemoveDirectory
           ELSE copy' = [copy EXCEPT ![File] = NoCopy] /\ UNCHANGED <<directory, index>>
    BY <1>6 DEF CleanUp
  <2>2. File \in NpmFile
    BY <1>1 DEF File, NpmTypeOK, Running
  <2>3. \A f \in NpmFile : npmrc'[f] = IF f = File /\ f \in Copies THEN 0 ELSE npmrc[f]
    <3>1. File \in Copies => File \in index /\ copy[File] = 0
      BY DEF NpmTypeOK, NpmInv, OriginalsKept, Copies
    <3> QED
      BY <2>1, <2>2, <3>1 DEF NpmTypeOK
  <2>4. npmrc' \in [NpmFile -> {0} \cup NpmStep]
    <3>1. CASE File \in Copies /\ File \in index
      <4>1. copy[File] = 0
        BY <3>1 DEF NpmInv, OriginalsKept, Copies
      <4> QED
        BY <2>1, <3>1, <4>1 DEF NpmTypeOK
    <3>2. CASE ~(File \in Copies /\ File \in index)
      BY <2>1, <3>2 DEF NpmTypeOK
    <3> QED
      BY <3>1, <3>2
  <2>5. /\ copy' \in [NpmFile -> {NoCopy, 0} \cup NpmStep]
        /\ Copies' = Copies \ {File}
        /\ \A f \in NpmFile : copy'[f] \in {NoCopy, copy[f]}
        /\ \/ directory' = FALSE /\ index' = {} /\ Copies' = {}
           \/ directory' = directory /\ index' = index
    <3>1. CASE Copies \subseteq {File}
      BY <2>1, <3>1 DEF RemoveDirectory, Copies
    <3>2. CASE ~(Copies \subseteq {File})
      <4>1. copy' = [copy EXCEPT ![File] = NoCopy] /\ UNCHANGED <<directory, index>>
        BY <2>1, <3>2
      <4>2. \A f \in NpmFile : copy'[f] = IF f = File THEN NoCopy ELSE copy[f]
        BY <4>1 DEF NpmTypeOK
      <4> QED
        BY <4>1, <4>2 DEF NpmTypeOK, Copies
    <3> QED
      BY <3>1, <3>2
  <2>6. NpmTypeOK'
    <3>1. workingFile' \in [NpmStep -> NpmFile] /\ savePath' \in BOOLEAN /\ threw' \subseteq NpmStep
      BY <1>1 DEF NpmTypeOK
    <3>2. Copies' \subseteq index' /\ index' \subseteq NpmFile
      BY <2>5 DEF NpmTypeOK
    <3>3. directory' \in BOOLEAN /\ (directory' \/ index' = {})
      <4>1. CASE directory' = FALSE /\ index' = {}
        BY <4>1
      <4>2. CASE directory' = directory /\ index' = index
        BY <4>2, Zenon DEF NpmTypeOK
      <4> QED
        BY <2>5, <4>1, <4>2
    <3> QED
      BY <2>4, <2>5, <3>1, <3>2, <3>3, Zenon DEF NpmTypeOK
  <2>7. OriginalsKept'
    BY <2>5 DEF NpmInv, OriginalsKept
  <2>8. directory' => \A f \in NpmFile : f \notin index' => npmrc'[f] = 0
    BY <2>3, <2>5 DEF NpmInv
  <2>9. Unharmed' => \A f \in NpmFile : npmrc'[f] # 0 => Recoverable(f)'
    <3> SUFFICES ASSUME Unharmed', NEW f \in NpmFile, npmrc'[f] # 0 PROVE Recoverable(f)'
      OBVIOUS
    <3>1. Recoverable(f)
      BY <1>4, <2>3 DEF NpmInv
    <3>2. f # File
      BY <2>3, <3>1 DEF Recoverable
    <3>3. PICK i \in NpmStep : workingFile[i] = f /\ Pending(i)
      BY <3>1 DEF Recoverable
    <3>4. i # at
      BY <3>2, <3>3 DEF File
    <3>5. workingFile'[i] = f /\ Pending(i)'
      BY <1>3, <3>3, <3>4
    <3>6. f \in Copies'
      BY <2>5, <3>1, <3>2 DEF Recoverable
    <3> QED
      BY <3>5, <3>6 DEF Recoverable
  <2> QED
    BY <1>1, <1>2, <1>3, <1>6, <2>6, <2>7, <2>8, <2>9 DEF NpmInv, NpmCall
<1> QED
  BY <1>5, <1>6 DEF NpmTypeOK

LEMMA NpmTaskInv ==
  ASSUME AgentTypeOK, NpmTypeOK, NpmInv, NpmTask
  PROVE  AgentTypeOK' /\ NpmTypeOK' /\ NpmInv'
<1>1. workingFile' = workingFile
  BY DEF NpmTask
<1>2. CASE Endpoints
  <2>1. pc = "endpoints" /\ npmrc' = npmrc /\ Running("main", NpmStep)
    BY <1>2 DEF Endpoints, AgentTypeOK, NpmCall
  <2>2. CASE Fail /\ Throw
    BY <1>1, <2>1, <2>2, ThrowInv DEF NpmTypeOK
  <2>3. CASE Continue("edit") /\ UNCHANGED <<savePath, directory, index, copy, threw>>
    BY <1>1, <2>1, <2>3, ContinueInv DEF npmVars
  <2> QED
    BY <1>2, <2>2, <2>3 DEF Endpoints
<1>3. CASE Authenticated
  BY <1>1, <1>3, ContinueInv DEF Authenticated, npmVars
<1> QED
  BY <1>1, <1>2, <1>3, AuthenticateInv, IndexInv, SaveInv, EditInv, CleanUpInv
  DEF NpmTask, AuthenticateStep


-----------------------------------------------------------------------------
(* Files and what can be saved of them                                     *)

LEMMA ContentFacts ==
  /\ Absent \in Contents /\ {} \in Contents /\ {0} \in Contents /\ Unset \notin Contents
  /\ \A S \in SUBSET SshStep : S \in Contents /\ (S # {} => S # Absent)
  /\ Absent # {} /\ Absent # {0}
<1>1. 0 \in 0..Steps /\ -2 \notin 0..Steps
  BY JobAssumption
<1>2. Absent \in Contents /\ {} \in Contents /\ {0} \in Contents
  BY <1>1 DEF Contents
<1>3. Unset \notin Contents
  <2>1. Unset # Absent
    <3>1. -2 \in Unset /\ -2 \notin Absent
      BY DEF Unset, Absent
    <3> QED
      BY <3>1
  <2> QED
    BY <1>1, <2>1 DEF Contents, Unset
<1>4. ASSUME NEW S \in SUBSET SshStep PROVE S \in Contents /\ (S # {} => S # Absent)
  <2>1. \A i \in S : i \in 1..Steps
    BY SshAssumption DEF Step
  <2>2. S \in SUBSET (0..Steps)
    BY <2>1, JobAssumption
  <2>3. -1 \notin S
    BY <2>1
  <2> QED
    BY <2>2, <2>3 DEF Contents, Absent
<1>5. Absent # {} /\ Absent # {0}
  <2>1. -1 \in Absent /\ -1 \notin {} /\ -1 \notin {0}
    BY DEF Absent
  <2> QED
    BY <2>1
<1> QED
  BY <1>2, <1>3, <1>4, <1>5

(* A step that leaves the files alone.                                     *)
LEMMA HomeFrame ==
  ASSUME AgentTypeOK, SshTypeOK, HomeInv, UNCHANGED <<homeVars, original>>,
         pc' \notin {"recordHosts", "recordConfig"},
         stage' = "pre" => /\ stage = "pre"
                           /\ \/ \A i \in SshStep : i <= at => i < at'
                              \/ at' = at /\ pc \notin {"writeConfig", "recordConfig"},
         stage' \in {"pre", "main"} => stage \in {"pre", "main"},
         \A f \in HomeFile : \A i \in SshStep : Owed(f, i)' <=> Owed(f, i),
         killed \subseteq killed',
         \A f \in HomeFile : pc = RecordOf(f) => RecordOf(f) \in killed'
  PROVE  HomeInv'
<1>0. at \in Int
  BY DEF AgentTypeOK, Step
<1>1. /\ content' = content /\ read' = read /\ saved' = saved /\ located' = located
      /\ removed' = removed /\ original' = original
  BY DEF homeVars
<1>2. \A f : Holders(f)' = Holders(f) /\ \A i : Before(f, i)' = Before(f, i)
  BY <1>1 DEF Holders, Before
<1>3. \A f \in HomeFile : Owing(f)' = Owing(f) /\ Untouched(f)' = Untouched(f)
  BY <1>1, <1>2 DEF Owing, Untouched, Holders
<1>4. SavedInv'
  BY <1>1, <1>2 DEF HomeInv, SavedInv
<1>5. HoldersInv'
  <2> SUFFICES ASSUME stage' = "pre"
               PROVE  /\ removed' = {}
                      /\ \A f \in HomeFile : located'[f] <=> Holders(f)' # {}
                      /\ \A f \in HomeFile : \A i \in Holders(f)' : i < at'
    BY DEF HoldersInv
  <2>1. stage = "pre"
    OBVIOUS
  <2>2. removed' = {} /\ \A f \in HomeFile : located'[f] <=> Holders(f)' # {}
    BY <1>1, <1>2, <2>1 DEF HomeInv, HoldersInv
  <2>3. ASSUME NEW f \in HomeFile, NEW i \in Holders(f) PROVE i < at'
    <3>1. i \in SshStep
      BY DEF Holders
    <3>2. \/ i < at
          \/ i = at /\ f = "known_hosts" /\ pc \in {"writeConfig", "recordConfig"}
      BY <2>1 DEF HomeInv, HoldersInv
    <3>3. i \in Int
      BY <3>1, SshAssumption DEF Step
    <3>4. i < at => i <= at
      BY <2>1, <3>3, <1>0
    <3> QED
      BY <3>1, <3>2, <3>3, <3>4, <1>0
  <2> QED
    BY <1>2, <2>2, <2>3
<1>6. ContentInv'
  <2> SUFFICES ASSUME removed' = {}, NEW f \in HomeFile
               PROVE  /\ Owing(f)' # {} => content'[f] # Absent
                      /\ pc' # RecordOf(f)
                      /\ /\ original'[f] # {} \/ stage' \in {"pre", "main"}
                         /\ RecordOf(f) \notin killed'
                         => content'[f] = Untouched(f)'
    BY DEF ContentInv
  <2>1. pc' # RecordOf(f)
    BY DEF RecordOf
  <2> QED
    BY <1>1, <1>3, <2>1 DEF HomeInv, ContentInv
<1> QED
  BY <1>4, <1>5, <1>6 DEF HomeInv

(* A handler that ends without saving anything.                            *)
LEMMA HomeEnd ==
  ASSUME AgentTypeOK, SshTypeOK, HomeInv, UNCHANGED <<homeVars, original>>,
         Ends,
         stage = "post" /\ at \in SshStep => pc = "cleanSession",
         pc \in {"recordHosts", "recordConfig"} => killed' = killed \cup {pc}
  PROVE  HomeInv'
<1>1. /\ pc' = "enter" /\ Advance /\ killed \subseteq killed'
  BY EndType
<1>2. ASSUME NEW i \in SshStep, i <= at, stage' = "pre" PROVE i < at'
  <2>1. at \in Int /\ i \in Int /\ at' = at + 1
    BY <1>1, <1>2, AdvanceFacts, SshAssumption DEF AgentTypeOK, Step
  <2> QED
    BY <1>2, <2>1
<1>3. ASSUME NEW f \in HomeFile, NEW i \in SshStep PROVE Owed(f, i)' <=> Owed(f, i)
  <2>1. i \in Step
    BY SshAssumption
  <2>2. /\ Owed(f, i)' <=> Pending(i)'
        /\ Pending(i)' <=> Pending(i) /\ ~(stage = "post" /\ i = at)
        /\ i # at => (Owed(f, i) <=> Pending(i))
    BY <1>1, <2>1, AdvanceFacts
  <2>3. CASE i # at \/ stage # "post"
    BY <2>2, <2>3 DEF Owed, Pending
  <2>4. CASE i = at /\ stage = "post"
    <3>1. pc = "cleanSession" /\ ~(i < at)
      BY <2>1, <2>4 DEF Step
    <3> QED
      BY <2>2, <2>4, <3>1 DEF Owed
  <2> QED
    BY <2>3, <2>4
<1>4. stage' \in {"pre", "main"} => stage \in {"pre", "main"}
  BY <1>1, AdvanceFacts DEF AgentTypeOK
<1>5. stage' = "pre" => stage = "pre"
  BY <1>1, AdvanceFacts
<1>6. ASSUME NEW f \in HomeFile, pc = RecordOf(f) PROVE RecordOf(f) \in killed'
  BY <1>6 DEF RecordOf
<1> QED
  BY <1>1, <1>2, <1>3, <1>4, <1>5, <1>6, HomeFrame

(* A handler that goes on without touching a file.                         *)
LEMMA HomeContinue ==
  ASSUME AgentTypeOK, SshTypeOK, HomeInv, UNCHANGED <<homeVars, original>>,
         NEW call, call \notin {"recordHosts", "recordConfig"}, Continue(call),
         stage \in {"pre", "main"},
         pc \notin {"recordHosts", "writeConfig", "recordConfig"}
  PROVE  HomeInv'
<1>1. /\ stage' = stage /\ at' = at /\ pc' = call /\ killed' = killed
  BY DEF Continue
<1>2. \A f \in HomeFile : \A i \in SshStep : Owed(f, i)' <=> Owed(f, i)
  BY <1>1 DEF Owed
<1>3. \A f \in HomeFile : pc # RecordOf(f)
  BY DEF RecordOf
<1> QED
  BY <1>1, <1>2, <1>3, HomeFrame

(* The changed file holds the marks of the steps so far and of this one,    *)
(* and what was read is what was there before.                             *)
LEMMA WriteHome ==
  ASSUME AgentTypeOK, SshTypeOK, OrderInv, HomeInv,
         NEW f \in HomeFile,
         read' = content[f], content' = [content EXCEPT ![f] = Inserted(f)],
         Continue(RecordOf(f)), UNCHANGED <<saved, located, removed, original>>,
         pc = IF f = "known_hosts" THEN "writeHosts" ELSE "writeConfig"
  PROVE  HomeInv' /\ content' \in [HomeFile -> Contents] /\ read' \in Contents
<1>1. /\ stage = "pre" /\ at \in SshStep /\ ~failed /\ killed = {} /\ removed = {}
  BY DEF AgentTypeOK, Running, OrderInv, InstallCall, HomeInv, HoldersInv
<1>2. /\ stage' = stage /\ at' = at /\ pc' = RecordOf(f) /\ killed' = killed
  BY DEF Continue
<1>3. /\ \A g : Holders(g)' = Holders(g) /\ \A i : Before(g, i)' = Before(g, i)
      /\ \A g : Owing(g) = Holders(g) /\ Owing(g)' = Holders(g)
      /\ \A g : Untouched(g)' = Untouched(g)
  BY <1>1, <1>2 DEF Holders, Before, Owing, Owed, Untouched
<1>4. \A g \in HomeFile : pc # RecordOf(g)
  BY DEF RecordOf
<1>5. \A g \in HomeFile : content[g] = Untouched(g) /\ (Owing(g) # {} => content[g] # Absent)
  BY <1>1, <1>4 DEF HomeInv, ContentInv
<1>6. Inserted(f) = Owing(f) \cup {at}
  <2>1. located[f] <=> Holders(f) # {}
    BY <1>1 DEF HomeInv, HoldersInv
  <2>2. CASE Holders(f) = {}
    BY <1>3, <2>1, <2>2 DEF Inserted
  <2>3. CASE Holders(f) # {}
    <3>1. content[f] = Owing(f) /\ content[f] # Absent
      BY <1>3, <1>5, <2>3 DEF Untouched
    <3> QED
      BY <2>1, <2>3, <3>1 DEF Inserted
  <2> QED
    BY <2>2, <2>3
<1>7. \A g \in HomeFile : content'[g] = IF g = f THEN Owing(f) \cup {at} ELSE content[g]
  BY <1>6 DEF SshTypeOK
<1>8. Owing(f) \cup {at} \in SUBSET SshStep /\ Owing(f) \cup {at} # {}
  BY <1>1 DEF Owing, Holders
<1>9. content' \in [HomeFile -> Contents] /\ read' \in Contents
  <2>1. Owing(f) \cup {at} \in Contents
    BY <1>8, ContentFacts
  <2> QED
    BY <1>6, <2>1 DEF SshTypeOK
<1>10. SavedInv'
  BY <1>3 DEF HomeInv, SavedInv
<1>11. HoldersInv'
  <2>1. removed' = {} /\ \A g \in HomeFile : located'[g] <=> Holders(g)' # {}
    BY <1>1, <1>3 DEF HomeInv, HoldersInv
  <2>2. ASSUME NEW g \in HomeFile, NEW i \in Holders(g)
        PROVE  \/ i < at'
               \/ i = at' /\ g = "known_hosts" /\ pc' \in {"writeConfig", "recordConfig"}
    <3>1. \/ i < at
          \/ i = at /\ g = "known_hosts" /\ pc \in {"writeConfig", "recordConfig"}
      BY <1>1 DEF HomeInv, HoldersInv
    <3> QED
      BY <1>2, <3>1 DEF RecordOf
  <2> QED
    BY <1>3, <2>1, <2>2 DEF HoldersInv
<1>12. ContentInv'
  <2> SUFFICES ASSUME NEW g \in HomeFile
               PROVE  /\ Owing(g)' # {} => content'[g] # Absent
                      /\ pc' = RecordOf(g) => read' = Untouched(g)'
                                              /\ content'[g] = Owing(g)' \cup {at'}
                      /\ pc' # RecordOf(g) => content'[g] = Untouched(g)'
    BY DEF ContentInv
  <2>1. CASE g = f
    <3>1. content'[g] # Absent
      BY <1>7, <1>8, <2>1, ContentFacts
    <3> QED
      BY <1>2, <1>3, <1>5, <1>7, <2>1, <3>1
  <2>2. CASE g # f
    <3>1. pc' # RecordOf(g)
      BY <1>2, <2>2 DEF RecordOf, HomeFile
    <3> QED
      BY <1>3, <1>5, <1>7, <2>2, <3>1
  <2> QED
    BY <2>1, <2>2
<1> QED
  BY <1>9, <1>10, <1>11, <1>12 DEF HomeInv

(* The step becomes the last of those that hold the file.                  *)
LEMMA RecordHome ==
  ASSUME AgentTypeOK, SshTypeOK, OrderInv, HomeInv,
         NEW f \in HomeFile, pc = RecordOf(f), Record(f), original' = original,
         killed' = killed,
         stage' \in {"pre", "main"},
         \/ pc' = "enter" /\ (stage' = "pre" => at' = at + 1)
         \/ pc' = "writeConfig" /\ f = "known_hosts" /\ at' = at
  PROVE  HomeInv' /\ saved' \in [SshStep -> [HomeFile -> Contents \cup {Unset}]]
<1>1. /\ stage = "pre" /\ at \in SshStep /\ killed = {} /\ removed = {}
  BY DEF AgentTypeOK, Running, OrderInv, InstallCall, HomeInv, HoldersInv, RecordOf
<1>2. /\ saved' = [saved EXCEPT ![at][f] = read]
      /\ located' = [located EXCEPT ![f] = TRUE]
      /\ content' = content /\ read' = read /\ removed' = removed
  BY DEF Record
<1>3. saved' \in [SshStep -> [HomeFile -> Contents \cup {Unset}]]
  BY <1>1, <1>2 DEF SshTypeOK
<1>4. \A i \in SshStep, g \in HomeFile :
        saved'[i][g] = IF i = at /\ g = f THEN read ELSE saved[i][g]
  BY <1>1, <1>2 DEF SshTypeOK
<1>5. read # Unset
  BY ContentFacts DEF SshTypeOK
<1>6. /\ Holders(f)' = Holders(f) \cup {at}
      /\ \A g \in HomeFile : g # f => Holders(g)' = Holders(g)
  BY <1>1, <1>4, <1>5 DEF Holders
<1>7. \A i \in Holders(f) : i < at /\ i # at
  <2> SUFFICES ASSUME NEW i \in Holders(f) PROVE i < at /\ i # at
    OBVIOUS
  <2>1. \/ i < at
        \/ i = at /\ f = "known_hosts" /\ pc \in {"writeConfig", "recordConfig"}
    BY <1>1 DEF HomeInv, HoldersInv
  <2>2. i < at
    BY <2>1 DEF RecordOf
  <2>3. i \in Int /\ at \in Int
    BY SshAssumption DEF Holders, AgentTypeOK, Step
  <2> QED
    BY <2>2, <2>3
<1>8. /\ \A g \in HomeFile : Owing(g) = Holders(g)
      /\ \A g \in HomeFile : Owing(g)' = Holders(g)'
  BY <1>1 DEF Owing, Owed, Holders
<1>9. /\ read = Untouched(f) /\ content[f] = Owing(f) \cup {at}
      /\ \A g \in HomeFile : g # f => content[g] = Untouched(g)
      /\ \A g \in HomeFile : Owing(g) # {} => content[g] # Absent
  BY <1>1 DEF HomeInv, ContentInv, RecordOf, HomeFile
<1>10. SavedInv'
  <2> SUFFICES ASSUME NEW g \in HomeFile, NEW i \in Holders(g)'
               PROVE  saved'[i][g] = IF Before(g, i)' = {} THEN original[g] ELSE Before(g, i)'
    BY DEF SavedInv
  <2>1. CASE i = at /\ g = f
    <3>1. Before(g, i)' = Holders(f)
      <4>1. at \in Int
        BY DEF AgentTypeOK, Step
      <4> QED
        BY <1>6, <1>7, <4>1, <1>1, <2>1 DEF Before
    <3>2. saved'[i][g] = read
      BY <1>1, <1>4, <2>1
    <3> QED
      BY <1>8, <1>9, <2>1, <3>1, <3>2 DEF Untouched
  <2>2. CASE ~(i = at /\ g = f)
    <3>1. i \in Holders(g) /\ i \in SshStep
      BY <1>6, <2>2 DEF Holders
    <3>2. saved'[i][g] = saved[i][g]
      BY <1>4, <2>2, <3>1
    <3>3. Before(g, i)' = Before(g, i)
      <4>1. CASE g = f
        <5>1. ~(at < i)
          BY <1>7, <3>1, <4>1, SshAssumption DEF AgentTypeOK, Step
        <5> QED
          BY <1>6, <4>1, <5>1 DEF Before
      <4>2. CASE g # f
        BY <1>6, <4>2 DEF Before
      <4> QED
        BY <4>1, <4>2
    <3> QED
      BY <3>1, <3>2, <3>3 DEF HomeInv, SavedInv
  <2> QED
    BY <2>1, <2>2
<1>11. HoldersInv'
  <2>1. \A g \in HomeFile : located'[g] <=> Holders(g)' # {}
    <3> SUFFICES ASSUME NEW g \in HomeFile PROVE located'[g] <=> Holders(g)' # {}
      OBVIOUS
    <3>1. located'[g] = IF g = f THEN TRUE ELSE located[g]
      BY <1>2 DEF SshTypeOK
    <3>2. located[g] <=> Holders(g) # {}
      BY <1>1 DEF HomeInv, HoldersInv
    <3> QED
      BY <1>6, <3>1, <3>2
  <2>2. ASSUME stage' = "pre", NEW g \in HomeFile, NEW i \in Holders(g)'
        PROVE  \/ i < at'
               \/ i = at' /\ g = "known_hosts" /\ pc' \in {"writeConfig", "recordConfig"}
    <3>1. i \in SshStep /\ i \in Int /\ at \in Int
      BY <1>6, SshAssumption DEF Holders, AgentTypeOK, Step
    <3>2. i < at \/ (i = at /\ g = "known_hosts") \/ (i = at /\ g = f)
      BY <1>1, <1>6, <2>2 DEF HomeInv, HoldersInv
    <3>3. CASE pc' = "enter" /\ at' = at + 1
      BY <3>1, <3>2, <3>3
    <3>4. CASE pc' = "writeConfig" /\ f = "known_hosts" /\ at' = at
      BY <3>2, <3>4
    <3> QED
      BY <2>2, <3>3, <3>4
  <2> QED
    BY <1>1, <1>2, <2>1, <2>2 DEF HoldersInv
<1>12. ContentInv'
  <2> SUFFICES ASSUME NEW g \in HomeFile
               PROVE  /\ Owing(g)' # {} => content'[g] # Absent
                      /\ pc' # RecordOf(g) /\ content'[g] = Untouched(g)'
    BY DEF ContentInv
  <2>1. pc' # RecordOf(g)
    BY DEF RecordOf
  <2>2. CASE g = f
    <3>1. Holders(f) \cup {at} \in SUBSET SshStep /\ Holders(f) \cup {at} # {}
      BY <1>1 DEF Holders
    <3>2. content'[g] = Holders(f) \cup {at} /\ Untouched(g)' = Holders(f) \cup {at}
      BY <1>2, <1>6, <1>8, <1>9, <2>2, <3>1 DEF Untouched
    <3> QED
      BY <2>1, <3>1, <3>2, ContentFacts
  <2>3. CASE g # f
    <3>1. Owing(g)' = Owing(g) /\ Untouched(g)' = Untouched(g)
      BY <1>6, <1>8, <2>3 DEF Untouched
    <3> QED
      BY <1>2, <1>9, <2>1, <2>3, <3>1
  <2> QED
    BY <2>2, <2>3
<1> QED
  BY <1>3, <1>10, <1>11, <1>12 DEF HomeInv

(* What is written back is what the steps before this one have left.        *)
LEMMA RestoreHome ==
  ASSUME AgentTypeOK, SshTypeOK, HomeInv, Running("post", SshStep),
         NEW f \in HomeFile, NEW next, TryRestore(f, next), original' = original,
         \/ f = "known_hosts" /\ pc = "enter" /\ next = "restoreConfig"
         \/ f = "config" /\ pc = "restoreConfig" /\ next = "cleanSession"
  PROVE  HomeInv' /\ content' \in [HomeFile -> Contents]
<1>1. stage = "post" /\ at \in SshStep
  BY DEF Running
<1>2. read' = read /\ saved' = saved /\ located' = located /\ removed' = removed
  BY DEF TryRestore, homeVars
<1>3. /\ stage' # "pre"
      /\ \A g : Holders(g)' = Holders(g) /\ \A i : Before(g, i)' = Before(g, i)
  <2>1. stage' # "pre"
    <3>1. CASE FailAgain
      BY <1>1, <3>1, EndType, AdvanceFacts DEF Ends
    <3>2. CASE Continue(next)
      BY <1>1, <3>2 DEF Continue
    <3> QED
      BY <3>1, <3>2 DEF TryRestore
  <2> QED
    BY <1>2, <2>1 DEF Holders, Before
<1>4. SavedInv' /\ HoldersInv'
  BY <1>2, <1>3 DEF HomeInv, SavedInv, HoldersInv
<1>5. Restored(f) \in Contents
  <2>1. saved[at][f] \in Contents \cup {Unset} /\ content[f] \in Contents
    BY <1>1 DEF SshTypeOK
  <2> QED
    BY <2>1, ContentFacts DEF Restored
<1>6. content' \in [HomeFile -> Contents]
  BY <1>5 DEF TryRestore, SshTypeOK, homeVars
<1>7. ContentInv'
  <2> SUFFICES ASSUME removed' = {} PROVE ContentInv'
    BY DEF ContentInv
  <2>1. \A g \in HomeFile : Owing(g) # {} => content[g] # Absent
    BY <1>2 DEF HomeInv, ContentInv
  <2>2. Owed(f, at)
    BY <1>1 DEF Owed
  <2>3. ~(saved[at][f] = Absent /\ content[f] = Absent)
    <3>1. saved[at][f] = Absent => at \in Owing(f)
      BY <1>1, <2>2, ContentFacts DEF Owing, Holders
    <3> QED
      BY <2>1, <3>1
  <2>4. content' = [content EXCEPT ![f] = Restored(f)] /\ Continue(next)
    BY <2>3 DEF TryRestore
  <2>5. stage' = "post" /\ at' = at /\ pc' = next /\ killed' = killed
    BY <1>1, <2>4 DEF Continue
  <2>6. \A g \in HomeFile : content'[g] = IF g = f THEN Restored(f) ELSE content[g]
    BY <2>4 DEF SshTypeOK
  <2>7. ASSUME NEW g \in HomeFile
        PROVE  /\ Owing(g)' # {} => content'[g] # Absent
               /\ pc' # RecordOf(g)
               /\ /\ original'[g] # {} \/ stage' \in {"pre", "main"}
                  /\ RecordOf(g) \notin killed'
                  => content'[g] = Untouched(g)'
    <3>1. pc' # RecordOf(g) /\ pc # RecordOf(g)
      BY <2>5 DEF RecordOf
    <3>2. /\ original[g] # {} /\ RecordOf(g) \notin killed => content[g] = Untouched(g)
          /\ original[g] \in {Absent, {}, {0}}
      BY <1>2, <3>1 DEF HomeInv, ContentInv, SshTypeOK
    <3>3. CASE g # f \/ at \notin Holders(f)
      <4>1. ASSUME NEW i \in Holders(g) PROVE Owed(g, i)' <=> Owed(g, i)
        <5>1. CASE g # f
          <6>1. CASE f = "known_hosts"
            BY <1>1, <2>5, <5>1, <6>1 DEF Owed, HomeFile
          <6>2. CASE f = "config"
            BY <1>1, <2>5, <5>1, <6>2 DEF Owed, HomeFile
          <6> QED
            BY <6>1, <6>2 DEF HomeFile
        <5>2. CASE i # at
          BY <1>1, <2>5, <5>2 DEF Owed
        <5> QED
          BY <3>3, <5>1, <5>2
      <4>2. Owing(g)' = Owing(g) /\ Untouched(g)' = Untouched(g)
        BY <1>3, <4>1 DEF Owing, Untouched
      <4>3. content'[g] = content[g]
        <5>1. at \notin Holders(f) => saved[at][f] = Unset
          BY <1>1 DEF Holders
        <5>2. Unset # Absent
          BY ContentFacts
        <5> QED
          BY <2>6, <3>3, <5>1, <5>2 DEF Restored
      <4> QED
        BY <2>1, <2>5, <3>1, <3>2, <4>2, <4>3
    <3>4. CASE g = f /\ at \in Holders(f)
      <4>1. Owing(f)' = Before(f, at) /\ content[f] # Absent
        <5>1. \A i \in Holders(f) : Owed(f, i)' <=> i < at
          BY <1>1, <2>5 DEF Owed
        <5>2. at \in Owing(f)
          BY <2>2, <3>4 DEF Owing
        <5> QED
          BY <1>3, <2>1, <5>1, <5>2 DEF Owing, Before
      <4>2. saved[at][f] = IF Before(f, at) = {} THEN original[f] ELSE Before(f, at)
        BY <3>4 DEF HomeInv, SavedInv
      <4>3. CASE Before(f, at) = {}
        <5>1. original[f] # {} => Restored(f) = original[f]
          BY <3>2, <3>4, <4>2, <4>3, ContentFacts DEF Restored
        <5> QED
          BY <2>5, <2>6, <3>1, <3>4, <4>1, <4>3, <5>1 DEF Untouched
      <4>4. CASE Before(f, at) # {}
        <5>1. Before(f, at) \in SUBSET SshStep
          BY DEF Before, Holders
        <5>2. Restored(f) = Before(f, at) /\ Before(f, at) # Absent
          BY <4>2, <4>4, <5>1, ContentFacts DEF Restored
        <5> QED
          BY <2>5, <2>6, <3>1, <3>4, <4>1, <4>4, <5>2 DEF Untouched
      <4> QED
        BY <4>3, <4>4
    <3> QED
      BY <3>3, <3>4
  <2> QED
    BY <2>7 DEF ContentInv
<1> QED
  BY <1>4, <1>6, <1>7 DEF HomeInv

(* A script's removal of a file ends what is promised of the files.         *)
LEMMA ScriptHome ==
  ASSUME SshTypeOK, HomeInv, Script
  PROVE  SshTypeOK' /\ HomeInv' /\ SessionInv'
<1>1. PICK f \in HomeFile : /\ content' = [content EXCEPT ![f] = Absent]
                            /\ removed' = removed \cup {f}
  BY DEF Script
<1>2. stage = "main" /\ stage' = stage /\ saved' = saved /\ original' = original
  BY DEF Script
<1>3. content' \in [HomeFile -> Contents]
  BY <1>1, ContentFacts DEF SshTypeOK
<1>4. SshTypeOK'
  BY <1>1, <1>3 DEF Script, SshTypeOK, sessionVars
<1>5. SavedInv'
  BY <1>2 DEF HomeInv, SavedInv, Holders, Before
<1>6. removed' # {}
  BY <1>1
<1> QED
  BY <1>2, <1>4, <1>5, <1>6 DEF HomeInv, HoldersInv, ContentInv, SessionInv

(* A step that leaves the ssh agent alone.                                 *)
LEMMA SessionFrame ==
  ASSUME SshTypeOK, SessionInv, removed' = removed,
         UNCHANGED <<agent, keys, killSetting, deleteSetting, refused>>,
         killed \subseteq killed',
         removed = {} => \A i \in SshStep : Pending(i) => Pending(i)',
         pc \in {"recordAgent", "recordKey"} => pc \in killed'
  PROVE  SessionInv'
<1> SUFFICES ASSUME removed = {} PROVE SessionInv'
  BY DEF SessionInv
<1>1. ASSUME agent = "ours", "recordAgent" \notin killed'
      PROVE  \E i \in killSetting : Pending(i)' \/ i \in refused
  <2>1. PICK i \in killSetting : Pending(i) \/ i \in refused
    BY <1>1 DEF SessionInv
  <2>2. i \in SshStep
    BY DEF SshTypeOK
  <2> QED
    BY <2>1, <2>2
<1>2. ASSUME "recordKey" \notin killed', NEW i \in keys \ {0}
      PROVE  i \in refused \/ (Pending(i)' /\ i \in deleteSetting)
  <2>1. "recordKey" \notin killed /\ pc # "recordKey" /\ i \in SshStep
    BY <1>2 DEF SshTypeOK
  <2> QED
    BY <1>2, <2>1 DEF SessionInv
<1> QED
  BY <1>1, <1>2 DEF SessionInv

LEMMA SessionEnd ==
  ASSUME AgentTypeOK, SshTypeOK, SessionInv, removed' = removed,
         UNCHANGED <<agent, keys, killSetting, deleteSetting, refused>>,
         Ends,
         removed = {} => ~(stage = "post" /\ at \in SshStep),
         pc \in {"recordAgent", "recordKey"} => killed' = killed \cup {pc}
  PROVE  SessionInv'
<1>1. Advance /\ killed \subseteq killed'
  BY EndType
<1>2. ASSUME removed = {}, NEW i \in SshStep, Pending(i) PROVE Pending(i)'
  <2>1. i \in Step /\ ~(stage = "post" /\ i = at)
    BY <1>2, SshAssumption
  <2> QED
    BY <1>1, <1>2, <2>1, AdvanceFacts
<1> QED
  BY <1>1, <1>2, SessionFrame

LEMMA SessionContinue ==
  ASSUME SshTypeOK, SessionInv, removed' = removed,
         UNCHANGED <<agent, keys, killSetting, deleteSetting, refused>>,
         NEW call, Continue(call), pc \notin {"recordAgent", "recordKey"}
  PROVE  SessionInv'
<1>1. killed' = killed /\ \A i : Pending(i)' <=> Pending(i)
  BY DEF Continue, Pending
<1> QED
  BY <1>1, SessionFrame

-----------------------------------------------------------------------------
(* preinstallsshkey                                                        *)

LEMMA OrderEnd ==
  ASSUME AgentTypeOK, OrderInv, Ends
  PROVE  OrderInv'
<1>1. /\ pc' = "enter" /\ (failed => failed')
      /\ killed' # killed => failed'
  BY EndType
<1> QED
  BY <1>1 DEF OrderInv, InstallCall

LEMMA OrderContinue ==
  ASSUME AgentTypeOK, OrderInv, NEW call, Continue(call), config' = config,
         call \in InstallCall => ~failed,
         call \in {"writeConfig", "recordConfig"} => at \in config
  PROVE  OrderInv'
BY DEF OrderInv, Continue

LEMMA FailInstallInv ==
  ASSUME AgentTypeOK, SshTypeOK, SshInv, FailInstall, UNCHANGED <<config, original, refused>>,
         Running("pre", SshStep), pc \notin {"recordAgent", "recordKey", "recordHosts", "recordConfig"}
  PROVE  AgentTypeOK' /\ SshTypeOK' /\ SshInv'
<1>1. /\ Fail /\ Ends /\ UNCHANGED <<agent, keys, killSetting, deleteSetting, preserved>>
      /\ UNCHANGED <<homeVars, original>> /\ removed' = removed
  BY DEF FailInstall, homeVars, Ends
<1>2. AgentTypeOK'
  BY <1>1, EndType
<1>3. SshTypeOK'
  <2>1. keyFile' \subseteq SshStep
    BY DEF FailInstall, SshTypeOK, Running
  <2> QED
    BY <1>1, <2>1 DEF SshTypeOK, homeVars
<1>4. OrderInv'
  BY <1>1, OrderEnd DEF SshInv
<1>5. HomeInv'
  BY <1>1, HomeEnd DEF SshInv, Running
<1>6. SessionInv'
  BY <1>1, SessionEnd DEF SshInv, Running
<1> QED
  BY <1>2, <1>3, <1>4, <1>5, <1>6 DEF SshInv

(* A handler that goes on after changing what is kept for the session.      *)
LEMMA SessionStepInv ==
  ASSUME AgentTypeOK, SshTypeOK, SshInv, UNCHANGED <<config, original, refused, homeVars, preserved>>,
         Running("pre", SshStep), ~failed,
         NEW call \in {"runAgent", "recordAgent", "installKey", "recordKey", "addIdentities",
                      "writeHosts"},
         Continue(call),
         pc \notin {"recordHosts", "writeConfig", "recordConfig"},
         agent' \in {"none", "outer", "ours"}, keys' \subseteq SshStep \cup {0},
         killSetting \subseteq killSetting', killSetting' \subseteq SshStep,
         deleteSetting \subseteq deleteSetting', deleteSetting' \subseteq SshStep,
         keyFile' \subseteq SshStep,
         SessionInv'
  PROVE  AgentTypeOK' /\ SshTypeOK' /\ SshInv'
<1>1. AgentTypeOK'
  BY ContinueType DEF InstallCall, UninstallCall, NpmCall, Call
<1>2. SshTypeOK'
  BY DEF SshTypeOK, homeVars
<1>3. OrderInv'
  BY OrderContinue DEF SshInv
<1>4. HomeInv'
  BY HomeContinue DEF SshInv, Running
<1> QED
  BY <1>1, <1>2, <1>3, <1>4 DEF SshInv

LEMMA DownloadInv ==
  ASSUME AgentTypeOK, SshTypeOK, SshInv, Download, UNCHANGED <<config, original, refused>>
  PROVE  AgentTypeOK' /\ SshTypeOK' /\ SshInv'
<1>1. Running("pre", SshStep) /\ pc = "enter" /\ ~failed /\ at \in SshStep
  BY DEF Download, Running
<1>2. CASE FailInstall
  BY <1>1, <1>2, FailInstallInv
<1>3. CASE /\ keyFile' = keyFile \cup {at} /\ Continue("runAgent")
           /\ UNCHANGED <<agent, keys, killSetting, deleteSetting, preserved, homeVars>>
  <2>1. removed' = removed /\ keyFile' \subseteq SshStep
    BY <1>1, <1>3 DEF homeVars, SshTypeOK
  <2>2. SessionInv'
    BY <1>1, <1>3, <2>1, SessionContinue DEF SshInv
  <2> QED
    BY <1>1, <1>3, <2>1, <2>2, SessionStepInv DEF SshTypeOK
<1> QED
  BY <1>2, <1>3 DEF Download

LEMMA StartAgentInv ==
  ASSUME AgentTypeOK, SshTypeOK, SshInv, StartAgent, UNCHANGED <<config, original, refused>>
  PROVE  AgentTypeOK' /\ SshTypeOK' /\ SshInv'
<1>1. /\ Running("pre", SshStep) /\ pc = "runAgent" /\ ~failed /\ at \in SshStep
      /\ UNCHANGED <<keys, killSetting, deleteSetting, keyFile, preserved, homeVars>>
      /\ removed' = removed
  BY DEF StartAgent, AgentTypeOK, InstallCall, SshInv, OrderInv, Running, homeVars
<1>2. CASE Continue("recordAgent") /\ agent' = "ours"
  <2>1. /\ killed' = killed /\ pc' = "recordAgent" /\ at' = at
        /\ \A i : Pending(i)' <=> Pending(i)
    BY <1>2 DEF Continue, Pending
  <2>2. SessionInv'
    BY <1>1, <2>1 DEF SshInv, SessionInv
  <2> QED
    BY <1>1, <1>2, <2>2, SessionStepInv DEF SshTypeOK
<1>3. CASE Continue("installKey") /\ agent' = agent
  <2>1. SessionInv'
    BY <1>1, <1>3, SessionContinue DEF SshInv
  <2> QED
    BY <1>1, <1>3, <2>1, SessionStepInv DEF SshTypeOK
<1> QED
  BY <1>2, <1>3 DEF StartAgent

LEMMA RecordAgentInv ==
  ASSUME AgentTypeOK, SshTypeOK, SshInv, RecordAgent, UNCHANGED <<config, original, refused>>
  PROVE  AgentTypeOK' /\ SshTypeOK' /\ SshInv'
<1>1. /\ Running("pre", SshStep) /\ pc = "recordAgent" /\ ~failed /\ at \in SshStep
      /\ killSetting' = killSetting \cup {at} /\ Continue("installKey")
      /\ UNCHANGED <<agent, keys, deleteSetting, keyFile, preserved, homeVars>>
      /\ removed' = removed
  BY DEF RecordAgent, AgentTypeOK, InstallCall, SshInv, OrderInv, Running, homeVars
<1>2. /\ killed' = killed /\ pc' = "installKey" /\ at' = at
      /\ \A i : Pending(i)' <=> Pending(i)
  BY <1>1 DEF Continue, Pending
<1>3. Pending(at)'
  BY <1>1, <1>2 DEF Running, Pending
<1>4. SessionInv'
  BY <1>1, <1>2, <1>3 DEF SshInv, SessionInv
<1> QED
  BY <1>1, <1>4, SessionStepInv DEF SshTypeOK

LEMMA InstallKeyInv ==
  ASSUME AgentTypeOK, SshTypeOK, SshInv, InstallKey, UNCHANGED <<config, original, refused>>
  PROVE  AgentTypeOK' /\ SshTypeOK' /\ SshInv'
<1>1. /\ Running("pre", SshStep) /\ pc = "installKey" /\ ~failed /\ at \in SshStep
  BY DEF InstallKey, AgentTypeOK, InstallCall, SshInv, OrderInv, Running
<1>2. CASE FailInstall
  BY <1>1, <1>2, FailInstallInv
<1>3. CASE /\ keys' \in {keys, keys \cup {at}} /\ Continue("recordKey")
           /\ UNCHANGED <<agent, killSetting, deleteSetting, keyFile, preserved, homeVars>>
  <2>1. /\ killed' = killed /\ pc' = "recordKey" /\ at' = at /\ removed' = removed
        /\ \A i : Pending(i)' <=> Pending(i)
    BY <1>3 DEF Continue, Pending, homeVars
  <2>2. Pending(at)
    BY <1>1 DEF Running, Pending
  <2>3. SessionInv'
    BY <1>1, <1>3, <2>1, <2>2 DEF SshInv, SessionInv
  <2> QED
    BY <1>1, <1>3, <2>3, SessionStepInv DEF SshTypeOK
<1> QED
  BY <1>2, <1>3 DEF InstallKey, Added

LEMMA RecordKeyInv ==
  ASSUME AgentTypeOK, SshTypeOK, SshInv, RecordKey, UNCHANGED <<config, original, refused>>
  PROVE  AgentTypeOK' /\ SshTypeOK' /\ SshInv'
<1>1. /\ Running("pre", SshStep) /\ pc = "recordKey" /\ ~failed /\ at \in SshStep
      /\ UNCHANGED <<agent, keys, killSetting, preserved, homeVars>>
      /\ removed' = removed
  BY DEF RecordKey, AgentTypeOK, InstallCall, SshInv, OrderInv, Running, homeVars
<1>2. CASE /\ deleteSetting' = deleteSetting \cup {at} /\ Continue("addIdentities")
           /\ keyFile' = keyFile
  <2>1. /\ killed' = killed /\ pc' = "addIdentities"
        /\ \A i : Pending(i)' <=> Pending(i)
    BY <1>2 DEF Continue, Pending
  <2>2. SessionInv'
    BY <1>1, <1>2, <2>1 DEF SshInv, SessionInv
  <2> QED
    BY <1>1, <1>2, <2>2, SessionStepInv DEF SshTypeOK
<1>3. CASE /\ Abort /\ deleteSetting' = deleteSetting
           /\ keyFile' = IF at \in config THEN keyFile ELSE keyFile \ {at}
  <2>1. Ends /\ killed' = killed \cup {pc}
    BY <1>1, <1>3 DEF Ends, Abort
  <2>2. AgentTypeOK' /\ OrderInv'
    BY <2>1, EndType, OrderEnd DEF SshInv
  <2>3. SshTypeOK'
    BY <1>1, <1>3 DEF SshTypeOK, homeVars
  <2>4. HomeInv' /\ SessionInv'
    BY <1>1, <1>3, <2>1, HomeEnd, SessionEnd DEF SshInv, Running
  <2> QED
    BY <2>2, <2>3, <2>4 DEF SshInv
<1> QED
  BY <1>2, <1>3 DEF RecordKey

LEMMA AddIdentitiesInv ==
  ASSUME AgentTypeOK, SshTypeOK, SshInv, AddIdentities,
         UNCHANGED <<config, original, refused>>
  PROVE  AgentTypeOK' /\ SshTypeOK' /\ SshInv'
<1>1. /\ Running("pre", SshStep) /\ pc = "addIdentities" /\ ~failed /\ at \in SshStep
      /\ keys' \subseteq keys \cup {0} /\ Continue("writeHosts")
      /\ UNCHANGED <<agent, killSetting, deleteSetting, keyFile, preserved, homeVars>>
      /\ removed' = removed
  BY DEF AddIdentities, Added, AgentTypeOK, InstallCall, SshInv, OrderInv, Running, homeVars
<1>2. /\ killed' = killed /\ pc' = "writeHosts"
      /\ \A i : Pending(i)' <=> Pending(i)
  BY <1>1 DEF Continue, Pending
<1>3. SessionInv'
  BY <1>1, <1>2 DEF SshInv, SessionInv
<1>4. keys' \subseteq SshStep \cup {0}
  BY <1>1 DEF SshTypeOK
<1> QED
  BY <1>1, <1>3, <1>4, SessionStepInv DEF SshTypeOK

LEMMA WriteInv ==
  ASSUME AgentTypeOK, SshTypeOK, SshInv, UNCHANGED <<config, original, refused>>,
         NEW f \in HomeFile, Write(f, RecordOf(f)),
         pc = IF f = "known_hosts" THEN "writeHosts" ELSE "writeConfig"
  PROVE  AgentTypeOK' /\ SshTypeOK' /\ SshInv'
<1>1. Running("pre", SshStep) /\ ~failed /\ pc \notin {"recordAgent", "recordKey", "recordHosts", "recordConfig"}
  BY DEF AgentTypeOK, InstallCall, SshInv, OrderInv
<1>2. CASE FailInstall
  BY <1>1, <1>2, FailInstallInv
<1>3. CASE /\ read' = content[f] /\ content' = [content EXCEPT ![f] = Inserted(f)]
           /\ Continue(RecordOf(f)) /\ UNCHANGED <<saved, located, removed, sessionVars>>
  <2>1. AgentTypeOK'
    BY <1>1, <1>3, ContinueType DEF RecordOf, InstallCall, UninstallCall, NpmCall, Call
  <2>2. HomeInv' /\ content' \in [HomeFile -> Contents] /\ read' \in Contents
    BY <1>3, WriteHome DEF SshInv
  <2>3. SshTypeOK'
    BY <1>3, <2>2 DEF SshTypeOK, sessionVars
  <2>4. OrderInv'
    <3>1. RecordOf(f) = "recordConfig" => at \in config
      BY DEF RecordOf, SshInv, OrderInv
    <3> QED
      BY <1>1, <1>3, <3>1, OrderContinue DEF SshInv, RecordOf
  <2>5. SessionInv'
    BY <1>1, <1>3, SessionContinue DEF SshInv, sessionVars
  <2> QED
    BY <2>1, <2>2, <2>3, <2>4, <2>5 DEF SshInv
<1> QED
  BY <1>2, <1>3 DEF Write

LEMMA RecordInv ==
  ASSUME AgentTypeOK, SshTypeOK, SshInv, UNCHANGED <<config, original, refused>>,
         RecordHosts \/ RecordConfig
  PROVE  AgentTypeOK' /\ SshTypeOK' /\ SshInv'
<1>1. PICK f \in HomeFile : pc = RecordOf(f) /\ Record(f)
  BY DEF RecordHosts, RecordConfig, RecordOf, HomeFile
<1>2. /\ Running("pre", SshStep) /\ ~failed /\ stage = "pre" /\ at \in SshStep
      /\ pc \in {"recordHosts", "recordConfig"}
  BY <1>1 DEF AgentTypeOK, InstallCall, SshInv, OrderInv, RecordOf, Running
<1>3. /\ UNCHANGED <<agent, keys, killSetting, deleteSetting, refused>> /\ removed' = removed
      /\ content' = content /\ read' = read
      /\ located' = [located EXCEPT ![f] = TRUE]
  BY <1>1 DEF RecordHosts, RecordConfig, Record
<1>4. /\ keyFile' \subseteq SshStep /\ preserved' \subseteq config'
  <2>1. CASE RecordHosts
    BY <2>1 DEF RecordHosts, SshTypeOK
  <2>2. CASE RecordConfig
    BY <2>2 DEF RecordConfig, SshTypeOK, SshInv, OrderInv
  <2> QED
    BY <2>1, <2>2
<1>5. ASSUME saved' \in [SshStep -> [HomeFile -> Contents \cup {Unset}]] PROVE SshTypeOK'
  <2>1. located' \in [HomeFile -> BOOLEAN]
    BY <1>3 DEF SshTypeOK
  <2> QED
    BY <1>3, <1>4, <1>5, <2>1 DEF SshTypeOK
<1>6. CASE Succeed
  <2>1. AgentTypeOK' /\ pc' = "enter" /\ Advance /\ killed' = killed
    BY <1>6, EndType DEF Ends, Succeed
  <2>2. stage' \in {"pre", "main"} /\ (stage' = "pre" => at' = at + 1)
    BY <1>2, <2>1, AdvanceFacts
  <2>3. HomeInv' /\ saved' \in [SshStep -> [HomeFile -> Contents \cup {Unset}]]
    BY <1>1, <2>1, <2>2, RecordHome DEF SshInv
  <2>4. OrderInv'
    BY <1>6, OrderEnd DEF SshInv, Ends
  <2>5. SessionInv'
    BY <1>2, <1>3, <1>6, SessionEnd DEF SshInv, Ends
  <2> QED
    BY <1>5, <2>1, <2>3, <2>4, <2>5 DEF SshInv
<1>7. CASE RecordHosts /\ at \in config /\ Continue("writeConfig")
  <2>1. AgentTypeOK'
    BY <1>2, <1>7, ContinueType DEF InstallCall, UninstallCall, NpmCall, Call
  <2>2. stage' = "pre" /\ pc' = "writeConfig" /\ at' = at /\ killed' = killed
    BY <1>2, <1>7 DEF Continue
  <2>3. f = "known_hosts"
    BY <1>1, <1>7 DEF RecordHosts, RecordOf, HomeFile
  <2>4. HomeInv' /\ saved' \in [SshStep -> [HomeFile -> Contents \cup {Unset}]]
    BY <1>1, <2>2, <2>3, RecordHome DEF SshInv
  <2>5. OrderInv'
    BY <1>2, <1>7, OrderContinue DEF SshInv
  <2>6. SessionInv'
    BY <1>2, <1>3, <1>7, SessionContinue DEF SshInv
  <2> QED
    BY <1>5, <2>1, <2>4, <2>5, <2>6 DEF SshInv
<1> QED
  BY <1>6, <1>7 DEF RecordHosts, RecordConfig

-----------------------------------------------------------------------------
(* postinstallsshkey                                                       *)

LEMMA RestoreInv ==
  ASSUME AgentTypeOK, SshTypeOK, SshInv, UNCHANGED <<config, original>>,
         RestoreHosts \/ RestoreConfig
  PROVE  AgentTypeOK' /\ SshTypeOK' /\ SshInv'
<1>1. Running("post", SshStep) /\ stage = "post" /\ at \in SshStep
  BY DEF RestoreHosts, RestoreConfig, AgentTypeOK, UninstallCall, Running
<1>2. PICK f \in HomeFile, next \in UninstallCall :
        /\ TryRestore(f, next)
        /\ \/ f = "known_hosts" /\ pc = "enter" /\ next = "restoreConfig"
           \/ f = "config" /\ pc = "restoreConfig" /\ next = "cleanSession"
  BY DEF RestoreHosts, RestoreConfig, HomeFile, UninstallCall
<1>3. HomeInv' /\ content' \in [HomeFile -> Contents]
  BY <1>1, <1>2, RestoreHome DEF SshInv
<1>4. /\ read' = read /\ saved' = saved /\ located' = located /\ removed' = removed
      /\ UNCHANGED sessionVars
  BY <1>2 DEF TryRestore, homeVars
<1>5. SshTypeOK'
  BY <1>3, <1>4 DEF SshTypeOK, sessionVars
<1>6. CASE saved[at][f] = Absent /\ content[f] = Absent
  <2>1. FailAgain
    BY <1>2, <1>6 DEF TryRestore
  <2>2. removed # {}
    <3>1. at \in Owing(f)
      BY <1>1, <1>2, <1>6, ContentFacts DEF Owing, Owed, Holders
    <3> QED
      BY <1>6, <3>1 DEF SshInv, HomeInv, ContentInv
  <2>3. AgentTypeOK' /\ OrderInv'
    BY <2>1, EndType, OrderEnd DEF SshInv, Ends
  <2>4. SessionInv'
    BY <1>4, <2>2 DEF SessionInv
  <2> QED
    BY <1>3, <1>5, <2>3, <2>4 DEF SshInv
<1>7. CASE Continue(next)
  <2>1. AgentTypeOK'
    BY <1>1, <1>2, <1>7, ContinueType DEF InstallCall, UninstallCall, NpmCall, Call
  <2>2. OrderInv'
    BY <1>7, OrderContinue DEF SshInv, UninstallCall, InstallCall
  <2>3. SessionInv'
    BY <1>2, <1>4, <1>7, SessionContinue DEF SshInv, sessionVars
  <2> QED
    BY <1>3, <1>5, <2>1, <2>2, <2>3 DEF SshInv
<1> QED
  BY <1>2, <1>6, <1>7 DEF TryRestore

LEMMA CleanSessionInv ==
  ASSUME AgentTypeOK, SshTypeOK, SshInv, CleanSession, UNCHANGED <<config, original>>
  PROVE  AgentTypeOK' /\ SshTypeOK' /\ SshInv'
<1>1. /\ stage = "post" /\ at \in SshStep /\ pc = "cleanSession"
      /\ Ends /\ killed' = killed
      /\ UNCHANGED <<killSetting, deleteSetting, preserved, homeVars>> /\ removed' = removed
  BY DEF CleanSession, AgentTypeOK, UninstallCall, Running, homeVars, Ends, Succeed, Overlook
<1>2. AgentTypeOK' /\ pc' = "enter" /\ Advance
  BY <1>1, EndType
<1>3. \A i \in SshStep : i # at /\ Pending(i) => Pending(i)'
  <2>1. \A i \in SshStep : i \in Step
    BY SshAssumption
  <2> QED
    BY <1>2, <2>1, AdvanceFacts
<1>4. OrderInv' /\ HomeInv'
  BY <1>1, OrderEnd, HomeEnd DEF SshInv
<1>5. SshTypeOK'
  <2>1. /\ keyFile' \subseteq SshStep /\ keys' \subseteq SshStep \cup {0}
        /\ agent' \in {"none", "outer", "ours"}
        /\ refused' \subseteq killSetting \cup deleteSetting
    BY DEF CleanSession, SshTypeOK
  <2> QED
    BY <1>1, <2>1 DEF SshTypeOK, homeVars
<1>6. SessionInv'
  <2> SUFFICES ASSUME removed = {} PROVE SessionInv'
    BY <1>1 DEF SessionInv
  <2>1. /\ agent = "ours" => \/ "recordAgent" \in killed
                             \/ \E i \in killSetting : Pending(i) \/ i \in refused
        /\ "recordKey" \notin killed => \A i \in keys \ {0} :
                                          i \in refused \/ (Pending(i) /\ i \in deleteSetting)
    BY <1>1 DEF SshInv, SessionInv
  <2>2. keys \subseteq SshStep \cup {0} /\ killSetting \subseteq SshStep
    BY DEF SshTypeOK
  <2>3. CASE agent' = "none" /\ keys' = {}
    BY <2>3 DEF SessionInv
  <2>4. CASE /\ agent' = agent /\ keys' \subseteq keys /\ refused \subseteq refused'
             /\ at \notin killSetting \/ at \in refused'
             /\ at \in keys' => at \notin deleteSetting \/ at \in refused'
    <3>1. ASSUME agent' = "ours", "recordAgent" \notin killed
          PROVE  \E i \in killSetting' : Pending(i)' \/ i \in refused'
      <4>1. PICK i \in killSetting : Pending(i) \/ i \in refused
        BY <2>1, <2>4, <3>1
      <4>2. i \in SshStep
        BY <2>2
      <4> QED
        BY <1>1, <1>3, <2>4, <4>1, <4>2
    <3>2. ASSUME "recordKey" \notin killed, NEW i \in keys' \ {0}
          PROVE  i \in refused' \/ (Pending(i)' /\ i \in deleteSetting')
      <4>1. i \in SshStep /\ i \in keys
        BY <2>2, <2>4, <3>2
      <4>2. i \in refused \/ (Pending(i) /\ i \in deleteSetting)
        BY <2>1, <3>2, <4>1
      <4> QED
        BY <1>1, <1>3, <2>4, <3>2, <4>1, <4>2
    <3> QED
      BY <1>1, <3>1, <3>2 DEF SessionInv
  <2>5. \/ agent' = "none" /\ keys' = {}
        \/ /\ agent' = agent /\ keys' \subseteq keys /\ refused \subseteq refused'
           /\ at \notin killSetting \/ at \in refused'
           /\ at \in keys' => at \notin deleteSetting \/ at \in refused'
    BY DEF CleanSession
  <2> QED
    BY <2>3, <2>4, <2>5
<1> QED
  BY <1>2, <1>4, <1>5, <1>6 DEF SshInv

LEMMA SshTaskInv ==
  ASSUME AgentTypeOK, SshTypeOK, SshInv, SshTask
  PROVE  AgentTypeOK' /\ SshTypeOK' /\ SshInv'
<1>1. UNCHANGED <<config, original>>
  BY DEF SshTask
<1>2. CASE WriteHosts \/ WriteConfig
  <2>1. PICK f \in HomeFile :
          /\ Write(f, RecordOf(f))
          /\ pc = IF f = "known_hosts" THEN "writeHosts" ELSE "writeConfig"
    BY <1>2 DEF WriteHosts, WriteConfig, RecordOf, HomeFile
  <2>2. refused' = refused
    BY <1>2 DEF SshTask, InstallStep, UninstallStep, AgentTypeOK, WriteHosts, WriteConfig,
               RestoreHosts, RestoreConfig, CleanSession, InstallCall, Running
  <2> QED
    BY <1>1, <2>1, <2>2, WriteInv
<1> QED
  BY <1>1, <1>2, DownloadInv, StartAgentInv, RecordAgentInv, InstallKeyInv, RecordKeyInv,
     AddIdentitiesInv, RecordInv, RestoreInv, CleanSessionInv
  DEF SshTask, InstallStep, UninstallStep

-----------------------------------------------------------------------------
(* The job                                                                 *)

(* A step of the agent or of the other task.                               *)
LEMMA OtherEnd ==
  ASSUME AgentTypeOK, SshTypeOK, SshInv, UNCHANGED sshVars,
         Ends,
         stage = "post" => at \notin SshStep,
         pc \in {"recordAgent", "recordKey", "recordHosts", "recordConfig"}
           => killed' = killed \cup {pc}
  PROVE  AgentTypeOK' /\ SshTypeOK' /\ SshInv'
<1>1. UNCHANGED <<homeVars, original>> /\ removed' = removed
      /\ UNCHANGED <<agent, keys, killSetting, deleteSetting, refused>>
  BY DEF sshVars, homeVars, sessionVars
<1>2. AgentTypeOK' /\ OrderInv'
  BY EndType, OrderEnd DEF SshInv
<1>3. SshTypeOK'
  BY DEF SshTypeOK, sshVars, homeVars, sessionVars
<1>4. HomeInv'
  BY <1>1, HomeEnd DEF SshInv
<1>5. SessionInv'
  BY <1>1, SessionEnd DEF SshInv
<1> QED
  BY <1>2, <1>3, <1>4, <1>5 DEF SshInv

LEMMA OtherContinue ==
  ASSUME AgentTypeOK, SshTypeOK, SshInv, UNCHANGED sshVars,
         Running("main", NpmStep), NEW call \in NpmCall, Continue(call)
  PROVE  SshTypeOK' /\ SshInv'
<1>1. UNCHANGED <<homeVars, original>> /\ removed' = removed /\ config' = config
      /\ UNCHANGED <<agent, keys, killSetting, deleteSetting, refused>>
  BY DEF sshVars, homeVars, sessionVars
<1>2. stage = "main" /\ pc \notin InstallCall
  BY DEF Running, AgentTypeOK
<1>3. SshTypeOK'
  BY DEF SshTypeOK, sshVars, homeVars, sessionVars
<1>4. OrderInv'
  BY <1>1, OrderContinue DEF SshInv, NpmCall, InstallCall
<1>5. HomeInv'
  BY <1>1, <1>2, HomeContinue DEF SshInv, NpmCall, InstallCall
<1>6. SessionInv'
  BY <1>1, <1>2, SessionContinue DEF SshInv, InstallCall
<1> QED
  BY <1>3, <1>4, <1>5, <1>6 DEF SshInv

(* The steps of NpmAuthenticate continue a handler or end it.              *)
LEMMA NpmMoves ==
  ASSUME AgentTypeOK, NpmTask
  PROVE  \/ Running("main", NpmStep) /\ \E call \in NpmCall : Continue(call)
         \/ /\ Succeed \/ Fail \/ FailAgain
            /\ Running("main", NpmStep) \/ Running("post", NpmStep)
<1>1. CASE Authenticate
  BY <1>1 DEF Authenticate, NpmCall
<1>2. CASE Index
  BY <1>2 DEF Index, NpmCall, AgentTypeOK
<1>3. CASE Save
  BY <1>3 DEF Save, NpmCall, AgentTypeOK
<1>4. CASE Endpoints
  BY <1>4 DEF Endpoints, NpmCall, AgentTypeOK
<1>5. CASE Edit
  BY <1>5 DEF Edit, NpmCall, AgentTypeOK
<1>6. CASE Authenticated
  BY <1>6 DEF Authenticated, NpmCall, AgentTypeOK
<1>7. CASE CleanUp
  BY <1>7 DEF CleanUp
<1> QED
  BY <1>1, <1>2, <1>3, <1>4, <1>5, <1>6, <1>7 DEF NpmTask, AuthenticateStep

LEMMA NpmSshInv ==
  ASSUME AgentTypeOK, SshTypeOK, SshInv, NpmTask, UNCHANGED sshVars
  PROVE  SshTypeOK' /\ SshInv'
<1>1. CASE Running("main", NpmStep) /\ \E call \in NpmCall : Continue(call)
  BY <1>1, OtherContinue
<1>2. CASE /\ Succeed \/ Fail \/ FailAgain
           /\ Running("main", NpmStep) \/ Running("post", NpmStep)
  <2>1. at \notin SshStep /\ stage # "pre"
    BY <1>2, StepAssumption DEF Running
  <2>2. pc \notin {"recordAgent", "recordKey", "recordHosts", "recordConfig"}
    BY <2>1 DEF AgentTypeOK, InstallCall, Running
  <2> QED
    BY <1>2, <2>1, <2>2, OtherEnd DEF Ends
<1> QED
  BY <1>1, <1>2, NpmMoves

(* Nothing of NpmAuthenticate is lost when another handler moves.          *)
LEMMA NpmEnd ==
  ASSUME AgentTypeOK, NpmTypeOK, NpmInv, UNCHANGED npmVars,
         Ends,
         stage = "post" => at \notin NpmStep,
         pc = "save" => killed' = killed \cup {pc}
  PROVE  NpmTypeOK' /\ NpmInv'
<1>1. pc' = "enter" /\ Advance /\ killed \subseteq killed'
  BY EndType
<1>2. ASSUME NEW i \in NpmStep, Pending(i) PROVE Pending(i)'
  <2>1. i \in Step /\ ~(stage = "post" /\ i = at)
    BY NpmAssumption
  <2> QED
    BY <1>1, <1>2, <2>1, AdvanceFacts
<1>3. (stage' = "pre" => stage = "pre") /\ (stage' = "main" => stage \in {"pre", "main"})
  BY <1>1, AdvanceFacts DEF AgentTypeOK
<1> QED
  BY <1>1, <1>2, <1>3, NpmFrame DEF NpmCall

LEMMA SshMoves ==
  ASSUME AgentTypeOK, SshTask
  PROVE  /\ Running("pre", SshStep) \/ Running("post", SshStep)
         /\ \/ \E call \in InstallCall \cup UninstallCall : Continue(call)
            \/ Ends
<1> USE DEF Ends
<1>1. CASE Download
  BY <1>1 DEF Download, FailInstall, InstallCall
<1>2. CASE StartAgent \/ RecordAgent \/ AddIdentities
  BY <1>2 DEF StartAgent, RecordAgent, AddIdentities, InstallCall, AgentTypeOK
<1>3. CASE InstallKey
  BY <1>3 DEF InstallKey, FailInstall, InstallCall, AgentTypeOK
<1>4. CASE RecordKey
  BY <1>4 DEF RecordKey, InstallCall, AgentTypeOK
<1>5. CASE WriteHosts \/ WriteConfig
  BY <1>5 DEF WriteHosts, WriteConfig, Write, FailInstall, InstallCall, AgentTypeOK
<1>6. CASE RecordHosts \/ RecordConfig
  BY <1>6 DEF RecordHosts, RecordConfig, InstallCall, AgentTypeOK
<1>7. CASE RestoreHosts \/ RestoreConfig
  BY <1>7 DEF RestoreHosts, RestoreConfig, TryRestore, UninstallCall, AgentTypeOK
<1>8. CASE CleanSession
  BY <1>8 DEF CleanSession, UninstallCall, AgentTypeOK
<1> QED
  BY <1>1, <1>2, <1>3, <1>4, <1>5, <1>6, <1>7, <1>8 DEF SshTask, InstallStep, UninstallStep

LEMMA SshNpmInv ==
  ASSUME AgentTypeOK, NpmTypeOK, NpmInv, SshTask, UNCHANGED npmVars
  PROVE  NpmTypeOK' /\ NpmInv'
<1>1. /\ at \notin NpmStep /\ stage \in {"pre", "post"} /\ pc \notin NpmCall
  BY SshMoves, StepAssumption DEF Running, AgentTypeOK
<1>2. CASE \E call \in InstallCall \cup UninstallCall : Continue(call)
  <2>1. PICK call \in InstallCall \cup UninstallCall : Continue(call)
    BY <1>2
  <2>2. /\ pc' \notin NpmCall /\ killed' = killed /\ stage' = stage
        /\ \A i : Pending(i)' <=> Pending(i)
    BY <2>1 DEF Continue, Pending, InstallCall, UninstallCall, NpmCall
  <2> QED
    BY <1>1, <2>2, NpmFrame DEF NpmCall
<1>3. CASE Ends
  BY <1>1, <1>3, NpmEnd DEF NpmCall
<1> QED
  BY <1>2, <1>3, SshMoves

LEMMA ScriptInv ==
  ASSUME JobInv, Script
  PROVE  JobInv'
<1>1. /\ UNCHANGED <<stage, at, pc, failed, killed, config, npmVars>> /\ Fault
      /\ stage = "main"
  BY DEF Script
<1>2. AgentTypeOK'
  <2>1. faults' \in 0..MaxFaults
    BY <1>1, JobAssumption DEF JobInv, JobTypeOK, AgentTypeOK, Fault
  <2> QED
    BY <1>1, <2>1 DEF JobInv, JobTypeOK, AgentTypeOK, Running
<1>3. SshTypeOK' /\ HomeInv' /\ SessionInv'
  BY ScriptHome DEF JobInv, JobTypeOK, SshInv
<1>4. OrderInv'
  BY <1>1 DEF JobInv, SshInv, OrderInv
<1>5. pc \notin NpmCall
  BY DEF Script, JobInv, JobTypeOK, AgentTypeOK, Running
<1>6. NpmTypeOK' /\ NpmInv'
  <2>1. \A i : Pending(i)' <=> Pending(i)
    BY <1>1 DEF Pending
  <2> QED
    BY <1>1, <1>5, <2>1, NpmFrame DEF JobInv, JobTypeOK, NpmCall
<1> QED
  BY <1>2, <1>3, <1>4, <1>6 DEF JobInv, JobTypeOK, SshInv

LEMMA JobInit ==
  ASSUME Init
  PROVE  JobInv
<1>1. AgentTypeOK
  <2>1. /\ stage = "pre" /\ at = 1 /\ pc = "enter"
        /\ failed = FALSE /\ killed = {} /\ faults = 0
    BY DEF Init, InitJob
  <2>2. at \in Step /\ faults \in 0..MaxFaults
    BY <2>1, JobAssumption DEF Step
  <2> QED
    BY <2>1, <2>2 DEF AgentTypeOK, InstallCall, UninstallCall, NpmCall
<1> USE DEF Init, InitJob, InitSsh, InitNpm
<1>2. SshTypeOK
  <2>1. original \in [HomeFile -> {Absent, {}, {0}}] /\ content = original /\ read = {}
    OBVIOUS
  <2>2. original \in [HomeFile -> Contents] /\ read \in Contents
    BY <2>1, ContentFacts
  <2> QED
    BY <2>1, <2>2 DEF SshTypeOK
<1>3. Copies = {}
  BY DEF Copies, NoCopy
<1>4. NpmTypeOK
  BY <1>3 DEF NpmTypeOK, NoCopy
<1>5. NpmInv
  BY <1>3 DEF NpmInv, OriginalsKept, Recoverable, NpmCall
<1>6. \A f \in HomeFile : Holders(f) = {}
  BY DEF Holders
<1>7. HomeInv
  <2>1. \A f \in HomeFile : Owing(f) = {} /\ Untouched(f) = original[f]
    BY <1>6 DEF Owing, Untouched
  <2>2. \A f \in HomeFile : pc # RecordOf(f)
    BY DEF RecordOf
  <2>3. SavedInv /\ HoldersInv
    BY <1>6 DEF SavedInv, HoldersInv
  <2>4. ContentInv
    BY <2>1, <2>2 DEF ContentInv
  <2> QED
    BY <2>3, <2>4 DEF HomeInv
<1>8. OrderInv /\ SessionInv
  BY DEF OrderInv, SessionInv, InstallCall
<1> QED
  BY <1>1, <1>2, <1>4, <1>5, <1>7, <1>8 DEF JobInv, JobTypeOK, SshInv

LEMMA JobStutter ==
  ASSUME JobInv, UNCHANGED vars
  PROVE  JobInv'
<1>1. /\ UNCHANGED agentVars /\ UNCHANGED npmVars
      /\ UNCHANGED <<config, original, content, read, saved, located, removed>>
      /\ UNCHANGED sessionVars
  BY DEF vars, sshVars, homeVars
<1>2. AgentTypeOK' /\ SshTypeOK' /\ NpmTypeOK'
  BY <1>1 DEF JobInv, JobTypeOK, AgentTypeOK, SshTypeOK, NpmTypeOK, Running, agentVars,
              npmVars, sessionVars, Copies
<1>3. NpmInv'
  BY <1>1 DEF JobInv, NpmInv, OriginalsKept, Recoverable, Unharmed, Copies, File, Pending,
              agentVars, npmVars
<1>4. HomeInv'
  <2>1. /\ \A f : Holders(f)' = Holders(f) /\ \A i : Before(f, i)' = Before(f, i)
        /\ \A f, i : Owed(f, i)' <=> Owed(f, i)
    BY <1>1 DEF Holders, Before, Owed, agentVars
  <2>2. \A f : Owing(f)' = Owing(f) /\ Untouched(f)' = Untouched(f)
    BY <1>1, <2>1 DEF Owing, Untouched
  <2>3. SavedInv' /\ HoldersInv'
    BY <1>1, <2>1 DEF JobInv, SshInv, HomeInv, SavedInv, HoldersInv, agentVars
  <2>4. ContentInv'
    BY <1>1, <2>2 DEF JobInv, SshInv, HomeInv, ContentInv, agentVars
  <2> QED
    BY <2>3, <2>4 DEF HomeInv
<1>5. OrderInv' /\ SessionInv'
  BY <1>1 DEF JobInv, SshInv, OrderInv, SessionInv, Pending, agentVars, sessionVars
<1> QED
  BY <1>2, <1>3, <1>4, <1>5 DEF JobInv, JobTypeOK, SshInv

LEMMA JobStep ==
  ASSUME JobInv, [Next]_vars
  PROVE  JobInv'
<1> USE DEF JobInv, JobTypeOK
<1>1. CASE SshTask /\ UNCHANGED npmVars
  BY <1>1, SshTaskInv, SshNpmInv
<1>2. CASE NpmTask /\ UNCHANGED sshVars
  BY <1>2, NpmTaskInv, NpmSshInv
<1>3. CASE Skip
  <2>1. /\ Ends /\ UNCHANGED sshVars /\ UNCHANGED npmVars /\ pc = "enter"
        /\ stage = "post" => at \notin SshStep \cup NpmStep
    BY <1>3 DEF Skip, Ends
  <2> QED
    BY <2>1, OtherEnd, NpmEnd
<1>4. CASE Script
  BY <1>4, ScriptInv
<1>5. CASE Interrupt
  <2>1. /\ Ends /\ UNCHANGED sshVars /\ UNCHANGED npmVars /\ stage # "post"
        /\ killed' = killed \cup {pc}
    BY <1>5 DEF Interrupt, Kill, Abort, Ends
  <2> QED
    BY <2>1, OtherEnd, NpmEnd
<1>6. CASE UNCHANGED vars
  BY <1>6, JobStutter
<1> QED
  BY <1>1, <1>2, <1>3, <1>4, <1>5, <1>6 DEF Next

-----------------------------------------------------------------------------
(* The theorems                                                            *)

THEOREM JobInvariant == Spec => []JobInv
<1>1. Init => JobInv
  BY JobInit
<1>2. JobInv /\ [Next]_vars => JobInv'
  BY JobStep
<1> QED
  BY <1>1, <1>2, PTL DEF Spec

(* Each handler belongs to its step and stage, whatever the job is made of. *)
THEOREM JobTypeCorrect == Spec => []JobTypeOK
<1>1. JobInv => JobTypeOK
  BY DEF JobInv
<1> QED
  BY <1>1, JobInvariant, PTL

(* A job gives known_hosts and config back as they were: the steps undo     *)
(* what they have done in the opposite order, each to what the one before  *)
(* it has left.                                                            *)
THEOREM FilesRestored == Spec => []HomeRestored
<1>1. JobInv => HomeRestored
  <2> SUFFICES ASSUME JobInv, stage = "ended", removed = {}, NEW f \in HomeFile,
                      original[f] # {}, RecordOf(f) \notin killed
               PROVE  content[f] = original[f]
    BY DEF HomeRestored
  <2>1. Owing(f) = {}
    BY DEF Owing, Owed
  <2>2. pc # RecordOf(f)
    BY DEF JobInv, JobTypeOK, AgentTypeOK, Running, RecordOf, InstallCall
  <2> QED
    BY <2>1, <2>2 DEF JobInv, SshInv, HomeInv, ContentInv, Untouched
<1> QED
  BY <1>1, JobInvariant, PTL

(* No ssh agent and no key of the job outlive it, unless removing them was *)
(* refused or the handler was stopped before it had taken note of them.    *)
THEOREM SessionsCleaned == Spec => []SessionClean
<1>1. JobInv => SessionClean
  <2> SUFFICES ASSUME JobInv, stage = "ended", removed = {}
               PROVE  /\ agent = "ours" => \/ "recordAgent" \in killed
                                           \/ killSetting \cap refused # {}
                      /\ "recordKey" \notin killed => keys \subseteq refused \cup {0}
    BY DEF SessionClean
  <2>1. (\A i : ~Pending(i)) /\ pc # "recordAgent"
    BY DEF Pending, JobInv, JobTypeOK, AgentTypeOK, InstallCall, Running
  <2> QED
    BY <2>1 DEF JobInv, SshInv, SessionInv
<1> QED
  BY <1>1, JobInvariant, PTL

(* Every copy of an .npmrc file is the original.                           *)
THEOREM OriginalsAlwaysKept == Spec => []OriginalsKept
<1>1. JobInv => OriginalsKept
  BY DEF JobInv, NpmInv
<1> QED
  BY <1>1, JobInvariant, PTL

(* Every .npmrc file is given back when no step has failed by itself.       *)
THEOREM NpmrcsRestored == Spec => []NpmrcRestored
<1>1. JobInv => NpmrcRestored
  <2> SUFFICES ASSUME JobInv, stage = "ended", threw = {}, "save" \notin killed,
                      NEW f \in NpmFile
               PROVE  npmrc[f] = 0
    BY DEF NpmrcRestored
  <2>1. \A i : ~Pending(i)
    BY DEF Pending
  <2> QED
    BY <2>1 DEF JobInv, NpmInv, Unharmed, Recoverable
<1> QED
  BY <1>1, JobInvariant, PTL
=============================================================================
