------------------------------- MODULE JobFiles -------------------------------
(***************************************************************************)
(* A job with InstallSSHKey and NpmAuthenticate steps, which change files  *)
(* that are not the job's own and must give them back as they were.        *)
(***************************************************************************)
EXTENDS InstallSSHKey, NpmAuthenticate

ASSUME StepAssumption == SshStep \cap NpmStep = {}

vars == <<agentVars, sshVars, npmVars>>

(* Steps without a handler in this stage, and steps that are not run       *)
(* because an earlier one has failed.                                      *)
Skip ==
  /\ pc = "enter" /\ stage # "ended"
  /\ \/ stage = "pre" /\ (at \notin SshStep \/ failed)
     \/ stage = "main" /\ (at \notin NpmStep \/ failed)
     \/ stage = "post" /\ at \notin SshStep \cup NpmStep
  /\ Succeed
  /\ UNCHANGED <<sshVars, npmVars>>

Interrupt ==
  /\ Kill
  /\ UNCHANGED <<sshVars, npmVars>>

(* A script removes a file.                                                *)
Script ==
  /\ stage = "main" /\ at \notin SshStep \cup NpmStep
  /\ Fault
  /\ \E f \in HomeFile :
       /\ content[f] # Absent
       /\ content' = [content EXCEPT ![f] = Absent]
       /\ removed' = removed \cup {f}
  /\ UNCHANGED <<stage, at, pc, failed, killed, config, original, read, saved, located,
                 sessionVars, npmVars>>

Init == InitJob /\ InitSsh /\ InitNpm

Next ==
  \/ SshTask /\ UNCHANGED npmVars
  \/ NpmTask /\ UNCHANGED sshVars
  \/ Skip \/ Script
  \/ Interrupt

Spec == Init /\ [][Next]_vars

-----------------------------------------------------------------------------
(* Properties                                                              *)

InstallCall == {"runAgent", "recordAgent", "installKey", "recordKey", "addIdentities",
                "writeHosts", "recordHosts", "writeConfig", "recordConfig"}
UninstallCall == {"restoreConfig", "cleanSession"}
NpmCall == {"index", "save", "endpoints", "edit", "edited"}
Call == InstallCall \cup UninstallCall \cup NpmCall

AgentTypeOK ==
  /\ stage \in {"pre", "main", "post", "ended"} /\ at \in Step
  /\ pc \in {"enter"} \cup Call
  /\ failed \in BOOLEAN /\ killed \subseteq Call /\ faults \in 0..MaxFaults
  /\ pc \in InstallCall => Running("pre", SshStep)
  /\ pc \in UninstallCall => Running("post", SshStep)
  /\ pc \in NpmCall => Running("main", NpmStep)

SshTypeOK ==
  /\ config \subseteq SshStep
  /\ original \in [HomeFile -> {Absent, {}, {0}}]
  /\ content \in [HomeFile -> Contents] /\ read \in Contents
  /\ saved \in [SshStep -> [HomeFile -> Contents \cup {Unset}]]
  /\ located \in [HomeFile -> BOOLEAN] /\ removed \subseteq HomeFile
  /\ agent \in {"none", "outer", "ours"} /\ keys \subseteq SshStep \cup {0}
  /\ killSetting \subseteq SshStep /\ deleteSetting \subseteq SshStep
  /\ keyFile \subseteq SshStep /\ preserved \subseteq config
  /\ refused \subseteq killSetting \cup deleteSetting

NpmTypeOK ==
  /\ workingFile \in [NpmStep -> NpmFile]
  /\ npmrc \in [NpmFile -> {0} \cup NpmStep]
  /\ savePath \in BOOLEAN /\ directory \in BOOLEAN
  /\ copy \in [NpmFile -> {NoCopy, 0} \cup NpmStep]
  /\ Copies \subseteq index /\ index \subseteq NpmFile
  /\ directory \/ index = {}
  /\ threw \subseteq NpmStep

(* Each handler belongs to the step and stage it runs in, what is saved is *)
(* a content the files can have, and every copy is in the index.            *)
JobTypeOK == AgentTypeOK /\ SshTypeOK /\ NpmTypeOK

RecordOf(f) == IF f = "known_hosts" THEN "recordHosts" ELSE "recordConfig"

(* When the job ends, known_hosts and config are as they were, whatever     *)
(* failed, however many steps have changed them: unless they were empty,   *)
(* which the code takes for nothing saved, a script has removed a file, or *)
(* a handler was killed between writing a file and saving what it had read. *)
HomeRestored ==
  stage = "ended" /\ removed = {} =>
    \A f \in HomeFile : original[f] # {} /\ RecordOf(f) \notin killed
                          => content[f] = original[f]

(* When the job ends, an agent it started lives on only if killing it was   *)
(* refused, or a handler was stopped between starting and recording it; and *)
(* no agent, the job's or another, holds the key of a step whose cleaning  *)
(* up was not refused, unless a handler was stopped between adding a key   *)
(* and recording it, or a script has removed a file.  The user's default   *)
(* identities (0) are excepted: those ssh-add has added to an agent that   *)
(* was there before stay in it.                                            *)
SessionClean ==
  stage = "ended" /\ removed = {} =>
    /\ agent = "ours" => "recordAgent" \in killed \/ killSetting \cap refused # {}
    /\ "recordKey" \notin killed => keys \subseteq refused \cup {0}

(* What a job keeps to restore a file from is always the original, also    *)
(* when an earlier step has failed or was killed.                          *)
OriginalsKept == \A f \in NpmFile : copy[f] \in {NoCopy, 0}

(* When the job ends, the .npmrc files are as they were, if none of its     *)
(* steps failed by itself, which removes the copies of all the others, and *)
(* none was killed between writing the index and the copy.                 *)
NpmrcRestored ==
  stage = "ended" /\ threw = {} /\ "save" \notin killed
    => \A f \in NpmFile : npmrc[f] = 0
=============================================================================
