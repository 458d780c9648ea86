---------------------------- MODULE InstallSSHKey ----------------------------
(***************************************************************************)
(* The InstallSSHKey task: its pre-job handler gives a key to the ssh      *)
(* agent and adds an entry to known_hosts and, if asked to, to the ssh     *)
(* configuration; its post-job handler restores them.  What is saved is    *)
(* kept in variables of the step, whether a file was changed before in a   *)
(* variable of the job.                                                    *)
(***************************************************************************)
EXTENDS AgentJob

CONSTANTS
  SshStep       \* the job's steps that are InstallSSHKey

ASSUME SshAssumption == SshStep \subseteq Step

VARIABLES
  config,       \* steps with task input addEntryToConfig
  original,     \* the files when the job began
  content,      \* the files
  read,         \* what a running handler has read
  saved,        \* step's variables *_CONTENTS and *_FILE_DELETE
  located,      \* job's variables *_LOCATION
  agent,        \* the ssh agent: none, outer (not the job's) or ours
  keys,         \* steps whose key it holds; 0: the user's default identities
  killSetting,  \* step's variable INSTALL_SSH_KEY_KILL_SSH_AGENT_PID
  deleteSetting,\* step's variable INSTALL_SSH_KEY_DELETE_KEY
  keyFile,      \* steps whose private key lies in the agent's directory
  preserved,    \* step's variable INSTALL_SSH_KEY_PRESERVED_KEY_FILE_ID
  refused,      \* steps whose kill or ssh-add -d had no effect (history)
  removed       \* files a script of the job has removed

homeVars == <<content, read, saved, located, removed>>
sessionVars == <<agent, keys, killSetting, deleteSetting, keyFile, preserved, refused>>
sshVars == <<config, original, homeVars, sessionVars>>

HomeFile == {"known_hosts", "config"}

(* A file is the steps that have written to it; 0 stands for what was there *)
(* before the job.                                                         *)
Absent == {-1}
Unset == {-2}
Contents == {Absent} \cup SUBSET (0..Steps)

-----------------------------------------------------------------------------
(* preinstallsshkey                                                        *)

FailInstall ==
  /\ Fail
  /\ keyFile' = IF at \in config THEN keyFile \cup {at} ELSE keyFile \ {at}
  /\ UNCHANGED <<agent, keys, killSetting, deleteSetting, preserved, homeVars>>

Download ==
  /\ Running("pre", SshStep) /\ pc = "enter" /\ ~failed
  /\ \/ FailInstall
     \/ /\ keyFile' = keyFile \cup {at}
        /\ Continue("runAgent")
        /\ UNCHANGED <<agent, keys, killSetting, deleteSetting, preserved, homeVars>>

(* SSH_AGENT_PID and SSH_AUTH_SOCK are set.                                *)
AgentKnown == agent = "outer" \/ killSetting # {}

(* ssh-agent may not start: its exit code is not looked at either.         *)
StartAgent ==
  /\ pc = "runAgent"
  /\ \/ /\ AgentKnown
        /\ Continue("installKey") /\ UNCHANGED agent
     \/ /\ ~AgentKnown
        /\ agent' = "ours" /\ Continue("recordAgent")
     \/ /\ ~AgentKnown
        /\ Continue("installKey") /\ UNCHANGED agent
  /\ UNCHANGED <<keys, killSetting, deleteSetting, keyFile, preserved, homeVars>>

(* Mutant: the agent's process id is not kept for the post-job handler. *)
RecordAgentForgotten ==
  /\ pc = "recordAgent"
  /\ Continue("installKey")
  /\ UNCHANGED <<agent, killSetting, keys, deleteSetting, keyFile, preserved, homeVars>>

RecordAgent ==
  /\ pc = "recordAgent"
  /\ killSetting' = killSetting \cup {at}
  /\ Continue("installKey")
  /\ UNCHANGED <<agent, keys, deleteSetting, keyFile, preserved, homeVars>>

(* What ssh-add can make of the keys of the agent: neither its exit code   *)
(* nor its output is looked at.                                            *)
Added(k) == IF agent = "none" THEN {keys} ELSE {keys, keys \cup {k}}

InstallKey ==
  /\ pc = "installKey"
  /\ \/ FailInstall
     \/ /\ keys' \in Added(at)
        /\ Continue("recordKey")
        /\ UNCHANGED <<agent, killSetting, deleteSetting, keyFile, preserved, homeVars>>

(* The mode of the key's file is set back first, which can fail.           *)
RecordKey ==
  /\ pc = "recordKey"
  /\ \/ /\ Abort
        /\ keyFile' = IF at \in config THEN keyFile ELSE keyFile \ {at}
        /\ UNCHANGED deleteSetting
     \/ /\ deleteSetting' = deleteSetting \cup {at}
        /\ Continue("addIdentities") /\ UNCHANGED keyFile
  /\ UNCHANGED <<agent, keys, killSetting, preserved, homeVars>>

(* ssh-add without a file adds the default identities.                     *)
AddIdentities ==
  /\ pc = "addIdentities"
  /\ keys' \in Added(0)
  /\ Continue("writeHosts")
  /\ UNCHANGED <<agent, killSetting, deleteSetting, keyFile, preserved, homeVars>>

Inserted(f) ==
  IF located[f] /\ content[f] # Absent THEN content[f] \cup {at} ELSE {at}

Write(f, next) ==
  \/ FailInstall
  \/ /\ read' = content[f]
     /\ content' = [content EXCEPT ![f] = Inserted(f)]
     /\ Continue(next)
     /\ UNCHANGED <<saved, located, removed, sessionVars>>

(* Mutant: the file is read after it was written. *)
RecordWritten(f) ==
  /\ saved' = [saved EXCEPT ![at][f] = content[f]]
  /\ located' = [located EXCEPT ![f] = TRUE]
  /\ UNCHANGED <<content, read, removed>>

Record(f) ==
  /\ saved' = [saved EXCEPT ![at][f] = read]
  /\ located' = [located EXCEPT ![f] = TRUE]
  /\ UNCHANGED <<content, read, removed>>

WriteHosts == pc = "writeHosts" /\ Write("known_hosts", "recordHosts")

RecordHosts ==
  /\ pc = "recordHosts"
  /\ Record("known_hosts")
  /\ IF at \in config
     THEN Continue("writeConfig") /\ UNCHANGED keyFile
     ELSE Succeed /\ keyFile' = keyFile \ {at}
  /\ UNCHANGED <<agent, keys, killSetting, deleteSetting, preserved>>

WriteConfig == pc = "writeConfig" /\ Write("config", "recordConfig")

RecordConfig ==
  /\ pc = "recordConfig"
  /\ Record("config")
  /\ preserved' = preserved \cup {at}
  /\ Succeed
  /\ UNCHANGED <<agent, keys, killSetting, deleteSetting, keyFile>>

-----------------------------------------------------------------------------
(* postinstallsshkey                                                       *)

(* Mutant: whatever the variable holds is written. *)
RestoredAnything(f) == saved[at][f]

Restored(f) ==
  IF saved[at][f] = Absent THEN Absent
  ELSE IF saved[at][f] \notin {Unset, {}} THEN saved[at][f]
  ELSE content[f]

(* A file that cannot be removed ends the handler.                         *)
TryRestore(f, next) ==
  IF saved[at][f] = Absent /\ content[f] = Absent
  THEN FailAgain /\ UNCHANGED <<homeVars, sessionVars>>
  ELSE /\ content' = [content EXCEPT ![f] = Restored(f)]
       /\ Continue(next)
       /\ UNCHANGED <<read, saved, located, removed, sessionVars>>

RestoreHosts ==
  /\ Running("post", SshStep) /\ pc = "enter"
  /\ TryRestore("known_hosts", "restoreConfig")

RestoreConfig == pc = "restoreConfig" /\ TryRestore("config", "cleanSession")

(* The agent the step has started is killed, or else its key removed; that *)
(* either has failed is not noticed.                                       *)
CleanSession ==
  /\ pc = "cleanSession"
  /\ \/ /\ IF at \in killSetting THEN agent' = "none" /\ keys' = {}
           ELSE /\ keys' = IF at \in deleteSetting THEN keys \ {at} ELSE keys
                /\ UNCHANGED agent
        /\ Succeed /\ UNCHANGED refused
     \/ /\ at \in killSetting \cup deleteSetting
        /\ Overlook /\ refused' = refused \cup {at} /\ UNCHANGED <<agent, keys>>
  /\ keyFile' = IF at \in preserved THEN keyFile \ {at} ELSE keyFile
  /\ UNCHANGED <<killSetting, deleteSetting, preserved, homeVars>>

-----------------------------------------------------------------------------
InstallStep ==
  /\ \/ Download \/ StartAgent \/ RecordAgent
     \/ InstallKey \/ RecordKey \/ AddIdentities
     \/ WriteHosts \/ RecordHosts \/ WriteConfig \/ RecordConfig
  /\ UNCHANGED refused

UninstallStep == RestoreHosts \/ RestoreConfig \/ CleanSession

SshTask == (InstallStep \/ UninstallStep) /\ UNCHANGED <<config, original>>

InitSsh ==
  /\ config \in SUBSET SshStep
  /\ original \in [HomeFile -> {Absent, {}, {0}}]
  /\ content = original
  /\ read = {}
  /\ saved = [i \in SshStep |-> [f \in HomeFile |-> Unset]]
  /\ located = [f \in HomeFile |-> FALSE]
  /\ agent \in {"none", "outer"} /\ keys \in (IF agent = "none" THEN {{}} ELSE {{}, {0}})
  /\ killSetting = {} /\ deleteSetting = {}
  /\ keyFile = {} /\ preserved = {} /\ removed = {} /\ refused = {}
=============================================================================
