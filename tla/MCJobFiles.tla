----------------------------- MODULE MCJobFiles -----------------------------
(* Two InstallSSHKey steps, a script and two NpmAuthenticate steps on two  *)
(* files.                                                                  *)
EXTENDS JobFiles, TLC

MCSshStep == {1, 2}
MCNpmStep == {4, 5}

FileSymmetry == Permutations(NpmFile)
=============================================================================
