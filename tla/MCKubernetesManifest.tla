------------------------ MODULE MCKubernetesManifest ------------------------
(***************************************************************************)
(* The apps are interchangeable.                                           *)
(***************************************************************************)
EXTENDS KubernetesManifest, TLC

AppSymmetry == Permutations(App)
=============================================================================
