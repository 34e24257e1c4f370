-------------------------- MODULE MCDownloadSession --------------------------
(* Instances of DownloadSession for TLC. *)
EXTENDS DownloadSession, TLC

CONSTANTS t1, t2

(* Tasks are interchangeable: no action and no property names one. *)
TaskSymmetry == Permutations(Tasks)
==============================================================================
