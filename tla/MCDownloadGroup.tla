--------------------------- MODULE MCDownloadGroup ---------------------------
(* Instances of DownloadGroup for TLC. *)
EXTENDS DownloadGroup, TLC

CONSTANTS g1, g2, r1, r2, r3

(* Reporters are interchangeable: no action and no invariant names one. *)
ReporterSymmetry == Permutations(Reporters)
==============================================================================
