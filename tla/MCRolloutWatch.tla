--------------------------- MODULE MCRolloutWatch ---------------------------
(* The instance of RolloutWatch that TLC checks: the pods are model values, *)
(* which no action tells apart.                                             *)
EXTENDS RolloutWatch, TLC

CONSTANTS u1, u2

PodSymmetry == Permutations(Pods)
=============================================================================
