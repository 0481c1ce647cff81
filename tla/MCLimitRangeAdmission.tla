----------------------- MODULE MCLimitRangeAdmission -----------------------
(* The instances of LimitRangeAdmission that TLC checks. *)
EXTENDS LimitRangeAdmission, TLC

Symmetry == Permutations(LimitRanges) \cup Permutations(Containers)
=============================================================================
