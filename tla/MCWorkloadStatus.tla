-------------------------- MODULE MCWorkloadStatus --------------------------
(* The instances of WorkloadStatus that TLC checks.                         *)
EXTENDS WorkloadStatus

NoPartition == {Unset}

AnyPartition == {Unset, 0, 1, 3}
=============================================================================
