--------------------------- MODULE MCPodDiagnosis ---------------------------
(* The instances of PodDiagnosis that TLC checks.                           *)
EXTENDS PodDiagnosis

EveryTrouble ==
    {"oomkilled", "app-error", "no-reason", "liveness-probe", "readiness-probe",
     "invalid-reference", "tag-not-found", "unauthorized", "other-pull",
     "missing-secret", "other-config", "missing-configmap", "other-mount",
     "insufficient-resources", "unbound-pvc", "other-placement"}
=============================================================================
