----------------------------- MODULE NodeChecks -----------------------------
(***************************************************************************)
(* The checks that ask whether the Pods of a workload fit on the nodes of  *)
(* the cluster and may be evicted from them: scheduling.go,                *)
(* nodecapacity.go, pdb.go, pdbdaemonset.go and pdbeviction.go of          *)
(* internal/check.  Each is a function of what it reads: the nodes and     *)
(* which of them are cordoned, the PodDisruptionBudgets and the status of  *)
(* one, and the workload as it was resolved.  NodeDrain reads them one     *)
(* after the other from a cluster that changes.                            *)
(*                                                                         *)
(* A node is [zone, pool, tainted, cpu]: its value of the one topology key *)
(* the constraints name, whether it matches the nodeSelector and the       *)
(* required node affinity, whether it has a NoSchedule or NoExecute taint  *)
(* the Pods do not tolerate, and its allocatable CPU.                      *)
(***************************************************************************)
EXTENDS Integers, Sequences, FiniteSets, FiniteSetsExt

CONSTANTS
    Unset      \* a label, an allocatable resource or a field that is not there

ASSUME UnsetAssumption == Unset \notin Int

\* A workload: its kind and replicas; whether it is to Recreate; maxSurge and
\* maxUnavailable, resolved; whether it has node constraints and required
\* anti-affinity to its own Pods; its topologySpreadConstraints; the CPU one
\* Pod requests, a copied limit included; whether the default scheduler is to
\* place its Pods; and the PodDisruptionBudgets that select them.
IsIntOrPercent(v) == v \in [percent : BOOLEAN, value : Nat]
IsSpread(s) ==
    /\ s \in [skew : Nat, minDomains : Nat \ {0}, hard : BOOLEAN, ignoresSelector : BOOLEAN]
IsBudget(b) ==
    /\ DOMAIN b = {"minAvailable", "maxUnavailable"}
    /\ \A f \in DOMAIN b : b[f] = Unset \/ IsIntOrPercent(b[f])
IsNode(n) ==
    /\ n.pool \in BOOLEAN /\ n.tainted \in BOOLEAN
    /\ n.cpu = Unset \/ n.cpu \in Nat
IsWorkload(w) ==
    /\ w.kind \in {"Deployment", "StatefulSet", "DaemonSet"}
    /\ w.replicas \in Nat /\ w.surge \in Nat /\ w.unavailable \in Nat /\ w.cpu \in Nat
    /\ w.recreate \in BOOLEAN /\ w.selector \in BOOLEAN /\ w.anti \in BOOLEAN
    /\ w.defaultScheduler \in BOOLEAN
    /\ \A s \in w.spreads : IsSpread(s)
    /\ Len(w.budgets) \in Nat /\ DOMAIN w.budgets = 1..Len(w.budgets)
    /\ \A i \in DOMAIN w.budgets : IsBudget(w.budgets[i])

\* A Result: Skipped, or the Findings as severity and cause.
Found(fs) == [skipped |-> FALSE, findings |-> fs]
Ok == Found({})
Skip == [skipped |-> TRUE, findings |-> {}]
Finding(severity, cause) == [severity |-> severity, cause |-> cause]

-----------------------------------------------------------------------------
(* The nodes.                                                               *)

\* candidateNodes: allCandidates by label alone, candidates without the cordoned.
AllCandidates(nodes, w) == {n \in DOMAIN nodes : w.selector => nodes[n].pool}
Candidates(nodes, cordoned, w) == AllCandidates(nodes, w) \ cordoned

Domains(nodes, ns) == {nodes[n].zone : n \in ns} \ {Unset}
AntiAffinityDomains(nodes, ns) == Domains(nodes, {n \in ns : ~nodes[n].tainted})

\* Mutant: the replicas alone.
CapacityInfeasibleAtRest(capacity, w) == capacity < w.replicas

\* Mutant: the peak of the surge even when Pods may be missing.
CapacityInfeasibleAtPeak(capacity, w) == capacity < w.replicas + w.surge

\* capacityInfeasible: short of the replicas, or of the peak of the surge when
\* no Pod may be missing meanwhile.
CapacityInfeasible(capacity, w) ==
    \/ capacity < w.replicas
    \/ w.surge > 0 /\ ~w.recreate /\ w.unavailable = 0 /\ capacity < w.replicas + w.surge

\* spreadCapacity: without a limit once minDomains is reached.
SpreadInfeasible(domains, s, w) ==
    domains < s.minDomains /\ CapacityInfeasible(domains * s.skew, w)

\* A shortage that uncordoning would end is Medium.
Demoted(live, all, cause) ==
    IF ~live THEN {} ELSE {Finding(IF all THEN "high" ELSE "medium", cause)}

EvaluateSpreadConstraint(nodes, cordoned, w, s) ==
    LET live == Cardinality(Domains(nodes, Candidates(nodes, cordoned, w)))
        all == Cardinality(Domains(nodes, AllCandidates(nodes, w)))
    IN  IF s.skew = 0 \/ (s.ignoresSelector /\ w.selector) THEN {}
        ELSE IF s.hard
        THEN Demoted(SpreadInfeasible(live, s, w), SpreadInfeasible(all, s, w), "spread")
        ELSE IF live = 0 THEN {Finding("low", "dead")} ELSE {}

EvaluateAntiAffinityTerm(nodes, cordoned, w) ==
    LET infeasible(ns) ==
            CapacityInfeasible(Cardinality(AntiAffinityDomains(nodes, ns)), w)
    IN  IF \E n \in AllCandidates(nodes, w) : nodes[n].zone = Unset THEN {}
        ELSE Demoted(infeasible(Candidates(nodes, cordoned, w)),
                     infeasible(AllCandidates(nodes, w)), "antiAffinity")

\* SchedulingConstraintsFeasibility.Run, with the list of nodes answered.
SchedulingConstraintsFeasibility(nodes, cordoned, w) ==
    LET all == AllCandidates(nodes, w)
        live == Candidates(nodes, cordoned, w)
        constrained == w.spreads # {} \/ w.anti
        idle == w.replicas = 0 \/ ~(constrained \/ w.selector) \/ ~w.defaultScheduler
    IN  IF w.kind = "DaemonSet" THEN Skip
        ELSE IF idle THEN Ok
        ELSE IF DOMAIN nodes = {} THEN Skip
        ELSE IF all = {} THEN Found({Finding("high", "noMatch")})
        ELSE IF constrained THEN
             Found((UNION {EvaluateSpreadConstraint(nodes, cordoned, w, s) : s \in w.spreads})
                   \cup (IF w.anti THEN EvaluateAntiAffinityTerm(nodes, cordoned, w) ELSE {}))
        ELSE IF live = {} THEN Found({Finding("medium", "cordoned")})
        ELSE IF \A n \in live : nodes[n].tainted THEN Found({Finding("high", "tainted")})
        ELSE Ok

\* NodeCapacityFeasibility.Run, likewise: the request against the largest candidate.
NodeCapacityFeasibility(nodes, cordoned, w) ==
    LET ns == IF w.kind = "DaemonSet" THEN AllCandidates(nodes, w)
              ELSE Candidates(nodes, cordoned, w)
        allocatable == {nodes[n].cpu : n \in ns} \ {Unset}
    IN  IF w.cpu = 0 \/ ~w.defaultScheduler THEN Ok
        ELSE IF DOMAIN nodes = {} THEN Skip
        ELSE IF ns = {} THEN Ok
        ELSE IF allocatable = {} THEN Skip
        ELSE IF w.cpu > Max(allocatable) THEN Found({Finding("high", "capacity")})
        ELSE Ok

-----------------------------------------------------------------------------
(* The PodDisruptionBudgets.                                                *)

Budgets(w) == {w.budgets[i] : i \in DOMAIN w.budgets}

ScaledUp(v, n) == IF v.percent THEN (v.value * n + 99) \div 100 ELSE v.value
ScaledDown(v, n) == IF v.percent THEN (v.value * n) \div 100 ELSE v.value

\* Mutant: rounded down.
AllowedDisruptionsRoundedDown(b, replicas) ==
    IF b.minAvailable # Unset THEN Max({0, replicas - ScaledDown(b.minAvailable, replicas)})
    ELSE IF b.maxUnavailable # Unset THEN ScaledDown(b.maxUnavailable, replicas)
    ELSE Unset

\* allowedDisruptions, both fields rounded up; Unset when there is neither.
AllowedDisruptions(b, replicas) ==
    IF b.minAvailable # Unset THEN Max({0, replicas - ScaledUp(b.minAvailable, replicas)})
    ELSE IF b.maxUnavailable # Unset THEN ScaledUp(b.maxUnavailable, replicas)
    ELSE Unset

\* PDBConsistency.Run
PDBConsistency(w) ==
    LET verdict(b) ==
            LET allowed == AllowedDisruptions(b, w.replicas)
            IN  IF allowed = Unset THEN {}
                ELSE IF allowed = 0 THEN {Finding("high", "noHeadroom")}
                ELSE IF w.recreate /\ allowed < w.replicas THEN {Finding("high", "recreate")}
                ELSE {}
    IN  IF w.replicas = 0 THEN Ok
        ELSE IF w.budgets = <<>> /\ w.replicas > 1 THEN Found({Finding("low", "noBudget")})
        ELSE Found(UNION {verdict(b) : b \in Budgets(w)})

\* Whether the disruption controller can reckon with the budget of a DaemonSet.
Unverifiable(b) ==
    \/ b.maxUnavailable # Unset
    \/ b.minAvailable # Unset /\ b.minAvailable.percent

\* Mutant: budgets of any workload.
PDBDaemonsetScaleAnyKind(w, syncFailed) ==
    Found({Finding(IF syncFailed THEN "high" ELSE "medium", "unverifiable") :
           b \in {c \in Budgets(w) : Unverifiable(c)}})

\* PDBDaemonsetScale.Run: High once the controller has said so.
PDBDaemonsetScale(w, syncFailed) ==
    IF w.kind # "DaemonSet" \/ w.replicas = 0 THEN Ok
    ELSE Found({Finding(IF syncFailed THEN "high" ELSE "medium", "unverifiable") :
                b \in {c \in Budgets(w) : Unverifiable(c)}})

\* PDBEvictionBlocked.Run: more than one budget, or one whose status, current and
\* with no eviction under way, allows nothing although the rollout was complete.
PDBEvictionBlocked(w, status, complete) ==
    IF w.replicas = 0 THEN Ok
    ELSE IF Len(w.budgets) > 1 THEN Found({Finding("high", "several")})
    ELSE Found({Finding("medium", "notNow") :
                b \in {c \in Budgets(w) :
                        /\ status.observed /\ status.allowed = 0 /\ ~status.disrupted /\ complete
                        /\ AllowedDisruptions(c, w.replicas) \notin {0, Unset}}})
=============================================================================
