----------------------------- MODULE NodeDrain ------------------------------
(***************************************************************************)
(* A rollout on a cluster whose nodes are being cordoned and drained, and  *)
(* the checks of NodeChecks that were asked about it beforehand, each with *)
(* a list of its own.  Pods of the old and of the new template are         *)
(* counted, not named.  The workload controller, the scheduler, the        *)
(* disruption controller, the eviction API and the operator of the nodes   *)
(* are external.                                                           *)
(*                                                                         *)
(* A Pod that is placed is available: what keeps it from becoming ready is *)
(* not a matter of nodes.  Of the resources of a node only its whole       *)
(* allocatable counts, never what other Pods left of it: that is all the   *)
(* check claims to look at.                                                *)
(***************************************************************************)
EXTENDS NodeChecks

CONSTANTS
    Nodes,
    Scenarios,       \* [nodes, cordoned, workload]: what the cluster and the workload may be
    MaxOperations,   \* bound: cordons, uncordons and drains begun
    NoNode

Revisions == {"old", "new"}
Checks == {"pdb", "daemonset", "eviction", "scheduling", "capacity"}

ASSUME ScenariosAssumption ==
    /\ IsFiniteSet(Nodes) /\ NoNode \notin Nodes /\ MaxOperations \in Nat
    /\ \A s \in Scenarios : /\ DOMAIN s.nodes = Nodes /\ s.cordoned \subseteq Nodes
                            /\ \A n \in Nodes : IsNode(s.nodes[n])
                            /\ IsWorkload(s.workload)

VARIABLES
    nodes,       \* the nodes, but for their cordons
    w,           \* the workload
    cordoned,    \* nodes with spec.unschedulable
    drain,       \* the node being drained
    operations,  \* cordons, uncordons and drains so far
    rolling,     \* whether the new template has been applied
    placed,      \* placed[rev][n]: Pods on a node
    pending,     \* pending[rev]: Pods without one
    status,      \* status of the budget, when there is one
    complete,    \* RolloutComplete of the workload as resolved
    stage,       \* checks that have run
    report,      \* report[check]: its Result
    since        \* since[check]: what happened since the check listed the nodes

vars == <<nodes, w, cordoned, drain, operations, rolling, placed, pending, status, complete,
          stage, report, since>>

\* Operations on nodes, evictions and rollouts begun at rest are remembered.
Listings == {"scheduling", "capacity"}
Order == <<"pdb", "daemonset", "eviction", "scheduling", "capacity">>
Done(check) == stage > CHOOSE i \in DOMAIN Order : Order[i] = check
Noted(event) == [c \in Listings |-> IF Done(c) THEN since[c] \cup {event} ELSE {}]

\* The Pods on nodes, as many slots on each as it has Pods.
Slots(pods, ns) == UNION {{n} \X (1..pods[n]) : n \in ns}
On == [n \in Nodes |-> placed["old"][n] + placed["new"][n]]

Bound(rev) == Cardinality(Slots(placed[rev], Nodes))
Total(rev) == Bound(rev) + pending[rev]
Available == Bound("old") + Bound("new")
AllPods == Total("old") + Total("new")

Current == IF rolling THEN "new" ELSE "old"
AtRest == Bound(Current) = w.replicas /\ AllPods = w.replicas
Finished == rolling /\ AtRest

-----------------------------------------------------------------------------
(* The scheduler (external).                                                *)

Eligible(s) == IF s.ignoresSelector THEN Nodes ELSE AllCandidates(nodes, w)
InZone(z, ns) == Cardinality(Slots(On, {n \in ns : nodes[n].zone = z}))

\* The global minimum is zero while there are fewer domains than minDomains.
GlobalMinimum(s) ==
    LET zones == Domains(nodes, Eligible(s))
    IN  IF Cardinality(zones) < s.minDomains THEN 0 ELSE Min({InZone(z, Eligible(s)) : z \in zones})

Spreads(s, n) == LET z == nodes[n].zone
                 IN  z # Unset /\ InZone(z, Eligible(s)) + 1 - GlobalMinimum(s) <= s.skew
Apart(n) == nodes[n].zone = Unset \/ InZone(nodes[n].zone, Nodes) = 0
FitsNode(n) == w.cpu = 0 \/ (nodes[n].cpu # Unset /\ w.cpu <= nodes[n].cpu)

\* Nodes on which a Pod can ever be placed while they are not cordoned.
Usable == {n \in AllCandidates(nodes, w) : ~nodes[n].tainted /\ FitsNode(n)}

Feasible(n) ==
    /\ n \in Usable
    /\ IF w.kind = "DaemonSet" THEN On[n] = 0 ELSE n \notin cordoned
    /\ \A s \in {c \in w.spreads : c.hard} : Spreads(s, n)
    /\ w.anti => Apart(n)

Schedule(rev, n) ==
    /\ pending[rev] > 0
    /\ w.defaultScheduler => Feasible(n)
    /\ placed' = [placed EXCEPT ![rev][n] = @ + 1]
    /\ pending' = [pending EXCEPT ![rev] = @ - 1]
    /\ UNCHANGED <<nodes, w, cordoned, drain, operations, rolling, status, complete, stage,
                   report, since>>

-----------------------------------------------------------------------------
(* The controllers of the workload (external).                              *)

clusterVars == <<nodes, w, cordoned, drain, operations, status, complete, stage, report>>

\* Whether the rollout began from a workload at rest is remembered.
StartRollout ==
    /\ ~rolling
    /\ rolling' = TRUE
    /\ since' = IF AtRest THEN Noted("rollout") ELSE since
    /\ IF w.recreate
       THEN /\ placed' = [placed EXCEPT !["old"] = [n \in Nodes |-> 0]]
            /\ pending' = [old |-> 0, new |-> w.replicas]
       ELSE UNCHANGED <<placed, pending>>
    /\ UNCHANGED clusterVars

ScaleUpNew ==
    /\ rolling /\ ~w.recreate
    /\ Total("new") < w.replicas /\ AllPods < w.replicas + w.surge
    /\ pending' = [pending EXCEPT !["new"] = @ + 1]
    /\ UNCHANGED <<clusterVars, rolling, placed, since>>

\* Pods that are not available go first, and never so many that too few would be left.
ScaleDownOld ==
    /\ rolling /\ ~w.recreate
    /\ AllPods - pending["new"] > w.replicas - w.unavailable
    /\ \/ /\ pending["old"] > 0
          /\ pending' = [pending EXCEPT !["old"] = @ - 1]
          /\ UNCHANGED placed
       \/ /\ pending["old"] = 0 /\ Available > w.replicas - w.unavailable
          /\ \E n \in Nodes : /\ placed["old"][n] > 0
                              /\ placed' = [placed EXCEPT !["old"][n] = @ - 1]
          /\ UNCHANGED pending
    /\ UNCHANGED <<clusterVars, rolling, since>>

-----------------------------------------------------------------------------
(* The operator of the nodes, and evictions (external).                     *)

Operate(event) ==
    /\ operations < MaxOperations
    /\ operations' = operations + 1
    /\ since' = Noted(event)
    /\ UNCHANGED <<nodes, w, rolling, placed, pending, status, complete, stage, report>>

Uncordon(n) ==
    /\ n \in cordoned /\ n # drain
    /\ cordoned' = cordoned \ {n}
    /\ UNCHANGED drain
    /\ Operate("uncordon")

Drain(n) ==
    /\ drain = NoNode
    /\ cordoned' = cordoned \cup {n}
    /\ drain' = n
    /\ Operate("cordon")

DrainDone ==
    /\ drain # NoNode /\ On[drain] = 0
    /\ drain' = NoNode
    /\ UNCHANGED <<nodes, w, cordoned, operations, rolling, placed, pending, status, complete,
                   stage, report, since>>

\* The eviction API takes a Pod that no budget selects, or one budget with room
\* left; the controller of the Pod then makes another.
Evict(rev) ==
    /\ drain # NoNode /\ placed[rev][drain] > 0
    /\ \/ w.budgets = <<>> /\ UNCHANGED status
       \/ /\ Len(w.budgets) = 1 /\ status.allowed > 0
          /\ status' = [status EXCEPT !.allowed = @ - 1, !.disrupted = TRUE]
    /\ placed' = [placed EXCEPT ![rev][drain] = @ - 1]
    /\ pending' = [pending EXCEPT ![rev] = @ + 1]
    /\ since' = Noted("evict")
    /\ UNCHANGED <<nodes, w, cordoned, drain, operations, rolling, complete, stage, report>>

\* The disruption controller, some time after the Pods changed: it lets nothing go
\* of a budget it cannot reckon with, or that asks for nothing.  Where it fails it
\* says so and leaves the rest of the status, observedGeneration included, as it was.
Empty(b) == b.minAvailable = Unset /\ b.maxUnavailable = Unset
DesiredHealthy(b) ==
    IF b.minAvailable # Unset THEN ScaledUp(b.minAvailable, w.replicas)
    ELSE Max({0, w.replicas - ScaledUp(b.maxUnavailable, w.replicas)})

SyncBudget ==
    /\ Len(w.budgets) = 1
    /\ LET b == w.budgets[1]
           failed == w.kind = "DaemonSet" /\ Unverifiable(b)
       IN  status' = IF failed THEN [status EXCEPT !.syncFailed = TRUE, !.allowed = 0]
                     ELSE [observed |-> TRUE, disrupted |-> FALSE, syncFailed |-> FALSE,
                           allowed |-> IF Empty(b) THEN 0
                                       ELSE Max({0, Available - DesiredHealthy(b)})]
    /\ UNCHANGED <<nodes, w, cordoned, drain, operations, rolling, placed, pending, complete,
                   stage, report, since>>

-----------------------------------------------------------------------------
(* The checks, in the order of registeredChecks.  The first reads nothing   *)
(* that changes here, so it is taken together with resolving the workload.  *)

Resolve ==
    /\ stage = 0
    /\ stage' = 2
    /\ complete' = AtRest
    /\ report' = [report EXCEPT !["pdb"] = PDBConsistency(w)]
    /\ UNCHANGED <<nodes, w, cordoned, drain, operations, rolling, placed, pending, status, since>>

Run(check) ==
    CASE check = "daemonset" -> PDBDaemonsetScale(w, status.syncFailed)
      [] check = "eviction" -> PDBEvictionBlocked(w, status, complete)
      [] check = "scheduling" -> SchedulingConstraintsFeasibility(nodes, cordoned, w)
      [] check = "capacity" -> NodeCapacityFeasibility(nodes, cordoned, w)

RunCheck ==
    /\ stage \in 2..Len(Order)
    /\ stage' = stage + 1
    /\ report' = [report EXCEPT ![Order[stage]] = Run(Order[stage])]
    /\ UNCHANGED <<nodes, w, cordoned, drain, operations, rolling, placed, pending, status,
                   complete, since>>

-----------------------------------------------------------------------------
Init ==
    /\ \E s \in Scenarios : nodes = s.nodes /\ cordoned = s.cordoned /\ w = s.workload
    /\ drain = NoNode /\ operations = 0 /\ rolling = FALSE
    /\ placed = [rev \in Revisions |-> [n \in Nodes |-> 0]]
    /\ pending = [old |-> w.replicas, new |-> 0]
    /\ status = [observed |-> FALSE, allowed |-> 0, disrupted |-> FALSE, syncFailed |-> FALSE]
    /\ complete = FALSE /\ stage = 0 /\ since = [c \in Listings |-> {}]
    /\ report = [check \in Checks |-> Skip]

Next ==
    \/ \E rev \in Revisions, n \in Nodes : Schedule(rev, n)
    \/ StartRollout \/ ScaleUpNew \/ ScaleDownOld
    \/ \E n \in Nodes : Uncordon(n) \/ Drain(n)
    \/ DrainDone \/ \E rev \in Revisions : Evict(rev)
    \/ SyncBudget
    \/ Resolve \/ RunCheck

Spec == Init /\ [][Next]_vars

\* As long as the controllers, the scheduler or a drain can do something, one of
\* them does; that anyone runs the checks, applies a template or touches a node is
\* not assumed.
Progress ==
    \/ \E rev \in Revisions : Evict(rev) \/ \E n \in Nodes : Schedule(rev, n)
    \/ ScaleUpNew \/ ScaleDownOld \/ DrainDone \/ SyncBudget

LiveSpec == Spec /\ WF_vars(Progress)

-----------------------------------------------------------------------------
(* Properties.                                                              *)

Severities == {"low", "medium", "high"}
Says(check, severities) == Done(check) /\ \E f \in report[check].findings : f.severity \in severities
Quiet(check) == Done(check) /\ ~report[check].skipped /\ report[check].findings = {}

\* No more Pods than replicas and surge, no fewer than the controller keeps, and
\* every result of a check is one of its kind: of a workload of its kind, too.
TypeOK ==
    /\ drain \in Nodes \cup {NoNode} /\ cordoned \subseteq Nodes
    /\ drain # NoNode => drain \in cordoned
    /\ operations \in 0..MaxOperations /\ stage \in 0..6
    /\ \A rev \in Revisions : pending[rev] \in Nat /\ \A n \in Nodes : placed[rev][n] \in Nat
    /\ AllPods \in (w.replicas - w.unavailable)..(w.replicas + w.surge)
    /\ \A c \in Checks : /\ report[c].skipped => report[c].findings = {}
                         /\ \A f \in report[c].findings : f.severity \in Severities
    /\ report["daemonset"].findings # {} => w.kind = "DaemonSet"
    /\ Done("scheduling") /\ w.kind = "DaemonSet" => report["scheduling"].skipped

\* scheduling.go: a HIGH about labels and domains alone is final.  Whatever is
\* uncordoned, the next rollout of a workload at rest never ends (with at most one
\* Pod of surge, and no Pod evicted out of the way).
HighIsFinal ==
    /\ \E f \in report["scheduling"].findings : f.severity = "high" /\ f.cause # "tainted"
    /\ "rollout" \in since["scheduling"] /\ "evict" \notin since["scheduling"] /\ w.surge <= 1
    => ~Finished

\* scheduling.go and nodecapacity.go: what is reported as MEDIUM or HIGH keeps the
\* next rollout from ending for as long as no node is uncordoned.  Two that may not
\* are left out: a constraint at the peak of a surge (a Pod on a cordoned node takes
\* none of the room) and a MEDIUM about a spread (a Pod there raises the global
\* minimum, so that more may follow elsewhere).  Without replicas there is nothing to
\* end.
FindingHolds ==
    \A c \in Listings : \A f \in report[c].findings :
        /\ f.severity \in {"medium", "high"} /\ w.replicas > 0
        /\ f.cause \in {"spread", "antiAffinity"} => w.unavailable > 0
        /\ f # Finding("medium", "spread")
        /\ "rollout" \in since[c] /\ since[c] \cap {"evict", "uncordon"} = {}
        => ~Finished

\* What the node checks report keeps the rollout from ending, for good or until
\* a node is uncordoned.
FindingsHold == HighIsFinal /\ FindingHolds

\* What the checks leave out: cordons, taints, sizes that differ, nodes without
\* the label, constraints they do not evaluate and other schedulers.
Plain ==
    /\ w.kind # "DaemonSet" /\ w.defaultScheduler
    /\ cordoned = {}
    /\ AllCandidates(nodes, w) # {}
    /\ \A n, m \in AllCandidates(nodes, w) : nodes[n].cpu = nodes[m].cpu
    /\ \A n \in AllCandidates(nodes, w) : ~nodes[n].tainted
    /\ w.anti => \A n \in AllCandidates(nodes, w) : nodes[n].zone # Unset
    /\ \A s \in w.spreads : s.skew > 0 /\ ~(s.ignoresSelector /\ w.selector)

\* scheduling.go and nodecapacity.go: where both find nothing, on such a cluster and
\* with no node touched since, a rollout ends, the surge that maxUnavailable = 0
\* needs included.
SilentRollsOut ==
    (/\ rolling /\ Quiet("scheduling") /\ Quiet("capacity") /\ Plain
     /\ since["scheduling"] \subseteq {"rollout"})
        ~> (Finished \/ ~(since["scheduling"] \subseteq {"rollout"}))

\* pdb.go, pdbdaemonset.go and pdbeviction.go: while a budget leaves no room, more
\* than one selects the Pods, or the controller cannot reckon with it, nothing is
\* evicted (a surge aside, whose Pods are room of their own).
AccusedEvictsNothing ==
    [][(\E rev \in Revisions : Evict(rev)) =>
        /\ ~Says("daemonset", Severities)
        /\ ~Says("eviction", {"high"})
        /\ w.surge = 0 => \A f \in report["pdb"].findings : f.cause # "noHeadroom"]_vars

\* pdb.go: a workload without constraints whose budget is not accused is drained
\* from a node, one eviction after the other, unless no node is left for its Pods (a
\* budget that names neither field, which the checks pass over, aside).
SilentDrains ==
    (/\ drain # NoNode /\ w.kind # "DaemonSet" /\ w.spreads = {} /\ ~w.anti
     /\ \A b \in Budgets(w) : ~Empty(b)
     /\ Done("eviction") /\ ~Says("pdb", {"high"}) /\ ~Says("eviction", {"high"}))
        ~> (drain = NoNode \/ Usable \subseteq cordoned)

\* scheduling.go (comment): "only the deterministic surge deadlock is flagged".
\* A HIGH for want of room at the peak of a surge keeps the rollout from ending.
SurgeShortageDeadlocks ==
    /\ Says("scheduling", {"high"}) /\ "rollout" \in since["scheduling"]
    /\ since["scheduling"] \cap {"evict", "uncordon"} = {}
    => ~Finished
=============================================================================
