--------------------------- MODULE WorkloadStatus ---------------------------
(***************************************************************************)
(* What internal/workload and three workload Diagnosers read off a         *)
(* Deployment, a StatefulSet or a DaemonSet: RolloutComplete, Paused and   *)
(* the pending update of a StatefulSet.  They see the spec and the status  *)
(* of one Get.  The status is a summary of the pods, written by the        *)
(* controller some time ago, of a spec that may have changed since; whether *)
(* the pods themselves are rolled out is what `watch` must not get wrong.  *)
(*                                                                         *)
(* The controllers, the kubelets and the users are external: they are      *)
(* modelled as far as they decide what a status can say of which pods.     *)
(***************************************************************************)
EXTENDS Integers, FiniteSets

CONSTANTS
    Kinds,          \* of workload, "Deployment", "StatefulSet" and "DaemonSet"
    Slots,          \* 0..n : ordinals, nodes, or the pods a Deployment may have at once
    Revs,           \* the pod templates a user may ask for
    BadRevs,        \* those whose pods never become ready
    ReplicaCounts,  \* the values of spec.replicas
    Strategies,     \* the types of the update strategy
    Partitions,     \* the values of rollingUpdate.partition
    MaxEdits,       \* bound on what users do
    Setbacks,       \* what becomes of a ready pod that stops being ready
    MaxLosses       \* bound on pods that stop being ready, and on nodes that come and go

\* rollingUpdate.partition of a StatefulSet that sets none.
Unset == -1

ASSUME SpecAssumption ==
    /\ Kinds \subseteq {"Deployment", "StatefulSet", "DaemonSet"}
    /\ Slots \subseteq Nat /\ IsFiniteSet(Slots)
    /\ \A s \in Slots : 0..s \subseteq Slots
    /\ BadRevs \subseteq Revs
    /\ ReplicaCounts \subseteq Nat
    /\ Strategies \subseteq {"RollingUpdate", "Recreate", "OnDelete"}
    /\ Partitions \subseteq Nat \cup {Unset} /\ Unset \in Partitions
    /\ Setbacks \subseteq {"starting", "lost"}

ASSUME BoundAssumption == MaxEdits \in Nat /\ MaxLosses \in Nat

VARIABLES
    spec,      \* kind, metadata.generation and the part of the spec that is read here
    status,    \* the status, as last written
    pods,      \* the pods there are, by slot
    nodes,     \* the nodes a DaemonSet's pods belong on
    edits,     \* what users have done so far
    losses,    \* what has gone wrong so far
    reached    \* history: the pods have been rolled out since the spec was written

vars == <<spec, status, pods, nodes, edits, losses, reached>>

-----------------------------------------------------------------------------
(* Pods and specs.                                                          *)

NoPod == [rev |-> "none", health |-> "starting"]

\* A pod that is lost never becomes ready again.
PodStates == {NoPod} \cup [rev : Revs, health : {"starting", "ready", "lost"}]

\* Only a Deployment can be recreated or paused, only a StatefulSet partitioned.
Specs ==
    {s \in [kind : Kinds, gen : 1..MaxEdits + 1, replicas : ReplicaCounts, rev : Revs,
             strategy : Strategies, partition : Partitions, paused : BOOLEAN] :
        /\ s.strategy = "Recreate" \/ s.paused => s.kind = "Deployment"
        /\ s.strategy = "OnDelete" => s.kind # "Deployment"
        /\ s.partition # Unset => s.kind = "StatefulSet"}

Running == {s \in Slots : pods[s] # NoPod}

Current == {s \in Running : pods[s].rev = spec.rev}

Ready == {s \in Running : pods[s].health = "ready"}

\* The ordinals of the spec, or the nodes.
Wanted == IF spec.kind = "DaemonSet" THEN nodes ELSE {s \in Slots : s < spec.replicas}

\* The pods that this spec asks for are there: updated, except below a partition,
\* and ready.
RolledOut ==
    \/ /\ spec.kind = "Deployment"
       /\ Running \subseteq Current \cap Ready
       /\ Cardinality(Running) >= spec.replicas
    \/ /\ spec.kind = "StatefulSet"
       /\ Wanted \subseteq Ready
       /\ {s \in Wanted : spec.strategy = "OnDelete" \/ s >= spec.partition} \subseteq Current
    \/ /\ spec.kind = "DaemonSet"
       /\ nodes \subseteq Current \cap Ready

Remember == reached' = (RolledOut' \/ (reached /\ spec' = spec))

-----------------------------------------------------------------------------
(* internal/workload: what the program reads.                               *)

Observed == spec.gen <= status.observed

\* Workload.Replicas
Replicas == IF spec.kind = "DaemonSet" THEN status.desired ELSE spec.replicas

\* Mutant: old pods that are still there are not looked at.
DeploymentCompleteAmongOld ==
    Observed /\ status.updated >= Replicas /\ status.available >= status.updated

DeploymentComplete ==
    /\ Observed
    /\ status.updated >= Replicas
    /\ status.replicas <= status.updated
    /\ status.available >= status.updated

\* Mutant: the number of ready pods is not looked at.
StatefulSetCompleteUnready ==
    /\ Observed
    /\ \/ spec.strategy = "OnDelete"
       \/ spec.partition # Unset /\ status.updated >= Replicas - spec.partition
       \/ spec.partition = Unset /\ status.updateRev = status.currentRev

\* Mutant: revisions are compared although a partition keeps them apart.
StatefulSetCompleteOneRevision ==
    /\ Observed
    /\ status.available >= Replicas
    /\ spec.strategy = "OnDelete" \/ status.updateRev = status.currentRev

StatefulSetComplete ==
    /\ Observed
    /\ status.available >= Replicas
    /\ \/ spec.strategy = "OnDelete"
       \/ spec.strategy # "OnDelete" /\ spec.partition # Unset
              /\ status.updated >= Replicas - spec.partition
       \/ spec.strategy # "OnDelete" /\ spec.partition = Unset
              /\ status.updateRev = status.currentRev

\* Mutant: off by one, a pod more than there are nodes is waited for.
DaemonSetCompleteStrict ==
    Observed /\ status.updated > Replicas /\ status.available > Replicas

DaemonSetComplete ==
    /\ Observed
    /\ status.updated >= Replicas
    /\ status.available >= Replicas

RolloutComplete ==
    \/ spec.kind = "Deployment" /\ DeploymentComplete
    \/ spec.kind = "StatefulSet" /\ StatefulSetComplete
    \/ spec.kind = "DaemonSet" /\ DaemonSetComplete

\* Mutant: the revisions of every kind are compared.
PendingUpdateOfAny == status.updateRev # status.currentRev

\* StatefulSetUpdate: the update that is pending will never be acted on.
PendingUpdate == spec.kind = "StatefulSet" /\ status.updateRev # status.currentRev

PendingOnDelete == PendingUpdate /\ spec.strategy = "OnDelete"

\* Mutant: every partition blocks, a canary too.
PartitionBlockedAlways ==
    PendingUpdate /\ spec.strategy # "OnDelete" /\ spec.partition >= 0

PartitionBlocked ==
    /\ PendingUpdate
    /\ spec.strategy # "OnDelete" /\ spec.partition # Unset
    /\ spec.partition >= Replicas

\* Paused
Paused == spec.kind = "Deployment" /\ spec.paused

Held == PendingOnDelete \/ PartitionBlocked \/ Paused

-----------------------------------------------------------------------------
(* The controllers.                                                         *)

\* The revision of a new pod: a StatefulSet keeps the old one below the partition,
\* and with none below as many pods as have it.
RevisionFor(s) ==
    LET old   == {t \in Running : pods[t].rev = status.currentRev}
        below == IF spec.partition = Unset THEN Cardinality(old) ELSE spec.partition
    IN  IF spec.kind = "StatefulSet" /\ spec.strategy # "OnDelete" /\ s < below
        THEN status.currentRev
        ELSE spec.rev

\* The pods a StatefulSet has, in order, before it does anything else.
AllReady == Wanted \subseteq Ready

\* The pods a status counts.
CountedSlots == IF spec.kind = "DaemonSet" THEN Running \cap nodes ELSE Running

\* The controller counts the pods there are; a StatefulSet whose rolling update is
\* over makes its revision the current one.
Summary ==
    LET running == Cardinality(CountedSlots)
        updated == Cardinality(Current \cap CountedSlots)
        ready   == Cardinality(Ready \cap CountedSlots)
    IN  [observed   |-> spec.gen,
         replicas   |-> running,
         updated    |-> updated,
         available  |-> ready,
         desired    |-> Cardinality(Wanted),
         updateRev  |-> spec.rev,
         currentRev |-> IF /\ spec.strategy = "RollingUpdate"
                           /\ updated = running /\ ready = running
                        THEN spec.rev ELSE status.currentRev]

SyncStatus ==
    /\ status # Summary
    /\ status' = Summary
    /\ UNCHANGED <<spec, pods, nodes, edits, losses>>
    /\ Remember

\* A pod is created where one is missing; a Deployment surges by one.
MayCreate(s) ==
    \/ spec.kind = "DaemonSet" /\ s \in nodes
    \/ /\ spec.kind = "StatefulSet" /\ s \in Wanted
       /\ \A t \in Wanted : t < s => t \in Ready
    \/ /\ spec.kind = "Deployment" /\ ~spec.paused
       /\ Cardinality(Current) < spec.replicas
       /\ spec.strategy = "Recreate" => Running = Current
       /\ Cardinality(Running) <= spec.replicas

CreatePod(s) ==
    /\ s \notin Running /\ MayCreate(s)
    /\ pods' = [pods EXCEPT ![s] = [rev |-> RevisionFor(s), health |-> "starting"]]
    /\ UNCHANGED <<spec, status, nodes, edits, losses>>
    /\ Remember

\* A pod that is too many, or old, is deleted without going below what is ready.
MayDelete(s) ==
    \/ /\ spec.kind = "DaemonSet"
       /\ \/ s \notin nodes
          \/ /\ spec.strategy = "RollingUpdate" /\ s \notin Current
             /\ s \in Ready => nodes \subseteq Ready
    \/ /\ spec.kind = "StatefulSet" /\ AllReady
       /\ \/ s \notin Wanted /\ \A t \in Running : t <= s
          \/ /\ Running = Wanted
             /\ spec.strategy = "RollingUpdate" /\ s >= spec.partition /\ s \notin Current
             /\ \A t \in Wanted : t > s => t \in Current
    \/ /\ spec.kind = "Deployment" /\ ~spec.paused
       /\ \/ s \notin Current
             /\ \/ spec.strategy = "Recreate" \/ s \notin Ready
                \/ Cardinality(Ready \ {s}) >= spec.replicas
          \/ Cardinality(Current) > spec.replicas

DeletePod(s) ==
    /\ s \in Running /\ MayDelete(s)
    /\ pods' = [pods EXCEPT ![s] = NoPod]
    /\ UNCHANGED <<spec, status, nodes, edits, losses>>
    /\ Remember

-----------------------------------------------------------------------------
(* Kubelets, nodes and users.                                               *)

BecomeReady(s) ==
    /\ s \in Running /\ pods[s].health = "starting" /\ pods[s].rev \notin BadRevs
    /\ pods' = [pods EXCEPT ![s].health = "ready"]
    /\ UNCHANGED <<spec, status, nodes, edits, losses>>
    /\ Remember

Lose ==
    /\ losses < MaxLosses
    /\ losses' = losses + 1
    /\ UNCHANGED <<spec, status, edits>>

StopBeingReady(s) ==
    /\ Lose
    /\ s \in Ready
    /\ \E health \in Setbacks : pods' = [pods EXCEPT ![s].health = health]
    /\ UNCHANGED nodes
    /\ Remember

NodeChange(n) ==
    /\ Lose
    /\ spec.kind = "DaemonSet"
    /\ nodes' = IF n \in nodes THEN nodes \ {n} ELSE nodes \cup {n}
    /\ UNCHANGED pods
    /\ Remember

EditSpec ==
    /\ edits < MaxEdits
    /\ edits' = edits + 1
    /\ spec' \in {t \in Specs : t.gen = spec.gen + 1 /\ t.kind = spec.kind}
    /\ UNCHANGED <<status, pods, nodes, losses>>
    /\ Remember

\* OnDelete leaves it to the operator to delete the pods.
OperatorDeletes(s) ==
    /\ edits < MaxEdits
    /\ edits' = edits + 1
    /\ spec.strategy = "OnDelete" /\ s \in Running
    /\ pods' = [pods EXCEPT ![s] = NoPod]
    /\ UNCHANGED <<spec, status, nodes, losses>>
    /\ Remember

-----------------------------------------------------------------------------

\* A workload that was rolled out some time ago.
Init ==
    /\ spec \in {t \in Specs : t.gen = 1 /\ ~t.paused /\ t.rev \notin BadRevs}
    /\ nodes \in IF spec.kind = "DaemonSet" THEN SUBSET Slots ELSE {{}}
    /\ pods = [s \in Slots |-> IF s \in Wanted THEN [rev |-> spec.rev, health |-> "ready"]
                               ELSE NoPod]
    /\ status = [observed |-> 1, replicas |-> Cardinality(Wanted),
                 updated |-> Cardinality(Wanted), available |-> Cardinality(Wanted),
                 desired |-> Cardinality(Wanted), updateRev |-> spec.rev,
                 currentRev |-> spec.rev]
    /\ edits = 0 /\ losses = 0 /\ reached = RolledOut

Controller ==
    SyncStatus \/ \E s \in Slots : CreatePod(s) \/ DeletePod(s)

Environment ==
    \/ \E s \in Slots : BecomeReady(s) \/ StopBeingReady(s) \/ OperatorDeletes(s)
    \/ \E n \in Slots : NodeChange(n)
    \/ EditSpec

Next == Controller \/ Environment

Spec == Init /\ [][Next]_vars

\* Controllers and kubelets do not stop; users and losses do.
Fairness ==
    /\ WF_vars(SyncStatus)
    /\ \A s \in Slots : /\ WF_vars(CreatePod(s)) /\ WF_vars(DeletePod(s))
                        /\ WF_vars(BecomeReady(s))

FairSpec == Spec /\ Fairness

-----------------------------------------------------------------------------
(* Properties.                                                              *)

StatusRecords ==
    [observed : 1..MaxEdits + 1, replicas : 0..Cardinality(Slots),
     updated : 0..Cardinality(Slots), available : 0..Cardinality(Slots),
     desired : 0..Cardinality(Slots), updateRev : Revs, currentRev : Revs]

\* No status counts more updated or ready pods than it counts pods, and none is
\* of a generation that is still to come.
TypeOK ==
    /\ spec \in Specs
    /\ status \in StatusRecords
    /\ status.observed <= spec.gen
    /\ status.updated <= status.replicas /\ status.available <= status.replicas
    /\ pods \in [Slots -> PodStates]
    /\ nodes \subseteq Slots
    /\ edits \in 0..MaxEdits /\ losses \in 0..MaxLosses
    /\ reached \in BOOLEAN
    /\ Paused => spec.kind = "Deployment"
    /\ PendingUpdate => spec.kind = "StatefulSet"

\* A spec that RolloutComplete() calls complete, and no Diagnoser holds, has been
\* rolled out at some moment since it was written, however late the status is:
\* "replicas are updated and available, and the controller observed the current
\* Spec generation" (internal/workload/workload.go, Workload.RolloutComplete).
CompleteWasRolledOut == RolloutComplete /\ ~Held => reached

\* What stays complete for good is rolled out for good, with pods that never become
\* ready and rollbacks too: a status that counts other pods, or other revisions, does
\* not last, and that is what the stability window of `watch` rests on.
LastingCompletionIsReal ==
    <>[](RolloutComplete /\ ~Held /\ spec.strategy # "OnDelete") => <>[]RolledOut

\* Nothing in the cluster keeps a pod from becoming ready.
Curable ==
    /\ spec.rev \notin BadRevs
    /\ \A s \in Running : pods[s].rev \notin BadRevs /\ pods[s].health # "lost"

\* A rollout whose pods can become ready is complete at last, or a Diagnoser says
\* what holds it: "RolloutComplete must not block forever"
\* (internal/workload/daemonset.go, daemonSetWorkload.RolloutComplete).
RolloutSettles == <>[]Curable => <>[](RolloutComplete \/ Held)

\* What StatefulSetUpdate reports of a partition is true: no pod takes the pending
\* revision as long as nobody edits the spec.
BlockedPartitionIsStuck ==
    [][PartitionBlocked /\ Observed /\ spec' = spec => Current' \subseteq Current]_vars
=============================================================================
