------------------------ MODULE WorkloadStatusProofs ------------------------
(***************************************************************************)
(* What a late status may be trusted with, for any number of pods, nodes,  *)
(* templates and edits: that a Deployment or a DaemonSet which is read as  *)
(* complete has been rolled out, and that an update which is read as       *)
(* blocked by a partition makes no progress.                               *)
(***************************************************************************)
EXTENDS WorkloadStatus, FiniteSetTheorems, TLAPS

(***************************************************************************)
(* Counting pods                                                           *)
(***************************************************************************)

\* A set of slots has no more members than there are slots, and a part of it
\* no more than the whole.
LEMMA SlotCounts ==
    ASSUME NEW S \in SUBSET Slots, NEW T \in SUBSET S
    PROVE  /\ IsFiniteSet(S) /\ IsFiniteSet(T)
           /\ Cardinality(S) \in 0..Cardinality(Slots)
           /\ Cardinality(T) \in 0..Cardinality(Slots)
           /\ Cardinality(T) <= Cardinality(S)
           /\ Cardinality(T) >= Cardinality(S) => T = S
<1>1. IsFiniteSet(Slots) /\ Cardinality(Slots) \in Nat
  BY SpecAssumption, FS_CardinalityType
<1>2. /\ IsFiniteSet(S) /\ Cardinality(S) <= Cardinality(Slots)
      /\ Cardinality(S) \in Nat
  BY <1>1, FS_Subset, FS_CardinalityType
<1>3. /\ IsFiniteSet(T) /\ Cardinality(T) <= Cardinality(S) /\ Cardinality(T) \in Nat
      /\ Cardinality(S) = Cardinality(T) => S = T
  BY <1>2, FS_Subset, FS_CardinalityType
<1> QED
  BY <1>1, <1>2, <1>3

\* The sets a status counts are sets of slots.
LEMMA CountedSets ==
    ASSUME TypeOK
    PROVE  /\ CountedSlots \subseteq Slots
           /\ Current \cap CountedSlots \subseteq CountedSlots
           /\ Ready \cap CountedSlots \subseteq CountedSlots
           /\ Wanted \subseteq Slots
           /\ Ready \subseteq Running /\ Current \subseteq Running
BY DEF TypeOK, CountedSlots, Current, Ready, Wanted, Running

\* What the controller writes is a status, of no other generation than the spec's.
LEMMA SummaryType ==
    ASSUME TypeOK
    PROVE  /\ Summary \in StatusRecords
           /\ Summary.observed = spec.gen /\ Summary.updateRev = spec.rev
           /\ Summary.updated <= Summary.replicas /\ Summary.available <= Summary.replicas
<1> DEFINE running == Cardinality(CountedSlots)
           updated == Cardinality(Current \cap CountedSlots)
           ready == Cardinality(Ready \cap CountedSlots)
           rev == IF spec.strategy = "RollingUpdate" /\ updated = running /\ ready = running
                  THEN spec.rev ELSE status.currentRev
<1>1. /\ running \in 0..Cardinality(Slots)
      /\ updated \in 0..Cardinality(Slots) /\ updated <= running
      /\ ready \in 0..Cardinality(Slots) /\ ready <= running
  BY CountedSets, SlotCounts
<1>2. Cardinality(Wanted) \in 0..Cardinality(Slots)
  BY CountedSets, SlotCounts
<1>3. rev \in Revs /\ spec.rev \in Revs /\ spec.gen \in 1..MaxEdits + 1
  BY DEF TypeOK, Specs, StatusRecords
<1>4. Summary = [observed |-> spec.gen, replicas |-> running, updated |-> updated,
                 available |-> ready, desired |-> Cardinality(Wanted),
                 updateRev |-> spec.rev, currentRev |-> rev]
  BY DEF Summary
<1> QED
  <2> HIDE DEF running, updated, ready, rev
  <2> QED
    BY <1>1, <1>2, <1>3, <1>4 DEF StatusRecords

(***************************************************************************)
(* Types                                                                   *)
(***************************************************************************)

\* The pods, whatever a step of a controller, a kubelet or an operator makes
\* of one of them.
LEMMA PodsType ==
    ASSUME TypeOK, NEW s \in Slots, NEW pod \in PodStates
    PROVE  [pods EXCEPT ![s] = pod] \in [Slots -> PodStates]
BY DEF TypeOK

\* The status, the spec and the pods keep their types: no count exceeds
\* another that it is part of, and no status is ahead of its spec.
THEOREM TypeInvariant == Spec => []TypeOK
<1>1. Init => TypeOK
  <2> SUFFICES ASSUME Init
               PROVE  TypeOK
    OBVIOUS
  <2>1. /\ nodes \subseteq Slots /\ Wanted \subseteq Slots
        /\ spec \in Specs /\ spec.gen = 1 /\ spec.rev \in Revs
    BY DEF Init, Wanted, Specs
  <2>2. Cardinality(Wanted) \in 0..Cardinality(Slots)
    BY <2>1, SlotCounts
  <2>3. pods \in [Slots -> PodStates]
    <3>1. [rev |-> spec.rev, health |-> "ready"] \in PodStates /\ NoPod \in PodStates
      BY <2>1 DEF PodStates
    <3> QED
      BY <3>1 DEF Init
  <2>4. status \in StatusRecords /\ status.observed <= spec.gen
    BY <2>1, <2>2, BoundAssumption DEF Init, StatusRecords
  <2>5. status.updated <= status.replicas /\ status.available <= status.replicas
    BY <2>2 DEF Init
  <2>6. edits \in 0..MaxEdits /\ losses \in 0..MaxLosses /\ reached \in BOOLEAN
    BY BoundAssumption DEF Init, RolledOut
  <2> QED
    BY <2>1, <2>3, <2>4, <2>5, <2>6 DEF TypeOK, Paused, PendingUpdate
<1>2. TypeOK /\ [Next]_vars => TypeOK'
  <2> SUFFICES ASSUME TypeOK, [Next]_vars
               PROVE  TypeOK'
    OBVIOUS
  <2>0. ASSUME Remember
        PROVE  reached' \in BOOLEAN
    BY <2>0 DEF Remember, RolledOut
  <2> USE DEF TypeOK, Paused, PendingUpdate
  <2>1. CASE SyncStatus
    <3>1. /\ status' \in StatusRecords /\ status'.observed = spec.gen
          /\ status'.updated <= status'.replicas /\ status'.available <= status'.replicas
      BY <2>1, SummaryType DEF SyncStatus
    <3>2. spec.gen \in Nat
      BY BoundAssumption DEF Specs
    <3> QED
      BY <2>0, <2>1, <3>1, <3>2 DEF SyncStatus
  <2>2. ASSUME NEW s \in Slots, CreatePod(s)
        PROVE  TypeOK'
    <3>1. RevisionFor(s) \in Revs
      BY DEF RevisionFor, StatusRecords, Specs
    <3>2. [rev |-> RevisionFor(s), health |-> "starting"] \in PodStates
      BY <3>1 DEF PodStates
    <3> QED
      BY <2>0, <2>2, <3>2, PodsType DEF CreatePod
  <2>3. ASSUME NEW s \in Slots, DeletePod(s)
        PROVE  TypeOK'
    BY <2>0, <2>3, PodsType DEF DeletePod, PodStates
  <2>4. ASSUME NEW s \in Slots, BecomeReady(s)
        PROVE  TypeOK'
    BY <2>0, <2>4 DEF BecomeReady, PodStates, Running, NoPod
  <2>5. ASSUME NEW s \in Slots, StopBeingReady(s)
        PROVE  TypeOK'
    BY <2>0, <2>5, SpecAssumption, BoundAssumption
       DEF StopBeingReady, Lose, PodStates, Ready, Running, NoPod
  <2>6. ASSUME NEW n \in Slots, NodeChange(n)
        PROVE  TypeOK'
    BY <2>0, <2>6, BoundAssumption DEF NodeChange, Lose
  <2>7. CASE EditSpec
    <3>1. spec.gen \in Nat /\ status.observed \in Nat
      BY BoundAssumption DEF Specs, StatusRecords
    <3> QED
      BY <2>0, <2>7, <3>1, BoundAssumption DEF EditSpec
  <2>8. ASSUME NEW s \in Slots, OperatorDeletes(s)
        PROVE  TypeOK'
    BY <2>0, <2>8, PodsType, BoundAssumption DEF OperatorDeletes, PodStates
  <2>9. CASE UNCHANGED vars
    BY <2>9 DEF vars
  <2> QED
    BY <2>1, <2>2, <2>3, <2>4, <2>5, <2>6, <2>7, <2>8, <2>9 DEF Next, Controller, Environment
<1> QED
  BY <1>1, <1>2, PTL DEF Spec

(***************************************************************************)
(* Completion                                                              *)
(***************************************************************************)

\* What a status that was written in this state says of the pods is true of them:
\* as many as are wanted, all of them updated and ready, are all there are.
LEMMA SummaryIsTrue ==
    ASSUME TypeOK, spec' = spec, pods' = pods, nodes' = nodes, status' = Summary,
           spec.kind # "StatefulSet", RolloutComplete'
    PROVE  RolledOut
<1> DEFINE running == CountedSlots
           updated == Current \cap CountedSlots
           ready == Ready \cap CountedSlots
<1>1. /\ status'.replicas = Cardinality(running) /\ status'.updated = Cardinality(updated)
      /\ status'.available = Cardinality(ready) /\ status'.desired = Cardinality(Wanted)
  BY DEF Summary
<1>2. /\ IsFiniteSet(running) /\ Cardinality(running) \in Nat
      /\ Cardinality(updated) \in Nat /\ Cardinality(ready) \in Nat
      /\ Cardinality(updated) >= Cardinality(running) => updated = running
      /\ Cardinality(ready) >= Cardinality(running) => ready = running
  BY CountedSets, SlotCounts
<1>3. CASE spec.kind = "Deployment"
  <2>1. /\ Cardinality(updated) >= spec.replicas
        /\ Cardinality(running) <= Cardinality(updated)
        /\ Cardinality(ready) >= Cardinality(updated)
    BY <1>1, <1>3 DEF RolloutComplete, DeploymentComplete, Replicas
  <2>2. updated = running /\ ready = running /\ running = Running
    BY <1>2, <1>3, <2>1 DEF CountedSlots
  <2>3. Running \subseteq Current \cap Ready /\ Cardinality(Running) >= spec.replicas
    BY <2>1, <2>2
  <2> QED
    BY <1>3, <2>3 DEF RolledOut
<1>4. CASE spec.kind = "DaemonSet"
  <2>1. Wanted = nodes /\ running \subseteq nodes /\ nodes \subseteq Slots
    BY <1>4 DEF Wanted, CountedSlots, TypeOK
  <2>2. /\ Cardinality(updated) >= Cardinality(nodes)
        /\ Cardinality(ready) >= Cardinality(nodes)
    BY <1>1, <1>4, <2>1 DEF RolloutComplete, DaemonSetComplete, Replicas
  <2>3. updated = nodes /\ ready = nodes
    <3>1. updated \subseteq nodes /\ ready \subseteq nodes
      BY <2>1
    <3> QED
      BY <2>1, <2>2, <3>1, SlotCounts
  <2> QED
    BY <1>4, <2>3 DEF RolledOut
<1> QED
  BY <1>3, <1>4, SpecAssumption DEF TypeOK, Specs

\* A Deployment or a DaemonSet that is read as complete has been rolled out since
\* its spec was written.  It is inductive by itself: a status that is of the
\* present generation was written since.
Completed == spec.kind # "StatefulSet" /\ RolloutComplete => reached

LEMMA CompletedInvariant == Spec => []Completed
<1>1. Init => Completed
  <2> SUFFICES ASSUME Init, spec.kind # "StatefulSet", RolloutComplete
               PROVE  RolledOut
    BY DEF Init, Completed
  <2>1. /\ Wanted \subseteq Slots /\ Running = Wanted /\ Current = Wanted /\ Ready = Wanted
    <3>1. /\ spec \in Specs /\ spec.rev \in Revs /\ Wanted \subseteq Slots
      BY DEF Init, Specs, Wanted
    <3>2. [rev |-> spec.rev, health |-> "ready"] # NoPod
      BY DEF NoPod
    <3>3. Running = Wanted
      BY <3>1, <3>2 DEF Init, Running
    <3> QED
      BY <3>1, <3>3 DEF Init, Current, Ready
  <2>2. spec.kind = "Deployment" \/ spec.kind = "DaemonSet"
    BY SpecAssumption DEF Init, Specs
  <2>3. spec.kind = "Deployment" => Cardinality(Wanted) >= spec.replicas
    BY DEF Init, RolloutComplete, DeploymentComplete, Replicas
  <2> QED
    BY <2>1, <2>2, <2>3 DEF RolledOut, Wanted
<1>2. TypeOK /\ Completed /\ [Next]_vars => Completed'
  <2> SUFFICES ASSUME TypeOK, Completed, [Next]_vars
               PROVE  Completed'
    OBVIOUS
  <2>1. CASE SyncStatus
    <3> SUFFICES ASSUME spec'.kind # "StatefulSet", RolloutComplete'
                 PROVE  reached'
      BY DEF Completed
    <3>1. RolledOut
      BY <2>1, SummaryIsTrue DEF SyncStatus
    <3>2. RolledOut'
      BY <2>1, <3>1 DEF SyncStatus, RolledOut, Running, Current, Ready, Wanted
    <3> QED
      BY <2>1, <3>2 DEF SyncStatus, Remember
  <2>2. ASSUME spec' = spec, status' = status, Remember
        PROVE  Completed'
    <3>1. RolloutComplete' = RolloutComplete
      BY <2>2 DEF RolloutComplete, DeploymentComplete, DaemonSetComplete, StatefulSetComplete,
                  Observed, Replicas
    <3> QED
      BY <2>2, <3>1 DEF Completed, Remember
  <2>3. CASE EditSpec
    <3>1. /\ status.observed \in Nat /\ spec.gen \in Nat /\ status.observed <= spec.gen
          /\ spec'.gen = spec.gen + 1 /\ status' = status
      BY <2>3, BoundAssumption DEF EditSpec, TypeOK, StatusRecords, Specs
    <3>2. ~Observed'
      BY <3>1 DEF Observed
    <3> QED
      BY <3>2 DEF Completed, RolloutComplete, DeploymentComplete, DaemonSetComplete,
                  StatefulSetComplete
  <2>4. CASE UNCHANGED vars
    BY <2>4 DEF vars, Completed, RolloutComplete, DeploymentComplete, DaemonSetComplete,
                StatefulSetComplete, Observed, Replicas
  <2>5. ASSUME Next, ~SyncStatus, ~EditSpec
        PROVE  spec' = spec /\ status' = status /\ Remember
    BY <2>5 DEF Next, Controller, Environment, CreatePod, DeletePod, BecomeReady,
                StopBeingReady, Lose, NodeChange, OperatorDeletes
  <2> QED
    BY <2>1, <2>2, <2>3, <2>4, <2>5
<1> QED
  BY <1>1, <1>2, TypeInvariant, PTL DEF Spec

\* RolloutComplete of a Deployment or a DaemonSet, which no Diagnoser holds, is
\* only true of a spec that its pods have fulfilled.  (Of a StatefulSet TLC finds
\* that it is not so: its status counts pods and revisions apart from each other.)
THEOREM CompletionIsReal ==
    ASSUME "StatefulSet" \notin Kinds
    PROVE  Spec => []CompleteWasRolledOut
<1>1. TypeOK /\ Completed => CompleteWasRolledOut
  BY DEF TypeOK, Specs, Completed, CompleteWasRolledOut
<1> QED
  BY <1>1, TypeInvariant, CompletedInvariant, PTL

(***************************************************************************)
(* Partitions                                                              *)
(***************************************************************************)

\* A status of the present generation names the revision of the present spec.
RevisionRead == Observed => status.updateRev = spec.rev

LEMMA RevisionReadInvariant == Spec => []RevisionRead
<1>1. Init => RevisionRead
  BY DEF Init, RevisionRead
<1>2. TypeOK /\ RevisionRead /\ [Next]_vars => RevisionRead'
  <2> SUFFICES ASSUME TypeOK, RevisionRead, [Next]_vars
               PROVE  RevisionRead'
    OBVIOUS
  <2>1. CASE SyncStatus
    BY <2>1, SummaryType DEF SyncStatus, RevisionRead
  <2>2. CASE EditSpec
    <3>1. /\ status.observed \in Nat /\ spec.gen \in Nat
      BY BoundAssumption DEF TypeOK, StatusRecords, Specs
    <3> QED
      BY <2>2, <3>1 DEF EditSpec, RevisionRead, Observed, TypeOK
  <2>3. ASSUME spec' = spec, status' = status
        PROVE  RevisionRead'
    BY <2>3 DEF RevisionRead, Observed
  <2> QED
    BY <2>1, <2>2, <2>3
       DEF Next, vars, Controller, Environment, CreatePod, DeletePod, BecomeReady,
           StopBeingReady, Lose, NodeChange, OperatorDeletes
<1> QED
  BY <1>1, <1>2, TypeInvariant, PTL DEF Spec

\* What StatefulSetUpdate says of a partition that no ordinal reaches is true: until
\* somebody edits the spec no pod of the pending revision is created.
THEOREM PartitionBlocks == Spec => BlockedPartitionIsStuck
<1>1. TypeOK /\ RevisionRead /\ [Next]_vars
        => [PartitionBlocked /\ Observed /\ spec' = spec => Current' \subseteq Current]_vars
  <2> SUFFICES ASSUME TypeOK, RevisionRead, Next, PartitionBlocked, Observed, spec' = spec
               PROVE  Current' \subseteq Current
    BY DEF vars, Current, Running
  <2>1. ASSUME NEW s \in Slots, CreatePod(s)
        PROVE  Current' \subseteq Current
    <3>1. /\ spec.kind = "StatefulSet" /\ spec.strategy # "OnDelete"
          /\ spec.partition # Unset /\ spec.partition >= spec.replicas
          /\ status.currentRev # spec.rev
      BY DEF PartitionBlocked, PendingUpdate, Replicas, RevisionRead
    <3>2. s < spec.partition
      <4>1. s \in Wanted
        BY <2>1, <3>1 DEF CreatePod, MayCreate
      <4>2. spec.replicas \in ReplicaCounts /\ spec.partition \in Partitions
        BY DEF TypeOK, Specs
      <4>3. s \in Nat /\ spec.replicas \in Nat /\ spec.partition \in Nat
        BY <3>1, <4>2, SpecAssumption
      <4> QED
        BY <3>1, <4>1, <4>3 DEF Wanted
    <3>3. pods' = [pods EXCEPT ![s] = [rev |-> status.currentRev, health |-> "starting"]]
      BY <2>1, <3>1, <3>2 DEF CreatePod, RevisionFor
    <3> QED
      BY <3>1, <3>3 DEF TypeOK, Current, Running
  <2>2. ASSUME NEW s \in Slots, NEW pod, pods' = [pods EXCEPT ![s] = pod],
               (s \in Running /\ pod.rev = pods[s].rev) \/ pod = NoPod
        PROVE  Current' \subseteq Current
    <3> SUFFICES ASSUME NEW t \in Current'
                 PROVE  t \in Current
      OBVIOUS
    <3>1. t \in Slots /\ pods'[t] # NoPod /\ pods'[t].rev = spec.rev
      BY DEF Current, Running
    <3>2. CASE t = s
      BY <2>2, <3>1, <3>2 DEF TypeOK, Current, Running
    <3>3. CASE t # s
      BY <2>2, <3>1, <3>3 DEF TypeOK, Current, Running
    <3> QED
      BY <3>2, <3>3
  <2>3. ASSUME pods' = pods
        PROVE  Current' \subseteq Current
    BY <2>3 DEF Current, Running
  <2>4. ASSUME NEW s \in Slots, BecomeReady(s)
        PROVE  Current' \subseteq Current
    <3> DEFINE pod == [pods[s] EXCEPT !.health = "ready"]
    <3>1. pods' = [pods EXCEPT ![s] = pod] /\ s \in Running
      BY <2>4 DEF BecomeReady
    <3>2. pod.rev = pods[s].rev
      BY <3>1 DEF Running, TypeOK, PodStates, NoPod
    <3> HIDE DEF pod
    <3> QED
      BY <2>2, <3>1, <3>2
  <2>5. ASSUME NEW s \in Slots, StopBeingReady(s)
        PROVE  Current' \subseteq Current
    <3>1. PICK health : pods' = [pods EXCEPT ![s].health = health]
      BY <2>5 DEF StopBeingReady
    <3>2. s \in Running /\ [pods[s] EXCEPT !.health = health].rev = pods[s].rev
      BY <2>5 DEF StopBeingReady, Ready, TypeOK, PodStates, NoPod
    <3> DEFINE pod == [pods[s] EXCEPT !.health = health]
    <3>3. pods' = [pods EXCEPT ![s] = pod] /\ pod.rev = pods[s].rev
      BY <3>1, <3>2
    <3> HIDE DEF pod
    <3> QED
      BY <2>2, <3>2, <3>3
  <2>6. ASSUME NEW s \in Slots, DeletePod(s) \/ OperatorDeletes(s)
        PROVE  Current' \subseteq Current
    BY <2>2, <2>6 DEF DeletePod, OperatorDeletes
  <2>7. CASE SyncStatus \/ EditSpec \/ \E n \in Slots : NodeChange(n)
    BY <2>3, <2>7 DEF SyncStatus, EditSpec, NodeChange
  <2> QED
    BY <2>1, <2>4, <2>5, <2>6, <2>7 DEF Next, Controller, Environment
<1> QED
  BY <1>1, TypeInvariant, RevisionReadInvariant, PTL DEF Spec, BlockedPartitionIsStuck

=============================================================================
