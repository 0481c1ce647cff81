------------------------- MODULE RolloutWatchProofs -------------------------
(* Theorems about the observation loop, for any number of pods, any windows  *)
(* and any bounds.                                                           *)
EXTENDS RolloutWatch, TLAPS

-----------------------------------------------------------------------------
(* The operators on maps of pods stay within their types.                   *)

\* The restart counts of a map of pods are a map of counts.
LEMMA RestartCountsType ==
    ASSUME NEW ps \in PodMaps
    PROVE  RestartCounts(ps) \in Counts
<1>1. PICK S \in SUBSET Pods : ps \in [S -> PodStatus]
    BY DEF PodMaps
<1>2. DOMAIN ps = S
    BY <1>1
<1>3. \A u \in {v \in S : ps[v].rc >= 0} : ps[u].rc \in 0..MaxRestarts
    BY <1>1, BoundsAssumption DEF PodStatus
<1>4. RestartCounts(ps) \in [{v \in S : ps[v].rc >= 0} -> 0..MaxRestarts]
    BY <1>2, <1>3 DEF RestartCounts
<1> QED
    BY <1>4 DEF Counts

\* What observe remembers is a map of counts.
LEMMA ObserveType ==
    ASSUME TypeOK, Observe
    PROVE  seen' \in Counts /\ increased' \in BOOLEAN /\ calm' \in 0..MaxAge
<1> DEFINE cur == RestartCounts(pods)
<1>1. cur \in Counts
    BY RestartCountsType DEF TypeOK
<1>2. PICK S \in SUBSET Pods : cur \in [S -> 0..MaxRestarts]
    BY <1>1 DEF Counts
<1>3. PICK T \in SUBSET Pods : seen \in [T -> 0..MaxRestarts]
    BY DEF TypeOK, Counts
<1>4. \A u \in S : pods[u].rc = cur[u]
    BY <1>2 DEF RestartCounts
<1>5. seen' = [u \in T \cup S |-> IF u \in S THEN pods[u].rc ELSE seen[u]]
    BY <1>2, <1>3 DEF Observe
<1>6. \A u \in T \cup S : (IF u \in S THEN pods[u].rc ELSE seen[u]) \in 0..MaxRestarts
    BY <1>2, <1>3, <1>4
<1>7. seen' \in [T \cup S -> 0..MaxRestarts]
    BY <1>5, <1>6
<1>8. Increased(seen, pods) \in BOOLEAN
    BY DEF Increased
<1>9. seen' \in Counts
    BY <1>7 DEF Counts
<1>10. increased' \in BOOLEAN
    BY <1>8 DEF Observe, TypeOK
<1>11. calm' \in 0..MaxAge
    BY BoundsAssumption DEF Observe, TypeOK
<1> QED
    BY <1>9, <1>10, <1>11

\* A pod event keeps the cache a map of pods.
LEMMA ApplyType ==
    ASSUME NEW ps \in PodMaps, NEW e \in [uid : Pods, life : PodLife]
    PROVE  Apply(ps, e) \in PodMaps
<1>1. PICK S \in SUBSET Pods : ps \in [S -> PodStatus]
    BY DEF PodMaps
<1>2. CASE e.life.phase = "deleted"
    <2>1. Apply(ps, e) = [u \in S \ {e.uid} |-> ps[u]]
        BY <1>1, <1>2 DEF Apply
    <2>2. Apply(ps, e) \in [S \ {e.uid} -> PodStatus]
        BY <1>1, <2>1
    <2> QED
        BY <2>2 DEF PodMaps
<1>3. CASE e.life.phase # "deleted"
    <2>1. Apply(ps, e) =
            [u \in S \cup {e.uid} |-> IF u = e.uid THEN e.life.status ELSE ps[u]]
        BY <1>1, <1>3 DEF Apply
    <2>2. e.uid \in Pods /\ e.life.status \in PodStatus
        BY DEF PodLife
    <2>3. Apply(ps, e) \in [S \cup {e.uid} -> PodStatus]
        BY <1>1, <2>1, <2>2
    <2> QED
        BY <2>2, <2>3 DEF PodMaps
<1> QED
    BY <1>2, <1>3

\* What a List returns is a map of pods.
LEMMA ClusterPodsType ==
    ASSUME TypeOK
    PROVE  ClusterPods \in PodMaps
<1>1. \A u \in Live : podState[u].status \in PodStatus
    BY DEF TypeOK, Live, PodLife
<1>2. ClusterPods \in [Live -> PodStatus]
    BY <1>1 DEF ClusterPods
<1> QED
    BY <1>2 DEF PodMaps, Live

\* The empty maps, of counts and of pods, have their types.
LEMMA EmptyMaps == NoCounts \in Counts /\ NoPods \in PodMaps
<1>1. NoCounts \in [{} -> 0..MaxRestarts] /\ NoPods \in [{} -> PodStatus]
    BY DEF NoCounts, NoPods
<1> QED
    BY <1>1 DEF Counts, PodMaps

\* The Findings of a tick have Classes.
LEMMA DiagnosisType ==
    \A ps, c, eventsRead, sourcesRead : Diagnosis(ps, c, eventsRead, sourcesRead) \in SUBSET Classes
    BY DEF Diagnosis

\* The records of the timers, and what stopping them leaves.
LEMMA TimersType ==
    ASSUME NEW w \in Nat
    PROVE  /\ TimerOff \in [on : BOOLEAN, left : 0..w]
           /\ \A x \in 0..w : TimerOn(x) \in [on : BOOLEAN, left : 0..w]
           /\ TickerOff \in [on : BOOLEAN, left : -1..w, tick : BOOLEAN]
           /\ \A x \in 0..w : TickerOn(x) \in [on : BOOLEAN, left : -1..w, tick : BOOLEAN]
           /\ \A t \in [on : BOOLEAN, left : -1..w, tick : BOOLEAN] :
                 Elapse(t) \in [on : BOOLEAN, left : -1..w, tick : BOOLEAN]
    BY DEF TimerOff, TimerOn, TickerOff, TickerOn, Elapse

\* The part of TypeOK about the timers, which every tick rearranges.
WindowsOK ==
    /\ stab \in [on : BOOLEAN, left : 0..RestartedWindow]
    /\ base \in Counts
    /\ grace \in [on : BOOLEAN, left : -1..GraceWindow, tick : BOOLEAN]
    /\ settle \in [on : BOOLEAN, left : -1..RestartedWindow, tick : BOOLEAN]

\* Stopping every window leaves the timers well typed.
LEMMA StopAllType == StopAll => WindowsOK'
    BY TimersType, EmptyMaps, WindowsAssumption
       DEF StopAll, StopStability, StopGrace, StopSettle, WindowsOK

\* Returning an error, wherever the loop stands, keeps the types.
LEMMA ReturnErrorType ==
    ASSUME TypeOK, ReturnError, Observe \/ NotObserved
    PROVE  TypeOK'
<1>1. WindowsOK'
    BY StopAllType DEF ReturnError, Return
<1>2. seen' \in Counts /\ increased' \in BOOLEAN /\ calm' \in 0..MaxAge
    <2>1. CASE Observe
        BY <2>1, ObserveType
    <2>2. CASE NotObserved
        BY <2>2 DEF NotObserved, TypeOK
    <2> QED
        BY <2>1, <2>2
<1> QED
    BY <1>1, <1>2 DEF TypeOK, ReturnError, Return, WindowsOK, clusterVars, streamVars

\* A change of the cluster leaves the loop alone.
LEMMA ChangingType ==
    ASSUME TypeOK, Changing, ctl' \in Controllers, podState' \in [Pods -> PodLife],
           events' \in [Pods -> Notes], rejections' \subseteq Rejections,
           podQ' \in Seq([uid : Pods, life : PodLife]), ctlQ' \in Nat
    PROVE  TypeOK'
<1>1. changes' \in 0..MaxChanges
    BY BoundsAssumption DEF TypeOK, Changing
<1> QED
    BY <1>1 DEF TypeOK, Changing, loopVars, windowVars, historyVars

\* Any pod event that a change of the cluster sends has the type of the stream.
LEMMA PodChangesType ==
    ASSUME TypeOK, NEW u \in Pods, NEW life \in PodLife, PodChanges(u, life)
    PROVE  TypeOK'
<1>1. podState' \in [Pods -> PodLife]
    BY DEF PodChanges, TypeOK
<1>2. podQ' \in Seq([uid : Pods, life : PodLife])
    <2> DEFINE e == [uid |-> u, life |-> life]
    <2>1. e \in [uid : Pods, life : PodLife]
        OBVIOUS
    <2>2. podQ' = podQ \/ podQ' = Append(podQ, e)
        BY DEF PodChanges
    <2> DEFINE Entries == [uid : Pods, life : PodLife]
    <2>3. podQ \in Seq(Entries)
        BY DEF TypeOK
    <2> HIDE DEF e, Entries
    <2>4. Append(podQ, e) \in Seq(Entries)
        <3>1. e \in Entries
            BY <2>1 DEF Entries
        <3> QED
            BY <2>3, <3>1
    <2> QED
        BY <2>2, <2>3, <2>4 DEF Entries
<1>3. /\ ctl' \in Controllers /\ events' \in [Pods -> Notes]
      /\ rejections' \subseteq Rejections /\ ctlQ' \in Nat
    BY DEF PodChanges, TypeOK
<1>4. Changing
    BY DEF PodChanges
<1> QED
    BY <1>1, <1>2, <1>3, <1>4, ChangingType

\* Every window that a tick opens is one of the four the loop knows.
LEMMA TickType ==
    ASSUME TypeOK, NEW findings \in SUBSET Classes,
           Ambiguous(findings) \/ Held(findings) \/ Complete \/ Progressing
             \/ Return("cause", findings)
    PROVE  /\ WindowsOK'
           /\ pc' \in {"rv", "select", "done"}
           /\ verdict' \in {"none", "success", "ambiguous", "held", "cause", "error", "timeout"}
           /\ report' \subseteq Classes
<1> USE DEF TypeOK
<1>w. WindowsOK
    BY DEF WindowsOK
<1>n. GraceWindow \in 0..GraceWindow /\ PausedWindow \in 0..RestartedWindow
      /\ RestartedWindow \in 0..RestartedWindow /\ CleanWindow \in 0..RestartedWindow
    BY WindowsAssumption
<1>1. CASE Ambiguous(findings)
    <2>1. CASE Return("ambiguous", findings)
        BY <2>1, StopAllType DEF Return
    <2>2. CASE ~grace.on /\ grace' = TickerOn(GraceWindow) /\ StopStability /\ Resume
        BY <1>1, <1>n, <2>2, TimersType, EmptyMaps, WindowsAssumption
           DEF Ambiguous, StopSettle, StopStability, Resume, WindowsOK
    <2>3. CASE UNCHANGED grace /\ StopStability /\ Resume
        BY <1>1, <1>w, <2>3, TimersType, EmptyMaps, WindowsAssumption
           DEF Ambiguous, StopSettle, StopStability, Resume, WindowsOK
    <2> QED
        BY <1>1, <2>1, <2>2, <2>3 DEF Ambiguous
<1>2. CASE Held(findings)
    <2>1. CASE Return("held", findings)
        BY <2>1, StopAllType DEF Return
    <2>2. CASE /\ settle' = TickerOn(SettleWindow(AnyRestart(pods)))
               /\ StopStability /\ Resume
        <3>1. SettleWindow(AnyRestart(pods)) \in 0..RestartedWindow
            BY <1>n DEF SettleWindow
        <3>2. settle' \in [on : BOOLEAN, left : -1..RestartedWindow, tick : BOOLEAN]
            BY <2>2, <3>1, TimersType, WindowsAssumption
        <3> QED
            BY <1>2, <2>2, <3>2, TimersType, EmptyMaps, WindowsAssumption
               DEF Held, StopGrace, StopStability, Resume, WindowsOK
    <2>3. CASE UNCHANGED settle /\ StopStability /\ Resume
        BY <1>2, <1>w, <2>3, TimersType, EmptyMaps, WindowsAssumption
           DEF Held, StopGrace, StopStability, Resume, WindowsOK
    <2> QED
        BY <1>2, <2>1, <2>2, <2>3 DEF Held
<1>3. CASE Complete
    <2>1. base' \in Counts
        BY <1>3, <1>w, RestartCountsType DEF Complete, WindowsOK
    <2>2. StabilityWindow(increased) \in 0..RestartedWindow
        BY <1>n DEF StabilityWindow
    <2>3. stab' \in [on : BOOLEAN, left : 0..RestartedWindow]
        <3> DEFINE window == StabilityWindow(increased)
        <3>1. CASE UNCHANGED stab
            BY <1>w, <3>1 DEF WindowsOK
        <3>2. CASE stab' = TimerOn(window)
            <4> HIDE DEF window
            <4> QED
                BY <2>2, <3>2 DEF TimerOn, window
        <3> QED
            BY <1>3, <3>1, <3>2 DEF Complete
    <2>4. grace' \in [on : BOOLEAN, left : -1..GraceWindow, tick : BOOLEAN]
        BY <1>3, TimersType, WindowsAssumption DEF Complete, StopGrace
    <2>5. settle' \in [on : BOOLEAN, left : -1..RestartedWindow, tick : BOOLEAN]
        BY <1>3, TimersType, WindowsAssumption DEF Complete, StopSettle
    <2>6. WindowsOK'
        BY <2>1, <2>3, <2>4, <2>5 DEF WindowsOK
    <2> QED
        BY <1>3, <2>6 DEF Complete, Resume
<1>4. CASE Progressing
    BY <1>4, StopAllType DEF Progressing, Resume
<1>5. CASE Return("cause", findings)
    BY <1>5, StopAllType DEF Return
<1> QED
    BY <1>1, <1>2, <1>3, <1>4, <1>5

-----------------------------------------------------------------------------
(* The type invariant.                                                      *)

\* The loop starts well typed.
LEMMA InitType == Init => TypeOK
<1> SUFFICES ASSUME Init PROVE TypeOK
    OBVIOUS
<1>1. podState \in [Pods -> PodLife]
    <2>1. NewPod \in PodStatus
        BY BoundsAssumption DEF NewPod, PodStatus
    <2>2. InitialLives \subseteq PodLife
        BY <2>1 DEF InitialLives, PodLife
    <2> QED
        BY <2>2 DEF Init
<1>2. podQ \in Seq([uid : Pods, life : PodLife])
    BY DEF Init
<1>3. WindowsOK
    BY TimersType, EmptyMaps, WindowsAssumption DEF Init, WindowsOK
<1>4. streak \in [class : TickClasses \cup {"none"}, age : 0..MaxAge, known : Counts,
                  rst : BOOLEAN] /\ calm \in 0..MaxAge
    BY EmptyMaps, BoundsAssumption DEF Init
<1>5. changes \in 0..MaxChanges /\ relists \in 0..MaxRelists
    BY BoundsAssumption DEF Init
<1> QED
    BY <1>1, <1>2, <1>3, <1>4, <1>5, EmptyMaps DEF Init, TypeOK, WindowsOK

\* The List, the two Gets and the decision of a tick keep the types.
LEMMA SequentialType == TypeOK /\ Sequential => TypeOK'
<1> SUFFICES ASSUME TypeOK, Sequential PROVE TypeOK'
    OBVIOUS
<1>1. CASE ListPods
    <2>1. pods' \in PodMaps /\ podQ' \in Seq([uid : Pods, life : PodLife])
        BY <1>1, ClusterPodsType DEF ListPods
    <2>2. streak' \in [class : TickClasses \cup {"none"}, age : 0..MaxAge, known : Counts,
                       rst : BOOLEAN]
        BY <1>1, EmptyMaps, BoundsAssumption DEF ListPods
    <2> QED
        BY <1>1, <2>1, <2>2 DEF TypeOK, ListPods, clusterVars, windowVars
<1>2. CASE ReadController
    <2>1. seen' \in Counts /\ increased' \in BOOLEAN /\ calm' \in 0..MaxAge
        BY <1>2, ObserveType DEF ReadController
    <2> QED
        BY <1>2, <2>1 DEF TypeOK, ReadController, clusterVars, streamVars, windowVars
<1>3. ASSUME NEW eventsRead \in BOOLEAN, NEW sourcesRead \in BOOLEAN,
             Decide(eventsRead, sourcesRead)
      PROVE  TypeOK'
    <2> DEFINE findings == Diagnosis(pods, wl, eventsRead, sourcesRead)
               class == TickClass(findings, wl)
    <2>1. findings \in SUBSET Classes
        BY DiagnosisType
    <2> HIDE DEF findings
    <2>2. /\ Ambiguous(findings) \/ Held(findings) \/ Complete \/ Progressing
               \/ Return("cause", findings)
          /\ class \in TickClasses
          /\ streak' = NextStreak(class)
          /\ UNCHANGED <<clusterVars, streamVars, started, pods, wl, seen, increased, calm>>
        BY <1>3 DEF Decide, TickClasses, findings
    <2> HIDE DEF class
    <2>3. streak' \in [class : TickClasses \cup {"none"}, age : 0..MaxAge, known : Counts,
                       rst : BOOLEAN]
        <3>1. CASE streak' = streak
            BY <3>1 DEF TypeOK
        <3>2. CASE streak' = [class |-> class, age |-> 0, known |-> RestartCounts(pods),
                              rst |-> IF class = "held" THEN AnyRestart(pods) ELSE increased]
            <4>1. RestartCounts(pods) \in Counts
                BY RestartCountsType DEF TypeOK
            <4>2. (IF class = "held" THEN AnyRestart(pods) ELSE increased) \in BOOLEAN
                BY DEF TypeOK, AnyRestart
            <4> HIDE DEF WindowsOK
            <4> QED
                BY <2>2, <3>2, <4>1, <4>2, BoundsAssumption
        <3> QED
            BY <2>2, <3>1, <3>2 DEF NextStreak
    <2>4. /\ WindowsOK'
          /\ pc' \in {"rv", "select", "done"}
          /\ verdict' \in {"none", "success", "ambiguous", "held", "cause", "error", "timeout"}
          /\ report' \subseteq Classes
        BY <2>1, <2>2, TickType
    <2> QED
        BY <2>2, <2>3, <2>4 DEF TypeOK, WindowsOK, clusterVars, streamVars
<1>4. CASE ReadVersion
    BY <1>4 DEF TypeOK, ReadVersion, clusterVars, windowVars, historyVars
<1>5. CASE ListFails \/ ReadControllerFails \/ ReadVersionFails
    BY <1>5, ReturnErrorType DEF ListFails, ReadControllerFails, ReadVersionFails
<1> QED
    BY <1>1, <1>2, <1>3, <1>4, <1>5 DEF Sequential

\* Every branch of the select keeps the types.
LEMMA SelectType == TypeOK /\ Select => TypeOK'
<1> SUFFICES ASSUME TypeOK, Select PROVE TypeOK'
    OBVIOUS
<1>1. CASE ContextDone \/ StreamFails
    BY <1>1, ReturnErrorType DEF ContextDone, StreamFails
<1>2. CASE StabilityFires
    <2>1. WindowsOK'
        BY <1>2, StopAllType DEF StabilityFires, Return
    <2> QED
        BY <1>2, <2>1
           DEF TypeOK, StabilityFires, Return, WindowsOK, clusterVars, streamVars, historyVars
<1>3. CASE GracePoll
    <2>1. grace' \in [on : BOOLEAN, left : -1..GraceWindow, tick : BOOLEAN]
        BY <1>3 DEF GracePoll, TypeOK
    <2> QED
        BY <1>3, <2>1 DEF TypeOK, GracePoll, clusterVars, streamVars, historyVars
<1>4. CASE SettlePoll
    <2>1. settle' \in [on : BOOLEAN, left : -1..RestartedWindow, tick : BOOLEAN]
        BY <1>4 DEF SettlePoll, TypeOK
    <2> QED
        BY <1>4, <2>1 DEF TypeOK, SettlePoll, clusterVars, streamVars, historyVars
<1>5. CASE PodEvent
    <2> DEFINE Entries == [uid : Pods, life : PodLife]
    <2>1. podQ \in Seq(Entries) /\ podQ # <<>>
        BY <1>5 DEF TypeOK, PodEvent
    <2> HIDE DEF Entries
    <2>2. Head(podQ) \in Entries /\ Tail(podQ) \in Seq(Entries)
        BY <2>1
    <2>3. pods' \in PodMaps
        BY <1>5, <2>2, ApplyType DEF PodEvent, TypeOK, Entries
    <2>4. podQ' \in Seq([uid : Pods, life : PodLife])
        BY <1>5, <2>2 DEF PodEvent, Entries
    <2> QED
        BY <1>5, <2>3, <2>4 DEF TypeOK, PodEvent, clusterVars, windowVars, historyVars
<1>6. CASE ControllerEvent
    BY <1>6 DEF TypeOK, ControllerEvent, clusterVars, windowVars, historyVars
<1>7. CASE StreamExpires
    <2>1. WindowsOK'
        BY <1>7, StopAllType DEF StreamExpires
    <2>2. relists' \in 0..MaxRelists
        BY <1>7, BoundsAssumption DEF StreamExpires, TypeOK
    <2>3. podQ' \in Seq([uid : Pods, life : PodLife])
        BY <1>7 DEF StreamExpires
    <2>4. pods' \in PodMaps
        BY <1>7, EmptyMaps DEF StreamExpires
    <2> QED
        BY <1>7, <2>1, <2>2, <2>3, <2>4
           DEF TypeOK, StreamExpires, WindowsOK, clusterVars, historyVars
<1> QED
    BY <1>1, <1>2, <1>3, <1>4, <1>5, <1>6, <1>7 DEF Select

\* The cluster, the deadline and the clock keep the types.
LEMMA EnvironmentType == TypeOK /\ Environment => TypeOK'
<1> SUFFICES ASSUME TypeOK, Environment PROVE TypeOK'
    OBVIOUS
<1>0. NewPod \in PodStatus
    BY BoundsAssumption DEF NewPod, PodStatus
<1>1. ASSUME NEW u \in Pods, PodCreated(u) PROVE TypeOK'
    <2>1. [phase |-> "live", status |-> NewPod] \in PodLife
        BY <1>0 DEF PodLife
    <2> QED
        BY <1>1, <2>1, PodChangesType DEF PodCreated
<1>2. ASSUME NEW u \in Pods, PodUpdated(u) PROVE TypeOK'
    <2>1. PICK status \in PodStatus : PodChanges(u, [phase |-> "live", status |-> status])
        BY <1>2 DEF PodUpdated
    <2>2. [phase |-> "live", status |-> status] \in PodLife
        BY DEF PodLife
    <2> QED
        BY <2>1, <2>2, PodChangesType
<1>3. ASSUME NEW u \in Pods, PodDeleted(u) PROVE TypeOK'
    <2>1. [phase |-> "deleted", status |-> NewPod] \in PodLife
        BY <1>0 DEF PodLife
    <2> QED
        BY <1>3, <2>1, PodChangesType DEF PodDeleted
<1>4. ASSUME NEW u \in Pods, EventsChange(u) PROVE TypeOK'
    <2>1. events' \in [Pods -> Notes]
        BY <1>4 DEF EventsChange, TypeOK
    <2>2. Changing /\ UNCHANGED <<ctl, podState, rejections, podQ, ctlQ>>
        BY <1>4 DEF EventsChange
    <2>3. /\ ctl' \in Controllers /\ podState' \in [Pods -> PodLife]
          /\ rejections' \subseteq Rejections
          /\ podQ' \in Seq([uid : Pods, life : PodLife]) /\ ctlQ' \in Nat
        BY <2>2 DEF TypeOK
    <2> QED
        BY <2>1, <2>2, <2>3, ChangingType
<1>5. CASE RejectionsChange
    <2>1. Changing /\ UNCHANGED <<ctl, podState, events, podQ, ctlQ>>
          /\ rejections' \subseteq Rejections
        BY <1>5 DEF RejectionsChange
    <2>2. /\ ctl' \in Controllers /\ podState' \in [Pods -> PodLife]
          /\ events' \in [Pods -> Notes]
          /\ podQ' \in Seq([uid : Pods, life : PodLife]) /\ ctlQ' \in Nat
        BY <2>1 DEF TypeOK
    <2> QED
        BY <2>1, <2>2, ChangingType
<1>6. CASE ControllerChanges
    <2>1. Changing /\ UNCHANGED <<podState, events, rejections, podQ>>
          /\ ctl' \in Controllers /\ (ctlQ' = ctlQ + 1 \/ ctlQ' = ctlQ)
        BY <1>6 DEF ControllerChanges
    <2>2. /\ podState' \in [Pods -> PodLife] /\ rejections' \subseteq Rejections
          /\ events' \in [Pods -> Notes]
          /\ podQ' \in Seq([uid : Pods, life : PodLife]) /\ ctlQ' \in Nat
        BY <2>1 DEF TypeOK
    <2> QED
        BY <2>1, <2>2, ChangingType
<1>7. CASE DeadlinePasses
    BY <1>7 DEF TypeOK, DeadlinePasses, clusterVars, loopVars, windowVars, historyVars
<1>8. CASE Time
    <2>1. stab' \in [on : BOOLEAN, left : 0..RestartedWindow]
        <3>1. stab \in [on : BOOLEAN, left : 0..RestartedWindow] /\ RestartedWindow \in Nat
            BY WindowsAssumption DEF TypeOK
        <3>2. stab' = [stab EXCEPT !.left = IF stab.left > 0 THEN stab.left - 1 ELSE stab.left]
            BY <1>8 DEF Time
        <3>3. (IF stab.left > 0 THEN stab.left - 1 ELSE stab.left) \in 0..RestartedWindow
            BY <3>1
        <3> QED
            BY <3>1, <3>2, <3>3
    <2>2. grace' \in [on : BOOLEAN, left : -1..GraceWindow, tick : BOOLEAN]
        <3>1. grace \in [on : BOOLEAN, left : -1..GraceWindow, tick : BOOLEAN]
            BY DEF TypeOK
        <3>2. grace' = Elapse(grace)
            BY <1>8 DEF Time
        <3> QED
            BY <3>1, <3>2, TimersType, WindowsAssumption
    <2>3. settle' \in [on : BOOLEAN, left : -1..RestartedWindow, tick : BOOLEAN]
        <3>1. settle \in [on : BOOLEAN, left : -1..RestartedWindow, tick : BOOLEAN]
            BY DEF TypeOK
        <3>2. settle' = Elapse(settle)
            BY <1>8 DEF Time
        <3> QED
            BY <3>1, <3>2, TimersType, WindowsAssumption
    <2>4. streak' \in [class : TickClasses \cup {"none"}, age : 0..MaxAge, known : Counts,
                       rst : BOOLEAN]
        <3>1. streak \in [class : TickClasses \cup {"none"}, age : 0..MaxAge, known : Counts,
                          rst : BOOLEAN]
            BY DEF TypeOK
        <3>2. Aged(streak.age) \in 0..MaxAge
            BY <3>1, BoundsAssumption DEF Aged
        <3>3. streak' = [streak EXCEPT !.age = Aged(streak.age)]
            BY <1>8 DEF Time
        <3> QED
            BY <3>1, <3>2, <3>3
    <2>5. calm' \in 0..MaxAge
        BY <1>8, BoundsAssumption DEF Time, Aged, TypeOK
    <2> QED
        BY <1>8, <2>1, <2>2, <2>3, <2>4, <2>5 DEF TypeOK, Time, clusterVars, streamVars
<1> QED
    BY <1>1, <1>2, <1>3, <1>4, <1>5, <1>6, <1>7, <1>8 DEF Environment

\* Stuttering keeps every state predicate: here, the types.
LEMMA StutterType == TypeOK /\ UNCHANGED vars => TypeOK'
    BY DEF TypeOK, vars, clusterVars, streamVars, loopVars, windowVars, historyVars

\* Every variable of the observation loop keeps its type, whatever the cluster,
\* the API server and the clock do.
THEOREM TypeCorrect == Spec => []TypeOK
<1>1. TypeOK /\ [Next]_vars => TypeOK'
    BY SequentialType, SelectType, EnvironmentType, StutterType DEF Next, Terminated
<1> QED
    BY InitType, <1>1, PTL DEF Spec

-----------------------------------------------------------------------------
(* A verdict that waited is backed by an unbroken run of ticks.  The         *)
(* inductive invariant is WindowsMatchStreak with the types: a window never  *)
(* has less left than its run of ticks still lacks.                          *)

EvidenceInv == TypeOK /\ WindowsMatchStreak /\ EvidencePersisted

\* Steps that leave the windows, the run, and the place outside a tick alone.
LEMMA QuietStep ==
    ASSUME EvidenceInv, UNCHANGED <<windowVars, streak, verdict>>,
           pc # "done", pc' # "done", (pc \in {"list", "done"}) <=> (pc' \in {"list", "done"})
    PROVE  WindowsMatchStreak' /\ EvidencePersisted'
    BY DEF EvidenceInv, WindowsMatchStreak, EvidencePersisted, windowVars

\* Stuttering keeps the windows, the run and the verdict.
LEMMA StutterStep ==
    ASSUME EvidenceInv, UNCHANGED <<windowVars, streak, verdict, pc>>
    PROVE  WindowsMatchStreak' /\ EvidencePersisted'
    BY DEF EvidenceInv, WindowsMatchStreak, EvidencePersisted, windowVars

\* The end of the observation closes every window.
LEMMA ReturnStep ==
    ASSUME NEW v, NEW findings, Return(v, findings), EvidencePersisted'
    PROVE  WindowsMatchStreak' /\ EvidencePersisted'
    BY DEF Return, StopAll, StopStability, StopGrace, StopSettle, TimerOff, TickerOff,
           WindowsMatchStreak

\* Returning an error closes the windows and claims nothing of the run.
LEMMA ReturnErrorStep ==
    ASSUME ReturnError
    PROVE  WindowsMatchStreak' /\ EvidencePersisted'
    BY ReturnStep DEF ReturnError, Return, EvidencePersisted

\* A tick opens the window of its class at the start of a run, and keeps the run
\* and the window together otherwise.
LEMMA TickStep ==
    ASSUME EvidenceInv, NEW findings, NEW class, pc = "decide",
           \/ class = "ambiguous"   /\ Ambiguous(findings)
           \/ class = "held"        /\ Held(findings)
           \/ class = "complete"    /\ Complete
           \/ class = "progressing" /\ Progressing
           \/ class = "cause"       /\ Return("cause", findings),
           streak' = NextStreak(class), UNCHANGED <<pods, increased>>
    PROVE  WindowsMatchStreak' /\ EvidencePersisted'
<1> USE DEF EvidenceInv
<1> DEFINE fresh == [class |-> class, age |-> 0, known |-> RestartCounts(pods),
                     rst |-> IF class = "held" THEN AnyRestart(pods) ELSE increased]
<1>0. /\ verdict = "none"
      /\ stab.on <=> streak.class = "complete"
      /\ grace.on <=> streak.class = "ambiguous"
      /\ settle.on <=> streak.class = "held"
    BY DEF WindowsMatchStreak
<1>1. CASE class = "ambiguous" /\ Ambiguous(findings)
    <2>1. streak' = IF grace.on THEN streak ELSE fresh
        BY <1>0, <1>1 DEF NextStreak
    <2>2. CASE Return("ambiguous", findings) /\ grace.on /\ grace.left <= 0
        <3>1. streak' = streak /\ streak.class = "ambiguous" /\ streak.age >= GraceWindow
            BY <1>0, <2>1, <2>2, WindowsAssumption DEF WindowsMatchStreak, TypeOK
        <3>2. EvidencePersisted'
            BY <2>2, <3>1 DEF Return, EvidencePersisted
        <3> QED
            BY <2>2, <3>2, ReturnStep
    <2>3. CASE ~grace.on /\ grace' = TickerOn(GraceWindow) /\ StopStability /\ Resume
        BY <1>0, <1>1, <2>1, <2>3, WindowsAssumption
           DEF Ambiguous, StopSettle, StopStability, Resume, TimerOff, TickerOff, TickerOn,
               WindowsMatchStreak, EvidencePersisted
    <2>4. CASE grace.on /\ UNCHANGED grace /\ StopStability /\ Resume
        BY <1>0, <1>1, <2>1, <2>4
           DEF Ambiguous, StopSettle, StopStability, Resume, TimerOff, TickerOff,
               WindowsMatchStreak, EvidencePersisted
    <2> QED
        BY <1>1, <2>2, <2>3, <2>4 DEF Ambiguous
<1>2. CASE class = "held" /\ Held(findings)
    <2>1. streak' = IF settle.on THEN streak ELSE fresh
        BY <1>0, <1>2 DEF NextStreak
    <2>2. CASE Return("held", findings) /\ settle.on /\ settle.left <= 0
        <3>1. streak' = streak /\ streak.class = "held"
              /\ streak.age >= SettleWindow(streak.rst)
            BY <1>0, <2>1, <2>2, WindowsAssumption
               DEF WindowsMatchStreak, TypeOK, SettleWindow
        <3>2. EvidencePersisted'
            BY <2>2, <3>1 DEF Return, EvidencePersisted, SettleWindow
        <3> QED
            BY <2>2, <3>2, ReturnStep
    <2>3. CASE /\ ~settle.on /\ settle' = TickerOn(SettleWindow(AnyRestart(pods)))
               /\ StopStability /\ Resume
        <3>1. fresh.rst = AnyRestart(pods) /\ streak' = fresh
            BY <1>2, <2>1, <2>3
        <3>2. streak'.age + settle'.left >= SettleWindow(streak'.rst)
            BY <2>3, <3>1, WindowsAssumption DEF TickerOn, SettleWindow
        <3> QED
            BY <1>0, <1>2, <2>3, <3>1, <3>2
               DEF Held, StopGrace, StopStability, Resume, TimerOff, TickerOff, TickerOn,
                   WindowsMatchStreak, EvidencePersisted, SettleWindow
    <2>4. CASE settle.on /\ UNCHANGED settle /\ StopStability /\ Resume
        BY <1>0, <1>2, <2>1, <2>4
           DEF Held, StopGrace, StopStability, Resume, TimerOff, TickerOff,
               WindowsMatchStreak, EvidencePersisted, SettleWindow
    <2> QED
        BY <1>2, <2>2, <2>3, <2>4 DEF Held
<1>3. CASE class = "complete" /\ Complete
    <2>1. CASE stab.on /\ ~RestartedDuringWindow
        <3>1. streak' = streak
            BY <1>0, <1>3, <2>1 DEF NextStreak, RestartedDuringWindow, WindowsMatchStreak
        <3> QED
            BY <1>0, <1>3, <2>1, <3>1
               DEF Complete, StopGrace, StopSettle, Resume, TickerOff,
                   WindowsMatchStreak, EvidencePersisted
    <2>2. CASE ~(stab.on /\ ~RestartedDuringWindow)
        <3>1. streak' = fresh
            BY <1>0, <1>3, <2>2 DEF NextStreak, RestartedDuringWindow, WindowsMatchStreak
        <3>2. fresh.rst = increased
            BY <1>3
        <3>3. streak'.age + stab'.left >= StabilityWindow(streak'.rst)
            BY <1>3, <2>2, <3>1, <3>2, WindowsAssumption DEF Complete, TimerOn, StabilityWindow
        <3> QED
            BY <1>0, <1>3, <2>2, <3>1, <3>3
               DEF Complete, StopGrace, StopSettle, Resume, TickerOff, TimerOn,
                   WindowsMatchStreak, EvidencePersisted, StabilityWindow
    <2> QED
        BY <2>1, <2>2
<1>4. CASE class = "progressing" /\ Progressing
    <2>1. streak'.class = "progressing"
        BY <1>4 DEF NextStreak
    <2> QED
        BY <1>0, <1>4, <2>1
           DEF Progressing, StopAll, StopStability, StopGrace, StopSettle, Resume, TimerOff,
               TickerOff, WindowsMatchStreak, EvidencePersisted
<1>5. CASE class = "cause" /\ Return("cause", findings)
    BY <1>5, ReturnStep DEF Return, EvidencePersisted
<1> QED
    BY <1>1, <1>2, <1>3, <1>4, <1>5

\* The clock takes from a window what it adds to the age of the run.
LEMMA TimeStep ==
    ASSUME EvidenceInv, Time
    PROVE  WindowsMatchStreak' /\ EvidencePersisted'
<1> USE DEF EvidenceInv
<1>1. /\ streak'.class = streak.class /\ streak'.known = streak.known
      /\ streak'.rst = streak.rst
      /\ streak'.age = IF streak.age < MaxAge THEN streak.age + 1 ELSE streak.age
    BY DEF Time, TypeOK, Aged
<1>2. stab'.on = stab.on /\ stab'.left = IF stab.left > 0 THEN stab.left - 1 ELSE stab.left
    BY DEF Time, TypeOK
<1>3. grace'.on = grace.on /\ (grace.on => grace'.left \in {grace.left - 1, grace.left})
      /\ (grace.on /\ grace'.left # grace.left => grace.left >= 0)
    BY DEF Time, TypeOK, Elapse
<1>4. settle'.on = settle.on /\ (settle.on => settle'.left \in {settle.left - 1, settle.left})
      /\ (settle.on /\ settle'.left # settle.left => settle.left >= 0)
    BY DEF Time, TypeOK, Elapse
<1>5. /\ streak.age \in 0..MaxAge /\ stab.left \in 0..RestartedWindow
      /\ grace.left \in -1..GraceWindow /\ settle.left \in -1..RestartedWindow
    BY DEF TypeOK
<1>6. pc # "done" /\ pc' = pc /\ verdict' = verdict /\ base' = base
    BY DEF Time
<1>7. StabilityWindow(streak.rst) <= RestartedWindow /\ SettleWindow(streak.rst) <= RestartedWindow
      /\ StabilityWindow(streak.rst) \in Nat /\ SettleWindow(streak.rst) \in Nat
    BY WindowsAssumption DEF StabilityWindow, SettleWindow
<1>8. stab.on => streak'.age + stab'.left >= StabilityWindow(streak.rst)
    BY <1>1, <1>2, <1>5, <1>7, WindowsAssumption, BoundsAssumption DEF WindowsMatchStreak
<1>9. grace.on => streak'.age + grace'.left >= GraceWindow
    BY <1>1, <1>3, <1>5, WindowsAssumption, BoundsAssumption DEF WindowsMatchStreak
<1>10. settle.on => streak'.age + settle'.left >= SettleWindow(streak.rst)
    BY <1>1, <1>4, <1>5, <1>7, WindowsAssumption, BoundsAssumption DEF WindowsMatchStreak
<1> QED
    BY <1>1, <1>2, <1>3, <1>4, <1>6, <1>8, <1>9, <1>10
       DEF WindowsMatchStreak, EvidencePersisted, StabilityWindow, SettleWindow

\* Every step keeps the windows and the run together, and earns its verdict.
LEMMA EvidenceStep == EvidenceInv /\ [Next]_vars => WindowsMatchStreak' /\ EvidencePersisted'
<1> SUFFICES ASSUME EvidenceInv, [Next]_vars
             PROVE  WindowsMatchStreak' /\ EvidencePersisted'
    OBVIOUS
<1>1. CASE Sequential
    <2>1. CASE ListPods
        BY <1>1, <2>1
           DEF ListPods, EvidenceInv, WindowsMatchStreak, EvidencePersisted, windowVars
    <2>2. CASE ReadController
        BY <2>2, QuietStep DEF ReadController
    <2>3. ASSUME NEW eventsRead \in BOOLEAN, NEW sourcesRead \in BOOLEAN,
                 Decide(eventsRead, sourcesRead)
          PROVE  WindowsMatchStreak' /\ EvidencePersisted'
        <3> DEFINE findings == Diagnosis(pods, wl, eventsRead, sourcesRead)
                   class == TickClass(findings, wl)
        <3>1. /\ pc = "decide"
              /\ \/ class = "ambiguous"   /\ Ambiguous(findings)
                 \/ class = "held"        /\ Held(findings)
                 \/ class = "complete"    /\ Complete
                 \/ class = "progressing" /\ Progressing
                 \/ class = "cause"       /\ Return("cause", findings)
              /\ streak' = NextStreak(class)
              /\ UNCHANGED <<pods, increased>>
            BY <2>3 DEF Decide
        <3> HIDE DEF findings, class
        <3> QED
            BY <3>1, TickStep
    <2>4. CASE ReadVersion
        BY <2>4, QuietStep DEF ReadVersion, historyVars
    <2>5. CASE ListFails \/ ReadControllerFails \/ ReadVersionFails
        BY <2>5, ReturnErrorStep DEF ListFails, ReadControllerFails, ReadVersionFails
    <2> QED
        BY <1>1, <2>1, <2>2, <2>3, <2>4, <2>5 DEF Sequential
<1>2. CASE Select
    <2>1. CASE ContextDone \/ StreamFails
        BY <2>1, ReturnErrorStep DEF ContextDone, StreamFails
    <2>2. CASE StabilityFires
        <3>1. streak.class = "complete" /\ streak.age >= StabilityWindow(streak.rst)
            BY <2>2, WindowsAssumption
               DEF StabilityFires, EvidenceInv, WindowsMatchStreak, TypeOK, StabilityWindow
        <3>2. EvidencePersisted'
            BY <2>2, <3>1
               DEF StabilityFires, Return, historyVars, EvidencePersisted, StabilityWindow
        <3> QED
            BY <2>2, <3>2, ReturnStep DEF StabilityFires
    <2>3. CASE GracePoll
        BY <2>3 DEF GracePoll, EvidenceInv, TypeOK, WindowsMatchStreak, EvidencePersisted,
                    historyVars
    <2>4. CASE SettlePoll
        BY <2>4 DEF SettlePoll, EvidenceInv, TypeOK, WindowsMatchStreak, EvidencePersisted,
                    historyVars
    <2>5. CASE PodEvent
        BY <2>5, QuietStep DEF PodEvent, historyVars
    <2>6. CASE ControllerEvent
        BY <2>6, QuietStep DEF ControllerEvent, historyVars
    <2>7. CASE StreamExpires
        BY <2>7 DEF StreamExpires, StopAll, StopStability, StopGrace, StopSettle, TimerOff,
                    TickerOff, EvidenceInv, WindowsMatchStreak, EvidencePersisted, historyVars
    <2> QED
        BY <1>2, <2>1, <2>2, <2>3, <2>4, <2>5, <2>6, <2>7 DEF Select
<1>3. CASE Environment
    <2>1. CASE Changing
        BY <2>1, StutterStep DEF Changing, loopVars, historyVars
    <2>2. CASE DeadlinePasses
        BY <2>2, StutterStep DEF DeadlinePasses, loopVars, historyVars
    <2>3. CASE Time
        BY <2>3, TimeStep
    <2> QED
        BY <1>3, <2>1, <2>2, <2>3
           DEF Environment, PodCreated, PodUpdated, PodDeleted, EventsChange, PodChanges,
               RejectionsChange, ControllerChanges
<1>4. CASE UNCHANGED vars
    BY <1>4, StutterStep DEF vars, loopVars, historyVars
<1> QED
    BY <1>1, <1>2, <1>3, <1>4 DEF Next, Terminated

\* The observation ends with "success", "ambiguous" or "held" only after an
\* unbroken run of ticks of that class that lasted for the whole of its window.
THEOREM VerdictsAreEarned == Spec => [](WindowsMatchStreak /\ EvidencePersisted)
<1>1. Init => EvidenceInv
    <2> SUFFICES ASSUME Init PROVE WindowsMatchStreak /\ EvidencePersisted
        BY InitType DEF EvidenceInv
    <2> QED
        BY DEF Init, TimerOff, TickerOff, WindowsMatchStreak, EvidencePersisted
<1>2. EvidenceInv /\ [Next]_vars => EvidenceInv'
    BY EvidenceStep, SequentialType, SelectType, EnvironmentType, StutterType
       DEF EvidenceInv, Next, Terminated
<1>3. EvidenceInv => WindowsMatchStreak /\ EvidencePersisted
    BY DEF EvidenceInv
<1> QED
    BY <1>1, <1>2, <1>3, PTL DEF Spec

-----------------------------------------------------------------------------
(* The observation loop implements RolloutVerdict.                           *)

\* Steps that touch neither the run, nor the restart memory, nor the verdict.
LEMMA PromiseStutter ==
    ASSUME UNCHANGED <<streak, increased, verdict>>
    PROVE  UNCHANGED Promise!vars
    BY DEF Promise!vars

\* What is observed of restarts is never forgotten.
LEMMA ObserveKeeps ==
    ASSUME TypeOK, Observe \/ NotObserved
    PROVE  increased' \in {increased, TRUE}
<1>1. increased \in BOOLEAN
    BY DEF TypeOK
<1>2. CASE NotObserved
    BY <1>2 DEF NotObserved
<1>3. CASE Observe
    <2>1. increased' = (increased \/ Increased(seen, pods))
        BY <1>3 DEF Observe
    <2>2. CASE increased
        BY <1>1, <2>1, <2>2
    <2>3. CASE ~increased /\ Increased(seen, pods)
        BY <2>1, <2>3
    <2>4. CASE ~increased /\ ~Increased(seen, pods)
        BY <1>1, <2>1, <2>4
    <2> QED
        BY <2>2, <2>3, <2>4
<1> QED
    BY <1>2, <1>3

\* A failed call stops the observation.
LEMMA StopsPromise ==
    ASSUME TypeOK, verdict = "none", ReturnError, Observe \/ NotObserved
    PROVE  Promise!Stop
<1>1. UNCHANGED streak /\ verdict' \in {"error", "timeout"}
    BY DEF ReturnError, Return
<1>2. increased' \in {increased, TRUE}
    BY ObserveKeeps
<1> QED
    BY <1>1, <1>2 DEF Promise!Stop, Promise!Open, Promise!Continue

\* A tick of a class sees that class, or concludes the run of it.
LEMMA TickKeepsPromise ==
    ASSUME EvidenceInv, NEW findings, NEW c, pc = "decide",
           \/ c = "ambiguous"   /\ Ambiguous(findings)
           \/ c = "held"        /\ Held(findings)
           \/ c = "complete"    /\ Complete
           \/ c = "progressing" /\ Progressing
           \/ c = "cause"       /\ Return("cause", findings),
           streak' = NextStreak(c), UNCHANGED <<pods, increased>>
    PROVE  Promise!Next
<1>1. /\ verdict = "none"
      /\ grace.on <=> streak.class = "ambiguous"
      /\ settle.on <=> streak.class = "held"
      /\ grace.on => streak.age + grace.left >= GraceWindow
      /\ settle.on => streak.age + settle.left >= SettleWindow(streak.rst)
    BY DEF EvidenceInv, WindowsMatchStreak
<1>2. /\ streak.age \in Nat /\ grace.left \in Int /\ settle.left \in Int
      /\ increased \in BOOLEAN /\ streak.rst \in BOOLEAN
    BY WindowsAssumption, BoundsAssumption DEF EvidenceInv, TypeOK
<1>3. \/ c = streak.class /\ streak' = streak
      \/ /\ streak'.class = c /\ streak'.age = 0 /\ streak'.rst \in BOOLEAN
         /\ c # "held" => streak'.rst = increased
    <2>1. CASE streak' = streak /\ c = streak.class
        BY <2>1
    <2>2. CASE streak' = [class |-> c, age |-> 0, known |-> RestartCounts(pods),
                          rst |-> IF c = "held" THEN AnyRestart(pods) ELSE increased]
        <3>1. AnyRestart(pods) \in BOOLEAN
            BY DEF AnyRestart
        <3>2. /\ streak'.class = c /\ streak'.age = 0
              /\ streak'.rst = IF c = "held" THEN AnyRestart(pods) ELSE increased
            BY <2>2
        <3> QED
            BY <1>2, <3>1, <3>2
    <2> QED
        BY <2>1, <2>2 DEF NextStreak
<1>4. (c = streak.class /\ Promise!Continue) \/ Promise!Begin(c)
    BY <1>3 DEF Promise!Continue, Promise!Begin
<1>5. CASE UNCHANGED verdict /\ c # "cause"
    <2>1. Promise!See(c)
        BY <1>1, <1>4, <1>5 DEF Promise!See, Promise!Open
    <2> QED
        BY <1>5, <2>1 DEF Promise!Next
<1>6. CASE c = "cause" /\ Return("cause", findings)
    BY <1>1, <1>4, <1>6 DEF Return, Promise!SeeCause, Promise!Open, Promise!Next
<1>7. CASE c = "ambiguous" /\ Return("ambiguous", findings) /\ grace.on /\ grace.left <= 0
    <2>1. streak' = streak /\ streak.class = "ambiguous" /\ streak.age >= GraceWindow
        BY <1>1, <1>2, <1>7, WindowsAssumption DEF NextStreak
    <2>2. verdict' = "ambiguous"
        BY <1>7 DEF Return
    <2> QED
        BY <1>1, <2>1, <2>2
           DEF Promise!Next, Promise!Conclude, Promise!Open, Promise!Continue, Promise!Needed
<1>8. CASE c = "held" /\ Return("held", findings) /\ settle.on /\ settle.left <= 0
    <2>1. streak' = streak /\ streak.class = "held"
          /\ streak.age >= SettleWindow(streak.rst)
        BY <1>1, <1>2, <1>8, WindowsAssumption DEF NextStreak, SettleWindow
    <2>2. verdict' = "held"
        BY <1>8 DEF Return
    <2> QED
        BY <1>1, <2>1, <2>2
           DEF Promise!Next, Promise!Conclude, Promise!Open, Promise!Continue, Promise!Needed,
               SettleWindow
<1> QED
    BY <1>5, <1>6, <1>7, <1>8
       DEF Ambiguous, Held, Complete, Progressing, Resume

\* Every step of the loop is one of the promise, or none.
LEMMA StepKeepsPromise == EvidenceInv /\ [Next]_vars => [Promise!Next]_(Promise!vars)
<1> SUFFICES ASSUME EvidenceInv, [Next]_vars
             PROVE  Promise!Next \/ UNCHANGED Promise!vars
    OBVIOUS
<1> USE DEF EvidenceInv
<1>0. pc # "done" => verdict = "none"
    BY DEF WindowsMatchStreak
<1>1. CASE Sequential
    <2>1. CASE ListPods
        BY <1>0, <2>1
           DEF ListPods, Promise!Next, Promise!Forget, Promise!Open
    <2>2. CASE ReadController
        <3>1. UNCHANGED <<streak, verdict>> /\ verdict = "none" /\ Observe
            BY <1>0, <2>2 DEF ReadController
        <3>2. increased' \in {increased, TRUE}
            BY <3>1, ObserveKeeps
        <3> QED
            BY <3>1, <3>2, PromiseStutter
               DEF Promise!Next, Promise!SeeRestart, Promise!Open, Promise!Continue
    <2>3. ASSUME NEW eventsRead \in BOOLEAN, NEW sourcesRead \in BOOLEAN,
                 Decide(eventsRead, sourcesRead)
          PROVE  Promise!Next
        <3> DEFINE findings == Diagnosis(pods, wl, eventsRead, sourcesRead)
                   c == TickClass(findings, wl)
        <3>1. /\ pc = "decide"
              /\ \/ c = "ambiguous"   /\ Ambiguous(findings)
                 \/ c = "held"        /\ Held(findings)
                 \/ c = "complete"    /\ Complete
                 \/ c = "progressing" /\ Progressing
                 \/ c = "cause"       /\ Return("cause", findings)
              /\ streak' = NextStreak(c)
              /\ UNCHANGED <<pods, increased>>
            BY <2>3 DEF Decide
        <3> HIDE DEF findings, c
        <3> QED
            BY <3>1, TickKeepsPromise
    <2>4. CASE ReadVersion
        BY <2>4, PromiseStutter DEF ReadVersion, historyVars
    <2>5. CASE ListFails \/ ReadControllerFails \/ ReadVersionFails
        <3>1. verdict = "none" /\ ReturnError /\ (Observe \/ NotObserved)
            BY <1>0, <2>5 DEF ListFails, ReadControllerFails, ReadVersionFails
        <3> QED
            BY <3>1, StopsPromise DEF Promise!Next
    <2> QED
        BY <1>1, <2>1, <2>2, <2>3, <2>4, <2>5 DEF Sequential
<1>2. CASE Select
    <2>1. CASE ContextDone \/ StreamFails
        <3>1. verdict = "none" /\ ReturnError /\ NotObserved
            BY <1>0, <2>1 DEF ContextDone, StreamFails
        <3> QED
            BY <3>1, StopsPromise DEF Promise!Next
    <2>2. CASE StabilityFires
        <3>1. streak.class = "complete" /\ streak.age >= StabilityWindow(streak.rst)
            BY <2>2, WindowsAssumption
               DEF StabilityFires, WindowsMatchStreak, TypeOK, StabilityWindow
        <3>2. verdict = "none" /\ verdict' = "success" /\ UNCHANGED <<streak, increased>>
            BY <1>0, <2>2 DEF StabilityFires, Return, historyVars
        <3> QED
            BY <3>1, <3>2
               DEF Promise!Next, Promise!Conclude, Promise!Open, Promise!Continue,
                   Promise!Needed, StabilityWindow
    <2>3. CASE GracePoll \/ SettlePoll \/ PodEvent \/ ControllerEvent \/ StreamExpires
        BY <2>3, PromiseStutter
           DEF GracePoll, SettlePoll, PodEvent, ControllerEvent, StreamExpires, historyVars
    <2> QED
        BY <1>2, <2>1, <2>2, <2>3 DEF Select
<1>3. CASE Environment
    <2>1. CASE Changing \/ DeadlinePasses
        BY <2>1, PromiseStutter DEF Changing, DeadlinePasses, loopVars, historyVars
    <2>2. CASE Time
        <3>1. streak' = [streak EXCEPT !.age = Aged(streak.age)] /\ UNCHANGED <<increased, verdict>>
            BY <2>2 DEF Time
        <3>2. /\ UNCHANGED <<streak.class, streak.rst>>
              /\ streak'.age = IF streak.age < MaxAge THEN streak.age + 1 ELSE streak.age
            BY <3>1 DEF Aged, TypeOK
        <3>3. verdict = "none"
            BY <1>0, <2>2 DEF Time
        <3> QED
            BY <3>1, <3>2, <3>3 DEF Promise!Next, Promise!Pass, Promise!Open, Promise!vars
    <2> QED
        BY <1>3, <2>1, <2>2
           DEF Environment, PodCreated, PodUpdated, PodDeleted, EventsChange, PodChanges,
               RejectionsChange, ControllerChanges
<1>4. CASE UNCHANGED vars
    BY <1>4, PromiseStutter DEF vars, loopVars, historyVars
<1> QED
    BY <1>1, <1>2, <1>3, <1>4 DEF Next, Terminated

\* The loop keeps the promise of RolloutVerdict for any windows, pods and faults: a
\* verdict is final, it is earned by the run of ticks it is about, and every run
\* after a restart needs the longer window.
THEOREM PromiseKept == Spec => KeepsPromise
<1>1. Init => Promise!Init
    BY DEF Init, Promise!Init
<1>2. Spec => []EvidenceInv
    BY TypeCorrect, VerdictsAreEarned, PTL DEF EvidenceInv
<1> QED
    BY <1>1, <1>2, StepKeepsPromise, PTL DEF Spec, KeepsPromise, Promise!Spec

-----------------------------------------------------------------------------
(* When the controller does not change between the two reads of it, the      *)
(* loop never waits on a stale judgement and never declares a stale success. *)

\* started tells the two halves of a life of the loop apart, and an open
\* stability window means that the controller last judged was complete.
ControllerInv ==
    /\ pc \in {"list", "rv"} => ~started
    /\ pc = "select" => started
    /\ pc \in {"decide", "rv", "select"} => wl = ctl \/ (started /\ ctlQ > 0)
    /\ pc \in {"tick", "rv", "select"} /\ stab.on => wl.complete
    /\ pc # "done" => verdict = "none"
    /\ pc = "list" => ~stab.on
    /\ SuccessIsCurrent

\* A tick judges the controller it has just read.
LEMMA TickControllerStep ==
    ASSUME TypeOK, ControllerInv,
           NEW eventsRead \in BOOLEAN, NEW sourcesRead \in BOOLEAN,
           Decide(eventsRead, sourcesRead)
    PROVE  ControllerInv'
<1> DEFINE findings == Diagnosis(pods, wl, eventsRead, sourcesRead)
           class == TickClass(findings, wl)
<1>1. /\ pc = "decide"
      /\ \/ class = "ambiguous"   /\ Ambiguous(findings)
         \/ class = "held"        /\ Held(findings)
         \/ class = "complete"    /\ Complete
         \/ class = "progressing" /\ Progressing
         \/ class = "cause"       /\ Return("cause", findings)
      /\ UNCHANGED <<clusterVars, streamVars, started, wl>>
    BY DEF Decide
<1>2. class = "complete" => wl.complete
    BY DEF TickClass
<1> HIDE DEF findings, class
<1>3. CASE \E v \in {"ambiguous", "held", "cause"} : Return(v, findings)
    BY <1>1, <1>3 DEF Return, ControllerInv, SuccessIsCurrent, clusterVars, streamVars
<1>4. CASE StopStability /\ Resume
    BY <1>1, <1>4
       DEF StopStability, TimerOff, Resume, ControllerInv, SuccessIsCurrent, clusterVars,
           streamVars
<1>5. CASE class = "complete" /\ Resume
    BY <1>1, <1>2, <1>5 DEF Resume, ControllerInv, SuccessIsCurrent, clusterVars, streamVars
<1> QED
    BY <1>1, <1>3, <1>4, <1>5 DEF Ambiguous, Held, Complete, Progressing, StopAll

\* An error ends the observation and says nothing of the controller.
LEMMA ReturnErrorController == ReturnError => ControllerInv'
    BY DEF ReturnError, Return, ControllerInv, SuccessIsCurrent

\* Every step keeps what the loop judged current, or the news of it under way.
LEMMA ControllerStep ==
    ASSUME TypeOK, ControllerInv, ~GapChanges, [Next]_vars
    PROVE  ControllerInv'
<1>1. CASE Sequential
    <2>1. CASE ListPods
        BY <2>1 DEF ListPods, ControllerInv, SuccessIsCurrent, clusterVars, windowVars
    <2>2. CASE ReadController
        BY <2>2 DEF ReadController, ControllerInv, SuccessIsCurrent, clusterVars, streamVars,
                    windowVars
    <2>3. CASE ReadVersion
        BY <2>3 DEF ReadVersion, ControllerInv, SuccessIsCurrent, clusterVars, windowVars
    <2>4. CASE ListFails \/ ReadControllerFails \/ ReadVersionFails
        BY <2>4, ReturnErrorController DEF ListFails, ReadControllerFails, ReadVersionFails
    <2> QED
        BY <1>1, <2>1, <2>2, <2>3, <2>4, TickControllerStep DEF Sequential
<1>2. CASE Select
    <2>1. CASE ContextDone \/ StreamFails
        BY <2>1, ReturnErrorController DEF ContextDone, StreamFails
    <2>2. CASE StabilityFires
        <3>1. ctl.complete \/ ctlQ > 0
            BY <2>2 DEF StabilityFires, ControllerInv
        <3> QED
            BY <2>2, <3>1 DEF StabilityFires, Return, ControllerInv, SuccessIsCurrent,
                              clusterVars, streamVars
    <2>3. CASE GracePoll
        BY <2>3 DEF GracePoll, ControllerInv, SuccessIsCurrent, clusterVars, streamVars
    <2>4. CASE SettlePoll
        BY <2>4 DEF SettlePoll, ControllerInv, SuccessIsCurrent, clusterVars, streamVars
    <2>5. CASE PodEvent
        BY <2>5 DEF PodEvent, ControllerInv, SuccessIsCurrent, clusterVars, windowVars
    <2>6. CASE ControllerEvent
        BY <2>6 DEF ControllerEvent, ControllerInv, SuccessIsCurrent, clusterVars, windowVars
    <2>7. CASE StreamExpires
        BY <2>7 DEF StreamExpires, StopAll, StopStability, TimerOff, ControllerInv,
                    SuccessIsCurrent, clusterVars
    <2> QED
        BY <1>2, <2>1, <2>2, <2>3, <2>4, <2>5, <2>6, <2>7 DEF Select
<1>3. CASE Environment
    <2>1. CASE ControllerChanges
        <3>1. /\ pc # "done" /\ pc' = pc /\ started' = started /\ wl' = wl /\ stab' = stab
              /\ verdict' = verdict
            BY <2>1 DEF ControllerChanges, Changing, loopVars, windowVars
        <3>2. started \/ pc \notin {"decide", "rv"}
            BY <2>1 DEF ControllerChanges, Gap
        <3>3. started => ctlQ' > 0
            BY <2>1 DEF ControllerChanges, TypeOK
        <3> QED
            BY <3>1, <3>2, <3>3 DEF ControllerInv, SuccessIsCurrent
    <2>2. CASE Changing /\ UNCHANGED <<ctl, ctlQ>>
        BY <2>2 DEF Changing, loopVars, windowVars, ControllerInv, SuccessIsCurrent
    <2>3. CASE DeadlinePasses
        BY <2>3 DEF DeadlinePasses, loopVars, windowVars, clusterVars, ControllerInv,
                    SuccessIsCurrent
    <2>4. CASE Time
        <3>1. stab'.on = stab.on
            BY <2>4 DEF Time, TypeOK
        <3> QED
            BY <2>4, <3>1 DEF Time, clusterVars, streamVars, ControllerInv, SuccessIsCurrent
    <2> QED
        BY <1>3, <2>1, <2>2, <2>3, <2>4
           DEF Environment, PodCreated, PodUpdated, PodDeleted, EventsChange, PodChanges,
               RejectionsChange
<1>4. CASE UNCHANGED vars
    BY <1>4 DEF vars, clusterVars, streamVars, loopVars, windowVars, ControllerInv,
                SuccessIsCurrent
<1> QED
    BY <1>1, <1>2, <1>3, <1>4 DEF Next, Terminated

\* As long as the controller does not change between the reads of the first tick
\* and the read of its version, a waiting loop has judged it as it is or is about
\* to be told, and success is never declared of a controller that is known to
\* have stopped being complete.
THEOREM ControllerIsFollowed ==
    ASSUME ~GapChanges
    PROVE  Spec => [](ControllerReadIsCurrent /\ SuccessIsCurrent)
<1>1. Init => TypeOK /\ ControllerInv
    <2> SUFFICES ASSUME Init PROVE ControllerInv
        BY InitType
    <2> QED
        BY DEF Init, TimerOff, ControllerInv, SuccessIsCurrent
<1>2. TypeOK /\ ControllerInv /\ [Next]_vars => (TypeOK /\ ControllerInv)'
    BY ControllerStep, SequentialType, SelectType, EnvironmentType, StutterType
       DEF Next, Terminated
<1>3. ControllerInv => ControllerReadIsCurrent /\ SuccessIsCurrent
    BY DEF ControllerInv, ControllerReadIsCurrent
<1> QED
    BY <1>1, <1>2, <1>3, PTL DEF Spec

-----------------------------------------------------------------------------
(* The pod cache and the pod stream together are always the cluster.        *)

\* No event of the stream is about a pod that was never created.
ReplayInv ==
    /\ \A i \in DOMAIN podQ : podQ[i].life.phase \in {"live", "deleted"}
    /\ PodCacheReplays

\* A change of pod u is the last word of the stream about u, and about u alone.
LEMMA AppendReplays ==
    ASSUME TypeOK, ReplayInv, NEW u \in Pods, NEW life \in PodLife,
           life.phase \in {"live", "deleted"}, PodChanges(u, life)
    PROVE  ReplayInv'
<1> DEFINE e == [uid |-> u, life |-> life]
           Entries == [uid : Pods, life : PodLife]
<1>1. /\ pc' = pc /\ pods' = pods /\ pc # "done"
      /\ podState' = [podState EXCEPT ![u] = life]
      /\ podQ' = IF pc = "list" THEN podQ ELSE Append(podQ, e)
    BY DEF PodChanges, Changing, loopVars
<1>2. podQ \in Seq(Entries) /\ podState \in [Pods -> PodLife]
    BY DEF TypeOK
<1>3. e \in Entries /\ e.uid = u /\ e.life = life
    OBVIOUS
<1> HIDE DEF e, Entries
<1>4. CASE pc = "list"
    BY <1>1, <1>4 DEF ReplayInv, PodCacheReplays
<1>5. CASE pc # "list"
    <2>1. /\ Len(podQ) \in Nat /\ DOMAIN podQ = 1..Len(podQ)
          /\ DOMAIN podQ' = 1..(Len(podQ) + 1)
          /\ podQ'[Len(podQ) + 1] = e
          /\ \A i \in DOMAIN podQ : podQ'[i] = podQ[i]
        BY <1>1, <1>2, <1>3, <1>5
    <2>2. \A i \in DOMAIN podQ' : podQ'[i].life.phase \in {"live", "deleted"}
        BY <1>3, <2>1 DEF ReplayInv
    <2>3. ASSUME NEW v \in Pods
          PROVE  \/ \E i \in DOMAIN podQ' :
                       /\ podQ'[i].uid = v /\ podQ'[i].life = podState'[v]
                       /\ \A j \in DOMAIN podQ' : podQ'[j].uid = v => j <= i
                 \/ /\ \A i \in DOMAIN podQ' : podQ'[i].uid # v
                    /\ v \in DOMAIN pods' <=> podState'[v].phase = "live"
                    /\ v \in DOMAIN pods' => pods'[v] = podState'[v].status
        <3>1. CASE v = u
            <4>1. podQ'[Len(podQ) + 1].uid = v /\ podQ'[Len(podQ) + 1].life = podState'[v]
                BY <1>1, <1>2, <1>3, <2>1, <3>1
            <4> QED
                BY <2>1, <4>1
        <3>2. CASE v # u
            <4>1. podState'[v] = podState[v] /\ podQ'[Len(podQ) + 1].uid # v
                BY <1>1, <1>2, <1>3, <2>1, <3>2
            <4>2. CASE \E i \in DOMAIN podQ :
                          /\ podQ[i].uid = v /\ podQ[i].life = podState[v]
                          /\ \A j \in DOMAIN podQ : podQ[j].uid = v => j <= i
                <5>1. PICK i \in DOMAIN podQ :
                          /\ podQ[i].uid = v /\ podQ[i].life = podState[v]
                          /\ \A j \in DOMAIN podQ : podQ[j].uid = v => j <= i
                    BY <4>2
                <5>2. \A j \in DOMAIN podQ' : podQ'[j].uid = v => j <= i
                    BY <2>1, <4>1, <5>1
                <5> QED
                    BY <2>1, <4>1, <5>1, <5>2
            <4>3. CASE /\ \A i \in DOMAIN podQ : podQ[i].uid # v
                       /\ v \in DOMAIN pods <=> podState[v].phase = "live"
                       /\ v \in DOMAIN pods => pods[v] = podState[v].status
                <5>1. \A i \in DOMAIN podQ' : podQ'[i].uid # v
                    BY <2>1, <4>1, <4>3
                <5> QED
                    BY <1>1, <4>1, <4>3, <5>1
            <4> QED
                BY <1>1, <1>5, <4>2, <4>3 DEF ReplayInv, PodCacheReplays
        <3> QED
            BY <3>1, <3>2
    <2> QED
        BY <2>2, <2>3 DEF ReplayInv, PodCacheReplays
<1> QED
    BY <1>4, <1>5

\* Taking the first event off the stream and applying it changes no pod's story.
LEMMA ApplyReplays ==
    ASSUME TypeOK, ReplayInv, PodEvent
    PROVE  ReplayInv'
<1> DEFINE e == Head(podQ)
           Entries == [uid : Pods, life : PodLife]
<1>1. /\ pc = "select" /\ pods' = Apply(pods, e) /\ podQ' = Tail(podQ)
      /\ podState' = podState /\ podQ # <<>>
    BY DEF PodEvent, clusterVars
<1>2. podQ \in Seq(Entries)
    BY DEF TypeOK
<1> HIDE DEF Entries
<1>3. /\ Len(podQ) \in Nat \ {0} /\ DOMAIN podQ = 1..Len(podQ) /\ e = podQ[1]
      /\ DOMAIN podQ' = 1..(Len(podQ) - 1)
      /\ \A i \in DOMAIN podQ' : podQ'[i] = podQ[i + 1] /\ i + 1 \in DOMAIN podQ
    BY <1>1, <1>2
<1> HIDE DEF e
<1>4. \A i \in DOMAIN podQ' : podQ'[i].life.phase \in {"live", "deleted"}
    BY <1>3 DEF ReplayInv
<1>5. e.life.phase \in {"live", "deleted"}
    BY <1>3 DEF ReplayInv
<1>6. ASSUME NEW v \in Pods
      PROVE  \/ \E i \in DOMAIN podQ' :
                   /\ podQ'[i].uid = v /\ podQ'[i].life = podState'[v]
                   /\ \A j \in DOMAIN podQ' : podQ'[j].uid = v => j <= i
             \/ /\ \A i \in DOMAIN podQ' : podQ'[i].uid # v
                /\ v \in DOMAIN pods' <=> podState'[v].phase = "live"
                /\ v \in DOMAIN pods' => pods'[v] = podState'[v].status
    <2>1. CASE \E i \in DOMAIN podQ :
                  /\ podQ[i].uid = v /\ podQ[i].life = podState[v]
                  /\ \A j \in DOMAIN podQ : podQ[j].uid = v => j <= i
        <3>1. PICK i \in DOMAIN podQ :
                  /\ podQ[i].uid = v /\ podQ[i].life = podState[v]
                  /\ \A j \in DOMAIN podQ : podQ[j].uid = v => j <= i
            BY <2>1
        <3>2. CASE i > 1
            <4>1. i - 1 \in DOMAIN podQ' /\ podQ'[i - 1] = podQ[i]
                BY <1>3, <3>1, <3>2
            <4>2. \A j \in DOMAIN podQ' : podQ'[j].uid = v => j <= i - 1
                BY <1>3, <3>1
            <4> QED
                BY <1>1, <3>1, <4>1, <4>2
        <3>3. CASE i = 1
            <4>1. \A j \in DOMAIN podQ' : podQ'[j].uid # v
                BY <1>3, <3>1, <3>3
            <4>2. e.uid = v /\ e.life = podState[v]
                BY <1>3, <3>1, <3>3
            <4>3. /\ v \in DOMAIN pods' <=> podState[v].phase = "live"
                  /\ v \in DOMAIN pods' => pods'[v] = podState[v].status
                BY <1>1, <1>5, <4>2 DEF Apply
            <4> QED
                BY <1>1, <4>1, <4>3
        <3> QED
            BY <1>3, <3>1, <3>2, <3>3
    <2>2. CASE /\ \A i \in DOMAIN podQ : podQ[i].uid # v
               /\ v \in DOMAIN pods <=> podState[v].phase = "live"
               /\ v \in DOMAIN pods => pods[v] = podState[v].status
        <3>1. e.uid # v /\ \A i \in DOMAIN podQ' : podQ'[i].uid # v
            BY <1>3, <2>2
        <3>2. /\ v \in DOMAIN pods' <=> v \in DOMAIN pods
              /\ v \in DOMAIN pods' => pods'[v] = pods[v]
            BY <1>1, <3>1 DEF Apply
        <3> QED
            BY <1>1, <2>2, <3>1, <3>2
    <2> QED
        BY <1>1, <2>1, <2>2 DEF ReplayInv, PodCacheReplays
<1> QED
    BY <1>4, <1>6 DEF ReplayInv, PodCacheReplays

\* Steps that leave the pods, the stream and the cache alone keep the replay.
LEMMA ReplayUnchanged ==
    ASSUME ReplayInv, UNCHANGED <<podState, podQ, pods>>,
           pc \in {"list", "done"} => pc' \in {"list", "done"}
    PROVE  ReplayInv'
    BY DEF ReplayInv, PodCacheReplays

\* Every step of the loop and of the cluster keeps the replay.
LEMMA ReplayStep ==
    ASSUME TypeOK, ReplayInv, [Next]_vars
    PROVE  ReplayInv'
<1>1. CASE ListPods
    <2>1. /\ podQ' = <<>> /\ podState' = podState
          /\ pods' = [u \in Live |-> podState[u].status]
        BY <1>1 DEF ListPods, ClusterPods, clusterVars
    <2> QED
        BY <2>1 DEF ReplayInv, PodCacheReplays, Live
<1>2. CASE ReadController
    BY <1>2, ReplayUnchanged DEF ReadController, clusterVars, streamVars
<1>3. ASSUME NEW eventsRead \in BOOLEAN, NEW sourcesRead \in BOOLEAN,
             Decide(eventsRead, sourcesRead)
      PROVE  ReplayInv'
    BY <1>3, ReplayUnchanged DEF Decide, clusterVars, streamVars
<1>4. CASE ReadVersion
    BY <1>4, ReplayUnchanged DEF ReadVersion, clusterVars
<1>5. CASE ReturnError
    BY <1>5, ReplayUnchanged DEF ReturnError, Return, clusterVars, streamVars
<1>6. CASE StabilityFires
    BY <1>6, ReplayUnchanged DEF StabilityFires, Return, clusterVars, streamVars
<1>7. CASE GracePoll \/ SettlePoll
    BY <1>7, ReplayUnchanged DEF GracePoll, SettlePoll, clusterVars, streamVars
<1>8. CASE PodEvent
    BY <1>8, ApplyReplays
<1>9. CASE ControllerEvent
    BY <1>9, ReplayUnchanged DEF ControllerEvent, clusterVars
<1>10. CASE StreamExpires
    <2>1. podQ' = <<>> /\ pc' = "list"
        BY <1>10 DEF StreamExpires
    <2> QED
        BY <2>1 DEF ReplayInv, PodCacheReplays
<1>11. ASSUME NEW u \in Pods, PodCreated(u) \/ PodUpdated(u) \/ PodDeleted(u)
       PROVE  ReplayInv'
    <2>1. PICK life \in [phase : {"live", "deleted"}, status : PodStatus] : PodChanges(u, life)
        <3>1. NewPod \in PodStatus
            BY BoundsAssumption DEF NewPod, PodStatus
        <3>2. CASE PodCreated(u)
            BY <3>1, <3>2 DEF PodCreated
        <3>3. CASE PodUpdated(u)
            BY <3>3 DEF PodUpdated
        <3>4. CASE PodDeleted(u)
            BY <3>1, <3>4 DEF PodDeleted
        <3> QED
            BY <1>11, <3>2, <3>3, <3>4
    <2>2. life \in PodLife /\ life.phase \in {"live", "deleted"}
        BY DEF PodLife
    <2> QED
        BY <2>1, <2>2, AppendReplays
<1>12. CASE Changing /\ UNCHANGED <<podState, podQ>>
    BY <1>12, ReplayUnchanged DEF Changing, loopVars
<1>13. CASE DeadlinePasses \/ Time
    BY <1>13, ReplayUnchanged DEF DeadlinePasses, Time, clusterVars, streamVars, loopVars
<1>14. CASE UNCHANGED vars
    BY <1>14, ReplayUnchanged DEF vars, clusterVars, streamVars, loopVars
<1> QED
    BY <1>1, <1>2, <1>3, <1>4, <1>5, <1>6, <1>7, <1>8, <1>9, <1>10, <1>11, <1>12, <1>13, <1>14
       DEF Next, Sequential, Select, Environment, Terminated, ListFails, ReadControllerFails,
           ReadVersionFails, ContextDone, StreamFails, EventsChange, RejectionsChange,
           ControllerChanges

\* At every moment after the List, a pod of the cluster is what the last event
\* about it that is under way says, or what the cache holds when there is none.
THEOREM PodCacheFollows == Spec => []PodCacheReplays
<1>1. Init => TypeOK /\ ReplayInv
    <2> SUFFICES ASSUME Init PROVE ReplayInv
        BY InitType
    <2> QED
        BY DEF Init, ReplayInv, PodCacheReplays
<1>2. TypeOK /\ ReplayInv /\ [Next]_vars => (TypeOK /\ ReplayInv)'
    BY ReplayStep, SequentialType, SelectType, EnvironmentType, StutterType
       DEF Next, Terminated
<1>3. ReplayInv => PodCacheReplays
    BY DEF ReplayInv
<1> QED
    BY <1>1, <1>2, <1>3, PTL DEF Spec

-----------------------------------------------------------------------------
(* A restart that the loop has seen starts its quiet period over: a window   *)
(* under way is measured against counts no newer than the last ones observed, *)
(* so what observe counts as an increase, of a container that the window      *)
(* knows, opens the window again.                                            *)

\* Neither the cluster nor the stream holds a restart count of u below n.
Behind(n, u) ==
    /\ podState[u].phase # "unborn"
    /\ podState[u].phase = "live" => n <= podState[u].status.rc
    /\ \A i \in DOMAIN podQ :
           podQ[i].uid = u /\ podQ[i].life.phase = "live" => n <= podQ[i].life.status.rc

\* The events about one pod carry growing restart counts, and a deletion is the last.
Ordered ==
    \A i \in DOMAIN podQ :
        LET u == podQ[i].uid
            life == podQ[i].life
        IN  /\ podState[u].phase # "unborn"
            /\ life.phase = "deleted" => podState[u].phase = "deleted"
            /\ podState[u].phase = "live" => life.status.rc <= podState[u].status.rc
            /\ \A j \in DOMAIN podQ : i < j /\ podQ[j].uid = u =>
                   /\ life.phase = "live"
                   /\ podQ[j].life.phase = "live" => life.status.rc <= podQ[j].life.status.rc

\* What the loop has cached and remembered of a pod is never ahead of the cluster.
CountsGrow ==
    /\ Ordered
    /\ \A u \in DOMAIN pods : Behind(pods[u].rc, u)
    /\ \A u \in DOMAIN seen : Behind(seen[u], u) /\ (u \in DOMAIN pods => seen[u] <= pods[u].rc)

\* The types of the restart counts, and of the stream's positions.
LEMMA RestartTypes ==
    ASSUME TypeOK
    PROVE  /\ \A u \in DOMAIN pods : u \in Pods /\ pods[u].rc \in Int
           /\ \A u \in DOMAIN seen : u \in Pods /\ seen[u] \in Int
           /\ \A u \in DOMAIN base : u \in Pods /\ base[u] \in Int
           /\ \A u \in Pods : podState[u].status.rc \in Int
           /\ Len(podQ) \in Nat /\ DOMAIN podQ = 1..Len(podQ)
           /\ \A i \in DOMAIN podQ : podQ[i].uid \in Pods /\ podQ[i].life \in PodLife
           /\ \A i \in DOMAIN podQ : podQ[i].life.status.rc \in Int
<1>0. -1..MaxRestarts \subseteq Int /\ 0..MaxRestarts \subseteq Int
    BY BoundsAssumption
<1>1. \A p \in PodStatus : p.rc \in Int
    BY <1>0 DEF PodStatus
<1>2. \A life \in PodLife : life.status \in PodStatus
    BY DEF PodLife
<1>3. \A u \in DOMAIN pods : u \in Pods /\ pods[u] \in PodStatus
    <2>1. PICK S \in SUBSET Pods : pods \in [S -> PodStatus]
        BY DEF TypeOK, PodMaps
    <2> QED
        BY <2>1
<1>4. \A m \in Counts : \A u \in DOMAIN m : u \in Pods /\ m[u] \in Int
    <2> SUFFICES ASSUME NEW m \in Counts PROVE \A u \in DOMAIN m : u \in Pods /\ m[u] \in Int
        OBVIOUS
    <2>1. PICK S \in SUBSET Pods : m \in [S -> 0..MaxRestarts]
        BY DEF Counts
    <2> QED
        BY <1>0, <2>1
<1>5. seen \in Counts /\ base \in Counts
    BY DEF TypeOK
<1>6. podState \in [Pods -> PodLife]
    BY DEF TypeOK
<1>7. /\ Len(podQ) \in Nat /\ DOMAIN podQ = 1..Len(podQ)
      /\ \A i \in DOMAIN podQ : podQ[i] \in [uid : Pods, life : PodLife]
    <2> DEFINE Entries == [uid : Pods, life : PodLife]
    <2>1. podQ \in Seq(Entries)
        BY DEF TypeOK
    <2> HIDE DEF Entries
    <2>2. /\ Len(podQ) \in Nat /\ DOMAIN podQ = 1..Len(podQ)
          /\ \A i \in DOMAIN podQ : podQ[i] \in Entries
        BY <2>1
    <2> QED
        BY <2>2 DEF Entries
<1>8. \A i \in DOMAIN podQ : podQ[i].uid \in Pods /\ podQ[i].life \in PodLife
    BY <1>7
<1> QED
    BY <1>1, <1>2, <1>3, <1>4, <1>5, <1>6, <1>7, <1>8

\* What a step may do to a pod: it is created, updated or deleted, and its count
\* does not shrink.
PodGrows(u, life) ==
    /\ PodChanges(u, life)
    /\ life.phase \in {"live", "deleted"} /\ life.status.rc \in Int
    /\ podState[u].phase # "deleted"
    /\ life.phase = "live" /\ podState[u].phase = "live" =>
           podState[u].status.rc <= life.status.rc

\* The steps that touch the pods, the stream, the cache or the remembered counts.
LEMMA PodSteps ==
    ASSUME TypeOK, [Next]_vars
    PROVE  \/ /\ UNCHANGED <<podState, podQ, pods, seen>>
              /\ pc \in {"list", "done"} => pc' \in {"list", "done"}
           \/ ListPods
           \/ /\ Observe /\ UNCHANGED <<podState, podQ, pods>>
              /\ pc = "tick"
           \/ PodEvent
           \/ StreamExpires
           \/ \E u \in Pods : \E life \in PodLife : PodGrows(u, life)
<1> DEFINE Still == /\ UNCHANGED <<podState, podQ, pods, seen>>
                    /\ pc \in {"list", "done"} => pc' \in {"list", "done"}
<1>2. ReadController \/ ReadControllerFails =>
          Observe /\ UNCHANGED <<podState, podQ, pods>> /\ pc = "tick"
    BY DEF ReadController, ReadControllerFails, ReturnError, clusterVars, streamVars
<1>3. ASSUME NEW eventsRead \in BOOLEAN, NEW sourcesRead \in BOOLEAN,
             Decide(eventsRead, sourcesRead)
      PROVE  Still
    BY <1>3 DEF Decide, clusterVars, streamVars
<1>4. ReadVersion \/ StabilityFires \/ GracePoll \/ SettlePoll \/ ControllerEvent => Still
    BY DEF ReadVersion, StabilityFires, Return, GracePoll, SettlePoll, ControllerEvent,
           clusterVars, streamVars
<1>5. ReturnError /\ NotObserved => Still
    BY DEF ReturnError, Return, NotObserved, clusterVars, streamVars
<1>6. Changing /\ UNCHANGED <<podState, podQ>> => Still
    BY DEF Changing, loopVars
<1>7. DeadlinePasses \/ Time => Still
    BY DEF DeadlinePasses, Time, clusterVars, streamVars, loopVars
<1>8. UNCHANGED vars => Still
    BY DEF vars, clusterVars, streamVars, loopVars
<1>9. ASSUME NEW u \in Pods, PodCreated(u) \/ PodUpdated(u) \/ PodDeleted(u)
      PROVE  \E life \in PodLife : PodGrows(u, life)
    <2>1. NewPod \in PodStatus /\ NewPod.rc = -1
        BY BoundsAssumption DEF NewPod, PodStatus
    <2>2. CASE PodCreated(u)
        <3> DEFINE life == [phase |-> "live", status |-> NewPod]
        <3>1. life \in PodLife /\ life.phase = "live" /\ life.status.rc = -1
            BY <2>1 DEF PodLife
        <3>2. PodChanges(u, life) /\ podState[u].phase = "unborn"
            BY <2>2 DEF PodCreated
        <3> HIDE DEF life
        <3>3. PodGrows(u, life)
            BY <3>1, <3>2 DEF PodGrows
        <3> QED
            BY <3>1, <3>3
    <2>3. CASE PodUpdated(u)
        <3>1. PICK status \in PodStatus :
                  /\ status.rc \in podState[u].status.rc .. podState[u].status.rc + 1
                  /\ PodChanges(u, [phase |-> "live", status |-> status])
            BY <2>3 DEF PodUpdated
        <3> DEFINE life == [phase |-> "live", status |-> status]
        <3>2. life \in PodLife /\ life.phase = "live" /\ life.status = status
            BY DEF PodLife
        <3>3. PodChanges(u, life) /\ podState[u].phase = "live"
            BY <2>3, <3>1 DEF PodUpdated
        <3>4. podState[u].status.rc \in Int
            BY RestartTypes
        <3>5. status.rc \in Int /\ podState[u].status.rc <= status.rc
            BY <3>1, <3>4
        <3> HIDE DEF life
        <3>6. PodGrows(u, life)
            BY <3>1, <3>2, <3>3, <3>4, <3>5 DEF PodGrows
        <3> QED
            BY <3>2, <3>6
    <2>4. CASE PodDeleted(u)
        <3> DEFINE life == [phase |-> "deleted", status |-> NewPod]
        <3>1. life \in PodLife /\ life.phase = "deleted" /\ life.status.rc = -1
            BY <2>1 DEF PodLife
        <3>2. PodChanges(u, life) /\ podState[u].phase = "live"
            BY <2>4 DEF PodDeleted
        <3> HIDE DEF life
        <3>3. PodGrows(u, life)
            BY <3>1, <3>2 DEF PodGrows
        <3> QED
            BY <3>1, <3>3
    <2> QED
        BY <1>9, <2>2, <2>3, <2>4
<1> QED
    BY <1>2, <1>3, <1>4, <1>5, <1>6, <1>7, <1>8, <1>9
       DEF Next, Sequential, Select, Environment, Terminated, ListFails, ReadVersionFails,
           ContextDone, StreamFails, EventsChange, RejectionsChange, ControllerChanges

\* What observe remembers: the counts of the cached pods, and the older ones of others.
LEMMA ObservedCounts ==
    ASSUME TypeOK, Observe
    PROVE  /\ DOMAIN seen' = DOMAIN seen \cup {u \in DOMAIN pods : pods[u].rc >= 0}
           /\ \A u \in DOMAIN seen' :
                 seen'[u] = IF u \in DOMAIN pods /\ pods[u].rc >= 0 THEN pods[u].rc ELSE seen[u]
    BY DEF Observe, RestartCounts

\* A change of pod u adds at most one event to the stream, at its end.
LEMMA GrownStream ==
    ASSUME TypeOK, NEW u \in Pods, NEW life \in PodLife, PodChanges(u, life)
    PROVE  /\ \A v \in Pods : podState'[v] = IF v = u THEN life ELSE podState[v]
           /\ \A i \in DOMAIN podQ' :
                 \/ i \in DOMAIN podQ /\ podQ'[i] = podQ[i]
                 \/ /\ pc # "list" /\ i = Len(podQ) + 1
                    /\ podQ'[i].uid = u /\ podQ'[i].life = life
           /\ UNCHANGED <<pc, pods, seen>> /\ pc # "done"
<1> DEFINE e == [uid |-> u, life |-> life]
           Entries == [uid : Pods, life : PodLife]
<1>1. /\ UNCHANGED <<pc, pods, seen>> /\ pc # "done"
      /\ podState' = [podState EXCEPT ![u] = life]
      /\ podQ' = IF pc = "list" THEN podQ ELSE Append(podQ, e)
    BY DEF PodChanges, Changing, loopVars
<1>2. podQ \in Seq(Entries) /\ podState \in [Pods -> PodLife]
    BY DEF TypeOK
<1>3. e \in Entries /\ e.uid = u /\ e.life = life
    OBVIOUS
<1>4. \A v \in Pods : podState'[v] = IF v = u THEN life ELSE podState[v]
    BY <1>1, <1>2
<1> HIDE DEF e, Entries
<1>5. CASE pc = "list"
    BY <1>1, <1>4, <1>5
<1>6. CASE pc # "list"
    <2>1. \A i \in DOMAIN podQ' : \/ i \in DOMAIN podQ /\ podQ'[i] = podQ[i]
                                  \/ i = Len(podQ) + 1 /\ podQ'[i] = e
        BY <1>1, <1>2, <1>3, <1>6
    <2> QED
        BY <1>1, <1>3, <1>4, <1>6, <2>1
<1> QED
    BY <1>5, <1>6

\* A pod's later life keeps every count below it below it.
LEMMA GrownBehind ==
    ASSUME TypeOK, NEW u \in Pods, NEW life \in PodLife, PodGrows(u, life),
           NEW v \in Pods, NEW n \in Int, Behind(n, v)
    PROVE  /\ podState'[v].phase # "unborn"
           /\ podState'[v].phase = "live" => n <= podState'[v].status.rc
           /\ \A i \in DOMAIN podQ' :
                 podQ'[i].uid = v /\ podQ'[i].life.phase = "live" => n <= podQ'[i].life.status.rc
<1>1. /\ podState'[v] = IF v = u THEN life ELSE podState[v]
      /\ \A i \in DOMAIN podQ' : \/ i \in DOMAIN podQ /\ podQ'[i] = podQ[i]
                                 \/ podQ'[i].uid = u /\ podQ'[i].life = life
    BY GrownStream DEF PodGrows
<1>2. v = u /\ life.phase = "live" => n <= life.status.rc
    <2> SUFFICES ASSUME v = u, life.phase = "live" PROVE n <= life.status.rc
        OBVIOUS
    <2>1. podState[u].phase = "live"
        <3>1. podState[u].phase \in {"unborn", "live", "deleted"}
            BY DEF TypeOK, PodLife
        <3> QED
            BY <3>1 DEF Behind, PodGrows
    <2>2. podState[u].status.rc \in Int /\ life.status.rc \in Int
        BY RestartTypes DEF PodGrows
    <2> QED
        BY <2>1, <2>2 DEF Behind, PodGrows
<1> QED
    BY <1>1, <1>2 DEF Behind, PodGrows

\* The cluster moves on: nothing remembered gets ahead of it.
LEMMA GrowKeepsCounts ==
    ASSUME TypeOK, ReplayInv, CountsGrow, NEW u \in Pods, NEW life \in PodLife, PodGrows(u, life)
    PROVE  CountsGrow'
<1>1. /\ \A v \in Pods : podState'[v] = IF v = u THEN life ELSE podState[v]
      /\ \A i \in DOMAIN podQ' : \/ i \in DOMAIN podQ /\ podQ'[i] = podQ[i]
                                 \/ /\ i = Len(podQ) + 1
                                    /\ podQ'[i].uid = u /\ podQ'[i].life = life
      /\ UNCHANGED <<pods, seen>>
    BY GrownStream DEF PodGrows
<1>2. /\ Len(podQ) \in Nat /\ DOMAIN podQ = 1..Len(podQ)
      /\ \A i \in DOMAIN podQ : podQ[i].uid \in Pods /\ podQ[i].life \in PodLife
      /\ \A i \in DOMAIN podQ : podQ[i].life.status.rc \in Int
      /\ \A v \in Pods : podState[v].status.rc \in Int
    BY RestartTypes
<1>3. podState[u].phase \in {"unborn", "live"} /\ life.phase \in {"live", "deleted"}
      /\ life.status.rc \in Int
    BY DEF TypeOK, PodLife, PodGrows
<1>4. ASSUME NEW i \in DOMAIN podQ, podQ[i].uid = u
      PROVE  /\ podState[u].phase = "live" /\ podQ[i].life.phase = "live"
             /\ life.phase = "live" => podQ[i].life.status.rc <= life.status.rc
    <2>1. podState[u].phase = "live" /\ podQ[i].life.phase # "deleted"
          /\ podQ[i].life.status.rc <= podState[u].status.rc
        BY <1>3, <1>4 DEF CountsGrow, Ordered
    <2>2. podQ[i].life.phase \in {"live", "deleted"}
        BY DEF ReplayInv
    <2> QED
        BY <1>2, <1>3, <2>1, <2>2 DEF PodGrows
<1>5. Ordered'
    <2> DEFINE After(i, j) ==
                   /\ podQ'[i].life.phase = "live"
                   /\ podQ'[j].life.phase = "live" =>
                          podQ'[i].life.status.rc <= podQ'[j].life.status.rc
               Holds(i) ==
                   /\ podState'[podQ'[i].uid].phase # "unborn"
                   /\ podQ'[i].life.phase = "deleted" =>
                          podState'[podQ'[i].uid].phase = "deleted"
                   /\ podState'[podQ'[i].uid].phase = "live" =>
                          podQ'[i].life.status.rc <= podState'[podQ'[i].uid].status.rc
                   /\ \A j \in DOMAIN podQ' :
                          i < j /\ podQ'[j].uid = podQ'[i].uid => After(i, j)
    <2>1. ASSUME NEW i \in DOMAIN podQ', i \in DOMAIN podQ, podQ'[i] = podQ[i]
          PROVE  Holds(i)
        <3>1. podQ[i].uid \in Pods
            BY <1>2, <2>1
        <3>2. /\ podState[podQ[i].uid].phase # "unborn"
              /\ podQ[i].life.phase = "deleted" => podState[podQ[i].uid].phase = "deleted"
              /\ podState[podQ[i].uid].phase = "live" =>
                     podQ[i].life.status.rc <= podState[podQ[i].uid].status.rc
              /\ \A j \in DOMAIN podQ : i < j /\ podQ[j].uid = podQ[i].uid =>
                    /\ podQ[i].life.phase = "live"
                    /\ podQ[j].life.phase = "live" =>
                           podQ[i].life.status.rc <= podQ[j].life.status.rc
            BY <2>1 DEF CountsGrow, Ordered
        <3>3. ASSUME NEW j \in DOMAIN podQ', i < j, podQ'[j].uid = podQ'[i].uid
              PROVE  After(i, j)
            BY <1>1, <1>4, <2>1, <3>2, <3>3
        <3>4. CASE podQ[i].uid = u
            BY <1>1, <1>3, <1>4, <2>1, <3>1, <3>3, <3>4
        <3>5. CASE podQ[i].uid # u
            BY <1>1, <2>1, <3>1, <3>2, <3>3, <3>5
        <3> QED
            BY <3>4, <3>5
    <2>2. ASSUME NEW i \in DOMAIN podQ', i = Len(podQ) + 1, podQ'[i].uid = u,
                 podQ'[i].life = life
          PROVE  Holds(i)
        <3>1. \A j \in DOMAIN podQ' : ~(i < j)
            BY <1>1, <1>2, <2>2
        <3>2. podState'[u] = life
            BY <1>1
        <3> QED
            BY <1>3, <2>2, <3>1, <3>2
    <2>3. \A i \in DOMAIN podQ' : Holds(i)
        BY <1>1, <2>1, <2>2
    <2> QED
        BY <2>3 DEF Ordered
<1>6. \A v \in DOMAIN pods' : Behind(pods[v].rc, v)'
    <2> SUFFICES ASSUME NEW v \in DOMAIN pods PROVE Behind(pods[v].rc, v)'
        BY <1>1
    <2>1. v \in Pods /\ pods[v].rc \in Int /\ Behind(pods[v].rc, v)
        BY RestartTypes DEF CountsGrow
    <2> QED
        BY <1>1, <2>1, GrownBehind DEF Behind
<1>7. \A v \in DOMAIN seen' : /\ Behind(seen[v], v)'
                              /\ v \in DOMAIN pods' => seen'[v] <= pods'[v].rc
    <2> SUFFICES ASSUME NEW v \in DOMAIN seen PROVE Behind(seen[v], v)'
        BY <1>1 DEF CountsGrow
    <2>1. v \in Pods /\ seen[v] \in Int /\ Behind(seen[v], v)
        BY RestartTypes DEF CountsGrow
    <2> QED
        BY <1>1, <2>1, GrownBehind DEF Behind
<1> QED
    BY <1>5, <1>6, <1>7 DEF CountsGrow

\* A new List holds the newest counts, and nothing is under way after it.
LEMMA ListKeepsCounts ==
    ASSUME TypeOK, CountsGrow, ListPods
    PROVE  CountsGrow'
<1>1. /\ podQ' = <<>> /\ UNCHANGED <<podState, seen>>
      /\ DOMAIN pods' = Live /\ \A u \in Live : pods'[u] = podState[u].status
    BY DEF ListPods, ClusterPods, clusterVars
<1>2. \A u \in Live : u \in Pods /\ podState[u].phase = "live" /\ podState[u].status.rc \in Int
    BY RestartTypes DEF Live
<1>3. Ordered'
    BY <1>1 DEF Ordered
<1>4. \A u \in DOMAIN pods' : Behind(pods[u].rc, u)'
    BY <1>1, <1>2 DEF Behind
<1>5. \A u \in DOMAIN seen' : Behind(seen[u], u)'
    BY <1>1 DEF CountsGrow, Behind
<1>6. \A u \in DOMAIN seen' : u \in DOMAIN pods' => seen'[u] <= pods'[u].rc
    BY <1>1, <1>2 DEF CountsGrow, Behind
<1> QED
    BY <1>3, <1>4, <1>5, <1>6 DEF CountsGrow

\* What is observed was in the cache.
LEMMA ObserveKeepsCounts ==
    ASSUME TypeOK, CountsGrow, Observe, UNCHANGED <<podState, podQ, pods>>
    PROVE  CountsGrow'
<1>1. /\ DOMAIN seen' = DOMAIN seen \cup {u \in DOMAIN pods : pods[u].rc >= 0}
      /\ \A u \in DOMAIN seen' :
            seen'[u] = IF u \in DOMAIN pods /\ pods[u].rc >= 0 THEN pods[u].rc ELSE seen[u]
    BY ObservedCounts
<1>2. Ordered' /\ \A u \in DOMAIN pods' : Behind(pods[u].rc, u)'
    BY DEF CountsGrow, Ordered, Behind
<1>3. ASSUME NEW u \in DOMAIN seen'
      PROVE  Behind(seen[u], u)' /\ (u \in DOMAIN pods' => seen'[u] <= pods'[u].rc)
    <2>1. CASE u \in DOMAIN pods /\ pods[u].rc >= 0
        <3>1. seen'[u] = pods[u].rc /\ Behind(pods[u].rc, u) /\ pods[u].rc \in Int
            BY <1>1, <1>3, <2>1, RestartTypes DEF CountsGrow
        <3> QED
            BY <3>1 DEF Behind
    <2>2. CASE ~(u \in DOMAIN pods /\ pods[u].rc >= 0)
        <3>1. u \in DOMAIN seen /\ seen'[u] = seen[u]
            BY <1>1, <1>3, <2>2
        <3>2. Behind(seen[u], u) /\ (u \in DOMAIN pods => seen[u] <= pods[u].rc)
            BY <3>1 DEF CountsGrow
        <3> QED
            BY <3>1, <3>2 DEF Behind
    <2> QED
        BY <2>1, <2>2
<1> QED
    BY <1>2, <1>3 DEF CountsGrow

\* The first event of the stream and what it leaves of the stream and the cache.
LEMMA EventTaken ==
    ASSUME TypeOK, PodEvent
    PROVE  /\ UNCHANGED <<podState, seen>> /\ pc = "select"
           /\ 1 \in DOMAIN podQ
           /\ \A i \in DOMAIN podQ' : i + 1 \in DOMAIN podQ /\ podQ'[i] = podQ[i + 1]
                                      /\ i \in Int /\ 1 < i + 1
           /\ \A u \in DOMAIN pods' :
                 \/ u = podQ[1].uid /\ podQ[1].life.phase # "deleted"
                    /\ pods'[u] = podQ[1].life.status
                 \/ u # podQ[1].uid /\ u \in DOMAIN pods /\ pods'[u] = pods[u]
           /\ podQ[1].life.phase # "deleted" => podQ[1].uid \in DOMAIN pods'
           /\ \A u \in DOMAIN pods : u # podQ[1].uid => u \in DOMAIN pods'
<1> DEFINE e == Head(podQ)
           Entries == [uid : Pods, life : PodLife]
<1>1. /\ pods' = Apply(pods, e) /\ podQ' = Tail(podQ) /\ podQ # <<>>
      /\ UNCHANGED <<podState, seen>> /\ pc = "select"
    BY DEF PodEvent, clusterVars
<1>2. podQ \in Seq(Entries)
    BY DEF TypeOK
<1> HIDE DEF Entries
<1>3. /\ 1 \in DOMAIN podQ /\ e = podQ[1]
      /\ \A i \in DOMAIN podQ' : i + 1 \in DOMAIN podQ /\ podQ'[i] = podQ[i + 1]
                                 /\ i \in Int /\ 1 < i + 1
    BY <1>1, <1>2
<1> HIDE DEF e
<1>4. CASE e.life.phase = "deleted"
    <2>1. pods' = [u \in DOMAIN pods \ {e.uid} |-> pods[u]]
        BY <1>1, <1>4 DEF Apply
    <2> QED
        BY <1>1, <1>3, <1>4, <2>1
<1>5. CASE e.life.phase # "deleted"
    <2>1. pods' = [u \in DOMAIN pods \cup {e.uid} |->
                       IF u = e.uid THEN e.life.status ELSE pods[u]]
        BY <1>1, <1>5 DEF Apply
    <2> QED
        BY <1>1, <1>3, <1>5, <2>1
<1> QED
    BY <1>4, <1>5

\* An event brings a count that is no lower than the ones remembered, and no higher
\* than what is still to come.
LEMMA EventKeepsCounts ==
    ASSUME TypeOK, ReplayInv, CountsGrow, PodEvent
    PROVE  CountsGrow'
<1> DEFINE w == podQ[1].uid
           life == podQ[1].life
<1>1. /\ UNCHANGED <<podState, seen>>
      /\ 1 \in DOMAIN podQ
      /\ \A i \in DOMAIN podQ' : i + 1 \in DOMAIN podQ /\ podQ'[i] = podQ[i + 1]
                                 /\ i \in Int /\ 1 < i + 1
      /\ \A u \in DOMAIN pods' :
            \/ u = w /\ life.phase # "deleted" /\ pods'[u] = life.status
            \/ u # w /\ u \in DOMAIN pods /\ pods'[u] = pods[u]
    BY EventTaken
<1>2. life.phase \in {"live", "deleted"}
    BY <1>1 DEF ReplayInv
<1>3. ASSUME NEW n, NEW u, Behind(n, u)
      PROVE  /\ podState'[u].phase # "unborn"
             /\ podState'[u].phase = "live" => n <= podState'[u].status.rc
             /\ \A i \in DOMAIN podQ' :
                   podQ'[i].uid = u /\ podQ'[i].life.phase = "live" =>
                       n <= podQ'[i].life.status.rc
    BY <1>1, <1>3 DEF Behind
<1>4. /\ podState'[w].phase # "unborn"
      /\ podState'[w].phase = "live" => life.status.rc <= podState'[w].status.rc
      /\ \A i \in DOMAIN podQ' :
            podQ'[i].uid = w /\ podQ'[i].life.phase = "live" =>
                life.status.rc <= podQ'[i].life.status.rc
    BY <1>1 DEF CountsGrow, Ordered
<1>5. Ordered'
    <2>1. ASSUME NEW i \in DOMAIN podQ', NEW j \in DOMAIN podQ', i < j
          PROVE  i + 1 < j + 1
        <3>1. i \in Int /\ j \in Int
            BY <1>1, <2>1
        <3> QED
            BY <2>1, <3>1
    <2> QED
        BY <1>1, <2>1 DEF CountsGrow, Ordered
<1>6. \A u \in DOMAIN pods' : Behind(pods[u].rc, u)'
    <2> SUFFICES ASSUME NEW u \in DOMAIN pods' PROVE Behind(pods[u].rc, u)'
        OBVIOUS
    <2>1. CASE u = w /\ life.phase # "deleted" /\ pods'[u] = life.status
        BY <1>2, <1>4, <2>1 DEF Behind
    <2>2. CASE u # w /\ u \in DOMAIN pods /\ pods'[u] = pods[u]
        BY <1>3, <2>2 DEF CountsGrow, Behind
    <2> QED
        BY <1>1, <2>1, <2>2
<1>7. \A u \in DOMAIN seen' : Behind(seen[u], u)'
    BY <1>1, <1>3 DEF CountsGrow, Behind
<1>8. \A u \in DOMAIN seen' : u \in DOMAIN pods' => seen'[u] <= pods'[u].rc
    <2> SUFFICES ASSUME NEW u \in DOMAIN seen, u \in DOMAIN pods'
                 PROVE  seen[u] <= pods'[u].rc
        BY <1>1
    <2>1. CASE u = w /\ life.phase # "deleted" /\ pods'[u] = life.status
        BY <1>1, <1>2, <2>1 DEF CountsGrow, Behind
    <2>2. CASE u # w /\ u \in DOMAIN pods /\ pods'[u] = pods[u]
        BY <2>2 DEF CountsGrow
    <2> QED
        BY <1>1, <2>1, <2>2
<1> QED
    BY <1>5, <1>6, <1>7, <1>8 DEF CountsGrow

\* Every step leaves the cluster ahead of what was cached and remembered.
LEMMA CountsStep ==
    ASSUME TypeOK, ReplayInv, CountsGrow, [Next]_vars
    PROVE  CountsGrow'
<1>1. CASE UNCHANGED <<podState, podQ, pods, seen>>
    BY <1>1 DEF CountsGrow, Ordered, Behind
<1>2. CASE StreamExpires
    <2>1. podQ' = <<>> /\ DOMAIN pods' = {} /\ UNCHANGED <<podState, seen>>
        BY <1>2 DEF StreamExpires, NoPods, clusterVars
    <2> QED
        BY <2>1 DEF CountsGrow, Ordered, Behind
<1> QED
    BY <1>1, <1>2, PodSteps, ListKeepsCounts, ObserveKeepsCounts, EventKeepsCounts,
       GrowKeepsCounts

\* No count in the baseline of the window under way is newer than the last observed.
BaseCovers == stab.on => \A u \in DOMAIN base : u \in DOMAIN seen /\ base[u] <= seen[u]

\* Between the two halves of a tick the last counts observed are those of the cache.
Observed ==
    pc = "decide" => \A u \in DOMAIN pods :
        pods[u].rc >= 0 => u \in DOMAIN seen /\ seen[u] = pods[u].rc

\* What is left of the window makes up for the time since the last restart, or the
\* tick under way is about to open it again.
QuietAhead ==
    stab.on =>
        calm + stab.left >= RestartedWindow \/ (pc = "decide" /\ Increased(base, pods))

QuietInv == BaseCovers /\ Observed /\ QuietAhead /\ QuietAfterRestart

\* A restart that counts is remembered.
CalmBefore == increased \/ calm = MaxAge

\* Increased and RestartSeen, without the map of the counts.
LEMMA IncreasedMeans ==
    /\ \A counts, ps : Increased(counts, ps) <=>
           \E u \in DOMAIN counts : u \in DOMAIN ps /\ ps[u].rc >= 0 /\ ps[u].rc > counts[u]
    /\ RestartSeen <=>
           \E u \in DOMAIN seen :
               /\ u \in DOMAIN pods /\ pods[u].rc >= 0 /\ pods[u].rc > seen[u]
               /\ streak.class = "complete" => u \in DOMAIN streak.known
    BY DEF Increased, RestartSeen, RestartCounts

\* No step forgets a restart.
LEMMA CalmStep ==
    ASSUME TypeOK, CalmBefore, [Next]_vars
    PROVE  CalmBefore'
<1> DEFINE Kept == UNCHANGED <<increased, calm>>
<1>1. Kept => CalmBefore'
    BY DEF CalmBefore
<1>2. ASSUME Observe PROVE CalmBefore'
    <2>1. /\ increased' = (increased \/ Increased(seen, pods))
          /\ calm' = IF RestartSeen THEN 0 ELSE calm
        BY <1>2 DEF Observe
    <2>2. RestartSeen => Increased(seen, pods)
        BY IncreasedMeans
    <2>3. CASE RestartSeen
        BY <2>1, <2>2, <2>3 DEF CalmBefore
    <2>4. CASE ~RestartSeen
        BY <2>1, <2>4 DEF CalmBefore
    <2> QED
        BY <2>3, <2>4
<1>3. ASSUME Time PROVE CalmBefore'
    <2>1. increased' = increased /\ calm' = Aged(calm)
        BY <1>3 DEF Time
    <2>2. Aged(MaxAge) = MaxAge
        BY BoundsAssumption DEF Aged
    <2> QED
        BY <2>1, <2>2 DEF CalmBefore
<1>4. ReadController \/ ReadControllerFails => Observe
    BY DEF ReadController, ReadControllerFails
<1>5. ListPods \/ ListFails \/ ReadVersion \/ ReadVersionFails => Kept
    BY DEF ListPods, ListFails, ReadVersion, ReadVersionFails, NotObserved, historyVars
<1>6. ASSUME NEW eventsRead \in BOOLEAN, NEW sourcesRead \in BOOLEAN,
             Decide(eventsRead, sourcesRead)
      PROVE  Kept
    BY <1>6 DEF Decide
<1>7. Select => Kept
    BY DEF Select, ContextDone, StabilityFires, GracePoll, SettlePoll, PodEvent,
           ControllerEvent, StreamExpires, StreamFails, NotObserved, historyVars
<1>8. Changing \/ DeadlinePasses \/ UNCHANGED vars => Kept
    BY DEF Changing, DeadlinePasses, vars, loopVars, historyVars
<1>9. Environment => Changing \/ DeadlinePasses \/ Time
    BY DEF Environment, PodCreated, PodUpdated, PodDeleted, EventsChange, PodChanges,
           RejectionsChange, ControllerChanges
<1> HIDE DEF Kept
<1> QED
    BY <1>1, <1>2, <1>3, <1>4, <1>5, <1>6, <1>7, <1>8, <1>9
       DEF Next, Sequential, Terminated

\* A step that closes the window, or leaves it closed, and is no success.
LEMMA QuietClosed ==
    ASSUME stab'.on = FALSE, verdict' # "success", pc' # "decide"
    PROVE  QuietInv'
    BY DEF QuietInv, BaseCovers, Observed, QuietAhead, QuietAfterRestart

\* A step that neither observes nor applies anything.
LEMMA QuietAside ==
    ASSUME QuietInv, UNCHANGED <<stab, base, pods, seen, calm, verdict>>,
           pc' = pc \/ (pc # "decide" /\ pc' # "decide")
    PROVE  QuietInv'
    BY DEF QuietInv, BaseCovers, Observed, QuietAhead, QuietAfterRestart, Increased

\* What observe counts as an increase, of a container that the run of complete ticks
\* knows, is one for the window under way too.
LEMMA QuietObserve ==
    ASSUME TypeOK, WindowsMatchStreak, CountsGrow, QuietInv, verdict = "none", ReadController
    PROVE  QuietInv'
<1>1. /\ UNCHANGED <<stab, base, pods, verdict>> /\ pc = "tick" /\ pc' = "decide"
      /\ calm' = IF RestartSeen THEN 0 ELSE calm
    BY DEF ReadController, Observe, windowVars
<1>2. /\ DOMAIN seen' = DOMAIN seen \cup {u \in DOMAIN pods : pods[u].rc >= 0}
      /\ \A u \in DOMAIN seen' :
            seen'[u] = IF u \in DOMAIN pods /\ pods[u].rc >= 0 THEN pods[u].rc ELSE seen[u]
    BY ObservedCounts DEF ReadController
<1>3. /\ \A u \in DOMAIN pods : pods[u].rc \in Int
      /\ \A u \in DOMAIN seen : seen[u] \in Int
      /\ \A u \in DOMAIN base : base[u] \in Int
    BY RestartTypes
<1>4. BaseCovers'
    <2> SUFFICES ASSUME stab.on, NEW u \in DOMAIN base
                 PROVE  u \in DOMAIN seen' /\ base[u] <= seen'[u]
        BY <1>1 DEF BaseCovers
    <2>1. u \in DOMAIN seen /\ base[u] <= seen[u] /\ u \in DOMAIN seen'
        BY <1>2 DEF QuietInv, BaseCovers
    <2>2. CASE u \in DOMAIN pods /\ pods[u].rc >= 0
        <3>1. seen'[u] = pods[u].rc /\ seen[u] <= pods[u].rc
            BY <1>2, <2>1, <2>2 DEF CountsGrow
        <3> QED
            BY <1>3, <2>1, <2>2, <3>1
    <2>3. CASE ~(u \in DOMAIN pods /\ pods[u].rc >= 0)
        BY <1>2, <2>1, <2>3
    <2> QED
        BY <2>2, <2>3
<1>5. Observed'
    BY <1>1, <1>2 DEF Observed
<1>6. QuietAhead'
    <2> SUFFICES ASSUME stab.on
                 PROVE  calm' + stab.left >= RestartedWindow \/ Increased(base, pods)
        BY <1>1 DEF QuietAhead, Increased
    <2>1. CASE RestartSeen
        <3>1. streak.class = "complete" /\ base = streak.known
            BY DEF WindowsMatchStreak
        <3>2. PICK u \in DOMAIN seen :
                  /\ u \in DOMAIN pods /\ pods[u].rc >= 0 /\ pods[u].rc > seen[u]
                  /\ u \in DOMAIN base
            BY <2>1, <3>1, IncreasedMeans
        <3>3. base[u] <= seen[u]
            BY <3>2 DEF QuietInv, BaseCovers
        <3>4. pods[u].rc > base[u]
            BY <1>3, <3>2, <3>3
        <3> QED
            BY <3>2, <3>4, IncreasedMeans
    <2>2. CASE ~RestartSeen
        BY <1>1, <2>2 DEF QuietInv, QuietAhead
    <2> QED
        BY <2>1, <2>2
<1>7. QuietAfterRestart'
    BY <1>1 DEF QuietAfterRestart
<1> QED
    BY <1>4, <1>5, <1>6, <1>7 DEF QuietInv

\* A complete tick leaves an undisturbed window alone, and opens one of the full
\* length when a restart has been seen.
LEMMA QuietComplete ==
    ASSUME TypeOK, CalmBefore, QuietInv, verdict = "none", pc = "decide", Complete,
           UNCHANGED <<pods, seen, increased, calm>>
    PROVE  QuietInv'
<1>1. verdict' = "none" /\ pc' \in {"select", "rv"}
    BY DEF Complete, Resume
<1>2. Observed' /\ QuietAfterRestart'
    BY <1>1 DEF Observed, QuietAfterRestart
<1>3. CASE stab.on /\ ~RestartedDuringWindow
    <2>1. UNCHANGED <<stab, base>> /\ ~Increased(base, pods)
        BY <1>3 DEF Complete, RestartedDuringWindow
    <2>2. BaseCovers'
        BY <2>1 DEF QuietInv, BaseCovers
    <2>3. QuietAhead'
        BY <2>1 DEF QuietInv, QuietAhead
    <2> QED
        BY <1>2, <2>2, <2>3 DEF QuietInv
<1>4. CASE ~(stab.on /\ ~RestartedDuringWindow)
    <2>1. /\ stab' = TimerOn(StabilityWindow(increased))
          /\ base' = RestartCounts(pods)
        BY <1>4 DEF Complete
    <2>2. /\ DOMAIN base' = {u \in DOMAIN pods : pods[u].rc >= 0}
          /\ \A u \in DOMAIN base' : base'[u] = pods[u].rc
        BY <2>1 DEF RestartCounts
    <2>3. \A u \in DOMAIN base' : u \in DOMAIN seen /\ base'[u] <= seen[u]
        <3> SUFFICES ASSUME NEW u \in DOMAIN base' PROVE u \in DOMAIN seen /\ base'[u] <= seen[u]
            OBVIOUS
        <3>1. u \in DOMAIN seen /\ seen[u] = pods[u].rc /\ base'[u] = pods[u].rc
            BY <2>2 DEF QuietInv, Observed
        <3>2. pods[u].rc \in Int
            BY <2>2, RestartTypes
        <3> QED
            BY <3>1, <3>2
    <2>4. BaseCovers'
        BY <2>2, <2>3 DEF BaseCovers
    <2>5. QuietAhead'
        <3>1. /\ calm \in Nat /\ RestartedWindow \in Nat /\ CleanWindow \in Nat
              /\ MaxAge \in Nat /\ RestartedWindow < MaxAge
            BY WindowsAssumption, BoundsAssumption DEF TypeOK
        <3>2. CASE increased
            <4>1. stab'.left = RestartedWindow
                BY <2>1, <3>2 DEF TimerOn, StabilityWindow
            <4> QED
                BY <3>1, <4>1 DEF QuietAhead
        <3>3. CASE ~increased
            <4>1. stab'.left = CleanWindow /\ calm = MaxAge
                BY <2>1, <3>3 DEF TimerOn, StabilityWindow, CalmBefore
            <4> QED
                BY <3>1, <4>1 DEF QuietAhead
        <3> QED
            BY <3>2, <3>3
    <2> QED
        BY <1>2, <2>4, <2>5 DEF QuietInv
<1> QED
    BY <1>3, <1>4

\* The clock takes from the window what it adds to the quiet time.
LEMMA QuietTime ==
    ASSUME TypeOK, QuietInv, verdict = "none", Time
    PROVE  QuietInv'
<1>1. /\ UNCHANGED <<pc, base, pods, seen, verdict>>
      /\ calm' = IF calm < MaxAge THEN calm + 1 ELSE calm
    BY DEF Time, Aged
<1>2. stab'.on = stab.on /\ stab'.left = IF stab.left > 0 THEN stab.left - 1 ELSE stab.left
    BY DEF Time, TypeOK
<1>3. stab.left \in 0..RestartedWindow /\ calm \in 0..MaxAge
    BY DEF TypeOK
<1>4. QuietAhead'
    <2>1. calm + stab.left >= RestartedWindow => calm' + stab'.left >= RestartedWindow
        BY <1>1, <1>2, <1>3, WindowsAssumption, BoundsAssumption
    <2>2. Increased(base, pods) => Increased(base, pods)'
        BY <1>1 DEF Increased
    <2> QED
        BY <1>1, <1>2, <2>1, <2>2 DEF QuietInv, QuietAhead
<1>5. BaseCovers' /\ Observed' /\ QuietAfterRestart'
    BY <1>1, <1>2 DEF QuietInv, BaseCovers, Observed, QuietAfterRestart
<1> QED
    BY <1>4, <1>5 DEF QuietInv

\* Success comes when nothing is left of the window.
LEMMA QuietSuccess ==
    ASSUME TypeOK, QuietInv, StabilityFires
    PROVE  QuietInv'
<1>1. /\ stab.on /\ stab.left = 0 /\ pc = "select" /\ pc' = "done"
      /\ stab' = TimerOff /\ UNCHANGED calm
    BY DEF StabilityFires, Return, StopAll, StopStability, historyVars
<1>2. calm \in Int
    BY BoundsAssumption DEF TypeOK
<1>3. calm >= RestartedWindow
    BY <1>1, <1>2 DEF QuietInv, QuietAhead
<1>4. QuietAfterRestart'
    BY <1>1, <1>3 DEF QuietAfterRestart
<1> QED
    BY <1>1, <1>4 DEF QuietInv, BaseCovers, Observed, QuietAhead, TimerOff

\* Every step keeps the window long enough.
LEMMA QuietWindowStep ==
    ASSUME EvidenceInv, CountsGrow, CalmBefore, QuietInv, [Next]_vars
    PROVE  QuietInv'
<1>0. /\ TypeOK /\ WindowsMatchStreak
      /\ pc # "done" => verdict = "none"
      /\ pc = "list" => ~stab.on
      /\ stab.on \in BOOLEAN
    BY DEF EvidenceInv, WindowsMatchStreak, TypeOK
<1>1. ASSUME ReturnError PROVE QuietInv'
    BY <1>1, QuietClosed DEF ReturnError, Return, StopAll, StopStability, TimerOff
<1>2. CASE Sequential
    <2>1. CASE ListPods
        BY <1>0, <2>1, QuietClosed DEF ListPods, windowVars
    <2>2. CASE ReadController
        BY <1>0, <2>2, QuietObserve DEF ReadController
    <2>3. ASSUME NEW eventsRead \in BOOLEAN, NEW sourcesRead \in BOOLEAN,
                 Decide(eventsRead, sourcesRead)
          PROVE  QuietInv'
        <3> DEFINE findings == Diagnosis(pods, wl, eventsRead, sourcesRead)
        <3>1. /\ pc = "decide" /\ UNCHANGED <<pods, seen, increased, calm>>
              /\ \/ Ambiguous(findings)
                 \/ Held(findings)
                 \/ Complete
                 \/ Progressing
                 \/ Return("cause", findings)
            BY <2>3 DEF Decide
        <3> HIDE DEF findings
        <3>2. CASE Complete
            BY <1>0, <3>1, <3>2, QuietComplete
        <3>3. CASE StopStability /\ Resume
            BY <1>0, <3>1, <3>3, QuietClosed DEF StopStability, TimerOff, Resume
        <3>4. CASE \E v \in {"ambiguous", "held", "cause"} : Return(v, findings)
            BY <3>4, QuietClosed DEF Return, StopAll, StopStability, TimerOff
        <3> QED
            BY <3>1, <3>2, <3>3, <3>4 DEF Ambiguous, Held, Progressing, StopAll
    <2>4. CASE ReadVersion
        BY <2>4, QuietAside DEF ReadVersion, windowVars, historyVars
    <2> QED
        BY <1>1, <1>2, <2>1, <2>2, <2>3, <2>4
           DEF Sequential, ListFails, ReadControllerFails, ReadVersionFails
<1>3. CASE Select
    <2>1. CASE StabilityFires
        BY <1>0, <2>1, QuietSuccess
    <2>2. CASE GracePoll \/ SettlePoll \/ ControllerEvent
        BY <2>2, QuietAside DEF GracePoll, SettlePoll, ControllerEvent, windowVars, historyVars
    <2>3. CASE PodEvent
        <3>1. /\ UNCHANGED <<stab, base, seen, calm, verdict>>
              /\ pc = "select" /\ pc' = "tick"
            BY <2>3 DEF PodEvent, windowVars, historyVars
        <3> QED
            BY <3>1 DEF QuietInv, BaseCovers, Observed, QuietAhead, QuietAfterRestart
    <2>4. CASE StreamExpires
        BY <1>0, <2>4, QuietClosed DEF StreamExpires, StopAll, StopStability, TimerOff
    <2> QED
        BY <1>1, <1>3, <2>1, <2>2, <2>3, <2>4 DEF Select, ContextDone, StreamFails
<1>4. CASE Environment
    <2>1. CASE Changing \/ DeadlinePasses
        BY <2>1, QuietAside DEF Changing, DeadlinePasses, loopVars, windowVars, historyVars
    <2>2. CASE Time
        BY <1>0, <2>2, QuietTime DEF Time
    <2> QED
        BY <1>4, <2>1, <2>2
           DEF Environment, PodCreated, PodUpdated, PodDeleted, EventsChange, PodChanges,
               RejectionsChange, ControllerChanges
<1>5. CASE UNCHANGED vars
    BY <1>5, QuietAside DEF vars, loopVars, windowVars, historyVars
<1> QED
    BY <1>2, <1>3, <1>4, <1>5 DEF Next, Terminated

\* Success never comes within the longer window of a restart the loop has seen,
\* through relists, creations, deletions and any order of the pod events and the
\* ticks; only a container whose first status comes while the stability window is
\* open may have restarted since (RestartSeen).
THEOREM SuccessIsQuiet == Spec => []QuietAfterRestart
<1> DEFINE IInv == EvidenceInv /\ ReplayInv /\ CountsGrow /\ CalmBefore /\ QuietInv
<1>1. Init => IInv
    <2> SUFFICES ASSUME Init PROVE ReplayInv /\ CountsGrow /\ CalmBefore /\ QuietInv
                                   /\ WindowsMatchStreak /\ EvidencePersisted
        BY InitType DEF EvidenceInv
    <2>1. WindowsMatchStreak /\ EvidencePersisted
        BY DEF Init, TimerOff, TickerOff, WindowsMatchStreak, EvidencePersisted
    <2>2. ReplayInv
        BY DEF Init, ReplayInv, PodCacheReplays
    <2>3. CountsGrow /\ CalmBefore
        BY DEF Init, NoPods, NoCounts, CountsGrow, Ordered, CalmBefore
    <2>4. QuietInv
        BY DEF Init, TimerOff, QuietInv, BaseCovers, Observed, QuietAhead, QuietAfterRestart
    <2> QED
        BY <2>1, <2>2, <2>3, <2>4
<1>2. IInv /\ [Next]_vars => IInv'
    <2> SUFFICES ASSUME IInv, [Next]_vars PROVE IInv'
        OBVIOUS
    <2>1. TypeOK'
        BY SequentialType, SelectType, EnvironmentType, StutterType
           DEF EvidenceInv, Next, Terminated
    <2>2. EvidenceInv' /\ ReplayInv'
        BY <2>1, EvidenceStep, ReplayStep DEF EvidenceInv
    <2>3. CountsGrow' /\ CalmBefore'
        BY CountsStep, CalmStep DEF EvidenceInv
    <2>4. QuietInv'
        BY QuietWindowStep
    <2> QED
        BY <2>2, <2>3, <2>4
<1>3. IInv => QuietAfterRestart
    BY DEF QuietInv
<1> QED
    BY <1>1, <1>2, <1>3, PTL DEF Spec
=============================================================================
