---------------------------- MODULE RolloutWatch ----------------------------
(***************************************************************************)
(* The observation loop of `kubectl safe-rollout watch`                    *)
(* (internal/diagnose/watch.go): one goroutine that lists the pods of a    *)
(* workload, follows two watch streams, rereads the controller and the     *)
(* Events at every tick, and ends with one verdict.                        *)
(*                                                                         *)
(* The cluster is the environment: it changes between any two API calls of *)
(* the loop.  What a tick finds is kept as the set of classes of its       *)
(* Findings, because the loop only tells apart a cause that is determined, *)
(* one that is undetermined, and one read from the spec alone (paused, or  *)
(* a StatefulSet update that the controller will not act on).              *)
(*                                                                         *)
(* Time is discrete; one unit is the poll interval of the two tickers.     *)
(***************************************************************************)
EXTENDS Integers, Sequences

CONSTANTS
    Pods,             \* UIDs a pod of the workload may have
    MaxRestarts,      \* bound on a container's restart count
    MaxChanges,       \* bound on the changes the cluster makes
    MaxRelists,       \* bound on the 410 answers of the API server
    CleanWindow,      \* rolloutStabilityWindow, in poll intervals
    RestartedWindow,  \* restartedRolloutStabilityWindow
    GraceWindow,      \* undeterminedGraceWindow
    PausedWindow,     \* pausedSettleWindow
    MaxAge,           \* bound on the ages kept in the history variables
    Troubles,         \* the symptoms a pod may show
    Rejections,       \* the classes FailedCreate events may have
    Faults,           \* which of the failures below may happen
    GapChanges        \* may the controller change between the reads of the
                      \* initial tick and the read of its resourceVersion?

ASSUME WindowsAssumption ==
    /\ CleanWindow \in Nat
    /\ RestartedWindow \in Nat
    /\ GraceWindow \in Nat
    /\ PausedWindow \in Nat
    /\ CleanWindow <= RestartedWindow
    /\ PausedWindow <= RestartedWindow

ASSUME BoundsAssumption ==
    /\ MaxRestarts \in Nat
    /\ MaxChanges \in Nat
    /\ MaxRelists \in Nat
    /\ MaxAge \in Nat
    /\ RestartedWindow < MaxAge
    /\ GraceWindow < MaxAge

\* "known": a structured status explains it (OOMKilled, InvalidImageName, ...);
\* "ambiguous": the status is a Finding that an Event may make a cause (ErrImagePull,
\* ...); "waiting": no Finding until there is an Event (FailedMount, FailedScheduling).
Symptoms == {"known", "ambiguous", "waiting"}

ASSUME SwitchesAssumption ==
    /\ Troubles \subseteq Symptoms
    /\ Rejections \subseteq {"cause", "ambiguous"}
    /\ Faults \subseteq {"api", "events", "sources", "gone", "stream", "timeout"}
    /\ GapChanges \in BOOLEAN

VARIABLES
    \* the cluster
    ctl,         \* the controller object, as RolloutComplete and the Diagnosers read it
    podState,    \* every pod of the workload, in its current state
    events,      \* what the Events of every pod, visible through List, say of its trouble
    rejections,  \* classes of the FailedCreate events of the pod-creation source
    changes,     \* how often the cluster has changed
    \* the streams and the context
    podQ,        \* pod changes after the resourceVersion of the list
    ctlQ,        \* controller changes after the resourceVersion that was read
    relists,     \* how many 410 answers there have been
    ctxDone,     \* the deadline of --timeout has passed
    \* the loop: locals of Watch and of watchFromCurrentState
    pc,          \* where the goroutine is
    started,     \* the two RetryWatchers exist
    pods,        \* the map pods
    wl,          \* the controller object read by the tick under way
    seen,        \* restarts.counts
    increased,   \* restarts.increaseObserved
    stab,        \* the timer stability
    base,        \* stabilityRestartCounts
    grace,       \* graceTicker and graceDeadline
    settle,      \* pausedTicker and pausedDeadline
    verdict,     \* how the observation ended
    report,      \* the classes of the Findings in the Outcome returned
    \* history, read by the properties only
    streak,      \* the run of ticks of one class that is under way
    calm         \* time since a tick last saw a restart that counts (see RestartSeen)

clusterVars == <<ctl, podState, events, rejections, changes>>
streamVars  == <<podQ, ctlQ, relists, ctxDone>>
windowVars  == <<stab, base, grace, settle>>
historyVars == <<streak, calm>>
loopVars    == <<pc, started, pods, wl, seen, increased, windowVars, verdict, report>>
vars        == <<clusterVars, streamVars, loopVars, historyVars>>

-----------------------------------------------------------------------------
(* What the loop reads.                                                    *)

Classes == {"cause", "ambiguous", "held"}

\* Nothing, a message no pattern recognises, or one that names the cause.
Notes == {"none", "vague", "exact"}

\* rc is -1 until the pod has a container status.
PodStatus == [rc : -1..MaxRestarts, sym : Troubles \cup {"none"}]

\* A pod UID is never used twice.
PodLife == [phase : {"unborn", "live", "deleted"}, status : PodStatus]

NewPod == [rc |-> -1, sym |-> "none"]

\* complete: RolloutComplete().  held: Paused() or a Finding of StatefulSetUpdate.
\* cond: "stuck" for a Progressing condition that is a cause by itself
\* (deadline exceeded, ReplicaSet refused by a quota), "refused" for a
\* ReplicaSetCreateError whose message names no quota.
Controllers ==
    {c \in [complete : BOOLEAN, held : BOOLEAN, cond : {"ok", "stuck", "refused"}] :
        c.complete => c.cond = "ok"}

Live == {u \in Pods : podState[u].phase = "live"}

ClusterPods == [u \in Live |-> podState[u].status]

\* Mutant: a pod without a container status is counted as well.
RestartCountsOfAll(ps) == [u \in DOMAIN ps |-> ps[u].rc]

\* collectContainerRestartCounts: only pods that carry a container status.
RestartCounts(ps) == [u \in {v \in DOMAIN ps : ps[v].rc >= 0} |-> ps[u].rc]

\* containerRestartCounts.increased, against the counts of the pods in ps.
Increased(baseline, ps) ==
    \E u \in DOMAIN baseline \cap DOMAIN RestartCounts(ps) : ps[u].rc > baseline[u]

AnyRestart(ps) == \E u \in DOMAIN ps : ps[u].rc > 0

\* A pod in status p is a cause, or an ambiguous Finding, when its Events say note.
PodCause(p, note) ==
    p.sym = "known" \/ (p.sym \in {"ambiguous", "waiting"} /\ note = "exact")

PodAmbiguous(p, note) ==
    (p.sym = "ambiguous" /\ note # "exact") \/ (p.sym = "waiting" /\ note = "vague")

\* The classes of the Findings of RunDiagnosis on the cached pods ps, the
\* controller c, and what could be listed of the Events and of the sources.
Diagnosis(ps, c, eventsRead, sourcesRead) ==
    LET Note(u) == IF eventsRead THEN events[u] ELSE "none"
    IN  {f \in Classes :
            \/ f = "cause" /\ \E u \in DOMAIN ps : PodCause(ps[u], Note(u))
            \/ f = "ambiguous" /\ \E u \in DOMAIN ps : PodAmbiguous(ps[u], Note(u))
            \/ f = "held" /\ c.held
            \/ f = "cause" /\ c.cond = "stuck"
            \/ f = "ambiguous" /\ c.cond = "refused"
            \/ eventsRead /\ sourcesRead /\ f \in rejections}

\* The case of handleTick's switch that a tick takes: allUndetermined,
\* isSettleWindowOnly, any other Finding, or none.
TickClass(findings, c) ==
    IF findings = {} THEN IF c.complete THEN "complete" ELSE "progressing"
    ELSE IF findings = {"ambiguous"} THEN "ambiguous"
    ELSE IF findings = {"held"} THEN "held"
    ELSE "cause"

TickClasses == {"ambiguous", "held", "complete", "progressing", "cause"}

-----------------------------------------------------------------------------
(* The timers.  left counts down; a ticker's deadline has passed below 0,   *)
(* and at 0 the clock may be read on either side of it.                     *)

TimerOff == [on |-> FALSE, left |-> 0]
TimerOn(window) == [on |-> TRUE, left |-> window]

TickerOff == [on |-> FALSE, left |-> 0, tick |-> FALSE]
TickerOn(window) == [on |-> TRUE, left |-> window, tick |-> FALSE]

\* Mutant: a restart does not lengthen the window.
StabilityWindowClean(restarted) == CleanWindow

\* The windows depend on the restarts seen so far.
StabilityWindow(restarted) == IF restarted THEN RestartedWindow ELSE CleanWindow
SettleWindow(restarted)    == IF restarted THEN RestartedWindow ELSE PausedWindow

NoCounts == [u \in {} |-> 0]

NoPods == [u \in {} |-> NewPod]

StopStability == stab' = TimerOff /\ base' = NoCounts
StopGrace     == grace' = TickerOff
StopSettle    == settle' = TickerOff
StopAll       == StopStability /\ StopGrace /\ StopSettle

-----------------------------------------------------------------------------
(* Initial states: any cluster, and a loop that has not listed yet.         *)

InitialLives ==
    [phase : {"unborn"}, status : {NewPod}] \cup [phase : {"live"}, status : PodStatus]

Init ==
    /\ ctl \in Controllers
    /\ podState \in [Pods -> InitialLives]
    /\ events \in [Pods -> Notes]
    /\ \A u \in Pods : podState[u].phase = "unborn" => events[u] = "none"
    /\ rejections \in SUBSET Rejections
    /\ changes = 0
    /\ podQ = <<>> /\ ctlQ = 0 /\ relists = 0 /\ ctxDone = FALSE
    /\ pc = "list" /\ started = FALSE
    /\ pods = NoPods /\ wl = ctl
    /\ seen = NoCounts /\ increased = FALSE
    /\ stab = TimerOff /\ base = NoCounts
    /\ grace = TickerOff /\ settle = TickerOff
    /\ verdict = "none" /\ report = {}
    /\ streak = [class |-> "none", age |-> 0, known |-> NoCounts, rst |-> FALSE]
    /\ calm = MaxAge

-----------------------------------------------------------------------------
(* The sequential part of the loop.                                         *)

Return(v, findings) ==
    /\ pc' = "done"
    /\ verdict' = v
    /\ report' = findings
    /\ StopAll

\* An API call that returns an error: the server's, or that of the context.
CallFails == ctxDone \/ "api" \in Faults

ReturnError ==
    /\ Return(IF ctxDone THEN "timeout" ELSE "error", {})
    /\ UNCHANGED <<clusterVars, streamVars, started, pods, wl, streak>>

\* The restart counts that grew since the last tick.  While a run of complete ticks
\* is under way, only those of the containers it began with.
RestartSeen ==
    \E u \in DOMAIN seen \cap DOMAIN RestartCounts(pods) :
        /\ pods[u].rc > seen[u]
        /\ streak.class = "complete" => u \in DOMAIN streak.known

\* restartObservations.observe
Observe ==
    /\ increased' = (increased \/ Increased(seen, pods))
    /\ seen' = [u \in DOMAIN seen \cup DOMAIN RestartCounts(pods) |->
                    IF u \in DOMAIN RestartCounts(pods) THEN pods[u].rc ELSE seen[u]]
    /\ calm' = IF RestartSeen THEN 0 ELSE calm

NotObserved == UNCHANGED <<seen, increased, calm>>

\* The List of watchFromCurrentState: the pod stream will start at its version.
ListPods ==
    /\ pc = "list" /\ ~ctxDone
    /\ pods' = ClusterPods
    /\ podQ' = <<>>
    /\ streak' = [class |-> "none", age |-> 0, known |-> NoCounts, rst |-> FALSE]
    /\ pc' = "tick"
    /\ UNCHANGED <<clusterVars, ctlQ, relists, ctxDone, started, wl, seen, increased,
                   windowVars, verdict, report, calm>>

ListFails == pc = "list" /\ CallFails /\ ReturnError /\ NotObserved

\* The first half of handleTick: observe, and the Get of evaluateTick.
ReadController ==
    /\ pc = "tick" /\ ~ctxDone
    /\ Observe
    /\ wl' = ctl
    /\ pc' = "decide"
    /\ UNCHANGED <<clusterVars, streamVars, started, pods, windowVars, verdict, report, streak>>

ReadControllerFails == pc = "tick" /\ CallFails /\ ReturnError /\ Observe

\* handleTick returns to the code that called it: the first tick to the read of
\* the controller's version, every other one to the select.
Resume ==
    /\ pc' = IF started THEN "select" ELSE "rv"
    /\ UNCHANGED <<verdict, report>>

\* Mutant: the deadline of the grace window is not looked at.
AmbiguousAtOnce(findings) ==
    /\ StopSettle
    /\ \/ ~grace.on /\ grace' = TickerOn(GraceWindow) /\ StopStability /\ Resume
       \/ grace.on /\ Return("ambiguous", findings)

Ambiguous(findings) ==
    /\ StopSettle
    /\ \/ /\ ~grace.on
          /\ grace' = TickerOn(GraceWindow)
          /\ StopStability /\ Resume
       \/ /\ grace.on /\ grace.left >= 0
          /\ UNCHANGED grace
          /\ StopStability /\ Resume
       \/ /\ grace.on /\ grace.left <= 0
          /\ Return("ambiguous", findings)

Held(findings) ==
    /\ StopGrace
    /\ \/ /\ ~settle.on
          /\ settle' = TickerOn(SettleWindow(AnyRestart(pods)))
          /\ StopStability /\ Resume
       \/ /\ settle.on /\ settle.left >= 0
          /\ UNCHANGED settle
          /\ StopStability /\ Resume
       \/ /\ settle.on /\ settle.left <= 0
          /\ Return("held", findings)

\* The end of handleTick when nothing was found: the stability window.
\* Mutant: a restart does not reset the stability window.
RestartIgnored == FALSE

RestartedDuringWindow == stab.on /\ Increased(base, pods)

Complete ==
    /\ StopGrace /\ StopSettle /\ Resume
    /\ IF stab.on /\ ~RestartedDuringWindow
       THEN UNCHANGED <<stab, base>>
       ELSE /\ stab' = TimerOn(StabilityWindow(increased))
            /\ base' = RestartCounts(pods)

\* Mutant: a tick that is not complete leaves the stability timer running.
ProgressingKeepsTimer == UNCHANGED <<stab, base>> /\ StopGrace /\ StopSettle /\ Resume

Progressing == StopAll /\ Resume

\* The run of ticks of one class that this tick belongs to.  A restart of a
\* container known at its start ends a run of complete ticks.
NextStreak(class) ==
    IF /\ streak.class = class
       /\ ~(class = "complete" /\ Increased(streak.known, pods))
    THEN streak
    ELSE [class |-> class, age |-> 0, known |-> RestartCounts(pods),
          rst |-> IF class = "held" THEN AnyRestart(pods) ELSE increased]

\* The second half of handleTick: podCreationSources and the Events are
\* listed, RunDiagnosis runs, and the switch acts on its Findings.
Decide(eventsRead, sourcesRead) ==
    LET findings == Diagnosis(pods, wl, eventsRead, sourcesRead)
        class    == TickClass(findings, wl)
    IN  /\ pc = "decide"
        /\ eventsRead => ~ctxDone
        /\ ~eventsRead => ctxDone \/ "events" \in Faults
        /\ sourcesRead => ~ctxDone
        /\ ~sourcesRead => ctxDone \/ "sources" \in Faults
        /\ \/ class = "ambiguous"   /\ Ambiguous(findings)
           \/ class = "held"        /\ Held(findings)
           \/ class = "complete"    /\ Complete
           \/ class = "progressing" /\ Progressing
           \/ class = "cause"       /\ Return("cause", findings)
        /\ streak' = NextStreak(class)
        /\ UNCHANGED <<clusterVars, streamVars, started, pods, wl, seen, increased, calm>>

\* The second Get, for the version the controller stream starts at, and the
\* two RetryWatchers.
ReadVersion ==
    /\ pc = "rv" /\ ~ctxDone
    /\ ctlQ' = 0
    /\ started' = TRUE
    /\ pc' = "select"
    /\ UNCHANGED <<clusterVars, podQ, relists, ctxDone, pods, wl, seen, increased,
                   windowVars, verdict, report, historyVars>>

ReadVersionFails == pc = "rv" /\ CallFails /\ ReturnError /\ NotObserved

-----------------------------------------------------------------------------
(* The branches of the select.                                              *)

\* Mutant: the select has no ctx.Done branch.
ContextIgnored == pc = "select" /\ ctxDone /\ UNCHANGED vars

ContextDone == pc = "select" /\ ctxDone /\ ReturnError /\ NotObserved

StabilityFires ==
    /\ pc = "select" /\ stab.on /\ stab.left = 0
    /\ Return("success", {})
    /\ UNCHANGED <<clusterVars, streamVars, started, pods, wl, seen, increased, historyVars>>

\* Mutant: the tick of graceTicker is consumed and nothing is read again.
GracePollIdle ==
    /\ pc = "select" /\ grace.tick
    /\ grace' = [grace EXCEPT !.tick = FALSE]
    /\ UNCHANGED <<clusterVars, streamVars, pc, started, pods, wl, seen, increased,
                   stab, base, settle, verdict, report, historyVars>>

GracePoll ==
    /\ pc = "select" /\ grace.tick
    /\ grace' = [grace EXCEPT !.tick = FALSE]
    /\ pc' = "tick"
    /\ UNCHANGED <<clusterVars, streamVars, started, pods, wl, seen, increased,
                   stab, base, settle, verdict, report, historyVars>>

SettlePoll ==
    /\ pc = "select" /\ settle.tick
    /\ settle' = [settle EXCEPT !.tick = FALSE]
    /\ pc' = "tick"
    /\ UNCHANGED <<clusterVars, streamVars, started, pods, wl, seen, increased,
                   stab, base, grace, verdict, report, historyVars>>

\* Mutant: applyPodEvent stores the last object of a deleted pod.
ApplyKeepsDeleted(ps, e) ==
    [u \in DOMAIN ps \cup {e.uid} |-> IF u = e.uid THEN e.life.status ELSE ps[u]]

\* applyPodEvent
Apply(ps, e) ==
    IF e.life.phase = "deleted"
    THEN [u \in DOMAIN ps \ {e.uid} |-> ps[u]]
    ELSE [u \in DOMAIN ps \cup {e.uid} |-> IF u = e.uid THEN e.life.status ELSE ps[u]]

PodEvent ==
    /\ pc = "select" /\ podQ # <<>>
    /\ pods' = Apply(pods, Head(podQ))
    /\ podQ' = Tail(podQ)
    /\ pc' = "tick"
    /\ UNCHANGED <<clusterVars, ctlQ, relists, ctxDone, started, wl, seen, increased,
                   windowVars, verdict, report, historyVars>>

\* Mutant: an event of the controller's stream is received and no tick follows.
ControllerEventDropped ==
    /\ pc = "select" /\ ctlQ > 0
    /\ ctlQ' = ctlQ - 1
    /\ UNCHANGED <<clusterVars, podQ, relists, ctxDone, loopVars, historyVars>>

ControllerEvent ==
    /\ pc = "select" /\ ctlQ > 0
    /\ ctlQ' = ctlQ - 1
    /\ pc' = "tick"
    /\ UNCHANGED <<clusterVars, podQ, relists, ctxDone, started, pods, wl, seen, increased,
                   windowVars, verdict, report, historyVars>>

\* 410: Watch starts again from a new List; only restarts survives.
StreamExpires ==
    /\ pc = "select" /\ "gone" \in Faults /\ relists < MaxRelists
    /\ relists' = relists + 1
    /\ pc' = "list" /\ started' = FALSE
    /\ pods' = NoPods /\ podQ' = <<>> /\ ctlQ' = 0
    /\ StopAll
    /\ UNCHANGED <<clusterVars, ctxDone, wl, seen, increased, verdict, report, historyVars>>

StreamFails == pc = "select" /\ "stream" \in Faults /\ ReturnError /\ NotObserved

-----------------------------------------------------------------------------
(* The cluster, the clock and --timeout.                                    *)

Changing ==
    /\ pc # "done" /\ changes < MaxChanges
    /\ changes' = changes + 1
    /\ UNCHANGED <<relists, ctxDone, loopVars, historyVars>>

\* The pod stream carries what changes after the List.
PodChanges(u, life) ==
    /\ Changing
    /\ podState' = [podState EXCEPT ![u] = life]
    /\ podQ' = IF pc = "list" THEN podQ ELSE Append(podQ, [uid |-> u, life |-> life])
    /\ UNCHANGED <<ctl, events, rejections, ctlQ>>

PodCreated(u) ==
    /\ podState[u].phase = "unborn"
    /\ PodChanges(u, [phase |-> "live", status |-> NewPod])

\* A kubelet writes the status: restart counts only grow.
PodUpdated(u) ==
    /\ podState[u].phase = "live"
    /\ \E status \in PodStatus \ {podState[u].status} :
          /\ status.rc \in podState[u].status.rc .. podState[u].status.rc + 1
          /\ PodChanges(u, [phase |-> "live", status |-> status])

PodDeleted(u) ==
    /\ podState[u].phase = "live"
    /\ PodChanges(u, [phase |-> "deleted", status |-> NewPod])

\* Events are recorded, replaced and expire; no stream of the loop shows it.
EventsChange(u) ==
    /\ Changing
    /\ podState[u].phase = "live"
    /\ \E note \in Notes \ {events[u]} : events' = [events EXCEPT ![u] = note]
    /\ UNCHANGED <<ctl, podState, rejections, podQ, ctlQ>>

RejectionsChange ==
    /\ Changing
    /\ rejections' \in SUBSET Rejections \ {rejections}
    /\ UNCHANGED <<ctl, podState, events, podQ, ctlQ>>

\* The controller stream carries what changes after the second Get.
Gap == ~started /\ pc \in {"decide", "rv"}

ControllerChanges ==
    /\ Changing
    /\ Gap => GapChanges
    /\ ctl' \in Controllers \ {ctl}
    /\ ctlQ' = IF started THEN ctlQ + 1 ELSE ctlQ
    /\ UNCHANGED <<podState, events, rejections, podQ>>

DeadlinePasses ==
    /\ pc # "done" /\ "timeout" \in Faults /\ ~ctxDone
    /\ ctxDone' = TRUE
    /\ UNCHANGED <<clusterVars, podQ, ctlQ, relists, loopVars, historyVars>>

Aged(age) == IF age < MaxAge THEN age + 1 ELSE age

Elapse(ticker) ==
    IF ticker.on
    THEN [on |-> TRUE, left |-> IF ticker.left >= 0 THEN ticker.left - 1 ELSE ticker.left,
          tick |-> TRUE]
    ELSE ticker

Time ==
    /\ pc # "done"
    /\ stab' = [stab EXCEPT !.left = IF stab.left > 0 THEN stab.left - 1 ELSE stab.left]
    /\ grace' = Elapse(grace)
    /\ settle' = Elapse(settle)
    /\ streak' = [streak EXCEPT !.age = Aged(streak.age)]
    /\ calm' = Aged(calm)
    /\ UNCHANGED <<clusterVars, streamVars, pc, started, pods, wl, seen, increased, base,
                   verdict, report>>

Terminated == pc = "done" /\ UNCHANGED vars

-----------------------------------------------------------------------------

Sequential ==
    \/ ListPods \/ ListFails
    \/ ReadController \/ ReadControllerFails
    \/ \E eventsRead, sourcesRead \in BOOLEAN : Decide(eventsRead, sourcesRead)
    \/ ReadVersion \/ ReadVersionFails

Select ==
    \/ ContextDone \/ StabilityFires \/ GracePoll \/ SettlePoll
    \/ PodEvent \/ ControllerEvent \/ StreamExpires \/ StreamFails

Environment ==
    \/ \E u \in Pods : PodCreated(u) \/ PodUpdated(u) \/ PodDeleted(u) \/ EventsChange(u)
    \/ RejectionsChange \/ ControllerChanges \/ DeadlinePasses \/ Time

Next == Sequential \/ Select \/ Environment \/ Terminated

Spec == Init /\ [][Next]_vars

\* The goroutine runs, the clock advances, and Go's select picks at random
\* among the branches that are ready, so none that stays or keeps becoming ready
\* is passed over for ever.
Fairness ==
    /\ WF_vars(Sequential)
    /\ WF_vars(Time)
    /\ SF_vars(ContextDone) /\ SF_vars(StabilityFires)
    /\ SF_vars(GracePoll) /\ SF_vars(SettlePoll)
    /\ SF_vars(PodEvent) /\ SF_vars(ControllerEvent)

FairSpec == Spec /\ Fairness

-----------------------------------------------------------------------------
(* Properties.                                                              *)

Counts == UNION {[S -> 0..MaxRestarts] : S \in SUBSET Pods}

PodMaps == UNION {[S -> PodStatus] : S \in SUBSET Pods}

TypeOK ==
    /\ ctl \in Controllers
    /\ podState \in [Pods -> PodLife]
    /\ events \in [Pods -> Notes]
    /\ rejections \subseteq Rejections
    /\ changes \in 0..MaxChanges
    /\ podQ \in Seq([uid : Pods, life : PodLife])
    /\ ctlQ \in Nat
    /\ relists \in 0..MaxRelists
    /\ ctxDone \in BOOLEAN
    /\ pc \in {"list", "tick", "decide", "rv", "select", "done"}
    /\ started \in BOOLEAN
    /\ pods \in PodMaps
    /\ wl \in Controllers
    /\ seen \in Counts
    /\ increased \in BOOLEAN
    /\ stab \in [on : BOOLEAN, left : 0..RestartedWindow]
    /\ base \in Counts
    /\ grace \in [on : BOOLEAN, left : -1..GraceWindow, tick : BOOLEAN]
    /\ settle \in [on : BOOLEAN, left : -1..RestartedWindow, tick : BOOLEAN]
    /\ verdict \in {"none", "success", "ambiguous", "held", "cause", "error", "timeout"}
    /\ report \subseteq Classes
    /\ streak \in [class : TickClasses \cup {"none"}, age : 0..MaxAge, known : Counts,
                   rst : BOOLEAN]
    /\ calm \in 0..MaxAge

\* Success, "ambiguous" and "held" are only returned after an unbroken run of
\* ticks of that one class has lasted for its window, the longer one after a
\* restart: handleTick stops or reopens the timer of every other class, and a
\* 410 starts the windows over.
EvidencePersisted ==
    /\ verdict = "success" =>
          /\ streak.class = "complete"
          /\ streak.age >= StabilityWindow(streak.rst)
    /\ verdict = "ambiguous" =>
          streak.class = "ambiguous" /\ streak.age >= GraceWindow
    /\ verdict = "held" =>
          /\ streak.class = "held"
          /\ streak.age >= SettleWindow(streak.rst)

\* The run of ticks under way and the window that is open tell the same story at
\* every step: one window at most is open, it is the one of the run's class, it
\* was opened no later than the run began, and it is measured against the restart
\* counts of that moment.  EvidencePersisted rests on it.
WindowsMatchStreak ==
    /\ pc # "done" => verdict = "none"
    /\ stab.on   <=> pc \notin {"list", "done"} /\ streak.class = "complete"
    /\ grace.on  <=> pc \notin {"list", "done"} /\ streak.class = "ambiguous"
    /\ settle.on <=> pc \notin {"list", "done"} /\ streak.class = "held"
    /\ stab.on =>
          base = streak.known /\ streak.age + stab.left >= StabilityWindow(streak.rst)
    /\ grace.on => streak.age + grace.left >= GraceWindow
    /\ settle.on => streak.age + settle.left >= SettleWindow(streak.rst)

\* The loop keeps the promise of RolloutVerdict, with the run of ticks under way for
\* the run of the class that is seen: whatever streams, timers, failing calls and
\* relists do, there is one verdict and it was earned.
Promise == INSTANCE RolloutVerdict
    WITH class <- streak.class, age <- streak.age, long <- streak.rst, restarted <- increased

KeepsPromise == Promise!Spec

\* What an event under way says of u, or the cache when there is none, is what
\* the cluster holds: the List and the stream that starts at its version miss no
\* change and apply none twice or out of order, across relists too.
PodCacheReplays ==
    pc \notin {"list", "done"} =>
        \A u \in Pods :
            \/ \E i \in DOMAIN podQ :
                  /\ podQ[i].uid = u /\ podQ[i].life = podState[u]
                  /\ \A j \in DOMAIN podQ : podQ[j].uid = u => j <= i
            \/ /\ \A i \in DOMAIN podQ : podQ[i].uid # u
               /\ u \in DOMAIN pods <=> podState[u].phase = "live"
               /\ u \in DOMAIN pods => pods[u] = podState[u].status

\* A loop that waits has judged the controller as it is, or an event of its
\* stream is under way.
ControllerReadIsCurrent == pc = "select" => wl = ctl \/ ctlQ > 0

\* Success is not declared of a controller that is no longer complete, unless
\* the event that says so was under way ("RolloutComplete() becoming false").
SuccessIsCurrent == verdict = "success" => ctl.complete \/ ctlQ > 0

\* Success never comes within RestartedWindow of a restart the loop has seen, of any
\* pod and across relists: "an increased restart count invalidates the current quiet
\* period".  The containers whose status appears while the stability window is open
\* are the exception (RestartSeen): no baseline of that window holds them.
QuietAfterRestart == verdict = "success" => calm >= RestartedWindow

Done == pc = "done"

\* Pod trouble that is a Finding by its status alone always ends the observation.
PodTroubleReported ==
    <>[](\E u \in Live : podState[u].status.sym \in {"known", "ambiguous"}) => <>Done

\* So does a controller that is paused, stuck or refused its pods for good.
ControllerTroubleReported == <>[](ctl.held \/ ctl.cond # "ok") => <>Done

\* Lasting trouble ends the observation, wherever it shows.
TroubleReported == PodTroubleReported /\ ControllerTroubleReported

\* A rollout that completes, with nothing wrong, ends the observation: the loop
\* is not left waiting for a change that has already happened.
CompletionNoticed ==
    <>[](ctl.complete /\ Diagnosis(ClusterPods, ctl, TRUE, TRUE) = {}) => <>Done

\* Once --timeout has passed the observation ends, whatever it waits for.
TimeoutEndsWatch == ctxDone ~> Done

\* A cause that the Diagnosers know and the cluster shows for good is reported,
\* with no help from --timeout (cmd/kubectl-safe_rollout/watch.go, 48-50).
KnownCauseReported ==
    <>[]("cause" \in Diagnosis(ClusterPods, ctl, TRUE, TRUE)) => <>Done
=============================================================================
