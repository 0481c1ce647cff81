---------------------------- MODULE PodDiagnosis ----------------------------
(***************************************************************************)
(* The Diagnosers that classify a pod (internal/diagnose): CrashLoop,      *)
(* ImagePull, ConfigError, VolumeMount, InitContainer, Readiness, Pending. *)
(* They see a snapshot: container statuses, which keep one termination,    *)
(* and the Events recorded so far, which come late, outlive their cause    *)
(* for an hour and are listed in no useful order.  `trouble` is what is    *)
(* really wrong; the properties say what a Finding may claim about it.     *)
(*                                                                         *)
(* Kubelet, scheduler and Event recorder are external: modelled as far as  *)
(* they decide which statuses and Events a trouble leaves behind.          *)
(***************************************************************************)
EXTENDS Integers, FiniteSets

CONSTANTS
    Apps,          \* the containers of the pod
    Inits,         \* its init containers, which run before any of them
    Pod,           \* what is wrong with the pod itself is filed under this name
    Troubles,      \* what may go wrong
    MaxTroubles,   \* bound on what goes wrong, and on containers the runtime forgets
    InitPulls,     \* may the image of an init container be impossible to pull?
    HasDeadline    \* does the workload have a progress deadline?

Containers == Apps \cup Inits

Parts == Containers \cup {Pod}

\* What is wrong is named as in the CauseID that stands for it; the "other" of a
\* category is one whose message no pattern recognises.
Exits      == Troubles \cap {"oomkilled", "app-error", "no-reason"}
PullErrors == Troubles \cap {"tag-not-found", "unauthorized", "other-pull"}
BadConfigs == Troubles \cap {"missing-secret", "other-config"}
BadMounts  == Troubles \cap {"missing-configmap", "other-mount"}
Unplaced   == Troubles \cap {"insufficient-resources", "unbound-pvc", "other-placement"}

Recognised(t) ==
    t \notin {"other-pull", "other-config", "other-mount", "other-placement", "no-reason"}

\* A container that the liveness probe kills exits like one that fails by itself.
ExitReasons(t) == IF t = "liveness-probe" THEN {"app-error", "no-reason"} ELSE {t}

Killers == Exits \cup (Troubles \cap {"liveness-probe"})

ASSUME PartAssumption == Apps \cap Inits = {} /\ Pod \notin Containers

ASSUME BoundAssumption == MaxTroubles \in Nat

ASSUME ChoiceAssumption == {InitPulls, HasDeadline} \subseteq BOOLEAN

VARIABLES
    trouble,    \* what is wrong with each part, "none" most of the time
    scheduled,  \* the pod has a node
    mounted,    \* its volumes are set up
    cs,         \* its container statuses
    events,     \* the Events of the pod that are recorded
    deadline,   \* ProgressDeadlineExceeded() of the workload
    count,      \* of what has gone wrong
    \* history, read by the properties only
    happened,   \* everything that has been wrong with each part
    stopped,    \* why each container last stopped
    killed      \* the containers that the liveness probe has ever killed

stops == <<stopped, killed>>

vars == <<trouble, scheduled, mounted, cs, events, deadline, count, happened, stops>>

-----------------------------------------------------------------------------
(* Statuses and Events.                                                     *)

\* Waiting, in ContainerCreating or for one of the reasons that are read.
Waiting == {"creating", "InvalidImageName", "ImagePullBackOff", "CreateContainerConfigError",
            "CrashLoopBackOff"}

Terminations == {"oomkilled", "app-error", "no-reason"}

\* message is what Waiting.Message names, exit the Reason of State.Terminated, last
\* that of LastTerminationState; a container that has done its work exits as
\* "completed".  restarted is a RestartCount above zero.
Statuses ==
    [state : Waiting \cup {"running", "terminated"}, message : BadConfigs \cup {"none"},
     exit : Terminations \cup {"none", "completed"}, last : Terminations \cup {"none"},
     restarted : BOOLEAN, ready : BOOLEAN]

NewStatus == [state |-> "creating", message |-> "none", exit |-> "none", last |-> "none",
              restarted |-> FALSE, ready |-> FALSE]

\* The note is what the message names.
Event(reason, about, note) == [reason |-> reason, about |-> about, note |-> note]

Completed(i) == cs[i].state = "terminated" /\ cs[i].exit = "completed"

Initialized == \A i \in Inits : Completed(i)

\* Pod.Status.Phase is Pending: a container has yet to run for the first time.
PhasePending ==
    \/ \E i \in Inits : cs[i].state = "running"
    \/ \E c \in Containers : cs[c].state \in Waiting /\ cs[c].last = "none"

PodReady == Initialized /\ \A a \in Apps : cs[a].ready

-----------------------------------------------------------------------------
(* The Diagnosers.  Each is the set of the Findings it may report of this   *)
(* snapshot: the first Event of a List is any Event.                        *)

Finding(by, cause, about) == [by |-> by, cause |-> cause, about |-> about]

\* cause.go: the causes a category may name, undetermined beside them.
Causes(by) ==
    CASE by = "crashloop"        -> {"oomkilled", "liveness-probe", "app-error"}
      [] by = "imagepull"        -> PullErrors \cup {"invalid-reference"}
      [] by = "container-config" -> BadConfigs
      [] by = "volume-mount"     -> BadMounts
      [] by = "init-container"   -> {"oomkilled", "app-error"}
      [] by = "readiness"        -> {"readiness-probe"}
      [] by = "pending"          -> Unplaced

Notes(reason) == {e.note : e \in {f \in events : f.reason = reason}}

\* One that a pattern recognises, if there is any, or undetermined.
Classify(notes) ==
    IF \E n \in notes : Recognised(n) THEN {n \in notes : Recognised(n)} ELSE {"undetermined"}

KilledByProbe(c) == \E e \in events : e.reason = "Killing" /\ e.about = c

\* Mutant: the Reason is not looked at before it is reported.
CrashCauseUnread(c) == IF KilledByProbe(c) THEN "liveness-probe" ELSE cs[c].last

\* Mutant: what the status says comes first.
CrashCauseStatusFirst(c) ==
    IF cs[c].last \notin {"none", "no-reason"} THEN cs[c].last
    ELSE IF KilledByProbe(c) THEN "liveness-probe" ELSE "undetermined"

\* CrashLoop.classify: the Killing Event first, then the last termination.
CrashCause(c) ==
    IF KilledByProbe(c) THEN "liveness-probe"
    ELSE IF cs[c].last \in {"none", "no-reason"} THEN "undetermined" ELSE cs[c].last

CrashLooping(c) ==
    \/ cs[c].state = "CrashLoopBackOff"
    \/ cs[c].restarted /\ KilledByProbe(c)

CrashLoop == {Finding("crashloop", CrashCause(c), c) : c \in {a \in Apps : CrashLooping(a)}}

InvalidReference ==
    {Finding("imagepull", "invalid-reference", c) :
        c \in {a \in Apps : cs[a].state = "InvalidImageName"}}

ImagePull ==
    InvalidReference \cup
    {Finding("imagepull", t, c) :
        c \in {a \in Apps : cs[a].state = "ImagePullBackOff"}, t \in Classify(Notes("Failed"))}

\* Mutant: the init containers are forgotten, as in ImagePull.
ConfigErrorOfApps ==
    {Finding("container-config",
             IF Recognised(cs[c].message) THEN cs[c].message ELSE "undetermined", c) :
        c \in {d \in Apps : cs[d].state = "CreateContainerConfigError"}}

ConfigError ==
    {Finding("container-config",
             IF Recognised(cs[c].message) THEN cs[c].message ELSE "undetermined", c) :
        c \in {d \in Containers : cs[d].state = "CreateContainerConfigError"}}

HasNonRunningContainer == \E c \in Containers : cs[c].state # "running"

VolumeMount ==
    {Finding("volume-mount", t, Pod) :
        t \in IF HasNonRunningContainer /\ Notes("FailedMount") # {}
              THEN Classify(Notes("FailedMount")) ELSE {}}

\* Mutant: the exit code is not looked at.
FailedInitAnyExit(i) ==
    \/ cs[i].state = "terminated" /\ cs[i].restarted
    \/ cs[i].state = "CrashLoopBackOff"

\* failedInitTermination: the exit that counts, if any.
FailedInit(i) ==
    \/ /\ cs[i].state = "terminated" /\ cs[i].exit # "completed"
       /\ cs[i].restarted
    \/ cs[i].state = "CrashLoopBackOff"

\* An exit with no Reason has an exit code all the same.
InitCause(i) ==
    LET term == IF cs[i].state = "terminated" THEN cs[i].exit ELSE cs[i].last
    IN  CASE term = "none"      -> "undetermined"
          [] term = "oomkilled" -> "oomkilled"
          [] OTHER              -> "app-error"

InitContainer ==
    {Finding("init-container", InitCause(i), i) : i \in {j \in Inits : FailedInit(j)}}

\* Mutant: without the deadline.
ReadinessUngated ==
    {Finding("readiness",
             IF Notes("Unhealthy") # {} THEN "readiness-probe" ELSE "undetermined", c) :
        c \in {a \in Apps : cs[a].state = "running" /\ ~cs[a].ready}}

Readiness ==
    {Finding("readiness",
             IF Notes("Unhealthy") # {} THEN "readiness-probe" ELSE "undetermined", c) :
        c \in {a \in Apps : deadline /\ cs[a].state = "running" /\ ~cs[a].ready}}

\* The claim is read first; a claim that cannot be read explains nothing.  The first
\* FailedScheduling Event decides, whether a pattern recognises it or not.
PendingCauses ==
    {t \in {"unbound-pvc"} : trouble[Pod] = t} \cup
    {IF Recognised(t) THEN t ELSE "undetermined" : t \in Notes("FailedScheduling")}

Pending == {Finding("pending", t, Pod) : t \in IF PhasePending THEN PendingCauses ELSE {}}

\* RunDiagnosis
Findings ==
    CrashLoop \cup ImagePull \cup ConfigError \cup VolumeMount \cup InitContainer
        \cup Readiness \cup Pending

-----------------------------------------------------------------------------
(* Scheduler, kubelet and Event recorder.                                   *)

\* An Event is due while its cause lasts: it is recorded again and again.
Due(e) ==
    \/ e.reason = "FailedScheduling" /\ ~scheduled /\ e.note = trouble[Pod]
    \/ e.reason = "FailedMount" /\ scheduled /\ ~mounted /\ e.note = trouble[Pod]
    \/ /\ e.reason = "Failed" /\ cs[e.about].state = "ImagePullBackOff"
       /\ e.note = trouble[e.about]
    \/ /\ e.reason = "Unhealthy" /\ cs[e.about].state = "running"
       /\ trouble[e.about] = "readiness-probe"
    \/ /\ e.reason = "Killing" /\ stopped[e.about] = "liveness-probe"
       /\ \/ trouble[e.about] = "liveness-probe"
          \/ cs[e.about].state \in {"terminated", "CrashLoopBackOff"}

PossibleEvents ==
    {Event("FailedScheduling", Pod, t) : t \in Unplaced} \cup
    {Event("FailedMount", Pod, t) : t \in BadMounts} \cup
    {Event("Failed", c, t) : c \in Containers, t \in PullErrors} \cup
    {Event("Unhealthy", c, "readiness-probe") : c \in Apps} \cup
    {Event("Killing", c, "liveness-probe") : c \in Apps}

Record(e) ==
    /\ Due(e) /\ e \notin events
    /\ events' = events \cup {e}
    /\ UNCHANGED <<trouble, scheduled, mounted, cs, deadline, count, happened, stops>>

\* An Event is kept for an hour, and what lasts records it again within minutes.
Expire(e) ==
    /\ ~Due(e) /\ e \in events
    /\ events' = events \ {e}
    /\ UNCHANGED <<trouble, scheduled, mounted, cs, deadline, count, happened, stops>>

Schedule ==
    /\ ~scheduled /\ trouble[Pod] \notin Unplaced
    /\ scheduled' = TRUE
    /\ UNCHANGED <<trouble, mounted, cs, events, deadline, count, happened, stops>>

Mount ==
    /\ scheduled /\ ~mounted /\ trouble[Pod] \notin BadMounts
    /\ mounted' = TRUE
    /\ UNCHANGED <<trouble, scheduled, cs, events, deadline, count, happened, stops>>

SetStatus(c, status) ==
    /\ cs' = [cs EXCEPT ![c] = status]
    /\ UNCHANGED <<trouble, scheduled, mounted, deadline, count, happened>>

\* What an attempt to start a container that has a trouble ends in.
Attempt(t) ==
    CASE t \in PullErrors          -> "ImagePullBackOff"
      [] t \in BadConfigs          -> "CreateContainerConfigError"
      [] t = "invalid-reference"   -> "InvalidImageName"
      [] OTHER                     -> "running"

MayRun(c) == mounted /\ (c \in Apps => Initialized)

Start(c) ==
    LET status == [cs[c] EXCEPT
                      !.state = Attempt(trouble[c]),
                      !.message = IF trouble[c] \in BadConfigs THEN trouble[c] ELSE "none"]
    IN  /\ MayRun(c) /\ cs[c].state \in Waiting /\ status # cs[c]
        /\ SetStatus(c, status)
        /\ UNCHANGED <<events, stops>>

BecomeReady(c) ==
    /\ c \in Apps /\ cs[c].state = "running" /\ ~cs[c].ready
    /\ trouble[c] # "readiness-probe"
    /\ SetStatus(c, [cs[c] EXCEPT !.ready = TRUE])
    /\ UNCHANGED <<events, stops>>

FailProbe(c) ==
    /\ cs[c].ready /\ trouble[c] = "readiness-probe"
    /\ SetStatus(c, [cs[c] EXCEPT !.ready = FALSE])
    /\ UNCHANGED <<events, stops>>

Exit(c) ==
    /\ cs[c].state = "running" /\ trouble[c] \in Killers
    /\ \E exit \in ExitReasons(trouble[c]) :
          SetStatus(c, [cs[c] EXCEPT !.state = "terminated", !.exit = exit, !.ready = FALSE])
    /\ stopped' = [stopped EXCEPT ![c] = trouble[c]]
    /\ killed' = IF trouble[c] = "liveness-probe" THEN killed \cup {c} ELSE killed
    /\ UNCHANGED events

\* The first restart comes at once, the next ones back off.
Restart(c) ==
    /\ cs[c].state = "terminated" /\ ~Completed(c)
    /\ SetStatus(c, [cs[c] EXCEPT
                        !.state = IF cs[c].restarted THEN "CrashLoopBackOff" ELSE "running",
                        !.restarted = TRUE, !.last = cs[c].exit, !.exit = "none"])
    /\ UNCHANGED <<events, stops>>

FinishInit(i) ==
    /\ i \in Inits /\ cs[i].state = "running" /\ trouble[i] \notin Killers
    /\ SetStatus(i, [cs[i] EXCEPT !.state = "terminated", !.exit = "completed"])
    /\ UNCHANGED <<events, stops>>

\* The runtime has removed the container that exited.
Forget(c) ==
    /\ count < MaxTroubles /\ count' = count + 1
    /\ cs[c].last # "none"
    /\ cs' = [cs EXCEPT ![c].last = "none"]
    /\ UNCHANGED <<trouble, scheduled, mounted, events, deadline, happened, stops>>

\* The Deployment controller writes the Progressing condition; a pod with nothing
\* wrong is ready before the deadline.
DeadlineChanges ==
    /\ HasDeadline /\ deadline = PodReady
    /\ deadline \/ \E x \in Parts : trouble[x] # "none"
    /\ deadline' = ~deadline
    /\ UNCHANGED <<trouble, scheduled, mounted, cs, events, count, happened, stops>>

-----------------------------------------------------------------------------
(* What goes wrong.                                                         *)

MayHave(x, t) ==
    \/ x = Pod /\ t \in (IF scheduled THEN {} ELSE Unplaced) \cup (IF mounted THEN {} ELSE BadMounts)
    \/ /\ x \in Apps
       /\ \/ t \in Killers \cup (Troubles \cap {"readiness-probe"})
          \/ /\ t \in PullErrors \cup BadConfigs \cup (Troubles \cap {"invalid-reference"})
             /\ cs[x].state \in Waiting
    \/ /\ x \in Inits /\ ~Completed(x)
       /\ \/ t \in Exits
          \/ t \in BadConfigs /\ cs[x].state \in Waiting
          \/ t \in PullErrors /\ cs[x].state \in Waiting /\ InitPulls

Change(x, t) ==
    /\ trouble' = [trouble EXCEPT ![x] = t]
    /\ UNCHANGED <<scheduled, mounted, cs, events, deadline, stops>>

GoWrong(x) ==
    /\ count < MaxTroubles /\ count' = count + 1
    /\ \E t \in Troubles :
          /\ t # trouble[x] /\ MayHave(x, t)
          /\ Change(x, t)
          /\ happened' = [happened EXCEPT ![x] = @ \cup {t}]

Recover(x) ==
    /\ trouble[x] # "none"
    /\ Change(x, "none")
    /\ UNCHANGED <<count, happened>>

Init ==
    /\ trouble = [x \in Parts |-> "none"]
    /\ scheduled = FALSE /\ mounted = FALSE /\ deadline = FALSE
    /\ cs = [c \in Containers |-> NewStatus]
    /\ events = {} /\ count = 0
    /\ happened = [x \in Parts |-> {}]
    /\ stopped = [c \in Containers |-> "none"] /\ killed = {}

Kubelet(c) == Start(c) \/ BecomeReady(c) \/ FailProbe(c) \/ Exit(c) \/ Restart(c) \/ FinishInit(c)

Next ==
    \/ Schedule \/ Mount \/ DeadlineChanges
    \/ \E c \in Containers : Kubelet(c) \/ Forget(c)
    \/ \E e \in PossibleEvents : Record(e) \/ Expire(e)
    \/ \E x \in Parts : GoWrong(x) \/ Recover(x)

Spec == Init /\ [][Next]_vars

\* The cluster does its work; nothing has to go wrong, or to recover.
Fairness ==
    /\ WF_vars(Schedule) /\ WF_vars(Mount) /\ WF_vars(DeadlineChanges)
    /\ \A c \in Containers : WF_vars(Kubelet(c))
    /\ \A e \in PossibleEvents : WF_vars(Record(e)) /\ WF_vars(Expire(e))

FairSpec == Spec /\ Fairness

-----------------------------------------------------------------------------
(* Properties.                                                              *)

\* The state is well typed, and every Finding names a cause that its category has:
\* "This should not happen" (internal/diagnose/imagepull.go).
TypeOK ==
    /\ trouble \in [Parts -> Troubles \cup {"none"}]
    /\ scheduled \in BOOLEAN /\ mounted \in BOOLEAN /\ deadline \in BOOLEAN
    /\ cs \in [Containers -> Statuses]
    /\ events \subseteq PossibleEvents
    /\ count \in 0..MaxTroubles
    /\ happened \in [Parts -> SUBSET Troubles]
    /\ stopped \in [Containers -> Killers \cup {"none"}] /\ killed \subseteq Apps
    /\ \A f \in Findings : f.cause \in {t \in Causes(f.by) : Recognised(t)} \cup {"undetermined"}

\* The name of the cause of a trouble, where it has one.
CauseOf(t) == IF t = "no-reason" THEN "app-error" ELSE t

Happened(x) == {CauseOf(t) : t \in happened[x]}

Determined(findings) == {f \in findings : f.cause # "undetermined"}

\* A kill by the probe leaves the exit of a container that fails by itself; until its
\* Killing Event is recorded, nothing else tells the two apart.
Unannounced(f) ==
    f.cause = "app-error" /\ stopped[f.about] = "liveness-probe" /\ ~KilledByProbe(f.about)

\* No Finding is reported of a pod that has had nothing wrong, however far it is
\* from ready, and no cause that the pod has not had: "Never choose a cause by
\* guessing" (internal/diagnose/diagnose.go).  An unannounced kill is the exception.
CausesHappened ==
    /\ Findings # {} => \E x \in Parts : happened[x] # {}
    /\ \A f \in Determined(Findings \ (ImagePull \cup Readiness)) :
          f.cause \in Happened(f.about) \/ Unannounced(f)
    /\ \A f \in Determined(ImagePull \cup Readiness) :
          \E c \in Containers : f.cause \in Happened(c)

\* "neither OOMKilled nor killed by the probe" (internal/diagnose/cause.go): a
\* container that is said to be killed for its memory, or to fail by itself, last
\* stopped for that reason, although the probe leaves the same exit behind, and one
\* that is said to be killed by the probe has been.  An unannounced kill is the exception.
CrashCauseIsTrue ==
    \A f \in Determined(CrashLoop \cup InitContainer) :
        IF f.cause = "liveness-probe" THEN f.about \in killed
        ELSE f.cause = CauseOf(stopped[f.about]) \/ Unannounced(f)

\* A pull failure is laid at the door of the container that has it.
PullCauseIsOwn ==
    \A f \in Determined(ImagePull) : f.cause \in Happened(f.about)

\* "a running container must not be blocked by an old FailedMount event"
\* (internal/diagnose/volumemount_test.go).
RunningIgnoresOldMounts == (\A a \in Apps : cs[a].state = "running") => VolumeMount = {}

\* When all is well for good, nothing is reported for good: what old Events and old
\* terminations leave behind does not last.
RecoveredIsSilent ==
    <>[](\A x \in Parts : trouble[x] = "none") => <>[](Findings = {})

Explains(f) ==
    /\ trouble[f.about] # "none"
    /\ f.cause # "undetermined" => f.cause = CauseOf(trouble[f.about])

\* Trouble that lasts is reported again and again, for what it is, with nothing
\* beside it.
LastingTroubleExplained ==
    <>[](\E x \in Parts : trouble[x] # "none") =>
        []<>(Findings # {} /\ \A f \in Findings : Explains(f))
=============================================================================
