# A TLA+ model of kubectl-safe-rollout

`kubectl safe-rollout` has two commands. `check` reads a workload (Deployment,
StatefulSet or DaemonSet) and everything its rollout depends on, runs a list of
independent checks and reports Findings before the rollout starts. `watch` observes a
rollout that is under way, and ends with success or with the causes it has
diagnosed. The modules here model the parts that keep state or decide, from the Go
code under `src/`.

## 1. Inventory

| Component | Code | State | Operations | What makes it correct |
|---|---|---|---|---|
| Observation loop | `internal/diagnose/watch.go` | cache of pods, two RetryWatchers, three windows (stability, grace, settle), restart memory | List, tick (observe, Get, list sources and Events, diagnose, decide), select over context, timer, two tickers, two streams, relist after a 410 | verdicts come only after their window; the cache replays the cluster; nothing that changes is missed; the loop ends |
| Watch command | `cmd/kubectl-safe_rollout/watch.go` | context with the `--timeout` deadline | build the target, run Watch, render, exit code | the deadline ends every wait |
| Pod diagnosers | `crashloop`, `imagepull`, `configerror`, `volumemount`, `initcontainer`, `readiness`, `pending`, `pattern/` | none: a function of pod statuses and Events | one classification per container or pod | a determined cause is the true one; an undetermined one is only a symptom |
| Workload diagnosers | `quota`, `replicasetcreate`, `progressdeadline`, `paused`, `statefulsetupdate` | none: a function of the workload, its sources and their Events | one classification per workload | same |
| Workload abstraction | `internal/workload` | none: reads spec and status of three kinds | RolloutComplete, UpdateStrategy, Replicas, PendingRevisionUpdate, conditions | complete means that the observed generation's pods are rolled out |
| Check command | `cmd/kubectl-safe_rollout/check.go`, `internal/check/check.go` | the Results so far | resolve the workload, run 26 checks one after another, report, exit code | what is printed and the exit code are about the cluster, whatever changes between two reads |
| Findings and report | `internal/model`, `internal/output` | none | NewReport, MaxSeverity, rendering | nothing that failed or was skipped reads as fine; the exit code follows the worst Finding |
| Existence checks | `serviceaccount`, `priorityclass`, `configrefs`, `pvc`, `storageclass`, `imagepull` | what one check has read (`configRefResolver`) | Get of each name, Skip, Findings | what is said to be missing was missing, what is passed over was there |
| Routing checks | `service`, `ingress`, `ingressclass`, `networkpolicy` | none beyond a run | Lists and Gets of Services, Pods, slices, Ingresses, Secrets, classes, policies | an accused way carries no traffic, the others do after the rollout |
| Quota checks | `quota`, `hpa`, `quotaobjectcount` | none | headroom against surge, growth and a new ReplicaSet | a HIGH is inevitable, silence is no obstacle |
| Limit range check | `limitrange` | none | combine bounds and candidate values per container | HIGH is refused in every order of merging, quiet in none |
| Node and budget checks | `scheduling`, `nodecapacity`, `pdb`, `pdbdaemonset`, `pdbeviction` | none | domains and capacity against replicas and surge; disruptions allowed | what is accused cannot roll out or drain |
| Other checks | `selector`, `usage`, `podsecurity`, `probes`, `limits`, `admissionwebhook`, `validatingadmissionpolicy` | none | compare fields, list what is opaque | not modelled, see section 5 |
| Cluster client | `internal/kube` | none | kubeconfig, name resolution, previous logs | I/O only |

How they interact: `watch` builds a `WatchTarget` and calls `Watch`; each tick of the
loop calls every diagnoser on a `Target` (cached pods, a controller read now, Events
listed now), and acts on the classes of their Findings; the Outcome goes to
`output`. `check` runs the checks one after another on one `Target`. There is one
goroutine; what runs concurrently with it is the cluster: kubelets, controllers,
Event recorders, users, and the API server that ends watch streams.

What is hard here:

* **interleaving**: the cluster changes between any two API calls of one tick, and
  between the last read and the start of a stream;
* **ordering**: Go's select takes any ready branch, so a timer may overtake the event
  that would have stopped it; Events are written by other components than the
  statuses they explain, arrive later, and expire;
* **timeouts**: three windows that exclude each other, two lengths for two of them;
* **unreliable delivery**: streams end with a 410 and the loop starts over;
* **partial failure**: Events or sources that cannot be listed leave a tick with half
  of its evidence;
* **liveness**: Events are not watched, and with no window open the loop only wakes
  up for a stream or the context;
* **stale foresight**: a check speaks of a rollout to come from lists taken before it,
  one check after another, while controllers, the autoscaler, the LimitRanger and
  the operator of the nodes go on writing what was listed;
* **silence**: a read that fails inside a check is a SKIP here, is passed over there, and
  drops what the check had found before it.

The hazards, line by line, are in `PROJECT.json`.

## 2. The modules

| Module | Models | Kind |
|---|---|---|
| `RolloutWatch` | `internal/diagnose/watch.go`, the deadline of `cmd/.../watch.go` | state machine: the loop and a cluster |
| `RolloutVerdict` | what an observation promises, with no pods, streams or timers | abstract specification that `RolloutWatch` implements |
| `WorkloadStatus` | `internal/workload` (RolloutComplete, Paused, pending revision) and `paused.go`, `statefulsetupdate.go` | functions of spec and status, against controllers |
| `PodDiagnosis` | the seven pod Diagnosers and `pattern/` | functions of statuses and Events, against kubelet, scheduler and Event recorder |
| `LimitRangeAdmission` | `internal/check/limitrange.go` | the check, against defaulting and the LimitRanger |
| `RolloutQuota` | `internal/check/quota.go`, `hpa.go`, `quotaobjectcount.go`; `internal/diagnose/quota.go`, `replicasetcreate.go` | checks before and Diagnosers during a rollout, against the Deployment, ReplicaSet and quota controllers |
| `NodeChecks` | `scheduling.go`, `nodecapacity.go`, `pdb.go`, `pdbdaemonset.go`, `pdbeviction.go` | functions of what each check reads |
| `NodeDrain` | the loop of `runCheck` over `NodeChecks` | state machine: the checks one by one, scheduler, controllers, disruption controller, drains |
| `CheckCommand` | `cmd/.../check.go`, `check.go`, the six existence checks, `output.go` | state machine: one read at a time while objects change, then report and exit code |
| `Routing` | `service.go`, `ingress.go`, `ingressclass.go`, `networkpolicy.go` | state machine: one read at a time during a rollout |
| `MC...` | the constants of the instances that TLC checks | |
| `...Proofs` | the theorems about `RolloutWatch`, `WorkloadStatus`, `PodDiagnosis`, `LimitRangeAdmission`, `RolloutQuota`, `NodeDrain`, `CheckCommand` and `Routing`, each in a module of its own | TLAPS |

`RolloutWatch`, `WorkloadStatus` and `PodDiagnosis` are the watch side, the rest the check side
(`RolloutQuota` is on both).

The modules of the watch side meet at one interface. `RolloutWatch` keeps of every tick the set of
*classes* of its Findings, because `handleTick` tells apart no more: a determined cause,
an undetermined one (`ambiguous`), one that only the spec shows (`held`). Which classes
arise is what `WorkloadStatus` (`RolloutComplete`, `Held`) and `PodDiagnosis` (`Findings`)
define, and what they say about the real pods is what those two are checked for.

### RolloutWatch

One goroutine, so one program counter `pc`: `list` (the List of
`watchFromCurrentState`), `tick` (`handleTick` up to the Get of `evaluateTick`),
`decide` (sources and Events listed, `RunDiagnosis`, the switch), `rv` (the second Get,
for the resourceVersion), `select`, `done`. The cluster changes between any two of
these. The variables are the locals of the Go function: `pods` is the map `pods`,
`wl` the object of the tick's Get, `seen`/`increased` are `restartObservations`,
`stab`/`base`, `grace`, `settle` the timer with its baseline and the two tickers with
their deadlines, `podQ` and `ctlQ` what the two RetryWatchers have yet to deliver.
Every branch of the select is an action (`ContextDone`, `StabilityFires`, `GracePoll`,
`SettlePoll`, `PodEvent`, `ControllerEvent`, `StreamExpires` for a 410, `StreamFails`).
`streak` and `calm` are history: the run of ticks of one class under way, and the
time since the loop last saw a restart that counts (`RestartSeen`: any that `observe` counts, but for
those of containers whose status appears while a run of complete ticks is under way).

Abstractions: one time unit is the 500 ms of the two tickers, so `left` is a number of
polls; at the instant of a deadline the clock may be read on either side of it. A
controller event carries no content because the code ignores it and reads again.
A relist clears both queues. Events are a note per pod: none, one that no pattern
recognises, or one that names the cause.

`RolloutVerdict` is the promise: the rollout is seen in one class after another, and
there is one verdict, which is a cause at once, or success, "ambiguous" or "held" after
a run of that class that has lasted as long as the window says, the longer one once a
restart has been seen, or else an error or the timeout. `KeepsPromise` is that specification under
the mapping class, age, long <- `streak`, restarted <- `increased`: pods, queues,
timers, failing lists and relists are behind it.

### WorkloadStatus

`spec` has the fields that `RolloutComplete` and the Diagnosers read, `status` is what
the controller last wrote (`SyncStatus`), `pods` is what there really is. The
operators from `Observed` to `Held` are the code; the rest is the cluster, external,
in the detail that decides which status is possible: ordered creation and deletion
of a StatefulSet, its partition and the revision of a new pod, surge of one for a
Deployment, nodes for a DaemonSet, and `OnDelete`. `reached` is history: the pods
have been rolled out at some moment since the spec was written.

### PodDiagnosis

`trouble` is what is really wrong with each container and with the pod. Kubelet,
scheduler and recorder turn it into statuses (one current state, one last
termination, a restart count) and Events, which are recorded late, in any order,
repeated while their cause lasts, and kept after it has gone. Each Diagnoser is
the set of the Findings it may give of such a snapshot. There is one where the code
takes the first matching Event of a List that has no order: any Event is the first.
`happened`, `stopped` (what last stopped a container) and `killed` (whether its probe ever did) are
history. A kill by the probe and the exit it leaves are one step. Its Killing Event comes after it, before or
after the status that CrashLoop reads, or not at all if the container recovers first.

### LimitRangeAdmission

`item`, `declared` are what the check reads: the LimitRanges of the namespace and the
template. `RunCheck` is `Run` with `evaluateContainer` of every container, `verdict` its
severity. `CreatePod`, `Merge(o)` and `Validate` are the API server and the LimitRanger
(external): limits copied to requests, defaults of one LimitRange after another in any order,
then every bound of every LimitRange. One resource is modelled, since both treat
each key alone; `None` is a field that is not there.

### RolloutQuota

A Deployment as numbers: `old` and `new` ReplicaSets with their size, pods and ready
pods, `doomed` pods, `charged` what the quotas' Used holds. `Check` is the three
checks in one step (they read nothing that changes at rest) and `verdict` what they said,
`current` until somebody edits a quota or, for `quota-headroom`, whose surge is a share of the replicas,
scales. `HpaScale` is the autoscaler before a rollout and in the middle of one: a ReplicaSet that is alone gets all
replicas, two that are both there share them in any proportion. `QuotaDiagnose` and
`ReplicaSetCreate` are the Diagnosers, functions of `events` and `cond` at any
moment; everything else is external: how the Deployment controller scales two
ReplicaSets, how admission charges and refuses, Events that expire, a missed deadline.

### NodeChecks and NodeDrain

`NodeChecks` has the five checks as pure functions. `NodeDrain` reads them one at a time
(`Resolve`, then `RunCheck` in the order of `registeredChecks`) while nodes are
cordoned, uncordoned and drained. Pods are counted by template and node. The scheduler's filters
(spread with its global minimum and `minDomains`, anti-affinity, taints, selector, size) are
written from the rules, not from the check's formulas, so that the formulas have something to
be compared with. A workload may have budgets of every form, and one that names neither field, which
the checks pass over. `since` remembers, for each check that lists nodes, what has
happened since: a verdict is of its moment.

### CheckCommand

An object is the set of names found under it, `{}` when it is not there, so a read
returns a set and `seen` is what the running check has read. `Read` and `ReadFails` are one
Get each, `Conclude` is the return of `Run`, `Render` the report and the exit
code. `was` is history: every version an object has had since the run began.
A check reads in the order of its code, except that the pull secrets a ServiceAccount declares come
in any order: a version is a set and has none. Six checks of `registeredChecks` read such
objects; the others would only repeat these transitions.

### Routing

`check` and `stage` are where the command is, `matching`, `todo`, `found` the locals of the
running check. `Skip` is a read that ends a check, `Ignore` one that it passes over. Pods
of the old and the new template go through a rollout, slices follow late, and an edit
takes the objects from one state of `Clusters` to another; it may create or delete Services. `had`, `calm`, `readyOnce` and
`emptyOnce` are history.

## 3. The runs

| Run | Bounds | Shows |
|---|---|---|
| `watch_windows` | one pod, one restart, one change, one 410; windows of 1, 2, 1, 1 polls; unreadable Events and sources | `EvidencePersisted`: a verdict that waits for a window has waited for all of it, in an unbroken run of ticks of that class; `KeepsPromise`: the loop implements `RolloutVerdict` |
| `watch_streams` | two pods, two changes, one 410, one restart, a stream that fails; no trouble | the cache follows the cluster (`PodCacheReplays`), success is current (`SuccessIsCurrent`) and not soon after a restart (`QuietAfterRestart`), across relists |
| `watch_live` | one pod, one change, zero windows, failing calls, unreadable Events, `--timeout` | trouble of pods or controller, completion and timeout end the observation |
| `workload_rollout` | Deployment and DaemonSet, up to three pods or nodes, two edits, one loss | `CompleteWasRolledOut`, `RolloutSettles` |
| `statefulset_rollout` | three ordinals, three revisions of which one never becomes ready, partitions unset, 0, 1, 3, OnDelete, two edits or deletions, one loss | `LastingCompletionIsReal`, `BlockedPartitionIsStuck`, `RolloutSettles` |
| `pod_causes` | one container, one init container, sixteen kinds of trouble, three things that go wrong | `CausesHappened`, `CrashCauseIsTrue`, `RecoveredIsSilent`, `LastingTroubleExplained` |
| `limit_ranges` | two LimitRanges, one container, quantities 0, 1, 2, ratios 1, 2: every valid combination | `HighIsRefused`: HIGH is refused in every order; `QuietIsNotRefused`: quiet, in none; `UnreportedIsVerbatim`: where a LimitRange bounds the resource, no default is filled in unreported |
| `rolling_update` | two replicas, autoscaler to three before or in the middle of the rollout; a surge of two (60 %) with none unavailable, no surge with one unavailable (50 %), Recreate; quotas with room for 0, 1, 2 more pods, CPU under two keys, one or two ReplicaSets, a scope, no status | `VerdictsHold`, `SilentRollsOut`, and of the Diagnosers `StuckIsExplained` |
| `node_drain` | three nodes in up to three zones, two replicas, spread, anti-affinity, selector with CPU, all forms of budget and an empty one, DaemonSet; one operation on nodes | `FindingsHold`, `AccusedEvictsNothing`, `SilentRollsOut`, `SilentDrains` |
| `existence` | five templates, nine objects in up to five versions, two writes, one failing read | `ResultsWereTrue`: what a check says and does not say of an object was true of one version it had; `ReportIsHonest`: so are exit code and SKIP lines |
| `routing` | two Services, one of which an edit may create or delete, one Ingress, up to three policies, eleven states of the objects, one edit, one failing read, a rollout from three starting points | `AccusedRouteIsDown`, `ZeroEndpointsHeld`, `SilentRoutesComeUp` |
| `gap_false_success` | no pod, two changes of the controller | a violation, see below |

Why the bounds are enough. The windows of `watch_windows` and `watch_streams` keep the order of
the real ones (clean < restarted, settle <= restarted; 5 s, 30 s, 5 s, and 3 s of grace) and each is at
least one poll, so that a poll can come inside it; what matters is which ticks come
before, in and after a window, and one change with one relist and unreadable
Events makes all of these; the proofs remove the bound. Two pods are needed for a
stream whose events overtake each other's ticks, and two changes for a change of
a change. `watch_live` has windows of zero: a longer one only adds steps in
which nothing is decided, and liveness is about what wakes the loop up. `WorkloadStatus` needs a rollout and a rollback,
hence two edits; three ordinals put a partition strictly inside. In `PodDiagnosis`,
two troubles are the least that can be mistaken for each other, and the third comes
after both. Two LimitRanges are the least that have an order, and their proofs remove the bound. In
`RolloutQuota` two replicas leave room for one old and one new pod beside a surge, and every
quota is at, one above or two above what is used, which is where a comparison can be off.
With two replicas and one to
add, the autoscaler's room is as large as the surge of one that the defaults give and half of the other.
In `NodeDrain` three zones are as many as replicas and surge, and one operation between two
checks is what makes their lists differ; two would only undo the first. In `CheckCommand` two writes
let an object go and come back between two reads of it. In `Routing` one edit is a change
between any two reads. `CHECK_DEADLOCK FALSE` stands where a cluster with all its edits and
faults used up has nothing left to do.

Fairness. The goroutine is sequential and the clock runs: weak fairness. Go's select
takes a ready branch at random, so none that is ready again and again is passed over
for ever: strong fairness of each branch, but not of failures and of 410. Controllers,
kubelets, scheduler and Event recorders retry for ever: weak fairness. In `NodeDrain` and `Routing`
their steps share one weak fairness condition, which is weaker than one each. Users, losses,
troubles, recoveries, operations on nodes and `--timeout` have none; a property that needs the cluster
to stay as it is says so in its hypothesis (`<>[]`, `since`, `edits = 0`).

### What the code does otherwise

`gap_false_success` violates what a comment states, and the finding in `PROJECT.json`
quotes it: the controller is read twice at the start, once to be judged and once for
the version its stream starts at. What changes in between is not seen; the stability
window then ends in success (`watch.go:529`). `watch_streams` and
`ControllerIsFollowed` show that this is the only way: they assume
`GapChanges = FALSE`. With `TRUE`, `CompletionNoticed` fails as well: the loop waits for a
change that has happened.

The following claims are refuted by TLC too. Each can be run again by checking the
definition named, with the constants given, instead of those of the run of its module.

* A known cause is reported at once (`cmd/.../watch.go:48-50`): nothing wakes the loop up
  for an Event. A FailedMount or a FailedScheduling that is recorded after the last
  change of a pod is not read unless a window happens to be open. `KnownCauseReported`,
  `watch_live`.
* `RolloutComplete` has no false positive (`statefulset.go:191-196`): a StatefulSet without a
  partition compares its two revisions only, and a rollback half way makes them equal
  before a pod has been replaced. `CompleteWasRolledOut` with two slots, two replicas,
  RollingUpdate, `NoPartition`. `LastingCompletionIsReal` holds nevertheless: the completion does
  not last, because replacing a pod makes it unready. It lasts long enough for `watch` if the
  controller is slower than the stability window.
* An OnDelete DaemonSet does not block for ever (`daemonset.go:192-195`): with an update it is
  neither complete nor reported. `RolloutSettles` with that kind and strategy.
* A pull failure is laid to its own cause (`imagepull.go:93`): the pull Event of one
  container explains another's ImagePullBackOff. `PullCauseIsOwn` with two containers.
* A running container ignores old FailedMount Events (`volumemount_test.go:119`): a completed init
  container counts as one that is not running. `RunningIgnoresOldMounts` with an
  init container.
* A HIGH of the Quota Diagnoser blocks the rollout or has blocked it (`finding.go:40-41`): a
  refusal that was over at the next recount of the quota leaves its Event for an hour, and
  a rollout that had the headroom and completed is still reported. `CompleteIsNotAccused` with
  `MCDefaultStrategy`.
* The growth that `hpa-quota-headroom` looks at is "a distinct, independent trigger" (`hpa.go:19-31`), and so
  nobody adds it to the surge: with two replicas, a surge of one, none unavailable and a quota of three
  pods both checks are silent; the autoscaler takes the third pod in the middle of the rollout, and
  the first new pod is refused for good. `SilenceAddsUp` with `MCDefaultStrategy`. `SilentRollsOut` says what
  silence is worth: the rollout ends if nobody scales it, or wherever the autoscaler does if a pod may be missing
  (`Clear`).
* Only the deterministic surge deadlock is flagged (`scheduling.go:567-570`): with a surge of two,
  one of the two extra pods may have a node, which is enough to go on, and the check is HIGH.
  `SurgeShortageDeadlocks` with `MCWideSurge`. `FindingsHold` is therefore stated for a surge of one.
* The two keys of a resource in a quota are equivalent (`quota.go:160-163`): `headroom` looks at
  `requests.cpu` and at `cpu` only where the first is missing, while admission refuses a Pod for
  either. A quota with less under `cpu` leaves `quota-headroom` and `hpa-quota-headroom` silent, and
  the replicas that the autoscaler adds are refused. `VerdictsHold` with
  `QuotaLists = {<<Quota(Absent, 9, 2, 3, TRUE, FALSE)>>}`; `ChecksAreTrue` has the hypothesis that it is not so.

Other places where what is printed is less than it seems, which the properties
state as hypotheses:

* A read that fails after a HIGH has been found drops it with the SKIP (`pvc.go:94`, `configrefs.go:90`,
  `storageclass.go:132`, `ingressclass.go:126`, and the quota without a status in
  `quotaobjectcount.go:236`).
* A slice or a TLS Secret that cannot be read is passed over and the check prints OK
  (`service.go:187`, `ingress.go:161`), although README.md:112 wants a check that could not
  evaluate to look different from one that found nothing. `SilentRoutesComeUp` requires
  `silenced = {}`.
* The two halves of a zero-endpoints HIGH are read at different moments (`service.go:76`, `:184`) and
  need not have been true together; `service.go:39-40` calls them "verified (not heuristic)
  facts". `ZeroEndpointsHeld` says what does hold.
* A spread constraint demoted to MEDIUM for cordoned nodes need not keep a rollout from ending: Pods
  that are still on those nodes raise the global minimum, so that more may follow elsewhere; and the
  capacity check accuses a size of which no Pod is asked for (no replicas). `FindingsHold`
  promises nothing of these.
* A HIGH for a taint or for capacity is not demoted although uncordoning a node would end it; a
  shortage at the peak of a surge need not hold, since a pod on a cordoned node takes none of
  the room; a `noHeadroom` HIGH does not stop an eviction while a surge pod is healthy.
* A quota's HIGH means that the full surge is never reached, not that the rollout
  hangs; a quota lowered beneath its use while the surge is zero goes unsaid; a Used that is not
  reported counts as zero in `quota.go` and `hpa.go`.
* A LimitRange with defaults only has no LOW Finding, although it fills values in, and a defaulted
  limit below a declared request is refused by validation of the Pod, which the check
  does not look at (phase `invalid`).

Two boundaries that the properties state as an exception, and without which TLC refutes them:

* A container whose status first appears while the stability window is open is in no baseline, and its
  restart does not reopen the window. `QuietAfterRestart` counts every other restart (`RestartSeen`): of a
  container that was there when the run of complete ticks began, or seen outside such a run, pods
  that the rollout creates included.
* Until its Killing Event is listed, a probe kill is an application error, determined, and ends the
  observation (`crashloop.go:99`). `CausesHappened` and `CrashCauseIsTrue` except that one Finding
  (`Unannounced`): a container said to fail by itself that its probe killed, with no Killing Event
  recorded of it.

Boundaries that the runs state by a constant, and where TLC refutes the property on
the other side:

* `InitPulls = TRUE` in `pod_causes` refutes `LastingTroubleExplained`:
  `imagepull.go:44` reads ContainerStatuses only, and an init container that cannot be
  pulled leads to no Finding.
* A StatefulSet that is scaled while it is rolled out (`ReplicaCounts = {1, 2}`) is
  called complete while pods that are to be deleted count as ready; this too does not
  last.

## 4. The proofs

`RolloutWatchProofs` proves six theorems of `RolloutWatch!Spec`, for any set of pods,
any bounds, any window lengths that satisfy `WindowsAssumption`, and any faults.

* `TypeCorrect`: `TypeOK` is inductive. The lemmas give one fact per helper
  (`RestartCountsType`, `ObserveType`, `ApplyType`, `TickType`, ...), the
  step lemmas one case per action.
* `VerdictsAreEarned`: `EvidencePersisted` is not inductive: it speaks of the moment of
  the verdict. `WindowsMatchStreak` is what makes it so: while the loop runs, the
  window that is open is that of the class of the run under way, and what is left of
  it and the age of the run add up to its length. `Time` moves both, every case
  of the switch opens, keeps or closes them together, and a verdict is given with
  nothing left. `EvidenceInv` is the conjunction with `TypeOK`.
* `ControllerIsFollowed` (assuming `~GapChanges`): `ControllerInv` adds that a loop that
  is not waiting has either read the controller as it is, or an event is under way, and
  that an open stability window was opened by a complete read.
* `PodCacheFollows`: `ReplayInv` says that the phases in the queue are those of a pod
  that exists or has been deleted; `AppendReplays` and `ApplyReplays` are the two
  ends of the queue.
* `SuccessIsQuiet`, without hypothesis: the window is measured against `base`, the observed restart against
  `seen`, and success against the time since a restart that counts (`calm`). `QuietAhead` relates them: what is
  left of a window and `calm` make up `RestartedWindow`, unless the tick under way is about to reopen it. It
  needs that every restart that counts is one for the window too (`BaseCovers`: the baseline has every pod of the
  run of complete ticks, none newer than the last observed; `Observed`: between the halves of a tick what was
  observed is the cache), and `CountsGrow`: neither cache nor memory is ever ahead of the cluster or of the
  events under way, which are in order per pod with a deletion last (`Ordered`).
* `PromiseKept`: `Spec => KeepsPromise`. The initial state maps to an initial state; under
  `EvidenceInv`, which gives the age of the run from what is left of the window, every
  action maps to `See`, `SeeCause`, `Conclude`, `SeeRestart`, `Forget`, `Pass`, `Stop` or a stutter.

`LimitRangeAdmissionProofs` proves four theorems of `LimitRangeAdmission!Spec`, for any finite set of
LimitRanges, any containers, and any sets of quantities and ratios (`QuantityAssumption`).

* `TypeInvariant`: quantities, verdicts and phases keep their types, and the check always has a
  candidate value to judge (`Candidates`, from the lemma `CandidatesExist`).
* `HighMeansRefused`, `QuietMeansNotRefused`, `UnreportedMeansVerbatim`: the inductive invariant is
  `IInv == TypeOK /\ Sourced /\ Merged /\ Decided /\ Read`. `Sourced`: a value of the Pod under
  admission is declared, copied from the declared limit, or stated as a default by a
  LimitRange. `Merged`: where a LimitRange that has been merged has a default, the value is there.
  `Decided`: the phase follows from the bounds. `Read`: a verdict is that of the
  present objects. Then `PodIsACombo` says that every order of merging ends in one of the check's
  combinations, and `CombinedBoundsAreExact` that a value satisfies the combined bound
  exactly when it satisfies each (for any finite number of LimitRanges, by `MaxIsLargest`
  and `MinIsSmallest`).

`CheckCommandProofs` proves three theorems of `CheckCommand!Spec`, for any template, any objects in
any versions, and any number of writes and of failed reads in between.

* `TypeInvariant`: `TypeInv` adds that what is read is of versions the objects have had, that the
  skipped Results are those of `failed` and empty, and the severities a check gives.
* `ResultsAreTrue`: `Truths` says of each Result what `ResultsWereTrue` does. `ExistenceTells`
  and `ConfigTells` give what a check finds as a function of `seen`, `CheckTells` and
  `PullTells` that of a check which has read everything; after that `was` only grows.
* `ReportIsTrue`: `Failures` counts the skipped checks against the failed reads, except for the pull check
  without its ServiceAccount, and with `Truths` gives both halves of `ReportIsHonest`.

`RoutingProofs` proves three theorems of `Routing!Spec`, for any objects, any number of edits, any Pods and any
rollout. `Inv` is inductive with what the locals of the running check hold (`MatchingWas`,
`TodoWas`: things of members of `had`) and what is never forgotten (`Remembered`).
`TypeInvariant`, `AccusationsAreTrue` and `ZeroEndpointsAreTrue` are its parts. A backend has
a port name or a number, as the API server demands (`IsValid`).

`PodDiagnosisProofs` proves three theorems of `PodDiagnosis!Spec`, for any containers and troubles.

* `TypeInvariant`, with `Evidence`: a status or an Event was left by a trouble of its part.
* `NoCauseIsGuessed` and `ExitsAreNamedRight`, without hypothesis: a last termination is that of what last
  stopped the container, an Event of what has happened to its part, and a Killing Event of a container that its
  probe has killed.

`WorkloadStatusProofs` proves three theorems of `WorkloadStatus!Spec`, for any numbers of pods and
nodes.

* `TypeInvariant`: the numbers of a status are cardinalities of sets of slots that contain each
  other, which `SyncStatus` takes over at once.
* `CompletionIsReal` (assuming `"StatefulSet" \notin Kinds`; for that kind TLC refutes it): `Completed` is
  inductive because a complete status was written of pods that were, and `reached` remembers.
* `PartitionBlocks`: an action property; `RevisionRead` says that an observed spec has its revision
  in the status, and then no step adds a pod of it beneath the partition.

`RolloutQuotaProofs` proves three theorems of `RolloutQuota!Spec`, for any replicas, strategies and
lists of quotas. A quota is charged with at least the Pods there are (`Shape`), so a bound read
at rest bounds them for as long as it is there (`AccusedForGood`, `SetsFit`, `GrowthFits`).

* `TypeInvariant`, and `AccusationsHold`: everything that `VerdictsHold` says of an accusation and of
  ReplicaSets, without hypothesis.
* `ChecksAreTrue`: all of `VerdictsHold`, assuming of every quota that the key the checks look at is
  not the looser one (`FirstKeyBinds`).

`NodeDrainProofs` proves three theorems of `NodeDrain!Spec`, for any finite set of nodes, any workload
with its constraints and budgets, and any number of operations.

* `TypeInvariant`: Pods are counted as sets of slots (a node and a number), so that placing,
  evicting and draining change a cardinality by one.
* `AccusationsBlock`, an action property (of `pdb-consistency` where the workload has no surge, and of
  `pdb-eviction-blocked` where it says HIGH): `BudgetInv` adds that a budget which was accused has, at every
  synchronisation of its status, no disruption to give (`NoRoom`).
* `FindingsAreTrue`: `DrainInv` adds that a Pod is only where the filters allow one (`PlacedRight`),
  that a report is what the check answers about some nodes that stay cordoned until one is uncordoned
  (`Listed`), and that the rollout of an accused workload is where it began (`Stuck`).
  What it leaves out is what `FindingsHold` does: a HIGH is final with a surge of at most one and no eviction;
  everything else lasts until an eviction or an uncordon, and of spread and anti-affinity only if a Pod may be missing.
  `PodsFitZones` bounds the Pods by the zones times what each may hold (`ZonesHold`, by
  induction over sets of zones, as a smallest counterexample), `RoomIsShort` compares that with replicas
  and surge, `CapacityKeepsOff` does the same for size.

The proofs take no assumption but those of the constants and the hypotheses named. TLC checks the same
formulas in the runs of section 3.

Proving changed the models where they could not be reasoned about or said less than they seemed:
`RenderHuman` left open what a skipped Result without Findings prints; templates, quotas, nodes and
clusters got the assumptions that make them what the API server admits; `FindingsHold` had no
exception for spread constraints demoted to MEDIUM and for workloads of no replicas, which no instance had
shown and larger ones refute.

Only model-checked: the liveness properties, `RecoveredIsSilent` and `LastingCompletionIsReal` among them
(fairness and ENABLED are out of the prover's reach). Every invariant and every action property of the
runs is stated by a theorem; no module here declares a recursive operator.

## 5. What is not modelled

* `admissionwebhook`, `validatingadmissionpolicy`: they list what is registered and cannot say what it
  will answer, so nothing they print can be right or wrong of a rollout.
* `podsecurity`, `probes`, `limits`: comparisons of fields of one template, with no state and no
  second party; `selector`: labels of two workloads compared in one read; `usage`: two
  numbers of one read of the metrics API.
* Names: substrings in messages (`pattern.go:98`), image references (`LooksLikePrivateRegistry` is an
  input), wording, evidence, remediation, order within a group, JSON.
* A claim that binds only when its pod is scheduled, which `pending.go:101` reports at once.
* Several topology keys; init containers'
  ports; projected volumes.
* Flags, version, kubeconfig, name resolution, log retrieval.

## 6. Plan

Done: the watch side (`RolloutWatch`, `RolloutVerdict` implemented by it, `WorkloadStatus`,
`PodDiagnosis`), the check side (`LimitRangeAdmission`, `RolloutQuota`, `NodeDrain`, `CheckCommand`,
`Routing`), and the proofs of section 4: every invariant the runs check.

Left, in this order:

1. What a StatefulSet's completion is worth: that a false one means a pod which is not ready or is
   to be deleted, as an invariant beside `LastingCompletionIsReal`.
2. The Diagnosers' `StuckIsExplained`, as far as it is safety: that what refuses a Pod leaves an Event
   which `QuotaDiagnose` finds.
