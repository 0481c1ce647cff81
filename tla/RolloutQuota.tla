---------------------------- MODULE RolloutQuota ----------------------------
(***************************************************************************)
(* A rolling update of a Deployment in a namespace with ResourceQuotas.    *)
(* Before it, three checks compare what is left of the quotas with what    *)
(* the update will want (quota.go, hpa.go and quotaobjectcount.go of       *)
(* internal/check); while it runs, two Diagnosers explain creations that   *)
(* were refused (quota.go and replicasetcreate.go of internal/diagnose).   *)
(*                                                                         *)
(* Everything they read is written by others and is late: a quota is       *)
(* charged when an object is admitted and recomputed some time after one   *)
(* is gone, Pods that terminate are still charged, and Events stay when    *)
(* what they tell of is over.  The Deployment, ReplicaSet and quota        *)
(* controllers, the admission, the autoscaler and the kubelet are external.*)
(***************************************************************************)
EXTENDS Integers, Sequences, FiniteSets, FiniteSetsExt

CONSTANTS
    Replicas,      \* spec.replicas before any scaling
    Strategies,    \* update strategies, see IsStrategy
    QuotaLists,    \* what the list of ResourceQuotas may be, see IsQuota
    HpaMaxima,     \* maxReplicas of the autoscaler that targets the Deployment, 0 for none
    PodCpu,        \* CPU requested by one Pod, possibly zero
    EventsFade,    \* whether Events expire within the run
    Absent         \* a key a quota does not have

Keys == {"pods", "requests.cpu", "cpu", "count/replicasets.apps"}

\* maxSurge and maxUnavailable are numbers or percentages.
IsIntOrPercent(v) == v \in [percent : BOOLEAN, value : Nat]
IsStrategy(s) == \/ s.type = "Recreate"
                 \/ /\ s.type = "RollingUpdate"
                    /\ IsIntOrPercent(s.surge) /\ IsIntOrPercent(s.unavailable)

\* Status.Hard, whether Status.Used is there, and whether the quota has a scope;
\* what other workloads of the namespace use is taken off hard.
IsQuota(q) ==
    q \in [hard : [Keys -> Nat \cup {Absent}], reported : BOOLEAN, scoped : BOOLEAN]

ASSUME InstanceAssumption ==
    /\ Replicas \in Nat \ {0} /\ HpaMaxima \subseteq Nat /\ PodCpu \in Nat
    /\ \A s \in Strategies : IsStrategy(s)
    /\ \A l \in QuotaLists : \A i \in DOMAIN l : IsQuota(l[i])

ASSUME AbsentAssumption == Absent \notin Int

VARIABLES
    strategy,   \* the update strategy
    hpaMax,     \* maxReplicas, 0 without an autoscaler
    replicas,   \* spec.replicas
    change,     \* "none", or what the rollout under way is to: a "new" template or an "old" one
    quotas,     \* the ResourceQuotas
    charged,    \* Pods of the Deployment the quotas are charged with
    sets,       \* its ReplicaSets
    old, new,   \* the ReplicaSet of before and the one the rollout is to
    doomed,     \* Pods that are terminating
    cond,       \* reason of the condition Progressing
    events,     \* what there is an Event about: [about, text]
    verdict     \* verdict[check]: its severity, and whether it still is about this situation

vars == <<strategy, hpaMax, replicas, change, quotas, charged, sets, old, new, doomed, cond,
          events, verdict>>

cluster == <<strategy, hpaMax, replicas, change, quotas, charged, sets, old, new, doomed, cond, events>>

-----------------------------------------------------------------------------
(* UpdateStrategy, and how it scales.                                       *)

Scaled(v, n, roundUp) ==
    IF ~v.percent THEN v.value
    ELSE IF roundUp THEN (v.value * n + 99) \div 100 ELSE (v.value * n) \div 100

\* surgeCount of quota.go, and the controller's own.
SurgeOf(n) == IF strategy.type = "Recreate" THEN 0 ELSE Scaled(strategy.surge, n, TRUE)

Surge == SurgeOf(replicas)

\* maxUnavailable as the controller resolves it (external): one when both are zero.
Unavailable ==
    LET u == Scaled(strategy.unavailable, replicas, FALSE)
    IN  IF u = 0 /\ Scaled(strategy.surge, replicas, TRUE) = 0 THEN 1 ELSE u

-----------------------------------------------------------------------------
(* ResourceQuotas.                                                          *)

\* What one Pod adds to a key, and Status.Used
PodUse(k) == CASE k = "pods" -> 1
               [] k = "count/replicasets.apps" -> 0
               [] OTHER -> PodCpu
Used(k) == IF k = "count/replicasets.apps" THEN sets ELSE charged * PodUse(k)

\* An admission that charges each key of a quota with add(key) (external):
\* refused with "exceeded quota" or, before the quota has a status, "status unknown".
Outcome(q, add) ==
    IF \A k \in Keys : q.hard[k] = Absent \/ add[k] = 0 THEN "admitted"
    ELSE IF ~q.reported THEN "unknown"
    ELSE IF \E k \in Keys : q.hard[k] # Absent /\ add[k] > 0 /\ Used(k) + add[k] > q.hard[k]
    THEN "exceeded" ELSE "admitted"

PodCharge == [k \in Keys |-> PodUse(k)]
SetCharge == [k \in Keys |-> IF k = "count/replicasets.apps" THEN 1 ELSE 0]

\* A quota with a scope never matches an object count; one that restricts Pods
\* is taken to match these.
PodOutcomes == {Outcome(quotas[i], PodCharge) : i \in DOMAIN quotas}
SetOutcomes == {Outcome(quotas[i], SetCharge) : i \in {j \in DOMAIN quotas : ~quotas[j].scoped}}

Refusal(outcomes) == IF "unknown" \in outcomes THEN "unknown" ELSE "exceeded"

-----------------------------------------------------------------------------
(* The checks.                                                              *)

\* headroom: the first of the keys the quota has; Used is zero where it is not reported.
Headroom(q, keys) ==
    LET present == {i \in DOMAIN keys : q.hard[keys[i]] # Absent}
        k == keys[Min(present)]
    IN  IF present = {} THEN Absent
        ELSE q.hard[k] - (IF q.reported THEN Used(k) ELSE 0)

\* Mutant: headroom for the extra Pods but one will do.
ShortByMoreThanOne(q, extra) ==
    \/ LET left == Headroom(q, <<"pods">>) IN left # Absent /\ left + 1 < extra
    \/ /\ PodCpu # 0
       /\ LET left == Headroom(q, <<"requests.cpu", "cpu">>)
          IN  left # Absent /\ left < PodCpu * extra

\* podCountFinding and computeFinding, of quota.go and of hpa.go: a key of the
\* quota leaves less than the extra Pods take.
Short(q, extra) ==
    \/ LET left == Headroom(q, <<"pods">>) IN left # Absent /\ left < extra
    \/ /\ PodCpu # 0
       /\ LET left == Headroom(q, <<"requests.cpu", "cpu">>)
          IN  left # Absent /\ left < PodCpu * extra

\* Mutant: a surge is accused as soon as it would use up the quota.
QuotaHeadroomEager ==
    IF Surge > 0 /\ \E i \in DOMAIN quotas : Short(quotas[i], Surge + 1) THEN "HIGH" ELSE "none"

\* QuotaHeadroom.Run
QuotaHeadroom ==
    IF Surge > 0 /\ \E i \in DOMAIN quotas : Short(quotas[i], Surge) THEN "HIGH" ELSE "none"

\* Mutant: as severe as a rollout that cannot end, though no growth is under way.
HPAQuotaHeadroomHigh ==
    LET additional == hpaMax - replicas
    IN  IF additional > 0 /\ \E i \in DOMAIN quotas : Short(quotas[i], additional)
        THEN "HIGH" ELSE "none"

\* HPAQuotaHeadroom.Run
HPAQuotaHeadroom ==
    LET additional == hpaMax - replicas
    IN  IF additional > 0 /\ \E i \in DOMAIN quotas : Short(quotas[i], additional)
        THEN "MEDIUM" ELSE "none"

\* QuotaObjectCount.Run: a quota that has no Used yet ends it, whatever was found
\* in those before.
QuotaObjectCount ==
    LET k == "count/replicasets.apps"
        relevant == {i \in DOMAIN quotas : ~quotas[i].scoped /\ quotas[i].hard[k] # Absent}
    IN  IF \E i \in relevant : ~quotas[i].reported THEN "SKIP"
        ELSE IF \E i \in relevant : Used(k) >= quotas[i].hard[k] THEN "HIGH" ELSE "none"

-----------------------------------------------------------------------------
(* The Diagnosers.                                                          *)

\* PodCreationSources: the ReplicaSets the Deployment owns.
Sources == {"old"} \cup (IF new.exists THEN {"new"} ELSE {})

\* Mutant: only the ReplicaSet of before is asked.
QuotaDiagnoseOld == {f \in {[about |-> "old", cause |-> "quota-exceeded"]} :
                        [about |-> "old", text |-> "exceeded"] \in events}

\* Quota.Diagnose: one Finding per source and cause.
QuotaDiagnose ==
    {[about |-> e.about,
      cause |-> IF e.text = "exceeded" THEN "quota-exceeded" ELSE "quota-undetermined"] :
        e \in {f \in events : f.about \in Sources}}

\* ReplicaSetCreate.Diagnose: the condition, or an Event unless the deadline has passed.
ReplicaSetCreateTexts ==
    IF cond \in {"createExceeded", "createUnknown"}
    THEN {IF cond = "createExceeded" THEN "exceeded" ELSE "unknown"}
    ELSE IF cond = "deadline" THEN {}
    ELSE {t \in {"exceeded", "unknown"} : [about |-> "deployment", text |-> t] \in events}

ReplicaSetCreate ==
    {[about |-> "deployment",
      cause |-> IF t = "exceeded" THEN "replicaset-create-quota-exceeded"
                ELSE "replicaset-create-undetermined"] : t \in ReplicaSetCreateTexts}

Determined ==
    \E f \in QuotaDiagnose \cup ReplicaSetCreate :
        f.cause \in {"quota-exceeded", "replicaset-create-quota-exceeded"}

-----------------------------------------------------------------------------
NoSet == [exists |-> FALSE, size |-> 0, pods |-> 0, ready |-> 0]
EmptySet == [NoSet EXCEPT !.exists = TRUE]

\* A Deployment at rest, with or without an empty ReplicaSet from its history.
Init ==
    /\ strategy \in Strategies
    /\ hpaMax \in HpaMaxima
    /\ replicas = Replicas
    /\ change = "none"
    /\ quotas \in QuotaLists
    /\ charged = Replicas
    /\ sets \in 1..2
    /\ old = [exists |-> TRUE, size |-> Replicas, pods |-> Replicas, ready |-> Replicas]
    /\ new = NoSet
    /\ doomed = 0
    /\ cond = "available"
    /\ events = {}
    /\ verdict = [c \in {"quota-headroom", "hpa-quota-headroom", "quota-object-count"} |->
                    [severity |-> "unread", current |-> FALSE]]

\* The Deployment and what is charged for it do not move, and no Event is left.
AtRest ==
    /\ change = "none" /\ doomed = 0 /\ events = {}
    /\ old.pods = replicas /\ charged = replicas

\* The checks list the quotas, one after the other, while nothing moves.  Their
\* verdicts are about the rollout to come as long as nobody scales or edits a
\* quota, and if all quotas had a status.
Check ==
    /\ AtRest
    /\ \A c \in DOMAIN verdict : verdict[c].severity = "unread"
    /\ LET read(severity) == [severity |-> severity,
                              current |-> \A i \in DOMAIN quotas : quotas[i].reported]
       IN  verdict' = [c \in DOMAIN verdict |->
                         CASE c = "quota-headroom" -> read(QuotaHeadroom)
                           [] c = "hpa-quota-headroom" -> read(HPAQuotaHeadroom)
                           [] OTHER -> read(QuotaObjectCount)]
    /\ UNCHANGED cluster

\* The user changes the template, to a new one or to that of an old ReplicaSet.
StartRollout(to) ==
    /\ change = "none"
    /\ to = "old" => sets = 2
    /\ change' = to
    /\ new' = IF to = "old" THEN EmptySet ELSE NoSet
    /\ cond' = "progressing"
    /\ UNCHANGED <<strategy, hpaMax, replicas, quotas, charged, sets, old, doomed, events, verdict>>

\* The autoscaler adds a replica, before a rollout or in the middle of one, and the
\* Deployment controller resizes: a ReplicaSet that is alone gets all replicas, two of
\* them share what is allowed, neither shrinking (the proportions are left open).  With
\* none the rollout goes on.  The size of the update's surge was another.
HpaScale ==
    LET r == replicas + 1
    IN  /\ replicas < hpaMax
        /\ replicas' = r
        /\ \/ old.size > 0 /\ new.size = 0 /\ old' = [old EXCEPT !.size = r] /\ UNCHANGED new
           \/ old.size = 0 /\ new.size > 0 /\ new' = [new EXCEPT !.size = r] /\ UNCHANGED old
           \/ old.size = 0 /\ new.size = 0 /\ UNCHANGED <<old, new>>
           \/ \E n \in new.size..r :
                /\ old.size > 0 /\ new.size > 0 /\ old.size <= r + SurgeOf(r) - n
                /\ new' = [new EXCEPT !.size = n]
                /\ old' = [old EXCEPT !.size = r + SurgeOf(r) - n]
        /\ verdict' = [verdict EXCEPT !["quota-headroom"].current = FALSE]
        /\ UNCHANGED <<strategy, hpaMax, change, quotas, charged, sets, doomed, cond, events>>

\* An administrator removes the quotas.
LiftQuotas ==
    /\ quotas # <<>>
    /\ quotas' = <<>>
    /\ verdict' = [c \in DOMAIN verdict |-> [verdict[c] EXCEPT !.current = FALSE]]
    /\ UNCHANGED <<strategy, hpaMax, replicas, change, charged, sets, old, new, doomed, cond, events>>

-----------------------------------------------------------------------------
(* The controllers.                                                         *)

NewSize(oldSize, newSize) ==
    IF strategy.type = "Recreate" THEN replicas
    ELSE newSize + Max({0, Min({replicas - newSize, replicas + Surge - oldSize - newSize})})

\* A new ReplicaSet is created, or refused: the condition and an Event say so.
CreateSet ==
    /\ change = "new" /\ ~new.exists
    /\ strategy.type = "Recreate" => old.size = 0 /\ old.pods = 0 /\ doomed = 0
    /\ IF SetOutcomes \subseteq {"admitted"}
       THEN /\ new' = [EmptySet EXCEPT !.size = NewSize(old.size, 0)]
            /\ sets' = sets + 1
            /\ cond' = "progressing"
            /\ UNCHANGED events
       ELSE /\ cond' = IF Refusal(SetOutcomes) = "unknown" THEN "createUnknown" ELSE "createExceeded"
            /\ events' = events \cup {[about |-> "deployment", text |-> Refusal(SetOutcomes)]}
            /\ UNCHANGED <<new, sets>>
    /\ UNCHANGED <<strategy, hpaMax, replicas, change, quotas, charged, old, doomed, verdict>>

ScaleNew ==
    /\ change # "none" /\ new.exists
    /\ strategy.type = "Recreate" => old.size = 0 /\ old.pods = 0 /\ doomed = 0
    /\ NewSize(old.size, new.size) > new.size
    /\ new' = [new EXCEPT !.size = NewSize(old.size, new.size)]
    /\ UNCHANGED <<strategy, hpaMax, replicas, change, quotas, charged, sets, old, doomed, cond, events, verdict>>

\* Unhealthy old Pods go first, then as many as leave minAvailable.
OldSize ==
    LET minAvailable == replicas - Unavailable
        spare == old.size + new.ready - minAvailable
        sick == Max({0, Min({spare, old.size - old.ready})})
        healthy == Max({0, Min({old.size - sick, old.ready + new.ready - minAvailable})})
    IN  IF strategy.type = "Recreate" THEN 0
        ELSE IF spare <= 0 THEN old.size ELSE old.size - sick - healthy

ScaleOld ==
    /\ change # "none"
    /\ strategy.type = "RollingUpdate" => new.exists /\ NewSize(old.size, new.size) = new.size
    /\ OldSize < old.size
    /\ old' = [old EXCEPT !.size = OldSize]
    /\ UNCHANGED <<strategy, hpaMax, replicas, change, quotas, charged, sets, new, doomed, cond, events, verdict>>

\* A ReplicaSet creates one Pod, or is refused.  Pods of the old template are
\* ready at once.
CreatePod(s) ==
    LET rs == IF s = "old" THEN old ELSE new
        more == [rs EXCEPT !.pods = @ + 1, !.ready = IF s = "old" THEN @ + 1 ELSE @]
    IN  /\ rs.exists /\ rs.pods < rs.size
        /\ IF PodOutcomes \subseteq {"admitted"}
           THEN /\ old' = IF s = "old" THEN more ELSE old
                /\ new' = IF s = "new" THEN more ELSE new
                /\ charged' = charged + 1
                /\ UNCHANGED events
           ELSE /\ events' = events \cup {[about |-> s, text |-> Refusal(PodOutcomes)]}
                /\ UNCHANGED <<old, new, charged>>
        /\ UNCHANGED <<strategy, hpaMax, replicas, change, quotas, sets, doomed, cond, verdict>>

DeletePod ==
    /\ old.pods > old.size
    /\ old' = [old EXCEPT !.pods = @ - 1, !.ready = @ - 1]
    /\ doomed' = doomed + 1
    /\ UNCHANGED <<strategy, hpaMax, replicas, change, quotas, charged, sets, new, cond, events, verdict>>

PodGone ==
    /\ doomed > 0
    /\ doomed' = doomed - 1
    /\ UNCHANGED <<strategy, hpaMax, replicas, change, quotas, charged, sets, old, new, cond, events, verdict>>

BecomeReady ==
    /\ new.ready < new.pods
    /\ new' = [new EXCEPT !.ready = @ + 1]
    /\ cond' = "progressing"
    /\ UNCHANGED <<strategy, hpaMax, replicas, change, quotas, charged, sets, old, doomed, events, verdict>>

\* The quota controller recomputes what is used, and completes a status.
SyncQuota ==
    /\ charged' = old.pods + new.pods + doomed
    /\ quotas' = [i \in DOMAIN quotas |-> [quotas[i] EXCEPT !.reported = TRUE]]
    /\ UNCHANGED <<strategy, hpaMax, replicas, change, sets, old, new, doomed, cond, events, verdict>>

\* The rollout is over when all Pods are new, ready and alone.
Complete == change # "none" /\ new.exists /\ new.ready = replicas /\ old.pods = 0

MissDeadline ==
    /\ change # "none" /\ new.exists /\ ~Complete
    /\ cond' = "deadline"
    /\ UNCHANGED <<strategy, hpaMax, replicas, change, quotas, charged, sets, old, new, doomed, events, verdict>>

Expire ==
    /\ EventsFade
    /\ \E e \in events : events' = events \ {e}
    /\ UNCHANGED <<strategy, hpaMax, replicas, change, quotas, charged, sets, old, new, doomed, cond, verdict>>

Next ==
    \/ Check
    \/ \E to \in {"new", "old"} : StartRollout(to)
    \/ HpaScale
    \/ LiftQuotas
    \/ CreateSet
    \/ ScaleNew
    \/ ScaleOld
    \/ \E s \in {"old", "new"} : CreatePod(s)
    \/ DeletePod
    \/ PodGone
    \/ BecomeReady
    \/ SyncQuota
    \/ MissDeadline
    \/ Expire

Spec == Init /\ [][Next]_vars

\* The controllers go on, Pods that are created start and those that are
\* deleted go away.
Fairness ==
    /\ WF_vars(CreateSet) /\ WF_vars(ScaleNew) /\ WF_vars(ScaleOld)
    /\ WF_vars(CreatePod("old")) /\ WF_vars(CreatePod("new"))
    /\ WF_vars(DeletePod) /\ WF_vars(PodGone) /\ WF_vars(BecomeReady) /\ WF_vars(SyncQuota)

LiveSpec == Spec /\ Fairness

-----------------------------------------------------------------------------
(* Properties.                                                              *)

\* What each check may say: growth that may never be asked for is no HIGH, and
\* only a count that cannot be known is skipped.
Severities ==
    [c \in DOMAIN verdict |->
        CASE c = "quota-headroom"     -> {"unread", "none", "HIGH"}
          [] c = "hpa-quota-headroom" -> {"unread", "none", "MEDIUM"}
          [] OTHER                    -> {"unread", "none", "HIGH", "SKIP"}]

ReplicaSets == [exists : BOOLEAN, size : Nat, pods : Nat, ready : Nat]

\* Values of the variables.
TypeOK ==
    /\ strategy \in Strategies /\ hpaMax \in HpaMaxima
    /\ replicas \in Nat /\ charged \in Nat /\ doomed \in Nat /\ sets \in 1..3
    /\ change \in {"none", "new", "old"}
    /\ \A i \in DOMAIN quotas : IsQuota(quotas[i])
    /\ old \in ReplicaSets /\ new \in ReplicaSets
    /\ old.ready <= old.pods /\ new.ready <= new.pods
    /\ cond \in {"available", "progressing", "deadline", "createExceeded", "createUnknown"}
    /\ events \subseteq [about : {"old", "new", "deployment"}, text : {"exceeded", "unknown"}]
    /\ \A c \in DOMAIN verdict : verdict[c] \in [severity : Severities[c], current : BOOLEAN]

Verdict(c, severity) == verdict[c] = [severity |-> severity, current |-> TRUE]

\* A HIGH of quota-headroom means that the rollout never gets the surge its
\* strategy asks for, whatever the order in which Pods come and go.
AccusedNeverSurges ==
    Verdict("quota-headroom", "HIGH") =>
        old.pods + new.pods + doomed < replicas + Surge

\* A MEDIUM of hpa-quota-headroom means that the autoscaler never has maxReplicas
\* Pods; without it, none of the Pods it adds before a rollout is refused.
HpaVerdictHolds ==
    /\ Verdict("hpa-quota-headroom", "MEDIUM") => old.pods + new.pods + doomed < hpaMax
    /\ Verdict("hpa-quota-headroom", "none") /\ change = "none" =>
           \A e \in events : e.about # "old"

\* A HIGH of quota-object-count means that no ReplicaSet is ever created for a
\* new template, and never that an old one cannot be rolled back to; without it
\* none is refused.
CountVerdictHolds ==
    /\ Verdict("quota-object-count", "HIGH") /\ change = "new" => ~new.exists
    /\ Verdict("quota-object-count", "none") => cond \notin {"createExceeded", "createUnknown"}

\* What the three quota checks say holds of the rollout that follows.
VerdictsHold == AccusedNeverSurges /\ HpaVerdictHolds /\ CountVerdictHolds

\* The checks have nothing to say of the rollout: there is room for its ReplicaSet and
\* for the surge or, when a Pod may be missing meanwhile, for what the autoscaler adds
\* "during a rollout window" (hpa.go).  Room for both at once is added up by no check.
Clear ==
    /\ Verdict("quota-object-count", "none")
    /\ \/ Verdict("quota-headroom", "none")
       \/ /\ Verdict("hpa-quota-headroom", "none")
          /\ strategy.type = "Recreate" \/ Unavailable > 0

\* A rollout that the checks have nothing to say of ends: no quota is in its way for
\* good, wherever in it the autoscaler scales.
SilentRollsOut == (Clear /\ change # "none") ~> (Complete \/ ~Clear)

\* hpa.go takes growth for "a distinct, independent trigger": a rollout of which both
\* checks are silent ends even if the autoscaler uses the room the surge was to have.
SilenceAddsUp ==
    (/\ change # "none"
     /\ \A c \in DOMAIN verdict : verdict[c].severity = "none"
     /\ Verdict("hpa-quota-headroom", "none"))
        ~> (Complete \/ ~Verdict("hpa-quota-headroom", "none"))

\* A rollout that never ends is explained: again and again the Diagnosers have a
\* determined cause to report, although Events expire and the deadline passes.
StuckIsExplained == <>[](change # "none" /\ ~Complete) => []<>Determined

\* The Quota Diagnoser says that Pods cannot be created and rates it HIGH, a
\* condition that blocks the rollout or has blocked it: a rollout that had the
\* headroom and ends by itself is not reported so.
CompleteIsNotAccused ==
    Complete /\ Verdict("quota-headroom", "none") =>
        \A f \in QuotaDiagnose : f.cause # "quota-exceeded"
=============================================================================
