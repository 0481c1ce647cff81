--------------------------- MODULE MCRolloutQuota ---------------------------
(* The instances of RolloutQuota that TLC checks. *)
EXTENDS RolloutQuota

Number(n) == [percent |-> FALSE, value |-> n]
Percent(n) == [percent |-> TRUE, value |-> n]
Rolling(s, u) == [type |-> "RollingUpdate", surge |-> s, unavailable |-> u]

\* A surge of two Pods, rounded up, with none that may be missing; one that may be
\* missing, rounded down, without a surge; and Recreate.
MCStrategies == {Rolling(Percent(60), Percent(25)), Rolling(Number(0), Percent(50)),
                 [type |-> "Recreate"]}

\* The defaults of a Deployment: one Pod of surge and none missing.
MCDefaultStrategy == {Rolling(Percent(25), Percent(25))}

Quota(pods, cpu, alias, count, reported, scoped) ==
    [hard |-> [k \in Keys |-> CASE k = "pods" -> pods
                                [] k = "requests.cpu" -> cpu
                                [] k = "cpu" -> alias
                                [] OTHER -> count],
     reported |-> reported, scoped |-> scoped]

\* Quotas with no less than what the Deployment at rest uses: of Pods, of CPU
\* under either key, of ReplicaSets, without a status yet, with a scope.
MCQuotaLists ==
    {<<Quota(Replicas + n, Absent, Absent, Absent, TRUE, FALSE)>> : n \in 0..2}
      \cup {<<Quota(Absent, (Replicas + 1) * PodCpu, Absent, 2, TRUE, FALSE)>>}
      \cup {<<Quota(Absent, (Replicas + 1) * PodCpu, Absent, 1, TRUE, TRUE)>>}
      \cup {<<Quota(Absent, Absent, Replicas * PodCpu, 3, TRUE, FALSE),
              Quota(Replicas + 1, Absent, Absent, 2, FALSE, FALSE)>>}
=============================================================================
