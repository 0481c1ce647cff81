---------------------------- MODULE MCNodeDrain -----------------------------
(* The instances of NodeDrain that TLC checks. *)
EXTENDS NodeDrain

MCNodes == 1..3

Node(zone, pool, tainted, cpu) == [zone |-> zone, pool |-> pool, tainted |-> tainted, cpu |-> cpu]

\* Zones enough for every replica and the surge, for the replicas alone, or for
\* one; nodes outside the pool, tainted, too small, without the label or a status.
A == Node("a", TRUE, FALSE, 2)
B == Node("b", TRUE, FALSE, 2)
C == Node("c", TRUE, FALSE, 2)
Elsewhere == Node("c", FALSE, FALSE, 2)
Tainted == Node("b", TRUE, TRUE, 2)
Small == Node("b", TRUE, FALSE, 1)
Blank == Node(Unset, TRUE, FALSE, Unset)
Clusters == {<<A, B, C>>, <<A, B, B>>, <<A, B, Elsewhere>>, <<A, Tainted, C>>, <<A, B, Blank>>}
Pools == {<<A, Elsewhere, Elsewhere>>, <<Small, C, Elsewhere>>, <<Tainted, C, Elsewhere>>,
          <<Elsewhere, Elsewhere, Elsewhere>>, <<Blank, Blank, Blank>>}

Number(n) == [percent |-> FALSE, value |-> n]
Percent(n) == [percent |-> TRUE, value |-> n]
AtLeast(v) == [minAvailable |-> v, maxUnavailable |-> Unset]
AtMost(v) == [minAvailable |-> Unset, maxUnavailable |-> v]

Base == [kind |-> "Deployment", replicas |-> 2, recreate |-> FALSE, surge |-> 1,
         unavailable |-> 0, selector |-> FALSE, anti |-> FALSE, spreads |-> {}, cpu |-> 0,
         defaultScheduler |-> TRUE, budgets |-> <<>>]
Spread(min) == [skew |-> 1, minDomains |-> min, hard |-> TRUE, ignoresSelector |-> FALSE]

\* A surge that needs room, and Pods that may be missing instead.
Strategies == {[surge |-> 1, unavailable |-> 0, recreate |-> FALSE],
               [surge |-> 0, unavailable |-> 1, recreate |-> FALSE]}
With(s) == [Base EXCEPT !.surge = s.surge, !.unavailable = s.unavailable, !.recreate = s.recreate]

\* Each constraint alone, and spread with anti-affinity, over the zones; a node
\* selector with a request for CPU over the pools.
Zoned == {[With(s) EXCEPT !.anti = TRUE] : s \in Strategies}
         \cup {[Base EXCEPT !.spreads = {Spread(3)}], [Base EXCEPT !.spreads = {Spread(1)}, !.anti = TRUE],
               [Base EXCEPT !.anti = TRUE, !.unavailable = 1],
               [Base EXCEPT !.spreads = {Spread(2)}, !.unavailable = 1]}
Pooled == {[With(s) EXCEPT !.selector = TRUE, !.cpu = 2] : s \in Strategies}
Scenario(cs, xs, ks) ==
    {[nodes |-> c, cordoned |-> x, workload |-> k] : c \in cs, x \in xs, k \in ks}
ConstraintScenarios ==
    UNION {Scenario(Clusters, {{}}, Zoned), Scenario({<<A, B, C>>, <<A, B, B>>}, {{3}}, Zoned),
           Scenario(Pools, {{}, {2}}, Pooled)}

\* Budgets of every form over two replicas, and of a DaemonSet.
Forms == {<<AtLeast(Percent(60))>>, <<AtLeast(Number(1))>>, <<AtMost(Percent(25))>>,
          <<AtMost(Number(0))>>, <<AtMost(Number(1)), AtLeast(Number(1))>>, <<>>,
          <<[minAvailable |-> Unset, maxUnavailable |-> Unset]>>}
InPlace == [Base EXCEPT !.surge = 0, !.unavailable = 1]
Budgeted ==
    {[InPlace EXCEPT !.budgets = f] : f \in Forms}
      \cup {[Base EXCEPT !.budgets = <<AtMost(Percent(25))>>],
            [InPlace EXCEPT !.recreate = TRUE, !.unavailable = 2, !.budgets = <<AtMost(Number(1))>>]}
      \cup {[InPlace EXCEPT !.kind = "DaemonSet", !.budgets = f] :
               f \in {<<AtMost(Number(1))>>, <<AtLeast(Percent(50))>>, <<AtLeast(Number(1))>>}}
BudgetScenarios == Scenario({<<A, A, Tainted>>}, {{}}, Budgeted)

MCScenarios == ConstraintScenarios \cup BudgetScenarios

\* Required anti-affinity, three zones, two replicas and two Pods of surge.
MCWideSurge == Scenario({<<A, B, C>>}, {{}}, {[Base EXCEPT !.anti = TRUE, !.surge = 2]})
=============================================================================
