------------------------- MODULE RolloutQuotaProofs -------------------------
(***************************************************************************)
(* What the quota checks say of a rollout to come holds for any number of  *)
(* replicas, any update strategy and any list of quotas.  The argument: a  *)
(* quota is charged with at least the Pods there are, so that one bound of *)
(* one quota, read at rest, bounds the Pods for as long as it is there.    *)
(***************************************************************************)
EXTENDS RolloutQuota, TLAPS

(***************************************************************************)
(* Numbers                                                                 *)
(***************************************************************************)

\* The larger of zero and a number.
LEMMA MaxZero ==
    ASSUME NEW x \in Int
    PROVE  Max({0, x}) = IF x > 0 THEN x ELSE 0
<1> DEFINE m == IF x > 0 THEN x ELSE 0
<1>1. m \in {0, x} /\ \A y \in {0, x} : m >= y
  OBVIOUS
<1>2. Max({0, x}) \in {0, x} /\ \A y \in {0, x} : Max({0, x}) >= y
  BY <1>1 DEF Max
<1> QED
  BY <1>2

\* The smaller of two numbers.
LEMMA MinTwo ==
    ASSUME NEW x \in Int, NEW y \in Int
    PROVE  Min({x, y}) = IF x <= y THEN x ELSE y
<1> DEFINE m == IF x <= y THEN x ELSE y
<1>1. m \in {x, y} /\ \A z \in {x, y} : m <= z
  OBVIOUS
<1>2. Min({x, y}) \in {x, y} /\ \A z \in {x, y} : Min({x, y}) <= z
  BY <1>1 DEF Min
<1> QED
  BY <1>2

\* A number or a percentage of Pods is a number of Pods.
LEMMA ScaledType ==
    ASSUME NEW v, IsIntOrPercent(v), NEW n \in Nat, NEW up \in BOOLEAN
    PROVE  Scaled(v, n, up) \in Nat
<1>1. v.percent \in BOOLEAN /\ v.value \in Nat
  BY DEF IsIntOrPercent
<1>2. v.value * n \in Nat
  BY <1>1
<1> DEFINE product == v.value * n
<1>3. (product + 99) \div 100 \in Nat /\ product \div 100 \in Nat
  <2> HIDE DEF product
  <2> SUFFICES ASSUME product \in Nat
               PROVE  (product + 99) \div 100 \in Nat /\ product \div 100 \in Nat
    BY <1>2 DEF product
  <2> QED
    OBVIOUS
<1> QED
  BY <1>1, <1>3 DEF Scaled

LEMMA SurgeOfType ==
    ASSUME TypeOK, NEW n \in Nat
    PROVE  SurgeOf(n) \in Nat
<1>1. IsStrategy(strategy)
  BY InstanceAssumption DEF TypeOK
<1>2. strategy.type # "Recreate" => Scaled(strategy.surge, n, TRUE) \in Nat
  BY <1>1, ScaledType DEF IsStrategy
<1> QED
  BY <1>2 DEF SurgeOf

LEMMA SurgeType ==
    ASSUME TypeOK
    PROVE  /\ Surge \in Nat
           /\ strategy.type = "Recreate" => Surge = 0
           /\ strategy.type # "Recreate" => Unavailable \in Nat
<1>1. IsStrategy(strategy) /\ replicas \in Nat
  BY InstanceAssumption DEF TypeOK
<1>2. CASE strategy.type = "Recreate"
  BY <1>2 DEF Surge, SurgeOf
<1>3. CASE /\ strategy.type = "RollingUpdate"
           /\ IsIntOrPercent(strategy.surge) /\ IsIntOrPercent(strategy.unavailable)
  <2>1. /\ Scaled(strategy.surge, replicas, TRUE) \in Nat
        /\ Scaled(strategy.unavailable, replicas, FALSE) \in Nat
    BY <1>1, <1>3, ScaledType
  <2> QED
    <3>1. Surge \in Nat
      BY <1>3, <2>1 DEF Surge, SurgeOf
    <3>2. Unavailable \in Nat
      <4> DEFINE u == Scaled(strategy.unavailable, replicas, FALSE)
                 v == Scaled(strategy.surge, replicas, TRUE)
      <4>1. Unavailable = IF u = 0 /\ v = 0 THEN 1 ELSE u
        BY DEF Unavailable
      <4> HIDE DEF u, v
      <4> QED
        BY <2>1, <4>1 DEF u, v
    <3> QED
      BY <1>3, <3>1, <3>2
<1> QED
  BY <1>1, <1>2, <1>3 DEF IsStrategy

\* The sizes the Deployment controller gives its ReplicaSets.
LEMMA SizesType ==
    ASSUME TypeOK
    PROVE  /\ \A o, n \in Nat : NewSize(o, n) \in Nat
           /\ OldSize \in Nat
<1>1. replicas \in Nat /\ old.size \in Nat /\ old.ready \in Nat /\ new.ready \in Nat
  BY DEF TypeOK, ReplicaSets
<1>2. CASE strategy.type = "Recreate"
  BY <1>1, <1>2 DEF NewSize, OldSize
<1>3. CASE strategy.type # "Recreate"
  <2>1. Surge \in Nat /\ Unavailable \in Nat
    BY <1>3, SurgeType
  <2>2. ASSUME NEW o \in Nat, NEW n \in Nat
        PROVE  NewSize(o, n) \in Nat
    <3> DEFINE a == replicas - n
               b == replicas + Surge - o - n
    <3>1. a \in Int /\ b \in Int
      BY <1>1, <2>1
    <3>2. Min({a, b}) \in Int
      BY <3>1, MinTwo
    <3>3. Max({0, Min({a, b})}) \in Nat
      BY <3>2, MaxZero
    <3> QED
      BY <1>3, <2>2, <3>3 DEF NewSize
  <2>3. OldSize \in Nat
    <3> DEFINE minAvailable == replicas - Unavailable
               spare == old.size + new.ready - minAvailable
               sick == Max({0, Min({spare, old.size - old.ready})})
               room == old.ready + new.ready - minAvailable
               healthy == Max({0, Min({old.size - sick, room})})
    <3>1. spare \in Int /\ old.size - old.ready \in Int /\ room \in Int
      BY <1>1, <2>1
    <3>2. sick \in 0..old.size
      <4> DEFINE unready == old.size - old.ready
                 m == Min({spare, unready})
      <4>1. unready \in Int /\ unready <= old.size
        BY <1>1
      <4>2. m \in Int /\ m <= unready
        <5> HIDE DEF spare, unready
        <5> QED
          BY <3>1, <4>1, MinTwo
      <4>3. Max({0, m}) = IF m > 0 THEN m ELSE 0
        <5> HIDE DEF m
        <5> QED
          BY <4>2, MaxZero
      <4> HIDE DEF m, unready
      <4> QED
        BY <1>1, <4>1, <4>2, <4>3 DEF m, unready
    <3>3. healthy \in 0..(old.size - sick)
      <4> DEFINE left == old.size - sick
                 m == Min({left, room})
      <4>1. left \in Nat
        <5> HIDE DEF sick
        <5> QED
          BY <1>1, <3>2
      <4>2. m \in Int /\ m <= left
        <5> HIDE DEF left, room
        <5> QED
          BY <3>1, <4>1, MinTwo
      <4>3. Max({0, m}) = IF m > 0 THEN m ELSE 0
        <5> HIDE DEF m
        <5> QED
          BY <4>2, MaxZero
      <4>4. healthy = Max({0, m})
        OBVIOUS
      <4> HIDE DEF m, left, healthy
      <4>5. healthy \in 0..left
        BY <4>1, <4>2, <4>3, <4>4
      <4> QED
        BY <4>5 DEF left
    <3>4. OldSize = IF spare <= 0 THEN old.size ELSE old.size - sick - healthy
      BY <1>3 DEF OldSize
    <3> HIDE DEF spare, sick, healthy
    <3> QED
      BY <1>1, <3>2, <3>3, <3>4
  <2> QED
    BY <2>2, <2>3
<1> QED
  BY <1>2, <1>3

(***************************************************************************)
(* Types, and what the counters have to do with each other                 *)
(***************************************************************************)

\* What the quotas are charged with is never less than the Pods there are; before
\* a rollout there are only Pods of the old ReplicaSet, and no more than replicas.
Shape ==
    /\ DOMAIN verdict = {"quota-headroom", "hpa-quota-headroom", "quota-object-count"}
    /\ replicas > 0
    /\ old.ready = old.pods
    /\ ~new.exists => new = NoSet
    /\ sets <= 2 \/ new.exists
    /\ old.pods + new.pods + doomed <= charged
    /\ change = "none" => /\ new = NoSet /\ doomed = 0 /\ cond = "available"
                          /\ old.size = replicas /\ old.pods <= replicas /\ charged = old.pods

\* A ReplicaSet that has just been created.
LEMMA Created ==
    ASSUME NEW n \in Nat, NEW e, e = [EmptySet EXCEPT !.size = n]
    PROVE  e \in ReplicaSets /\ e.exists /\ e.size = n /\ e.pods = 0 /\ e.ready = 0
BY DEF EmptySet, NoSet, ReplicaSets

\* The autoscaler moves sizes only, and before a rollout that of the old ReplicaSet.
LEMMA Resized ==
    ASSUME TypeOK, Shape, HpaScale
    PROVE  /\ replicas' = replicas + 1 /\ replicas' \in Nat
           /\ old' \in ReplicaSets /\ old'.exists = old.exists
           /\ old'.pods = old.pods /\ old'.ready = old.ready
           /\ new' \in ReplicaSets /\ new'.exists = new.exists
           /\ new'.pods = new.pods /\ new'.ready = new.ready
           /\ ~new.exists => new' = new
           /\ change = "none" => new' = new /\ old'.size = replicas'
<1> DEFINE r == replicas + 1
<1>1. replicas' = r /\ r \in Nat /\ old \in ReplicaSets /\ new \in ReplicaSets
  BY DEF HpaScale, TypeOK
<1>2. ~new.exists => new.size = 0
  BY DEF Shape, NoSet
<1>3. change = "none" => old.size > 0 /\ new.size = 0
  BY DEF Shape, NoSet
<1>4. \/ old.size > 0 /\ new.size = 0 /\ old' = [old EXCEPT !.size = r] /\ new' = new
      \/ old.size = 0 /\ new.size > 0 /\ new' = [new EXCEPT !.size = r] /\ old' = old
      \/ old.size = 0 /\ new.size = 0 /\ old' = old /\ new' = new
      \/ \E n \in new.size..r :
           /\ old.size > 0 /\ new.size > 0 /\ old.size <= r + SurgeOf(r) - n
           /\ new' = [new EXCEPT !.size = n]
           /\ old' = [old EXCEPT !.size = r + SurgeOf(r) - n]
  BY DEF HpaScale
<1> HIDE DEF r
<1>5. CASE old.size > 0 /\ new.size = 0 /\ old' = [old EXCEPT !.size = r] /\ new' = new
  BY <1>1, <1>5 DEF ReplicaSets, r
<1>6. CASE old.size = 0 /\ new.size > 0 /\ new' = [new EXCEPT !.size = r] /\ old' = old
  BY <1>1, <1>2, <1>3, <1>6 DEF ReplicaSets, r
<1>7. CASE old.size = 0 /\ new.size = 0 /\ old' = old /\ new' = new
  BY <1>1, <1>3, <1>7 DEF r
<1>8. ASSUME NEW n \in new.size..r,
             old.size > 0, new.size > 0, old.size <= r + SurgeOf(r) - n,
             new' = [new EXCEPT !.size = n], old' = [old EXCEPT !.size = r + SurgeOf(r) - n]
      PROVE  /\ old' \in ReplicaSets /\ old'.exists = old.exists
             /\ old'.pods = old.pods /\ old'.ready = old.ready
             /\ new' \in ReplicaSets /\ new'.exists = new.exists
             /\ new'.pods = new.pods /\ new'.ready = new.ready
             /\ new.exists /\ change # "none"
  <2>1. old.size \in Nat /\ new.size \in Nat
    BY <1>1 DEF ReplicaSets
  <2>2. SurgeOf(r) \in Nat
    BY <1>1, SurgeOfType
  <2>3. PICK m \in Nat : m = r + SurgeOf(r) - n
    <3>1. n \in Int
      BY <1>1, <2>1
    <3>2. r + SurgeOf(r) - n \in Nat
      BY <1>1, <1>8, <2>1, <2>2, <3>1
    <3> QED
      BY <3>2
  <2>4. n \in Nat
    BY <1>1, <2>1
  <2>5. old' = [old EXCEPT !.size = m]
    BY <1>8, <2>3
  <2> QED
    BY <1>1, <1>2, <1>3, <1>8, <2>1, <2>4, <2>5 DEF ReplicaSets
<1> QED
  BY <1>1, <1>4, <1>5, <1>6, <1>7, <1>8 DEF r

LEMMA TypeAndShape == Spec => [](TypeOK /\ Shape)
<1>1. Init => TypeOK /\ Shape
  <2> SUFFICES ASSUME Init
               PROVE  TypeOK /\ Shape
    OBVIOUS
  <2>1. \A c \in DOMAIN verdict : verdict[c] \in [severity : Severities[c], current : BOOLEAN]
    BY DEF Init, Severities
  <2> QED
    BY <2>1, InstanceAssumption DEF Init, TypeOK, Shape, NoSet, ReplicaSets
<1>2. TypeOK /\ Shape /\ [Next]_vars => TypeOK' /\ Shape'
  <2> SUFFICES ASSUME TypeOK, Shape, [Next]_vars
               PROVE  TypeOK' /\ Shape'
    OBVIOUS
  <2>0. ASSUME DOMAIN verdict' = DOMAIN verdict
        PROVE  Severities' = Severities
    BY <2>0 DEF Severities
  <2>1. CASE Check
    <3>1. DOMAIN verdict' = DOMAIN verdict
      BY <2>1 DEF Check
    <3>2. /\ QuotaHeadroom \in {"none", "HIGH"} /\ HPAQuotaHeadroom \in {"none", "MEDIUM"}
          /\ QuotaObjectCount \in {"none", "HIGH", "SKIP"}
      BY DEF QuotaHeadroom, HPAQuotaHeadroom, QuotaObjectCount
    <3>3. \A c \in DOMAIN verdict : verdict'[c] \in [severity : Severities[c], current : BOOLEAN]
      BY <2>1, <3>2 DEF Check, Severities, Shape
    <3> QED
      BY <2>0, <2>1, <3>1, <3>3 DEF Check, cluster, TypeOK, Shape
  <2>2. ASSUME NEW to \in {"new", "old"}, StartRollout(to)
        PROVE  TypeOK' /\ Shape'
    BY <2>0, <2>2 DEF StartRollout, TypeOK, Shape, NoSet, EmptySet, ReplicaSets
  <2>3. CASE HpaScale
    <3>1. DOMAIN verdict' = DOMAIN verdict
      BY <2>3 DEF HpaScale
    <3>2. \A c \in DOMAIN verdict : verdict'[c] \in [severity : Severities[c], current : BOOLEAN]
      BY <2>3 DEF HpaScale, TypeOK
    <3> QED
      BY <2>0, <2>3, <3>1, <3>2, Resized DEF HpaScale, TypeOK, Shape
  <2>4. CASE LiftQuotas
    <3>1. DOMAIN verdict' = DOMAIN verdict
      BY <2>4 DEF LiftQuotas
    <3>2. \A c \in DOMAIN verdict : verdict'[c] \in [severity : Severities[c], current : BOOLEAN]
      BY <2>4 DEF LiftQuotas, TypeOK
    <3>3. DOMAIN quotas' = {}
      BY <2>4 DEF LiftQuotas
    <3> QED
      BY <2>0, <2>4, <3>1, <3>2, <3>3 DEF LiftQuotas, TypeOK, Shape
  <2>5. CASE CreateSet
    <3>1. NewSize(old.size, 0) \in Nat
      BY SizesType DEF TypeOK, ReplicaSets
    <3>2. Refusal(SetOutcomes) \in {"exceeded", "unknown"}
      BY DEF Refusal
    <3> QED
      <4>1. CASE SetOutcomes \subseteq {"admitted"}
        <5>1. /\ new' \in ReplicaSets /\ new'.exists /\ new'.ready = 0 /\ new'.pods = 0
              /\ ~new.exists /\ new.pods = 0
          BY <2>5, <3>1, <4>1, Created DEF CreateSet, Shape, NoSet
        <5> QED
          BY <2>0, <2>5, <4>1, <5>1 DEF CreateSet, TypeOK, Shape
      <4>2. CASE ~(SetOutcomes \subseteq {"admitted"})
        BY <2>0, <2>5, <3>2, <4>2 DEF CreateSet, TypeOK, Shape
      <4> QED
        BY <4>1, <4>2
  <2>6. CASE ScaleNew
    <3>1. NewSize(old.size, new.size) \in Nat
      BY SizesType DEF TypeOK, ReplicaSets
    <3> QED
      BY <2>0, <2>6, <3>1 DEF ScaleNew, TypeOK, Shape, ReplicaSets
  <2>7. CASE ScaleOld
    BY <2>0, <2>7, SizesType DEF ScaleOld, TypeOK, Shape, ReplicaSets
  <2>8. ASSUME NEW s \in {"old", "new"}, CreatePod(s)
        PROVE  TypeOK' /\ Shape'
    <3>1. Refusal(PodOutcomes) \in {"exceeded", "unknown"}
      BY DEF Refusal
    <3>2. CASE ~(PodOutcomes \subseteq {"admitted"})
      BY <2>0, <2>8, <3>1, <3>2 DEF CreatePod, TypeOK, Shape
    <3>3. CASE s = "old" /\ PodOutcomes \subseteq {"admitted"}
      <4>1. /\ old' = [old EXCEPT !.pods = old.pods + 1, !.ready = old.ready + 1]
            /\ new' = new /\ charged' = charged + 1 /\ old.pods < old.size
        BY <2>8, <3>3 DEF CreatePod
      <4>2. /\ old' \in ReplicaSets /\ old'.pods = old.pods + 1 /\ old'.ready = old.ready + 1
            /\ old'.size = old.size
        <5>1. old \in ReplicaSets /\ old.pods + 1 \in Nat /\ old.ready + 1 \in Nat
          BY DEF TypeOK, ReplicaSets
        <5>2. PICK p \in Nat, r \in Nat : p = old.pods + 1 /\ r = old.ready + 1
          BY <5>1
        <5>3. old' = [old EXCEPT !.pods = p, !.ready = r]
          BY <4>1, <5>2
        <5> QED
          BY <4>1, <5>1, <5>2, <5>3 DEF ReplicaSets
      <4> QED
        BY <2>0, <2>8, <3>3, <4>1, <4>2 DEF CreatePod, TypeOK, Shape, ReplicaSets
    <3>4. CASE s = "new" /\ PodOutcomes \subseteq {"admitted"}
      <4>1. /\ new' = [new EXCEPT !.pods = new.pods + 1, !.ready = new.ready]
            /\ old' = old /\ charged' = charged + 1 /\ new.exists
        BY <2>8, <3>4 DEF CreatePod
      <4>2. /\ new' \in ReplicaSets /\ new'.pods = new.pods + 1 /\ new'.ready = new.ready
            /\ new'.exists
        <5>1. new \in ReplicaSets /\ new.pods + 1 \in Nat /\ new.ready \in Nat
          BY DEF TypeOK, ReplicaSets
        <5>2. PICK p \in Nat, r \in Nat : p = new.pods + 1 /\ r = new.ready
          BY <5>1
        <5>3. new' = [new EXCEPT !.pods = p, !.ready = r]
          BY <4>1, <5>2
        <5> QED
          BY <4>1, <5>1, <5>2, <5>3 DEF ReplicaSets
      <4>3. change # "none"
        BY <4>1 DEF Shape, NoSet
      <4> QED
        BY <2>0, <2>8, <3>4, <4>1, <4>2, <4>3 DEF CreatePod, TypeOK, Shape, ReplicaSets
    <3> QED
      BY <3>2, <3>3, <3>4
  <2>9. CASE DeletePod
    <3>1. /\ old' \in ReplicaSets /\ old'.pods = old.pods - 1 /\ old'.ready = old'.pods
      <4>1. old \in ReplicaSets /\ old.pods - 1 \in Nat /\ old.ready - 1 \in Nat
        BY <2>9 DEF DeletePod, TypeOK, ReplicaSets, Shape
      <4>2. old' = [old EXCEPT !.pods = old.pods - 1, !.ready = old.ready - 1]
        BY <2>9 DEF DeletePod
      <4>3. PICK p \in Nat, r \in Nat : p = old.pods - 1 /\ r = old.ready - 1
        BY <4>1
      <4>4. old' = [old EXCEPT !.pods = p, !.ready = r]
        BY <4>2, <4>3
      <4> QED
        BY <4>1, <4>3, <4>4 DEF Shape, ReplicaSets
    <3>2. change # "none"
      BY <2>9 DEF DeletePod, Shape, TypeOK, ReplicaSets
    <3> QED
      BY <2>0, <2>9, <3>1, <3>2 DEF DeletePod, TypeOK, Shape, ReplicaSets
  <2>10. CASE PodGone
    BY <2>0, <2>10 DEF PodGone, TypeOK, Shape, ReplicaSets
  <2>11. CASE BecomeReady
    BY <2>0, <2>11 DEF BecomeReady, TypeOK, Shape, NoSet, ReplicaSets
  <2>12. CASE SyncQuota
    <3>1. \A i \in DOMAIN quotas' : IsQuota(quotas'[i])
      BY <2>12 DEF SyncQuota, TypeOK, IsQuota
    <3> QED
      BY <2>0, <2>12, <3>1 DEF SyncQuota, TypeOK, Shape, NoSet, ReplicaSets
  <2>13. CASE MissDeadline
    BY <2>0, <2>13 DEF MissDeadline, TypeOK, Shape
  <2>14. CASE Expire
    BY <2>0, <2>14 DEF Expire, TypeOK, Shape
  <2>15. CASE UNCHANGED vars
    BY <2>0, <2>15 DEF vars, TypeOK, Shape
  <2> QED
    BY <2>1, <2>2, <2>3, <2>4, <2>5, <2>6, <2>7, <2>8, <2>9, <2>10, <2>11, <2>12, <2>13,
       <2>14, <2>15 DEF Next
<1> QED
  BY <1>1, <1>2, PTL DEF Spec

\* Counters stay natural numbers, a ReplicaSet has no more ready Pods than Pods, and
\* a check says only what it can say.
THEOREM TypeInvariant == Spec => []TypeOK
BY TypeAndShape, PTL

(***************************************************************************)
(* What a quota leaves                                                     *)
(***************************************************************************)

PodKeys == {"pods", "requests.cpu", "cpu"}

\* Some quota does not hold n Pods, whatever else is charged to it.
Bound(q, k, n) == q.hard[k] # Absent /\ PodUse(k) > 0 /\ q.hard[k] < PodUse(k) * n
Walled(n) == \E i \in DOMAIN quotas : quotas[i].reported /\ \E k \in PodKeys : Bound(quotas[i], k, n)

\* Every quota has a status and holds n Pods.
Roomy(n) == \A i \in DOMAIN quotas : quotas[i].reported /\ \A k \in PodKeys : ~Bound(quotas[i], k, n)

\* Of the two keys for CPU the one that is looked at first is not the looser one.
FirstKeyBinds(q) ==
    q.hard["requests.cpu"] # Absent /\ q.hard["cpu"] # Absent =>
        q.hard["requests.cpu"] <= q.hard["cpu"]

LEMMA PodUses ==
    /\ PodUse("pods") = 1 /\ PodUse("count/replicasets.apps") = 0
    /\ PodUse("requests.cpu") = PodCpu /\ PodUse("cpu") = PodCpu
    /\ \A k \in Keys : PodUse(k) \in Nat
BY InstanceAssumption DEF PodUse, Keys

\* The headroom for Pods and for CPU of a quota that has a status.
LEMMA Headrooms ==
    ASSUME NEW q, IsQuota(q), q.reported
    PROVE  /\ Headroom(q, <<"pods">>) =
                IF q.hard["pods"] = Absent THEN Absent ELSE q.hard["pods"] - Used("pods")
           /\ Headroom(q, <<"requests.cpu", "cpu">>) =
                IF q.hard["requests.cpu"] # Absent
                THEN q.hard["requests.cpu"] - Used("requests.cpu")
                ELSE IF q.hard["cpu"] # Absent THEN q.hard["cpu"] - Used("cpu") ELSE Absent
<1>1. Headroom(q, <<"pods">>) =
        IF q.hard["pods"] = Absent THEN Absent ELSE q.hard["pods"] - Used("pods")
  <2> DEFINE keys == <<"pods">>
             present == {i \in DOMAIN keys : q.hard[keys[i]] # Absent}
  <2>0. DOMAIN keys = {1} /\ keys[1] = "pods"
    OBVIOUS
  <2>1. CASE q.hard["pods"] = Absent
    <3>1. present = {}
      BY <2>0, <2>1
    <3> QED
      BY <2>1, <3>1 DEF Headroom
  <2>2. CASE q.hard["pods"] # Absent
    <3>1. present = {1}
      BY <2>0, <2>2
    <3>2. Min({1}) = 1
      <4>1. {1} = {1, 1}
        OBVIOUS
      <4> QED
        BY <4>1, MinTwo
    <3>3. present # {} /\ Min(present) = 1
      BY <3>1, <3>2
    <3> QED
      BY <2>0, <2>2, <3>3 DEF Headroom
  <2> QED
    BY <2>1, <2>2
<1>2. Headroom(q, <<"requests.cpu", "cpu">>) =
        IF q.hard["requests.cpu"] # Absent
        THEN q.hard["requests.cpu"] - Used("requests.cpu")
        ELSE IF q.hard["cpu"] # Absent THEN q.hard["cpu"] - Used("cpu") ELSE Absent
  <2> DEFINE keys == <<"requests.cpu", "cpu">>
             present == {i \in DOMAIN keys : q.hard[keys[i]] # Absent}
  <2>0. DOMAIN keys = {1, 2} /\ keys[1] = "requests.cpu" /\ keys[2] = "cpu"
    OBVIOUS
  <2>1. CASE q.hard["requests.cpu"] # Absent
    <3>1. present = {1} \/ present = {1, 2}
      BY <2>0, <2>1
    <3>2. Min({1}) = 1 /\ Min({1, 2}) = 1
      <4>1. {1} = {1, 1}
        OBVIOUS
      <4> QED
        BY <4>1, MinTwo
    <3>3. present # {} /\ Min(present) = 1
      BY <3>1, <3>2
    <3> QED
      BY <2>0, <2>1, <3>3 DEF Headroom
  <2>2. CASE q.hard["requests.cpu"] = Absent /\ q.hard["cpu"] # Absent
    <3>1. present = {2}
      BY <2>0, <2>2
    <3>2. Min({2}) = 2
      <4>1. {2} = {2, 2}
        OBVIOUS
      <4> QED
        BY <4>1, MinTwo
    <3> QED
      BY <2>0, <2>2, <3>1, <3>2 DEF Headroom
  <2>3. CASE q.hard["requests.cpu"] = Absent /\ q.hard["cpu"] = Absent
    <3>1. present = {}
      BY <2>0, <2>3
    <3> QED
      BY <2>3, <3>1 DEF Headroom
  <2> QED
    BY <2>1, <2>2, <2>3
<1> QED
  BY <1>1, <1>2

\* At rest, what is short of the extra Pods does not hold them with the replicas,
\* and what is not holds them if its first key binds.
LEMMA ShortMeans ==
    ASSUME TypeOK, charged = replicas, NEW i \in DOMAIN quotas, quotas[i].reported,
           NEW extra \in Nat
    PROVE  /\ Short(quotas[i], extra) => \E k \in PodKeys : Bound(quotas[i], k, replicas + extra)
           /\ FirstKeyBinds(quotas[i]) /\ ~Short(quotas[i], extra) =>
                  \A k \in PodKeys : ~Bound(quotas[i], k, replicas + extra)
<1> DEFINE q == quotas[i]
<1>1. IsQuota(q) /\ q.reported /\ replicas \in Nat /\ PodCpu \in Nat
  BY InstanceAssumption DEF TypeOK
<1>2. /\ q.hard["pods"] \in Nat \cup {Absent} /\ q.hard["requests.cpu"] \in Nat \cup {Absent}
      /\ q.hard["cpu"] \in Nat \cup {Absent}
  BY <1>1 DEF IsQuota, Keys
<1> DEFINE p == q.hard["pods"]
           r == q.hard["requests.cpu"]
           c == q.hard["cpu"]
           used == replicas * PodCpu
           grow == PodCpu * extra
<1>3. /\ Used("pods") = replicas /\ Used("requests.cpu") = used /\ Used("cpu") = used
  BY <1>1, PodUses DEF Used
<1>4. used \in Nat /\ grow \in Nat /\ PodCpu * (replicas + extra) = used + grow
  BY <1>1
<1>5. /\ Bound(q, "pods", replicas + extra) <=> p # Absent /\ p < replicas + extra
      /\ Bound(q, "requests.cpu", replicas + extra) <=> r # Absent /\ PodCpu > 0 /\ r < used + grow
      /\ Bound(q, "cpu", replicas + extra) <=> c # Absent /\ PodCpu > 0 /\ c < used + grow
  BY <1>1, <1>4, PodUses DEF Bound
<1>6. Headroom(q, <<"pods">>) = IF p = Absent THEN Absent ELSE p - replicas
  BY <1>1, <1>3, Headrooms
<1>7. Headroom(q, <<"requests.cpu", "cpu">>) =
        IF r # Absent THEN r - used ELSE IF c # Absent THEN c - used ELSE Absent
  BY <1>1, <1>3, Headrooms
<1>8. Short(q, extra) <=> \/ p # Absent /\ p - replicas < extra
                          \/ /\ PodCpu # 0
                             /\ \/ r # Absent /\ r - used < grow
                                \/ r = Absent /\ c # Absent /\ c - used < grow
  <2> DEFINE lp == Headroom(q, <<"pods">>)
             lc == Headroom(q, <<"requests.cpu", "cpu">>)
  <2>1. Short(q, extra) <=> \/ lp # Absent /\ lp < extra
                            \/ PodCpu # 0 /\ lc # Absent /\ lc < grow
    BY DEF Short
  <2>2. /\ lp = IF p = Absent THEN Absent ELSE p - replicas
        /\ lc = IF r # Absent THEN r - used ELSE IF c # Absent THEN c - used ELSE Absent
    BY <1>6, <1>7
  <2> HIDE DEF q, lp, lc, used, grow
  <2> QED
    BY <1>1, <1>2, <1>4, <2>1, <2>2, AbsentAssumption
<1>9. FirstKeyBinds(q) <=> (r # Absent /\ c # Absent => r <= c)
  BY DEF FirstKeyBinds
<1> HIDE DEF q, used, grow
<1>10. /\ Short(q, extra) => \E k \in PodKeys : Bound(q, k, replicas + extra)
       /\ FirstKeyBinds(q) /\ ~Short(q, extra) => \A k \in PodKeys : ~Bound(q, k, replicas + extra)
  BY <1>1, <1>2, <1>4, <1>5, <1>8, <1>9 DEF PodKeys
<1> QED
  BY <1>10 DEF q

\* A Pod is not admitted by a quota that does not hold one more than are charged,
\* and it is by one that does.
LEMMA PodAdmission ==
    ASSUME TypeOK, NEW i \in DOMAIN quotas, quotas[i].reported
    PROVE  /\ (\E k \in PodKeys : Bound(quotas[i], k, charged + 1)) =>
                  Outcome(quotas[i], PodCharge) = "exceeded"
           /\ (\A k \in PodKeys : ~Bound(quotas[i], k, charged + 1)) =>
                  Outcome(quotas[i], PodCharge) = "admitted"
<1> DEFINE q == quotas[i]
<1>1. IsQuota(q) /\ q.reported /\ charged \in Nat /\ PodCpu \in Nat
  BY InstanceAssumption DEF TypeOK
<1>2. Keys = PodKeys \cup {"count/replicasets.apps"}
  BY DEF Keys, PodKeys
<1>3. PodCharge["count/replicasets.apps"] = 0 /\ \A k \in PodKeys : PodCharge[k] = PodUse(k)
  BY <1>2, PodUses DEF PodCharge
<1>4. \A k \in PodKeys : PodUse(k) \in Nat /\ Used(k) = charged * PodUse(k)
  BY <1>2, PodUses DEF Used, PodKeys
<1>5. \A k \in PodKeys : PodUse(k) * (charged + 1) = charged * PodUse(k) + PodUse(k)
  <2> SUFFICES ASSUME NEW u \in Nat
               PROVE  u * (charged + 1) = charged * u + u
    BY <1>4
  <2> QED
    BY <1>1
<1>6. \A k \in PodKeys : q.hard[k] \in Nat \cup {Absent}
  BY <1>1, <1>2 DEF IsQuota
<1>7. \A k \in PodKeys :
        Bound(q, k, charged + 1) <=>
            q.hard[k] # Absent /\ PodCharge[k] > 0 /\ Used(k) + PodCharge[k] > q.hard[k]
  <2> SUFFICES ASSUME NEW k \in PodKeys
               PROVE  Bound(q, k, charged + 1) <=>
                        q.hard[k] # Absent /\ PodCharge[k] > 0 /\ Used(k) + PodCharge[k] > q.hard[k]
    OBVIOUS
  <2> DEFINE h == q.hard[k]
             u == PodUse(k)
             used == charged * u
  <2>1. h \in Nat \cup {Absent} /\ u \in Nat
    BY <1>4, <1>6
  <2>2. used \in Nat
    BY <1>1, <2>1
  <2>3. PodCharge[k] = u /\ Used(k) = used /\ u * (charged + 1) = used + u
    BY <1>3, <1>4, <1>5
  <2>4. Bound(q, k, charged + 1) <=> h # Absent /\ u > 0 /\ h < used + u
    BY <2>3 DEF Bound
  <2> HIDE DEF h, u, used, q
  <2>5. h # Absent => (h < used + u <=> used + u > h)
    BY <2>1, <2>2
  <2> QED
    BY <2>3, <2>4, <2>5 DEF h
<1> HIDE DEF q
<1>8. ASSUME NEW k \in PodKeys, Bound(q, k, charged + 1)
      PROVE  Outcome(q, PodCharge) = "exceeded"
  <2>1. k \in Keys /\ PodCharge[k] > 0 /\ PodCharge[k] # 0
    BY <1>2, <1>3, <1>4, <1>7, <1>8
  <2> QED
    BY <1>1, <1>7, <1>8, <2>1 DEF Outcome
<1>9. ASSUME \A k \in PodKeys : ~Bound(q, k, charged + 1)
      PROVE  Outcome(q, PodCharge) = "admitted"
  <2>1. ~ \E k \in Keys :
            q.hard[k] # Absent /\ PodCharge[k] > 0 /\ Used(k) + PodCharge[k] > q.hard[k]
    BY <1>2, <1>3, <1>7, <1>9
  <2> QED
    BY <1>1, <2>1 DEF Outcome
<1> QED
  BY <1>8, <1>9 DEF q

\* A ReplicaSet is not admitted by a quota that is full, and it is by one that has
\* room or does not count them.
LEMMA SetAdmission ==
    ASSUME TypeOK, NEW i \in DOMAIN quotas
    PROVE  LET h == quotas[i].hard["count/replicasets.apps"]
           IN  /\ h # Absent /\ quotas[i].reported /\ sets >= h =>
                      Outcome(quotas[i], SetCharge) = "exceeded"
               /\ h = Absent \/ (quotas[i].reported /\ sets < h) =>
                      Outcome(quotas[i], SetCharge) = "admitted"
<1> DEFINE q == quotas[i]
           count == "count/replicasets.apps"
           h == q.hard[count]
<1>1. IsQuota(q) /\ sets \in Nat
  BY DEF TypeOK
<1>2. h \in Nat \cup {Absent} /\ count \in Keys
  BY <1>1 DEF IsQuota, Keys
<1>3. SetCharge[count] = 1 /\ \A k \in Keys \ {count} : SetCharge[k] = 0
  BY <1>2 DEF SetCharge
<1>4. Used(count) = sets
  BY DEF Used
<1> HIDE DEF q, count
<1>5. (\E k \in Keys : q.hard[k] # Absent /\ SetCharge[k] > 0 /\ Used(k) + SetCharge[k] > q.hard[k])
        <=> h # Absent /\ sets + 1 > h
  BY <1>2, <1>3, <1>4
<1>6. (\A k \in Keys : q.hard[k] = Absent \/ SetCharge[k] = 0) <=> h = Absent
  BY <1>2, <1>3
<1>7. h # Absent => (sets >= h <=> sets + 1 > h) /\ (sets < h <=> ~(sets + 1 > h))
  <2> HIDE DEF h
  <2> QED
    BY <1>1, <1>2
<1>8. /\ h # Absent /\ q.reported /\ sets >= h => Outcome(q, SetCharge) = "exceeded"
      /\ h = Absent \/ (q.reported /\ sets < h) => Outcome(q, SetCharge) = "admitted"
  <2> HIDE DEF h
  <2> QED
    BY <1>5, <1>6, <1>7 DEF Outcome
<1> QED
  BY <1>8 DEF q, count

(***************************************************************************)
(* What the checks say                                                     *)
(***************************************************************************)

CountKey == "count/replicasets.apps"

\* Why what is accused does not happen: a quota that has a status is in the way.
AccusedForGood ==
    /\ Verdict("quota-headroom", "HIGH") =>
           charged < replicas + Surge /\ Walled(replicas + Surge)
    /\ Verdict("hpa-quota-headroom", "MEDIUM") => charged < hpaMax /\ Walled(hpaMax)
    /\ Verdict("quota-object-count", "HIGH") =>
           /\ \E i \in DOMAIN quotas :
                /\ quotas[i].reported /\ ~quotas[i].scoped
                /\ quotas[i].hard[CountKey] # Absent /\ sets >= quotas[i].hard[CountKey]
           /\ change = "new" => ~new.exists

\* Why no ReplicaSet is refused: there was room for the one that is still to come.
SetsFit ==
    Verdict("quota-object-count", "none") =>
        /\ cond \notin {"createExceeded", "createUnknown"}
        /\ ~new.exists =>
               \A i \in DOMAIN quotas :
                   \/ quotas[i].scoped \/ quotas[i].hard[CountKey] = Absent
                   \/ quotas[i].reported /\ sets < quotas[i].hard[CountKey]

\* Why no Pod of the autoscaler is refused: there is none to come, or room for all.
GrowthFits ==
    Verdict("hpa-quota-headroom", "none") /\ change = "none" =>
        /\ \A e \in events : e.about # "old"
        /\ \/ hpaMax <= replicas /\ old.pods = replicas
           \/ replicas <= hpaMax /\ Roomy(hpaMax)

\* A full quota admits no Pod more.
LEMMA WalledRefuses ==
    ASSUME TypeOK, Walled(charged + 1)
    PROVE  ~(PodOutcomes \subseteq {"admitted"})
<1>1. PICK i \in DOMAIN quotas :
        quotas[i].reported /\ \E k \in PodKeys : Bound(quotas[i], k, charged + 1)
  BY DEF Walled
<1>2. Outcome(quotas[i], PodCharge) = "exceeded"
  BY <1>1, PodAdmission
<1> QED
  BY <1>1, <1>2 DEF PodOutcomes

\* What holds n Pods admits the next one until there are n.
LEMMA RoomyAdmits ==
    ASSUME TypeOK, NEW n \in Nat, Roomy(n), charged + 1 <= n
    PROVE  PodOutcomes \subseteq {"admitted"}
<1>1. charged \in Nat
  BY DEF TypeOK
<1> SUFFICES ASSUME NEW i \in DOMAIN quotas
             PROVE  Outcome(quotas[i], PodCharge) = "admitted"
  BY DEF PodOutcomes
<1>2. quotas[i].reported /\ \A k \in PodKeys : ~Bound(quotas[i], k, n)
  BY DEF Roomy
<1>3. ASSUME NEW k \in PodKeys
      PROVE  ~Bound(quotas[i], k, charged + 1)
  <2> DEFINE h == quotas[i].hard[k]
             u == PodUse(k)
  <2>1. u \in Nat /\ h \in Nat \cup {Absent}
    BY PodUses DEF PodKeys, Keys, TypeOK, IsQuota
  <2>2. h # Absent /\ u > 0 => ~(h < u * n)
    BY <1>2 DEF Bound
  <2> HIDE DEF u, h
  <2>3. u * (charged + 1) <= u * n
    <3>1. PICK d \in Nat : n = charged + 1 + d
      <4>1. n - (charged + 1) \in Nat
        BY <1>1
      <4>2. n = charged + 1 + (n - (charged + 1))
        BY <1>1
      <4> QED
        BY <4>1, <4>2
    <3>2. u * n = u * (charged + 1) + u * d /\ u * d \in Nat /\ u * (charged + 1) \in Nat
      BY <1>1, <2>1, <3>1
    <3> QED
      BY <3>2
  <2> DEFINE a == u * (charged + 1)
             b == u * n
  <2>4. a \in Nat /\ b \in Nat
    BY <1>1, <2>1
  <2>5. h # Absent /\ u > 0 => ~(h < a)
    <3>1. a <= b /\ (h # Absent /\ u > 0 => ~(h < b))
      BY <2>2, <2>3
    <3> HIDE DEF a, b
    <3> QED
      BY <2>1, <2>4, <3>1
  <2> QED
    BY <2>5 DEF Bound, h, u
<1> QED
  BY <1>2, <1>3, PodAdmission

\* The quota controller changes no limit and takes no status away.
LEMMA SyncKeeps ==
    ASSUME TypeOK, SyncQuota
    PROVE  /\ DOMAIN quotas' = DOMAIN quotas
           /\ \A i \in DOMAIN quotas : /\ quotas'[i].hard = quotas[i].hard /\ quotas'[i].reported
                                       /\ quotas'[i].scoped = quotas[i].scoped
           /\ \A n : (Walled(n) => Walled(n)') /\ (Roomy(n) => Roomy(n)')
<1>1. DOMAIN quotas' = DOMAIN quotas
  BY DEF SyncQuota
<1>2. \A i \in DOMAIN quotas : /\ quotas'[i].hard = quotas[i].hard /\ quotas'[i].reported
                               /\ quotas'[i].scoped = quotas[i].scoped
  <2> SUFFICES ASSUME NEW i \in DOMAIN quotas
               PROVE  /\ quotas'[i].hard = quotas[i].hard /\ quotas'[i].reported
                      /\ quotas'[i].scoped = quotas[i].scoped
    OBVIOUS
  <2>1. IsQuota(quotas[i]) /\ quotas'[i] = [quotas[i] EXCEPT !.reported = TRUE]
    BY DEF TypeOK, SyncQuota
  <2> QED
    BY <2>1 DEF IsQuota
<1>3. \A i \in DOMAIN quotas : \A k, n : Bound(quotas[i], k, n)' <=> Bound(quotas[i], k, n)
  BY <1>2 DEF Bound, PodUse
<1>4. \A n : (Walled(n) => Walled(n)') /\ (Roomy(n) => Roomy(n)')
  BY <1>1, <1>2, <1>3 DEF Walled, Roomy
<1> QED
  BY <1>1, <1>2, <1>4

\* The checks establish it; GrowthFits only if they look at the key that binds.
LEMMA ChecksEstablish ==
    ASSUME TypeOK, Shape, Check
    PROVE  /\ AccusedForGood' /\ SetsFit'
           /\ (\A i \in DOMAIN quotas : FirstKeyBinds(quotas[i])) => GrowthFits'
<1> DEFINE known == \A i \in DOMAIN quotas : quotas[i].reported
<1>1. /\ UNCHANGED cluster /\ change = "none" /\ charged = replicas /\ old.pods = replicas
      /\ events = {}
  BY DEF Check, AtRest
<1>2. /\ verdict'["quota-headroom"] = [severity |-> QuotaHeadroom, current |-> known]
      /\ verdict'["hpa-quota-headroom"] = [severity |-> HPAQuotaHeadroom, current |-> known]
      /\ verdict'["quota-object-count"] = [severity |-> QuotaObjectCount, current |-> known]
  BY DEF Check, Shape
<1>3. Surge \in Nat /\ replicas \in Nat /\ hpaMax \in Nat
  BY SurgeType, InstanceAssumption DEF TypeOK
<1>4. Verdict("quota-headroom", "HIGH")' =>
          charged < replicas + Surge /\ Walled(replicas + Surge)
  <2> SUFFICES ASSUME Verdict("quota-headroom", "HIGH")'
               PROVE  charged < replicas + Surge /\ Walled(replicas + Surge)
    OBVIOUS
  <2>1. known /\ QuotaHeadroom = "HIGH"
    BY <1>2 DEF Verdict
  <2>2. Surge > 0 /\ \E i \in DOMAIN quotas : Short(quotas[i], Surge)
    BY <2>1 DEF QuotaHeadroom
  <2>3. Walled(replicas + Surge)
    BY <1>1, <1>3, <2>1, <2>2, ShortMeans DEF Walled
  <2> QED
    BY <1>1, <1>3, <2>2, <2>3
<1>5. /\ Verdict("hpa-quota-headroom", "MEDIUM")' => charged < hpaMax /\ Walled(hpaMax)
      /\ (\A i \in DOMAIN quotas : FirstKeyBinds(quotas[i])) =>
             (Verdict("hpa-quota-headroom", "none")' =>
                 hpaMax <= replicas \/ (replicas <= hpaMax /\ Roomy(hpaMax)))
  <2> DEFINE additional == hpaMax - replicas
             short == \E i \in DOMAIN quotas : Short(quotas[i], additional)
  <2>1. HPAQuotaHeadroom = IF additional > 0 /\ short THEN "MEDIUM" ELSE "none"
    BY DEF HPAQuotaHeadroom
  <2>4. /\ Verdict("hpa-quota-headroom", "MEDIUM")' => known /\ HPAQuotaHeadroom = "MEDIUM"
        /\ Verdict("hpa-quota-headroom", "none")' => known /\ HPAQuotaHeadroom = "none"
    BY <1>2 DEF Verdict
  <2>2. CASE additional > 0
    <3>1. additional \in Nat /\ replicas + additional = hpaMax /\ replicas < hpaMax
      BY <1>3, <2>2
    <3>2. known /\ short => Walled(hpaMax)
      BY <1>1, <3>1, ShortMeans DEF Walled
    <3>3. known /\ ~short /\ (\A i \in DOMAIN quotas : FirstKeyBinds(quotas[i])) => Roomy(hpaMax)
      BY <1>1, <3>1, ShortMeans DEF Roomy
    <3> HIDE DEF additional, short, known
    <3> QED
      BY <1>1, <1>3, <2>1, <2>2, <2>4, <3>1, <3>2, <3>3
  <2>3. CASE ~(additional > 0)
    <3>1. hpaMax <= replicas
      BY <1>3, <2>3
    <3>2. HPAQuotaHeadroom = "none"
      BY <2>1, <2>3
    <3> QED
      BY <2>4, <3>1, <3>2
  <2> QED
    BY <2>2, <2>3
<1>6. Used(CountKey) = sets /\ sets \in Nat
  BY DEF Used, CountKey, TypeOK
<1>7. Verdict("quota-object-count", "HIGH")' =>
          \E i \in DOMAIN quotas :
              /\ quotas[i].reported /\ ~quotas[i].scoped
              /\ quotas[i].hard[CountKey] # Absent /\ sets >= quotas[i].hard[CountKey]
  BY <1>2, <1>6 DEF Verdict, QuotaObjectCount, CountKey
<1>8. Verdict("quota-object-count", "none")' =>
          \A i \in DOMAIN quotas :
              \/ quotas[i].scoped \/ quotas[i].hard[CountKey] = Absent
              \/ quotas[i].reported /\ sets < quotas[i].hard[CountKey]
  <2> SUFFICES ASSUME Verdict("quota-object-count", "none")', NEW i \in DOMAIN quotas,
                      ~quotas[i].scoped, quotas[i].hard[CountKey] # Absent
               PROVE  quotas[i].reported /\ sets < quotas[i].hard[CountKey]
    OBVIOUS
  <2>1. QuotaObjectCount = "none"
    BY <1>2 DEF Verdict
  <2>2. quotas[i].reported /\ ~(sets >= quotas[i].hard[CountKey])
    BY <1>6, <2>1 DEF QuotaObjectCount, CountKey
  <2>3. quotas[i].hard[CountKey] \in Nat
    BY DEF TypeOK, IsQuota, Keys, CountKey
  <2> QED
    BY <1>6, <2>2, <2>3
<1>9. cond = "available" /\ ~new.exists
  BY <1>1 DEF Shape, NoSet
<1>10. AccusedForGood'
  <2>1. /\ charged' = charged /\ hpaMax' = hpaMax /\ replicas' = replicas /\ Surge' = Surge
        /\ quotas' = quotas /\ sets' = sets /\ change' = "none"
        /\ \A n : Walled(n)' <=> Walled(n)
    BY <1>1 DEF cluster, Surge, SurgeOf, Walled, Bound, PodUse
  <2> QED
    BY <1>4, <1>5, <1>7, <2>1 DEF AccusedForGood
<1>11. SetsFit'
  BY <1>1, <1>8, <1>9 DEF SetsFit, cluster
<1>12. (\A i \in DOMAIN quotas : FirstKeyBinds(quotas[i])) => GrowthFits'
  <2>1. /\ hpaMax' = hpaMax /\ replicas' = replicas /\ old' = old /\ events' = {}
        /\ \A n : Roomy(n)' <=> Roomy(n)
    BY <1>1 DEF cluster, Roomy, Bound, PodUse
  <2> QED
    BY <1>1, <1>5, <2>1 DEF GrowthFits
<1> QED
  BY <1>10, <1>11, <1>12

\* What does not touch the quotas leaves what they hold; all but the check, the
\* autoscaler and the end of the quotas leave the verdicts.
LEMMA QuotaFrame ==
    ASSUME quotas' = quotas
    PROVE  \A n : (Walled(n)' <=> Walled(n)) /\ (Roomy(n)' <=> Roomy(n))
BY DEF Walled, Roomy, Bound, PodUse

LEMMA AccusedStep ==
    ASSUME TypeOK, Shape, AccusedForGood, [Next]_vars
    PROVE  AccusedForGood'
<1>0. /\ Surge \in Nat /\ charged \in Nat /\ replicas \in Nat /\ hpaMax \in Nat
      /\ old.pods \in Nat /\ new.pods \in Nat /\ doomed \in Nat /\ sets \in Nat
  BY SurgeType, InstanceAssumption DEF TypeOK, ReplicaSets
<1> DEFINE full(i) == /\ quotas[i].reported /\ ~quotas[i].scoped
                      /\ quotas[i].hard[CountKey] # Absent /\ sets >= quotas[i].hard[CountKey]
<1>1. CASE Check
  BY <1>1, ChecksEstablish
<1>2. ASSUME NEW to \in {"new", "old"}, StartRollout(to)
      PROVE  AccusedForGood'
  BY <1>2, QuotaFrame DEF StartRollout, AccusedForGood, Verdict, Surge, SurgeOf, NoSet
<1>3. CASE HpaScale
  <2>1. /\ verdict'["quota-headroom"].current = FALSE
        /\ verdict'["hpa-quota-headroom"] = verdict["hpa-quota-headroom"]
        /\ verdict'["quota-object-count"] = verdict["quota-object-count"]
    BY <1>3 DEF HpaScale, Shape, TypeOK
  <2> QED
    BY <1>3, <2>1, Resized, QuotaFrame DEF HpaScale, AccusedForGood, Verdict
<1>4. CASE LiftQuotas
  <2>1. \A c \in {"quota-headroom", "hpa-quota-headroom", "quota-object-count"} :
            verdict'[c].current = FALSE
    BY <1>4 DEF LiftQuotas, Shape, TypeOK
  <2> QED
    BY <2>1 DEF AccusedForGood, Verdict
<1>5. CASE CreateSet
  <2>1. ASSUME Verdict("quota-object-count", "HIGH")
        PROVE  ~(SetOutcomes \subseteq {"admitted"})
    <3>1. PICK i \in DOMAIN quotas : full(i)
      BY <2>1 DEF AccusedForGood
    <3>2. Outcome(quotas[i], SetCharge) = "exceeded"
      BY <3>1, SetAdmission DEF CountKey
    <3> QED
      BY <3>1, <3>2 DEF SetOutcomes
  <2>2. Verdict("quota-object-count", "HIGH") => new' = new /\ sets' = sets
    BY <1>5, <2>1 DEF CreateSet
  <2>3. /\ UNCHANGED <<strategy, hpaMax, replicas, change, quotas, charged, verdict>>
        /\ Surge' = Surge
    BY <1>5 DEF CreateSet, Surge, SurgeOf
  <2> QED
    BY <2>2, <2>3, QuotaFrame DEF AccusedForGood, Verdict
<1>6. CASE ScaleNew
  <2>1. change # "none" /\ new.exists /\ UNCHANGED <<quotas, verdict, charged, replicas, change, sets>>
        /\ Surge' = Surge /\ hpaMax' = hpaMax
    BY <1>6 DEF ScaleNew, Surge, SurgeOf
  <2> QED
    BY <2>1, QuotaFrame DEF AccusedForGood, Verdict
<1>7. CASE ScaleOld
  BY <1>7, QuotaFrame DEF ScaleOld, AccusedForGood, Verdict, Surge, SurgeOf
<1>8. ASSUME NEW s \in {"old", "new"}, CreatePod(s)
      PROVE  AccusedForGood'
  <2>1. /\ UNCHANGED <<strategy, hpaMax, replicas, change, quotas, sets, verdict>> /\ Surge' = Surge
        /\ new.exists' = new.exists
    BY <1>8 DEF CreatePod, Surge, SurgeOf, TypeOK, ReplicaSets
  <2>2. CASE charged' = charged
    BY <2>1, <2>2, QuotaFrame DEF AccusedForGood, Verdict
  <2>3. CASE charged' = charged + 1 /\ PodOutcomes \subseteq {"admitted"}
    <3>1. ASSUME NEW n \in Nat, charged < n, Walled(n)
          PROVE  charged + 1 < n
      BY <1>0, <2>3, <3>1, WalledRefuses
    <3>2. replicas + Surge \in Nat
      BY <1>0
    <3> QED
      BY <1>0, <2>1, <2>3, <3>1, <3>2, QuotaFrame DEF AccusedForGood, Verdict
  <2> QED
    BY <1>8, <2>2, <2>3 DEF CreatePod
<1>9. CASE DeletePod
  BY <1>9, QuotaFrame DEF DeletePod, AccusedForGood, Verdict, Surge, SurgeOf
<1>10. CASE PodGone
  BY <1>10, QuotaFrame DEF PodGone, AccusedForGood, Verdict, Surge, SurgeOf
<1>11. CASE BecomeReady
  <2>1. new.exists' = new.exists
    BY <1>11 DEF BecomeReady, TypeOK, ReplicaSets
  <2> QED
    BY <1>11, <2>1, QuotaFrame DEF BecomeReady, AccusedForGood, Verdict, Surge, SurgeOf
<1>12. CASE SyncQuota
  <2>1. UNCHANGED <<strategy, hpaMax, replicas, change, sets, new, verdict>> /\ Surge' = Surge
    BY <1>12 DEF SyncQuota, Surge, SurgeOf
  <2>2. charged' \in Nat /\ charged' <= charged
    BY <1>0, <1>12 DEF SyncQuota, Shape
  <2>3. \A i \in DOMAIN quotas : full(i) => i \in DOMAIN quotas' /\ full(i)'
    BY <1>12, <2>1, SyncKeeps
  <2>4. Verdict("quota-headroom", "HIGH") => charged' < replicas + Surge /\ Walled(replicas + Surge)'
    BY <1>0, <1>12, <2>1, <2>2, SyncKeeps DEF AccusedForGood
  <2>5. Verdict("hpa-quota-headroom", "MEDIUM") => charged' < hpaMax /\ Walled(hpaMax)'
    BY <1>0, <1>12, <2>1, <2>2, SyncKeeps DEF AccusedForGood
  <2> QED
    BY <2>1, <2>3, <2>4, <2>5 DEF AccusedForGood, Verdict
<1>13. CASE MissDeadline
  BY <1>13, QuotaFrame DEF MissDeadline, AccusedForGood, Verdict, Surge, SurgeOf
<1>14. CASE Expire
  BY <1>14, QuotaFrame DEF Expire, AccusedForGood, Verdict, Surge, SurgeOf
<1>15. CASE UNCHANGED vars
  BY <1>15, QuotaFrame DEF vars, AccusedForGood, Verdict, Surge, SurgeOf
<1> QED
  BY <1>1, <1>2, <1>3, <1>4, <1>5, <1>6, <1>7, <1>8, <1>9, <1>10, <1>11, <1>12, <1>13,
     <1>14, <1>15 DEF Next

LEMMA SetsStep ==
    ASSUME TypeOK, Shape, SetsFit, [Next]_vars
    PROVE  SetsFit'
<1>1. CASE Check
  BY <1>1, ChecksEstablish
<1>2. ASSUME NEW to \in {"new", "old"}, StartRollout(to)
      PROVE  SetsFit'
  BY <1>2 DEF StartRollout, SetsFit, Verdict, Shape, NoSet
<1>3. CASE HpaScale
  <2>1. verdict'["quota-object-count"] = verdict["quota-object-count"]
    BY <1>3 DEF HpaScale, Shape, TypeOK
  <2> QED
    BY <1>3, <2>1, Resized DEF HpaScale, SetsFit, Verdict
<1>4. CASE LiftQuotas
  <2>1. verdict'["quota-object-count"].current = FALSE
    BY <1>4 DEF LiftQuotas, Shape, TypeOK
  <2> QED
    BY <2>1 DEF SetsFit, Verdict
<1>5. CASE CreateSet
  <2>1. ASSUME Verdict("quota-object-count", "none")
        PROVE  SetOutcomes \subseteq {"admitted"}
    <3> SUFFICES ASSUME NEW i \in DOMAIN quotas, ~quotas[i].scoped
                 PROVE  Outcome(quotas[i], SetCharge) = "admitted"
      BY DEF SetOutcomes
    <3> QED
      BY <1>5, <2>1, SetAdmission DEF SetsFit, CreateSet, CountKey
  <2>2. SetOutcomes \subseteq {"admitted"} => new'.exists /\ cond' = "progressing"
    <3>1. NewSize(old.size, 0) \in Nat
      BY SizesType DEF TypeOK, ReplicaSets
    <3> QED
      BY <1>5, <3>1, Created DEF CreateSet
  <2> QED
    BY <1>5, <2>1, <2>2 DEF CreateSet, SetsFit, Verdict
<1>6. CASE ScaleNew
  BY <1>6 DEF ScaleNew, SetsFit, Verdict, TypeOK, ReplicaSets
<1>7. CASE ScaleOld
  BY <1>7 DEF ScaleOld, SetsFit, Verdict
<1>8. ASSUME NEW s \in {"old", "new"}, CreatePod(s)
      PROVE  SetsFit'
  <2>1. new.exists' = new.exists
    BY <1>8 DEF CreatePod, TypeOK, ReplicaSets
  <2> QED
    BY <1>8, <2>1 DEF CreatePod, SetsFit, Verdict
<1>9. CASE DeletePod
  BY <1>9 DEF DeletePod, SetsFit, Verdict
<1>10. CASE PodGone
  BY <1>10 DEF PodGone, SetsFit, Verdict
<1>11. CASE BecomeReady
  <2>1. new.exists' = new.exists
    BY <1>11 DEF BecomeReady, TypeOK, ReplicaSets
  <2> QED
    BY <1>11, <2>1 DEF BecomeReady, SetsFit, Verdict
<1>12. CASE SyncQuota
  <2>1. UNCHANGED <<cond, new, sets, verdict>>
    BY <1>12 DEF SyncQuota
  <2> QED
    BY <1>12, <2>1, SyncKeeps DEF SetsFit, Verdict
<1>13. CASE MissDeadline
  BY <1>13 DEF MissDeadline, SetsFit, Verdict
<1>14. CASE Expire
  BY <1>14 DEF Expire, SetsFit, Verdict
<1>15. CASE UNCHANGED vars
  BY <1>15 DEF vars, SetsFit, Verdict
<1> QED
  BY <1>1, <1>2, <1>3, <1>4, <1>5, <1>6, <1>7, <1>8, <1>9, <1>10, <1>11, <1>12, <1>13,
     <1>14, <1>15 DEF Next

FirstKeysBind == \A i \in DOMAIN quotas : FirstKeyBinds(quotas[i])

LEMMA FirstKeysStep ==
    ASSUME TypeOK, FirstKeysBind, [Next]_vars
    PROVE  FirstKeysBind'
<1>1. CASE quotas' = quotas
  BY <1>1 DEF FirstKeysBind, FirstKeyBinds
<1>2. CASE LiftQuotas
  BY <1>2 DEF LiftQuotas, FirstKeysBind
<1>3. CASE SyncQuota
  BY <1>3, SyncKeeps DEF FirstKeysBind, FirstKeyBinds
<1> QED
  BY <1>1, <1>2, <1>3 DEF Next, vars, Check, cluster, StartRollout, HpaScale, CreateSet, ScaleNew,
     ScaleOld, CreatePod, DeletePod, PodGone, BecomeReady, MissDeadline, Expire

LEMMA GrowthStep ==
    ASSUME TypeOK, Shape, FirstKeysBind, GrowthFits, [Next]_vars
    PROVE  GrowthFits'
<1>0. /\ replicas \in Nat /\ hpaMax \in Nat /\ charged \in Nat
      /\ old.pods \in Nat /\ old.size \in Nat
  BY InstanceAssumption DEF TypeOK, ReplicaSets
<1>1. CASE Check
  BY <1>1, ChecksEstablish DEF FirstKeysBind
<1>2. CASE change' # "none"
  BY <1>2 DEF GrowthFits
<1>3. CASE HpaScale
  <2>1. /\ verdict'["hpa-quota-headroom"] = verdict["hpa-quota-headroom"]
        /\ replicas < hpaMax /\ replicas' = replicas + 1 /\ UNCHANGED <<hpaMax, quotas, change, events>>
    BY <1>3 DEF HpaScale, Shape, TypeOK
  <2>2. ~(hpaMax <= replicas) /\ replicas' <= hpaMax'
    BY <1>0, <2>1
  <2> QED
    BY <2>1, <2>2, QuotaFrame DEF GrowthFits, Verdict
<1>4. CASE LiftQuotas
  <2>1. verdict'["hpa-quota-headroom"].current = FALSE
    BY <1>4 DEF LiftQuotas, Shape, TypeOK
  <2> QED
    BY <2>1 DEF GrowthFits, Verdict
<1>5. ASSUME NEW s \in {"old", "new"}, CreatePod(s), change' = "none"
      PROVE  GrowthFits'
  <2>1. /\ UNCHANGED <<hpaMax, replicas, quotas, verdict, change>> /\ change = "none"
    BY <1>5 DEF CreatePod
  <2>2. s = "old" /\ old.pods < replicas /\ charged = old.pods
    BY <1>5, <2>1 DEF CreatePod, Shape, NoSet
  <2>3. ASSUME Verdict("hpa-quota-headroom", "none")
        PROVE  replicas <= hpaMax /\ Roomy(hpaMax) /\ events' = events
    <3>1. replicas <= hpaMax /\ Roomy(hpaMax)
      BY <1>0, <2>1, <2>2, <2>3 DEF GrowthFits
    <3>2. PodOutcomes \subseteq {"admitted"}
      BY <1>0, <2>2, <3>1, RoomyAdmits
    <3> QED
      BY <1>5, <3>1, <3>2 DEF CreatePod
  <2> QED
    BY <2>1, <2>3, QuotaFrame DEF GrowthFits, Verdict
<1>6. CASE DeletePod /\ change' = "none"
  BY <1>0, <1>6 DEF DeletePod, Shape
<1>7. CASE SyncQuota
  BY <1>7, SyncKeeps DEF SyncQuota, GrowthFits, Verdict
<1>8. CASE Expire
  BY <1>8, QuotaFrame DEF Expire, GrowthFits, Verdict
<1>9. CASE UNCHANGED vars \/ PodGone
  BY <1>9, QuotaFrame DEF vars, PodGone, GrowthFits, Verdict
<1>10. ASSUME NEW to \in {"new", "old"}, StartRollout(to)
       PROVE  change' # "none"
  BY <1>10 DEF StartRollout
<1>11. ASSUME CreateSet \/ ScaleNew \/ ScaleOld \/ BecomeReady \/ MissDeadline
       PROVE  change' # "none"
  BY <1>0, <1>11 DEF CreateSet, ScaleNew, ScaleOld, BecomeReady, MissDeadline, Shape, NoSet
<1> QED
  BY <1>1, <1>2, <1>3, <1>4, <1>5, <1>6, <1>7, <1>8, <1>9, <1>10, <1>11 DEF Next

\* What is accused does not happen and no ReplicaSet is refused that was said to
\* have room: QuotaHeadroom.Run, QuotaObjectCount.Run and the MEDIUM of
\* HPAQuotaHeadroom.Run, whatever the quotas.
THEOREM AccusationsHold ==
    Spec => [](/\ AccusedNeverSurges /\ CountVerdictHolds
               /\ Verdict("hpa-quota-headroom", "MEDIUM") => old.pods + new.pods + doomed < hpaMax)
<1> DEFINE Inv == TypeOK /\ Shape /\ AccusedForGood /\ SetsFit
<1>1. Init => AccusedForGood /\ SetsFit
  BY DEF Init, AccusedForGood, SetsFit, Verdict
<1>2. TypeOK /\ Shape /\ AccusedForGood /\ SetsFit /\ [Next]_vars => AccusedForGood' /\ SetsFit'
  BY AccusedStep, SetsStep
<1>3. TypeOK /\ Shape /\ AccusedForGood /\ SetsFit =>
          /\ AccusedNeverSurges /\ CountVerdictHolds
          /\ Verdict("hpa-quota-headroom", "MEDIUM") => old.pods + new.pods + doomed < hpaMax
  <2> SUFFICES ASSUME TypeOK, Shape, AccusedForGood, SetsFit
               PROVE  /\ AccusedNeverSurges /\ CountVerdictHolds
                      /\ Verdict("hpa-quota-headroom", "MEDIUM") =>
                             old.pods + new.pods + doomed < hpaMax
    OBVIOUS
  <2>1. /\ Surge \in Nat /\ charged \in Nat /\ replicas \in Nat /\ hpaMax \in Nat
        /\ old.pods \in Nat /\ new.pods \in Nat /\ doomed \in Nat
    BY SurgeType, InstanceAssumption DEF TypeOK, ReplicaSets
  <2> QED
    BY <2>1 DEF AccusedForGood, SetsFit, Shape, AccusedNeverSurges, CountVerdictHolds
<1> QED
  BY <1>1, <1>2, <1>3, TypeAndShape, PTL DEF Spec

\* All three verdicts hold of the rollout that follows.  A silent HPAQuotaHeadroom.Run
\* is right only if no quota limits cpu below requests.cpu: headroom looks at the
\* first of the two keys it finds, the admission at both.
THEOREM ChecksAreTrue ==
    ASSUME \A l \in QuotaLists : \A i \in DOMAIN l : FirstKeyBinds(l[i])
    PROVE  Spec => []VerdictsHold
<1>1. Init => FirstKeysBind /\ GrowthFits
  BY DEF Init, FirstKeysBind, GrowthFits, Verdict
<1>2. TypeOK /\ Shape /\ FirstKeysBind /\ GrowthFits /\ [Next]_vars => FirstKeysBind' /\ GrowthFits'
  BY FirstKeysStep, GrowthStep
<1>3. ASSUME /\ AccusedNeverSurges /\ CountVerdictHolds
             /\ Verdict("hpa-quota-headroom", "MEDIUM") => old.pods + new.pods + doomed < hpaMax,
             GrowthFits
      PROVE  VerdictsHold
  BY <1>3 DEF GrowthFits, VerdictsHold, HpaVerdictHolds
<1> QED
  BY <1>1, <1>2, <1>3, TypeAndShape, AccusationsHold, PTL DEF Spec

=============================================================================
