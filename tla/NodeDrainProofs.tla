--------------------------- MODULE NodeDrainProofs ----------------------------
(***************************************************************************)
(* What the checks about nodes and budgets say holds on any number of      *)
(* nodes, for any workload, constraints and budgets.  Three invariants:    *)
(*   TypeInv    the types, which every other proof starts from;            *)
(*   BudgetInv  a budget that was accused has no room, so that none is     *)
(*              evicted;                                                   *)
(*   DrainInv   every Pod is on a node that can hold one (PlacedRight), a  *)
(*              report is an answer about nodes that stay cordoned until   *)
(*              one is uncordoned (Listed), and the rollout of a workload  *)
(*              with a HIGH is still where it began (Stuck).               *)
(* Pods are counted as sets of slots; that the zones of a constraint hold  *)
(* no more than their number times what each may hold is ZonesHold.        *)
(***************************************************************************)
EXTENDS NodeDrain, FiniteSetTheorems, WellFoundedInduction, TLAPS

-----------------------------------------------------------------------------
(* Counting Pods on nodes.                                                  *)

\* A slot is a node with the number of a Pod on it.
LEMMA SlotsAre ==
    ASSUME NEW p, NEW ns, NEW x
    PROVE  x \in Slots(p, ns) <=> \E n \in ns, i \in Int : i \in 1..p[n] /\ x = <<n, i>>
BY DEF Slots

LEMMA SlotsAreFinite ==
    ASSUME NEW ns, IsFiniteSet(ns), NEW p, \A n \in ns : p[n] \in Nat
    PROVE  IsFiniteSet(Slots(p, ns))
<1> DEFINE f == [n \in ns |-> {n} \X (1..p[n])]
           S == {{n} \X (1..p[n]) : n \in ns}
<1>1. f \in Surjection(ns, S)
  BY DEF Surjection
<1>2. IsFiniteSet(S)
  BY <1>1, FS_Surjection
<1>3. ASSUME NEW n \in ns
      PROVE  IsFiniteSet({n} \X (1..p[n]))
  <2>1. p[n] \in Nat
    OBVIOUS
  <2>2. IsFiniteSet({n}) /\ IsFiniteSet(1..p[n])
    <3>1. IsFiniteSet({n})
      BY FS_Singleton
    <3>2. IsFiniteSet(1..p[n])
      BY <2>1, FS_Interval
    <3> QED
      BY <3>1, <3>2
  <2>3. IsFiniteSet({n} \X (1..p[n]))
    <3> DEFINE a == {n}
               b == 1..p[n]
    <3>1. IsFiniteSet(a) /\ IsFiniteSet(b)
      BY <2>2
    <3> HIDE DEF a, b
    <3>2. IsFiniteSet(a \X b)
      BY <3>1, FS_Product
    <3> QED
      BY <3>2 DEF a, b
  <2> QED
    BY <2>3
<1>4. \A T \in S : IsFiniteSet(T)
  BY <1>3
<1>5. IsFiniteSet(UNION S)
  <2> HIDE DEF S
  <2> QED
    BY <1>2, <1>4, FS_UNION
<1> QED
  BY <1>5 DEF Slots

\* One Pod more is one slot more.
LEMMA SlotAdded ==
    ASSUME NEW ns, IsFiniteSet(ns), NEW n \in ns, NEW p, NEW q,
           \A m \in ns : p[m] \in Nat /\ q[m] = IF m = n THEN p[n] + 1 ELSE p[m]
    PROVE  Cardinality(Slots(q, ns)) = Cardinality(Slots(p, ns)) + 1
<1> DEFINE x == <<n, p[n] + 1>>
<1>0. /\ p[n] \in Nat /\ \A m \in ns : p[m] \in Nat
      /\ \A m \in ns : q[m] = IF m = n THEN p[n] + 1 ELSE p[m]
  OBVIOUS
<1>1. Slots(q, ns) = Slots(p, ns) \cup {x}
  <2>1. ASSUME NEW y \in Slots(q, ns)
        PROVE  y \in Slots(p, ns) \cup {x}
    <3>1. PICK m \in ns, i \in Int : i \in 1..q[m] /\ y = <<m, i>>
      BY SlotsAre
    <3>2. CASE m = n /\ i = p[n] + 1
      BY <3>1, <3>2
    <3>3. CASE ~(m = n /\ i = p[n] + 1)
      <4>1. i \in 1..p[m]
        BY <3>3, <3>1, <1>0
      <4> QED
        BY <4>1, <3>1, SlotsAre
    <3> QED
      BY <3>2, <3>3
  <2>2. ASSUME NEW y \in Slots(p, ns) \cup {x}
        PROVE  y \in Slots(q, ns)
    <3>1. CASE y = x
      <4>1. p[n] + 1 \in Int /\ p[n] + 1 \in 1..q[n]
        BY <1>0
      <4> QED
        BY <3>1, <4>1, SlotsAre
    <3>2. CASE y \in Slots(p, ns)
      <4>1. PICK m \in ns, i \in Int : i \in 1..p[m] /\ y = <<m, i>>
        BY <3>2, SlotsAre
      <4>2. i \in 1..q[m]
        BY <4>1, <1>0
      <4> QED
        BY <4>1, <4>2, SlotsAre
    <3> QED
      BY <3>1, <3>2
  <2> QED
    BY <2>1, <2>2
<1>2. x \notin Slots(p, ns)
  BY SlotsAre, <1>0
<1>3. IsFiniteSet(Slots(p, ns))
  BY SlotsAreFinite
<1> HIDE DEF x
<1> QED
  BY <1>1, <1>2, <1>3, FS_AddElement

LEMMA SlotRemoved ==
    ASSUME ScenariosAssumption, NEW p \in [Nodes -> Nat], NEW n \in Nodes, p[n] > 0
    PROVE  Cardinality(Slots([p EXCEPT ![n] = @ - 1], Nodes)) = Cardinality(Slots(p, Nodes)) - 1
<1> DEFINE q == [p EXCEPT ![n] = @ - 1]
<1>1. q \in [Nodes -> Nat] /\ p = [q EXCEPT ![n] = @ + 1]
  <2>1. q \in [Nodes -> Nat] /\ q[n] = p[n] - 1 /\ \A m \in Nodes : m # n => q[m] = p[m]
    OBVIOUS
  <2> HIDE DEF q
  <2>2. \A m \in Nodes : [q EXCEPT ![n] = @ + 1][m] = p[m]
    <3>1. p[n] \in Nat
      OBVIOUS
    <3> QED
      BY <2>1, <3>1
  <2> QED
    BY <2>1, <2>2
<1>2. Cardinality(Slots(p, Nodes)) = Cardinality(Slots(q, Nodes)) + 1
  <2>1. \A m \in Nodes : q[m] \in Nat /\ p[m] = IF m = n THEN q[n] + 1 ELSE q[m]
    <3> HIDE DEF q
    <3> QED
      BY <1>1
  <2> HIDE DEF q
  <2> QED
    BY <2>1, SlotAdded DEF ScenariosAssumption
<1>3. Cardinality(Slots(q, Nodes)) \in Nat
  BY <1>1, SlotsAreFinite, FS_CardinalityType DEF ScenariosAssumption
<1> QED
  BY <1>2, <1>3

LEMMA NoSlots ==
    ASSUME NEW ns, NEW p, \A n \in ns : p[n] = 0
    PROVE  Cardinality(Slots(p, ns)) = 0
<1>1. Slots(p, ns) = {}
  BY SlotsAre
<1> QED
  BY <1>1, FS_EmptySet

LEMMA SlotsOfPart ==
    ASSUME NEW ns, IsFiniteSet(ns), NEW p, \A n \in ns : p[n] \in Nat, NEW part \in SUBSET ns,
           NEW q, \A n \in part : q[n] \in Nat /\ q[n] <= p[n]
    PROVE  /\ Cardinality(Slots(q, part)) \in Nat
           /\ Cardinality(Slots(q, part)) <= Cardinality(Slots(p, ns))
<1>1. Slots(q, part) \subseteq Slots(p, ns)
  <2>1. ASSUME NEW x \in Slots(q, part)
        PROVE  x \in Slots(p, ns)
    <3>1. PICK n \in part, i \in Int : i \in 1..q[n] /\ x = <<n, i>>
      BY SlotsAre
    <3>2. n \in ns /\ i \in 1..p[n]
      BY <3>1
    <3> QED
      BY <3>1, <3>2, SlotsAre
  <2> QED
    BY <2>1
<1>2. IsFiniteSet(Slots(p, ns))
  BY SlotsAreFinite
<1> QED
  BY <1>1, <1>2, FS_Subset, FS_CardinalityType

\* Counting both revisions is counting each.
LEMMA SlotsOfBoth ==
    ASSUME ScenariosAssumption, NEW p \in [Nodes -> Nat], NEW q \in [Nodes -> Nat]
    PROVE  Cardinality(Slots([n \in Nodes |-> p[n] + q[n]], Nodes))
               = Cardinality(Slots(p, Nodes)) + Cardinality(Slots(q, Nodes))
<1> DEFINE r == [n \in Nodes |-> p[n] + q[n]]
           P == Slots(p, Nodes)
           Q == Slots(q, Nodes)
           R == Slots(r, Nodes)
           f == [x \in Q |-> <<x[1], p[x[1]] + x[2]>>]
           M == {f[x] : x \in Q}
<1>0. \A n \in Nodes : p[n] \in Nat /\ q[n] \in Nat /\ r[n] = p[n] + q[n]
  OBVIOUS
<1>1. IsFiniteSet(P) /\ IsFiniteSet(Q)
  BY SlotsAreFinite DEF ScenariosAssumption
<1> HIDE DEF r
<1>2. f \in Bijection(Q, M)
  <2>1. f \in Surjection(Q, M)
    BY DEF Surjection
  <2>2. ASSUME NEW x \in Q, NEW y \in Q, f[x] = f[y]
        PROVE  x = y
    <3>1. PICK n \in Nodes, i \in Int : i \in 1..q[n] /\ x = <<n, i>>
      BY SlotsAre
    <3>2. PICK m \in Nodes, j \in Int : j \in 1..q[m] /\ y = <<m, j>>
      BY SlotsAre
    <3>3. <<n, p[n] + i>> = <<m, p[m] + j>>
      BY <3>1, <3>2, <2>2
    <3>4. n = m /\ p[n] \in Nat
      BY <3>3
    <3>5. i = j
      BY <3>3, <3>4
    <3> QED
      BY <3>1, <3>2, <3>4, <3>5
  <2> QED
    BY <2>1, <2>2 DEF Bijection, Injection, Surjection, IsInjective
<1>3. IsFiniteSet(M) /\ Cardinality(M) = Cardinality(Q)
  BY <1>1, <1>2, FS_Bijection DEF ExistsBijection
<1>4. P \cap M = {}
  <2>1. ASSUME NEW y \in M, y \in P
        PROVE  FALSE
    <3>1. PICK x \in Q : y = <<x[1], p[x[1]] + x[2]>>
      OBVIOUS
    <3>2. PICK n \in Nodes, i \in Int : i \in 1..q[n] /\ x = <<n, i>>
      BY SlotsAre
    <3>3. PICK m \in Nodes, j \in Int : j \in 1..p[m] /\ y = <<m, j>>
      BY <2>1, SlotsAre
    <3>4. m = n /\ j = p[n] + i
      BY <3>1, <3>2, <3>3
    <3> QED
      BY <3>4, <3>2, <3>3
  <2> QED
    BY <2>1
<1>5. R = P \cup M
  <2>1. ASSUME NEW y \in R
        PROVE  y \in P \cup M
    <3>1. PICK n \in Nodes, i \in Int : i \in 1..r[n] /\ y = <<n, i>>
      BY SlotsAre
    <3>2. CASE i <= p[n]
      <4>1. i \in 1..p[n]
        BY <3>2, <3>1, <1>0
      <4> QED
        BY <3>1, <4>1, SlotsAre
    <3>3. CASE ~(i <= p[n])
      <4>1. i - p[n] \in 1..q[n] /\ p[n] + (i - p[n]) = i
        BY <3>3, <3>1, <1>0
      <4>2. <<n, i - p[n]>> \in Q
        BY <4>1, SlotsAre
      <4>3. f[<<n, i - p[n]>>] = y
        BY <4>1, <4>2, <3>1
      <4> QED
        BY <4>2, <4>3
    <3> QED
      BY <3>2, <3>3
  <2>2. ASSUME NEW y \in P
        PROVE  y \in R
    <3>1. PICK n \in Nodes, i \in Int : i \in 1..p[n] /\ y = <<n, i>>
      BY <2>2, SlotsAre
    <3>2. i \in 1..r[n]
      BY <3>1, <1>0
    <3> QED
      BY <3>1, <3>2, SlotsAre
  <2>3. ASSUME NEW y \in M
        PROVE  y \in R
    <3>1. PICK x \in Q : y = <<x[1], p[x[1]] + x[2]>>
      OBVIOUS
    <3>2. PICK n \in Nodes, i \in Int : i \in 1..q[n] /\ x = <<n, i>>
      BY SlotsAre
    <3>3. p[n] + i \in 1..r[n]
      BY <3>2, <3>1, <1>0
    <3> QED
      BY <3>1, <3>2, <3>3, SlotsAre
  <2> QED
    BY <2>1, <2>2, <2>3
<1>6. Cardinality(P) \in Nat /\ Cardinality(Q) \in Nat
  BY <1>1, FS_CardinalityType
<1> HIDE DEF P, Q, R, M, f
<1>7. Cardinality(R) = Cardinality(P) + Cardinality(M) - Cardinality({})
  BY <1>5, <1>4, <1>3, <1>1, FS_Union
<1> QED
  BY <1>7, <1>3, <1>6, FS_EmptySet DEF P, Q, R, r

ZonesOf(zone, ns) == {zone[n] : n \in ns}
Sharing(zone, ns, z) == {n \in ns : zone[n] = z}

\* Where no zone holds more than k Pods, all of them hold no more than k each.
LEMMA ZonesHold ==
    ASSUME ScenariosAssumption, NEW ns \in SUBSET Nodes, NEW p, NEW k \in Nat,
           \A n \in ns : p[n] \in Nat,
           NEW zone,
           \A n \in ns : Cardinality(Slots(p, Sharing(zone, ns, zone[n]))) <= k
    PROVE  /\ IsFiniteSet(ZonesOf(zone, ns))
           /\ Cardinality(Slots(p, ns)) <= Cardinality(ZonesOf(zone, ns)) * k
<1> USE DEF ZonesOf, Sharing
<1> DEFINE Z == {zone[n] : n \in ns}
           In(z) == Slots(p, {m \in ns : zone[m] = z})
           number == [z \in Z |-> CHOOSE g : g \in Injection(In(z), 1..k)]
           f == [x \in Slots(p, ns) |-> <<zone[x[1]], number[zone[x[1]]][x]>>]
           Z1 == [n \in ns |-> zone[n]]
<1>1. IsFiniteSet(ns)
  BY FS_Subset DEF ScenariosAssumption
<1>2. IsFiniteSet(Z)
  <2>1. Z1 \in Surjection(ns, Z)
    BY DEF Surjection
  <2> QED
    BY <1>1, <2>1, FS_Surjection
<1>3. ASSUME NEW z \in Z
      PROVE  number[z] \in Injection(In(z), 1..k)
  <2>1. IsFiniteSet(In(z)) /\ Cardinality(In(z)) \in Nat /\ Cardinality(In(z)) <= k
    <3>1. IsFiniteSet({m \in ns : zone[m] = z})
      BY <1>1, FS_Subset
    <3>2. IsFiniteSet(In(z))
      BY <3>1, SlotsAreFinite
    <3> QED
      BY <3>2, FS_CardinalityType
  <2>2. IsFiniteSet(1..k) /\ Cardinality(1..k) = k
    BY FS_Interval
  <2>3. PICK b : b \in Bijection(1..Cardinality(In(z)), In(z))
    BY <2>1, FS_CardinalityType DEF ExistsBijection
  <2> DEFINE c == Cardinality(In(z))
             g == [x \in In(z) |-> CHOOSE i \in 1..c : b[i] = x]
  <2>4. g \in Injection(In(z), 1..k)
    <3>1. \A x \in In(z) : g[x] \in 1..c /\ b[g[x]] = x
      <4> HIDE DEF In, c
      <4> QED
        BY <2>3 DEF Bijection, Surjection, c
    <3>2. \A i \in 1..c : i \in 1..k
      BY <2>1
    <3> HIDE DEF In, c
    <3>3. g \in [In(z) -> 1..k]
      BY <3>1, <3>2
    <3>4. \A x, y \in In(z) : g[x] = g[y] => x = y
      BY <3>1
    <3> QED
      BY <3>3, <3>4 DEF Injection, IsInjective
  <2> HIDE DEF g
  <2> QED
    BY <2>4
<1>4. f \in Injection(Slots(p, ns), Z \X (1..k))
  <2>1. ASSUME NEW x \in Slots(p, ns)
        PROVE  zone[x[1]] \in Z /\ x \in In(zone[x[1]])
    <3>1. PICK n \in ns, i \in Int : i \in 1..p[n] /\ x = <<n, i>>
      BY SlotsAre
    <3>2. n \in {m \in ns : zone[m] = zone[n]} /\ x[1] = n
      BY <3>1
    <3> QED
      BY <3>1, <3>2, SlotsAre
  <2> HIDE DEF In, number
  <2>2. \A x \in Slots(p, ns) : number[zone[x[1]]][x] \in 1..k
    BY <2>1, <1>3 DEF Injection
  <2>3. f \in [Slots(p, ns) -> Z \X (1..k)]
    BY <2>1, <2>2
  <2>4. ASSUME NEW x \in Slots(p, ns), NEW y \in Slots(p, ns), f[x] = f[y]
        PROVE  x = y
    <3>1. zone[x[1]] = zone[y[1]] /\ number[zone[x[1]]][x] = number[zone[y[1]]][y]
      BY <2>4
    <3> HIDE DEF f
    <3> QED
      BY <3>1, <2>1, <1>3 DEF Injection, IsInjective
  <2> QED
    BY <2>3, <2>4 DEF Injection, IsInjective
<1>5. IsFiniteSet(1..k) /\ Cardinality(1..k) = k
  BY FS_Interval
<1> HIDE DEF Z, f, number
<1>6. IsFiniteSet(Z \X (1..k)) /\ Cardinality(Z \X (1..k)) = Cardinality(Z) * k
  BY <1>2, <1>5, FS_Product
<1>7. Cardinality(Slots(p, ns)) <= Cardinality(Z) * k
  BY <1>4, <1>6, FS_Injection
<1> QED
  BY <1>2, <1>7 DEF Z

-----------------------------------------------------------------------------
(* Types.                                                                   *)

Causes == {"noHeadroom", "recreate", "noBudget", "unverifiable", "several", "notNow", "spread",
           "dead", "antiAffinity", "noMatch", "cordoned", "tainted", "capacity"}
Results == [skipped : BOOLEAN, findings : SUBSET [severity : Severities, cause : Causes]]
Statuses == [observed : BOOLEAN, allowed : Nat, disrupted : BOOLEAN, syncFailed : BOOLEAN]

Setting == DOMAIN nodes = Nodes /\ (\A n \in Nodes : IsNode(nodes[n])) /\ IsWorkload(w)

\* Before the rollout there is no Pod of the new template.
Counts ==
    /\ placed \in [Revisions -> [Nodes -> Nat]] /\ pending \in [Revisions -> Nat]
    /\ rolling \in BOOLEAN
    /\ ~rolling => pending["new"] = 0 /\ \A n \in Nodes : placed["new"][n] = 0

Reports ==
    /\ stage \in {0, 2, 3, 4, 5, 6}
    /\ report \in [Checks -> Results]
    /\ \A c \in Checks : report[c].skipped => report[c].findings = {}
    /\ report["daemonset"].findings # {} => w.kind = "DaemonSet"
    /\ Done("scheduling") /\ w.kind = "DaemonSet" => report["scheduling"].skipped

TypeInv == TypeOK /\ Setting /\ Counts /\ Reports /\ status \in Statuses

LEMMA OrderIs ==
    /\ (CHOOSE i \in DOMAIN Order : Order[i] = "daemonset") = 2
    /\ (CHOOSE i \in DOMAIN Order : Order[i] = "eviction") = 3
    /\ (CHOOSE i \in DOMAIN Order : Order[i] = "scheduling") = 4
    /\ (CHOOSE i \in DOMAIN Order : Order[i] = "capacity") = 5
<1>1. /\ DOMAIN Order = 1..5 /\ Order[1] = "pdb" /\ Order[2] = "daemonset" /\ Order[3] = "eviction"
      /\ Order[4] = "scheduling" /\ Order[5] = "capacity"
  BY DEF Order
<1>2. ASSUME NEW k \in 1..5, NEW c, Order[k] = c, \A i \in 1..5 : Order[i] = c => i = k
      PROVE  (CHOOSE i \in DOMAIN Order : Order[i] = c) = k
  BY <1>1, <1>2
<1>3. (CHOOSE i \in DOMAIN Order : Order[i] = "daemonset") = 2
  BY <1>1, <1>2
<1>4. (CHOOSE i \in DOMAIN Order : Order[i] = "eviction") = 3
  BY <1>1, <1>2
<1>5. (CHOOSE i \in DOMAIN Order : Order[i] = "scheduling") = 4
  BY <1>1, <1>2
<1>6. (CHOOSE i \in DOMAIN Order : Order[i] = "capacity") = 5
  BY <1>1, <1>2
<1> QED
  BY <1>3, <1>4, <1>5, <1>6

\* Which checks have run, before and after a step.
LEMMA DoneIs ==
    /\ (Done("daemonset") <=> stage > 2) /\ (Done("daemonset")' <=> stage' > 2)
    /\ (Done("eviction") <=> stage > 3) /\ (Done("eviction")' <=> stage' > 3)
    /\ (Done("scheduling") <=> stage > 4) /\ (Done("scheduling")' <=> stage' > 4)
    /\ (Done("capacity") <=> stage > 5) /\ (Done("capacity")' <=> stage' > 5)
BY OrderIs DEF Done

LEMMA BoundIsNatural ==
    ASSUME Counts
    PROVE  /\ Bound("old") \in Nat /\ Bound("new") \in Nat
           /\ pending["old"] \in Nat /\ pending["new"] \in Nat
<1>1. \A rev \in Revisions : Bound(rev) \in Nat /\ pending[rev] \in Nat
  <2> TAKE rev \in Revisions
  <2>1. \A n \in Nodes : placed[rev][n] \in Nat
    BY DEF Counts
  <2>2. IsFiniteSet(Slots(placed[rev], Nodes))
    BY <2>1, SlotsAreFinite, ScenariosAssumption
  <2> QED
    BY <2>2, FS_CardinalityType DEF Bound, Counts
<1> QED
  BY <1>1 DEF Revisions

LEMMA MaxZero ==
    ASSUME NEW x \in Int
    PROVE  Max({0, x}) = IF x > 0 THEN x ELSE 0
<1> DEFINE m == IF x > 0 THEN x ELSE 0
<1>1. m \in {0, x} /\ \A y \in {0, x} : m >= y
  OBVIOUS
<1>2. Max({0, x}) \in {0, x} /\ \A y \in {0, x} : Max({0, x}) >= y
  BY <1>1 DEF Max
<1> QED
  BY <1>2

\* What a budget comes to.
LEMMA BudgetIs ==
    ASSUME IsWorkload(w), NEW b \in Budgets(w)
    PROVE  /\ b.minAvailable # Unset => ScaledUp(b.minAvailable, w.replicas) \in Nat
           /\ b.maxUnavailable # Unset => ScaledUp(b.maxUnavailable, w.replicas) \in Nat
           /\ AllowedDisruptions(b, w.replicas) \in Nat \cup {Unset}
           /\ ~Empty(b) => /\ DesiredHealthy(b) \in Nat
                           /\ AllowedDisruptions(b, w.replicas) = 0 => DesiredHealthy(b) >= w.replicas
<1>1. w.replicas \in Nat /\ IsBudget(b)
  BY DEF IsWorkload, Budgets
<1>2. ASSUME NEW v, IsIntOrPercent(v)
      PROVE  ScaledUp(v, w.replicas) \in Nat
  <2>1. v.percent \in BOOLEAN /\ v.value \in Nat
    BY <1>2 DEF IsIntOrPercent
  <2>2. v.value * w.replicas \in Nat
    BY <2>1, <1>1
  <2> QED
    BY <2>1, <2>2 DEF ScaledUp
<1>3. /\ b.minAvailable = Unset \/ IsIntOrPercent(b.minAvailable)
      /\ b.maxUnavailable = Unset \/ IsIntOrPercent(b.maxUnavailable)
  BY <1>1 DEF IsBudget
<1> DEFINE least == ScaledUp(b.minAvailable, w.replicas)
           most == ScaledUp(b.maxUnavailable, w.replicas)
<1>4. (b.minAvailable # Unset => least \in Nat) /\ (b.maxUnavailable # Unset => most \in Nat)
  BY <1>2, <1>3
<1>5. /\ AllowedDisruptions(b, w.replicas) =
             IF b.minAvailable # Unset THEN Max({0, w.replicas - least})
             ELSE IF b.maxUnavailable # Unset THEN most ELSE Unset
      /\ DesiredHealthy(b) = IF b.minAvailable # Unset THEN least ELSE Max({0, w.replicas - most})
  BY DEF AllowedDisruptions, DesiredHealthy
<1> HIDE DEF least, most
<1>6. CASE b.minAvailable # Unset
  <2>1. Max({0, w.replicas - least}) = IF w.replicas - least > 0 THEN w.replicas - least ELSE 0
    BY <1>1, <1>4, <1>6, MaxZero
  <2> QED
    BY <2>1, <1>1, <1>4, <1>5, <1>6 DEF least, most
<1>7. CASE b.minAvailable = Unset /\ b.maxUnavailable # Unset
  <2>1. Max({0, w.replicas - most}) = IF w.replicas - most > 0 THEN w.replicas - most ELSE 0
    BY <1>1, <1>4, <1>7, MaxZero
  <2> QED
    BY <2>1, <1>1, <1>4, <1>5, <1>7 DEF least, most
<1>8. CASE b.minAvailable = Unset /\ b.maxUnavailable = Unset
  BY <1>5, <1>8 DEF Empty
<1> QED
  BY <1>6, <1>7, <1>8

\* Every check answers with a Result.
LEMMA ChecksAnswer ==
    ASSUME TypeInv
    PROVE  /\ \A r \in {PDBConsistency(w), PDBDaemonsetScale(w, status.syncFailed),
                        PDBEvictionBlocked(w, status, complete),
                        SchedulingConstraintsFeasibility(nodes, cordoned, w),
                        NodeCapacityFeasibility(nodes, cordoned, w)} :
                  r \in Results /\ (r.skipped => r.findings = {})
           /\ PDBDaemonsetScale(w, status.syncFailed).findings # {} => w.kind = "DaemonSet"
           /\ w.kind = "DaemonSet" => SchedulingConstraintsFeasibility(nodes, cordoned, w).skipped
<1> DEFINE Fs == [severity : Severities, cause : Causes]
<1>1. /\ Skip \in Results /\ Skip.skipped /\ Skip.findings = {}
      /\ \A fs \in SUBSET Fs : Found(fs) \in Results /\ Found(fs).findings = fs /\ ~Found(fs).skipped
      /\ Ok = Found({})
      /\ {} \in SUBSET Fs
      /\ \A sev \in Severities, c \in Causes : Finding(sev, c) \in Fs
  BY DEF Skip, Found, Results, Ok, Finding
<1>7. /\ Finding("high", "noHeadroom") \in Fs /\ Finding("high", "recreate") \in Fs
      /\ Finding("low", "noBudget") \in Fs /\ Finding("high", "unverifiable") \in Fs
      /\ Finding("medium", "unverifiable") \in Fs /\ Finding("high", "several") \in Fs
      /\ Finding("medium", "notNow") \in Fs /\ Finding("low", "dead") \in Fs
      /\ Finding("high", "noMatch") \in Fs /\ Finding("medium", "cordoned") \in Fs
      /\ Finding("high", "tainted") \in Fs /\ Finding("high", "capacity") \in Fs
      /\ \A c \in Causes : Finding("high", c) \in Fs /\ Finding("medium", c) \in Fs
  BY <1>1 DEF Severities, Causes
<1> HIDE DEF Fs
<1>2. PDBConsistency(w) \in Results /\ ~PDBConsistency(w).skipped
  <2> DEFINE allowed(b) == AllowedDisruptions(b, w.replicas)
             verdict(b) ==
                 IF allowed(b) = Unset THEN {}
                 ELSE IF allowed(b) = 0 THEN {Finding("high", "noHeadroom")}
                 ELSE IF w.recreate /\ allowed(b) < w.replicas THEN {Finding("high", "recreate")}
                 ELSE {}
  <2>1. \A b \in Budgets(w) : verdict(b) \subseteq Fs
    BY <1>1, <1>7
  <2>2. UNION {verdict(b) : b \in Budgets(w)} \subseteq Fs
    <3> HIDE DEF verdict
    <3> QED
      BY <2>1
  <2>3. {} \in SUBSET Fs /\ {Finding("low", "noBudget")} \in SUBSET Fs
    BY <1>1, <1>7
  <2>4. PDBConsistency(w) =
            IF w.replicas = 0 THEN Ok
            ELSE IF w.budgets = <<>> /\ w.replicas > 1 THEN Found({Finding("low", "noBudget")})
            ELSE Found(UNION {verdict(b) : b \in Budgets(w)})
    BY DEF PDBConsistency
  <2> HIDE DEF verdict
  <2> QED
    BY <1>1, <2>2, <2>3, <2>4
<1>3. /\ PDBDaemonsetScale(w, status.syncFailed) \in Results
      /\ ~PDBDaemonsetScale(w, status.syncFailed).skipped
      /\ PDBDaemonsetScale(w, status.syncFailed).findings # {} => w.kind = "DaemonSet"
  <2> DEFINE fs == {Finding(IF status.syncFailed THEN "high" ELSE "medium", "unverifiable") :
                    b \in {c \in Budgets(w) : Unverifiable(c)}}
  <2>1. fs \in SUBSET Fs /\ {} \in SUBSET Fs
    BY <1>1, <1>7
  <2>2. PDBDaemonsetScale(w, status.syncFailed) =
            IF w.kind # "DaemonSet" \/ w.replicas = 0 THEN Ok ELSE Found(fs)
    BY DEF PDBDaemonsetScale
  <2> HIDE DEF fs
  <2> QED
    BY <1>1, <2>1, <2>2
<1>4. /\ PDBEvictionBlocked(w, status, complete) \in Results
      /\ ~PDBEvictionBlocked(w, status, complete).skipped
  <2> DEFINE fs == {Finding("medium", "notNow") :
                b \in {c \in Budgets(w) :
                        /\ status.observed /\ status.allowed = 0 /\ ~status.disrupted /\ complete
                        /\ AllowedDisruptions(c, w.replicas) \notin {0, Unset}}}
  <2>1. fs \in SUBSET Fs /\ {} \in SUBSET Fs /\ {Finding("high", "several")} \in SUBSET Fs
    BY <1>1, <1>7
  <2>2. PDBEvictionBlocked(w, status, complete) =
            IF w.replicas = 0 THEN Ok
            ELSE IF Len(w.budgets) > 1 THEN Found({Finding("high", "several")}) ELSE Found(fs)
    BY DEF PDBEvictionBlocked
  <2> HIDE DEF fs
  <2> QED
    BY <1>1, <2>1, <2>2
<1>5. /\ SchedulingConstraintsFeasibility(nodes, cordoned, w) \in Results
      /\ LET r == SchedulingConstraintsFeasibility(nodes, cordoned, w)
         IN  /\ r.skipped => r.findings = {}
             /\ w.kind = "DaemonSet" => r.skipped
  <2>2. \A s \in w.spreads : EvaluateSpreadConstraint(nodes, cordoned, w, s) \in SUBSET Fs
    <3> TAKE s \in w.spreads
    <3> DEFINE live == Cardinality(Domains(nodes, Candidates(nodes, cordoned, w)))
               all == Cardinality(Domains(nodes, AllCandidates(nodes, w)))
    <3>1. EvaluateSpreadConstraint(nodes, cordoned, w, s) \in
              {{}, {Finding("low", "dead")},
               Demoted(SpreadInfeasible(live, s, w), SpreadInfeasible(all, s, w), "spread")}
      BY DEF EvaluateSpreadConstraint
    <3>2. Demoted(SpreadInfeasible(live, s, w), SpreadInfeasible(all, s, w), "spread") \in SUBSET Fs
      BY <1>1, <1>7 DEF Demoted, Causes
    <3> QED
      BY <3>1, <3>2, <1>1, <1>7
  <2>3. EvaluateAntiAffinityTerm(nodes, cordoned, w) \in SUBSET Fs
    BY <1>1, <1>7 DEF EvaluateAntiAffinityTerm, Demoted, Causes
  <2> DEFINE fs == (UNION {EvaluateSpreadConstraint(nodes, cordoned, w, s) : s \in w.spreads})
                   \cup (IF w.anti THEN EvaluateAntiAffinityTerm(nodes, cordoned, w) ELSE {})
  <2>4. fs \in SUBSET Fs
    <3>1. \A x \in UNION {EvaluateSpreadConstraint(nodes, cordoned, w, s) : s \in w.spreads} : x \in Fs
      BY <2>2
    <3>2. \A x \in EvaluateAntiAffinityTerm(nodes, cordoned, w) : x \in Fs
      BY <2>3
    <3>3. \A x \in IF w.anti THEN EvaluateAntiAffinityTerm(nodes, cordoned, w) ELSE {} : x \in Fs
      <4>1. CASE w.anti
        BY <4>1, <3>2
      <4>2. CASE ~w.anti
        BY <4>2
      <4> QED
        BY <4>1, <4>2
    <3> QED
      BY <3>1, <3>3
  <2>5. /\ {} \in SUBSET Fs /\ {Finding("high", "noMatch")} \in SUBSET Fs
        /\ {Finding("medium", "cordoned")} \in SUBSET Fs /\ {Finding("high", "tainted")} \in SUBSET Fs
    BY <1>1, <1>7
  <2> HIDE DEF fs
  <2>6. \/ SchedulingConstraintsFeasibility(nodes, cordoned, w) = Skip
        \/ /\ w.kind # "DaemonSet"
           /\ SchedulingConstraintsFeasibility(nodes, cordoned, w) \in
                  {Ok, Found({Finding("high", "noMatch")}), Found(fs),
                   Found({Finding("medium", "cordoned")}), Found({Finding("high", "tainted")})}
    BY DEF SchedulingConstraintsFeasibility, fs
  <2> QED
    BY <1>1, <2>4, <2>5, <2>6
<1>6. LET r == NodeCapacityFeasibility(nodes, cordoned, w)
      IN  r \in Results /\ (r.skipped => r.findings = {})
  <2>1. {} \in SUBSET Fs /\ {Finding("high", "capacity")} \in SUBSET Fs
    BY <1>1, <1>7
  <2>2. NodeCapacityFeasibility(nodes, cordoned, w) \in
            {Ok, Skip, Found({Finding("high", "capacity")})}
    BY DEF NodeCapacityFeasibility
  <2> QED
    BY <1>1, <2>1, <2>2
<1> QED
  BY <1>2, <1>3, <1>4, <1>5, <1>6

\* A Pod that comes to a node, or leaves it.
LEMMA PodComes ==
    ASSUME Counts, NEW rev \in Revisions, NEW n \in Nodes,
           placed' = [placed EXCEPT ![rev][n] = @ + 1]
    PROVE  /\ placed' \in [Revisions -> [Nodes -> Nat]]
           /\ placed'[rev] = [placed[rev] EXCEPT ![n] = @ + 1]
           /\ \A r \in Revisions \ {rev} : placed'[r] = placed[r] /\ Bound(r)' = Bound(r)
           /\ Bound(rev)' = Bound(rev) + 1
<1>1. placed[rev] \in [Nodes -> Nat] /\ DOMAIN placed = Revisions
  BY DEF Counts
<1>2. placed'[rev] = [placed[rev] EXCEPT ![n] = @ + 1] /\ \A r \in Revisions \ {rev} : placed'[r] = placed[r]
  BY <1>1
<1>3. placed'[rev] \in [Nodes -> Nat]
  BY <1>1, <1>2
<1>4. placed' \in [Revisions -> [Nodes -> Nat]]
  BY <1>1, <1>2, <1>3 DEF Counts
<1>5. Cardinality(Slots(placed'[rev], Nodes)) = Cardinality(Slots(placed[rev], Nodes)) + 1
  <2> DEFINE p == placed[rev]
             q == placed'[rev]
  <2>1. \A m \in Nodes : p[m] \in Nat /\ q[m] = IF m = n THEN p[n] + 1 ELSE p[m]
    BY <1>1, <1>2
  <2>2. IsFiniteSet(Nodes)
    BY ScenariosAssumption
  <2> HIDE DEF p, q
  <2>3. Cardinality(Slots(q, Nodes)) = Cardinality(Slots(p, Nodes)) + 1
    BY <2>1, <2>2, SlotAdded
  <2> QED
    BY <2>3 DEF p, q
<1> QED
  BY <1>2, <1>4, <1>5 DEF Bound

LEMMA PodLeaves ==
    ASSUME Counts, NEW rev \in Revisions, NEW n \in Nodes, placed[rev][n] > 0,
           placed' = [placed EXCEPT ![rev][n] = @ - 1]
    PROVE  /\ placed' \in [Revisions -> [Nodes -> Nat]]
           /\ placed'[rev] = [placed[rev] EXCEPT ![n] = @ - 1]
           /\ \A r \in Revisions \ {rev} : placed'[r] = placed[r] /\ Bound(r)' = Bound(r)
           /\ Bound(rev)' = Bound(rev) - 1
<1>1. placed[rev] \in [Nodes -> Nat] /\ DOMAIN placed = Revisions
  BY DEF Counts
<1>2. placed'[rev] = [placed[rev] EXCEPT ![n] = @ - 1] /\ \A r \in Revisions \ {rev} : placed'[r] = placed[r]
  BY <1>1
<1>3. placed'[rev] \in [Nodes -> Nat]
  BY <1>1, <1>2
<1>4. placed' \in [Revisions -> [Nodes -> Nat]]
  BY <1>1, <1>2, <1>3 DEF Counts
<1>5. Cardinality(Slots(placed'[rev], Nodes)) = Cardinality(Slots(placed[rev], Nodes)) - 1
  BY <1>1, <1>2, SlotRemoved, ScenariosAssumption
<1> QED
  BY <1>2, <1>4, <1>5 DEF Bound

LEMMA AllPodsAre == AllPods = (Bound("old") + pending["old"]) + (Bound("new") + pending["new"])
BY DEF AllPods, Total

LEMMA InitTypes == Init => TypeInv
<1> SUFFICES ASSUME Init PROVE TypeInv
  OBVIOUS
<1>1. PICK s \in Scenarios : nodes = s.nodes /\ cordoned = s.cordoned /\ w = s.workload
  BY DEF Init
<1>2. Setting /\ cordoned \subseteq Nodes
  BY <1>1, ScenariosAssumption DEF Setting
<1>3. w.replicas \in Nat /\ w.surge \in Nat /\ w.unavailable \in Nat
  BY <1>2 DEF Setting, IsWorkload
<1>4. Counts
  <2>1. placed \in [Revisions -> [Nodes -> Nat]] /\ \A r \in Revisions : \A n \in Nodes : placed[r][n] = 0
    BY DEF Init
  <2>2. pending \in [Revisions -> Nat] /\ pending["new"] = 0
    BY <1>3 DEF Init, Revisions
  <2> QED
    BY <2>1, <2>2 DEF Init, Counts, Revisions
<1>5. Bound("old") = 0 /\ Bound("new") = 0
  <2>1. \A r \in Revisions : \A n \in Nodes : placed[r][n] = 0
    BY DEF Init
  <2>2. \A r \in Revisions : Bound(r) = 0
    BY <2>1, NoSlots DEF Bound
  <2> QED
    BY <2>2 DEF Revisions
<1>6. pending["old"] = w.replicas /\ pending["new"] = 0
  BY DEF Init
<1>7. AllPods \in (w.replicas - w.unavailable)..(w.replicas + w.surge)
  BY <1>3, <1>5, <1>6, AllPodsAre
<1>8. Reports
  <2>1. \A c \in Checks : report[c] = Skip
    BY DEF Init
  <2>2. Skip \in Results /\ Skip.findings = {}
    BY DEF Skip, Results
  <2>3. report \in [Checks -> Results]
    <3>1. report = [check \in Checks |-> Skip]
      BY DEF Init
    <3> QED
      BY <2>2, <3>1
  <2>4. stage = 0 /\ ~Done("scheduling")
    <3>1. stage = 0
      BY DEF Init
    <3> QED
      BY <3>1, DoneIs
  <2> QED
    <3>1. /\ \A c \in Checks : report[c].skipped => report[c].findings = {}
          /\ report["daemonset"].findings = {}
      BY <2>1, <2>2 DEF Checks
    <3> QED
      BY <3>1, <2>3, <2>4 DEF Reports
<1>9. status \in Statuses
  BY DEF Init, Statuses
<1>10. TypeOK
  <2>1. drain = NoNode /\ operations \in 0..MaxOperations /\ stage \in 0..6
    BY ScenariosAssumption DEF Init
  <2>2. \A rev \in Revisions : pending[rev] \in Nat /\ \A n \in Nodes : placed[rev][n] \in Nat
    BY <1>4 DEF Counts
  <2>3. \A c \in Checks : /\ report[c].skipped => report[c].findings = {}
                          /\ \A f \in report[c].findings : f.severity \in Severities
    BY <1>8 DEF Reports, Results
  <2> QED
    BY <1>2, <1>7, <1>8, <2>1, <2>2, <2>3 DEF TypeOK, Reports
<1> QED
  BY <1>2, <1>4, <1>8, <1>9, <1>10 DEF TypeInv

\* TypeOK after a step, from its parts.
LEMMA TypesFollow ==
    ASSUME Setting', Counts', Reports', cordoned' \subseteq Nodes, operations' \in 0..MaxOperations,
           drain' \in Nodes \cup {NoNode}, drain' # NoNode => drain' \in cordoned',
           (AllPods \in (w.replicas - w.unavailable)..(w.replicas + w.surge))'
    PROVE  TypeOK'
<1>1. (\A rev \in Revisions : pending[rev] \in Nat /\ \A n \in Nodes : placed[rev][n] \in Nat)'
  BY DEF Counts
<1>2. (\A c \in Checks : /\ report[c].skipped => report[c].findings = {}
                         /\ \A f \in report[c].findings : f.severity \in Severities)'
  BY DEF Reports, Results
<1> QED
  BY <1>1, <1>2 DEF TypeOK, Reports

\* What the Pods do.
LEMMA PodsStayCounted ==
    ASSUME TypeInv,
           \/ \E rev \in Revisions, n \in Nodes : Schedule(rev, n)
           \/ \E rev \in Revisions : Evict(rev)
           \/ StartRollout \/ ScaleUpNew \/ ScaleDownOld
    PROVE  Counts' /\ (AllPods \in (w.replicas - w.unavailable)..(w.replicas + w.surge))'
<1>1. /\ w.replicas \in Nat /\ w.surge \in Nat /\ w.unavailable \in Nat /\ w' = w
      /\ Counts /\ AllPods \in (w.replicas - w.unavailable)..(w.replicas + w.surge)
      /\ Bound("old") \in Nat /\ Bound("new") \in Nat
      /\ pending["old"] \in Nat /\ pending["new"] \in Nat
      /\ pending \in [Revisions -> Nat] /\ placed \in [Revisions -> [Nodes -> Nat]]
  <2>1. w' = w
    BY DEF Schedule, Evict, StartRollout, ScaleUpNew, ScaleDownOld, clusterVars
  <2> QED
    BY <2>1, BoundIsNatural DEF TypeInv, TypeOK, Setting, IsWorkload, Counts
<1>2. /\ AllPods = (Bound("old") + pending["old"]) + (Bound("new") + pending["new"])
      /\ AllPods' = (Bound("old")' + pending'["old"]) + (Bound("new")' + pending'["new"])
  BY DEF AllPods, Total
<1>3. ASSUME NEW rev \in Revisions, NEW n \in Nodes, Schedule(rev, n)
      PROVE  Counts' /\ AllPods' = AllPods
  <2>1. /\ placed' = [placed EXCEPT ![rev][n] = @ + 1] /\ pending[rev] > 0
        /\ pending' = [pending EXCEPT ![rev] = @ - 1] /\ rolling' = rolling
    BY <1>3 DEF Schedule
  <2>2. /\ pending' \in [Revisions -> Nat] /\ pending'[rev] = pending[rev] - 1
        /\ \A r \in Revisions \ {rev} : pending'[r] = pending[r]
    BY <1>1, <2>1
  <2>3. /\ placed' \in [Revisions -> [Nodes -> Nat]]
        /\ \A r \in Revisions \ {rev} : placed'[r] = placed[r] /\ Bound(r)' = Bound(r)
        /\ Bound(rev)' = Bound(rev) + 1
    BY <1>1, <2>1, PodComes
  <2>4. CASE rev = "old"
    <3>1. "new" \in Revisions \ {rev}
      BY <2>4 DEF Revisions
    <3>2. pending'["new"] = pending["new"] /\ placed'["new"] = placed["new"] /\ Bound("new")' = Bound("new")
      BY <2>2, <2>3, <3>1
    <3>3. Counts'
      BY <1>1, <2>1, <2>2, <2>3, <3>2 DEF Counts
    <3> QED
      BY <3>2, <3>3, <2>4, <2>2, <2>3, <1>1, <1>2
  <2>5. CASE rev = "new"
    <3>1. "old" \in Revisions \ {rev}
      BY <2>5 DEF Revisions
    <3>2. pending'["old"] = pending["old"] /\ Bound("old")' = Bound("old")
      BY <2>2, <2>3, <3>1
    <3>3. rolling
      BY <1>1, <2>1, <2>5 DEF Counts
    <3>4. Counts'
      BY <1>1, <2>1, <2>2, <2>3, <3>3 DEF Counts
    <3> QED
      BY <3>2, <3>4, <2>5, <2>2, <2>3, <1>1, <1>2
  <2> QED
    BY <2>4, <2>5 DEF Revisions
<1>4. ASSUME NEW rev \in Revisions, Evict(rev)
      PROVE  Counts' /\ AllPods' = AllPods
  <2>1. /\ drain \in Nodes /\ placed[rev][drain] > 0
        /\ placed' = [placed EXCEPT ![rev][drain] = @ - 1]
        /\ pending' = [pending EXCEPT ![rev] = @ + 1] /\ rolling' = rolling
    BY <1>4 DEF Evict, TypeInv, TypeOK
  <2>2. /\ pending' \in [Revisions -> Nat] /\ pending'[rev] = pending[rev] + 1
        /\ \A r \in Revisions \ {rev} : pending'[r] = pending[r]
    BY <1>1, <2>1
  <2>3. /\ placed' \in [Revisions -> [Nodes -> Nat]]
        /\ \A r \in Revisions \ {rev} : placed'[r] = placed[r] /\ Bound(r)' = Bound(r)
        /\ Bound(rev)' = Bound(rev) - 1
    BY <1>1, <2>1, PodLeaves
  <2>4. CASE rev = "old"
    <3>1. "new" \in Revisions \ {rev}
      BY <2>4 DEF Revisions
    <3>2. pending'["new"] = pending["new"] /\ placed'["new"] = placed["new"] /\ Bound("new")' = Bound("new")
      BY <2>2, <2>3, <3>1
    <3>3. Counts'
      BY <1>1, <2>1, <2>2, <2>3, <3>2 DEF Counts
    <3> QED
      BY <3>2, <3>3, <2>4, <2>2, <2>3, <1>1, <1>2
  <2>5. CASE rev = "new"
    <3>1. "old" \in Revisions \ {rev}
      BY <2>5 DEF Revisions
    <3>2. pending'["old"] = pending["old"] /\ Bound("old")' = Bound("old")
      BY <2>2, <2>3, <3>1
    <3>3. rolling
      BY <1>1, <2>1, <2>5 DEF Counts
    <3>4. Counts'
      BY <1>1, <2>1, <2>2, <2>3, <3>3 DEF Counts
    <3> QED
      BY <3>2, <3>4, <2>5, <2>2, <2>3, <1>1, <1>2
  <2> QED
    BY <2>4, <2>5 DEF Revisions
<1>5. ASSUME StartRollout
      PROVE  Counts' /\ (AllPods' = AllPods \/ AllPods' = w.replicas)
  <2>1. ~rolling /\ rolling' = TRUE
    BY <1>5 DEF StartRollout
  <2>2. CASE w.recreate
    <3>1. /\ placed' = [placed EXCEPT !["old"] = [n \in Nodes |-> 0]]
          /\ pending' = [old |-> 0, new |-> w.replicas]
      BY <1>5, <2>2 DEF StartRollout
    <3>2. /\ placed' \in [Revisions -> [Nodes -> Nat]] /\ placed'["new"] = placed["new"]
          /\ \A n \in Nodes : placed'["old"][n] = 0
      BY <1>1, <3>1 DEF Revisions
    <3>3. /\ pending' \in [Revisions -> Nat] /\ pending'["old"] = 0 /\ pending'["new"] = w.replicas
      BY <1>1, <3>1 DEF Revisions
    <3>4. Bound("old")' = 0 /\ Bound("new")' = 0
      <4>1. \A n \in Nodes : placed'["new"][n] = 0
        BY <3>2, <2>1, <1>1 DEF Counts
      <4> QED
        BY <3>2, <4>1, NoSlots DEF Bound
    <3>5. Counts'
      BY <2>1, <3>2, <3>3 DEF Counts
    <3> QED
      BY <3>3, <3>4, <3>5, <1>1, <1>2
  <2>3. CASE ~w.recreate
    <3>1. placed' = placed /\ pending' = pending
      BY <1>5, <2>3 DEF StartRollout
    <3>2. Bound("old")' = Bound("old") /\ Bound("new")' = Bound("new")
      BY <3>1 DEF Bound
    <3> QED
      BY <2>1, <3>1, <3>2, <1>1, <1>2 DEF Counts
  <2> QED
    BY <2>2, <2>3
<1>6. ASSUME ScaleUpNew
      PROVE  Counts' /\ AllPods' = AllPods + 1 /\ AllPods < w.replicas + w.surge
  <2>1. /\ rolling /\ rolling' = rolling /\ placed' = placed /\ AllPods < w.replicas + w.surge
        /\ pending' = [pending EXCEPT !["new"] = @ + 1]
    BY <1>6 DEF ScaleUpNew
  <2>2. /\ pending' \in [Revisions -> Nat] /\ pending'["old"] = pending["old"]
        /\ pending'["new"] = pending["new"] + 1
    BY <1>1, <2>1 DEF Revisions
  <2>3. Bound("old")' = Bound("old") /\ Bound("new")' = Bound("new")
    BY <2>1 DEF Bound
  <2>4. Counts'
    BY <1>1, <2>1, <2>2 DEF Counts
  <2> QED
    BY <2>1, <2>2, <2>3, <2>4, <1>1, <1>2
<1>7. ASSUME ScaleDownOld
      PROVE  Counts' /\ AllPods' = AllPods - 1 /\ AllPods > w.replicas - w.unavailable
  <2>1. rolling /\ rolling' = rolling /\ AllPods - pending["new"] > w.replicas - w.unavailable
    BY <1>7 DEF ScaleDownOld
  <2>2. CASE pending["old"] > 0 /\ pending' = [pending EXCEPT !["old"] = @ - 1] /\ placed' = placed
    <3>1. /\ pending' \in [Revisions -> Nat] /\ pending'["old"] = pending["old"] - 1
          /\ pending'["new"] = pending["new"]
      BY <1>1, <2>2 DEF Revisions
    <3>2. Bound("old")' = Bound("old") /\ Bound("new")' = Bound("new")
      BY <2>2 DEF Bound
    <3>3. Counts'
      BY <1>1, <2>1, <2>2, <3>1 DEF Counts
    <3> QED
      BY <2>1, <3>1, <3>2, <3>3, <1>1, <1>2
  <2>3. CASE /\ pending' = pending
             /\ \E n \in Nodes : placed["old"][n] > 0 /\ placed' = [placed EXCEPT !["old"][n] = @ - 1]
    <3>1. PICK n \in Nodes : placed["old"][n] > 0 /\ placed' = [placed EXCEPT !["old"][n] = @ - 1]
      BY <2>3
    <3>2. "old" \in Revisions /\ "new" \in Revisions \ {"old"}
      BY DEF Revisions
    <3>3. /\ placed' \in [Revisions -> [Nodes -> Nat]]
          /\ Bound("new")' = Bound("new") /\ Bound("old")' = Bound("old") - 1
      BY <3>1, <3>2, <1>1, PodLeaves
    <3>4. pending' = pending /\ rolling' = TRUE
      <4>1. rolling = TRUE
        BY <2>1, <1>1 DEF Counts
      <4> QED
        BY <2>3, <4>1, <2>1
    <3>5. Counts'
      <4>1. pending' \in [Revisions -> Nat] /\ rolling' \in BOOLEAN
        BY <1>1, <3>4
      <4> QED
        BY <3>3, <3>4, <4>1 DEF Counts
    <3>6. pending'["old"] = pending["old"] /\ pending'["new"] = pending["new"]
      BY <3>4
    <3> QED
      <4>1. AllPods' = AllPods - 1
        <5>1. /\ Bound("old") \in Nat /\ Bound("new") \in Nat
              /\ pending["old"] \in Nat /\ pending["new"] \in Nat
          BY <1>1
        <5>2. AllPods' = (Bound("old") - 1 + pending["old"]) + (Bound("new") + pending["new"])
          <6>1. Bound("old")' = Bound("old") - 1 /\ Bound("new")' = Bound("new")
            BY <3>3
          <6> QED
            BY <6>1, <3>6, <1>2
        <5> QED
          BY <5>1, <5>2, <1>2
      <4>2. AllPods > w.replicas - w.unavailable
        BY <2>1, <1>1, <1>2
      <4> QED
        BY <3>5, <4>1, <4>2
  <2> QED
    BY <1>7, <2>2, <2>3 DEF ScaleDownOld
<1> HIDE DEF Counts
<1> QED
  BY <1>1, <1>2, <1>3, <1>4, <1>5, <1>6, <1>7

\* The disruption controller.
LEMMA SyncIs ==
    ASSUME TypeInv, SyncBudget
    PROVE  /\ status' \in Statuses
           /\ Len(w.budgets) = 1 /\ w.budgets[1] \in Budgets(w)
           /\ Budgets(w) = {w.budgets[1]}
           /\ w.kind = "DaemonSet" /\ Unverifiable(w.budgets[1]) => status'.allowed = 0
           /\ w.surge = 0 /\ AllowedDisruptions(w.budgets[1], w.replicas) = 0 => status'.allowed = 0
<1> DEFINE b == w.budgets[1]
           failed == w.kind = "DaemonSet" /\ Unverifiable(b)
           room == IF failed \/ Empty(b) THEN 0 ELSE Max({0, Available - DesiredHealthy(b)})
<1>1. Len(w.budgets) = 1 /\ DOMAIN w.budgets = 1..1
  BY DEF SyncBudget, TypeInv, Setting, IsWorkload
<1>2. b \in Budgets(w) /\ Budgets(w) = {b}
  BY <1>1 DEF Budgets
<1>3. status' = IF failed THEN [status EXCEPT !.syncFailed = TRUE, !.allowed = room]
                ELSE [observed |-> TRUE, disrupted |-> FALSE, syncFailed |-> FALSE, allowed |-> room]
  BY DEF SyncBudget
<1>4. /\ Available \in Nat /\ w.surge \in Nat /\ w.replicas \in Nat
      /\ w.surge = 0 => Available <= w.replicas
  <2>1. /\ Bound("old") \in Nat /\ Bound("new") \in Nat /\ w.replicas \in Nat /\ w.surge \in Nat
        /\ pending["old"] \in Nat /\ pending["new"] \in Nat
    BY BoundIsNatural DEF TypeInv, Setting, IsWorkload
  <2>2. AllPods <= w.replicas + w.surge
    BY <2>1 DEF TypeInv, TypeOK
  <2> QED
    BY <2>1, <2>2, AllPodsAre DEF Available
<1>5. /\ ~Empty(b) => DesiredHealthy(b) \in Nat
      /\ ~Empty(b) /\ AllowedDisruptions(b, w.replicas) = 0 => DesiredHealthy(b) >= w.replicas
  <2>1. IsWorkload(w)
    BY DEF TypeInv, Setting
  <2> HIDE DEF b
  <2> QED
    BY <1>2, <2>1, BudgetIs
<1>6. /\ room \in Nat
      /\ w.surge = 0 /\ AllowedDisruptions(b, w.replicas) = 0 => room = 0
  <2>1. CASE failed \/ Empty(b)
    BY <2>1
  <2>2. CASE ~(failed \/ Empty(b))
    <3>1. room = Max({0, Available - DesiredHealthy(b)})
      BY <2>2
    <3>2. Available - DesiredHealthy(b) \in Int
      BY <2>2, <1>4, <1>5
    <3> HIDE DEF room, b
    <3> QED
      BY <3>1, <3>2, <2>2, <1>4, <1>5, MaxZero
  <2> QED
    BY <2>1, <2>2
<1>7. failed => room = 0
  OBVIOUS
<1> HIDE DEF room
<1>8. status'.allowed = room /\ status' \in Statuses
  <2>1. failed \in BOOLEAN
    OBVIOUS
  <2> HIDE DEF failed
  <2> QED
    BY <1>3, <1>6, <2>1 DEF Statuses, TypeInv
<1> QED
  BY <1>1, <1>2, <1>6, <1>7, <1>8

LEMMA TypesStay == TypeInv /\ [Next]_vars => TypeInv'
<1> SUFFICES ASSUME TypeInv, [Next]_vars PROVE TypeInv'
  OBVIOUS
<1>0. /\ TypeOK /\ Setting /\ Counts /\ Reports /\ status \in Statuses
      /\ drain \in Nodes \cup {NoNode} /\ cordoned \subseteq Nodes
      /\ drain # NoNode => drain \in cordoned
      /\ operations \in 0..MaxOperations /\ stage \in 0..6
      /\ AllPods \in (w.replicas - w.unavailable)..(w.replicas + w.surge)
      /\ MaxOperations \in Nat /\ NoNode \notin Nodes
  BY ScenariosAssumption DEF TypeInv, TypeOK
<1>1. nodes' = nodes /\ w' = w
  BY DEF Next, vars, Schedule, StartRollout, ScaleUpNew, ScaleDownOld, clusterVars, Uncordon, Drain,
         Operate, DrainDone, Evict, SyncBudget, Resolve, RunCheck
<1>2. Setting'
  BY <1>0, <1>1 DEF Setting
<1>3. ASSUME UNCHANGED <<placed, pending, rolling>>
      PROVE  Counts' /\ (AllPods \in (w.replicas - w.unavailable)..(w.replicas + w.surge))'
  BY <1>3, <1>0, <1>1 DEF Counts, AllPods, Total, Bound
<1>4. ASSUME UNCHANGED <<stage, report>>
      PROVE  Reports'
  BY <1>4, <1>0, <1>1 DEF Reports, Done
<1>5. CASE \/ \E rev \in Revisions, n \in Nodes : Schedule(rev, n)
           \/ StartRollout \/ ScaleUpNew \/ ScaleDownOld
  <2>1. UNCHANGED <<cordoned, drain, operations, status, stage, report>>
    BY <1>5 DEF Schedule, StartRollout, ScaleUpNew, ScaleDownOld, clusterVars
  <2>2. Counts' /\ (AllPods \in (w.replicas - w.unavailable)..(w.replicas + w.surge))'
    BY <1>5, PodsStayCounted
  <2> QED
    BY <2>1, <2>2, <1>0, <1>2, <1>4, TypesFollow DEF TypeInv
<1>6. ASSUME NEW rev \in Revisions, Evict(rev)
      PROVE  TypeInv'
  <2>1. UNCHANGED <<cordoned, drain, operations, stage, report>>
    BY <1>6 DEF Evict
  <2>2. Counts' /\ (AllPods \in (w.replicas - w.unavailable)..(w.replicas + w.surge))'
    BY <1>6, PodsStayCounted
  <2>3. status' \in Statuses
    <3>1. CASE status' = status
      BY <3>1, <1>0
    <3>2. CASE status.allowed > 0 /\ status' = [status EXCEPT !.allowed = @ - 1, !.disrupted = TRUE]
      <4>1. status.allowed - 1 \in Nat
        BY <3>2, <1>0 DEF Statuses
      <4> QED
        BY <4>1, <3>2, <1>0 DEF Statuses
    <3> QED
      BY <3>1, <3>2, <1>6 DEF Evict
  <2> QED
    BY <2>1, <2>2, <2>3, <1>0, <1>2, <1>4, TypesFollow DEF TypeInv
<1>7. ASSUME NEW n \in Nodes, Uncordon(n) \/ Drain(n)
      PROVE  TypeInv'
  <2>1. UNCHANGED <<placed, pending, rolling, stage, report, status>> /\ operations' \in 0..MaxOperations
    BY <1>7, <1>0 DEF Uncordon, Drain, Operate
  <2>2. /\ drain' \in Nodes \cup {NoNode} /\ cordoned' \subseteq Nodes
        /\ drain' # NoNode => drain' \in cordoned'
    BY <1>7, <1>0 DEF Uncordon, Drain
  <2> QED
    BY <2>1, <2>2, <1>0, <1>2, <1>3, <1>4, TypesFollow DEF TypeInv
<1>8. CASE DrainDone
  <2>1. /\ UNCHANGED <<placed, pending, rolling, stage, report, status, operations, cordoned>>
        /\ drain' = NoNode
    BY <1>8 DEF DrainDone
  <2> QED
    BY <2>1, <1>0, <1>2, <1>3, <1>4, TypesFollow DEF TypeInv
<1>9. CASE SyncBudget
  <2>1. UNCHANGED <<placed, pending, rolling, stage, report, operations, cordoned, drain>>
    BY <1>9 DEF SyncBudget
  <2>2. status' \in Statuses
    BY <1>9, SyncIs
  <2> QED
    BY <2>1, <2>2, <1>0, <1>2, <1>3, <1>4, TypesFollow DEF TypeInv
<1>10. CASE Resolve \/ RunCheck
  <2>1. UNCHANGED <<placed, pending, rolling, operations, cordoned, drain, status>>
    BY <1>10 DEF Resolve, RunCheck
  <2>2. Reports'
    <3>1. CASE Resolve
      <4>1. stage' = 2 /\ report' = [report EXCEPT !["pdb"] = PDBConsistency(w)]
        BY <3>1 DEF Resolve
      <4>2. PDBConsistency(w) \in Results /\ (PDBConsistency(w).skipped => PDBConsistency(w).findings = {})
        BY ChecksAnswer
      <4>3. "pdb" \in Checks /\ "daemonset" \in Checks
        BY DEF Checks
      <4>4. /\ report' \in [Checks -> Results] /\ report'["daemonset"] = report["daemonset"]
            /\ \A c \in Checks : report'[c].skipped => report'[c].findings = {}
        BY <1>0, <4>1, <4>2, <4>3 DEF Reports
      <4>5. ~Done("scheduling")'
        <5>1. ~(stage' > 4)
          BY <4>1
        <5> QED
          BY <5>1, DoneIs
      <4> QED
        BY <1>0, <1>1, <4>1, <4>4, <4>5 DEF Reports
    <3>2. ASSUME RunCheck, NEW c, c = Order[stage]
          PROVE  Reports'
      <4>1. /\ stage \in 2..5 /\ stage' = stage + 1 /\ stage' \in {0, 2, 3, 4, 5, 6}
            /\ report' = [report EXCEPT ![c] = Run(c)]
            /\ c = IF stage = 2 THEN "daemonset" ELSE IF stage = 3 THEN "eviction"
                   ELSE IF stage = 4 THEN "scheduling" ELSE "capacity"
        <5>1. Len(Order) = 5 /\ Order[2] = "daemonset" /\ Order[3] = "eviction"
              /\ Order[4] = "scheduling" /\ Order[5] = "capacity"
          BY DEF Order
        <5>2. stage \in 2..Len(Order) /\ stage' = stage + 1 /\ report' = [report EXCEPT ![c] = Run(c)]
          BY <3>2 DEF RunCheck
        <5> QED
          BY <5>1, <5>2, <3>2
      <4>2. /\ Run(c) \in Results /\ (Run(c).skipped => Run(c).findings = {})
            /\ c = "daemonset" /\ Run(c).findings # {} => w.kind = "DaemonSet"
            /\ c = "scheduling" /\ w.kind = "DaemonSet" => Run(c).skipped
        BY <4>1, ChecksAnswer DEF Run
      <4>3. c \in Checks /\ "daemonset" \in Checks /\ "scheduling" \in Checks
        BY <4>1 DEF Checks
      <4>4. /\ report' \in [Checks -> Results] /\ report'[c] = Run(c)
            /\ \A d \in Checks \ {c} : report'[d] = report[d]
        BY <1>0, <4>1, <4>2, <4>3 DEF Reports
      <4>5. /\ \A d \in Checks : report'[d].skipped => report'[d].findings = {}
            /\ report'["daemonset"].findings # {} => w.kind = "DaemonSet"
        BY <1>0, <4>2, <4>3, <4>4 DEF Reports
      <4>6. Done("scheduling")' => Done("scheduling") \/ c = "scheduling"
        <5>1. Done("scheduling")' => stage' > 4
          BY DoneIs
        <5> QED
          BY <5>1, <4>1, DoneIs
      <4>7. Done("scheduling")' /\ w.kind = "DaemonSet" => report'["scheduling"].skipped
        BY <1>0, <4>2, <4>3, <4>4, <4>6 DEF Reports
      <4> QED
        BY <1>1, <4>1, <4>4, <4>5, <4>7 DEF Reports
    <3> QED
      BY <3>1, <3>2, <1>10
  <2> QED
    BY <2>1, <2>2, <1>0, <1>2, <1>3, TypesFollow DEF TypeInv
<1>11. CASE UNCHANGED vars
  <2>1. UNCHANGED <<placed, pending, rolling, stage, report, status, operations, cordoned, drain>>
    BY <1>11 DEF vars
  <2> QED
    BY <2>1, <1>0, <1>2, <1>3, <1>4, TypesFollow DEF TypeInv
<1> QED
  BY <1>5, <1>6, <1>7, <1>8, <1>9, <1>10, <1>11 DEF Next

\* Types are kept: never more Pods than replicas and surge, never fewer than the
\* controller keeps, and every check answers with a Result of its kind.
THEOREM TypeInvariant == Spec => []TypeOK
<1>1. TypeInv => TypeOK
  BY DEF TypeInv
<1> QED
  BY InitTypes, TypesStay, <1>1, PTL DEF Spec

-----------------------------------------------------------------------------
(* Budgets.                                                                 *)

\* What the three budget checks report is about the budgets as they are.
Accusations ==
    /\ report["daemonset"].findings # {} =>
           w.kind = "DaemonSet" /\ \E b \in Budgets(w) : Unverifiable(b)
    /\ (\E f \in report["eviction"].findings : f.severity = "high") => Len(w.budgets) > 1
    /\ (\E f \in report["pdb"].findings : f.cause = "noHeadroom") =>
           \E b \in Budgets(w) : AllowedDisruptions(b, w.replicas) = 0

\* A budget that leaves no room never has any: neither the controller nor the
\* status it left gives one.
NoRoom ==
    Len(w.budgets) = 1 =>
        /\ w.kind = "DaemonSet" /\ Unverifiable(w.budgets[1]) => status.allowed = 0
        /\ w.surge = 0 /\ AllowedDisruptions(w.budgets[1], w.replicas) = 0 => status.allowed = 0

BudgetInv == TypeInv /\ Accusations /\ NoRoom

\* What each budget check finds.
LEMMA BudgetChecksAccuse ==
    ASSUME TypeInv
    PROVE  /\ PDBDaemonsetScale(w, status.syncFailed).findings # {} =>
                  w.kind = "DaemonSet" /\ \E b \in Budgets(w) : Unverifiable(b)
           /\ (\E f \in PDBEvictionBlocked(w, status, complete).findings : f.severity = "high") =>
                  Len(w.budgets) > 1
           /\ (\E f \in PDBConsistency(w).findings : f.cause = "noHeadroom") =>
                  \E b \in Budgets(w) : AllowedDisruptions(b, w.replicas) = 0
<1>1. /\ \A fs : Found(fs).findings = fs
      /\ \A sev, c : Finding(sev, c).severity = sev /\ Finding(sev, c).cause = c
      /\ Ok.findings = {}
  BY DEF Found, Finding, Ok
<1>2. ASSUME PDBDaemonsetScale(w, status.syncFailed).findings # {}
      PROVE  w.kind = "DaemonSet" /\ \E b \in Budgets(w) : Unverifiable(b)
  <2> DEFINE fs == {Finding(IF status.syncFailed THEN "high" ELSE "medium", "unverifiable") :
                    b \in {c \in Budgets(w) : Unverifiable(c)}}
  <2>1. PDBDaemonsetScale(w, status.syncFailed) =
            IF w.kind # "DaemonSet" \/ w.replicas = 0 THEN Ok ELSE Found(fs)
    BY DEF PDBDaemonsetScale
  <2>2. w.kind = "DaemonSet" /\ PDBDaemonsetScale(w, status.syncFailed) = Found(fs)
    BY <1>1, <1>2, <2>1
  <2>3. fs # {}
    BY <1>1, <1>2, <2>2
  <2> QED
    BY <2>2, <2>3
<1>3. ASSUME NEW f \in PDBEvictionBlocked(w, status, complete).findings, f.severity = "high"
      PROVE  Len(w.budgets) > 1
  <2> DEFINE fs == {Finding("medium", "notNow") :
                b \in {c \in Budgets(w) :
                        /\ status.observed /\ status.allowed = 0 /\ ~status.disrupted /\ complete
                        /\ AllowedDisruptions(c, w.replicas) \notin {0, Unset}}}
  <2>1. PDBEvictionBlocked(w, status, complete) =
            IF w.replicas = 0 THEN Ok
            ELSE IF Len(w.budgets) > 1 THEN Found({Finding("high", "several")}) ELSE Found(fs)
    BY DEF PDBEvictionBlocked
  <2>2. \A g \in fs : g.severity = "medium"
    BY <1>1
  <2> HIDE DEF fs
  <2> QED
    BY <1>1, <1>3, <2>1, <2>2
<1>4. ASSUME NEW f \in PDBConsistency(w).findings, f.cause = "noHeadroom"
      PROVE  \E b \in Budgets(w) : AllowedDisruptions(b, w.replicas) = 0
  <2> DEFINE allowed(b) == AllowedDisruptions(b, w.replicas)
             verdict(b) ==
                 IF allowed(b) = Unset THEN {}
                 ELSE IF allowed(b) = 0 THEN {Finding("high", "noHeadroom")}
                 ELSE IF w.recreate /\ allowed(b) < w.replicas THEN {Finding("high", "recreate")}
                 ELSE {}
  <2>1. PDBConsistency(w) =
            IF w.replicas = 0 THEN Ok
            ELSE IF w.budgets = <<>> /\ w.replicas > 1 THEN Found({Finding("low", "noBudget")})
            ELSE Found(UNION {verdict(b) : b \in Budgets(w)})
    BY DEF PDBConsistency
  <2>2. ASSUME NEW b \in Budgets(w), f \in verdict(b)
        PROVE  allowed(b) = 0
    BY <1>1, <1>4, <2>2
  <2>3. f \in UNION {verdict(b) : b \in Budgets(w)}
    <3> HIDE DEF verdict
    <3> QED
      BY <1>1, <1>4, <2>1
  <2> HIDE DEF verdict
  <2>4. PICK b \in Budgets(w) : f \in verdict(b)
    BY <2>3
  <2> QED
    BY <2>2, <2>4
<1> QED
  BY <1>2, <1>3, <1>4

LEMMA InitBudgets == Init => BudgetInv
<1> SUFFICES ASSUME Init PROVE BudgetInv
  OBVIOUS
<1>1. TypeInv
  BY InitTypes
<1>2. \A c \in Checks : report[c].findings = {}
  <2>1. \A c \in Checks : report[c] = Skip
    BY DEF Init
  <2> QED
    BY <2>1 DEF Skip
<1>3. status.allowed = 0
  BY DEF Init
<1> QED
  BY <1>1, <1>2, <1>3 DEF BudgetInv, Accusations, NoRoom, Checks

LEMMA BudgetsStay == BudgetInv /\ [Next]_vars => BudgetInv'
<1> SUFFICES ASSUME BudgetInv, [Next]_vars PROVE BudgetInv'
  OBVIOUS
<1>0. TypeInv /\ TypeInv' /\ Accusations /\ NoRoom
  BY TypesStay DEF BudgetInv
<1>1. w' = w
  BY DEF Next, vars, Schedule, StartRollout, ScaleUpNew, ScaleDownOld, clusterVars, Uncordon, Drain,
         Operate, DrainDone, Evict, SyncBudget, Resolve, RunCheck
<1>2. ASSUME report' = report PROVE Accusations'
  BY <1>2, <1>0, <1>1 DEF Accusations
<1>3. ASSUME status' = status PROVE NoRoom'
  BY <1>3, <1>0, <1>1 DEF NoRoom
<1>4. CASE UNCHANGED <<report, status>>
  BY <1>4, <1>0, <1>2, <1>3 DEF BudgetInv
<1>5. ASSUME NEW rev \in Revisions, Evict(rev)
      PROVE  BudgetInv'
  <2>1. report' = report
    BY <1>5 DEF Evict
  <2>2. CASE status' = status
    BY <2>1, <2>2, <1>0, <1>2, <1>3 DEF BudgetInv
  <2>3. CASE Len(w.budgets) = 1 /\ status.allowed > 0
    <3>1. NoRoom'
      BY <2>3, <1>0, <1>1 DEF NoRoom
    <3> QED
      BY <3>1, <2>1, <1>0, <1>2 DEF BudgetInv
  <2> QED
    BY <1>5, <2>2, <2>3 DEF Evict
<1>6. CASE SyncBudget
  <2>1. report' = report
    BY <1>6 DEF SyncBudget
  <2>2. NoRoom'
    BY <1>6, <1>0, <1>1, SyncIs DEF NoRoom
  <2> QED
    BY <2>1, <2>2, <1>0, <1>2 DEF BudgetInv
<1>7. CASE Resolve
  <2>1. status' = status /\ report' = [report EXCEPT !["pdb"] = PDBConsistency(w)]
    BY <1>7 DEF Resolve
  <2>2. report \in [Checks -> Results] /\ {"pdb", "daemonset", "eviction"} \subseteq Checks
    BY <1>0 DEF TypeInv, Reports, Checks
  <2>3. /\ report'["pdb"] = PDBConsistency(w) /\ report'["daemonset"] = report["daemonset"]
        /\ report'["eviction"] = report["eviction"]
    BY <2>1, <2>2
  <2>4. Accusations'
    BY <2>3, <1>0, <1>1, BudgetChecksAccuse DEF Accusations
  <2> QED
    BY <2>1, <2>4, <1>0, <1>3 DEF BudgetInv
<1>8. CASE RunCheck
  <2>1. PICK c : c = Order[stage]
    OBVIOUS
  <2>2. status' = status /\ report' = [report EXCEPT ![c] = Run(c)]
    BY <1>8, <2>1 DEF RunCheck
  <2>3. c \in {"daemonset", "eviction", "scheduling", "capacity"}
    <3>1. Len(Order) = 5 /\ Order[2] = "daemonset" /\ Order[3] = "eviction"
          /\ Order[4] = "scheduling" /\ Order[5] = "capacity"
      BY DEF Order
    <3>2. stage \in 2..Len(Order)
      BY <1>8 DEF RunCheck
    <3> QED
      BY <2>1, <3>1, <3>2
  <2>4. report \in [Checks -> Results] /\ Checks = {"pdb", "daemonset", "eviction", "scheduling", "capacity"}
    BY <1>0 DEF TypeInv, Reports, Checks
  <2>5. report'[c] = Run(c) /\ \A d \in Checks \ {c} : report'[d] = report[d]
    BY <2>2, <2>3, <2>4
  <2>6. /\ c = "daemonset" => Run(c) = PDBDaemonsetScale(w, status.syncFailed)
        /\ c = "eviction" => Run(c) = PDBEvictionBlocked(w, status, complete)
    BY DEF Run
  <2>7. /\ report'["pdb"] = report["pdb"]
        /\ report'["daemonset"] = report["daemonset"]
             \/ report'["daemonset"] = PDBDaemonsetScale(w, status.syncFailed)
        /\ report'["eviction"] = report["eviction"]
             \/ report'["eviction"] = PDBEvictionBlocked(w, status, complete)
    BY <2>3, <2>4, <2>5, <2>6
  <2>8. Accusations'
    BY <2>7, <1>0, <1>1, BudgetChecksAccuse DEF Accusations
  <2> QED
    BY <2>2, <2>8, <1>0, <1>3 DEF BudgetInv
<1> QED
  BY <1>4, <1>5, <1>6, <1>7, <1>8
  DEF Next, vars, Schedule, StartRollout, ScaleUpNew, ScaleDownOld, clusterVars, Uncordon, Drain,
      Operate, DrainDone

\* pdb.go, pdbdaemonset.go and pdbeviction.go: for any workload, budgets and nodes,
\* no Pod is evicted while one of them accuses the budgets (without a surge, for
\* the budget that leaves no room).
THEOREM AccusationsBlock == Spec => AccusedEvictsNothing
<1>1. ASSUME BudgetInv, NEW rev \in Revisions, Evict(rev)
      PROVE  /\ ~Says("daemonset", Severities)
             /\ ~Says("eviction", {"high"})
             /\ w.surge = 0 => \A f \in report["pdb"].findings : f.cause # "noHeadroom"
  <2>1. TypeInv /\ Accusations /\ NoRoom
    BY <1>1 DEF BudgetInv
  <2>2. CASE w.budgets = <<>>
    <3>1. Budgets(w) = {} /\ ~(Len(w.budgets) > 1)
      BY <2>2 DEF Budgets
    <3> QED
      BY <2>1, <3>1 DEF Accusations, Says
  <2>3. CASE Len(w.budgets) = 1 /\ status.allowed > 0
    <3>1. DOMAIN w.budgets = 1..1 /\ ~(Len(w.budgets) > 1)
      BY <2>1, <2>3 DEF TypeInv, Setting, IsWorkload
    <3>2. Budgets(w) = {w.budgets[1]}
      BY <3>1 DEF Budgets
    <3>3. ~(w.kind = "DaemonSet" /\ Unverifiable(w.budgets[1]))
      BY <2>1, <2>3 DEF NoRoom
    <3>4. ~(w.surge = 0 /\ AllowedDisruptions(w.budgets[1], w.replicas) = 0)
      BY <2>1, <2>3 DEF NoRoom
    <3> QED
      BY <2>1, <3>1, <3>2, <3>3, <3>4 DEF Accusations, Says
  <2> QED
    BY <1>1, <2>2, <2>3 DEF Evict
<1>2. BudgetInv /\ [Next]_vars =>
          [(\E rev \in Revisions : Evict(rev)) =>
             /\ ~Says("daemonset", Severities)
             /\ ~Says("eviction", {"high"})
             /\ w.surge = 0 => \A f \in report["pdb"].findings : f.cause # "noHeadroom"]_vars
  BY <1>1
<1> QED
  BY <1>2, InitBudgets, BudgetsStay, PTL DEF Spec, AccusedEvictsNothing

-----------------------------------------------------------------------------
(* Findings about nodes.                                                    *)

\* The Pods of the default scheduler are where a Pod can be: apart where they are
\* to be, and no more to a zone than the skew while zones are too few.
PlacedRight ==
    w.defaultScheduler =>
        /\ \A rev \in Revisions, n \in Nodes : placed[rev][n] > 0 => n \in Usable
        /\ w.anti => \A n \in Nodes : nodes[n].zone # Unset => InZone(nodes[n].zone, Nodes) <= 1
        /\ \A s \in w.spreads :
               s.hard /\ Cardinality(Domains(nodes, Eligible(s))) < s.minDomains =>
                   \A n \in Nodes :
                       /\ \A rev \in Revisions : placed[rev][n] > 0 => nodes[n].zone # Unset
                       /\ nodes[n].zone # Unset => InZone(nodes[n].zone, Eligible(s)) <= s.skew

\* What a check that lists the nodes answers when some are cordoned.
Answer(c, ns) == IF c = "scheduling" THEN SchedulingConstraintsFeasibility(nodes, ns, w)
                 ELSE NodeCapacityFeasibility(nodes, ns, w)

\* A Result is about nodes that were cordoned; they still are, and hold no Pod of a
\* rollout that began afterwards, until one is uncordoned.
ListedFor(c) ==
    /\ ~Done(c) => since[c] = {}
    /\ "rollout" \in since[c] => rolling
    /\ Done(c) =>
         \E ns \in SUBSET Nodes :
             /\ report[c] = Answer(c, ns)
             /\ "uncordon" \notin since[c] =>
                  /\ ns \subseteq cordoned
                  /\ "rollout" \in since[c] /\ w.defaultScheduler /\ w.kind # "DaemonSet" =>
                         \A n \in ns : placed["new"][n] = 0

Listed == \A c \in Listings : ListedFor(c)

\* A step places one Pod or none.
LEMMA PodsMove ==
    ASSUME TypeInv, [Next]_vars
    PROVE  /\ nodes' = nodes /\ w' = w
           /\ \/ \E rev \in Revisions, n \in Nodes : Schedule(rev, n)
              \/ \A rev \in Revisions, n \in Nodes : placed'[rev][n] <= placed[rev][n]
<1>0. Counts /\ placed \in [Revisions -> [Nodes -> Nat]] /\ DOMAIN placed = Revisions
  BY DEF TypeInv, Counts
<1>1. nodes' = nodes /\ w' = w
  BY DEF Next, vars, Schedule, StartRollout, ScaleUpNew, ScaleDownOld, clusterVars, Uncordon, Drain,
         Operate, DrainDone, Evict, SyncBudget, Resolve, RunCheck
<1>2. ASSUME placed' = placed
      PROVE  \A rev \in Revisions, n \in Nodes : placed'[rev][n] <= placed[rev][n]
  BY <1>0, <1>2
<1>3. ASSUME NEW rev \in Revisions, NEW m \in Nodes, placed[rev][m] > 0,
             placed' = [placed EXCEPT ![rev][m] = @ - 1]
      PROVE  \A r \in Revisions, n \in Nodes : placed'[r][n] <= placed[r][n]
  <2> TAKE r \in Revisions, n \in Nodes
  <2>1. placed[r] \in [Nodes -> Nat] /\ placed[r][n] \in Nat
    BY <1>0
  <2>2. CASE r = rev
    <3>1. placed'[r] = [placed[r] EXCEPT ![m] = @ - 1]
      BY <1>0, <1>3, <2>2
    <3> QED
      BY <2>1, <3>1
  <2>3. CASE r # rev
    <3>1. placed'[r] = placed[r]
      BY <1>0, <1>3, <2>3
    <3> QED
      BY <2>1, <3>1
  <2> QED
    BY <2>2, <2>3
<1>4. CASE StartRollout
  <2>1. CASE placed' = [placed EXCEPT !["old"] = [n \in Nodes |-> 0]]
    <3>1. \A n \in Nodes : placed'["old"][n] = 0 /\ placed["old"][n] \in Nat
      BY <1>0, <2>1 DEF Revisions
    <3>2. \A n \in Nodes : placed'["new"][n] = placed["new"][n] /\ placed["new"][n] \in Nat
      BY <1>0, <2>1 DEF Revisions
    <3> QED
      BY <1>1, <3>1, <3>2 DEF Revisions
  <2>2. CASE placed' = placed
    BY <2>2, <1>1, <1>2
  <2> QED
    BY <1>4, <2>1, <2>2 DEF StartRollout
<1>5. CASE ScaleDownOld
  <2>1. "old" \in Revisions
    BY DEF Revisions
  <2> QED
    BY <1>5, <2>1, <1>1, <1>2, <1>3 DEF ScaleDownOld
<1>6. ASSUME NEW rev \in Revisions, Evict(rev)
      PROVE  \A r \in Revisions, n \in Nodes : placed'[r][n] <= placed[r][n]
  <2>1. drain \in Nodes
    BY <1>6 DEF Evict, TypeInv, TypeOK
  <2> QED
    BY <1>6, <2>1, <1>3 DEF Evict
<1>7. CASE \/ ScaleUpNew \/ DrainDone \/ SyncBudget \/ Resolve \/ RunCheck \/ UNCHANGED vars
           \/ \E n \in Nodes : Uncordon(n) \/ Drain(n)
  <2>1. placed' = placed
    BY <1>7 DEF ScaleUpNew, DrainDone, SyncBudget, Resolve, RunCheck, vars, Uncordon, Drain, Operate
  <2> QED
    BY <2>1, <1>1, <1>2
<1> QED
  BY <1>1, <1>4, <1>5, <1>6, <1>7 DEF Next

\* Where no node gains a Pod, no zone does.
LEMMA ZonesShrink ==
    ASSUME TypeInv, TypeInv', nodes' = nodes,
           \A rev \in Revisions, n \in Nodes : placed'[rev][n] <= placed[rev][n],
           NEW z, NEW ns \in SUBSET Nodes
    PROVE  /\ InZone(z, ns) \in Nat
           /\ Cardinality(Slots(On', {n \in ns : nodes[n].zone = z})) \in Nat
           /\ Cardinality(Slots(On', {n \in ns : nodes[n].zone = z})) <= InZone(z, ns)
<1> DEFINE part == {n \in ns : nodes[n].zone = z}
<1>1. IsFiniteSet(part)
  BY ScenariosAssumption, FS_Subset
<1>2. \A n \in Nodes : On[n] \in Nat /\ On'[n] \in Nat /\ On'[n] <= On[n]
  <2> TAKE n \in Nodes
  <2>1. /\ placed["old"][n] \in Nat /\ placed["new"][n] \in Nat
        /\ placed'["old"][n] \in Nat /\ placed'["new"][n] \in Nat
    BY DEF TypeInv, Counts, Revisions
  <2>2. placed'["old"][n] <= placed["old"][n] /\ placed'["new"][n] <= placed["new"][n]
    BY DEF Revisions
  <2>3. On[n] = placed["old"][n] + placed["new"][n] /\ On'[n] = placed'["old"][n] + placed'["new"][n]
    BY DEF On
  <2> QED
    BY <2>1, <2>2, <2>3
<1>3. part \in SUBSET part /\ \A n \in part : On[n] \in Nat /\ On'[n] \in Nat /\ On'[n] <= On[n]
  BY <1>2
<1> HIDE DEF part
<1>4. /\ Cardinality(Slots(On', part)) \in Nat
      /\ Cardinality(Slots(On', part)) <= Cardinality(Slots(On, part))
  BY <1>1, <1>3, SlotsOfPart
<1>5. Cardinality(Slots(On, part)) \in Nat
  BY <1>1, <1>3, SlotsAreFinite, FS_CardinalityType
<1> QED
  BY <1>4, <1>5 DEF InZone, part

\* A Pod that comes to a node comes to its zone alone.
LEMMA ZoneGrows ==
    ASSUME TypeInv, NEW rev \in Revisions, NEW m \in Nodes, Schedule(rev, m),
           NEW z, NEW ns \in SUBSET Nodes
    PROVE  /\ InZone(z, ns) \in Nat
           /\ Cardinality(Slots(On', {n \in ns : nodes[n].zone = z}))
                  = IF m \in ns /\ nodes[m].zone = z THEN InZone(z, ns) + 1 ELSE InZone(z, ns)
<1> DEFINE part == {n \in ns : nodes[n].zone = z}
<1>1. IsFiniteSet(part)
  BY ScenariosAssumption, FS_Subset
<1>2. \A n \in Nodes : On[n] \in Nat /\ On'[n] = IF n = m THEN On[m] + 1 ELSE On[n]
  <2> TAKE n \in Nodes
  <2>0. Counts /\ placed' = [placed EXCEPT ![rev][m] = @ + 1]
    BY DEF TypeInv, Schedule
  <2>1. /\ placed'[rev] = [placed[rev] EXCEPT ![m] = @ + 1]
        /\ \A r \in Revisions \ {rev} : placed'[r] = placed[r]
    BY <2>0, PodComes
  <2>2. \A r \in Revisions : placed[r] \in [Nodes -> Nat] /\ placed[r][n] \in Nat /\ placed[r][m] \in Nat
    BY DEF TypeInv, Counts
  <2>3. \A k \in Nodes : /\ On[k] = placed["old"][k] + placed["new"][k]
                         /\ On'[k] = placed'["old"][k] + placed'["new"][k]
    BY DEF On
  <2>4. placed'[rev][n] = IF n = m THEN placed[rev][m] + 1 ELSE placed[rev][n]
    BY <2>1, <2>2
  <2>5. CASE rev = "old"
    <3>1. placed'["new"] = placed["new"]
      BY <2>1, <2>5 DEF Revisions
    <3> QED
      BY <2>2, <2>3, <2>4, <2>5, <3>1 DEF Revisions
  <2>6. CASE rev = "new"
    <3>1. placed'["old"] = placed["old"]
      BY <2>1, <2>6 DEF Revisions
    <3>2. placed'["old"][n] = placed["old"][n]
      BY <3>1
    <3>3. /\ placed["old"][n] \in Nat /\ placed["new"][n] \in Nat
          /\ placed["old"][m] \in Nat /\ placed["new"][m] \in Nat
      BY <2>2 DEF Revisions
    <3>4. placed'["new"][n] = IF n = m THEN placed["new"][m] + 1 ELSE placed["new"][n]
      BY <2>4, <2>6
    <3> QED
      BY <2>3, <3>2, <3>3, <3>4
  <2> QED
    BY <2>5, <2>6 DEF Revisions
<1>3. /\ \A n \in part : n \in Nodes
      /\ (m \in part) = (m \in ns /\ nodes[m].zone = z)
  OBVIOUS
<1>4. InZone(z, ns) = Cardinality(Slots(On, part))
  BY DEF InZone
<1> HIDE DEF part
<1>5. Cardinality(Slots(On, part)) \in Nat
  BY <1>1, <1>2, <1>3, SlotsAreFinite, FS_CardinalityType
<1>6. CASE m \in part
  <2>1. \A n \in part : On[n] \in Nat /\ On'[n] = IF n = m THEN On[m] + 1 ELSE On[n]
    BY <1>2, <1>3
  <2>2. Cardinality(Slots(On', part)) = Cardinality(Slots(On, part)) + 1
    BY <1>1, <2>1, <1>6, SlotAdded
  <2> QED
    BY <1>3, <1>4, <1>5, <1>6, <2>2 DEF part
<1>7. CASE m \notin part
  <2>1. \A n \in part : On'[n] = On[n]
    BY <1>2, <1>3, <1>7
  <2>2. Slots(On', part) = Slots(On, part)
    BY <2>1 DEF Slots
  <2> QED
    BY <1>3, <1>4, <1>5, <1>7, <2>2 DEF part
<1> QED
  BY <1>6, <1>7

LEMMA PlacedStays ==
    ASSUME TypeInv, TypeInv', PlacedRight, [Next]_vars
    PROVE  PlacedRight'
\* What InZone will be.
<1> DEFINE Later(z, ns) == Cardinality(Slots(On', {n \in ns : nodes[n].zone = z}))
<1>1. /\ nodes' = nodes /\ w' = w
      /\ \/ \E rev \in Revisions, n \in Nodes : Schedule(rev, n)
         \/ \A rev \in Revisions, n \in Nodes : placed'[rev][n] <= placed[rev][n]
  BY PodsMove
<1>2. Usable' = Usable
  BY <1>1 DEF Usable, FitsNode
<1>3. \A s : Eligible(s) \in SUBSET Nodes
  <2>1. DOMAIN nodes = Nodes
    BY DEF TypeInv, Setting
  <2> QED
    BY <2>1 DEF Eligible, AllCandidates
<1>4. /\ \A s \in w.spreads : s.skew \in Nat
      /\ \A rev \in Revisions, n \in Nodes : placed[rev][n] \in Nat /\ placed'[rev][n] \in Nat
  BY DEF TypeInv, Setting, IsWorkload, IsSpread, Counts
<1> SUFFICES ASSUME w.defaultScheduler
             PROVE  PlacedRight'
  BY <1>1 DEF PlacedRight
<1>5. SUFFICES
        /\ \A rev \in Revisions, n \in Nodes : placed'[rev][n] > 0 => n \in Usable
        /\ w.anti => \A n \in Nodes : nodes[n].zone # Unset => Later(nodes[n].zone, Nodes) <= 1
        /\ \A s \in w.spreads :
               s.hard /\ Cardinality(Domains(nodes, Eligible(s))) < s.minDomains =>
                   \A n \in Nodes :
                       /\ \A rev \in Revisions : placed'[rev][n] > 0 => nodes[n].zone # Unset
                       /\ nodes[n].zone # Unset => Later(nodes[n].zone, Eligible(s)) <= s.skew
  BY <1>1, <1>2 DEF PlacedRight, InZone, Eligible
<1>6. CASE \A rev \in Revisions, n \in Nodes : placed'[rev][n] <= placed[rev][n]
  <2>1. \A rev \in Revisions, n \in Nodes : placed'[rev][n] > 0 => placed[rev][n] > 0
    BY <1>4, <1>6
  <2>2. ASSUME NEW z, NEW ns \in SUBSET Nodes, NEW k \in Nat, InZone(z, ns) <= k
        PROVE  Later(z, ns) <= k
    <3>1. InZone(z, ns) \in Nat /\ Later(z, ns) \in Nat /\ Later(z, ns) <= InZone(z, ns)
      BY <1>1, <1>6, ZonesShrink
    <3> HIDE DEF Later
    <3> QED
      BY <3>1, <2>2
  <2>3. \A rev \in Revisions, n \in Nodes : placed'[rev][n] > 0 => n \in Usable
    BY <2>1 DEF PlacedRight
  <2>4. w.anti => \A n \in Nodes : nodes[n].zone # Unset => Later(nodes[n].zone, Nodes) <= 1
    BY <2>2 DEF PlacedRight
  <2>5. ASSUME NEW s \in w.spreads, s.hard /\ Cardinality(Domains(nodes, Eligible(s))) < s.minDomains,
               NEW n \in Nodes
        PROVE  /\ \A rev \in Revisions : placed'[rev][n] > 0 => nodes[n].zone # Unset
               /\ nodes[n].zone # Unset => Later(nodes[n].zone, Eligible(s)) <= s.skew
    <3>1. /\ \A rev \in Revisions : placed[rev][n] > 0 => nodes[n].zone # Unset
          /\ nodes[n].zone # Unset => InZone(nodes[n].zone, Eligible(s)) <= s.skew
      BY <2>5 DEF PlacedRight
    <3> QED
      BY <3>1, <2>1, <2>2, <1>3, <1>4
  <2> QED
    BY <2>3, <2>4, <2>5
<1>7. ASSUME NEW rev \in Revisions, NEW m \in Nodes, Schedule(rev, m)
      PROVE  /\ \A r \in Revisions, n \in Nodes : placed'[r][n] > 0 => n \in Usable
             /\ w.anti => \A n \in Nodes : nodes[n].zone # Unset => Later(nodes[n].zone, Nodes) <= 1
             /\ \A s \in w.spreads :
                    s.hard /\ Cardinality(Domains(nodes, Eligible(s))) < s.minDomains =>
                        \A n \in Nodes :
                            /\ \A r \in Revisions : placed'[r][n] > 0 => nodes[n].zone # Unset
                            /\ nodes[n].zone # Unset => Later(nodes[n].zone, Eligible(s)) <= s.skew
  <2>1. Feasible(m) /\ placed' = [placed EXCEPT ![rev][m] = @ + 1]
    BY <1>7 DEF Schedule
  <2>2. \A r \in Revisions, n \in Nodes : placed'[r][n] > 0 => placed[r][n] > 0 \/ n = m
    <3>0. Counts
      BY DEF TypeInv
    <3>1. /\ placed'[rev] = [placed[rev] EXCEPT ![m] = @ + 1]
          /\ \A r \in Revisions \ {rev} : placed'[r] = placed[r]
      BY <3>0, <2>1, PodComes
    <3>2. placed[rev] \in [Nodes -> Nat]
      BY <3>0 DEF Counts
    <3> QED
      BY <3>1, <3>2
  <2>3. ASSUME NEW z, NEW ns \in SUBSET Nodes
        PROVE  /\ InZone(z, ns) \in Nat
               /\ Later(z, ns) = IF m \in ns /\ nodes[m].zone = z THEN InZone(z, ns) + 1
                                 ELSE InZone(z, ns)
    BY <1>7, ZoneGrows
  <2> HIDE DEF Later
  <2>4. \A r \in Revisions, n \in Nodes : placed'[r][n] > 0 => n \in Usable
    BY <2>1, <2>2 DEF PlacedRight, Feasible
  <2>5. ASSUME w.anti, NEW n \in Nodes, nodes[n].zone # Unset
        PROVE  Later(nodes[n].zone, Nodes) <= 1
    <3>1. Nodes \in SUBSET Nodes
      OBVIOUS
    <3>2. Apart(m)
      BY <2>1, <2>5 DEF Feasible
    <3>3. CASE nodes[m].zone = nodes[n].zone
      <4>1. InZone(nodes[n].zone, Nodes) = 0
        BY <3>2, <3>3, <2>5 DEF Apart
      <4> QED
        BY <2>3, <3>1, <3>3, <4>1
    <3>4. CASE nodes[m].zone # nodes[n].zone
      <4>1. InZone(nodes[n].zone, Nodes) <= 1
        BY <2>5 DEF PlacedRight
      <4> QED
        BY <2>3, <3>1, <3>4, <4>1
    <3> QED
      BY <3>3, <3>4
  <2>6. ASSUME NEW s \in w.spreads, s.hard /\ Cardinality(Domains(nodes, Eligible(s))) < s.minDomains,
               NEW n \in Nodes
        PROVE  /\ \A r \in Revisions : placed'[r][n] > 0 => nodes[n].zone # Unset
               /\ nodes[n].zone # Unset => Later(nodes[n].zone, Eligible(s)) <= s.skew
    <3>1. /\ \A r \in Revisions : placed[r][n] > 0 => nodes[n].zone # Unset
          /\ nodes[n].zone # Unset => InZone(nodes[n].zone, Eligible(s)) <= s.skew
      BY <2>6 DEF PlacedRight
    <3>2. GlobalMinimum(s) = 0 /\ Spreads(s, m)
      BY <2>1, <2>6 DEF Feasible, GlobalMinimum
    <3>3. Eligible(s) \in SUBSET Nodes /\ s.skew \in Nat
      BY <1>3, <1>4
    <3>4. nodes[m].zone # Unset /\ InZone(nodes[m].zone, Eligible(s)) + 1 <= s.skew
      <4>1. InZone(nodes[m].zone, Eligible(s)) \in Nat
        BY <2>3, <3>3
      <4> QED
        BY <3>2, <3>3, <4>1 DEF Spreads
    <3>5. \A r \in Revisions : placed'[r][n] > 0 => nodes[n].zone # Unset
      BY <2>2, <3>1, <3>4
    <3>6. nodes[n].zone # Unset => Later(nodes[n].zone, Eligible(s)) <= s.skew
      <4>1. CASE nodes[m].zone = nodes[n].zone
        BY <2>3, <3>1, <3>3, <3>4, <4>1
      <4>2. CASE nodes[m].zone # nodes[n].zone
        BY <2>3, <3>1, <3>3, <4>2
      <4> QED
        BY <4>1, <4>2
    <3> QED
      BY <3>5, <3>6
  <2> QED
    BY <2>4, <2>5, <2>6
<1> QED
  BY <1>1, <1>6, <1>7

LEMMA ListedStays ==
    ASSUME TypeInv, TypeInv', Listed, [Next]_vars
    PROVE  Listed'
<1>1. /\ nodes' = nodes /\ w' = w
      /\ \/ \E rev \in Revisions, n \in Nodes : Schedule(rev, n)
         \/ \A rev \in Revisions, n \in Nodes : placed'[rev][n] <= placed[rev][n]
  BY PodsMove
<1>2. \A n \in Nodes : placed["new"][n] \in Nat /\ placed'["new"][n] \in Nat
  BY DEF TypeInv, Counts, Revisions
<1>3. /\ cordoned \subseteq Nodes /\ rolling \in BOOLEAN
      /\ ~rolling => \A n \in Nodes : placed["new"][n] = 0
  BY DEF TypeInv, TypeOK, Counts
<1>4. Listings = {"scheduling", "capacity"}
  BY DEF Listings
<1>5. \A c, ns : Answer(c, ns)' = Answer(c, ns)
  BY <1>1 DEF Answer
\* Steps that run neither check.
<1>6. ASSUME NEW c \in Listings, Done(c)' <=> Done(c), report'[c] = report[c],
             ~Done(c) => since'[c] = {}, Done(c) => since[c] \subseteq since'[c],
             "rollout" \in since'[c] => rolling',
             "uncordon" \notin since'[c] => cordoned \subseteq cordoned',
             \A n \in cordoned :
                 /\ "rollout" \in since'[c] /\ w.defaultScheduler /\ w.kind # "DaemonSet"
                 /\ "rollout" \in since[c] => placed["new"][n] = 0
                 => placed'["new"][n] = 0
      PROVE  ListedFor(c)'
  <2>1. ASSUME Done(c)
        PROVE  \E ns \in SUBSET Nodes :
                   /\ report'[c] = Answer(c, ns)'
                   /\ "uncordon" \notin since'[c] =>
                        /\ ns \subseteq cordoned'
                        /\ "rollout" \in since'[c] /\ w'.defaultScheduler /\ w'.kind # "DaemonSet" =>
                               \A n \in ns : placed'["new"][n] = 0
    <3>1. PICK ns \in SUBSET Nodes :
             /\ report[c] = Answer(c, ns)
             /\ "uncordon" \notin since[c] =>
                  /\ ns \subseteq cordoned
                  /\ "rollout" \in since[c] /\ w.defaultScheduler /\ w.kind # "DaemonSet" =>
                         \A n \in ns : placed["new"][n] = 0
      BY <2>1 DEF Listed, ListedFor
    <3>2. report'[c] = Answer(c, ns)'
      BY <3>1, <1>5, <1>6
    <3>3. ASSUME "uncordon" \notin since'[c]
          PROVE  /\ ns \subseteq cordoned'
                 /\ "rollout" \in since'[c] /\ w'.defaultScheduler /\ w'.kind # "DaemonSet" =>
                        \A n \in ns : placed'["new"][n] = 0
      <4>1. "uncordon" \notin since[c] /\ cordoned \subseteq cordoned'
        BY <2>1, <3>3, <1>6
      <4>2. ns \subseteq cordoned
        BY <3>1, <4>1
      <4>3. ASSUME "rollout" \in since'[c], w.defaultScheduler, w.kind # "DaemonSet", NEW n \in ns
            PROVE  placed'["new"][n] = 0
        BY <3>1, <4>1, <4>2, <4>3, <1>6
      <4> QED
        BY <1>1, <4>1, <4>2, <4>3
    <3> QED
      BY <3>2, <3>3
  <2> QED
    BY <1>6, <2>1 DEF ListedFor
\* The Pods stay where they are or leave.
<1>7. ASSUME \A rev \in Revisions, n \in Nodes : placed'[rev][n] <= placed[rev][n],
             NEW n \in Nodes, placed["new"][n] = 0
      PROVE  placed'["new"][n] = 0
  <2>1. placed'["new"][n] <= placed["new"][n]
    BY <1>7 DEF Revisions
  <2> QED
    BY <2>1, <1>2, <1>7
<1>8. CASE /\ \A rev \in Revisions, n \in Nodes : placed'[rev][n] <= placed[rev][n]
           /\ UNCHANGED <<stage, report, since, rolling, cordoned>>
  <2>1. ASSUME NEW c \in Listings
        PROVE  ListedFor(c)'
    <3>1. ListedFor(c) /\ (Done(c)' <=> Done(c))
      BY <1>8 DEF Listed, Done
    <3> QED
      BY <3>1, <1>3, <1>6, <1>7, <1>8 DEF ListedFor
  <2> QED
    BY <2>1 DEF Listed
<1>9. ASSUME NEW rev \in Revisions, NEW m \in Nodes, Schedule(rev, m)
      PROVE  Listed'
  <2>1. /\ UNCHANGED <<stage, report, since, rolling, cordoned>>
        /\ w.defaultScheduler => Feasible(m)
        /\ placed' = [placed EXCEPT ![rev][m] = @ + 1]
    BY <1>9 DEF Schedule
  <2>2. ASSUME NEW n \in cordoned, w.defaultScheduler, w.kind # "DaemonSet", placed["new"][n] = 0
        PROVE  placed'["new"][n] = 0
    <3>1. m # n
      BY <2>1, <2>2 DEF Feasible
    <3>2. placed \in [Revisions -> [Nodes -> Nat]]
      BY DEF TypeInv, Counts
    <3> QED
      BY <3>1, <3>2, <2>1, <2>2, <1>3 DEF Revisions
  <2>3. ASSUME NEW c \in Listings
        PROVE  ListedFor(c)'
    <3>1. ListedFor(c) /\ (Done(c)' <=> Done(c))
      BY <2>1 DEF Listed, Done
    <3> QED
      BY <3>1, <1>6, <2>1, <2>2 DEF ListedFor
  <2> QED
    BY <2>3 DEF Listed
<1>10. CASE StartRollout
  <2>1. /\ ~rolling /\ rolling' = TRUE /\ UNCHANGED <<stage, report, cordoned>>
        /\ since' = IF AtRest THEN Noted("rollout") ELSE since
    BY <1>10 DEF StartRollout, clusterVars
  <2>2. \A n \in Nodes : placed'["new"][n] = 0
    <3>1. \A n \in Nodes : placed'["new"][n] <= placed["new"][n]
      <4>1. placed' = [placed EXCEPT !["old"] = [n \in Nodes |-> 0]] \/ placed' = placed
        BY <1>10 DEF StartRollout
      <4>2. placed'["new"] = placed["new"]
        BY <4>1 DEF TypeInv, Counts, Revisions
      <4> QED
        BY <4>2, <1>2
    <3> QED
      BY <3>1, <2>1, <1>2, <1>3
  <2>3. ASSUME NEW c \in Listings
        PROVE  ListedFor(c)'
    <3>1. ListedFor(c) /\ (Done(c)' <=> Done(c))
      BY <2>1 DEF Listed, Done
    <3>2. /\ ~Done(c) => since'[c] = {}
          /\ Done(c) => since[c] \subseteq since'[c]
      BY <2>1, <3>1 DEF Noted, ListedFor
    <3> QED
      BY <3>1, <3>2, <1>3, <1>6, <2>1, <2>2
  <2> QED
    BY <2>3 DEF Listed
\* An operation or an eviction is noted.
<1>11. ASSUME NEW event \in {"uncordon", "cordon", "evict"}, since' = Noted(event),
              UNCHANGED <<stage, report, rolling>>,
              \A rev \in Revisions, n \in Nodes : placed'[rev][n] <= placed[rev][n],
              event # "uncordon" => cordoned \subseteq cordoned'
       PROVE  Listed'
  <2>1. ASSUME NEW c \in Listings
        PROVE  ListedFor(c)'
    <3>1. ListedFor(c) /\ (Done(c)' <=> Done(c))
      BY <1>11 DEF Listed, Done
    <3>2. since'[c] = IF Done(c) THEN since[c] \cup {event} ELSE {}
      BY <1>11 DEF Noted
    <3>3. "rollout" \in since'[c] => "rollout" \in since[c] /\ rolling'
      BY <3>1, <3>2, <1>11 DEF ListedFor
    <3>4. "uncordon" \notin since'[c] /\ Done(c) => cordoned \subseteq cordoned'
      BY <3>2, <1>11
    <3>5. CASE Done(c)
      BY <3>1, <3>2, <3>3, <3>4, <3>5, <1>3, <1>6, <1>7, <1>11
    <3>6. CASE ~Done(c)
      BY <3>1, <3>2, <3>6 DEF ListedFor
    <3> QED
      BY <3>5, <3>6
  <2> QED
    BY <2>1 DEF Listed
<1>12. CASE \E n \in Nodes : Uncordon(n) \/ Drain(n)
  <2>1. PICK n \in Nodes : Uncordon(n) \/ Drain(n)
    BY <1>12
  <2>2. placed' = placed /\ UNCHANGED <<stage, report, rolling>>
    BY <2>1 DEF Uncordon, Drain, Operate
  <2>3. \A rev \in Revisions, k \in Nodes : placed'[rev][k] <= placed[rev][k]
    BY <2>2 DEF TypeInv, Counts
  <2>4. \/ since' = Noted("uncordon")
        \/ since' = Noted("cordon") /\ cordoned \subseteq cordoned'
    BY <2>1 DEF Uncordon, Drain, Operate
  <2> QED
    BY <2>2, <2>3, <2>4, <1>11
<1>13. ASSUME NEW rev \in Revisions, Evict(rev)
       PROVE  Listed'
  <2>1. /\ since' = Noted("evict") /\ UNCHANGED <<stage, report, rolling, cordoned>>
        /\ drain \in Nodes /\ placed[rev][drain] > 0
        /\ placed' = [placed EXCEPT ![rev][drain] = @ - 1]
    BY <1>13 DEF Evict, TypeInv, TypeOK
  <2>2. \A r \in Revisions, n \in Nodes : placed'[r][n] <= placed[r][n]
    <3> TAKE r \in Revisions, n \in Nodes
    <3>1. placed \in [Revisions -> [Nodes -> Nat]] /\ placed[r][n] \in Nat
      BY DEF TypeInv, Counts
    <3>2. CASE r = rev
      <4>1. placed'[r] = [placed[r] EXCEPT ![drain] = @ - 1]
        BY <3>1, <3>2, <2>1
      <4> QED
        BY <3>1, <4>1
    <3>3. CASE r # rev
      <4>1. placed'[r] = placed[r]
        BY <3>1, <3>3, <2>1
      <4> QED
        BY <3>1, <4>1
    <3> QED
      BY <3>2, <3>3
  <2> QED
    BY <2>1, <2>2, <1>11
<1>14. CASE Resolve \/ RunCheck
  <2>1. UNCHANGED <<since, rolling, cordoned, placed>>
    BY <1>14 DEF Resolve, RunCheck
  <2>2. report \in [Checks -> Results] /\ Listings \subseteq Checks /\ "pdb" \in Checks \ Listings
    BY DEF TypeInv, Reports, Checks, Listings
  <2>3. CASE Resolve
    <3>1. /\ stage = 0 /\ stage' = 2 /\ report' = [report EXCEPT !["pdb"] = PDBConsistency(w)]
      BY <2>3 DEF Resolve
    <3>2. ASSUME NEW c \in Listings
          PROVE  ListedFor(c)'
      <4>1. ~Done(c) /\ ~Done(c)'
        BY <3>1, <1>4, DoneIs
      <4>2. ListedFor(c)
        BY DEF Listed
      <4> QED
        BY <4>1, <4>2, <2>1 DEF ListedFor
    <3> QED
      BY <3>2 DEF Listed
  <2>4. CASE RunCheck
    <3>1. PICK d : d = Order[stage]
      OBVIOUS
    <3>2. /\ stage' = stage + 1 /\ report' = [report EXCEPT ![d] = Run(d)] /\ stage \in 2..5
          /\ d = IF stage = 2 THEN "daemonset" ELSE IF stage = 3 THEN "eviction"
                 ELSE IF stage = 4 THEN "scheduling" ELSE "capacity"
      <4>1. Len(Order) = 5 /\ Order[2] = "daemonset" /\ Order[3] = "eviction"
            /\ Order[4] = "scheduling" /\ Order[5] = "capacity"
        BY DEF Order
      <4>2. stage \in 2..Len(Order) /\ stage' = stage + 1 /\ report' = [report EXCEPT ![d] = Run(d)]
        BY <2>4, <3>1 DEF RunCheck
      <4> QED
        BY <3>1, <4>1, <4>2
    <3>3. d \in Checks /\ report'[d] = Run(d) /\ \A e \in Checks \ {d} : report'[e] = report[e]
      <4>1. d \in Checks
        BY <3>2 DEF Checks
      <4> QED
        BY <4>1, <3>2, <2>2
    <3>4. ASSUME NEW c \in Listings, c # d
          PROVE  ListedFor(c)'
      <4>1. report'[c] = report[c]
        BY <3>3, <3>4, <2>2
      <4>2. Done(c)' <=> Done(c)
        BY <3>2, <3>4, <1>4, DoneIs
      <4>3. ListedFor(c)
        BY DEF Listed
      <4> QED
        BY <4>1, <4>2, <4>3, <1>6, <2>1 DEF ListedFor
    <3>5. ASSUME d \in Listings
          PROVE  ListedFor(d)'
      <4>1. ~Done(d) /\ Done(d)'
        BY <3>2, <3>5, <1>4, DoneIs
      <4>2. since'[d] = {}
        BY <2>1, <3>5, <4>1 DEF Listed, ListedFor
      <4>3. report'[d] = Answer(d, cordoned)'
        <5>1. Run(d) = Answer(d, cordoned)
          BY <3>2, <3>5, <1>4 DEF Run, Answer
        <5> QED
          BY <5>1, <3>3, <1>1, <2>1 DEF Answer
      <4> QED
        BY <4>1, <4>2, <4>3, <1>3, <2>1 DEF ListedFor
    <3> QED
      BY <3>4, <3>5 DEF Listed
  <2> QED
    BY <1>14, <2>3, <2>4
<1>15. ASSUME ~ \E rev \in Revisions, n \in Nodes : Schedule(rev, n),
              ScaleUpNew \/ ScaleDownOld \/ DrainDone \/ SyncBudget \/ UNCHANGED vars
       PROVE  Listed'
  <2>1. UNCHANGED <<stage, report, since, rolling, cordoned>>
    BY <1>15 DEF ScaleUpNew, ScaleDownOld, DrainDone, SyncBudget, vars, clusterVars
  <2> QED
    BY <2>1, <1>1, <1>8, <1>15
<1> QED
  BY <1>9, <1>10, <1>12, <1>13, <1>14, <1>15 DEF Next

-----------------------------------------------------------------------------
(* What is found, and the room it leaves.                                   *)

\* Pods on nodes that have a zone, no more than k to each, are no more than k times
\* the zones.
LEMMA PodsFitZones ==
    ASSUME TypeInv, NEW p \in [Nodes -> Nat], \A n \in Nodes : p[n] <= On[n],
           NEW E \in SUBSET Nodes, NEW k \in Nat, NEW ns \in SUBSET E,
           \A n \in Nodes : p[n] > 0 => n \in ns,
           \A n \in ns : nodes[n].zone # Unset /\ InZone(nodes[n].zone, E) <= k
    PROVE  /\ Cardinality(Domains(nodes, ns)) \in Nat
           /\ Cardinality(Slots(p, Nodes)) <= Cardinality(Domains(nodes, ns)) * k
<1> DEFINE zone == [n \in Nodes |-> nodes[n].zone]
<1>1. \A n \in Nodes : p[n] \in Nat /\ On[n] \in Nat /\ zone[n] = nodes[n].zone
  <2>1. \A n \in Nodes : placed["old"][n] \in Nat /\ placed["new"][n] \in Nat
    BY DEF TypeInv, Counts, Revisions
  <2> QED
    BY <2>1 DEF On
<1>2. ns \in SUBSET Nodes /\ IsFiniteSet(E) /\ IsFiniteSet(Nodes)
  BY ScenariosAssumption, FS_Subset
<1> HIDE DEF zone
<1>3. ASSUME NEW n \in ns
      PROVE  Cardinality(Slots(p, Sharing(zone, ns, zone[n]))) <= k
  <2> DEFINE part == Sharing(zone, ns, zone[n])
             whole == {m \in E : nodes[m].zone = nodes[n].zone}
  <2>1. part \in SUBSET whole /\ IsFiniteSet(whole) /\ whole \subseteq Nodes
    BY <1>1, <1>2, FS_Subset DEF Sharing
  <2>2. Cardinality(Slots(On, whole)) = InZone(nodes[n].zone, E)
    BY DEF InZone
  <2>3. \A m \in whole : On[m] \in Nat
    BY <1>1, <2>1
  <2>4. \A m \in part : p[m] \in Nat /\ p[m] <= On[m]
    BY <1>1, <2>1
  <2> HIDE DEF part, whole
  <2>5. /\ Cardinality(Slots(p, part)) \in Nat
        /\ Cardinality(Slots(p, part)) <= Cardinality(Slots(On, whole))
    BY <2>1, <2>3, <2>4, SlotsOfPart
  <2>6. Cardinality(Slots(On, whole)) \in Nat
    BY <2>1, <2>3, SlotsAreFinite, FS_CardinalityType
  <2> QED
    BY <2>2, <2>5, <2>6 DEF part
<1>4. /\ IsFiniteSet(ZonesOf(zone, ns))
      /\ Cardinality(Slots(p, ns)) <= Cardinality(ZonesOf(zone, ns)) * k
  <2>1. \A n \in ns : p[n] \in Nat
    BY <1>1, <1>2
  <2> QED
    BY <1>2, <1>3, <2>1, ScenariosAssumption, ZonesHold
<1>5. Domains(nodes, ns) = ZonesOf(zone, ns)
  <2>1. \A n \in ns : zone[n] = nodes[n].zone /\ zone[n] # Unset
    BY <1>1, <1>2
  <2> QED
    BY <2>1 DEF Domains, ZonesOf
<1>6. Slots(p, Nodes) = Slots(p, ns)
  <2>1. ASSUME NEW x \in Slots(p, Nodes)
        PROVE  x \in Slots(p, ns)
    <3>1. PICK n \in Nodes, i \in Int : i \in 1..p[n] /\ x = <<n, i>>
      BY SlotsAre
    <3>2. n \in ns
      BY <3>1, <1>1
    <3> QED
      BY <3>1, <3>2, SlotsAre
  <2>2. ASSUME NEW x \in Slots(p, ns)
        PROVE  x \in Slots(p, Nodes)
    <3>1. PICK n \in ns, i \in Int : i \in 1..p[n] /\ x = <<n, i>>
      BY SlotsAre
    <3> QED
      BY <3>1, <1>2, SlotsAre
  <2> QED
    BY <2>1, <2>2
<1> QED
  BY <1>4, <1>5, <1>6, FS_CardinalityType

\* A finding about constraints and what it found.
LEMMA SchedulingFinds ==
    ASSUME TypeInv, NEW ns,
           NEW f \in SchedulingConstraintsFeasibility(nodes, ns, w).findings, f.severity # "low"
    PROVE  /\ w.kind # "DaemonSet" /\ w.replicas # 0 /\ w.defaultScheduler
           /\ \/ AllCandidates(nodes, w) = {}
              \/ \E s \in w.spreads :
                     /\ f.cause = "spread" /\ s.hard /\ ~(s.ignoresSelector /\ w.selector)
                     /\ \/ f = Finding("medium", "spread")
                        \/ SpreadInfeasible(Cardinality(Domains(nodes, AllCandidates(nodes, w))), s, w)
              \/ /\ w.anti /\ \A n \in AllCandidates(nodes, w) : nodes[n].zone # Unset
                 /\ f.cause = "antiAffinity"
                 /\ \/ /\ f.severity = "medium"
                       /\ CapacityInfeasible(
                              Cardinality(AntiAffinityDomains(nodes, Candidates(nodes, ns, w))), w)
                    \/ CapacityInfeasible(
                           Cardinality(AntiAffinityDomains(nodes, AllCandidates(nodes, w))), w)
              \/ f.severity = "medium" /\ Candidates(nodes, ns, w) = {}
              \/ f.cause = "tainted" /\ \A n \in Candidates(nodes, ns, w) : nodes[n].tainted
<1> DEFINE all == AllCandidates(nodes, w)
           live == Candidates(nodes, ns, w)
           spread == UNION {EvaluateSpreadConstraint(nodes, ns, w, s) : s \in w.spreads}
           anti == IF w.anti THEN EvaluateAntiAffinityTerm(nodes, ns, w) ELSE {}
           constrained == w.spreads # {} \/ w.anti
           idle == w.replicas = 0 \/ ~(constrained \/ w.selector) \/ ~w.defaultScheduler
           run == SchedulingConstraintsFeasibility(nodes, ns, w)
<1>1. /\ \A fs : Found(fs).findings = fs
      /\ \A sev, c : Finding(sev, c).severity = sev /\ Finding(sev, c).cause = c
      /\ Ok.findings = {} /\ Skip.findings = {}
  BY DEF Found, Finding, Ok, Skip
<1>2. /\ w.kind # "DaemonSet" /\ ~idle
      /\ \/ all = {}
         \/ all # {} /\ constrained /\ run = Found(spread \cup anti)
         \/ all # {} /\ ~constrained /\ live = {} /\ run = Found({Finding("medium", "cordoned")})
         \/ /\ all # {} /\ ~constrained /\ live # {} /\ \A n \in live : nodes[n].tainted
            /\ run = Found({Finding("high", "tainted")})
  <2>1. run = IF w.kind = "DaemonSet" THEN Skip
              ELSE IF idle THEN Ok
              ELSE IF DOMAIN nodes = {} THEN Skip
              ELSE IF all = {} THEN Found({Finding("high", "noMatch")})
              ELSE IF constrained THEN Found(spread \cup anti)
              ELSE IF live = {} THEN Found({Finding("medium", "cordoned")})
              ELSE IF \A n \in live : nodes[n].tainted THEN Found({Finding("high", "tainted")})
              ELSE Ok
    BY DEF SchedulingConstraintsFeasibility
  <2> HIDE DEF run, spread, anti, all, live, idle, constrained
  <2>2. f \in run.findings
    BY DEF run
  <2> QED
    BY <1>1, <2>1, <2>2
<1>3. ASSUME NEW s \in w.spreads, f \in EvaluateSpreadConstraint(nodes, ns, w, s)
      PROVE  /\ f.cause = "spread" /\ s.hard /\ ~(s.ignoresSelector /\ w.selector)
             /\ \/ f = Finding("medium", "spread")
                \/ SpreadInfeasible(Cardinality(Domains(nodes, AllCandidates(nodes, w))), s, w)
  BY <1>1, <1>3 DEF EvaluateSpreadConstraint, Demoted
<1>4. ASSUME w.anti, f \in EvaluateAntiAffinityTerm(nodes, ns, w)
      PROVE  /\ \A n \in AllCandidates(nodes, w) : nodes[n].zone # Unset
             /\ f.cause = "antiAffinity"
             /\ \/ /\ f.severity = "medium"
                   /\ CapacityInfeasible(
                          Cardinality(AntiAffinityDomains(nodes, Candidates(nodes, ns, w))), w)
                \/ CapacityInfeasible(
                       Cardinality(AntiAffinityDomains(nodes, AllCandidates(nodes, w))), w)
  BY <1>1, <1>4 DEF EvaluateAntiAffinityTerm, Demoted
<1>5. CASE all # {} /\ constrained /\ run = Found(spread \cup anti)
  <2>1. f \in spread \/ f \in anti
    <3> HIDE DEF spread, anti
    <3> QED
      BY <1>1, <1>5
  <2>2. CASE f \in spread
    <3>1. PICK s \in w.spreads : f \in EvaluateSpreadConstraint(nodes, ns, w, s)
      BY <2>2
    <3> QED
      BY <3>1, <1>2, <1>3
  <2>3. CASE f \in anti
    <3>1. w.anti /\ f \in EvaluateAntiAffinityTerm(nodes, ns, w)
      BY <2>3
    <3> QED
      BY <3>1, <1>2, <1>4
  <2> QED
    BY <2>1, <2>2, <2>3
<1>6. CASE all = {}
  BY <1>2, <1>6
<1>7. CASE live = {} /\ run = Found({Finding("medium", "cordoned")})
  <2>1. f.severity = "medium"
    BY <1>1, <1>7
  <2> QED
    BY <1>2, <1>7, <2>1
<1>8. CASE (\A n \in live : nodes[n].tainted) /\ run = Found({Finding("high", "tainted")})
  <2>1. f.cause = "tainted"
    BY <1>1, <1>8
  <2> QED
    BY <1>2, <1>8, <2>1
<1> QED
  BY <1>2, <1>5, <1>6, <1>7, <1>8

\* The Pods a node holds are those of both templates, each where it may be.
LEMMA PodsAreOn ==
    ASSUME TypeInv
    PROVE  /\ On \in [Nodes -> Nat]
           /\ \A rev \in Revisions : placed[rev] \in [Nodes -> Nat]
           /\ \A n \in Nodes : placed["new"][n] <= On[n]
           /\ Available = Cardinality(Slots(On, Nodes))
           /\ Bound("new") = Cardinality(Slots(placed["new"], Nodes))
           /\ PlacedRight /\ w.defaultScheduler => \A n \in Nodes : On[n] > 0 => n \in Usable
<1>1. \A rev \in Revisions : placed[rev] \in [Nodes -> Nat]
  BY DEF TypeInv, Counts
<1>2. placed["old"] \in [Nodes -> Nat] /\ placed["new"] \in [Nodes -> Nat]
  BY <1>1 DEF Revisions
<1>3. /\ On \in [Nodes -> Nat]
      /\ \A n \in Nodes : On[n] = placed["old"][n] + placed["new"][n]
  BY <1>2 DEF On
<1>4. \A n \in Nodes : placed["new"][n] <= On[n]
  BY <1>2, <1>3
<1>5. Available = Cardinality(Slots(On, Nodes))
  BY <1>2, ScenariosAssumption, SlotsOfBoth DEF Available, Bound, On
<1>6. ASSUME PlacedRight, w.defaultScheduler, NEW n \in Nodes, On[n] > 0
      PROVE  n \in Usable
  <2>1. placed["old"][n] > 0 \/ placed["new"][n] > 0
    BY <1>2, <1>3, <1>6
  <2> QED
    BY <2>1, <1>6 DEF PlacedRight, Revisions
<1> QED
  BY <1>1, <1>3, <1>4, <1>5, <1>6 DEF Bound

\* Whether that many Pods are too few for a rollout to go on.
Short(pods) ==
    /\ w.replicas > 0
    /\ \/ pods < w.replicas
       \/ ~w.recreate /\ w.unavailable = 0 /\ pods < w.replicas + w.surge

LEMMA ShortIsShort ==
    ASSUME TypeInv, w.replicas # 0, NEW capacity \in Nat, CapacityInfeasible(capacity, w),
           NEW pods \in Nat, pods <= capacity
    PROVE  Short(pods)
<1>1. w.replicas \in Nat /\ w.surge \in Nat /\ w.unavailable \in Nat
  BY DEF TypeInv, Setting, IsWorkload
<1>2. CASE capacity < w.replicas
  BY <1>1, <1>2 DEF Short
<1>3. CASE ~w.recreate /\ w.unavailable = 0 /\ capacity < w.replicas + w.surge
  BY <1>1, <1>3 DEF Short
<1> QED
  BY <1>2, <1>3 DEF CapacityInfeasible

\* What is HIGH about constraints leaves too little room for any Pods that are placed,
\* and what is MEDIUM for those that are off the nodes that were cordoned.
LEMMA RoomIsShort ==
    ASSUME TypeInv, PlacedRight, NEW ns,
           NEW f \in SchedulingConstraintsFeasibility(nodes, ns, w).findings,
           NEW p \in [Nodes -> Nat], \A n \in Nodes : p[n] <= On[n],
           \/ f.severity = "high" /\ f.cause # "tainted"
           \/ /\ f.severity \in {"medium", "high"} /\ f # Finding("medium", "spread")
              /\ \A n \in Nodes : p[n] > 0 => n \notin ns
    PROVE  /\ Short(Cardinality(Slots(p, Nodes)))
           /\ f.cause \notin {"spread", "antiAffinity"} => Cardinality(Slots(p, Nodes)) = 0
<1> DEFINE all == AllCandidates(nodes, w)
           live == Candidates(nodes, ns, w)
           untainted(ms) == {n \in ms : ~nodes[n].tainted}
           pods == Cardinality(Slots(p, Nodes))
<1>1. f.severity # "low"
  OBVIOUS
<1>2. /\ w.kind # "DaemonSet" /\ w.replicas # 0 /\ w.defaultScheduler
      /\ \/ all = {}
         \/ \E s \in w.spreads :
                /\ f.cause = "spread" /\ s.hard /\ ~(s.ignoresSelector /\ w.selector)
                /\ \/ f = Finding("medium", "spread")
                   \/ SpreadInfeasible(Cardinality(Domains(nodes, all)), s, w)
         \/ /\ w.anti /\ \A n \in all : nodes[n].zone # Unset
            /\ f.cause = "antiAffinity"
            /\ \/ f.severity = "medium" /\ CapacityInfeasible(Cardinality(AntiAffinityDomains(nodes, live)), w)
               \/ CapacityInfeasible(Cardinality(AntiAffinityDomains(nodes, all)), w)
         \/ f.severity = "medium" /\ live = {}
         \/ f.cause = "tainted" /\ \A n \in live : nodes[n].tainted
  BY <1>1, SchedulingFinds
<1>3. /\ w.replicas \in Nat /\ w.replicas > 0
      /\ all \in SUBSET Nodes /\ DOMAIN nodes = Nodes
      /\ \A s \in w.spreads : s.skew \in Nat /\ s.minDomains \in Nat
  BY <1>2 DEF TypeInv, Setting, IsWorkload, IsSpread, AllCandidates
<1>4. /\ pods \in Nat
      /\ \A n \in Nodes : p[n] > 0 => n \in Usable /\ n \in all /\ ~nodes[n].tainted
  <2>1. \A n \in Nodes : p[n] \in Nat /\ On[n] \in Nat
    BY PodsAreOn
  <2>2. \A n \in Nodes : p[n] > 0 => n \in Usable
    BY <1>2, <2>1, PodsAreOn
  <2>3. pods \in Nat
    BY <2>1, ScenariosAssumption, SlotsAreFinite, FS_CardinalityType
  <2> QED
    BY <2>2, <2>3 DEF Usable
\* No Pod at all.
<1>5. ASSUME \A n \in Nodes : ~(p[n] > 0)
      PROVE  Short(pods) /\ pods = 0
  <2>1. \A n \in Nodes : p[n] = 0
    BY <1>5
  <2>2. pods = 0
    BY <2>1, NoSlots
  <2> QED
    BY <2>2, <1>3 DEF Short
<1> SUFFICES Short(pods) /\ (f.cause \notin {"spread", "antiAffinity"} => pods = 0)
  OBVIOUS
<1> HIDE DEF pods
<1>6. CASE all = {}
  BY <1>4, <1>5, <1>6
<1>7. ASSUME NEW s \in w.spreads, s.hard, ~(s.ignoresSelector /\ w.selector),
             SpreadInfeasible(Cardinality(Domains(nodes, all)), s, w)
      PROVE  Short(pods)
  <2> DEFINE zoned == {n \in all : nodes[n].zone # Unset}
             domains == Cardinality(Domains(nodes, all))
  <2>1. Eligible(s) = all
    BY <1>3, <1>7 DEF Eligible, AllCandidates
  <2>2. Domains(nodes, zoned) = Domains(nodes, all)
    BY DEF Domains
  <2>3. domains < s.minDomains /\ CapacityInfeasible(domains * s.skew, w)
    BY <1>7 DEF SpreadInfeasible
  <2>4. \A n \in Nodes : /\ \A rev \in Revisions : placed[rev][n] > 0 => nodes[n].zone # Unset
                         /\ nodes[n].zone # Unset => InZone(nodes[n].zone, all) <= s.skew
    BY <1>2, <1>7, <2>1, <2>3 DEF PlacedRight
  <2>5. \A n \in Nodes : p[n] > 0 => n \in zoned
    <3> SUFFICES ASSUME NEW n \in Nodes, p[n] > 0 PROVE nodes[n].zone # Unset
      BY <1>4
    <3>1. p[n] \in Nat /\ placed["old"][n] \in Nat /\ placed["new"][n] \in Nat
      BY PodsAreOn DEF Revisions
    <3>2. p[n] <= placed["old"][n] + placed["new"][n]
      BY DEF On
    <3>3. placed["old"][n] > 0 \/ placed["new"][n] > 0
      BY <3>1, <3>2
    <3> QED
      BY <3>3, <2>4 DEF Revisions
  <2>6. zoned \in SUBSET all /\ s.skew \in Nat
    BY <1>3
  <2>7. \A n \in zoned : nodes[n].zone # Unset /\ InZone(nodes[n].zone, all) <= s.skew
    BY <1>3, <2>4
  <2> HIDE DEF zoned
  <2>8. /\ Cardinality(Domains(nodes, zoned)) \in Nat
        /\ pods <= Cardinality(Domains(nodes, zoned)) * s.skew
    BY <1>3, <2>5, <2>6, <2>7, PodsFitZones DEF pods
  <2>9. domains \in Nat /\ pods <= domains * s.skew /\ domains * s.skew \in Nat
    BY <2>2, <2>6, <2>8
  <2> HIDE DEF domains
  <2> QED
    BY <1>2, <1>4, <2>3, <2>9, ShortIsShort
<1>8. ASSUME w.anti, \A n \in all : nodes[n].zone # Unset,
             NEW ms \in SUBSET all, \A n \in Nodes : p[n] > 0 => n \in ms,
             CapacityInfeasible(Cardinality(AntiAffinityDomains(nodes, ms)), w)
      PROVE  Short(pods)
  <2> DEFINE part == untainted(ms)
  <2>1. AntiAffinityDomains(nodes, ms) = Domains(nodes, part)
    BY DEF AntiAffinityDomains
  <2>2. /\ Nodes \in SUBSET Nodes /\ 1 \in Nat /\ part \in SUBSET Nodes
        /\ \A n \in part : nodes[n].zone # Unset /\ InZone(nodes[n].zone, Nodes) <= 1
    BY <1>2, <1>3, <1>8 DEF PlacedRight
  <2>3. \A n \in Nodes : p[n] > 0 => n \in part
    BY <1>4, <1>8
  <2> HIDE DEF part
  <2>4. /\ Cardinality(Domains(nodes, part)) \in Nat
        /\ pods <= Cardinality(Domains(nodes, part)) * 1
    BY <2>2, <2>3, PodsFitZones DEF pods
  <2> QED
    BY <1>2, <1>4, <1>8, <2>1, <2>4, ShortIsShort
<1>9. f.severity = "medium" => /\ f # Finding("medium", "spread")
                               /\ \A n \in Nodes : p[n] > 0 => n \in live
  BY <1>4 DEF Candidates
<1>10. CASE \E s \in w.spreads :
                /\ f.cause = "spread" /\ s.hard /\ ~(s.ignoresSelector /\ w.selector)
                /\ \/ f = Finding("medium", "spread")
                   \/ SpreadInfeasible(Cardinality(Domains(nodes, all)), s, w)
  <2>1. f # Finding("medium", "spread")
    BY <1>9 DEF Finding
  <2> QED
    BY <2>1, <1>7, <1>10
<1>11. CASE /\ w.anti /\ \A n \in all : nodes[n].zone # Unset
            /\ f.cause = "antiAffinity"
            /\ \/ f.severity = "medium" /\ CapacityInfeasible(Cardinality(AntiAffinityDomains(nodes, live)), w)
               \/ CapacityInfeasible(Cardinality(AntiAffinityDomains(nodes, all)), w)
  <2>1. live \in SUBSET all /\ all \in SUBSET all
    BY DEF Candidates
  <2>2. CASE CapacityInfeasible(Cardinality(AntiAffinityDomains(nodes, all)), w)
    BY <1>4, <1>8, <1>11, <2>1, <2>2
  <2>3. CASE f.severity = "medium" /\ CapacityInfeasible(Cardinality(AntiAffinityDomains(nodes, live)), w)
    BY <1>8, <1>9, <1>11, <2>1, <2>3
  <2> QED
    BY <1>11, <2>2, <2>3
<1>12. CASE f.severity = "medium" /\ live = {}
  BY <1>5, <1>9, <1>12
<1>13. CASE f.cause = "tainted" /\ \A n \in live : nodes[n].tainted
  <2>1. \A n \in Nodes : p[n] > 0 => n \in live
    BY <1>4, <1>13 DEF Candidates
  <2> QED
    BY <1>4, <1>5, <1>13, <2>1
<1> QED
  BY <1>2, <1>6, <1>10, <1>11, <1>12, <1>13

\* A finite set of naturals that is not empty has a largest member.  Of the
\* sets of members above some x, one has no strict subset among them.
LEMMA MaxIsLargest ==
    ASSUME NEW S, S \subseteq Nat, IsFiniteSet(S), S # {}
    PROVE  Max(S) \in S /\ \A y \in S : y <= Max(S)
<1> DEFINE Above(x) == {y \in S : y > x}
           F == {Above(x) : x \in S}
<1>1. F \subseteq FiniteSubsetsOf(S) /\ F # {}
  <2>1. \A x \in S : Above(x) \in SUBSET S
    OBVIOUS
  <2>2. \A x \in S : IsFiniteSet(Above(x))
    BY <2>1, FS_Subset
  <2> QED
    BY <2>1, <2>2 DEF FiniteSubsetsOf
<1>2. IsWellFoundedOn(StrictSubsetOrdering(S), FiniteSubsetsOf(S))
  BY FS_StrictSubsetOrderingWellFounded
<1>3. PICK A \in F : \A B \in F : <<B, A>> \notin StrictSubsetOrdering(S)
  <2> HIDE DEF F
  <2> QED
    BY <1>1, <1>2, WFMin
<1>4. PICK x \in S : A = Above(x)
  OBVIOUS
<1>5. \A y \in S : x >= y
  <2> SUFFICES ASSUME NEW y \in S, y > x
               PROVE  FALSE
    OBVIOUS
  <2>1. Above(y) \subseteq Above(x)
    <3>1. \A z \in S : z > y => z > x
      <4> HIDE DEF F
      <4> QED
        OBVIOUS
    <3> QED
      BY <3>1
  <2>2. y \in Above(x) /\ y \notin Above(y)
    OBVIOUS
  <2>3. <<Above(y), Above(x)>> \in StrictSubsetOrdering(S)
    <3>1. Above(y) \in SUBSET S /\ Above(x) \in SUBSET S
      OBVIOUS
    <3>2. Above(y) # Above(x)
      BY <2>2
    <3> HIDE DEF Above
    <3> QED
      BY <3>1, <3>2, <2>1 DEF StrictSubsetOrdering
  <2>4. Above(y) \in F
    OBVIOUS
  <2> QED
    BY <1>3, <1>4, <2>3, <2>4
<1> QED
  <2>1. \E m \in S : \A y \in S : m >= y
    BY <1>5
  <2> QED
    BY <2>1 DEF Max

\* What is too large for every node that lists its size fits no candidate, so that
\* no Pod is on one.
LEMMA CapacityKeepsOff ==
    ASSUME TypeInv, PlacedRight, NEW ns \in SUBSET Nodes,
           NodeCapacityFeasibility(nodes, ns, w).findings # {},
           NEW p \in [Nodes -> Nat], \A n \in Nodes : p[n] <= On[n],
           w.kind # "DaemonSet" => \A n \in ns : p[n] = 0
    PROVE  Cardinality(Slots(p, Nodes)) = 0
<1> DEFINE of == IF w.kind = "DaemonSet" THEN AllCandidates(nodes, w) ELSE Candidates(nodes, ns, w)
           sizes == {nodes[n].cpu : n \in of} \ {Unset}
<1>1. w.defaultScheduler /\ w.cpu # 0 /\ sizes # {} /\ w.cpu > Max(sizes)
  <2> DEFINE run == NodeCapacityFeasibility(nodes, ns, w)
  <2>1. /\ \A fs : Found(fs).findings = fs
        /\ Ok.findings = {} /\ Skip.findings = {}
    BY DEF Found, Ok, Skip
  <2>2. run = IF w.cpu = 0 \/ ~w.defaultScheduler THEN Ok
              ELSE IF DOMAIN nodes = {} THEN Skip
              ELSE IF of = {} THEN Ok
              ELSE IF sizes = {} THEN Skip
              ELSE IF w.cpu > Max(sizes) THEN Found({Finding("high", "capacity")})
              ELSE Ok
    BY DEF NodeCapacityFeasibility
  <2>3. run.findings # {}
    OBVIOUS
  <2> HIDE DEF run, of, sizes
  <2> QED
    BY <2>1, <2>2, <2>3
<1>2. /\ DOMAIN nodes = Nodes /\ w.cpu \in Nat
      /\ \A n \in Nodes : nodes[n].cpu = Unset \/ nodes[n].cpu \in Nat
  BY DEF TypeInv, Setting, IsNode, IsWorkload
<1>3. of \in SUBSET Nodes /\ IsFiniteSet(of)
  BY <1>2, ScenariosAssumption, FS_Subset DEF AllCandidates, Candidates
<1>4. sizes \subseteq Nat /\ IsFiniteSet(sizes)
  <2>1. sizes \subseteq Nat
    BY <1>2, <1>3
  <2>2. [n \in of |-> nodes[n].cpu] \in Surjection(of, {nodes[n].cpu : n \in of})
    BY DEF Surjection
  <2>3. IsFiniteSet({nodes[n].cpu : n \in of})
    BY <1>3, <2>2, FS_Surjection
  <2> QED
    BY <2>1, <2>3, FS_Subset
<1>5. Max(sizes) \in Nat /\ \A y \in sizes : y <= Max(sizes)
  <2> HIDE DEF sizes
  <2> QED
    BY <1>1, <1>4, MaxIsLargest
<1>6. \A n \in of : ~FitsNode(n)
  <2> SUFFICES ASSUME NEW n \in of, FitsNode(n) PROVE FALSE
    OBVIOUS
  <2>1. nodes[n].cpu \in sizes /\ w.cpu <= nodes[n].cpu
    BY <1>1 DEF FitsNode
  <2>2. nodes[n].cpu \in Nat
    BY <1>4, <2>1
  <2> HIDE DEF sizes, of
  <2> QED
    BY <1>1, <1>2, <1>5, <2>1, <2>2
<1>7. \A n \in Nodes : p[n] = 0
  <2> SUFFICES ASSUME NEW n \in Nodes, p[n] # 0 PROVE FALSE
    OBVIOUS
  <2>1. p[n] \in Nat /\ On[n] \in Nat
    BY PodsAreOn
  <2>2. On[n] > 0
    BY <2>1
  <2>3. n \in Usable
    BY <1>1, <2>2, PodsAreOn
  <2>4. n \in of
    BY <2>3 DEF Usable, Candidates
  <2> QED
    BY <1>6, <2>3, <2>4 DEF Usable
<1> QED
  BY <1>7, NoSlots

-----------------------------------------------------------------------------
(* What is said of the next rollout.                                        *)

Accused ==
    /\ Done("scheduling")
    /\ \E f \in report["scheduling"].findings : f.severity = "high" /\ f.cause # "tainted"

\* With at most one Pod of surge, and none evicted, a rollout that began at rest is
\* still where it began: no room for a Pod of the new template, and no Pod of the
\* old one that may go.
Stuck ==
    /\ Accused /\ w.surge <= 1
    /\ "rollout" \in since["scheduling"] /\ "evict" \notin since["scheduling"]
    => Bound("old") = w.replicas /\ Bound("new") = 0

DrainInv == TypeInv /\ PlacedRight /\ Listed /\ Stuck

\* A HIGH is about what the labels allow, whichever nodes are cordoned.
LEMMA HighIsTrue == TypeInv /\ PlacedRight /\ Listed => (Accused => Short(Available))
<1> SUFFICES ASSUME TypeInv, PlacedRight, Listed, Accused PROVE Short(Available)
  OBVIOUS
<1>1. ListedFor("scheduling")
  BY DEF Listed, Listings
<1>2. PICK ns \in SUBSET Nodes : report["scheduling"] = Answer("scheduling", ns)
  BY <1>1 DEF ListedFor, Accused
<1>3. PICK f \in report["scheduling"].findings : f.severity = "high" /\ f.cause # "tainted"
  BY DEF Accused
<1>4. f \in SchedulingConstraintsFeasibility(nodes, ns, w).findings
  BY <1>2, <1>3 DEF Answer
<1>5. On \in [Nodes -> Nat] /\ Available = Cardinality(Slots(On, Nodes))
  BY PodsAreOn
<1>6. \A n \in Nodes : On[n] <= On[n]
  BY <1>5
<1> QED
  BY <1>3, <1>4, <1>5, <1>6, RoomIsShort

LEMMA HighStaysTrue == (TypeInv /\ PlacedRight /\ Listed => (Accused => Short(Available)))'
BY HighIsTrue, PTL

LEMMA StuckStays ==
    ASSUME TypeInv, TypeInv', PlacedRight, PlacedRight', Listed, Listed', Stuck, [Next]_vars
    PROVE  Stuck'
<1>1. /\ w' = w
      /\ w.replicas \in Nat /\ w.surge \in Nat /\ w.unavailable \in Nat /\ w.recreate \in BOOLEAN
  BY PodsMove DEF TypeInv, Setting, IsWorkload
<1>2. Bound("old") \in Nat /\ Bound("new") \in Nat /\ Counts
  BY BoundIsNatural DEF TypeInv
<1>3. ListedFor("scheduling")
  BY DEF Listed, Listings
<1>4. SUFFICES ASSUME Accused', w.surge <= 1, "rollout" \in since'["scheduling"],
                      "evict" \notin since'["scheduling"]
               PROVE  Bound("old")' = w.replicas /\ Bound("new")' = 0
  BY <1>1 DEF Stuck
<1>5. Short(Available)'
  BY <1>4, HighStaysTrue
<1>6. (placed' = placed) => Bound("old")' = Bound("old") /\ Bound("new")' = Bound("new")
  BY DEF Bound
<1>7. stage' = stage /\ report' = report => Accused
  BY <1>4 DEF Accused, Done
<1>8. ASSUME stage' = stage, report' = report, since' = since, placed' = placed
      PROVE  Bound("old")' = w.replicas /\ Bound("new")' = 0
  BY <1>4, <1>6, <1>7, <1>8 DEF Stuck
<1>9. ASSUME NEW event, event # "rollout", since' = Noted(event), UNCHANGED <<stage, report, placed>>
      PROVE  Bound("old")' = w.replicas /\ Bound("new")' = 0
  <2>1. Accused /\ Done("scheduling")
    BY <1>7, <1>9 DEF Accused
  <2>2. since'["scheduling"] = since["scheduling"] \cup {event}
    BY <1>9, <2>1 DEF Noted, Listings
  <2> QED
    BY <1>4, <1>6, <1>9, <2>1, <2>2 DEF Stuck
<1>10. ASSUME NEW rev \in Revisions, NEW n \in Nodes, Schedule(rev, n)
       PROVE  FALSE
  <2>1. UNCHANGED <<stage, report, since>> /\ placed' = [placed EXCEPT ![rev][n] = @ + 1]
    BY <1>10 DEF Schedule
  <2>2. Bound("old") = w.replicas /\ Bound("new") = 0
    BY <1>4, <1>7, <2>1 DEF Stuck
  <2>3. Bound(rev)' = Bound(rev) + 1 /\ \A r \in Revisions \ {rev} : Bound(r)' = Bound(r)
    BY <1>2, <2>1, PodComes
  <2>4. Available' = w.replicas + 1
    <3>1. CASE rev = "old"
      <4>1. Bound("old")' = Bound("old") + 1 /\ Bound("new")' = Bound("new")
        BY <2>3, <3>1 DEF Revisions
      <4> QED
        BY <1>1, <2>2, <4>1 DEF Available
    <3>2. CASE rev = "new"
      <4>1. Bound("new")' = Bound("new") + 1 /\ Bound("old")' = Bound("old")
        BY <2>3, <3>2 DEF Revisions
      <4> QED
        BY <1>1, <2>2, <4>1 DEF Available
    <3> QED
      BY <3>1, <3>2 DEF Revisions
  <2>5. Available' < w.replicas \/ Available' < w.replicas + w.surge
    BY <1>1, <1>5 DEF Short
  <2> QED
    BY <1>1, <1>4, <2>4, <2>5
<1>11. CASE StartRollout
  <2>1. /\ ~rolling /\ UNCHANGED <<stage, report>>
        /\ since' = IF AtRest THEN Noted("rollout") ELSE since
        /\ ~w.recreate => placed' = placed
    BY <1>11 DEF StartRollout, clusterVars
  <2>2. AtRest
    BY <1>3, <1>4, <2>1 DEF ListedFor
  <2>3. Bound("old") = w.replicas /\ Bound("new") = 0
    <3>1. /\ Bound("old") = w.replicas
          /\ (Bound("old") + pending["old"]) + (Bound("new") + pending["new"]) = w.replicas
      BY <2>1, <2>2, AllPodsAre DEF AtRest, Current
    <3>2. pending["old"] \in Nat /\ pending["new"] \in Nat
      BY <1>2, BoundIsNatural
    <3> QED
      BY <1>1, <1>2, <3>1, <3>2
  <2>4. Short(Available) /\ Available = w.replicas
    BY <1>1, <1>7, <2>1, <2>3, HighIsTrue DEF Available
  <2>5. ~w.recreate
    BY <1>1, <2>4 DEF Short
  <2> QED
    BY <1>6, <2>1, <2>3, <2>5
<1>12. CASE ScaleDownOld
  <2>1. UNCHANGED <<stage, report, since>>
    BY <1>12 DEF ScaleDownOld, clusterVars
  <2>2. CASE placed' = placed
    BY <1>8, <2>1, <2>2
  <2>3. CASE ~w.recreate /\ Available > w.replicas - w.unavailable
    <3>1. Bound("old") = w.replicas /\ Bound("new") = 0 /\ Accused
      BY <1>4, <1>7, <2>1 DEF Stuck
    <3>2. Available = w.replicas /\ Short(Available)
      BY <1>1, <3>1, HighIsTrue DEF Available
    <3>3. w.unavailable = 0
      BY <1>1, <3>2 DEF Short
    <3> QED
      BY <1>1, <2>3, <3>2, <3>3
  <2> QED
    BY <1>12, <2>2, <2>3 DEF ScaleDownOld
<1>13. CASE \E n \in Nodes : Uncordon(n) \/ Drain(n)
  <2>1. UNCHANGED <<stage, report, placed>> /\ (since' = Noted("uncordon") \/ since' = Noted("cordon"))
    BY <1>13 DEF Uncordon, Drain, Operate
  <2> QED
    BY <1>9, <2>1
<1>14. ASSUME NEW rev \in Revisions, Evict(rev)
       PROVE  FALSE
  <2>1. since' = Noted("evict") /\ UNCHANGED <<stage, report>>
    BY <1>14 DEF Evict
  <2>2. Done("scheduling")
    BY <1>7, <2>1 DEF Accused
  <2> QED
    BY <1>4, <2>1, <2>2 DEF Noted, Listings
<1>15. CASE Resolve
  <2>1. stage' = 2
    BY <1>15 DEF Resolve
  <2> QED
    BY <1>4, <2>1, DoneIs DEF Accused
<1>16. CASE RunCheck
  <2>1. UNCHANGED <<since, placed>> /\ stage' = stage + 1 /\ stage \in 2..5
        /\ report' = [report EXCEPT ![Order[stage]] = Run(Order[stage])]
    <3>1. Len(Order) = 5
      BY DEF Order
    <3> QED
      BY <1>16, <3>1 DEF RunCheck
  <2>2. Done("scheduling")
    BY <1>3, <1>4, <2>1 DEF ListedFor
  <2>3. stage = 5 /\ Order[stage] = "capacity"
    <3>1. stage > 4
      BY <2>2, DoneIs
    <3> QED
      BY <2>1, <3>1 DEF Order
  <2>4. report'["scheduling"] = report["scheduling"]
    BY <2>1, <2>3 DEF TypeInv, Reports, Checks
  <2>5. Accused
    BY <1>4, <2>2, <2>4 DEF Accused
  <2> QED
    BY <1>4, <1>6, <2>1, <2>5 DEF Stuck
<1>17. CASE ScaleUpNew \/ DrainDone \/ SyncBudget \/ UNCHANGED vars
  <2>1. UNCHANGED <<stage, report, since, placed>>
    BY <1>17 DEF ScaleUpNew, DrainDone, SyncBudget, vars, clusterVars
  <2> QED
    BY <1>8, <2>1
<1> QED
  BY <1>10, <1>11, <1>12, <1>13, <1>14, <1>15, <1>16, <1>17 DEF Next

LEMMA InitDrain == Init => DrainInv
<1> SUFFICES ASSUME Init PROVE DrainInv
  OBVIOUS
<1>1. TypeInv
  BY InitTypes
<1>2. /\ \A rev \in Revisions, n \in Nodes : placed[rev][n] = 0
      /\ stage = 0 /\ rolling = FALSE
      /\ since = [c \in Listings |-> {}]
  BY DEF Init
<1>3. /\ \A n \in Nodes : On[n] = 0
      /\ \A rev \in Revisions, n \in Nodes : ~(placed[rev][n] > 0)
  BY <1>2 DEF On, Revisions
<1>4. \A z, ns : ns \in SUBSET Nodes => InZone(z, ns) = 0
  <2> TAKE z, ns
  <2> HAVE ns \in SUBSET Nodes
  <2> DEFINE part == {n \in ns : nodes[n].zone = z}
  <2>1. \A n \in part : On[n] = 0
    BY <1>3
  <2> HIDE DEF part
  <2>2. Cardinality(Slots(On, part)) = 0
    BY <2>1, NoSlots
  <2> QED
    BY <2>2 DEF InZone, part
<1>5. PlacedRight
  <2>1. \A s : Eligible(s) \in SUBSET Nodes
    <3>1. DOMAIN nodes = Nodes
      BY <1>1 DEF TypeInv, Setting
    <3> QED
      BY <3>1 DEF Eligible, AllCandidates
  <2>2. \A s \in w.spreads : s.skew \in Nat
    BY <1>1 DEF TypeInv, Setting, IsWorkload, IsSpread
  <2>3. /\ \A n \in Nodes : InZone(nodes[n].zone, Nodes) = 0
        /\ \A n \in Nodes, s \in w.spreads : InZone(nodes[n].zone, Eligible(s)) = 0
    BY <1>4, <2>1
  <2> QED
    BY <1>3, <2>2, <2>3 DEF PlacedRight
<1>6. ~Done("scheduling") /\ ~Done("capacity")
  BY <1>2, DoneIs
<1>7. Listed
  BY <1>2, <1>6 DEF Listed, ListedFor, Listings
<1>8. Stuck
  BY <1>6 DEF Stuck, Accused
<1> QED
  BY <1>1, <1>5, <1>7, <1>8 DEF DrainInv

LEMMA DrainStays == DrainInv /\ [Next]_vars => DrainInv'
BY TypesStay, PlacedStays, ListedStays, StuckStays DEF DrainInv

LEMMA DrainTells == DrainInv => FindingsHold
<1> SUFFICES ASSUME DrainInv PROVE HighIsFinal /\ FindingHolds
  BY DEF FindingsHold
<1>1. TypeInv /\ PlacedRight /\ Listed /\ Stuck
  BY DEF DrainInv
<1>2. /\ w.replicas \in Nat /\ w.surge \in Nat /\ w.unavailable \in Nat
      /\ Finished => rolling /\ Bound("new") = w.replicas
  BY <1>1 DEF TypeInv, Setting, IsWorkload, Finished, AtRest, Current
<1>3. HighIsFinal
  <2> SUFFICES ASSUME \E f \in report["scheduling"].findings : f.severity = "high" /\ f.cause # "tainted",
                      "rollout" \in since["scheduling"], "evict" \notin since["scheduling"],
                      w.surge <= 1
               PROVE  ~Finished
    BY DEF HighIsFinal
  <2>1. Done("scheduling")
    BY <1>1 DEF Listed, ListedFor, Listings
  <2>2. Accused
    BY <2>1 DEF Accused
  <2>3. Bound("new") = 0 /\ w.replicas > 0
    BY <1>1, <2>2, HighIsTrue DEF Stuck, Short
  <2> QED
    BY <1>2, <2>3
<1>4. ASSUME NEW c \in Listings, NEW f \in report[c].findings,
             f.severity \in {"medium", "high"}, w.replicas > 0,
             f.cause \in {"spread", "antiAffinity"} => w.unavailable > 0,
             f # Finding("medium", "spread"),
             "rollout" \in since[c], since[c] \cap {"evict", "uncordon"} = {}
      PROVE  ~Finished
  <2> DEFINE p == placed["new"]
  <2>1. ListedFor(c) /\ c \in {"scheduling", "capacity"}
    BY <1>1 DEF Listed, Listings
  <2>2. PICK ns \in SUBSET Nodes :
          /\ report[c] = Answer(c, ns)
          /\ w.defaultScheduler /\ w.kind # "DaemonSet" => \A n \in ns : p[n] = 0
    <3>1. Done(c) /\ "uncordon" \notin since[c]
      BY <1>4, <2>1 DEF ListedFor
    <3> QED
      BY <1>4, <2>1, <3>1 DEF ListedFor
  <2>3. /\ p \in [Nodes -> Nat] /\ \A n \in Nodes : p[n] <= On[n]
        /\ Bound("new") = Cardinality(Slots(p, Nodes))
    BY <1>1, PodsAreOn DEF Revisions
  <2> HIDE DEF p
  <2>4. CASE c = "scheduling"
    <3>1. f \in SchedulingConstraintsFeasibility(nodes, ns, w).findings /\ f.severity # "low"
      BY <1>4, <2>2, <2>4 DEF Answer
    <3>2. \A n \in Nodes : p[n] > 0 => n \notin ns
      <4>1. w.defaultScheduler /\ w.kind # "DaemonSet"
        BY <1>1, <3>1, SchedulingFinds
      <4> QED
        BY <2>2, <2>3, <4>1
    <3>3. /\ Short(Bound("new"))
          /\ f.cause \notin {"spread", "antiAffinity"} => Bound("new") = 0
      BY <1>1, <1>4, <2>3, <2>4, <3>1, <3>2, RoomIsShort
    <3> QED
      BY <1>2, <1>4, <2>4, <3>3 DEF Short
  <2>5. CASE c = "capacity"
    <3>1. NodeCapacityFeasibility(nodes, ns, w).findings # {}
      BY <1>4, <2>2, <2>5 DEF Answer
    <3>2. w.kind # "DaemonSet" => \A n \in ns : p[n] = 0
      <4>1. w.defaultScheduler
        BY <3>1 DEF NodeCapacityFeasibility, Ok, Found
      <4> QED
        BY <2>2, <4>1
    <3>3. Bound("new") = 0
      BY <1>1, <2>3, <3>1, <3>2, CapacityKeepsOff
    <3> QED
      BY <1>2, <1>4, <3>3
  <2> QED
    BY <2>1, <2>4, <2>5
<1>5. FindingHolds
  BY <1>4 DEF FindingHolds
<1> QED
  BY <1>3, <1>5

\* FindingsHold: what scheduling.go and nodecapacity.go report keeps the next rollout
\* from ending, whatever is cordoned, drained, evicted and scheduled meanwhile, on
\* any number of nodes and for any constraints: a HIGH about labels for good, the
\* rest until a node is uncordoned.
THEOREM FindingsAreTrue == Spec => []FindingsHold
BY InitDrain, DrainStays, DrainTells, PTL DEF Spec

=============================================================================
