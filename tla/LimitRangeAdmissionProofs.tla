--------------------- MODULE LimitRangeAdmissionProofs ---------------------
(***************************************************************************)
(* What the check limitrange-feasibility says holds for any number of      *)
(* LimitRanges, containers and quantities.  The argument: whatever the     *)
(* order, the admission ends with one of the pairs the check has tried,    *)
(* and the combined bounds refuse a pair exactly when one object does.     *)
(***************************************************************************)
EXTENDS LimitRangeAdmission, FiniteSetTheorems, WellFoundedInduction, TLAPS

(***************************************************************************)
(* Largest and smallest members                                            *)
(***************************************************************************)

\* A finite set of naturals that is not empty has a largest member.  Of the
\* sets of members above some x, one has no strict subset among them.
LEMMA MaxIsLargest ==
    ASSUME NEW S, S \subseteq Nat, IsFiniteSet(S), S # {}
    PROVE  Max(S) \in S /\ \A y \in S : y <= Max(S)
<1> DEFINE Above(x) == {y \in S : y > x}
           F == {Above(x) : x \in S}
<1>1. F \subseteq FiniteSubsetsOf(S) /\ F # {}
  <2>1. \A x \in S : Above(x) \in SUBSET S
    OBVIOUS
  <2>2. \A x \in S : IsFiniteSet(Above(x))
    BY <2>1, FS_Subset
  <2> QED
    BY <2>1, <2>2 DEF FiniteSubsetsOf
<1>2. IsWellFoundedOn(StrictSubsetOrdering(S), FiniteSubsetsOf(S))
  BY FS_StrictSubsetOrderingWellFounded
<1>3. PICK A \in F : \A B \in F : <<B, A>> \notin StrictSubsetOrdering(S)
  <2> HIDE DEF F
  <2> QED
    BY <1>1, <1>2, WFMin
<1>4. PICK x \in S : A = Above(x)
  OBVIOUS
<1>5. \A y \in S : x >= y
  <2> SUFFICES ASSUME NEW y \in S, y > x
               PROVE  FALSE
    OBVIOUS
  <2>1. Above(y) \subseteq Above(x)
    <3>1. \A z \in S : z > y => z > x
      <4> HIDE DEF F
      <4> QED
        OBVIOUS
    <3> QED
      BY <3>1
  <2>2. y \in Above(x) /\ y \notin Above(y)
    OBVIOUS
  <2>3. <<Above(y), Above(x)>> \in StrictSubsetOrdering(S)
    <3>1. Above(y) \in SUBSET S /\ Above(x) \in SUBSET S
      OBVIOUS
    <3>2. Above(y) # Above(x)
      BY <2>2
    <3> HIDE DEF Above
    <3> QED
      BY <3>1, <3>2, <2>1 DEF StrictSubsetOrdering
  <2>4. Above(y) \in F
    OBVIOUS
  <2> QED
    BY <1>3, <1>4, <2>3, <2>4
<1> QED
  <2>1. \E m \in S : \A y \in S : m >= y
    BY <1>5
  <2> QED
    BY <2>1 DEF Max

\* A set of naturals that is not empty has a smallest member: the family of
\* the members below some x, each of them finite, is treated the same way.
LEMMA MinIsSmallest ==
    ASSUME NEW S, S \subseteq Nat, IsFiniteSet(S), S # {}
    PROVE  Min(S) \in S /\ \A y \in S : Min(S) <= y
<1> DEFINE Below(x) == {y \in S : y < x}
           F == {Below(x) : x \in S}
<1>1. F \subseteq FiniteSubsetsOf(S) /\ F # {}
  <2>1. \A x \in S : Below(x) \in SUBSET S
    OBVIOUS
  <2>2. \A x \in S : IsFiniteSet(Below(x))
    BY <2>1, FS_Subset
  <2> QED
    BY <2>1, <2>2 DEF FiniteSubsetsOf
<1>2. IsWellFoundedOn(StrictSubsetOrdering(S), FiniteSubsetsOf(S))
  BY FS_StrictSubsetOrderingWellFounded
<1>3. PICK A \in F : \A B \in F : <<B, A>> \notin StrictSubsetOrdering(S)
  <2> HIDE DEF F
  <2> QED
    BY <1>1, <1>2, WFMin
<1>4. PICK x \in S : A = Below(x)
  OBVIOUS
<1>5. \A y \in S : x <= y
  <2> SUFFICES ASSUME NEW y \in S, y < x
               PROVE  FALSE
    OBVIOUS
  <2>1. Below(y) \subseteq Below(x)
    <3>1. \A z \in S : z < y => z < x
      <4> HIDE DEF F
      <4> QED
        OBVIOUS
    <3> QED
      BY <3>1
  <2>2. y \in Below(x) /\ y \notin Below(y)
    OBVIOUS
  <2>3. <<Below(y), Below(x)>> \in StrictSubsetOrdering(S)
    <3>1. Below(y) \in SUBSET S /\ Below(x) \in SUBSET S
      OBVIOUS
    <3>2. Below(y) # Below(x)
      BY <2>2
    <3> HIDE DEF Below
    <3> QED
      BY <3>1, <3>2, <2>1 DEF StrictSubsetOrdering
  <2>4. Below(y) \in F
    OBVIOUS
  <2> QED
    BY <1>3, <1>4, <2>3, <2>4
<1> QED
  <2>1. \E m \in S : \A y \in S : m <= y
    BY <1>5
  <2> QED
    BY <2>1 DEF Min

(***************************************************************************)
(* Combined bounds                                                         *)
(***************************************************************************)

Bounds == {"min", "max", "default", "defaultRequest", "ratio"}

\* The values stated for a field are finitely many naturals.
LEMMA StatedFinite ==
    ASSUME TypeOK, NEW field \in Bounds
    PROVE  Stated(field) \subseteq Nat /\ IsFiniteSet(Stated(field))
<1> DEFINE D == {x \in Contributing : item[x][field] # None}
           f == [o \in D |-> item[o][field]]
<1>1. \A o \in D : item[o] \in Fields
  BY DEF TypeOK, Items, Contributing
<1>2. \A o \in D : item[o][field] \in Nat
  BY <1>1, QuantityAssumption DEF Fields, Bounds
<1>3. IsFiniteSet(D)
  <2>1. D \in SUBSET LimitRanges
    BY DEF Contributing
  <2> QED
    BY <2>1, FS_Subset, QuantityAssumption
<1>4. Stated(field) = {item[o][field] : o \in D}
  BY DEF Stated
<1>5. f \in Surjection(D, Stated(field))
  <2> HIDE DEF D
  <2> QED
    BY <1>4 DEF Surjection
<1>6. IsFiniteSet(Stated(field))
  <2> HIDE DEF f, D
  <2> QED
    BY <1>3, <1>5, FS_Surjection
<1> QED
  BY <1>2, <1>4, <1>6

\* A pair of values breaks the combined bounds exactly when one LimitRange
\* refuses it.
LEMMA CombinedBoundsAreExact ==
    ASSUME TypeOK, NEW v \in Resources
    PROVE  EvaluateCombo(v.limit, v.request, CombinedMin, CombinedMax, CombinedRatio)
             <=> \E o \in Contributing : Refuses(item[o], v)
<1> DEFINE l == v.limit
           r == v.request
<1>0. l \in Nat \cup {None} /\ r \in Nat \cup {None} /\ None \notin Nat
  BY QuantityAssumption DEF Resources
<1>1. \A o \in Contributing : item[o] \in Fields
  BY DEF TypeOK, Items, Contributing
<1>2. \A o \in Contributing : /\ item[o].min \in Nat \cup {None}
                              /\ item[o].max \in Nat \cup {None}
                              /\ item[o].ratio \in Nat \cup {None}
  BY <1>1, QuantityAssumption DEF Fields
<1>3. /\ CombinedMin \in Nat \cup {None}
      /\ CombinedMin = None => \A o \in Contributing : item[o].min = None
      /\ CombinedMin # None =>
           /\ \E o \in Contributing : item[o].min = CombinedMin
           /\ \A o \in Contributing : item[o].min # None => item[o].min <= CombinedMin
  <2>1. Stated("min") \subseteq Nat /\ IsFiniteSet(Stated("min"))
    BY StatedFinite DEF Bounds
  <2>2. Stated("min") = {item[o].min : o \in {x \in Contributing : item[x].min # None}}
    BY DEF Stated
  <2>3. CASE Stated("min") = {}
    BY <2>2, <2>3 DEF CombinedMin
  <2>4. CASE Stated("min") # {}
    <3>1. Max(Stated("min")) \in Stated("min") /\ \A y \in Stated("min") : y <= Max(Stated("min"))
      BY <2>1, <2>4, MaxIsLargest
    <3>2. CombinedMin = Max(Stated("min"))
      BY <2>4 DEF CombinedMin
    <3> QED
      BY <1>0, <2>1, <2>2, <3>1, <3>2
  <2> QED
    BY <2>3, <2>4
<1>4. /\ CombinedMax \in Nat \cup {None}
      /\ CombinedMax = None => \A o \in Contributing : item[o].max = None
      /\ CombinedMax # None =>
           /\ \E o \in Contributing : item[o].max = CombinedMax
           /\ \A o \in Contributing : item[o].max # None => CombinedMax <= item[o].max
  <2>1. Stated("max") \subseteq Nat /\ IsFiniteSet(Stated("max"))
    BY StatedFinite DEF Bounds
  <2>2. Stated("max") = {item[o].max : o \in {x \in Contributing : item[x].max # None}}
    BY DEF Stated
  <2>3. CASE Stated("max") = {}
    BY <2>2, <2>3 DEF CombinedMax
  <2>4. CASE Stated("max") # {}
    <3>1. Min(Stated("max")) \in Stated("max") /\ \A y \in Stated("max") : Min(Stated("max")) <= y
      BY <2>1, <2>4, MinIsSmallest
    <3>2. CombinedMax = Min(Stated("max"))
      BY <2>4 DEF CombinedMax
    <3> QED
      BY <1>0, <2>1, <2>2, <3>1, <3>2
  <2> QED
    BY <2>3, <2>4
<1>5. /\ CombinedRatio \in Nat \cup {None}
      /\ CombinedRatio = None => \A o \in Contributing : item[o].ratio = None
      /\ CombinedRatio # None =>
           /\ \E o \in Contributing : item[o].ratio = CombinedRatio
           /\ \A o \in Contributing : item[o].ratio # None => CombinedRatio <= item[o].ratio
  <2>1. Stated("ratio") \subseteq Nat /\ IsFiniteSet(Stated("ratio"))
    BY StatedFinite DEF Bounds
  <2>2. Stated("ratio") = {item[o].ratio : o \in {x \in Contributing : item[x].ratio # None}}
    BY DEF Stated
  <2>3. CASE Stated("ratio") = {}
    BY <2>2, <2>3 DEF CombinedRatio
  <2>4. CASE Stated("ratio") # {}
    <3>1. Min(Stated("ratio")) \in Stated("ratio") /\ \A y \in Stated("ratio") : Min(Stated("ratio")) <= y
      BY <2>1, <2>4, MinIsSmallest
    <3>2. CombinedRatio = Min(Stated("ratio"))
      BY <2>4 DEF CombinedRatio
    <3> QED
      BY <1>0, <2>1, <2>2, <3>1, <3>2
  <2> QED
    BY <2>3, <2>4
<1> DEFINE BelowMin(m) == m # None /\ (r = None \/ (r # None /\ r < m) \/ (l # None /\ l < m))
           AboveMax(m) == m # None /\ (l = None \/ (l # None /\ l > m) \/ (r # None /\ r > m))
           OffRatio(m) == m # None /\ (r \in {None, 0} \/ l \in {None, 0}
                                       \/ (l # None /\ r # None /\ l > m * r))
<1>6. EvaluateCombo(l, r, CombinedMin, CombinedMax, CombinedRatio)
        <=> BelowMin(CombinedMin) \/ AboveMax(CombinedMax) \/ OffRatio(CombinedRatio)
  BY DEF EvaluateCombo
<1>7. \A o \in Contributing :
        Refuses(item[o], v) <=> \/ BelowMin(item[o].min)
                                \/ AboveMax(item[o].max)
                                \/ OffRatio(item[o].ratio)
  BY <1>0, <1>2 DEF Refuses, AtMost
<1>8. BelowMin(CombinedMin) <=> \E o \in Contributing : BelowMin(item[o].min)
  BY <1>0, <1>2, <1>3
<1>9. AboveMax(CombinedMax) <=> \E o \in Contributing : AboveMax(item[o].max)
  BY <1>0, <1>2, <1>4
<1>10. OffRatio(CombinedRatio) <=> \E o \in Contributing : OffRatio(item[o].ratio)
  <2>1. \A a, b \in Nat : a <= b /\ r \in Nat => a * r <= b * r
    OBVIOUS
  <2>2. \A a, b \in Nat : a <= b /\ OffRatio(b) => OffRatio(a)
    <3>1. \A a, b \in Nat : r \in Nat => a * r \in Nat /\ b * r \in Nat
      OBVIOUS
    <3> QED
      BY <1>0, <2>1, <3>1
  <2>3. ~OffRatio(None)
    OBVIOUS
  <2> HIDE DEF OffRatio
  <2> QED
    BY <1>0, <1>2, <1>5, <2>2, <2>3
<1> HIDE DEF BelowMin, AboveMax, OffRatio
<1> QED
  BY <1>6, <1>7, <1>8, <1>9, <1>10

(***************************************************************************)
(* The inductive invariant                                                 *)
(***************************************************************************)

\* Every value of the Pod comes from where the check looks for it.
Sourced ==
    phase # "idle" =>
        \A c \in Containers :
            /\ declared[c].limit # None => pod[c].limit = declared[c].limit
            /\ declared[c].limit = None => pod[c].limit \in Stated("default") \cup {None}
            /\ declared[c].request # None => pod[c].request = declared[c].request
            /\ declared[c].request = None /\ declared[c].limit # None =>
                   pod[c].request = declared[c].limit
            /\ declared[c].request = None /\ declared[c].limit = None =>
                   pod[c].request \in Stated("defaultRequest") \cup {None}

\* A value that is still absent was stated by none of the merged LimitRanges.
Merged ==
    phase # "idle" =>
        \A c \in Containers, o \in Contributing \ unmerged :
            /\ pod[c].limit = None => item[o].default = None
            /\ pod[c].request = None => item[o].defaultRequest = None

\* A decision is about a Pod with everything merged, and follows the objects.
Decided ==
    /\ phase \in {"admitted", "refused", "invalid"} => unmerged = {}
    /\ phase \in {"admitted", "invalid"} =>
           \A o \in Contributing, c \in Containers : ~Refuses(item[o], pod[c])
    /\ phase = "refused" =>
           \E o \in Contributing, c \in Containers : Refuses(item[o], pod[c])

\* A verdict is what the check computes from the objects and the template.
Read ==
    \A c \in Containers :
        verdict[c] \notin {"unread", "skipped"} => verdict[c] = EvaluateContainer(c)

IInv == TypeOK /\ Sourced /\ Merged /\ Decided /\ Read

\* The candidates of a container are never none.
LEMMA CandidatesExist == Candidates
BY DEF Candidates, LimitCandidates, RequestCandidates, OrAbsent

\* The variables keep their types, for any objects, containers and quantities.
THEOREM TypeInvariant == Spec => []TypeOK
<1>1. Init => TypeOK
  BY CandidatesExist DEF Init, TypeOK, Resources
<1>2. TypeOK /\ [Next]_vars => TypeOK'
  <2> SUFFICES ASSUME TypeOK, [Next]_vars
               PROVE  TypeOK'
    OBVIOUS
  <2> USE DEF TypeOK
  <2>0. Candidates'
    BY CandidatesExist, PTL
  <2>1. CASE RunCheck
    <3>1. \A c \in Containers : EvaluateContainer(c) \in {"none", "LOW", "MEDIUM", "HIGH"}
      BY DEF EvaluateContainer
    <3> QED
      BY <2>0, <2>1, <3>1 DEF RunCheck, Contributing
  <2>2. CASE CreatePod
    <3>1. pod' \in [Containers -> Resources]
      BY <2>2 DEF CreatePod, Resources
    <3> QED
      BY <2>0, <2>2, <3>1 DEF CreatePod, Contributing
  <2>3. ASSUME NEW o \in LimitRanges, Merge(o)
        PROVE  TypeOK'
    <3>1. o \in Contributing /\ item[o] \in Fields
      BY <2>3 DEF Merge, Contributing, Items
    <3>2. pod' \in [Containers -> Resources]
      BY <2>3, <3>1 DEF Merge, Resources, Fields
    <3> QED
      BY <2>0, <2>3, <3>2 DEF Merge, Contributing
  <2>4. CASE Validate
    BY <2>0, <2>4 DEF Validate, Contributing
  <2>5. CASE UNCHANGED vars
    BY <2>0, <2>5 DEF vars, Contributing
  <2> QED
    BY <2>1, <2>2, <2>3, <2>4, <2>5 DEF Next
<1> QED
  BY <1>1, <1>2, PTL DEF Spec

\* The objects and the template do not change under the Pod, so nothing the
\* check computes from them does.
LEMMA ObjectsStay ==
    ASSUME [Next]_vars
    PROVE  /\ item' = item /\ declared' = declared
           /\ Contributing' = Contributing
           /\ \A field : Stated(field)' = Stated(field)
           /\ \A c \in Containers : EvaluateContainer(c)' = EvaluateContainer(c)
<1>1. item' = item /\ declared' = declared
  BY DEF Next, vars, RunCheck, CreatePod, Merge, Validate
<1>2. Contributing' = Contributing
  BY <1>1 DEF Contributing
<1>3. \A field : Stated(field)' = Stated(field)
  BY <1>1, <1>2 DEF Stated
<1>4. ASSUME NEW c \in Containers
      PROVE  EvaluateContainer(c)' = EvaluateContainer(c)
  <2>1. /\ CombinedMin' = CombinedMin
        /\ CombinedMax' = CombinedMax
        /\ CombinedRatio' = CombinedRatio
    BY <1>3 DEF CombinedMin, CombinedMax, CombinedRatio
  <2>2. /\ LimitCandidates(c)' = LimitCandidates(c)
        /\ RequestCandidates(c)' = RequestCandidates(c)
    BY <1>1, <1>3 DEF LimitCandidates, RequestCandidates, OrAbsent
  <2>3. Combos(c)' = Combos(c) /\ HasBound' = HasBound /\ Defaulted(c)' = Defaulted(c)
    BY <1>1, <2>1, <2>2 DEF Combos, HasBound, Defaulted
  <2>4. Violating(c)' = Violating(c)
    BY <2>1, <2>3 DEF Violating
  <2> QED
    BY <2>3, <2>4 DEF EvaluateContainer
<1> QED
  BY <1>1, <1>2, <1>3, <1>4

\* Every step keeps the inductive invariant.
LEMMA Inductive == Spec => []IInv
<1>1. Init => IInv
  <2> SUFFICES ASSUME Init
               PROVE  IInv
    OBVIOUS
  <2>1. TypeOK
    BY CandidatesExist DEF Init, TypeOK, Resources
  <2> QED
    BY <2>1 DEF Init, IInv, Sourced, Merged, Decided, Read
<1>2. TypeOK /\ TypeOK' /\ IInv /\ [Next]_vars => IInv'
  <2> SUFFICES ASSUME TypeOK, TypeOK', IInv, [Next]_vars
               PROVE  IInv'
    OBVIOUS
  <2>0. /\ item' = item /\ declared' = declared /\ Contributing' = Contributing
        /\ \A field : Stated(field)' = Stated(field)
        /\ \A c \in Containers : EvaluateContainer(c)' = EvaluateContainer(c)
    BY ObjectsStay
  <2>1. CASE RunCheck
    <3>1. Read'
      BY <2>0, <2>1 DEF Read, RunCheck
    <3> QED
      BY <2>0, <2>1, <3>1 DEF IInv, Sourced, Merged, Decided, RunCheck
  <2>2. CASE CreatePod
    <3>1. \A c \in Containers :
            /\ pod'[c].limit = declared[c].limit
            /\ pod'[c].request = IF declared[c].request = None THEN declared[c].limit
                                 ELSE declared[c].request
      BY <2>2 DEF CreatePod, TypeOK, Resources
    <3>2. Sourced'
      BY <2>0, <3>1 DEF Sourced
    <3>3. Merged'
      BY <2>0, <2>2 DEF Merged, CreatePod
    <3> QED
      BY <2>0, <2>2, <3>2, <3>3 DEF IInv, Decided, Read, CreatePod
  <2>3. ASSUME NEW o \in LimitRanges, Merge(o)
        PROVE  IInv'
    <3>1. /\ phase = "merging" /\ phase' = "merging" /\ o \in Contributing
          /\ unmerged' = unmerged \ {o}
          /\ \A c \in Containers :
               /\ pod'[c].limit = IF pod[c].limit = None THEN item[o].default ELSE pod[c].limit
               /\ pod'[c].request = IF pod[c].request = None THEN item[o].defaultRequest
                                    ELSE pod[c].request
      BY <2>3 DEF Merge, TypeOK
    <3>2. /\ item[o].default \in Stated("default") \cup {None}
          /\ item[o].defaultRequest \in Stated("defaultRequest") \cup {None}
      <4>1. item[o]["default"] \in Stated("default") \cup {None}
        BY <3>1 DEF Stated
      <4>2. item[o]["defaultRequest"] \in Stated("defaultRequest") \cup {None}
        BY <3>1 DEF Stated
      <4> QED
        BY <4>1, <4>2
    <3>3. Sourced'
      <4> SUFFICES ASSUME NEW c \in Containers
                   PROVE  /\ declared[c].limit # None => pod'[c].limit = declared[c].limit
                          /\ declared[c].limit = None =>
                                 pod'[c].limit \in Stated("default") \cup {None}
                          /\ declared[c].request # None =>
                                 pod'[c].request = declared[c].request
                          /\ declared[c].request = None /\ declared[c].limit # None =>
                                 pod'[c].request = declared[c].limit
                          /\ declared[c].request = None /\ declared[c].limit = None =>
                                 pod'[c].request \in Stated("defaultRequest") \cup {None}
        BY <2>0 DEF Sourced
      <4> QED
        BY <3>1, <3>2 DEF IInv, Sourced
    <3>4. Merged'
      <4> SUFFICES ASSUME NEW c \in Containers, NEW p \in Contributing \ unmerged'
                   PROVE  /\ pod'[c].limit = None => item[p].default = None
                          /\ pod'[c].request = None => item[p].defaultRequest = None
        BY <2>0 DEF Merged
      <4>1. CASE p = o
        BY <3>1, <4>1
      <4>2. CASE p # o
        BY <3>1, <4>2 DEF IInv, Merged
      <4> QED
        BY <4>1, <4>2
    <3>5. Decided' /\ Read'
      BY <2>0, <2>3, <3>1 DEF IInv, Decided, Read, Merge
    <3> QED
      BY <3>3, <3>4, <3>5 DEF IInv
  <2>4. CASE Validate
    <3>1. Decided'
      BY <2>0, <2>4 DEF Decided, Validate
    <3> QED
      BY <2>0, <2>4, <3>1 DEF IInv, Sourced, Merged, Read, Validate
  <2>5. CASE UNCHANGED vars
    BY <2>0, <2>5 DEF IInv, Sourced, Merged, Decided, Read, vars
  <2> QED
    BY <2>1, <2>2, <2>3, <2>4, <2>5 DEF Next
<1> QED
  BY <1>1, <1>2, TypeInvariant, PTL DEF Spec

(***************************************************************************)
(* The theorems                                                            *)
(***************************************************************************)

\* With everything merged, the Pod is one of the combinations the check tried.
LEMMA PodIsACombo ==
    ASSUME IInv, phase \in {"admitted", "refused", "invalid"}, NEW c \in Containers
    PROVE  <<pod[c].limit, pod[c].request>> \in Combos(c)
<1>1. unmerged = {}
  BY DEF IInv, Decided
<1>2. pod[c].limit \in LimitCandidates(c)
  <2>1. pod[c].limit = None => Stated("default") = {}
    <3>1. pod[c].limit = None => \A o \in Contributing : item[o]["default"] = None
      BY <1>1 DEF IInv, Merged
    <3> QED
      BY <3>1 DEF Stated
  <2> QED
    BY <2>1 DEF IInv, Sourced, LimitCandidates, OrAbsent
<1>3. pod[c].request \in RequestCandidates(c)
  <2>1. pod[c].request = None => Stated("defaultRequest") = {}
    <3>1. pod[c].request = None => \A o \in Contributing : item[o]["defaultRequest"] = None
      BY <1>1 DEF IInv, Merged
    <3> QED
      BY <3>1 DEF Stated
  <2> QED
    BY <2>1 DEF IInv, Sourced, RequestCandidates, OrAbsent
<1> QED
  BY <1>2, <1>3 DEF Combos

\* The check finds a container's final pair violating exactly when one of the
\* LimitRanges refuses the container.
LEMMA ViolatingIsRefused ==
    ASSUME IInv, phase \in {"admitted", "refused", "invalid"}, NEW c \in Containers
    PROVE  <<pod[c].limit, pod[c].request>> \in Violating(c)
             <=> \E o \in Contributing : Refuses(item[o], pod[c])
<1>1. <<pod[c].limit, pod[c].request>> \in Combos(c)
  BY PodIsACombo
<1>2. pod[c] \in Resources /\ TypeOK
  BY DEF IInv, TypeOK
<1>3. EvaluateCombo(pod[c].limit, pod[c].request, CombinedMin, CombinedMax, CombinedRatio)
        <=> \E o \in Contributing : Refuses(item[o], pod[c])
  BY <1>2, CombinedBoundsAreExact
<1> QED
  BY <1>1, <1>3 DEF Violating

\* HIGH is a promise: for any set of LimitRanges and any order the admission
\* takes them in, a Pod with a container the check rates HIGH is never admitted.
THEOREM HighMeansRefused == Spec => []HighIsRefused
<1>1. IInv => HighIsRefused
  <2> SUFFICES ASSUME IInv, NEW c \in Containers, verdict[c] = "HIGH",
                      phase \in {"admitted", "invalid"}
               PROVE  FALSE
    BY DEF HighIsRefused, IInv, TypeOK
  <2>1. Violating(c) = Combos(c)
    BY DEF IInv, Read, EvaluateContainer
  <2>2. \E o \in Contributing : Refuses(item[o], pod[c])
    BY <2>1, PodIsACombo, ViolatingIsRefused
  <2> QED
    BY <2>2 DEF IInv, Decided
<1> QED
  BY <1>1, Inductive, PTL

\* Silence is one too: when no container is rated MEDIUM or HIGH, no order of
\* the LimitRanges refuses the Pod.
THEOREM QuietMeansNotRefused == Spec => []QuietIsNotRefused
<1>1. IInv => QuietIsNotRefused
  <2> SUFFICES ASSUME IInv, \A c \in Containers : verdict[c] \in {"none", "LOW"},
                      phase = "refused"
               PROVE  FALSE
    BY DEF QuietIsNotRefused
  <2>1. PICK o \in Contributing, c \in Containers : Refuses(item[o], pod[c])
    BY DEF IInv, Decided
  <2>2. <<pod[c].limit, pod[c].request>> \in Violating(c)
    BY <2>1, ViolatingIsRefused
  <2>3. HasBound
    BY <2>2 DEF Violating, EvaluateCombo, HasBound
  <2>4. EvaluateContainer(c) \in {"none", "LOW"}
    BY DEF IInv, Read
  <2> QED
    BY <2>2, <2>3, <2>4 DEF EvaluateContainer
<1> QED
  BY <1>1, Inductive, PTL

\* A container without a Finding is admitted as its manifest has it, when a
\* LimitRange bounds the resource.
THEOREM UnreportedMeansVerbatim == Spec => []UnreportedIsVerbatim
<1>1. IInv => UnreportedIsVerbatim
  <2> SUFFICES ASSUME IInv, NEW c \in Containers, HasBound, verdict[c] = "none",
                      phase = "admitted"
               PROVE  pod[c] = declared[c]
    BY DEF UnreportedIsVerbatim
  <2>1. ~Defaulted(c)
    BY DEF IInv, Read, EvaluateContainer
  <2>2. /\ pod[c].limit \in LimitCandidates(c)
        /\ pod[c].request \in RequestCandidates(c)
    BY PodIsACombo DEF Combos
  <2>3. pod[c].limit = declared[c].limit /\ pod[c].request = declared[c].request
    BY <2>1, <2>2 DEF Defaulted, LimitCandidates, RequestCandidates
  <2> QED
    BY <2>3 DEF IInv, TypeOK, Resources
<1> QED
  BY <1>1, Inductive, PTL
=============================================================================
