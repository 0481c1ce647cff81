------------------------- MODULE LimitRangeAdmission -------------------------
(***************************************************************************)
(* The check limitrange-feasibility (internal/check/limitrange.go) beside  *)
(* the admission it predicts.  The check reads the LimitRanges of the      *)
(* namespace once, reduces them to one bound per field and tries every     *)
(* pair of a limit and a request a container can end up with.  The API     *)
(* server does something else: it copies limits to requests, fills what is *)
(* missing from one LimitRange after another, in an order nobody controls, *)
(* and then holds the result against each LimitRange by itself.            *)
(*                                                                         *)
(* One resource key: the check and the admission treat every key of a      *)
(* container alone, and a Pod passes when all of them do.                  *)
(***************************************************************************)
EXTENDS Integers, FiniteSets, FiniteSetsExt

CONSTANTS LimitRanges,   \* names of the LimitRange objects of the namespace
          Containers,    \* containers and init containers of the pod template
          Amounts,       \* quantities an object or a manifest can state
          Ratios,        \* values of maxLimitRequestRatio
          None           \* a field that is not set

ASSUME QuantityAssumption ==
    /\ Amounts \subseteq Nat
    /\ Ratios \subseteq Nat
    /\ None \notin Nat
    /\ IsFiniteSet(LimitRanges)

VARIABLES item,       \* item[o]: the item of type Container of LimitRange o, or None
          declared,   \* declared[c]: limit and request in the pod template
          verdict,    \* verdict[c]: the severity of the check's Finding about c
          pod,        \* pod[c]: limit and request of the Pod being admitted
          unmerged,   \* LimitRanges the admission has not applied to that Pod yet
          phase       \* where the Pod is in the API server

vars == <<item, declared, verdict, pod, unmerged, phase>>

Fields == [min : Amounts \cup {None}, max : Amounts \cup {None},
           default : Amounts \cup {None}, defaultRequest : Amounts \cup {None},
           ratio : Ratios \cup {None}]

Resources == [limit : Amounts \cup {None}, request : Amounts \cup {None}]

\* a, when it is set, does not exceed b, when b is set
AtMost(a, b) == a # None /\ b # None => a <= b

(***************************************************************************)
(* The objects of the namespace as the API server stores them (external)   *)
(***************************************************************************)

\* max fills default, default fills defaultRequest, then min does.
Backfilled(f) ==
    LET d == IF f.default = None THEN f.max ELSE f.default
        r == IF f.defaultRequest # None THEN f.defaultRequest
             ELSE IF d # None THEN d ELSE f.min
    IN  [f EXCEPT !.default = d, !.defaultRequest = r]

ValidItem(f) ==
    /\ AtMost(f.min, f.max)
    /\ AtMost(f.min, f.defaultRequest) /\ AtMost(f.min, f.default)
    /\ AtMost(f.defaultRequest, f.default)
    /\ AtMost(f.defaultRequest, f.max) /\ AtMost(f.default, f.max)
    /\ f.ratio # None => f.ratio >= 1
    /\ f.ratio # None /\ f.min # None /\ f.max # None => f.ratio * f.min <= f.max

Items == {f \in Fields : Backfilled(f) = f /\ ValidItem(f)}

(***************************************************************************)
(* What the check computes                                                 *)
(***************************************************************************)

\* containerLimitItems: the objects that contribute an item
Contributing == {o \in LimitRanges : item[o] # None}

\* the values the items state for a field
Stated(field) == {item[o][field] : o \in {x \in Contributing : item[x][field] # None}}

\* Mutant: of several minimums the smallest is kept.
LooseMin == IF Stated("min") = {} THEN None ELSE Min(Stated("min"))

\* combinedBound with mostRestrictiveMin, and with mostRestrictiveMax
CombinedMin == IF Stated("min") = {} THEN None ELSE Max(Stated("min"))
CombinedMax == IF Stated("max") = {} THEN None ELSE Min(Stated("max"))
CombinedRatio == IF Stated("ratio") = {} THEN None ELSE Min(Stated("ratio"))

\* Mutant: without a default there is no candidate.
NoneIfEmpty(values) == values

OrAbsent(values) == IF values = {} THEN {None} ELSE values

LimitCandidates(c) ==
    IF declared[c].limit # None THEN {declared[c].limit}
    ELSE OrAbsent(Stated("default"))

RequestCandidates(c) ==
    IF declared[c].request # None THEN {declared[c].request}
    ELSE IF declared[c].limit # None THEN {declared[c].limit}
    ELSE OrAbsent(Stated("defaultRequest"))

\* evaluateCombo: the pair (l, r) breaks one of the bounds
EvaluateCombo(l, r, min, max, ratio) ==
    \/ /\ min # None
       /\ \/ r = None
          \/ r # None /\ r < min
          \/ l # None /\ l < min
    \/ /\ max # None
       /\ \/ l = None
          \/ l # None /\ l > max
          \/ r # None /\ r > max
    \/ /\ ratio # None
       /\ \/ r \in {None, 0}
          \/ l \in {None, 0}
          \/ l # None /\ r # None /\ l > ratio * r

Combos(c) == LimitCandidates(c) \X RequestCandidates(c)

Violating(c) ==
    {p \in Combos(c) : EvaluateCombo(p[1], p[2], CombinedMin, CombinedMax, CombinedRatio)}

\* Mutant: a defaulted request is not noticed.
LimitDefaulted(c) == declared[c].limit = None /\ LimitCandidates(c) # {None}

Defaulted(c) ==
    \/ declared[c].limit = None /\ LimitCandidates(c) # {None}
    \/ declared[c].request = None /\ RequestCandidates(c) # {None}

HasBound == CombinedMin # None \/ CombinedMax # None \/ CombinedRatio # None

\* Mutant: one violating combination is enough for HIGH.
HastyEvaluateContainer(c) ==
    IF ~HasBound THEN "none"
    ELSE IF Violating(c) = {} THEN IF Defaulted(c) THEN "LOW" ELSE "none"
    ELSE "HIGH"

\* evaluateContainer, for one key
EvaluateContainer(c) ==
    IF ~HasBound THEN "none"
    ELSE IF Violating(c) = {} THEN IF Defaulted(c) THEN "LOW" ELSE "none"
    ELSE IF Violating(c) # Combos(c) THEN "MEDIUM"
    ELSE "HIGH"

(***************************************************************************)
(* The behaviour                                                           *)
(***************************************************************************)

Init ==
    /\ item \in [LimitRanges -> Items \cup {None}]
    /\ declared \in [Containers -> {d \in Resources : AtMost(d.request, d.limit)}]
    /\ verdict = [c \in Containers |-> "unread"]
    /\ pod = declared
    /\ unmerged = {}
    /\ phase = "idle"

\* Run: the list is answered and every container is evaluated, or it is
\* refused and the check is skipped.
RunCheck ==
    /\ \A c \in Containers : verdict[c] = "unread"
    /\ \/ verdict' = [c \in Containers |-> EvaluateContainer(c)]
       \/ verdict' = [c \in Containers |-> "skipped"]
    /\ UNCHANGED <<item, declared, pod, unmerged, phase>>

\* A controller creates a Pod (external): the API server copies declared
\* limits to absent requests before any admission plugin runs.
CreatePod ==
    /\ phase # "merging"
    /\ phase' = "merging"
    /\ pod' = [c \in Containers |->
                 [declared[c] EXCEPT !.request = IF @ = None THEN declared[c].limit ELSE @]]
    /\ unmerged' = Contributing
    /\ UNCHANGED <<item, declared, verdict>>

\* The LimitRanger fills what is absent from one more object (external).
Merge(o) ==
    /\ phase = "merging"
    /\ o \in unmerged
    /\ unmerged' = unmerged \ {o}
    /\ pod' = [c \in Containers |->
                 [limit |-> IF pod[c].limit = None THEN item[o].default ELSE pod[c].limit,
                  request |-> IF pod[c].request = None THEN item[o].defaultRequest
                              ELSE pod[c].request]]
    /\ UNCHANGED <<item, declared, verdict, phase>>

\* A value that one LimitRange refuses: its minimum, its maximum, its ratio.
Refuses(f, v) ==
    \/ /\ f.min # None
       /\ \/ v.request = None
          \/ ~AtMost(f.min, v.request)
          \/ ~AtMost(f.min, v.limit)
    \/ /\ f.max # None
       /\ \/ v.limit = None
          \/ ~AtMost(v.limit, f.max)
          \/ ~AtMost(v.request, f.max)
    \/ /\ f.ratio # None
       /\ \/ v.request \in {None, 0}
          \/ v.limit \in {None, 0}
          \/ v.limit # None /\ v.request # None /\ v.limit > f.ratio * v.request

\* Then every object validates the result (external), and validation of the
\* Pod itself wants no request above its limit.
Validate ==
    /\ phase = "merging"
    /\ unmerged = {}
    /\ phase' = IF \E o \in Contributing, c \in Containers : Refuses(item[o], pod[c])
                THEN "refused"
                ELSE IF \A c \in Containers : AtMost(pod[c].request, pod[c].limit)
                THEN "admitted" ELSE "invalid"
    /\ UNCHANGED <<item, declared, verdict, pod, unmerged>>

Next ==
    \/ RunCheck
    \/ CreatePod
    \/ \E o \in LimitRanges : Merge(o)
    \/ Validate

Spec == Init /\ [][Next]_vars

(***************************************************************************)
(* Properties                                                              *)
(***************************************************************************)

\* A container always has a value, or the absence of one, to be judged.
Candidates ==
    \A c \in Containers : LimitCandidates(c) # {} /\ RequestCandidates(c) # {}

\* Values of the variables, and something to judge: with no candidate, every
\* combination of none of them would violate every bound.
TypeOK ==
    /\ Candidates
    /\ item \in [LimitRanges -> Items \cup {None}]
    /\ declared \in [Containers -> Resources]
    /\ verdict \in [Containers -> {"unread", "skipped", "none", "LOW", "MEDIUM", "HIGH"}]
    /\ pod \in [Containers -> Resources]
    /\ unmerged \subseteq Contributing
    /\ phase \in {"idle", "merging", "admitted", "refused", "invalid"}

\* A HIGH Finding of the check about any container means that no order of the
\* LimitRanges admits the Pod: a guaranteed, permanent rejection
\* (limitrange.go, nondeterministic at evaluateContainer).
HighIsRefused ==
    (\E c \in Containers : verdict[c] = "HIGH") => phase \in {"idle", "merging", "refused"}

\* When the check says nothing, or only that values are defaulted, about all
\* containers, no order of the LimitRanges refuses the Pod.
QuietIsNotRefused ==
    (\A c \in Containers : verdict[c] \in {"none", "LOW"}) => phase # "refused"

\* A container the check says nothing about is admitted with the values of its
\* manifest, as far as a LimitRange bounds the resource at all.
UnreportedIsVerbatim ==
    \A c \in Containers :
        HasBound /\ verdict[c] = "none" /\ phase = "admitted" => pod[c] = declared[c]

=============================================================================
