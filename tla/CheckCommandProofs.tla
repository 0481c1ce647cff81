------------------------- MODULE CheckCommandProofs -------------------------
(***************************************************************************)
(* What the check command says is true of the cluster it looked at, for    *)
(* any Pod template, any objects in any versions, and any number of writes *)
(* and of failed reads in between.  The argument: what the running check   *)
(* has read are versions the objects have had (Reading), a check that has  *)
(* read everything tells what is missing from them (CheckTells), versions  *)
(* an object has had stay such, and a check is skipped for a failed read   *)
(* or for want of its ServiceAccount (Failures).                           *)
(***************************************************************************)
EXTENDS CheckCommand, FiniteSetTheorems, WellFoundedInduction, TLAPS

SA == ServiceAccount(wl.serviceAccount)

CheckNames == {"serviceaccount", "priorityclass", "config", "pvc", "storageclass", "pull"}
Keys == {""} \union {wl.refs[i].key : i \in DOMAIN wl.refs}
FindingSet == [severity : {"low", "medium", "high"}, object : Objects, key : Keys, at : Nat]
GroupSet == [check : CheckNames, skipped : BOOLEAN, findings : SUBSET FindingSet]

-----------------------------------------------------------------------------
(* The invariant.                                                           *)

World ==
    /\ wl \in Workloads
    /\ DOMAIN world = Objects /\ DOMAIN was = Objects
    /\ \A o \in Objects : world[o] \in was[o] /\ was[o] \subseteq Versions[o]
    /\ changes \in 0..MaxChanges /\ errors \in 0..MaxErrors
    /\ changes = 0 => \A o \in Objects : was[o] = {world[o]}

\* What has been read by the check that is running.
Reading ==
    /\ DOMAIN seen \subseteq (IF Running \in DOMAIN Checks THEN ToRead(Current) ELSE {})
    /\ \A o \in DOMAIN seen : o \in Objects /\ seen[o] \in was[o]
    /\ Running = 6 /\ SA \in DOMAIN seen => "" \in seen[SA]

Results ==
    /\ groups \in Seq(GroupSet) /\ Len(groups) <= 6
    /\ failed = {i \in DOMAIN groups : groups[i].skipped}
    /\ \A i \in DOMAIN groups :
           /\ groups[i].skipped => groups[i].findings = {}
           /\ \A f \in groups[i].findings :
                  /\ i # 6 <=> f.severity = "high"
                  /\ i = 1 => f.object = SA

Reported ==
    /\ exit \in {"running", "zero", "high"}
    /\ exit = "running" => printed = <<>>
    /\ exit # "running" => /\ Len(groups) = 6 /\ printed = RenderHuman(groups)
                           /\ exit = "high" <=> MaxSeverity(groups) = Severity["high"]

\* A check fails for a read that fails, but the last, which may want its ServiceAccount.
Failures ==
    /\ Cardinality(failed \ {6}) <= errors
    /\ 6 \in failed /\ errors = 0 => wl.private > 0 /\ {} \in was[SA]

TypeInv == World /\ Reading /\ Results /\ Reported

-----------------------------------------------------------------------------
(* Checks and what they read.                                               *)

LEMMA ChecksAre ==
    /\ DOMAIN Checks = 1..6 /\ Len(Checks) = 6
    /\ \A i \in 1..6 : Checks[i] \in CheckNames /\ (Checks[i] = "pull" <=> i = 6)
    /\ Checks[1] = "serviceaccount" /\ Checks[6] = "pull"
BY DEF Checks, CheckNames

\* The template is one of those assumed.
LEMMA TemplateIs ==
    ASSUME wl \in Workloads
    PROVE  /\ IsTemplate(wl) /\ SA \in Objects
           /\ \A o \in Objects : \A v \in Versions[o] : v = {} \/ "" \in v
BY CheckAssumption DEF IsTemplate, SA

LEMMA DueIsUnread ==
    ASSUME NEW check
    PROVE  Due(check) \subseteq Unread(check) /\ Unread(check) = ToRead(check) \ DOMAIN seen
<1>1. \A o \in Due(check) : o \in Unread(check)
  BY DEF Due
<1> QED
  BY <1>1 DEF Unread

\* The Secrets a ServiceAccount declares are objects, and are not the ServiceAccount.
LEMMA OwnAreObjects ==
    ASSUME wl \in Workloads, NEW s, SA \in DOMAIN s => s[SA] \in Versions[SA]
    PROVE  \A o \in (IF SA \in DOMAIN s THEN {<<"Secret", n>> : n \in s[SA] \ {""}} ELSE {}) :
               o \in Objects /\ o # SA
<1>1. \A v \in Versions[SA] : \A n \in v \ {""} : <<"Secret", n>> \in Objects
  BY TemplateIs DEF IsTemplate, SA
<1>2. \A n : <<"Secret", n>> # SA
  BY DEF SA, ServiceAccount
<1> QED
  BY <1>1, <1>2

LEMMA ReadsAreObjects ==
    ASSUME wl \in Workloads, SA \in DOMAIN seen => seen[SA] \in Versions[SA], NEW check \in CheckNames
    PROVE  ToRead(check) \subseteq Objects
<1>1. IsTemplate(wl) /\ SA \in Objects
  BY TemplateIs
<1>2. \A o \in Own : o \in Objects
  BY OwnAreObjects DEF Own, SA
<1>3. \A i \in DOMAIN Reads(check) : Reads(check)[i] \in Objects
  <2>1. \A i \in DOMAIN ServiceAccountReads : ServiceAccountReads[i] \in Objects
    BY <1>1 DEF ServiceAccountReads, SA
  <2>2. \A i \in DOMAIN PriorityClassReads : PriorityClassReads[i] \in Objects
    <3>1. CASE wl.priorityClass \in BuiltIn
      <4>1. DOMAIN PriorityClassReads = {}
        BY <3>1 DEF PriorityClassReads
      <4> QED
        BY <4>1
    <3>2. CASE wl.priorityClass \notin BuiltIn
      <4>1. PriorityClassReads = <<<<"PriorityClass", wl.priorityClass>>>>
        BY <3>2 DEF PriorityClassReads
      <4>2. <<"PriorityClass", wl.priorityClass>> \in Objects
        BY <3>2, <1>1 DEF IsTemplate
      <4>3. ASSUME NEW o, NEW s, s = <<o>>, o \in Objects
            PROVE  \A i \in DOMAIN s : s[i] \in Objects
        BY <4>3
      <4> QED
        BY <4>1, <4>2, <4>3
    <3> QED
      BY <3>1, <3>2
  <2>3. \A i \in DOMAIN ConfigReads : ConfigReads[i] \in Objects
    BY <1>1 DEF ConfigReads, IsTemplate
  <2>4. \A i \in DOMAIN ClaimReads : ClaimReads[i] \in Objects
    BY <1>1 DEF ClaimReads, IsTemplate
  <2>5. \A i \in DOMAIN StorageClassReads : StorageClassReads[i] \in Objects
    BY <1>1 DEF StorageClassReads, Classed, IsTemplate
  <2>6. \A i \in DOMAIN PullReads : PullReads[i] \in Objects
    <3> SUFFICES ASSUME NEW i \in DOMAIN PullReads PROVE PullReads[i] \in Objects
      OBVIOUS
    <3>1. /\ Len(wl.pullSecrets) \in Nat /\ DOMAIN wl.pullSecrets = 1..Len(wl.pullSecrets)
          /\ \A j \in DOMAIN wl.pullSecrets : <<"Secret", wl.pullSecrets[j]>> \in Objects
      BY <1>1 DEF IsTemplate, IsList
    <3>2. i \in 0..Len(wl.pullSecrets)
      BY DEF PullReads
    <3>3. PullReads[i] = IF i = 0 THEN SA ELSE <<"Secret", wl.pullSecrets[i]>>
      BY DEF PullReads, SA
    <3> QED
      BY <1>1, <3>1, <3>2, <3>3
  <2> QED
    <3>1. \/ Reads(check) = ServiceAccountReads \/ Reads(check) = PriorityClassReads
          \/ Reads(check) = ConfigReads \/ Reads(check) = ClaimReads
          \/ Reads(check) = StorageClassReads \/ Reads(check) = PullReads
      BY DEF Reads, CheckNames
    <3> QED
      BY <3>1, <2>1, <2>2, <2>3, <2>4, <2>5, <2>6
<1> QED
  BY <1>2, <1>3 DEF ToRead

\* The pull check reads nothing of a template without images of a private registry,
\* and otherwise the ServiceAccount among others.
LEMMA PullReadsAre ==
    ASSUME World, SA \in DOMAIN seen => seen[SA] \in Versions[SA],
           DOMAIN seen \subseteq ToRead("pull")
    PROVE  /\ wl.private = 0 => ToRead("pull") = {}
           /\ wl.private # 0 => ToRead("pull") = {SA} \union Declared
<1>1. /\ wl.private \in Nat /\ Len(wl.pullSecrets) \in Nat
      /\ DOMAIN wl.pullSecrets = 1..Len(wl.pullSecrets)
  BY TemplateIs DEF World, IsTemplate, IsList
<1>2. ToRead("pull") = {PullReads[i] : i \in DOMAIN PullReads} \union Own
  BY DEF ToRead, Reads
<1>3. CASE wl.private = 0
  <2>1. DOMAIN PullReads = {}
    BY <1>3 DEF PullReads
  <2>2. ToRead("pull") = Own
    BY <1>2, <2>1
  <2>3. SA \notin DOMAIN seen
    <3> SUFFICES ASSUME SA \in DOMAIN seen PROVE FALSE
      OBVIOUS
    <3>1. SA \in Own
      BY <2>2
    <3> QED
      BY <3>1, OwnAreObjects DEF World, Own, SA
  <2> QED
    BY <1>3, <2>2, <2>3 DEF Own, SA
<1>4. CASE wl.private # 0
  <2>1. DOMAIN PullReads = 0..Len(wl.pullSecrets)
    BY <1>4 DEF PullReads
  <2>2. \A i \in 0..Len(wl.pullSecrets) :
            PullReads[i] = IF i = 0 THEN SA ELSE <<"Secret", wl.pullSecrets[i]>>
    BY <1>4 DEF PullReads, SA
  <2>3. {PullReads[i] : i \in DOMAIN PullReads}
            = {SA} \union {<<"Secret", n>> : n \in ToSet(wl.pullSecrets)}
    BY <1>1, <2>1, <2>2 DEF ToSet
  <2> QED
    BY <1>2, <1>4, <2>3 DEF Declared
<1> QED
  BY <1>3, <1>4

-----------------------------------------------------------------------------
(* What a check that has read everything tells of an object.                *)

\* A finite set of naturals that is not empty has a smallest member: of the sets of
\* members below some x, one has no strict subset among them.
LEMMA MinIsSmallest ==
    ASSUME NEW S, S \subseteq Nat, IsFiniteSet(S), S # {}
    PROVE  Min(S) \in S /\ \A y \in S : Min(S) <= y
<1> DEFINE Below(x) == {y \in S : y < x}
           F == {Below(x) : x \in S}
<1>1. F \subseteq FiniteSubsetsOf(S) /\ F # {}
  <2>1. \A x \in S : Below(x) \in SUBSET S
    OBVIOUS
  <2>2. \A x \in S : IsFiniteSet(Below(x))
    BY <2>1, FS_Subset
  <2> QED
    BY <2>1, <2>2 DEF FiniteSubsetsOf
<1>2. IsWellFoundedOn(StrictSubsetOrdering(S), FiniteSubsetsOf(S))
  BY FS_StrictSubsetOrderingWellFounded
<1>3. PICK A \in F : \A B \in F : <<B, A>> \notin StrictSubsetOrdering(S)
  <2> HIDE DEF F
  <2> QED
    BY <1>1, <1>2, WFMin
<1>4. PICK x \in S : A = Below(x)
  OBVIOUS
<1>5. \A y \in S : x <= y
  <2> SUFFICES ASSUME NEW y \in S, y < x
               PROVE  FALSE
    OBVIOUS
  <2>1. Below(y) \subseteq Below(x)
    <3>1. \A z \in S : z < y => z < x
      <4> HIDE DEF F
      <4> QED
        OBVIOUS
    <3> QED
      BY <3>1
  <2>2. y \in Below(x) /\ y \notin Below(y)
    OBVIOUS
  <2>3. <<Below(y), Below(x)>> \in StrictSubsetOrdering(S)
    <3>1. Below(y) \in SUBSET S /\ Below(x) \in SUBSET S
      OBVIOUS
    <3>2. Below(y) # Below(x)
      BY <2>2
    <3> HIDE DEF Below
    <3> QED
      BY <3>1, <3>2, <2>1 DEF StrictSubsetOrdering
  <2>4. Below(y) \in F
    OBVIOUS
  <2> QED
    BY <1>3, <1>4, <2>3, <2>4
<1> QED
  <2>1. \E m \in S : \A y \in S : m <= y
    BY <1>5
  <2> QED
    BY <2>1 DEF Min

Told(fs, o) == {f.key : f \in {g \in fs : g.object = o}}

LEMMA ToReadIs ==
    ASSUME NEW o
    PROVE  /\ o \in ToRead("serviceaccount") <=> o = SA
           /\ o \in ToRead("priorityclass")
                <=> wl.priorityClass \notin BuiltIn /\ o = <<"PriorityClass", wl.priorityClass>>
           /\ o \in ToRead("config") <=> \E i \in DOMAIN wl.refs : o = wl.refs[i].object
           /\ o \in ToRead("pvc")
                <=> \E i \in DOMAIN wl.claims : o = <<"PersistentVolumeClaim", wl.claims[i]>>
           /\ o \in ToRead("storageclass")
                <=> \E i \in Classed : o = <<"StorageClass", wl.templates[i]>>
<1>1. o \in ToRead("serviceaccount") <=> o = SA
  BY DEF ToRead, Reads, ServiceAccountReads, SA
<1>2. /\ ToRead("config") = {ConfigReads[i] : i \in DOMAIN ConfigReads}
      /\ ToRead("pvc") = {ClaimReads[i] : i \in DOMAIN ClaimReads}
      /\ ToRead("storageclass") = {StorageClassReads[i] : i \in DOMAIN StorageClassReads}
      /\ ToRead("priorityclass") = {PriorityClassReads[i] : i \in DOMAIN PriorityClassReads}
  BY DEF ToRead, Reads
<1>3. o \in ToRead("config") <=> \E i \in DOMAIN wl.refs : o = wl.refs[i].object
  BY <1>2 DEF ConfigReads
<1>4. o \in ToRead("pvc")
        <=> \E i \in DOMAIN wl.claims : o = <<"PersistentVolumeClaim", wl.claims[i]>>
  BY <1>2 DEF ClaimReads
<1>5. o \in ToRead("storageclass")
        <=> \E i \in Classed : o = <<"StorageClass", wl.templates[i]>>
  BY <1>2 DEF StorageClassReads
<1>6. o \in ToRead("priorityclass")
        <=> wl.priorityClass \notin BuiltIn /\ o = <<"PriorityClass", wl.priorityClass>>
  <2>1. CASE wl.priorityClass \in BuiltIn
    <3>1. PriorityClassReads = <<>>
      BY <2>1 DEF PriorityClassReads
    <3>2. DOMAIN PriorityClassReads = {}
      BY <3>1
    <3> QED
      BY <1>2, <2>1, <3>2
  <2>2. CASE wl.priorityClass \notin BuiltIn
    <3>1. PriorityClassReads = <<<<"PriorityClass", wl.priorityClass>>>>
      BY <2>2 DEF PriorityClassReads
    <3>2. ASSUME NEW p, NEW s, s = <<p>>
          PROVE  {s[i] : i \in DOMAIN s} = {p}
      BY <3>2
    <3> QED
      BY <1>2, <2>2, <3>1, <3>2
  <2> QED
    BY <2>1, <2>2
<1> QED
  BY <1>1, <1>3, <1>4, <1>5, <1>6

\* The checks that ask only whether an object is there.
LEMMA ExistenceTells ==
    ASSUME NEW c \in {"serviceaccount", "priorityclass", "pvc", "storageclass"}, NEW o
    PROVE  /\ Required(c, o) = (IF o \in ToRead(c) THEN {""} ELSE {})
           /\ Told(Findings(c), o) = (IF o \in ToRead(c) /\ Missing(o) THEN {""} ELSE {})
           /\ \A f \in Findings(c) : f.severity = "high" /\ f.object \in ToRead(c) /\ f.key = ""
<1>1. Required(c, o) = IF o \in ToRead(c) THEN {""} ELSE {}
  <2>1. CASE c = "serviceaccount"
    BY <2>1, ToReadIs DEF Required, SA
  <2>2. CASE c = "priorityclass"
    <3>1. Required(c, o) = IF o \in {<<"PriorityClass", n>> : n \in {wl.priorityClass} \ BuiltIn}
                           THEN {""} ELSE {}
      BY <2>2 DEF Required
    <3>2. o \in {<<"PriorityClass", n>> : n \in {wl.priorityClass} \ BuiltIn} <=> o \in ToRead(c)
      BY <2>2, ToReadIs
    <3> QED
      BY <3>1, <3>2
  <2>3. CASE c = "pvc"
    <3>1. Required(c, o) = IF o \in {<<"PersistentVolumeClaim", n>> : n \in ToSet(wl.claims)}
                           THEN {""} ELSE {}
      BY <2>3 DEF Required
    <3>2. o \in {<<"PersistentVolumeClaim", n>> : n \in ToSet(wl.claims)} <=> o \in ToRead(c)
      BY <2>3, ToReadIs DEF ToSet
    <3> QED
      BY <3>1, <3>2
  <2>4. CASE c = "storageclass"
    <3>1. Required(c, o) = IF o \in {<<"StorageClass", n>> : n \in ToSet(wl.templates) \ {""}}
                           THEN {""} ELSE {}
      BY <2>4 DEF Required
    <3>2. o \in {<<"StorageClass", n>> : n \in ToSet(wl.templates) \ {""}} <=> o \in ToRead(c)
      <4>1. \A n : n \in ToSet(wl.templates) \ {""} <=> \E i \in Classed : n = wl.templates[i]
        BY DEF ToSet, Classed
      <4>2. o \in ToRead(c) <=> \E i \in Classed : o = <<"StorageClass", wl.templates[i]>>
        BY <2>4, ToReadIs
      <4> QED
        BY <4>1, <4>2
    <3> QED
      BY <3>1, <3>2
  <2> QED
    BY <2>1, <2>2, <2>3, <2>4
\* Each Finding is about an object that is missing, and each has one.
<1>2. /\ \A f \in Findings(c) : /\ f.severity = "high" /\ f.key = ""
                                /\ f.object \in ToRead(c) /\ Missing(f.object)
      /\ \A p \in ToRead(c) : Missing(p) => \E f \in Findings(c) : f.object = p /\ f.key = ""
  <2>1. CASE c # "storageclass"
    <3>1. Findings(c) = MissingObjects(ToRead(c))
      BY <2>1 DEF Findings
    <3>2. \A f : f \in Findings(c)
                  <=> \E p \in ToRead(c) : Missing(p) /\ f = Finding("high", p, "", 0)
      BY <3>1 DEF MissingObjects
    <3>3. ASSUME NEW f \in Findings(c)
          PROVE  /\ f.severity = "high" /\ f.key = ""
                 /\ f.object \in ToRead(c) /\ Missing(f.object)
      <4>1. PICK p \in ToRead(c) : Missing(p) /\ f = Finding("high", p, "", 0)
        BY <3>2
      <4>2. f.severity = "high" /\ f.key = "" /\ f.object = p
        BY <4>1 DEF Finding
      <4> QED
        BY <4>1, <4>2
    <3>4. ASSUME NEW p \in ToRead(c), Missing(p)
          PROVE  \E f \in Findings(c) : f.object = p /\ f.key = ""
      <4>1. Finding("high", p, "", 0) \in Findings(c)
        BY <3>2, <3>4
      <4>2. Finding("high", p, "", 0).object = p /\ Finding("high", p, "", 0).key = ""
        BY DEF Finding
      <4> QED
        BY <4>1, <4>2
    <3> QED
      BY <3>3, <3>4
  <2>2. CASE c = "storageclass"
    <3>1. Findings(c) = StorageClassFindings
      BY <2>2 DEF Findings
    <3>2. ASSUME NEW f \in StorageClassFindings
          PROVE  /\ f.severity = "high" /\ f.key = ""
                 /\ f.object \in ToRead(c) /\ Missing(f.object)
      <4>1. PICK i \in Classed : /\ Missing(<<"StorageClass", wl.templates[i]>>)
                                 /\ f = Finding("high", <<"StorageClass", wl.templates[i]>>, "", i)
        BY DEF StorageClassFindings
      <4>2. f.severity = "high" /\ f.key = "" /\ f.object = <<"StorageClass", wl.templates[i]>>
        BY <4>1 DEF Finding
      <4> QED
        BY <2>2, <4>1, <4>2, ToReadIs
    <3>3. ASSUME NEW p \in ToRead(c), Missing(p)
          PROVE  \E f \in StorageClassFindings : f.object = p /\ f.key = ""
      <4>1. PICK i \in Classed : p = <<"StorageClass", wl.templates[i]>>
        BY <2>2, ToReadIs
      <4>2. Finding("high", <<"StorageClass", wl.templates[i]>>, "", i) \in StorageClassFindings
        BY <3>3, <4>1 DEF StorageClassFindings
      <4> QED
        BY <4>1, <4>2 DEF Finding
    <3> QED
      BY <3>1, <3>2, <3>3
  <2> QED
    BY <2>1, <2>2
<1>3. Told(Findings(c), o) = IF o \in ToRead(c) /\ Missing(o) THEN {""} ELSE {}
  <2>1. ASSUME NEW k
        PROVE  k \in Told(Findings(c), o) <=> \E f \in Findings(c) : f.object = o /\ k = f.key
    BY DEF Told
  <2>2. ASSUME NEW k
        PROVE  k \in Told(Findings(c), o) <=> o \in ToRead(c) /\ Missing(o) /\ k = ""
    <3>1. ASSUME NEW f \in Findings(c), f.object = o, k = f.key
          PROVE  o \in ToRead(c) /\ Missing(o) /\ k = ""
      <4>1. f.key = "" /\ f.object \in ToRead(c) /\ Missing(f.object)
        BY <1>2
      <4> QED
        BY <3>1, <4>1
    <3>2. ASSUME o \in ToRead(c), Missing(o), k = ""
          PROVE  \E f \in Findings(c) : f.object = o /\ k = f.key
      BY <1>2, <3>2
    <3> QED
      BY <2>1, <3>1, <3>2
  <2>3. CASE o \in ToRead(c) /\ Missing(o)
    BY <2>2, <2>3
  <2>4. CASE ~(o \in ToRead(c) /\ Missing(o))
    BY <2>2, <2>4
  <2> QED
    BY <2>3, <2>4
<1> QED
  BY <1>1, <1>2, <1>3

LEMMA ConfigTells ==
    ASSUME IsTemplate(wl), NEW o
    PROVE  /\ o \notin ToRead("config") => Required("config", o) = {} /\ Told(Findings("config"), o) = {}
           /\ Required("config", o) # {} => "" \in Required("config", o)
           /\ Told(Findings("config"), o)
                  = IF Missing(o) THEN Required("config", o) \intersect {""}
                    ELSE Required("config", o) \ seen[o]
           /\ \A f \in Findings("config") : /\ f.severity = "high" /\ f.object \in ToRead("config")
                                            /\ f.key \in Keys
<1> DEFINE refs == wl.refs
           due == {i \in DOMAIN refs : ~refs[i].optional}
           first(i) == \A j \in due : refs[j].object = refs[i].object => i <= j
           about == {i \in due : refs[i].object = o}
           required == Required("config", o)
           found == Findings("config")
<1>1. /\ DOMAIN refs \subseteq Nat /\ IsFiniteSet(DOMAIN refs)
  <2>1. Len(wl.refs) \in Nat /\ DOMAIN wl.refs = 1..Len(wl.refs)
    BY DEF IsTemplate, IsList
  <2> QED
    BY <2>1, FS_Interval
<1>2. ASSUME NEW k
      PROVE  k \in required <=> \E i \in about : k = "" \/ k = refs[i].key
  <2> DEFINE hard == {r \in ToSet(wl.refs) : ~r.optional /\ r.object = o}
  <2>1. required = IF hard = {} THEN {} ELSE {""} \union {r.key : r \in hard}
    BY DEF Required
  <2>2. \A r : r \in hard <=> \E i \in about : r = refs[i]
    BY DEF ToSet
  <2> HIDE DEF hard, about, refs, required
  <2>3. CASE hard = {}
    BY <2>1, <2>2, <2>3
  <2>4. CASE hard # {}
    <3>1. k \in required <=> k = "" \/ \E r \in hard : k = r.key
      BY <2>1, <2>4
    <3>2. \E i \in about : TRUE
      BY <2>2, <2>4
    <3> QED
      BY <2>2, <3>1, <3>2
  <2> QED
    BY <2>3, <2>4
<1>3. /\ \A f \in found :
           \E i \in due : /\ f.severity = "high" /\ f.object = refs[i].object
                          /\ \/ Missing(refs[i].object) /\ first(i) /\ f.key = ""
                             \/ /\ ~Missing(refs[i].object) /\ refs[i].key \notin seen[refs[i].object]
                                /\ f.key = refs[i].key
      /\ \A i \in due :
           /\ Missing(refs[i].object) /\ first(i) =>
                  \E f \in found : f.object = refs[i].object /\ f.key = ""
           /\ ~Missing(refs[i].object) /\ refs[i].key \notin seen[refs[i].object] =>
                  \E f \in found : f.object = refs[i].object /\ f.key = refs[i].key
  <2>1. found = {Finding("high", refs[i].object, "", i) :
                   i \in {j \in due : Missing(refs[j].object) /\ first(j)}}
                \union
                {Finding("high", refs[i].object, refs[i].key, i) :
                   i \in {j \in due : ~Missing(refs[j].object) /\ refs[j].key \notin seen[refs[j].object]}}
    BY DEF Findings, ConfigFindings
  <2>2. \A f : f \in found <=>
              \E i \in due :
                  \/ /\ Missing(refs[i].object) /\ first(i)
                     /\ f = Finding("high", refs[i].object, "", i)
                  \/ /\ ~Missing(refs[i].object) /\ refs[i].key \notin seen[refs[i].object]
                     /\ f = Finding("high", refs[i].object, refs[i].key, i)
    <3> HIDE DEF found, due, first, refs
    <3> QED
      BY <2>1
  <2> HIDE DEF found, due, first, refs
  <2>3. ASSUME NEW f \in found
        PROVE  \E i \in due : /\ f.severity = "high" /\ f.object = refs[i].object
                              /\ \/ Missing(refs[i].object) /\ first(i) /\ f.key = ""
                                 \/ /\ ~Missing(refs[i].object)
                                    /\ refs[i].key \notin seen[refs[i].object]
                                    /\ f.key = refs[i].key
    <3>1. PICK i \in due :
              \/ /\ Missing(refs[i].object) /\ first(i)
                 /\ f = Finding("high", refs[i].object, "", i)
              \/ /\ ~Missing(refs[i].object) /\ refs[i].key \notin seen[refs[i].object]
                 /\ f = Finding("high", refs[i].object, refs[i].key, i)
      BY <2>2
    <3>2. CASE Missing(refs[i].object) /\ first(i) /\ f = Finding("high", refs[i].object, "", i)
      BY <3>2 DEF Finding
    <3>3. CASE /\ ~Missing(refs[i].object) /\ refs[i].key \notin seen[refs[i].object]
               /\ f = Finding("high", refs[i].object, refs[i].key, i)
      BY <3>3 DEF Finding
    <3> QED
      BY <3>1, <3>2, <3>3
  <2>4. ASSUME NEW i \in due
        PROVE  /\ Missing(refs[i].object) /\ first(i) =>
                      \E f \in found : f.object = refs[i].object /\ f.key = ""
               /\ ~Missing(refs[i].object) /\ refs[i].key \notin seen[refs[i].object] =>
                      \E f \in found : f.object = refs[i].object /\ f.key = refs[i].key
    <3> DEFINE whole == Finding("high", refs[i].object, "", i)
               part == Finding("high", refs[i].object, refs[i].key, i)
    <3>1. /\ whole.object = refs[i].object /\ whole.key = ""
          /\ part.object = refs[i].object /\ part.key = refs[i].key
      BY DEF Finding
    <3>2. /\ Missing(refs[i].object) /\ first(i) => whole \in found
          /\ ~Missing(refs[i].object) /\ refs[i].key \notin seen[refs[i].object] => part \in found
      BY <2>2
    <3> HIDE DEF whole, part
    <3> QED
      BY <3>1, <3>2
  <2> QED
    BY <2>3, <2>4
\* Of the references to a missing object that are not optional, one is the first.
<1>4. ASSUME NEW i \in about
      PROVE  \E j \in about : first(j)
  <2>1. about \subseteq Nat /\ IsFiniteSet(about) /\ about # {}
    BY <1>1, <1>4, FS_Subset
  <2> DEFINE j == Min(about)
  <2>2. j \in about /\ \A y \in about : j <= y
    <3> HIDE DEF about
    <3> QED
      BY <2>1, MinIsSmallest
  <2> HIDE DEF j
  <2>3. first(j)
    BY <2>2
  <2> QED
    BY <2>2, <2>3
<1>5. ASSUME NEW k
      PROVE  k \in Told(found, o) <=> \E f \in found : f.object = o /\ k = f.key
  BY DEF Told
<1>6. o \in ToRead("config") <=> \E i \in DOMAIN refs : o = refs[i].object
  BY ToReadIs
<1>7. ASSUME o \notin ToRead("config")
      PROVE  required = {} /\ Told(found, o) = {}
  <2>1. about = {}
    BY <1>6, <1>7
  <2>2. \A k : k \notin required
    BY <1>2, <2>1
  <2>3. \A k : k \notin Told(found, o)
    <3> SUFFICES ASSUME NEW f \in found, f.object = o PROVE FALSE
      BY <1>5
    <3>1. PICK i \in due : f.object = refs[i].object
      BY <1>3
    <3> QED
      BY <3>1, <2>1
  <2> QED
    BY <2>2, <2>3
<1>8. required # {} => "" \in required
  BY <1>2
<1>9. Told(found, o) = IF Missing(o) THEN required \intersect {""} ELSE required \ seen[o]
  <2>1. CASE Missing(o)
    <3>1. ASSUME NEW k
          PROVE  k \in Told(found, o) <=> k = "" /\ about # {}
      <4>1. ASSUME NEW f \in found, f.object = o
            PROVE  f.key = "" /\ about # {}
        <5>1. PICK i \in due : /\ f.object = refs[i].object
                               /\ ~Missing(refs[i].object) \/ f.key = ""
          BY <1>3
        <5> QED
          BY <5>1, <4>1, <2>1
      <4>2. ASSUME about # {}
            PROVE  \E f \in found : f.object = o /\ f.key = ""
        <5>1. PICK i \in about : first(i)
          BY <1>4, <4>2
        <5>2. i \in due /\ refs[i].object = o
          BY <5>1
        <5> HIDE DEF found, due, first, about, refs
        <5> QED
          BY <1>3, <2>1, <5>1, <5>2
      <4> QED
        BY <1>5, <4>1, <4>2
    <3>2. "" \in required <=> about # {}
      BY <1>2
    <3> HIDE DEF about, found, required
    <3>3. \A k : k \in Told(found, o) <=> k \in required \intersect {""}
      BY <3>1, <3>2
    <3> QED
      BY <2>1, <3>3
  <2>2. CASE ~Missing(o)
    <3>1. ASSUME NEW k
          PROVE  k \in Told(found, o) <=> k \in required /\ k \notin seen[o]
      <4>0. "" \in seen[o]
        BY <2>2 DEF Missing
      <4>1. ASSUME NEW f \in found, f.object = o
            PROVE  f.key \in required /\ f.key \notin seen[o]
        <5>1. PICK i \in due : /\ f.object = refs[i].object
                               /\ \/ Missing(refs[i].object)
                                  \/ /\ refs[i].key \notin seen[refs[i].object]
                                     /\ f.key = refs[i].key
          <6> HIDE DEF found, due, first, refs
          <6> QED
            BY <1>3, <4>1
        <5>2. i \in about
          BY <4>1, <5>1
        <5> QED
          BY <5>1, <5>2, <4>1, <2>2, <1>2
      <4>2. ASSUME k \in required, k \notin seen[o]
            PROVE  \E f \in found : f.object = o /\ k = f.key
        <5>1. PICK i \in about : k = refs[i].key
          BY <1>2, <4>0, <4>2
        <5>2. i \in due /\ refs[i].object = o
          BY <5>1
        <5> HIDE DEF found, due, first, about, refs
        <5> QED
          BY <1>3, <2>2, <4>2, <5>1, <5>2
      <4> QED
        BY <1>5, <4>1, <4>2
    <3> HIDE DEF found, required
    <3> QED
      BY <2>2, <3>1
  <2> QED
    BY <2>1, <2>2
<1>10. \A f \in found : f.severity = "high" /\ f.object \in ToRead("config") /\ f.key \in Keys
  <2> SUFFICES ASSUME NEW f \in found
               PROVE  f.severity = "high" /\ f.object \in ToRead("config") /\ f.key \in Keys
    OBVIOUS
  <2>1. PICK i \in due : /\ f.severity = "high" /\ f.object = refs[i].object
                         /\ f.key = "" \/ f.key = refs[i].key
    BY <1>3
  <2>2. i \in DOMAIN wl.refs
    OBVIOUS
  <2> QED
    BY <2>1, <2>2, ToReadIs DEF Keys
<1> QED
  BY <1>7, <1>8, <1>9, <1>10

\* Once it has read everything, a check but the last tells what is missing from a
\* version each object has had.
LEMMA CheckTells ==
    ASSUME World, Reading, Running \in 1..5, Unread(Current) = {}, NEW o \in Objects
    PROVE  \E v \in was[o] : Told(Findings(Current), o) = Lacking(Current, o, v)
<1> DEFINE c == Current
<1>1. /\ c \in {"serviceaccount", "priorityclass", "pvc", "storageclass"} \/ c = "config"
      /\ DOMAIN seen = ToRead(c)
  <2>1. c \in {"serviceaccount", "priorityclass", "pvc", "storageclass"} \/ c = "config"
    BY ChecksAre DEF Current, CheckNames
  <2>2. DOMAIN seen \subseteq ToRead(c) /\ Unread(c) = ToRead(c) \ DOMAIN seen
    BY ChecksAre DEF Reading, Unread
  <2> QED
    BY <2>1, <2>2
<1>2. /\ world[o] \in was[o] /\ \A v \in was[o] : v = {} \/ "" \in v
      /\ o \in ToRead(c) => seen[o] \in was[o]
      /\ IsTemplate(wl)
  BY <1>1, TemplateIs DEF World, Reading
<1>3. CASE c \in {"serviceaccount", "priorityclass", "pvc", "storageclass"}
  <2>1. /\ Required(c, o) = IF o \in ToRead(c) THEN {""} ELSE {}
        /\ Told(Findings(c), o) = IF o \in ToRead(c) /\ Missing(o) THEN {""} ELSE {}
    BY <1>3, ExistenceTells
  <2>2. CASE o \in ToRead(c)
    <3>1. Told(Findings(c), o) = Lacking(c, o, seen[o])
      BY <2>1, <2>2 DEF Lacking, Missing
    <3> QED
      BY <1>2, <2>2, <3>1
  <2>3. CASE o \notin ToRead(c)
    <3>1. Told(Findings(c), o) = Lacking(c, o, world[o])
      BY <2>1, <2>3 DEF Lacking
    <3> QED
      BY <1>2, <3>1
  <2> QED
    BY <2>2, <2>3
<1>4. CASE c = "config"
  <2>1. CASE o \in ToRead(c)
    <3>1. Told(Findings(c), o) = Lacking(c, o, seen[o])
      BY <1>2, <1>4, <2>1, ConfigTells DEF Lacking, Missing
    <3> QED
      BY <1>2, <2>1, <3>1
  <2>2. CASE o \notin ToRead(c)
    <3>1. Told(Findings(c), o) = Lacking(c, o, world[o])
      BY <1>2, <1>4, <2>2, ConfigTells DEF Lacking
    <3> QED
      BY <1>2, <3>1
  <2> QED
    BY <2>1, <2>2
<1> QED
  BY <1>1, <1>3, <1>4

\* What image-pull-secrets says, against the version v of the ServiceAccount and the
\* versions the Secrets have had.
PullSaid(fs, v, had) ==
    LET declared == {<<"Secret", n>> : n \in ToSet(wl.pullSecrets) \union (v \ {""})}
        said == {f.severity : f \in fs}
    IN  /\ "" \in v
        /\ \/ said = {} /\ \E o \in declared : \E s \in had[o] : "" \in s
           \/ said = {"medium"} /\ declared # {} /\ \A o \in declared : {} \in had[o]
           \/ said = {"low"} /\ declared = {}

LEMMA PullTells ==
    ASSUME World, Reading, Running = 6, Unread(Current) = {}, wl.private > 0
    PROVE  \E v \in was[SA] : PullSaid(Findings(Current), v, was)
<1>1. Current = "pull" /\ Findings("pull") = PullFindings
  BY ChecksAre DEF Current, Findings
<1>0. wl.private # 0 /\ 1 \in 1..wl.private
  <2>1. wl.private \in Nat
    BY TemplateIs DEF World, IsTemplate
  <2> QED
    BY <2>1
<1>2. /\ SA \in Objects
      /\ \A o \in Objects : was[o] \subseteq Versions[o] /\ \A v \in Versions[o] : v = {} \/ "" \in v
  BY TemplateIs DEF World
<1>3. /\ DOMAIN seen \subseteq ToRead("pull")
      /\ \A o \in DOMAIN seen : o \in Objects /\ seen[o] \in was[o]
  BY <1>1, ChecksAre DEF Reading
<1>4. DOMAIN seen = {SA} \union Declared
  <2>1. ToRead("pull") = {SA} \union Declared
    <3>1. SA \in DOMAIN seen => seen[SA] \in Versions[SA]
      BY <1>2, <1>3
    <3> QED
      BY <1>0, <1>3, <3>1, PullReadsAre
  <2> QED
    BY <1>1, <1>3, <2>1 DEF Unread
<1>5. "" \in seen[SA] /\ seen[SA] \in was[SA]
  BY <1>3, <1>4 DEF Reading
<1> DEFINE v == seen[SA]
           declared == {<<"Secret", n>> : n \in ToSet(wl.pullSecrets) \union (v \ {""})}
           said == {f.severity : f \in PullFindings}
<1>6. Declared = declared
  <2>1. Own = {<<"Secret", n>> : n \in v \ {""}}
    BY <1>4 DEF Own, SA
  <2> QED
    BY <2>1 DEF Declared
<1>7. \A o \in Declared : o \in Objects /\ seen[o] \in was[o] /\ (Missing(o) => seen[o] = {})
  BY <1>2, <1>3, <1>4 DEF Missing
<1>8. CASE \E o \in Declared : ~Missing(o)
  <2>1. PullFindings = {}
    BY <1>8 DEF PullFindings
  <2>2. said = {}
    BY <2>1
  <2>3. \E o \in declared : \E s \in was[o] : "" \in s
    BY <1>6, <1>7, <1>8 DEF Missing
  <2> QED
    BY <1>1, <1>5, <2>2, <2>3 DEF PullSaid
<1>9. CASE \A o \in Declared : Missing(o)
  <2> DEFINE severity == IF Declared = {} THEN "low" ELSE "medium"
  <2>1. PullFindings = {Finding(severity, ServiceAccount(wl.serviceAccount), "", i) : i \in 1..wl.private}
    BY <1>9 DEF PullFindings
  <2>2. \A k : k \in said <=> k = severity
    <3> HIDE DEF severity
    <3>1. \A i : Finding(severity, ServiceAccount(wl.serviceAccount), "", i).severity = severity
      BY DEF Finding
    <3>2. ASSUME NEW f \in PullFindings PROVE f.severity = severity
      <4>1. PICK i \in 1..wl.private : f = Finding(severity, ServiceAccount(wl.serviceAccount), "", i)
        BY <2>1
      <4> QED
        BY <3>1, <4>1
    <3>3. \E f \in PullFindings : f.severity = severity
      <4>1. Finding(severity, ServiceAccount(wl.serviceAccount), "", 1) \in PullFindings
        BY <1>0, <2>1
      <4>2. Finding(severity, ServiceAccount(wl.serviceAccount), "", 1).severity = severity
        BY <3>1
      <4> QED
        BY <4>1, <4>2
    <3> QED
      BY <3>2, <3>3
  <2>3. said = {severity}
    BY <2>2
  <2>4. Declared # {} => \A o \in declared : {} \in was[o]
    BY <1>6, <1>7, <1>9
  <2> QED
    BY <1>1, <1>5, <1>6, <2>3, <2>4 DEF PullSaid
<1> QED
  BY <1>8, <1>9

LEMMA FindingsAre ==
    ASSUME World, Reading, Running \in 1..6
    PROVE  /\ Findings(Current) \in SUBSET FindingSet
           /\ \A f \in Findings(Current) : /\ Running # 6 <=> f.severity = "high"
                                           /\ Running = 1 => f.object = SA
<1> DEFINE c == Current
<1>1. /\ c \in CheckNames /\ (c = "pull" <=> Running = 6) /\ (Running = 1 => c = "serviceaccount")
  BY ChecksAre DEF Current
<1>2. IsTemplate(wl) /\ SA \in Objects /\ wl \in Workloads
  BY TemplateIs DEF World
<1>3. ToRead(c) \subseteq Objects
  <2>1. SA \in DOMAIN seen => seen[SA] \in Versions[SA]
    BY <1>2 DEF Reading, World
  <2> QED
    BY <1>1, <1>2, <2>1, ReadsAreObjects
<1>4. "" \in Keys /\ \A i \in DOMAIN wl.refs : wl.refs[i].key \in Keys
  BY DEF Keys
<1>5. CASE c \in {"serviceaccount", "priorityclass", "pvc"}
  <2>1. Findings(c) = {Finding("high", o, "", 0) : o \in {p \in ToRead(c) : Missing(p)}}
    BY <1>5 DEF Findings, MissingObjects
  <2>2. \A f \in Findings(c) : f \in FindingSet /\ f.severity = "high" /\ f.object \in ToRead(c)
    <3> SUFFICES ASSUME NEW f \in Findings(c)
                 PROVE  f \in FindingSet /\ f.severity = "high" /\ f.object \in ToRead(c)
      OBVIOUS
    <3>1. PICK o \in ToRead(c) : f = Finding("high", o, "", 0)
      BY <2>1
    <3> QED
      BY <1>3, <1>4, <3>1 DEF Finding, FindingSet
  <2> QED
    BY <1>1, <1>5, <2>2, ToReadIs
<1>6. CASE c = "storageclass"
  <2>1. Findings(c) = StorageClassFindings
    BY <1>6 DEF Findings
  <2>2. \A f \in Findings(c) : f \in FindingSet /\ f.severity = "high"
    <3> SUFFICES ASSUME NEW f \in Findings(c) PROVE f \in FindingSet /\ f.severity = "high"
      OBVIOUS
    <3>1. PICK i \in Classed : f = Finding("high", <<"StorageClass", wl.templates[i]>>, "", i)
      BY <2>1 DEF StorageClassFindings
    <3>2. <<"StorageClass", wl.templates[i]>> \in Objects
      BY <1>3, <1>6, ToReadIs
    <3>3. i \in Nat
      <4>1. Len(wl.templates) \in Nat /\ DOMAIN wl.templates = 1..Len(wl.templates)
        BY <1>2 DEF IsTemplate, IsList
      <4>2. i \in DOMAIN wl.templates
        BY DEF Classed
      <4> QED
        BY <4>1, <4>2
    <3> QED
      BY <1>4, <3>1, <3>2, <3>3 DEF Finding, FindingSet
  <2> QED
    BY <1>1, <1>6, <2>2
<1>7. CASE c = "config"
  <2>1. Findings(c) = ConfigFindings
    BY <1>7 DEF Findings
  <2>2. \A f \in Findings(c) : f \in FindingSet /\ f.severity = "high"
    <3> SUFFICES ASSUME NEW f \in Findings(c) PROVE f \in FindingSet /\ f.severity = "high"
      OBVIOUS
    <3>1. PICK i \in DOMAIN wl.refs : \/ f = Finding("high", wl.refs[i].object, "", i)
                                      \/ f = Finding("high", wl.refs[i].object, wl.refs[i].key, i)
      <4> DEFINE due == {i \in DOMAIN wl.refs : ~wl.refs[i].optional}
                 lost == {i \in due : Missing(wl.refs[i].object)
                                     /\ \A j \in due : wl.refs[j].object = wl.refs[i].object => i <= j}
                 partly == {i \in due : /\ ~Missing(wl.refs[i].object)
                                       /\ wl.refs[i].key \notin seen[wl.refs[i].object]}
      <4>1. ConfigFindings = {Finding("high", wl.refs[i].object, "", i) : i \in lost}
                             \union {Finding("high", wl.refs[i].object, wl.refs[i].key, i) : i \in partly}
        BY DEF ConfigFindings
      <4>2. lost \subseteq DOMAIN wl.refs /\ partly \subseteq DOMAIN wl.refs
        OBVIOUS
      <4> HIDE DEF lost, partly
      <4> QED
        BY <2>1, <4>1, <4>2
    <3>2. wl.refs[i].object \in Objects /\ i \in Nat
      <4>1. /\ Len(wl.refs) \in Nat /\ DOMAIN wl.refs = 1..Len(wl.refs)
            /\ \A j \in DOMAIN wl.refs : wl.refs[j].object \in Objects
        BY <1>2 DEF IsTemplate, IsList
      <4> QED
        BY <4>1
    <3>3. \E k \in Keys : f = Finding("high", wl.refs[i].object, k, i)
      BY <1>4, <3>1
    <3> QED
      BY <3>2, <3>3 DEF Finding, FindingSet
  <2> QED
    BY <1>1, <1>7, <2>2
<1>8. CASE c = "pull"
  <2>1. Findings(c) = PullFindings
    BY <1>8 DEF Findings
  <2>2. \A f \in Findings(c) : f \in FindingSet /\ f.severity # "high"
    <3> SUFFICES ASSUME NEW f \in Findings(c) PROVE f \in FindingSet /\ f.severity # "high"
      OBVIOUS
    <3> DEFINE severity == IF Declared = {} THEN "low" ELSE "medium"
    <3>1. PullFindings = IF \E o \in Declared : ~Missing(o) THEN {}
                         ELSE {Finding(severity, SA, "", i) : i \in 1..wl.private}
      BY DEF PullFindings, SA
    <3>2. severity \in {"low", "medium"}
      OBVIOUS
    <3> HIDE DEF severity
    <3>3. PICK i \in 1..wl.private : f = Finding(severity, SA, "", i)
      BY <2>1, <3>1
    <3>4. i \in Nat
      <4>1. wl.private \in Nat
        BY <1>2 DEF IsTemplate
      <4> QED
        BY <4>1
    <3> QED
      BY <1>2, <1>4, <3>2, <3>3, <3>4 DEF Finding, FindingSet
  <2> QED
    BY <1>1, <1>8, <2>2
<1> QED
  BY <1>1, <1>5, <1>6, <1>7, <1>8 DEF CheckNames

-----------------------------------------------------------------------------
(* The types.                                                               *)

LEMMA RunningIs ==
    ASSUME Results
    PROVE  /\ Len(groups) \in Nat /\ DOMAIN groups = 1..Len(groups) /\ Running = Len(groups) + 1
           /\ Running \in DOMAIN Checks <=> Running \in 1..6
           /\ Running \notin DOMAIN Checks <=> Len(groups) = 6
           /\ Running \in 1..7 /\ Running \notin DOMAIN groups
<1>1. Len(groups) \in Nat /\ DOMAIN groups = 1..Len(groups) /\ Len(groups) <= 6
  BY DEF Results
<1>2. Running = Len(groups) + 1
  BY DEF Running
<1>3. DOMAIN Checks = 1..6
  BY ChecksAre
<1>4. Running \in 1..7 /\ Running \notin DOMAIN groups
  BY <1>1, <1>2
<1>5. Running \notin DOMAIN Checks <=> Len(groups) = 6
  <2>1. ASSUME NEW n \in Nat, n <= 6
        PROVE  n + 1 \notin 1..6 <=> n = 6
    BY <2>1
  <2> QED
    BY <1>1, <1>2, <1>3, <2>1
<1> QED
  BY <1>1, <1>2, <1>3, <1>4, <1>5

\* What a new Result adds.
LEMMA GroupAdded ==
    ASSUME Results, Running \in 1..6, NEW g \in GroupSet, groups' = Append(groups, g)
    PROVE  /\ groups' \in Seq(GroupSet)
           /\ Len(groups') = Running /\ Running' = Running + 1
           /\ DOMAIN groups' = DOMAIN groups \union {Running}
           /\ \A i \in DOMAIN groups : i # Running /\ groups'[i] = groups[i]
           /\ groups'[Running] = g
<1>1. Len(groups) \in Nat /\ DOMAIN groups = 1..Len(groups) /\ Running = Len(groups) + 1
      /\ groups \in Seq(GroupSet)
  BY RunningIs DEF Results
<1>2. /\ groups' \in Seq(GroupSet) /\ Len(groups') = Len(groups) + 1
      /\ \A i \in 1..Len(groups) : groups'[i] = groups[i]
      /\ groups'[Len(groups) + 1] = g /\ DOMAIN groups' = 1..(Len(groups) + 1)
  BY <1>1
<1> QED
  BY <1>1, <1>2 DEF Running

LEMMA SameTemplate == wl' = wl => GroupSet' = GroupSet /\ SA' = SA
<1> SUFFICES ASSUME wl' = wl PROVE GroupSet' = GroupSet /\ SA' = SA
  OBVIOUS
<1>1. Keys' = Keys
  BY DEF Keys
<1> QED
  BY <1>1 DEF GroupSet, FindingSet, SA

LEMMA ResultsGrow ==
    ASSUME World, Results, Running \in 1..6, wl' = wl, NEW g \in GroupSet,
           groups' = Append(groups, g),
           failed' = IF g.skipped THEN failed \union {Running} ELSE failed,
           g.skipped => g.findings = {},
           \A f \in g.findings : /\ Running # 6 <=> f.severity = "high"
                                 /\ Running = 1 => f.object = SA
    PROVE  Results'
<1>1. /\ groups' \in Seq(GroupSet) /\ Len(groups') <= 6
      /\ DOMAIN groups' = DOMAIN groups \union {Running}
      /\ \A i \in DOMAIN groups : i # Running /\ groups'[i] = groups[i]
      /\ groups'[Running] = g
  BY GroupAdded
<1>2. GroupSet' = GroupSet /\ SA' = SA
  BY SameTemplate
<1>3. failed' = {i \in DOMAIN groups' : groups'[i].skipped}
  <2>1. failed = {i \in DOMAIN groups : groups[i].skipped}
    BY DEF Results
  <2>2. \A i : i \in failed' <=> i \in DOMAIN groups' /\ groups'[i].skipped
    BY <1>1, <2>1
  <2>3. \A i \in failed' : i \in DOMAIN groups'
    BY <2>2
  <2> QED
    BY <2>2, <2>3
<1>4. \A i \in DOMAIN groups' :
           /\ groups'[i].skipped => groups'[i].findings = {}
           /\ \A f \in groups'[i].findings : /\ i # 6 <=> f.severity = "high"
                                             /\ i = 1 => f.object = SA
  <2> TAKE i \in DOMAIN groups'
  <2>1. CASE i = Running
    BY <1>1, <2>1
  <2>2. CASE i \in DOMAIN groups
    BY <1>1, <2>2 DEF Results
  <2> QED
    BY <1>1, <2>1, <2>2
<1> QED
  BY <1>1, <1>2, <1>3, <1>4 DEF Results

LEMMA TypesAre == TypeInv => TypeOK
<1> SUFFICES ASSUME TypeInv PROVE TypeOK
  OBVIOUS
<1>1. World /\ Reading /\ Results /\ Reported
  BY DEF TypeInv
<1>2. failed \subseteq DOMAIN Checks /\ Len(groups) <= Len(Checks)
  BY <1>1, RunningIs, ChecksAre DEF Results
<1>3. DOMAIN printed = IF exit = "running" THEN {} ELSE DOMAIN Checks
  <2>1. CASE exit = "running"
    BY <1>1, <2>1 DEF Reported
  <2>2. CASE exit # "running"
    <3>1. printed = RenderHuman(groups) /\ DOMAIN groups = DOMAIN Checks
      BY <1>1, <2>2, RunningIs, ChecksAre DEF Reported
    <3> QED
      BY <2>2, <3>1 DEF RenderHuman
  <2> QED
    BY <2>1, <2>2
<1> QED
  BY <1>1, <1>2, <1>3 DEF TypeOK, World, Reading, Reported

LEMMA InitTypes == Init => TypeInv
<1> SUFFICES ASSUME Init PROVE TypeInv
  OBVIOUS
<1>1. /\ wl \in Workloads /\ changes = 0 /\ errors = 0 /\ exit = "running" /\ failed = {}
      /\ seen = <<>> /\ groups = <<>> /\ printed = <<>>
      /\ world \in Clusters /\ was = [o \in Objects |-> {world[o]}]
  BY DEF Init
<1>2. World
  <2>1. changes \in 0..MaxChanges /\ errors \in 0..MaxErrors
    <3>1. MaxChanges \in Nat /\ MaxErrors \in Nat
      BY CheckAssumption
    <3> QED
      BY <1>1, <3>1
  <2>2. DOMAIN world = Objects /\ \A o \in Objects : world[o] \in Versions[o]
    BY <1>1, CheckAssumption
  <2>3. DOMAIN was = Objects /\ \A o \in Objects : was[o] = {world[o]}
    BY <1>1
  <2> QED
    BY <1>1, <2>1, <2>2, <2>3 DEF World
<1>3. DOMAIN seen = {} /\ DOMAIN groups = {} /\ Len(groups) = 0 /\ groups \in Seq(GroupSet)
  BY <1>1
<1>4. Results
  BY <1>1, <1>3 DEF Results
<1>5. Reading
  BY <1>3 DEF Reading
<1> QED
  BY <1>1, <1>2, <1>4, <1>5 DEF TypeInv, Reported

LEMMA WorldStays == World /\ [Next]_vars => World' /\ wl' = wl
                                            /\ \A o \in Objects : was[o] \subseteq was'[o]
<1> SUFFICES ASSUME World, [Next]_vars
             PROVE  World' /\ wl' = wl /\ \A o \in Objects : was[o] \subseteq was'[o]
  OBVIOUS
<1>0. changes \in Nat /\ errors \in 0..MaxErrors /\ MaxErrors \in Nat /\ MaxChanges \in Nat
  <2>1. MaxErrors \in Nat /\ MaxChanges \in Nat
    BY CheckAssumption
  <2>2. changes \in 0..MaxChanges /\ errors \in 0..MaxErrors
    BY DEF World
  <2> QED
    BY <2>1, <2>2
<1>1. CASE \E o \in Objects : \E v \in Versions[o] : Write(o, v)
  <2>0. PICK o \in Objects : \E v \in Versions[o] : Write(o, v)
    BY <1>1
  <2>1. PICK v \in Versions[o] : Write(o, v)
    BY <2>0
  <2>2. /\ changes < MaxChanges /\ changes' = changes + 1 /\ wl' = wl /\ errors' = errors
        /\ world' = [world EXCEPT ![o] = v] /\ was' = [was EXCEPT ![o] = @ \union {v}]
    BY <2>1 DEF Write
  <2>3. /\ DOMAIN world' = Objects /\ DOMAIN was' = Objects
        /\ \A p \in Objects : /\ world'[p] = IF p = o THEN v ELSE world[p]
                              /\ was'[p] = IF p = o THEN was[p] \union {v} ELSE was[p]
    BY <2>2 DEF World
  <2>4. changes' \in 0..MaxChanges /\ changes' # 0
    BY <1>0, <2>2
  <2> QED
    BY <1>0, <2>1, <2>2, <2>3, <2>4 DEF World
<1>2. CASE Read \/ Conclude \/ Render \/ UNCHANGED vars
  <2>1. UNCHANGED <<wl, world, was, changes, errors>>
    BY <1>2 DEF Read, Conclude, Render, vars
  <2> QED
    BY <2>1 DEF World
<1>3. CASE ReadFails
  <2>1. UNCHANGED <<wl, world, was, changes>> /\ ((errors < MaxErrors /\ errors' = errors + 1) \/ errors' = errors)
    BY <1>3 DEF ReadFails
  <2>2. errors' \in 0..MaxErrors
    BY <1>0, <2>1
  <2> QED
    BY <2>1, <2>2 DEF World
<1> QED
  BY <1>1, <1>2, <1>3 DEF Next

LEMMA ReportedStays == Results /\ Reported /\ [Next]_vars => Reported'
<1> SUFFICES ASSUME Results, Reported, [Next]_vars PROVE Reported'
  OBVIOUS
<1>1. CASE (\E o \in Objects : \E v \in Versions[o] : Write(o, v)) \/ Read \/ ReadFails \/ Conclude
  <2>1. exit = "running"
    <3>1. CASE \E o \in Objects : \E v \in Versions[o] : Write(o, v)
      BY <3>1 DEF Write
    <3>2. CASE Read \/ ReadFails \/ Conclude
      <4>1. Running \in DOMAIN Checks
        BY <3>2 DEF Read, ReadFails, Conclude
      <4> QED
        BY <4>1, RunningIs DEF Reported
    <3> QED
      BY <1>1, <3>1, <3>2
  <2>2. exit' = exit /\ printed' = printed
    BY <1>1 DEF Write, Read, ReadFails, Conclude
  <2> QED
    BY <2>1, <2>2 DEF Reported
<1>2. CASE Render
  <2>1. /\ groups' = groups /\ printed' = RenderHuman(groups)
        /\ exit' = IF MaxSeverity(groups) = Severity["high"] THEN "high" ELSE "zero"
        /\ Len(groups) = 6
    BY <1>2, RunningIs DEF Render
  <2>2. Len(groups') = 6 /\ printed' = RenderHuman(groups')
        /\ (exit' = "high" <=> MaxSeverity(groups') = Severity["high"])
        /\ exit' \in {"high", "zero"}
    BY <2>1
  <2> QED
    BY <2>2 DEF Reported
<1>3. CASE UNCHANGED vars
  BY <1>3 DEF vars, Reported
<1> QED
  BY <1>1, <1>2, <1>3 DEF Next

LEMMA TypesStay == TypeInv /\ [Next]_vars => TypeInv'
<1> SUFFICES ASSUME TypeInv, [Next]_vars PROVE Reading' /\ Results'
  BY WorldStays, ReportedStays DEF TypeInv
<1>1. World /\ World' /\ Reading /\ Results /\ wl' = wl
      /\ \A o \in Objects : was[o] \subseteq was'[o]
  BY WorldStays DEF TypeInv
<1>2. SA' = SA /\ GroupSet' = GroupSet /\ SA \in Objects
  BY <1>1, SameTemplate, TemplateIs DEF World
<1>3. ASSUME groups' = groups, failed' = failed PROVE Results' /\ Running' = Running /\ Current' = Current
  BY <1>1, <1>2, <1>3 DEF Results, Running, Current
\* A Result is added and what was read is forgotten.
<1>4. ASSUME Running \in 1..6, NEW g \in GroupSet, groups' = Append(groups, g), seen' = <<>>,
             failed' = IF g.skipped THEN failed \union {Running} ELSE failed,
             g.skipped => g.findings = {},
             \A f \in g.findings : /\ Running # 6 <=> f.severity = "high"
                                   /\ Running = 1 => f.object = SA
      PROVE  Reading' /\ Results'
  <2>1. Results'
    BY <1>1, <1>4, ResultsGrow
  <2>2. DOMAIN seen' = {}
    BY <1>4
  <2> QED
    BY <2>1, <2>2 DEF Reading
<1>5. CASE (\E o \in Objects : \E v \in Versions[o] : Write(o, v)) \/ Render \/ UNCHANGED vars
  <2>1. UNCHANGED <<wl, seen, groups, failed>>
    BY <1>5 DEF Write, Render, vars
  <2>2. (IF Running \in DOMAIN Checks THEN ToRead(Current) ELSE {})'
            = IF Running \in DOMAIN Checks THEN ToRead(Current) ELSE {}
    BY <2>1 DEF Running, Current, ToRead, Reads, ServiceAccountReads, PriorityClassReads, ConfigReads,
                ClaimReads, StorageClassReads, Classed, PullReads, Own
  <2>3. Reading'
    BY <1>1, <1>2, <1>3, <2>1, <2>2 DEF Reading
  <2> QED
    BY <1>3, <2>1, <2>3
<1>6. CASE Read
  <2>1. PICK o \in Due(Current) :
           /\ ~(Indispensable(o) /\ world[o] = {})
           /\ seen' = [p \in DOMAIN seen \union {o} |-> IF p = o THEN world[o] ELSE seen[p]]
    BY <1>6 DEF Read
  <2>2. Running \in DOMAIN Checks /\ UNCHANGED <<wl, world, was, groups, failed>>
    BY <1>6 DEF Read
  <2>3. o \in ToRead(Current) /\ o \notin DOMAIN seen
    BY <2>1, DueIsUnread
  <2>4. /\ DOMAIN seen \subseteq ToRead(Current)
        /\ \A p \in DOMAIN seen : p \in Objects /\ seen[p] \in was[p]
        /\ Running = 6 /\ SA \in DOMAIN seen => "" \in seen[SA]
    BY <1>1, <2>2 DEF Reading
  <2>5. o \in Objects
    <3>1. SA \in DOMAIN seen => seen[SA] \in Versions[SA]
      BY <1>1, <2>4 DEF World
    <3>2. Current \in CheckNames
      BY <2>2, ChecksAre DEF Current
    <3> QED
      BY <1>1, <2>3, <3>1, <3>2, ReadsAreObjects DEF World
  <2>6. DOMAIN seen' = DOMAIN seen \union {o}
        /\ \A p \in DOMAIN seen' : seen'[p] = IF p = o THEN world[o] ELSE seen[p]
    BY <2>1
  <2>7. ToRead(Current) \subseteq ToRead(Current)'
    <3>1. \A c : Reads(c)' = Reads(c)
      BY <2>2 DEF Reads, ServiceAccountReads, PriorityClassReads, ConfigReads,
                  ClaimReads, StorageClassReads, Classed, PullReads
    <3>2. Own \subseteq Own'
      BY <2>2, <2>3, <2>6 DEF Own
    <3>3. Current' = Current
      BY <2>2, <1>3
    <3> QED
      BY <3>1, <3>2, <3>3 DEF ToRead
  <2>8. DOMAIN seen' \subseteq ToRead(Current)'
    BY <2>3, <2>4, <2>6, <2>7
  <2>9. \A p \in DOMAIN seen' : p \in Objects /\ seen'[p] \in was'[p]
    BY <1>1, <2>2, <2>4, <2>5, <2>6 DEF World
  <2>10. Running = 6 /\ SA \in DOMAIN seen' => "" \in seen'[SA]
    <3>1. CASE Running = 6 /\ SA = o
      <4>1. Indispensable(o)
        BY <3>1, ChecksAre DEF Indispensable, Current, SA
      <4>2. world[o] # {} /\ world[o] \in Versions[o]
        BY <1>1, <2>1, <2>5, <4>1 DEF World
      <4>3. "" \in world[o]
        BY <1>1, <2>5, <4>2, TemplateIs DEF World
      <4> QED
        BY <2>6, <3>1, <4>3
    <3>2. CASE SA # o
      BY <2>4, <2>6, <3>2
    <3> QED
      BY <3>1, <3>2
  <2> QED
    BY <1>2, <1>3, <2>2, <2>8, <2>9, <2>10 DEF Reading
<1>7. CASE ReadFails
  <2> DEFINE g == Group(Current, TRUE, {})
  <2>1. /\ Running \in 1..6 /\ groups' = Append(groups, g) /\ seen' = <<>>
        /\ failed' = failed \union {Running}
    BY <1>1, <1>7, RunningIs DEF ReadFails
  <2>2. g \in GroupSet /\ g.skipped /\ g.findings = {}
    BY <2>1, ChecksAre DEF Group, GroupSet, Current
  <2> HIDE DEF g
  <2> QED
    BY <1>4, <2>1, <2>2
<1>8. CASE Conclude
  <2> DEFINE g == Group(Current, FALSE, Findings(Current))
  <2>1. /\ Running \in 1..6 /\ groups' = Append(groups, g) /\ seen' = <<>> /\ failed' = failed
    BY <1>1, <1>8, RunningIs DEF Conclude
  <2>2. g.findings = Findings(Current) /\ ~g.skipped
    BY DEF Group
  <2>3. g \in GroupSet
    <3>1. Findings(Current) \in SUBSET FindingSet /\ Current \in CheckNames
      BY <1>1, <2>1, FindingsAre, ChecksAre DEF Current
    <3> QED
      BY <3>1 DEF Group, GroupSet
  <2>4. \A f \in g.findings : /\ Running # 6 <=> f.severity = "high"
                              /\ Running = 1 => f.object = SA
    BY <1>1, <2>1, <2>2, FindingsAre
  <2> HIDE DEF g
  <2> QED
    BY <1>4, <2>1, <2>2, <2>3, <2>4
<1> QED
  BY <1>5, <1>6, <1>7, <1>8 DEF Next

\* Types are kept, and what is kept of the reads are those of the running check, of
\* versions the objects have had, for any template, cluster and number of writes.
THEOREM TypeInvariant == Spec => []TypeOK
BY InitTypes, TypesStay, TypesAre, PTL DEF Spec
-----------------------------------------------------------------------------
(* What the checks say was true.                                            *)

Truths ==
    \A i \in DOMAIN groups : ~groups[i].skipped =>
        /\ i # 6 => \A o \in Objects : \E v \in was[o] :
                        Told(groups[i].findings, o) = Lacking(Checks[i], o, v)
        /\ i = 6 /\ wl.private > 0 => \E v \in was[SA] : PullSaid(groups[i].findings, v, was)

LEMMA TruthsAre == World /\ Results /\ Truths => ResultsWereTrue
<1> SUFFICES ASSUME World, Results, Truths
             PROVE  ResultsHoldOfOneVersion /\ PullVerdictWasTrue
  BY DEF ResultsWereTrue
<1>1. \A i \in DOMAIN groups : i \in 1..6 /\ (Checks[i] = "pull" <=> i = 6)
  <2>1. DOMAIN groups = 1..Len(groups) /\ Len(groups) \in Nat /\ Len(groups) <= 6
    BY RunningIs DEF Results
  <2> QED
    BY <2>1, ChecksAre
<1>2. ResultsHoldOfOneVersion
  BY <1>1 DEF Truths, ResultsHoldOfOneVersion, Told
<1>3. PullVerdictWasTrue
  BY <1>1 DEF Truths, PullVerdictWasTrue, PullSaid, SA
<1> QED
  BY <1>2, <1>3

\* A version an object has had stays such, and what was true of it stays true.
LEMMA SaidStays ==
    ASSUME World, World', wl' = wl, \A o \in Objects : was[o] \subseteq was'[o]
    PROVE  /\ \A c, o, v : Lacking(c, o, v)' = Lacking(c, o, v)
           /\ \A fs, v, had : PullSaid(fs, v, had)' = PullSaid(fs, v, had)
           /\ \A fs : \A v \in was[SA] : PullSaid(fs, v, was) => PullSaid(fs, v, was')
<1>1. \A c, o, v : Lacking(c, o, v)' = Lacking(c, o, v)
  BY DEF Lacking, Required, ServiceAccount
<1>3. \A fs, v, had : PullSaid(fs, v, had)' = PullSaid(fs, v, had)
  BY DEF PullSaid
<1>2. ASSUME NEW fs, NEW v \in was[SA], PullSaid(fs, v, was)
      PROVE  PullSaid(fs, v, was')
  <2> DEFINE declared == {<<"Secret", n>> : n \in ToSet(wl.pullSecrets) \union (v \ {""})}
             said == {f.severity : f \in fs}
  <2>1. /\ "" \in v
        /\ \/ said = {} /\ \E o \in declared : \E s \in was[o] : "" \in s
           \/ said = {"medium"} /\ declared # {} /\ \A o \in declared : {} \in was[o]
           \/ said = {"low"} /\ declared = {}
    BY <1>2 DEF PullSaid
  <2>2. \A o \in declared : o \in Objects
    <3>1. IsTemplate(wl) /\ SA \in Objects /\ v \in Versions[SA]
      BY TemplateIs DEF World
    <3>2. \A n \in v \ {""} : <<"Secret", n>> \in Objects
      BY <3>1 DEF IsTemplate, SA
    <3>3. \A n \in ToSet(wl.pullSecrets) : <<"Secret", n>> \in Objects
      BY <3>1 DEF IsTemplate, ToSet
    <3> QED
      BY <3>2, <3>3
  <2>3. /\ (\E o \in declared : \E s \in was[o] : "" \in s)
              => \E o \in declared : \E s \in was'[o] : "" \in s
        /\ (\A o \in declared : {} \in was[o]) => \A o \in declared : {} \in was'[o]
    BY <2>2
  <2>4. /\ "" \in v
        /\ \/ said = {} /\ \E o \in declared : \E s \in was'[o] : "" \in s
           \/ said = {"medium"} /\ declared # {} /\ \A o \in declared : {} \in was'[o]
           \/ said = {"low"} /\ declared = {}
    BY <2>1, <2>3
  <2> QED
    BY <2>4 DEF PullSaid
<1> QED
  BY <1>1, <1>2, <1>3

LEMMA TruthsStay == TypeInv /\ TypeInv' /\ Truths /\ [Next]_vars => Truths'
<1> SUFFICES ASSUME TypeInv, TypeInv', Truths, [Next]_vars PROVE Truths'
  OBVIOUS
<1>1. /\ World /\ World' /\ Reading /\ Results /\ wl' = wl /\ SA' = SA /\ SA \in Objects
      /\ \A o \in Objects : was[o] \subseteq was'[o]
  BY WorldStays, SameTemplate, TemplateIs DEF TypeInv, World
<1>7. /\ \A c, o, v : Lacking(c, o, v)' = Lacking(c, o, v)
      /\ \A fs, v, had : PullSaid(fs, v, had)' = PullSaid(fs, v, had)
  BY <1>1, SaidStays
\* What was said before.
<1>2. ASSUME NEW i \in DOMAIN groups, ~groups[i].skipped
      PROVE  /\ i # 6 => \A o \in Objects : \E v \in was'[o] :
                             Told(groups[i].findings, o) = Lacking(Checks[i], o, v)
             /\ i = 6 /\ wl.private > 0 => \E v \in was'[SA] : PullSaid(groups[i].findings, v, was')
  <2>2. \A v \in was[SA] : PullSaid(groups[i].findings, v, was) => PullSaid(groups[i].findings, v, was')
    BY <1>1, SaidStays
  <2>3. i # 6 => \A o \in Objects : \E v \in was'[o] :
                     Told(groups[i].findings, o) = Lacking(Checks[i], o, v)
    BY <1>1, <1>2 DEF Truths
  <2>4. i = 6 /\ wl.private > 0 => \E v \in was'[SA] : PullSaid(groups[i].findings, v, was')
    BY <1>1, <1>2, <2>2 DEF Truths
  <2> QED
    BY <2>3, <2>4
\* What a new Result says.
<1>3. ASSUME Running \in 1..6, NEW g \in GroupSet, groups' = Append(groups, g),
             ~g.skipped =>
                 /\ Running # 6 => \A o \in Objects : \E v \in was'[o] :
                                       Told(g.findings, o) = Lacking(Checks[Running], o, v)
                 /\ Running = 6 /\ wl.private > 0 => \E v \in was'[SA] : PullSaid(g.findings, v, was')
      PROVE  Truths'
  <2>1. /\ DOMAIN groups' = DOMAIN groups \union {Running}
        /\ \A i \in DOMAIN groups : i # Running /\ groups'[i] = groups[i]
        /\ groups'[Running] = g
    BY <1>1, <1>3, GroupAdded
  <2>2. ASSUME NEW i \in DOMAIN groups', ~groups'[i].skipped
        PROVE  /\ i # 6 => \A o \in Objects : \E v \in was'[o] :
                               Told(groups'[i].findings, o) = Lacking(Checks[i], o, v)
               /\ i = 6 /\ wl.private > 0 => \E v \in was'[SA] : PullSaid(groups'[i].findings, v, was')
    <3>1. CASE i = Running
      BY <1>3, <2>1, <2>2, <3>1
    <3>2. CASE i \in DOMAIN groups
      BY <1>2, <2>1, <2>2, <3>2
    <3> QED
      BY <2>1, <3>1, <3>2
  <2> QED
    BY <1>1, <1>7, <2>2 DEF Truths, Told
<1>4. CASE (\E o \in Objects : \E v \in Versions[o] : Write(o, v)) \/ Read \/ Render \/ UNCHANGED vars
  <2>1. groups' = groups
    BY <1>4 DEF Write, Read, Render, vars
  <2> QED
    BY <1>1, <1>2, <1>7, <2>1 DEF Truths, Told
<1>5. CASE ReadFails
  <2> DEFINE g == Group(Current, TRUE, {})
  <2>1. Running \in 1..6 /\ groups' = Append(groups, g)
    BY <1>1, <1>5, RunningIs DEF ReadFails
  <2>2. g \in GroupSet /\ g.skipped
    BY <2>1, ChecksAre DEF Group, GroupSet, Current
  <2> HIDE DEF g
  <2> QED
    BY <1>3, <2>1, <2>2
<1>6. CASE Conclude
  <2> DEFINE g == Group(Current, FALSE, Findings(Current))
  <2>1. /\ Running \in 1..6 /\ groups' = Append(groups, g) /\ was' = was /\ Unread(Current) = {}
    BY <1>1, <1>6, RunningIs DEF Conclude
  <2>2. g.findings = Findings(Current) /\ ~g.skipped
    BY DEF Group
  <2>3. g \in GroupSet
    <3>1. Findings(Current) \in SUBSET FindingSet /\ Current \in CheckNames
      BY <1>1, <2>1, FindingsAre, ChecksAre DEF Current
    <3> QED
      BY <3>1 DEF Group, GroupSet
  <2>5. ASSUME Running # 6, NEW o \in Objects
        PROVE  \E v \in was'[o] : Told(g.findings, o) = Lacking(Checks[Running], o, v)
    <3>1. Running \in 1..5
      BY <2>1, <2>5
    <3>2. \E v \in was[o] : Told(Findings(Current), o) = Lacking(Current, o, v)
      BY <1>1, <2>1, <3>1, CheckTells
    <3>3. Current = Checks[Running]
      BY DEF Current
    <3> HIDE DEF g
    <3> QED
      BY <2>1, <2>2, <3>2, <3>3
  <2>6. ASSUME Running = 6, wl.private > 0
        PROVE  \E v \in was'[SA] : PullSaid(g.findings, v, was')
    <3>1. wl.private > 0
      BY <1>1, <2>6
    <3>2. \E v \in was[SA] : PullSaid(Findings(Current), v, was)
      BY <1>1, <2>1, <2>6, <3>1, PullTells
    <3> HIDE DEF g
    <3> QED
      BY <2>1, <2>2, <3>2
  <2> HIDE DEF g
  <2> QED
    BY <1>3, <2>1, <2>2, <2>3, <2>5, <2>6
<1> QED
  BY <1>4, <1>5, <1>6 DEF Next

\* Whatever is written while the command runs and whichever reads fail, what each
\* check says of an object, and what it does not say, was true of one version the
\* object really had; and so is the verdict on the image pull secrets.
THEOREM ResultsAreTrue == Spec => []ResultsWereTrue
<1>1. Init => Truths
  <2> SUFFICES ASSUME Init PROVE Truths
    OBVIOUS
  <2>1. DOMAIN groups = {}
    BY DEF Init
  <2> QED
    BY <2>1 DEF Truths
<1>2. TypeInv /\ Truths /\ [Next]_vars => (TypeInv /\ Truths)'
  BY TypesStay, TruthsStay
<1>3. TypeInv /\ Truths => ResultsWereTrue
  BY TruthsAre DEF TypeInv
<1> QED
  BY InitTypes, <1>1, <1>2, <1>3, PTL DEF Spec
-----------------------------------------------------------------------------
(* What the report as a whole says.                                         *)

LEMMA FailedIs ==
    ASSUME Results
    PROVE  failed \subseteq 1..6 /\ IsFiniteSet(failed) /\ IsFiniteSet(failed \ {6})
<1>1. failed \subseteq 1..6
  <2>1. DOMAIN groups = 1..Len(groups) /\ Len(groups) \in Nat /\ Len(groups) <= 6
    BY RunningIs DEF Results
  <2> QED
    BY <2>1 DEF Results
<1>2. IsFiniteSet(1..6)
  <2>1. 1 \in Int /\ 6 \in Int
    OBVIOUS
  <2> QED
    BY <2>1, FS_Interval, Zenon
<1>3. failed \ {6} \subseteq failed
  OBVIOUS
<1> QED
  BY <1>1, <1>2, <1>3, FS_Subset

LEMMA FailuresStay == TypeInv /\ Failures /\ [Next]_vars => Failures'
<1> SUFFICES ASSUME TypeInv, Failures, [Next]_vars PROVE Failures'
  OBVIOUS
<1>1. /\ World /\ Reading /\ Results /\ wl' = wl /\ SA' = SA /\ SA \in Objects
      /\ \A o \in Objects : was[o] \subseteq was'[o]
  BY WorldStays, SameTemplate, TemplateIs DEF TypeInv, World
<1>2. errors \in Nat
  <2>1. MaxErrors \in Nat
    BY CheckAssumption
  <2> QED
    BY <1>1, <2>1 DEF World
<1>3. IsFiniteSet(failed \ {6}) /\ Cardinality(failed \ {6}) \in Nat
  BY <1>1, FailedIs, FS_CardinalityType
<1>4. CASE \/ \E o \in Objects : \E v \in Versions[o] : Write(o, v)
           \/ Read \/ Conclude \/ Render \/ UNCHANGED vars
  <2>1. failed' = failed /\ errors' = errors
    BY <1>4 DEF Write, Read, Conclude, Render, vars
  <2> QED
    BY <1>1, <2>1 DEF Failures
<1>5. CASE ReadFails
  <2>1. PICK o \in Due(Current) : \/ errors' = errors + 1
                                  \/ Indispensable(o) /\ world[o] = {} /\ errors' = errors
    BY <1>5 DEF ReadFails
  <2>2. Running \in 1..6 /\ failed' = failed \union {Running} /\ was' = was
    BY <1>1, <1>5, RunningIs DEF ReadFails
  <2>3. CASE Running # 6
    <3>1. errors' = errors + 1
      BY <2>1, <2>2, <2>3, ChecksAre DEF Indispensable, Current
    <3>2. Cardinality((failed \ {6}) \union {Running}) <= Cardinality(failed \ {6}) + 1
      BY <1>3, FS_AddElement
    <3>3. failed' \ {6} = (failed \ {6}) \union {Running}
      BY <2>2, <2>3
    <3>4. Cardinality(failed' \ {6}) \in Nat
      <4>1. IsFiniteSet((failed \ {6}) \union {Running})
        BY <1>3, FS_AddElement
      <4>2. Cardinality((failed \ {6}) \union {Running}) \in Nat
        BY <4>1, FS_CardinalityType
      <4> QED
        BY <3>3, <4>2
    <3>5. Cardinality(failed' \ {6}) <= errors'
      <4>1. Cardinality(failed' \ {6}) <= Cardinality(failed \ {6}) + 1
        BY <3>2, <3>3
      <4>2. Cardinality(failed \ {6}) <= errors
        BY DEF Failures
      <4> QED
        BY <1>2, <1>3, <3>1, <3>4, <4>1, <4>2
    <3>6. errors' # 0
      BY <1>2, <3>1
    <3> QED
      BY <3>5, <3>6 DEF Failures
  <2>4. CASE Running = 6
    <3>1. failed' \ {6} = failed \ {6}
      BY <2>2, <2>4
    <3>2. Cardinality(failed' \ {6}) <= errors'
      BY <1>2, <1>3, <2>1, <3>1 DEF Failures
    <3>3. ASSUME errors' = 0
          PROVE  wl.private > 0 /\ {} \in was[SA]
      <4>1. Indispensable(o) /\ world[o] = {}
        BY <1>2, <2>1, <3>3
      <4>2. o = SA /\ world[SA] = {}
        BY <4>1 DEF Indispensable, SA
      <4>3. Current = "pull" /\ o \in ToRead("pull")
        BY <2>1, <2>4, ChecksAre, DueIsUnread DEF Current
      <4>4. DOMAIN seen \subseteq ToRead("pull") /\ (SA \in DOMAIN seen => seen[SA] \in Versions[SA])
        BY <1>1, <2>2, <4>3, ChecksAre DEF Reading, World
      <4>5. wl.private # 0
        BY <1>1, <4>3, <4>4, PullReadsAre
      <4>6. wl.private \in Nat
        BY <1>1, TemplateIs DEF World, IsTemplate
      <4>7. wl.private > 0
        BY <4>5, <4>6
      <4> QED
        BY <1>1, <4>2, <4>7 DEF World
    <3> QED
      BY <1>1, <2>2, <3>2, <3>3 DEF Failures
  <2> QED
    BY <2>3, <2>4
<1> QED
  BY <1>4, <1>5 DEF Next

LEMMA MaxIs ==
    ASSUME Results
    PROVE  MaxSeverity(groups) = Severity["high"]
             <=> \E i \in DOMAIN groups : \E f \in groups[i].findings : f.severity = "high"
<1> DEFINE all == UNION {groups[i].findings : i \in DOMAIN groups}
           OfMax(s) == /\ \E f \in all : Severity[f.severity] = s
                       /\ \A f \in all : Severity[f.severity] <= s
<1>1. \A f : f \in all <=> \E i \in DOMAIN groups : f \in groups[i].findings
  OBVIOUS
<1>2. \A f \in all : f.severity \in {"low", "medium", "high"}
  <2>1. \A i \in DOMAIN groups : groups[i] \in GroupSet
    BY DEF Results
  <2>2. \A i \in DOMAIN groups : groups[i].findings \in SUBSET FindingSet
    BY <2>1 DEF GroupSet
  <2>3. \A f \in FindingSet : f.severity \in {"low", "medium", "high"}
    BY DEF FindingSet
  <2> QED
    BY <1>1, <2>2, <2>3
<1>3. MaxSeverity(groups) = IF all = {} THEN 0 ELSE CHOOSE s \in 1..3 : OfMax(s)
  BY DEF MaxSeverity
<1> HIDE DEF all
<1>4. Severity["low"] = 1 /\ Severity["medium"] = 2 /\ Severity["high"] = 3
  BY DEF Severity
<1>5. \A f \in all : /\ Severity[f.severity] \in 1..3
                     /\ Severity[f.severity] = 3 <=> f.severity = "high"
  BY <1>2, <1>4
<1>6. ASSUME all # {} PROVE \E s \in 1..3 : OfMax(s)
  <2>1. CASE \E f \in all : Severity[f.severity] = 3
    <3>1. OfMax(3)
      BY <1>5, <2>1
    <3> QED
      BY <3>1
  <2>2. CASE (\A f \in all : Severity[f.severity] # 3) /\ \E f \in all : Severity[f.severity] = 2
    <3>1. OfMax(2)
      BY <1>5, <2>2
    <3> QED
      BY <3>1
  <2>3. CASE \A f \in all : Severity[f.severity] # 3 /\ Severity[f.severity] # 2
    <3>1. OfMax(1)
      BY <1>5, <1>6, <2>3
    <3> QED
      BY <3>1
  <2> QED
    BY <2>1, <2>2, <2>3
<1>7. all # {} => OfMax(MaxSeverity(groups)) /\ MaxSeverity(groups) \in 1..3
  <2> HIDE DEF OfMax
  <2> QED
    BY <1>3, <1>6
<1>8. ASSUME MaxSeverity(groups) = 3 PROVE \E f \in all : f.severity = "high"
  <2>1. all # {}
    BY <1>3, <1>8
  <2> QED
    BY <1>5, <1>7, <1>8, <2>1
<1>9. ASSUME NEW f \in all, f.severity = "high" PROVE MaxSeverity(groups) = 3
  <2>1. Severity[f.severity] <= MaxSeverity(groups) /\ MaxSeverity(groups) \in 1..3
    BY <1>7, <1>9
  <2> QED
    BY <1>4, <1>9, <2>1
<1> QED
  BY <1>1, <1>4, <1>8, <1>9

\* Where anything is required of an object, the object itself is.
LEMMA RequiredIs ==
    ASSUME World, NEW i \in 1..6, NEW o
    PROVE  /\ Required(Checks[i], o) # {} => "" \in Required(Checks[i], o)
           /\ i = 6 => Required(Checks[i], o) = {}
           /\ i = 1 /\ o = SA => Required(Checks[i], o) = {""}
<1>1. Checks[i] \in CheckNames /\ (Checks[i] = "pull" <=> i = 6) /\ Checks[1] = "serviceaccount"
  BY ChecksAre
<1>2. CASE Checks[i] = "pull"
  BY <1>1, <1>2 DEF Required
<1>3. CASE Checks[i] = "config"
  BY <1>1, <1>3, TemplateIs, ConfigTells DEF World
<1>4. CASE Checks[i] \in {"serviceaccount", "priorityclass", "pvc", "storageclass"}
  <2>1. Required(Checks[i], o) = IF o \in ToRead(Checks[i]) THEN {""} ELSE {}
    BY <1>4, ExistenceTells
  <2>2. o = SA => o \in ToRead("serviceaccount")
    BY ToReadIs
  <2>3. i # 6
    BY <1>1, <1>4
  <2> QED
    BY <1>1, <2>1, <2>2, <2>3
<1> QED
  BY <1>1, <1>2, <1>3, <1>4 DEF CheckNames

LEMMA ExitIsTrue == TypeInv /\ Truths => ExitIsAboutTheCluster
<1> SUFFICES ASSUME TypeInv, Truths PROVE ExitIsAboutTheCluster
  OBVIOUS
<1>1. World /\ Results /\ Reported
  BY DEF TypeInv
<1>2. DOMAIN Checks = 1..6 /\ DOMAIN groups \subseteq 1..6
  <2>1. DOMAIN groups = 1..Len(groups) /\ Len(groups) \in Nat /\ Len(groups) <= 6
    BY <1>1, RunningIs DEF Results
  <2> QED
    BY <2>1, ChecksAre
<1>3. ASSUME exit = "high"
      PROVE  \E i \in DOMAIN Checks, o \in Objects : \E v \in was[o] : Lacking(Checks[i], o, v) # {}
  <2>0. PICK i \in DOMAIN groups : \E f \in groups[i].findings : f.severity = "high"
    BY <1>1, <1>3, MaxIs DEF Reported
  <2>1. PICK f \in groups[i].findings : f.severity = "high"
    BY <2>0
  <2>2. ~groups[i].skipped /\ i # 6
    BY <1>1, <2>1 DEF Results
  <2>3. f.object \in Objects
    <3>1. groups[i] \in GroupSet
      BY <1>1 DEF Results
    <3> QED
      BY <3>1 DEF GroupSet, FindingSet
  <2>4. PICK v \in was[f.object] : Told(groups[i].findings, f.object) = Lacking(Checks[i], f.object, v)
    BY <2>2, <2>3 DEF Truths
  <2>5. f.key \in Told(groups[i].findings, f.object)
    BY DEF Told
  <2> QED
    BY <1>2, <2>3, <2>4, <2>5
<1>4. ASSUME exit = "zero", NEW i \in DOMAIN Checks, printed[i] # "SKIP", NEW o \in Objects
      PROVE  \E v \in was[o] : Required(Checks[i], o) \subseteq v
  <2>1. DOMAIN groups = 1..6 /\ printed = RenderHuman(groups) /\ MaxSeverity(groups) # Severity["high"]
    BY <1>1, <1>4, RunningIs DEF Reported
  <2>2. ~groups[i].skipped
    BY <1>2, <1>4, <2>1 DEF RenderHuman
  <2>3. CASE i = 6
    BY <1>1, <1>2, <2>3, RequiredIs DEF World
  <2>4. CASE i # 6
    <3>1. groups[i].findings = {}
      BY <1>1, <1>2, <2>1, <2>4, MaxIs DEF Results
    <3>2. PICK v \in was[o] : Told(groups[i].findings, o) = Lacking(Checks[i], o, v)
      BY <1>2, <2>1, <2>2, <2>4 DEF Truths
    <3>3. Lacking(Checks[i], o, v) = {}
      BY <3>1, <3>2 DEF Told
    <3>4. Required(Checks[i], o) # {} => "" \in Required(Checks[i], o)
      BY <1>1, <1>2, RequiredIs
    <3>5. Required(Checks[i], o) \subseteq v
      BY <3>3, <3>4 DEF Lacking
    <3> QED
      BY <3>5
  <2> QED
    BY <2>3, <2>4
<1> QED
  BY <1>3, <1>4 DEF ExitIsAboutTheCluster

LEMMA SkipsAreTrue == TypeInv /\ Truths /\ Failures => SkipsAreFailedReads
<1> SUFFICES ASSUME TypeInv, Truths, Failures, exit # "running"
             PROVE  /\ \A i \in DOMAIN printed : printed[i] = "SKIP" <=> i \in failed
                    /\ Cardinality(failed) <= errors + 1
                    /\ (changes = 0 /\ errors = 0) =>
                          (failed # {} <=> wl.private > 0 /\ printed[1] = "FINDINGS")
  BY DEF SkipsAreFailedReads
<1>1. World /\ Results /\ DOMAIN groups = 1..6 /\ printed = RenderHuman(groups) /\ SA \in Objects
  BY RunningIs, TemplateIs DEF TypeInv, Reported, World
<1>2. /\ DOMAIN printed = 1..6
      /\ \A i \in 1..6 :
             /\ groups[i].skipped => printed[i] = "SKIP"
             /\ ~groups[i].skipped /\ groups[i].findings = {} => printed[i] = "OK"
             /\ ~groups[i].skipped /\ groups[i].findings # {} => printed[i] = "FINDINGS"
  BY <1>1 DEF RenderHuman
<1>3. \A i \in 1..6 : i \in failed <=> groups[i].skipped
  BY <1>1 DEF Results
<1>4. \A i \in DOMAIN printed : printed[i] = "SKIP" <=> i \in failed
  BY <1>2, <1>3
<1>5. errors \in Nat
  <2>1. MaxErrors \in Nat
    BY CheckAssumption
  <2> QED
    BY <1>1, <2>1 DEF World
<1>6. /\ IsFiniteSet(failed) /\ IsFiniteSet(failed \ {6})
      /\ Cardinality(failed) \in Nat /\ Cardinality(failed \ {6}) \in Nat
      /\ Cardinality(failed \ {6}) <= errors
  BY <1>1, FailedIs, FS_CardinalityType DEF Failures
<1>7. Cardinality(failed) <= errors + 1
  <2>1. Cardinality((failed \ {6}) \union {6}) <= Cardinality(failed \ {6}) + 1
    BY <1>6, FS_AddElement
  <2>2. Cardinality(failed) <= Cardinality((failed \ {6}) \union {6})
    <3>1. failed \subseteq (failed \ {6}) \union {6} /\ IsFiniteSet((failed \ {6}) \union {6})
      BY <1>6, FS_AddElement
    <3> QED
      BY <3>1, FS_Subset
  <2>3. Cardinality((failed \ {6}) \union {6}) \in Nat
    BY <1>6, FS_AddElement, FS_CardinalityType
  <2> QED
    BY <1>5, <1>6, <2>1, <2>2, <2>3
<1>8. ASSUME changes = 0, errors = 0
      PROVE  failed # {} <=> wl.private > 0 /\ printed[1] = "FINDINGS"
  <2>1. was[SA] = {world[SA]}
    BY <1>1, <1>8 DEF World
  <2>2. failed \ {6} = {}
    BY <1>6, <1>8, FS_EmptySet
  <2>3. ~groups[1].skipped /\ (failed # {} => 6 \in failed)
    BY <1>3, <2>2
  <2>4. Told(groups[1].findings, SA) = Lacking(Checks[1], SA, world[SA])
    <3>1. 1 \in DOMAIN groups /\ 1 # 6
      BY <1>1
    <3>2. \E v \in was[SA] : Told(groups[1].findings, SA) = Lacking(Checks[1], SA, v)
      BY <1>1, <2>3, <3>1 DEF Truths
    <3> QED
      BY <2>1, <3>2
  <2>5. Required(Checks[1], SA) = {""}
    <3>1. 1 \in 1..6
      OBVIOUS
    <3> QED
      BY <1>1, <3>1, RequiredIs
  <2>6. ASSUME failed # {} PROVE wl.private > 0 /\ printed[1] = "FINDINGS"
    <3>1. wl.private > 0 /\ world[SA] = {}
      BY <1>8, <2>1, <2>3, <2>6 DEF Failures
    <3>2. Told(groups[1].findings, SA) = {""}
      BY <2>4, <2>5, <3>1 DEF Lacking
    <3>3. groups[1].findings # {}
      BY <3>2 DEF Told
    <3> QED
      BY <1>2, <2>3, <3>1, <3>3
  <2>7. ASSUME wl.private > 0, printed[1] = "FINDINGS", failed = {} PROVE FALSE
    <3>1. PICK f : f \in groups[1].findings
      BY <1>2, <2>3, <2>7
    <3>2. f.object = SA
      BY <1>1, <3>1 DEF Results
    <3>3. Told(groups[1].findings, SA) # {}
      BY <3>1, <3>2 DEF Told
    <3>4. "" \notin world[SA]
      BY <2>4, <2>5, <3>3 DEF Lacking
    <3>5. \E v \in was[SA] : PullSaid(groups[6].findings, v, was)
      BY <1>1, <1>3, <2>7 DEF Truths
    <3>6. \E v \in was[SA] : "" \in v
      BY <3>5 DEF PullSaid
    <3> QED
      BY <2>1, <3>4, <3>6
  <2> QED
    BY <2>6, <2>7
<1> QED
  BY <1>4, <1>7, <1>8

\* The exit code and the SKIP lines are true: non-zero only if something the Pods need
\* was missing at some moment of the run, zero only if all that a check answered for
\* was there, and SKIP exactly for the checks a read of which failed.
THEOREM ReportIsTrue == Spec => []ReportIsHonest
<1>1. Init => Truths /\ Failures
  <2> SUFFICES ASSUME Init PROVE Truths /\ Failures
    OBVIOUS
  <2>1. DOMAIN groups = {} /\ failed = {} /\ errors = 0
    BY DEF Init
  <2>2. Cardinality(failed \ {6}) = 0
    <3>1. failed \ {6} = {}
      BY <2>1
    <3> QED
      BY <3>1, FS_EmptySet
  <2> QED
    BY <2>1, <2>2 DEF Truths, Failures
<1>2. TypeInv /\ Truths /\ Failures /\ [Next]_vars => (TypeInv /\ Truths /\ Failures)'
  BY TypesStay, TruthsStay, FailuresStay
<1>3. TypeInv /\ Truths /\ Failures => ReportIsHonest
  BY ExitIsTrue, SkipsAreTrue DEF ReportIsHonest
<1> QED
  BY InitTypes, <1>1, <1>2, <1>3, PTL DEF Spec

=============================================================================
