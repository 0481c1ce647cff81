---------------------------- MODULE CheckCommand ----------------------------
(***************************************************************************)
(* One run of the check command over a cluster that others keep changing:  *)
(* the checks that look for what the Pod template names (ServiceAccount,   *)
(* PriorityClass, ConfigMaps and Secrets with their keys, claims, storage  *)
(* classes, image pull secrets), one read at a time and in the order they  *)
(* are registered, then the report, what is printed and the exit code.     *)
(*                                                                         *)
(* A version of an object is the set of names found under it: {} when it   *)
(* does not exist, otherwise "" for the object itself and its keys.  A     *)
(* ServiceAccount's keys are the pull secrets it declares.                 *)
(***************************************************************************)
EXTENDS Integers, FiniteSets, Sequences, SequencesExt

CONSTANTS
    Workloads,    \* Pod templates the command may be given
    Versions,     \* the versions an object may have, by object
    Clusters,     \* the clusters the run may start in: object -> version
    MaxChanges,   \* writes to the objects during the run
    MaxErrors     \* reads that fail for another reason than absence

Objects == DOMAIN Versions

ServiceAccount(name) == <<"ServiceAccount", IF name = "" THEN "default" ELSE name>>
BuiltIn == {"", "system-node-critical", "system-cluster-critical"}

\* What a Pod template names is among the objects, and so is what a version of a
\* ServiceAccount declares.
IsList(s) == Len(s) \in Nat /\ DOMAIN s = 1..Len(s)
IsTemplate(t) ==
    /\ t.private \in Nat
    /\ IsList(t.refs) /\ IsList(t.claims) /\ IsList(t.templates) /\ IsList(t.pullSecrets)
    /\ ServiceAccount(t.serviceAccount) \in Objects
    /\ t.priorityClass \notin BuiltIn => <<"PriorityClass", t.priorityClass>> \in Objects
    /\ \A i \in DOMAIN t.refs : t.refs[i].object \in Objects /\ t.refs[i].optional \in BOOLEAN
    /\ \A i \in DOMAIN t.claims : <<"PersistentVolumeClaim", t.claims[i]>> \in Objects
    /\ \A i \in DOMAIN t.templates :
           t.templates[i] # "" => <<"StorageClass", t.templates[i]>> \in Objects
    /\ \A i \in DOMAIN t.pullSecrets : <<"Secret", t.pullSecrets[i]>> \in Objects
    /\ \A v \in Versions[ServiceAccount(t.serviceAccount)] :
           \A n \in v \ {""} : <<"Secret", n>> \in Objects

ASSUME CheckAssumption ==
    /\ MaxChanges \in Nat /\ MaxErrors \in Nat
    /\ \A t \in Workloads : IsTemplate(t)
    /\ \A o \in Objects : \A v \in Versions[o] : v = {} \/ "" \in v
    /\ \A w \in Clusters : DOMAIN w = Objects /\ \A o \in Objects : w[o] \in Versions[o]

VARIABLES
    wl,        \* the Workload, resolved once before the first check
    world,     \* version of each object
    was,       \* the versions each object has had since the run began
    changes, errors,
    seen,      \* what the running check has read: object -> version
    failed,    \* places in Checks of the checks that could not read
    groups,    \* Results of the checks that have run
    printed,   \* what RenderHuman printed: a line per Result
    exit       \* "running", "zero" or "high"

vars == <<wl, world, was, changes, errors, seen, failed, groups, printed, exit>>

\* registeredChecks, those that read the objects modelled here.
Checks == <<"serviceaccount", "priorityclass", "config", "pvc", "storageclass", "pull">>

Running == Len(groups) + 1
Current == Checks[Running]

\* External: the objects the template can make a check read; no other object
\* matters, so the others never exist.
Named ==
    {ServiceAccount(wl.serviceAccount), <<"PriorityClass", wl.priorityClass>>}
    \union {r.object : r \in ToSet(wl.refs)}
    \union {<<"PersistentVolumeClaim", c>> : c \in ToSet(wl.claims)}
    \union {<<"StorageClass", c>> : c \in ToSet(wl.templates)}
    \union {o \in Objects : wl.private > 0 /\ o[1] = "Secret"}

----------------------------------------------------------------------------
\* What each check reads: at a place in its order, an object.

ServiceAccountReads == <<ServiceAccount(wl.serviceAccount)>>

PriorityClassReads ==
    IF wl.priorityClass \in BuiltIn THEN <<>> ELSE <<<<"PriorityClass", wl.priorityClass>>>>

\* collectContainerConfigRefs and collectVolumeConfigRefs give wl.refs.
ConfigReads == [i \in DOMAIN wl.refs |-> wl.refs[i].object]

ClaimReads == [i \in DOMAIN wl.claims |-> <<"PersistentVolumeClaim", wl.claims[i]>>]

\* The templates that name a class, by index.
Classed == {i \in DOMAIN wl.templates : wl.templates[i] # ""}

StorageClassReads == [i \in Classed |-> <<"StorageClass", wl.templates[i]>>]

\* The ServiceAccount, then the pull secrets of the template.
PullReads ==
    [i \in (IF wl.private = 0 THEN {} ELSE 0..Len(wl.pullSecrets)) |->
        IF i = 0 THEN ServiceAccount(wl.serviceAccount) ELSE <<"Secret", wl.pullSecrets[i]>>]

Reads(check) ==
    CASE check = "serviceaccount" -> ServiceAccountReads
      [] check = "priorityclass"  -> PriorityClassReads
      [] check = "config"         -> ConfigReads
      [] check = "pvc"            -> ClaimReads
      [] check = "storageclass"   -> StorageClassReads
      [] check = "pull"           -> PullReads

\* Pull secrets of the ServiceAccount, once it is read: they come last.
Own ==
    LET sa == ServiceAccount(wl.serviceAccount)
    IN  IF sa \in DOMAIN seen THEN {<<"Secret", n>> : n \in seen[sa] \ {""}} ELSE {}

Declared == {<<"Secret", n>> : n \in ToSet(wl.pullSecrets)} \union Own

ToRead(check) ==
    {Reads(check)[i] : i \in DOMAIN Reads(check)} \union (IF check = "pull" THEN Own ELSE {})

\* What is left to read: an object read once is not read again by the check.
Unread(check) == ToRead(check) \ DOMAIN seen

\* What may be read next.
Due(check) ==
    LET left == {i \in DOMAIN Reads(check) : Reads(check)[i] \in Unread(check)}
    IN  IF left = {} THEN Unread(check)
        ELSE {Reads(check)[i] : i \in {j \in left : \A k \in left : j <= k}}

----------------------------------------------------------------------------
\* What each check finds in what it read; "at" is the reference, template or
\* container a Finding is about, 0 where one Finding stands for them all.

Finding(severity, object, key, at) ==
    [severity |-> severity, object |-> object, key |-> key, at |-> at]

Missing(object) == "" \notin seen[object]

MissingObjects(objects) == {Finding("high", o, "", 0) : o \in {p \in objects : Missing(p)}}

\* Mutant: an optional reference to a missing object keeps the others quiet.
ConfigFindingsFirstOnly ==
    LET refs == wl.refs
        first(i) == \A j \in 1..(i - 1) : refs[j].object # refs[i].object
        due == {i \in DOMAIN refs : ~refs[i].optional}
    IN  {Finding("high", refs[i].object, "", i) :
            i \in {j \in due : Missing(refs[j].object) /\ first(j)}}
        \union
        {Finding("high", refs[i].object, refs[i].key, i) :
            i \in {j \in due : ~Missing(refs[j].object) /\ refs[j].key \notin seen[refs[j].object]}}

\* A missing object is reported once, at its first reference that is not
\* optional; a missing key at each reference to it.
ConfigFindings ==
    LET refs == wl.refs
        due == {i \in DOMAIN refs : ~refs[i].optional}
        first(i) == \A j \in due : refs[j].object = refs[i].object => i <= j
    IN  {Finding("high", refs[i].object, "", i) :
            i \in {j \in due : Missing(refs[j].object) /\ first(j)}}
        \union
        {Finding("high", refs[i].object, refs[i].key, i) :
            i \in {j \in due : ~Missing(refs[j].object) /\ refs[j].key \notin seen[refs[j].object]}}

StorageClassFindings ==
    {Finding("high", <<"StorageClass", wl.templates[i]>>, "", i) :
        i \in {j \in Classed : Missing(<<"StorageClass", wl.templates[j]>>)}}

\* noSecretDeclaredFindings, declaredSecretMissingFindings: one per container
\* with an image of a private registry; none when a declared Secret exists.
PullFindings ==
    LET severity == IF Declared = {} THEN "low" ELSE "medium"
    IN  IF \E o \in Declared : ~Missing(o) THEN {}
        ELSE {Finding(severity, ServiceAccount(wl.serviceAccount), "", c) : c \in 1..wl.private}

Findings(check) ==
    CASE check = "config"       -> ConfigFindings
      [] check = "storageclass" -> StorageClassFindings
      [] check = "pull"         -> PullFindings
      [] OTHER                  -> MissingObjects(ToRead(check))

----------------------------------------------------------------------------
\* The report: MaxSeverity over the Results, a line per Result.

Severity == [low |-> 1, medium |-> 2, high |-> 3]

MaxSeverity(results) ==
    LET all == UNION {results[i].findings : i \in DOMAIN results}
    IN  IF all = {} THEN 0
        ELSE CHOOSE s \in 1..3 : /\ \E f \in all : Severity[f.severity] = s
                                 /\ \A f \in all : Severity[f.severity] <= s

\* Mutant: a skipped check has no Finding, so it prints OK.
RenderHumanFindingsFirst(results) ==
    [i \in DOMAIN results |->
        IF results[i].findings = {} THEN "OK"
        ELSE IF results[i].skipped THEN "SKIP" ELSE "FINDINGS"]

RenderHuman(results) ==
    [i \in DOMAIN results |->
        IF results[i].skipped THEN "SKIP"
        ELSE IF results[i].findings = {} THEN "OK" ELSE "FINDINGS"]

----------------------------------------------------------------------------
Init ==
    /\ wl \in Workloads
    /\ world \in {w \in Clusters : \A o \in Objects \ Named : w[o] = {}}
    /\ was = [o \in Objects |-> {world[o]}]
    /\ changes = 0 /\ errors = 0
    /\ seen = <<>> /\ failed = {} /\ groups = <<>> /\ printed = <<>>
    /\ exit = "running"

\* External: somebody creates, edits or deletes an object.
Write(object, version) ==
    /\ changes < MaxChanges
    /\ exit = "running"
    /\ object \in Named
    /\ world[object] # version
    /\ world' = [world EXCEPT ![object] = version]
    /\ was' = [was EXCEPT ![object] = @ \union {version}]
    /\ changes' = changes + 1
    /\ UNCHANGED <<wl, errors, seen, failed, groups, printed, exit>>

Group(check, skipped, findings) ==
    [check |-> check, skipped |-> skipped, findings |-> findings]

\* The pull check cannot go on without its ServiceAccount.
Indispensable(object) == Current = "pull" /\ object = ServiceAccount(wl.serviceAccount)

\* The next read of the running check is answered.
Read ==
    /\ Running \in DOMAIN Checks
    /\ \E object \in Due(Current) :
        /\ ~(Indispensable(object) /\ world[object] = {})
        /\ seen' = [o \in DOMAIN seen \union {object} |->
                       IF o = object THEN world[object] ELSE seen[o]]
    /\ UNCHANGED <<wl, world, was, changes, errors, failed, groups, printed, exit>>

\* Skip: the read fails, or the pull check does not find its ServiceAccount.
\* What the check had found so far is dropped with it.
ReadFails ==
    /\ Running \in DOMAIN Checks
    /\ \E object \in Due(Current) :
        \/ /\ errors < MaxErrors
           /\ errors' = errors + 1
        \/ /\ Indispensable(object) /\ world[object] = {}
           /\ errors' = errors
    /\ failed' = failed \union {Running}
    /\ groups' = Append(groups, Group(Current, TRUE, {}))
    /\ seen' = <<>>
    /\ UNCHANGED <<wl, world, was, changes, printed, exit>>

\* Mutant: what one check read is kept for the next.
ConcludeKeepingReads ==
    /\ Running \in DOMAIN Checks
    /\ Unread(Current) = {}
    /\ groups' = Append(groups, Group(Current, FALSE, Findings(Current)))
    /\ UNCHANGED <<wl, world, was, changes, errors, seen, failed, printed, exit>>

\* Every read of the check has been answered: Run returns.
Conclude ==
    /\ Running \in DOMAIN Checks
    /\ Unread(Current) = {}
    /\ groups' = Append(groups, Group(Current, FALSE, Findings(Current)))
    /\ seen' = <<>>
    /\ UNCHANGED <<wl, world, was, changes, errors, failed, printed, exit>>

\* renderCheckReport, once every check has run.
Render ==
    /\ Running \notin DOMAIN Checks
    /\ exit = "running"
    /\ printed' = RenderHuman(groups)
    /\ exit' = IF MaxSeverity(groups) = Severity["high"] THEN "high" ELSE "zero"
    /\ UNCHANGED <<wl, world, was, changes, errors, seen, failed, groups>>

Next ==
    \/ \E o \in Objects : \E v \in Versions[o] : Write(o, v)
    \/ Read
    \/ ReadFails
    \/ Conclude
    \/ Render

Spec == Init /\ [][Next]_vars

----------------------------------------------------------------------------
\* The types, and what is kept of the reads: only those of the running check,
\* each of a version the object has had.
TypeOK ==
    /\ wl \in Workloads
    /\ \A o \in Objects : world[o] \in Versions[o] /\ was[o] \subseteq Versions[o]
    /\ changes \in 0..MaxChanges /\ errors \in 0..MaxErrors
    /\ Len(groups) <= Len(Checks) /\ failed \subseteq DOMAIN Checks
    /\ DOMAIN seen \subseteq
          (IF Running \in DOMAIN Checks THEN ToRead(Current) ELSE {})
    /\ \A o \in DOMAIN seen : seen[o] \in was[o]
    /\ exit \in {"running", "zero", "high"}
    /\ DOMAIN printed = IF exit = "running" THEN {} ELSE DOMAIN Checks

\* External: the names that must be found under an object, for the kubelet and
\* the admission plugins to let the Pods of the template start.
Required(check, object) ==
    LET named(kind, names) == IF object \in {<<kind, n>> : n \in names} THEN {""} ELSE {}
        hard == {r \in ToSet(wl.refs) : ~r.optional /\ r.object = object}
    IN  CASE check = "serviceaccount" ->
               IF object = ServiceAccount(wl.serviceAccount) THEN {""} ELSE {}
          [] check = "priorityclass"  ->
               named("PriorityClass",
                     {wl.priorityClass} \ BuiltIn)
          [] check = "config"         ->
               IF hard = {} THEN {} ELSE {""} \union {r.key : r \in hard}
          [] check = "pvc"            -> named("PersistentVolumeClaim", ToSet(wl.claims))
          [] check = "storageclass"   -> named("StorageClass", ToSet(wl.templates) \ {""})
          [] check = "pull"           -> {}

\* What is missing of an object in one of its versions: its keys only when it
\* exists.
Lacking(check, object, version) ==
    IF "" \in version THEN Required(check, object) \ version
    ELSE Required(check, object) \intersect {""}

\* Whatever is written while the command runs, what a check says of an object,
\* and what it does not say, was true of one version the object really had:
\* configRefResolver reads an object once for all the keys asked of it, a
\* missing object hides its keys, an optional reference hides nothing else.
ResultsHoldOfOneVersion ==
    \A i \in DOMAIN groups : ~groups[i].skipped /\ Checks[i] # "pull" =>
        \A o \in Objects : \E v \in was[o] :
            {f.key : f \in {g \in groups[i].findings : g.object = o}} = Lacking(Checks[i], o, v)

\* image-pull-secrets is silent only when a Secret that the template or some
\* version of the ServiceAccount declares has existed; it says Medium only
\* when each declared Secret has been missing, Low only when none is declared.
PullVerdictWasTrue ==
    \A i \in DOMAIN groups : Checks[i] = "pull" /\ ~groups[i].skipped /\ wl.private > 0 =>
        \E v \in was[ServiceAccount(wl.serviceAccount)] :
            LET declared == {<<"Secret", n>> : n \in ToSet(wl.pullSecrets) \union (v \ {""})}
                said == {f.severity : f \in groups[i].findings}
            IN  /\ "" \in v
                /\ \/ said = {} /\ \E o \in declared : \E s \in was[o] : "" \in s
                   \/ said = {"medium"} /\ declared # {} /\ \A o \in declared : {} \in was[o]
                   \/ said = {"low"} /\ declared = {}

\* The exit code is about the cluster: non-zero only if something the Pods
\* need was missing at some moment of the run, and zero only if everything a
\* check answered for was there, the others being printed as SKIP.
ExitIsAboutTheCluster ==
    /\ exit = "high" =>
          \E i \in DOMAIN Checks, o \in Objects : \E v \in was[o] : Lacking(Checks[i], o, v) # {}
    /\ exit = "zero" =>
          \A i \in DOMAIN Checks : printed[i] # "SKIP" =>
              \A o \in Objects : \E v \in was[o] : Required(Checks[i], o) \subseteq v

\* A check prints SKIP exactly when a read of it failed, whatever it had found
\* before, and the ServiceAccount that serviceaccount-exists reports missing
\* makes no other check skip in a cluster nobody changes, but the pull check.
SkipsAreFailedReads ==
    exit # "running" =>
        /\ \A i \in DOMAIN printed : printed[i] = "SKIP" <=> i \in failed
        /\ Cardinality(failed) <= errors + 1
        /\ (changes = 0 /\ errors = 0) =>
              (failed # {} <=> wl.private > 0 /\ printed[1] = "FINDINGS")

\* What is printed of each check was true during the run.
ResultsWereTrue == ResultsHoldOfOneVersion /\ PullVerdictWasTrue

\* What the report as a whole says is true: its exit code and its SKIP lines.
ReportIsHonest == ExitIsAboutTheCluster /\ SkipsAreFailedReads

=============================================================================
