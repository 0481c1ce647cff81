------------------------------- MODULE Routing -------------------------------
(***************************************************************************)
(* The checks of the ways traffic takes to the Pods: service-routing,      *)
(* ingress-routing, ingressclass-exists and network-policy-ingress, one    *)
(* read at a time, while a rollout replaces the Pods, the endpoint slices  *)
(* of the Services follow the Pods with a delay, and somebody edits the    *)
(* objects between two reads.  The Pods are those of the old template or   *)
(* of the new one, the target of the command, with their own labels.       *)
(***************************************************************************)
EXTENDS Naturals, FiniteSets

CONSTANTS
    Clusters,    \* services, ingresses, secrets, classes and policies, see IsCluster
    Edits,       \* the edits that may happen: pairs of Clusters
    InitialPods, \* how far a rollout may be when the command starts
    TargetPorts, \* names of the ports that the containers of the template declare
    MaxEdits,    \* edits of the objects during the run
    MaxErrors    \* reads that fail

IsCluster(c) ==
    c = [services |-> c.services, ingresses |-> c.ingresses, secrets |-> c.secrets,
         classes |-> c.classes, policies |-> c.policies]

\* External: the validation of an Ingress; a backend has the name of a port or its number.
IsValid(c) ==
    \A i \in DOMAIN c.ingresses : \A b \in c.ingresses[i].backends : b.port = "" \/ b.number = 0

PodStates == {"none", "starting", "ready", "terminating"}

ASSUME RoutingAssumption ==
    /\ MaxEdits \in Nat /\ MaxErrors \in Nat
    /\ \A c \in Clusters : IsCluster(c) /\ IsValid(c)
    /\ Edits \subseteq Clusters \X Clusters
    /\ InitialPods \subseteq [{"old", "new"} -> PodStates]

VARIABLES
    cluster,   \* the objects: a member of Clusters
    had,       \* the members of Clusters it has been since the run began
    pods,      \* by template: "none", "starting", "ready" or "terminating"
    slices,    \* Services with a ready address in their endpoint slices
    check,     \* the check that runs; "report" after the last
    stage,     \* what it reads next
    matching,  \* Services its list of Services held, with their specs
    todo,      \* names it has still to get
    found,     \* Findings of the running check
    accused,   \* Findings of the report
    skipped,   \* checks that were skipped
    silenced,  \* checks that ignored a failed read
    edits, errors,
    calm,      \* no Pod moved during the run, nor was a slice behind at its start
    readyOnce, \* a Pod of the workload has been ready at a moment of the run
    emptyOnce  \* Services whose slices had no ready address at a moment of it

reading == <<check, stage, matching, todo, found, accused, skipped, silenced, errors>>
world == <<cluster, had, pods, slices, edits, calm, readyOnce, emptyOnce>>
vars == <<world, reading>>

Services == DOMAIN cluster.services

\* The Services there are or were during the run.
Known == UNION {DOMAIN c.services : c \in had}

Running == check # "report"

----------------------------------------------------------------------------
\* What the checks decide on what they have read.

\* Mutant: a Pod that is being deleted counts, as its Ready condition says.
ReadyOrTerminating(p) == {t \in DOMAIN p : p[t] \in {"ready", "terminating"}}

\* countReadyPods, of the Pods the workload's selector matches.
CountReadyPods(p) == {t \in DOMAIN p : p[t] = "ready"}

\* matchingServices: those whose selector matches the labels of the template.
MatchingServices(services) ==
    [s \in {n \in DOMAIN services : "new" \in services[n].selects} |-> services[s]]

Finding(cause, object, part) == [cause |-> cause, object |-> object, part |-> part]

\* namedPortFindings; the target of a port is "" when it is a number.
NamedPortFindings(services) ==
    UNION {{Finding("port", s, p) :
              p \in {q \in services[s].ports : q.target \notin TargetPorts \union {""}}} :
           s \in DOMAIN services}

\* Mutant: the number is compared although the port is given by name.
UndeclaredByNumber(services, b) ==
    \A p \in services[b.service].ports : p.number # b.number

\* backendFindings, hasPortName, hasPortNumber.
Undeclared(services, b) ==
    \/ b.port # "" /\ \A p \in services[b.service].ports : p.name # b.port
    \/ b.number # 0 /\ \A p \in services[b.service].ports : p.number # b.number

\* ingressReferencesServices: the backends of an Ingress to the Services read.
Backends(ingress, services) == {b \in ingress.backends : b.service \in DOMAIN services}

RelevantIngresses(ingresses, services) ==
    {i \in DOMAIN ingresses : Backends(ingresses[i], services) # {}}

BackendFindings(ingresses, services) ==
    UNION {{Finding("backend", i, b) :
              b \in {c \in Backends(ingresses[i], services) : Undeclared(services, c)}} :
           i \in RelevantIngresses(ingresses, services)}

\* Mutant: the rules of policies that do not select the Pods count too.
PolicyFindingsOfAll(policies) ==
    LET selecting == {p \in policies : p.selects /\ p.ingress}
    IN  IF selecting = {} \/ \E p \in policies : p.rules > 0 THEN {}
        ELSE {Finding("policy", "workload", selecting)}

\* NetworkPolicyIngress.Run and affectsIngress: no rule in all the policies
\* that select the Pods for ingress.
PolicyFindings(policies) ==
    LET selecting == {p \in policies : p.selects /\ p.ingress}
    IN  IF selecting = {} \/ \E p \in selecting : p.rules > 0 THEN {}
        ELSE {Finding("policy", "workload", selecting)}

----------------------------------------------------------------------------
\* External: the Pods that can serve.
ReadyPods(p) == {t \in DOMAIN p : p[t] = "ready"}

\* External: the Services whose endpoint slices should hold a ready address.
Served(c, p) == {s \in DOMAIN c.services : c.services[s].selects \intersect ReadyPods(p) # {}}

Init ==
    /\ cluster \in Clusters /\ had = {cluster}
    /\ pods \in InitialPods
    /\ slices \in SUBSET Services
    /\ check = "service" /\ stage = "services" /\ matching = <<>> /\ todo = {} /\ found = {}
    /\ accused = {} /\ skipped = {} /\ silenced = {}
    /\ edits = 0 /\ errors = 0
    /\ calm = (slices = Served(cluster, pods))
    /\ readyOnce = (ReadyPods(pods) # {}) /\ emptyOnce = Services \ slices

\* What has been true at some moment of the run.
Remember ==
    /\ readyOnce' = (readyOnce \/ (Running /\ ReadyPods(pods') # {}))
    /\ emptyOnce' = IF Running THEN emptyOnce \union (Known' \ slices') ELSE emptyOnce

\* External: a Pod takes a step of its life during the rollout.
MovePod(template, from, to) ==
    /\ pods[template] = from
    /\ pods' = [pods EXCEPT ![template] = to]
    /\ calm' = (calm /\ ~Running)
    /\ UNCHANGED <<cluster, had, slices, edits, reading>>
    /\ Remember

Rollout ==
    \/ MovePod("new", "none", "starting")
    \/ \E t \in {"old", "new"} : MovePod(t, "starting", "ready")
    \/ pods.new # "none" /\ \E s \in {"starting", "ready"} : MovePod("old", s, "terminating")
    \/ MovePod("old", "terminating", "none")

\* External: the controller of endpoint slices catches up with the Pods.
SyncSlices(s) ==
    /\ (s \in slices) # (s \in Served(cluster, pods))
    /\ slices' = (slices \ {s}) \union ({s} \intersect Served(cluster, pods))
    /\ UNCHANGED <<cluster, had, pods, edits, calm, reading>>
    /\ Remember

\* External: somebody edits, creates or deletes objects during the run; the
\* slices of a Service go with it.
Edit(c) ==
    /\ Running /\ edits < MaxEdits /\ <<cluster, c>> \in Edits
    /\ cluster' = c /\ had' = had \union {c}
    /\ slices' = slices \intersect DOMAIN c.services
    /\ edits' = edits + 1
    /\ UNCHANGED <<pods, calm, reading>>
    /\ Remember

----------------------------------------------------------------------------
FirstStage(c) == IF c = "policy" THEN "policies" ELSE "services"
Following == [service |-> "ingress", ingress |-> "class", class |-> "policy", policy |-> "report"]

\* Mutant: what a check has found stays when the next one starts.
NextCheckKeepingFound ==
    /\ check' = Following[check] /\ stage' = FirstStage(check') /\ matching' = <<>> /\ todo' = {}
    /\ found' = found

NextCheck ==
    /\ check' = Following[check] /\ stage' = FirstStage(check') /\ matching' = <<>> /\ todo' = {}
    /\ found' = {}

\* Run returns its Findings.
Return(findings) ==
    /\ NextCheck
    /\ accused' = accused \union findings
    /\ UNCHANGED <<world, skipped, silenced, errors>>

\* Run goes on with what it has found so far and the reads it has left.
GoOn(next, services, names, findings) ==
    /\ stage' = next /\ matching' = services /\ todo' = names /\ found' = findings
    /\ UNCHANGED <<world, check, accused, skipped, silenced, errors>>

\* With no Service on the Pods the three first checks have nothing to say.
ListServices ==
    /\ stage = "services" /\ Running
    /\ LET services == MatchingServices(cluster.services)
       IN  IF DOMAIN services = {} THEN Return({})
           ELSE IF check = "service"
           THEN GoOn("pods", services, {}, NamedPortFindings(services))
           ELSE GoOn("ingresses", services, {}, {})

\* Without a ready Pod the endpoints are not looked at.
ListPods ==
    /\ stage = "pods"
    /\ IF CountReadyPods(pods) = {} THEN Return(found)
       ELSE GoOn("slices", matching, DOMAIN matching, found)

\* zeroEndpointsFinding of one Service.
ListSlices(s) ==
    /\ stage = "slices" /\ s \in todo
    /\ GoOn(stage, matching, todo \ {s},
            found \union (IF s \in slices THEN {} ELSE {Finding("endpoints", s, "")}))

\* The Secrets, or the class, that the relevant Ingresses name are still to get.
ListIngresses ==
    /\ stage = "ingresses"
    /\ LET relevant == RelevantIngresses(cluster.ingresses, matching)
           names(i) == IF check = "ingress" THEN cluster.ingresses[i].tls
                       ELSE {cluster.ingresses[i].class} \ {""}
       IN  GoOn("gets", matching, UNION {{<<i, n>> : n \in names(i)} : i \in relevant},
                IF check = "ingress" THEN BackendFindings(cluster.ingresses, matching) ELSE {})

\* tlsSecretFindings, and the loop of IngressClassExists.Run.
Get(i, n) ==
    /\ stage = "gets" /\ <<i, n>> \in todo
    /\ GoOn(stage, matching, todo \ {<<i, n>>},
            found \union
              (IF check = "ingress"
               THEN IF n \in cluster.secrets THEN {} ELSE {Finding("tls", i, n)}
               ELSE IF n \in cluster.classes THEN {} ELSE {Finding("class", i, n)}))

ReturnFound ==
    /\ stage \in {"slices", "gets"} /\ todo = {}
    /\ Return(found)

ListPolicies ==
    /\ stage = "policies"
    /\ Return(PolicyFindings(cluster.policies))

\* A list, or the class of an Ingress, cannot be read: Skip, without what the
\* check had found.
Skip ==
    /\ errors < MaxErrors
    /\ \/ stage \in {"services", "ingresses", "policies"} /\ Running
       \/ check = "class" /\ stage = "gets" /\ todo # {}
    /\ NextCheck
    /\ skipped' = skipped \union {check}
    /\ errors' = errors + 1
    /\ UNCHANGED <<world, accused, silenced>>

\* The Pods, the slices of a Service or a TLS Secret cannot be read: the check
\* goes on, or returns, as if there had been nothing to say.
Ignore ==
    /\ errors < MaxErrors
    /\ errors' = errors + 1
    /\ silenced' = silenced \union {check}
    /\ \/ /\ stage = "pods"
          /\ NextCheck
          /\ accused' = accused \union found
       \/ /\ stage = "slices" \/ (check = "ingress" /\ stage = "gets")
          /\ \E x \in todo : todo' = todo \ {x}
          /\ UNCHANGED <<check, stage, matching, found, accused>>
    /\ UNCHANGED <<world, skipped>>

Command ==
    \/ ListServices \/ ListPods \/ ListIngresses \/ ListPolicies \/ ReturnFound
    \/ \E s \in todo : ListSlices(s)
    \/ \E x \in todo : Get(x[1], x[2])
    \/ Skip \/ Ignore

Next ==
    \/ Command
    \/ Rollout
    \/ \E s \in Services : SyncSlices(s)
    \/ \E c \in Clusters : Edit(c)

Spec == Init /\ [][Next]_vars

\* The command, the kubelet and the controllers do not stop while they have
\* something to do; nobody has to edit.
LiveSpec == Spec /\ WF_vars(Command \/ Rollout \/ \E s \in Services : SyncSlices(s))

----------------------------------------------------------------------------
Causes == [service |-> {"port", "endpoints"}, ingress |-> {"backend", "tls"},
           class |-> {"class"}, policy |-> {"policy"}, report |-> {}]

\* The types: a running check holds Findings of its own kind only.
TypeOK ==
    /\ cluster \in had /\ had \subseteq Clusters
    /\ pods \in [{"old", "new"} -> PodStates]
    /\ slices \subseteq Services /\ emptyOnce \subseteq Known
    /\ check \in DOMAIN Causes
    /\ stage \in {"services", "pods", "slices", "ingresses", "gets", "policies"}
    /\ DOMAIN matching \subseteq Known
    /\ {f.cause : f \in found} \subseteq Causes[check]
    /\ skipped \union silenced \subseteq DOMAIN Causes
    /\ edits \in 0..MaxEdits /\ errors \in 0..MaxErrors
    /\ calm \in BOOLEAN /\ readyOnce \in BOOLEAN

\* External: the ways to the Pods once only those of the new template are left.
RolledOut == pods = [old |-> "none", new |-> "ready"]

PortUp(service, port) ==
    /\ "new" \in service.selects
    /\ port \in service.ports
    /\ port.target = "" \/ port.target \in TargetPorts

\* A backend names a port by its name or by its number.
BackendUp(c, backend) ==
    \E p \in c.services[backend.service].ports :
        /\ IF backend.port = "" THEN p.number = backend.number ELSE p.name = backend.port
        /\ PortUp(c.services[backend.service], p)

TlsUp(c, i) == c.ingresses[i].tls \subseteq c.secrets
ClassUp(c, i) == c.ingresses[i].class \in c.classes \union {""}

PolicyUp(c) ==
    LET isolating == {p \in c.policies : p.selects /\ p.ingress}
    IN  isolating = {} \/ \E p \in isolating : p.rules > 0

\* Every way to the new Pods through a Service that selects them.
RoutesUp ==
    LET own == {s \in Services : "new" \in cluster.services[s].selects}
        through == {i \in DOMAIN cluster.ingresses :
                       \E b \in cluster.ingresses[i].backends : b.service \in own}
    IN  /\ RolledOut
        /\ own \subseteq slices
        /\ \A s \in own : \A p \in cluster.services[s].ports : PortUp(cluster.services[s], p)
        /\ \A i \in through :
              /\ TlsUp(cluster, i) /\ ClassUp(cluster, i)
              /\ \A b \in cluster.ingresses[i].backends : b.service \in own => BackendUp(cluster, b)
        /\ PolicyUp(cluster)

\* The Finding is true of the Services, or of the Ingresses of the second and third
\* check, in c and of what is read after them in d.
Down(f, c, d) ==
    CASE f.cause = "port"    -> /\ f.object \in DOMAIN c.services
                                /\ f.part \in c.services[f.object].ports
                                /\ ~PortUp(c.services[f.object], f.part)
      [] f.cause = "backend" -> /\ f.object \in DOMAIN d.ingresses
                                /\ f.part \in d.ingresses[f.object].backends
                                /\ f.part.service \in DOMAIN c.services
                                /\ ~BackendUp(c, f.part)
      [] f.cause = "tls"     -> /\ f.object \in DOMAIN c.ingresses
                                /\ f.part \in c.ingresses[f.object].tls \ d.secrets
      [] f.cause = "class"   -> /\ f.object \in DOMAIN c.ingresses
                                /\ f.part = c.ingresses[f.object].class
                                /\ f.part \notin d.classes
      [] f.cause = "policy"  -> ~PolicyUp(c)
      [] OTHER               -> TRUE

\* What the report accuses, apart from endpoints, does not carry traffic to
\* the new Pods, and will not before somebody edits it; with edits during the
\* run it was so of what the command read, in one or two of the moments it
\* read at.
AccusedRouteIsDown == \A f \in accused \union found : \E c, d \in had : Down(f, c, d)

\* A Service is accused of having no ready endpoint beside a ready Pod only if
\* both have been true during the run, not always at one moment: they are two
\* reads, and a rollout goes on between them.  When nothing moved meanwhile, the
\* ready Pods are none that the Service selects.
ZeroEndpointsHeld ==
    \A f \in accused \union found : f.cause = "endpoints" =>
        /\ readyOnce /\ f.object \in emptyOnce
        /\ (calm /\ edits = 0 /\ Running) => f.object \notin Served(cluster, pods)

\* A report with nothing to say, of a run in which every read was answered and
\* nobody edited, is followed by every way to the Pods being open for good once
\* the rollout is over.
SilentRoutesComeUp ==
    (~Running /\ accused = {} /\ skipped = {} /\ silenced = {} /\ edits = 0) ~> []RoutesUp

=============================================================================
