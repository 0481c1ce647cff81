---------------------------- MODULE RoutingProofs ----------------------------
(***************************************************************************)
(* What the four checks of the ways to the Pods accuse was so at moments   *)
(* they read at, for any objects, any edits of them and any rollout.  The  *)
(* argument: what a check still holds of an earlier read was true of one   *)
(* of the clusters there have been, and those are never forgotten.         *)
(***************************************************************************)
EXTENDS Routing, TLAPS

\* The stages of a check.
Stages == [service |-> {"services", "pods", "slices"}, ingress |-> {"services", "ingresses", "gets"},
           class |-> {"services", "ingresses", "gets"}, policy |-> {"policies"},
           report |-> {"services"}]

\* What is remembered of the Pods and the slices.
Remembered ==
    /\ Running /\ ReadyPods(pods) # {} => readyOnce
    /\ Running => Known \ slices \subseteq emptyOnce
    /\ edits = 0 => had = {cluster}
    /\ calm /\ edits = 0 /\ Running => slices = Served(cluster, pods)

\* The Services that the running check lists were those of one cluster.
MatchingWas ==
    \E c \in had : /\ DOMAIN matching \subseteq DOMAIN c.services
                   /\ \A s \in DOMAIN matching : matching[s] = c.services[s]

\* What is left to read was named by what has been.
TodoWas ==
    /\ stage \in {"pods", "slices"} => check = "service"
    /\ stage = "slices" => todo \subseteq DOMAIN matching /\ readyOnce
    /\ stage = "gets" =>
           \A i, n : <<i, n>> \in todo =>
               \E c \in had : /\ i \in DOMAIN c.ingresses
                              /\ check = "ingress" => n \in c.ingresses[i].tls
                              /\ check # "ingress" => n = c.ingresses[i].class

Read == stage \in Stages[check] /\ MatchingWas /\ TodoWas

-----------------------------------------------------------------------------
LEMMA ClusterFacts ==
    \A c \in Clusters :
        /\ c = [services |-> c.services, ingresses |-> c.ingresses, secrets |-> c.secrets,
                classes |-> c.classes, policies |-> c.policies]
        /\ \A i \in DOMAIN c.ingresses : \A b \in c.ingresses[i].backends : b.port = "" \/ b.number = 0
BY RoutingAssumption DEF IsCluster, IsValid

\* The next check starts with nothing read and nothing found.
LEMMA NextCheckStarts ==
    ASSUME TypeOK, Running, NextCheck
    PROVE  /\ check' \in DOMAIN Causes /\ found' = {} /\ DOMAIN matching' = {} /\ todo' = {}
           /\ stage' \in Stages[check'] /\ stage' \in {"services", "policies"}
           /\ stage' \in {"services", "pods", "slices", "ingresses", "gets", "policies"}
<1>1. check \in {"service", "ingress", "class", "policy"}
  BY DEF TypeOK, Causes, Running
<1> QED
  BY <1>1 DEF NextCheck, Following, FirstStage, Stages, Causes

\* What is found in one read.
LEMMA NewFindings ==
    ASSUME TypeOK, MatchingWas
    PROVE  /\ \A f \in NamedPortFindings(MatchingServices(cluster.services)) :
                  f.cause = "port" /\ Down(f, cluster, cluster)
           /\ \A f \in BackendFindings(cluster.ingresses, matching) :
                  f.cause = "backend" /\ \E c \in had : Down(f, c, cluster)
           /\ \A f \in PolicyFindings(cluster.policies) :
                  f.cause = "policy" /\ Down(f, cluster, cluster)
<1>1. ASSUME NEW f \in NamedPortFindings(MatchingServices(cluster.services))
      PROVE  f.cause = "port" /\ Down(f, cluster, cluster)
  <2> DEFINE services == MatchingServices(cluster.services)
  <2>1. PICK s \in DOMAIN services : \E p \in services[s].ports :
            p.target \notin TargetPorts \union {""} /\ f = Finding("port", s, p)
    BY <1>1 DEF NamedPortFindings
  <2>2. PICK p \in services[s].ports :
            p.target \notin TargetPorts \union {""} /\ f = Finding("port", s, p)
    BY <2>1
  <2>3. s \in DOMAIN cluster.services /\ services[s] = cluster.services[s]
    BY DEF MatchingServices
  <2>4. f.cause = "port" /\ f.object = s /\ f.part = p
    BY <2>2 DEF Finding
  <2>5. ~PortUp(cluster.services[s], p)
    BY <2>2 DEF PortUp
  <2> QED
    BY <2>2, <2>3, <2>4, <2>5 DEF Down
<1>2. ASSUME NEW f \in BackendFindings(cluster.ingresses, matching)
      PROVE  f.cause = "backend" /\ \E c \in had : Down(f, c, cluster)
  <2>1. PICK i \in DOMAIN cluster.ingresses :
          \E b \in cluster.ingresses[i].backends :
              /\ b.service \in DOMAIN matching /\ Undeclared(matching, b)
              /\ f = Finding("backend", i, b)
    BY <1>2 DEF BackendFindings, RelevantIngresses, Backends
  <2>2. PICK b \in cluster.ingresses[i].backends :
            /\ b.service \in DOMAIN matching /\ Undeclared(matching, b)
            /\ f = Finding("backend", i, b)
    BY <2>1
  <2>3. PICK c \in had : /\ DOMAIN matching \subseteq DOMAIN c.services
                         /\ \A s \in DOMAIN matching : matching[s] = c.services[s]
    BY DEF MatchingWas
  <2>4. f.cause = "backend" /\ f.object = i /\ f.part = b
    BY <2>2 DEF Finding
  <2>5. b.port = "" \/ b.number = 0
    BY ClusterFacts DEF TypeOK
  <2>6. ~BackendUp(c, b)
    BY <2>2, <2>3, <2>5 DEF BackendUp, Undeclared
  <2> QED
    BY <2>2, <2>3, <2>4, <2>6 DEF Down
<1>3. ASSUME NEW f \in PolicyFindings(cluster.policies)
      PROVE  f.cause = "policy" /\ Down(f, cluster, cluster)
  <2>1. f.cause = "policy" /\ ~PolicyUp(cluster)
    BY <1>3 DEF PolicyFindings, PolicyUp, Finding
  <2> QED
    BY <2>1 DEF Down
<1> QED
  BY <1>1, <1>2, <1>3

-----------------------------------------------------------------------------
(* The world moves.                                                         *)

\* What was read and found stays true of what has been.
LEMMA WorldFrame ==
    ASSUME Read, AccusedRouteIsDown, UNCHANGED reading, had \subseteq had', readyOnce => readyOnce'
    PROVE  Read' /\ AccusedRouteIsDown'
<1>1. /\ UNCHANGED <<check, stage, matching, todo, found, accused>>
  BY DEF reading
<1>2. MatchingWas'
  BY <1>1 DEF Read, MatchingWas
<1>3. TodoWas'
  BY <1>1 DEF Read, TodoWas
<1>4. Read'
  BY <1>1, <1>2, <1>3 DEF Read
<1>5. \A f, c, d : Down(f, c, d)' <=> Down(f, c, d)
  BY DEF Down, PortUp, BackendUp, PolicyUp
<1> QED
  BY <1>1, <1>4, <1>5 DEF AccusedRouteIsDown

LEMMA MovePodStep ==
    ASSUME TypeOK, Remembered, Read, AccusedRouteIsDown, ZeroEndpointsHeld,
           NEW t \in {"old", "new"}, NEW from, NEW to \in PodStates, MovePod(t, from, to)
    PROVE  TypeOK' /\ Remembered' /\ Read' /\ AccusedRouteIsDown' /\ ZeroEndpointsHeld'
<1>1. /\ UNCHANGED <<cluster, had, slices, edits, reading>> /\ (calm' <=> calm /\ ~Running)
      /\ calm' \in BOOLEAN
      /\ pods' \in [{"old", "new"} -> PodStates]
      /\ Known' = Known /\ (Running' <=> Running) /\ Services' = Services
  BY DEF MovePod, TypeOK, Known, Running, reading, Services
<1>2. /\ readyOnce' \in BOOLEAN /\ (readyOnce' <=> readyOnce \/ (Running /\ ReadyPods(pods') # {}))
      /\ emptyOnce' = IF Running THEN emptyOnce \union (Known' \ slices') ELSE emptyOnce
  BY DEF MovePod, Remember, TypeOK
<1>3. Read' /\ AccusedRouteIsDown'
  BY <1>1, <1>2, WorldFrame
<1>4. ReadyPods(pods)' = ReadyPods(pods')
  BY DEF ReadyPods
<1>5. Remembered'
  BY <1>1, <1>2, <1>4 DEF Remembered
<1>6. TypeOK'
  BY <1>1, <1>2 DEF TypeOK, reading
<1>7. ZeroEndpointsHeld'
  BY <1>1, <1>2 DEF ZeroEndpointsHeld, reading
<1> QED
  BY <1>3, <1>5, <1>6, <1>7

LEMMA SyncSlicesStep ==
    ASSUME TypeOK, Remembered, Read, AccusedRouteIsDown, ZeroEndpointsHeld,
           NEW s \in Services, SyncSlices(s)
    PROVE  TypeOK' /\ Remembered' /\ Read' /\ AccusedRouteIsDown' /\ ZeroEndpointsHeld'
<1>1. /\ UNCHANGED <<cluster, had, pods, edits, calm, reading>>
      /\ slices' = (slices \ {s}) \union ({s} \intersect Served(cluster, pods))
      /\ Known' = Known /\ (Running' <=> Running) /\ Services' = Services
      /\ Served(cluster, pods)' = Served(cluster, pods) /\ ReadyPods(pods)' = ReadyPods(pods)
  BY DEF SyncSlices, Known, Running, reading, Services, Served, ReadyPods
<1>2. /\ readyOnce' \in BOOLEAN /\ (readyOnce' <=> readyOnce \/ (Running /\ ReadyPods(pods) # {}))
      /\ emptyOnce' = IF Running THEN emptyOnce \union (Known' \ slices') ELSE emptyOnce
  BY <1>1 DEF SyncSlices, Remember, TypeOK
<1>3. Read' /\ AccusedRouteIsDown'
  BY <1>1, <1>2, WorldFrame
<1>4. slices # Served(cluster, pods)
  BY DEF SyncSlices
<1>5. Remembered'
  BY <1>1, <1>2, <1>4 DEF Remembered
<1>6. TypeOK'
  <2>1. slices' \subseteq Services' /\ emptyOnce' \subseteq Known'
    BY <1>1, <1>2 DEF TypeOK
  <2> QED
    BY <1>1, <1>2, <2>1 DEF TypeOK, reading
<1>7. ZeroEndpointsHeld'
  BY <1>1, <1>2 DEF ZeroEndpointsHeld, reading
<1> QED
  BY <1>3, <1>5, <1>6, <1>7

LEMMA EditStep ==
    ASSUME TypeOK, Remembered, Read, AccusedRouteIsDown, ZeroEndpointsHeld,
           NEW c \in Clusters, Edit(c)
    PROVE  TypeOK' /\ Remembered' /\ Read' /\ AccusedRouteIsDown' /\ ZeroEndpointsHeld'
<1>1. /\ UNCHANGED <<pods, calm, reading>> /\ cluster' = c /\ had' = had \union {c}
      /\ slices' = slices \intersect DOMAIN c.services /\ Running
      /\ edits < MaxEdits /\ edits' = edits + 1
  BY DEF Edit
<1>2. /\ (Running' <=> Running) /\ Services' = DOMAIN c.services /\ Known \subseteq Known'
      /\ Services' \subseteq Known' /\ ReadyPods(pods)' = ReadyPods(pods)
  BY <1>1 DEF Running, reading, Services, Known, ReadyPods
<1>3. /\ readyOnce' \in BOOLEAN /\ (readyOnce' <=> readyOnce \/ ReadyPods(pods) # {})
      /\ emptyOnce' = emptyOnce \union (Known' \ slices')
  BY <1>1 DEF Edit, Remember, TypeOK
<1>4. Read' /\ AccusedRouteIsDown'
  BY <1>1, <1>3, WorldFrame
<1>5. edits' # 0 /\ edits' \in 0..MaxEdits
  BY <1>1, RoutingAssumption DEF TypeOK
<1>6. Remembered'
  BY <1>1, <1>2, <1>3, <1>5 DEF Remembered
<1>7. TypeOK'
  <2>1. slices' \subseteq Services' /\ emptyOnce' \subseteq Known' /\ DOMAIN matching' \subseteq Known'
    BY <1>1, <1>2, <1>3 DEF TypeOK, reading
  <2> QED
    BY <1>1, <1>3, <1>5, <2>1 DEF TypeOK, reading
<1>8. ZeroEndpointsHeld'
  BY <1>1, <1>3, <1>5 DEF ZeroEndpointsHeld, reading
<1> QED
  BY <1>4, <1>6, <1>7, <1>8

-----------------------------------------------------------------------------
(* The command reads.                                                       *)

Inv == TypeOK /\ Remembered /\ Read /\ AccusedRouteIsDown /\ ZeroEndpointsHeld

\* What a Finding has to be to be reported.
Held(f) ==
    /\ \E c, d \in had : Down(f, c, d)
    /\ f.cause = "endpoints" =>
           /\ readyOnce /\ f.object \in emptyOnce
           /\ calm /\ edits = 0 /\ Running => f.object \notin Served(cluster, pods)

LEMMA HeldSoFar ==
    ASSUME Inv
    PROVE  \A f \in accused \union found : Held(f)
BY DEF Inv, AccusedRouteIsDown, ZeroEndpointsHeld, Held

\* A read leaves the world as it is, and what is held of it.
LEMMA ReadFrame ==
    ASSUME Inv, UNCHANGED world, Running' => Running, \A f \in accused' \union found' : Held(f)
    PROVE  Remembered' /\ AccusedRouteIsDown' /\ ZeroEndpointsHeld'
<1>1. /\ UNCHANGED <<cluster, had, pods, slices, edits, calm, readyOnce, emptyOnce>>
      /\ Known' = Known /\ ReadyPods(pods)' = ReadyPods(pods)
      /\ Served(cluster, pods)' = Served(cluster, pods)
  BY DEF world, Known, ReadyPods, Served
<1>2. \A f, c, d : Down(f, c, d)' <=> Down(f, c, d)
  BY DEF Down, PortUp, BackendUp, PolicyUp
<1>3. Remembered'
  BY <1>1 DEF Inv, Remembered
<1>4. AccusedRouteIsDown'
  BY <1>1, <1>2 DEF AccusedRouteIsDown, Held
<1>5. ZeroEndpointsHeld'
  BY <1>1 DEF ZeroEndpointsHeld, Held
<1> QED
  BY <1>3, <1>4, <1>5

\* A check ends, with Findings that hold or none.
LEMMA NextCheckStep ==
    ASSUME Inv, Running, NextCheck, UNCHANGED world, \A f \in accused' : Held(f),
           skipped' \union silenced' \subseteq DOMAIN Causes, errors' \in 0..MaxErrors
    PROVE  Inv'
<1>1. /\ check' \in DOMAIN Causes /\ found' = {} /\ DOMAIN matching' = {} /\ todo' = {}
      /\ stage' \in Stages[check'] /\ stage' \in {"services", "policies"}
      /\ stage' \in {"services", "pods", "slices", "ingresses", "gets", "policies"}
  BY NextCheckStarts DEF Inv
<1>2. /\ UNCHANGED <<cluster, had, pods, slices, edits, calm, readyOnce, emptyOnce>>
      /\ Known' = Known /\ Services' = Services
  BY DEF world, Known, Services
<1>3. Remembered' /\ AccusedRouteIsDown' /\ ZeroEndpointsHeld'
  BY <1>1, ReadFrame
<1>4. TypeOK'
  BY <1>1, <1>2 DEF Inv, TypeOK
<1>5. cluster' \in had'
  BY <1>2 DEF Inv, TypeOK
<1>6. MatchingWas' /\ TodoWas'
  BY <1>1, <1>5 DEF MatchingWas, TodoWas
<1> QED
  BY <1>1, <1>3, <1>4, <1>6 DEF Inv, Read

LEMMA ReturnStep ==
    ASSUME Inv, Running, NEW F, Return(F), \A f \in F : Held(f)
    PROVE  Inv'
<1>1. /\ NextCheck /\ accused' = accused \union F /\ UNCHANGED <<world, skipped, silenced, errors>>
  BY DEF Return
<1>2. \A f \in accused' : Held(f)
  BY <1>1, HeldSoFar
<1>3. skipped' \union silenced' \subseteq DOMAIN Causes /\ errors' \in 0..MaxErrors
  BY <1>1 DEF Inv, TypeOK
<1> QED
  BY <1>1, <1>2, <1>3, NextCheckStep

\* A check goes on, with Services of one cluster and names of what has been.
LEMMA GoOnStep ==
    ASSUME Inv, NEW next, NEW services, NEW names, NEW F, GoOn(next, services, names, F),
           next \in Stages[check], next \in {"pods", "slices", "ingresses", "gets"},
           MatchingWas', TodoWas',
           \A f \in F \ found : f.cause \in Causes[check] /\ Held(f)
    PROVE  Inv'
<1>1. /\ stage' = next /\ matching' = services /\ todo' = names /\ found' = F
      /\ UNCHANGED <<world, check, accused, skipped, silenced, errors>>
  BY DEF GoOn
<1>2. /\ UNCHANGED <<cluster, had, pods, slices, edits, calm, readyOnce, emptyOnce>>
      /\ Known' = Known /\ Services' = Services
  BY <1>1 DEF world, Known, Services
<1>3. \A f \in accused' \union found' : Held(f)
  BY <1>1, HeldSoFar
<1>4. Running' <=> Running
  BY <1>1 DEF Running
<1>5. Remembered' /\ AccusedRouteIsDown' /\ ZeroEndpointsHeld'
  BY <1>1, <1>3, <1>4, ReadFrame
<1>6. {f.cause : f \in found'} \subseteq Causes[check']
  BY <1>1 DEF Inv, TypeOK
<1>7. DOMAIN matching' \subseteq Known'
  BY <1>2 DEF MatchingWas, Known
<1>8. TypeOK'
  BY <1>1, <1>2, <1>6, <1>7 DEF Inv, TypeOK
<1> QED
  BY <1>1, <1>5, <1>8 DEF Inv, Read

\* Which check is at which stage.
LEMMA CheckAt ==
    ASSUME Inv
    PROVE  /\ check \in {"service", "ingress", "class", "policy", "report"}
           /\ Running <=> check # "report"
           /\ stage = "services" /\ Running => check \in {"service", "ingress", "class"}
           /\ stage \in {"pods", "slices"} => check = "service"
           /\ stage \in {"ingresses", "gets"} => check \in {"ingress", "class"}
           /\ stage = "policies" => check = "policy"
BY DEF Inv, TypeOK, Causes, Running, Read, Stages

LEMMA ListServicesStep ==
    ASSUME Inv, ListServices
    PROVE  Inv'
<1> DEFINE services == MatchingServices(cluster.services)
<1>1. Running /\ check \in {"service", "ingress", "class"}
  BY CheckAt DEF ListServices
<1>2. CASE DOMAIN services = {}
  BY <1>1, <1>2, ReturnStep DEF ListServices
<1>3. CASE DOMAIN services # {} /\ check = "service"
  <2> DEFINE F == NamedPortFindings(services)
  <2>1. GoOn("pods", services, {}, F)
    BY <1>3 DEF ListServices
  <2>2. MatchingWas' /\ TodoWas'
    <3>1. /\ cluster \in had' /\ matching' = services /\ stage' = "pods" /\ check' = "service"
      BY <1>3, <2>1 DEF GoOn, world, Inv, TypeOK
    <3> QED
      BY <3>1 DEF MatchingWas, TodoWas, MatchingServices
  <2>3. \A f \in F : f.cause \in Causes[check] /\ Held(f)
    <3>1. \A f \in F : f.cause = "port" /\ Down(f, cluster, cluster) /\ cluster \in had
      BY NewFindings DEF Inv, Read, TypeOK
    <3> QED
      BY <1>3, <3>1 DEF Held, Causes
  <2> QED
    BY <1>3, <2>1, <2>2, <2>3, GoOnStep DEF Stages
<1>4. CASE DOMAIN services # {} /\ check # "service"
  <2>1. GoOn("ingresses", services, {}, {})
    BY <1>4 DEF ListServices
  <2>2. MatchingWas' /\ TodoWas'
    <3>1. /\ cluster \in had' /\ matching' = services /\ stage' = "ingresses"
      BY <2>1 DEF GoOn, world, Inv, TypeOK
    <3> QED
      BY <3>1 DEF MatchingWas, TodoWas, MatchingServices
  <2> QED
    BY <1>1, <1>4, <2>1, <2>2, GoOnStep DEF Stages
<1> QED
  BY <1>2, <1>3, <1>4

LEMMA ListPodsStep ==
    ASSUME Inv, ListPods
    PROVE  Inv'
<1>1. Running /\ check = "service"
  BY CheckAt DEF ListPods
<1>2. CASE CountReadyPods(pods) = {}
  <2>1. Return(found)
    BY <1>2 DEF ListPods
  <2> QED
    BY <1>1, <2>1, ReturnStep, HeldSoFar
<1>3. CASE CountReadyPods(pods) # {}
  <2>1. GoOn("slices", matching, DOMAIN matching, found)
    BY <1>3 DEF ListPods
  <2>2. readyOnce
    BY <1>1, <1>3 DEF CountReadyPods, ReadyPods, Inv, Remembered
  <2>3. MatchingWas' /\ TodoWas'
    BY <1>1, <2>1, <2>2 DEF GoOn, MatchingWas, TodoWas, world, Inv, Read
  <2> QED
    BY <1>1, <2>1, <2>3, GoOnStep DEF Stages
<1> QED
  BY <1>2, <1>3

LEMMA ListSlicesStep ==
    ASSUME Inv, NEW s \in todo, ListSlices(s)
    PROVE  Inv'
<1> DEFINE F == found \union (IF s \in slices THEN {} ELSE {Finding("endpoints", s, "")})
<1>1. /\ stage = "slices" /\ check = "service" /\ Running /\ GoOn("slices", matching, todo \ {s}, F)
  BY CheckAt DEF ListSlices
<1>2. todo \subseteq DOMAIN matching /\ readyOnce /\ s \in Known
  BY <1>1 DEF Inv, Read, TodoWas, TypeOK
<1>3. MatchingWas' /\ TodoWas'
  BY <1>1, <1>2 DEF GoOn, MatchingWas, TodoWas, world, Inv, Read
<1>4. ASSUME NEW f \in F \ found
      PROVE  f.cause \in Causes[check] /\ Held(f)
  <2>1. s \notin slices /\ f = Finding("endpoints", s, "")
    BY <1>4
  <2>2. f.cause = "endpoints" /\ f.object = s
    BY <2>1 DEF Finding
  <2>3. s \in emptyOnce /\ (calm /\ edits = 0 /\ Running => s \notin Served(cluster, pods))
    BY <1>1, <1>2, <2>1 DEF Inv, Remembered
  <2>4. Down(f, cluster, cluster) /\ cluster \in had
    BY <2>2 DEF Down, Inv, TypeOK
  <2> QED
    BY <1>1, <1>2, <2>2, <2>3, <2>4 DEF Held, Causes
<1> QED
  BY <1>1, <1>3, <1>4, GoOnStep DEF Stages

LEMMA ListIngressesStep ==
    ASSUME Inv, ListIngresses
    PROVE  Inv'
<1> DEFINE relevant == RelevantIngresses(cluster.ingresses, matching)
           names(i) == IF check = "ingress" THEN cluster.ingresses[i].tls
                       ELSE {cluster.ingresses[i].class} \ {""}
           left == UNION {{<<i, n>> : n \in names(i)} : i \in relevant}
           F == IF check = "ingress" THEN BackendFindings(cluster.ingresses, matching) ELSE {}
<1>1. /\ check \in {"ingress", "class"} /\ GoOn("gets", matching, left, F)
      /\ cluster \in had
  BY CheckAt DEF ListIngresses, Inv, TypeOK
<1>2. ASSUME NEW i, NEW n, <<i, n>> \in left
      PROVE  i \in DOMAIN cluster.ingresses /\ n \in names(i)
  <2>1. PICK j \in relevant : <<i, n>> \in {<<j, m>> : m \in names(j)}
    BY <1>2
  <2>2. PICK m \in names(j) : <<i, n>> = <<j, m>>
    BY <2>1
  <2>3. i = j /\ n = m
    BY <2>2
  <2> QED
    BY <2>2, <2>3 DEF RelevantIngresses
<1>3. MatchingWas'
  BY <1>1 DEF GoOn, MatchingWas, world, Inv, Read
<1>4. TodoWas'
  <2>1. /\ stage' = "gets" /\ todo' = left /\ check' = check /\ had' = had /\ cluster' = cluster
    BY <1>1 DEF GoOn, world
  <2> HIDE DEF left
  <2> QED
    BY <1>1, <1>2, <2>1 DEF TodoWas
<1>5. \A f \in F : f.cause \in Causes[check] /\ Held(f)
  <2>1. \A f \in BackendFindings(cluster.ingresses, matching) :
            f.cause = "backend" /\ \E c \in had : Down(f, c, cluster)
    BY NewFindings DEF Inv, Read
  <2>2. ASSUME check = "ingress", NEW f \in BackendFindings(cluster.ingresses, matching)
        PROVE  f.cause \in Causes[check] /\ Held(f)
    <3>1. f.cause = "backend" /\ \E c \in had : Down(f, c, cluster)
      BY <2>1, <2>2
    <3> QED
      BY <1>1, <2>2, <3>1 DEF Held, Causes
  <2> QED
    BY <2>2
<1> HIDE DEF left, F
<1> QED
  BY <1>1, <1>3, <1>4, <1>5, GoOnStep DEF Stages

LEMMA GetStep ==
    ASSUME Inv, NEW i, NEW n, Get(i, n)
    PROVE  Inv'
<1> DEFINE G == IF check = "ingress"
                THEN IF n \in cluster.secrets THEN {} ELSE {Finding("tls", i, n)}
                ELSE IF n \in cluster.classes THEN {} ELSE {Finding("class", i, n)}
<1>1. /\ stage = "gets" /\ <<i, n>> \in todo /\ check \in {"ingress", "class"}
      /\ GoOn("gets", matching, todo \ {<<i, n>>}, found \union G) /\ cluster \in had
  BY CheckAt DEF Get, Inv, TypeOK
<1>2. MatchingWas' /\ TodoWas'
  BY <1>1 DEF GoOn, MatchingWas, TodoWas, world, Inv, Read
<1>3. PICK c \in had : /\ i \in DOMAIN c.ingresses
                       /\ check = "ingress" => n \in c.ingresses[i].tls
                       /\ check # "ingress" => n = c.ingresses[i].class
  BY <1>1 DEF Inv, Read, TodoWas
<1>4. ASSUME NEW f \in G
      PROVE  f.cause \in Causes[check] /\ Held(f)
  <2>1. CASE check = "ingress"
    <3>1. n \notin cluster.secrets /\ f = Finding("tls", i, n)
      BY <1>4, <2>1
    <3>2. f.cause = "tls" /\ f.object = i /\ f.part = n
      BY <3>1 DEF Finding
    <3>3. Down(f, c, cluster)
      BY <1>3, <2>1, <3>1, <3>2 DEF Down
    <3> QED
      BY <1>1, <2>1, <3>2, <3>3 DEF Held, Causes
  <2>2. CASE check # "ingress"
    <3>1. n \notin cluster.classes /\ f = Finding("class", i, n)
      BY <1>4, <2>2
    <3>2. f.cause = "class" /\ f.object = i /\ f.part = n
      BY <3>1 DEF Finding
    <3>3. Down(f, c, cluster)
      BY <1>3, <2>2, <3>1, <3>2 DEF Down
    <3> QED
      BY <1>1, <2>2, <3>2, <3>3 DEF Held, Causes
  <2> QED
    BY <2>1, <2>2
<1> HIDE DEF G
<1> QED
  BY <1>1, <1>2, <1>4, GoOnStep DEF Stages

LEMMA FailedReadStep ==
    ASSUME Inv, Skip \/ Ignore
    PROVE  Inv'
<1>0. errors + 1 \in Nat /\ (errors < MaxErrors => errors + 1 \in 0..MaxErrors)
  BY RoutingAssumption DEF Inv, TypeOK
<1>1. CASE Skip
  <2>1. Running
    BY <1>1, CheckAt DEF Skip, Running
  <2>2. /\ NextCheck /\ UNCHANGED <<world, accused, silenced>> /\ skipped' = skipped \union {check}
        /\ errors' \in 0..MaxErrors
    BY <1>0, <1>1 DEF Skip
  <2>3. skipped' \union silenced' \subseteq DOMAIN Causes /\ \A f \in accused' : Held(f)
    BY <2>2, HeldSoFar DEF Inv, TypeOK
  <2> QED
    BY <2>1, <2>2, <2>3, NextCheckStep
<1>2. CASE Ignore /\ stage = "pods"
  <2>1. Running
    BY <1>2, CheckAt
  <2>2. /\ NextCheck /\ UNCHANGED <<world, skipped>> /\ silenced' = silenced \union {check}
        /\ accused' = accused \union found /\ errors' \in 0..MaxErrors
    BY <1>0, <1>2 DEF Ignore
  <2>3. skipped' \union silenced' \subseteq DOMAIN Causes /\ \A f \in accused' : Held(f)
    BY <2>2, HeldSoFar DEF Inv, TypeOK
  <2> QED
    BY <2>1, <2>2, <2>3, NextCheckStep
<1>3. CASE Ignore /\ stage # "pods"
  <2>1. /\ UNCHANGED <<world, check, stage, matching, found, accused, skipped>>
        /\ todo' \subseteq todo /\ silenced' = silenced \union {check} /\ errors' \in 0..MaxErrors
    BY <1>0, <1>3 DEF Ignore
  <2>2. /\ UNCHANGED <<cluster, had, pods, slices, edits, calm, readyOnce, emptyOnce>>
        /\ Known' = Known /\ Services' = Services /\ (Running' <=> Running)
    BY <2>1 DEF world, Known, Services, Running
  <2>3. Remembered' /\ AccusedRouteIsDown' /\ ZeroEndpointsHeld'
    BY <2>1, <2>2, ReadFrame, HeldSoFar
  <2>4. TypeOK'
    BY <2>1, <2>2 DEF Inv, TypeOK
  <2>5. Read'
    BY <2>1, <2>2 DEF Inv, Read, MatchingWas, TodoWas
  <2> QED
    BY <2>3, <2>4, <2>5 DEF Inv
<1> QED
  BY <1>1, <1>2, <1>3

LEMMA Invariant == Spec => []Inv
<1>1. Init => Inv
  <2> SUFFICES ASSUME Init
               PROVE  Inv
    OBVIOUS
  <2>1. TypeOK
    BY RoutingAssumption DEF Init, TypeOK, Known, Services, Causes, PodStates
  <2>2. Remembered
    BY DEF Init, Remembered, Known, Services, ReadyPods
  <2>3. Read
    BY DEF Init, Read, Stages, MatchingWas, TodoWas
  <2> QED
    BY <2>1, <2>2, <2>3 DEF Init, Inv, AccusedRouteIsDown, ZeroEndpointsHeld
<1>2. Inv /\ [Next]_vars => Inv'
  <2> SUFFICES ASSUME Inv, [Next]_vars
               PROVE  Inv'
    OBVIOUS
  <2>1. CASE ListServices \/ ListPods \/ ListIngresses
    BY <2>1, ListServicesStep, ListPodsStep, ListIngressesStep
  <2>2. CASE ListPolicies
    <3>1. Running /\ Return(PolicyFindings(cluster.policies))
      BY <2>2, CheckAt DEF ListPolicies, Running
    <3>2. \A f \in PolicyFindings(cluster.policies) : Held(f)
      BY NewFindings DEF Inv, Read, TypeOK, Held
    <3> QED
      BY <3>1, <3>2, ReturnStep
  <2>3. CASE ReturnFound
    <3>1. Running /\ Return(found)
      BY <2>3, CheckAt DEF ReturnFound, Running
    <3> QED
      BY <3>1, ReturnStep, HeldSoFar
  <2>4. ASSUME NEW s \in todo, ListSlices(s)
        PROVE  Inv'
    BY <2>4, ListSlicesStep
  <2>5. ASSUME NEW x \in todo, Get(x[1], x[2])
        PROVE  Inv'
    BY <2>5, GetStep
  <2>6. CASE Skip \/ Ignore
    BY <2>6, FailedReadStep
  <2>7. CASE Rollout
    <3>1. PICK t \in {"old", "new"} : \E from, to \in PodStates : MovePod(t, from, to)
      BY <2>7 DEF Rollout, PodStates
    <3> QED
      BY <3>1, MovePodStep DEF Inv
  <2>8. ASSUME NEW s \in Services, SyncSlices(s)
        PROVE  Inv'
    BY <2>8, SyncSlicesStep DEF Inv
  <2>9. ASSUME NEW c \in Clusters, Edit(c)
        PROVE  Inv'
    BY <2>9, EditStep DEF Inv
  <2>10. CASE UNCHANGED vars
    <3>1. UNCHANGED world /\ UNCHANGED reading
      BY <2>10 DEF vars
    <3>2. Remembered' /\ AccusedRouteIsDown' /\ ZeroEndpointsHeld'
      BY <3>1, ReadFrame, HeldSoFar DEF reading, Running
    <3>3. TypeOK' /\ Read'
      BY <3>1 DEF Inv, TypeOK, Read, MatchingWas, TodoWas, world, reading, Known, Services
    <3> QED
      BY <3>2, <3>3 DEF Inv
  <2> QED
    BY <2>1, <2>2, <2>3, <2>4, <2>5, <2>6, <2>7, <2>8, <2>9, <2>10 DEF Next, Command
<1> QED
  BY <1>1, <1>2, PTL DEF Spec

\* A running check holds Findings of its own kind and Services that there were.
THEOREM TypeInvariant == Spec => []TypeOK
BY Invariant, PTL DEF Inv

\* What service-routing, ingress-routing, ingressclass-exists and
\* network-policy-ingress accuse did not carry traffic, for any objects and edits.
THEOREM AccusationsAreTrue == Spec => []AccusedRouteIsDown
BY Invariant, PTL DEF Inv

\* zeroEndpointsFinding: a Pod was ready and the Service had no endpoint, each at
\* a moment of the run, and at one moment if nothing moved.
THEOREM ZeroEndpointsAreTrue == Spec => []ZeroEndpointsHeld
BY Invariant, PTL DEF Inv

=============================================================================
