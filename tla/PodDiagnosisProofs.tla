------------------------- MODULE PodDiagnosisProofs -------------------------
(***************************************************************************)
(* A Diagnoser never names a cause that the pod has not had, for any       *)
(* containers, any troubles and any order of statuses and Events.  The     *)
(* argument: whatever a snapshot holds, a status or an Event, was left     *)
(* behind by a trouble of the part it is about.                            *)
(***************************************************************************)
EXTENDS PodDiagnosis, TLAPS

\* The types of the variables, the first part of TypeOK.
StateTypes ==
    /\ trouble \in [Parts -> Troubles \cup {"none"}]
    /\ scheduled \in BOOLEAN /\ mounted \in BOOLEAN /\ deadline \in BOOLEAN
    /\ cs \in [Containers -> Statuses]
    /\ events \subseteq PossibleEvents
    /\ count \in 0..MaxTroubles
    /\ happened \in [Parts -> SUBSET Troubles]
    /\ stopped \in [Containers -> Killers \cup {"none"}] /\ killed \subseteq Apps

\* What a container has had to have such a status.
LeftBehind(st, c) ==
    /\ st.state = "ImagePullBackOff" => happened[c] # {}
    /\ st.state = "InvalidImageName" => "invalid-reference" \in happened[c]
    /\ st.state = "CreateContainerConfigError" => st.message \in BadConfigs \cap happened[c]
    /\ st.state = "terminated" /\ st.exit # "completed" =>
           stopped[c] # "none" /\ st.exit \in ExitReasons(stopped[c])
    /\ st.state = "CrashLoopBackOff" =>
           stopped[c] # "none" /\ (st.last = "none" \/ st.last \in ExitReasons(stopped[c]))

\* All evidence was left behind by what has happened.
Evidence ==
    /\ \A x \in Parts : trouble[x] # "none" => trouble[x] \in happened[x]
    /\ \A c \in Containers : stopped[c] # "none" => stopped[c] \in happened[c]
    /\ \A c \in Containers : stopped[c] = "liveness-probe" => c \in killed
    /\ \A e \in events : e.reason = "Killing" => e.about \in killed
    /\ \A i \in Inits : trouble[i] # "liveness-probe" /\ stopped[i] # "liveness-probe"
    /\ \A e \in events : e.note \in happened[e.about]
    /\ \A c \in Containers : LeftBehind(cs[c], c)
    /\ deadline => \E x \in Parts : happened[x] # {}

-----------------------------------------------------------------------------
LEMMA PartSets ==
    /\ Containers \subseteq Parts /\ Apps \subseteq Containers /\ Inits \subseteq Containers
    /\ Pod \in Parts /\ Pod \notin Containers /\ Apps \cap Inits = {}
    /\ Containers = Apps \cup Inits
BY PartAssumption DEF Containers, Parts

\* Where an Event is about, and what it says.
LEMMA EventsType ==
    ASSUME NEW e \in PossibleEvents
    PROVE  /\ e = Event(e.reason, e.about, e.note)
           /\ e.about \in Parts
           /\ e.reason = "FailedScheduling" => e.about = Pod /\ e.note \in Unplaced
           /\ e.reason = "FailedMount" => e.about = Pod /\ e.note \in BadMounts
           /\ e.reason = "Failed" => e.about \in Containers /\ e.note \in PullErrors
           /\ e.reason = "Unhealthy" => e.about \in Apps /\ e.note = "readiness-probe"
           /\ e.reason = "Killing" => e.about \in Apps /\ e.note = "liveness-probe"
<1>1. CASE \E t \in Unplaced : e = Event("FailedScheduling", Pod, t)
  BY <1>1, PartSets DEF Event
<1>2. CASE \E t \in BadMounts : e = Event("FailedMount", Pod, t)
  BY <1>2, PartSets DEF Event
<1>3. CASE \E c \in Containers, t \in PullErrors : e = Event("Failed", c, t)
  BY <1>3, PartSets DEF Event
<1>4. CASE \E c \in Apps : e = Event("Unhealthy", c, "readiness-probe")
  BY <1>4, PartSets DEF Event
<1>5. CASE \E c \in Apps : e = Event("Killing", c, "liveness-probe")
  BY <1>5, PartSets DEF Event
<1> QED
  BY <1>1, <1>2, <1>3, <1>4, <1>5 DEF PossibleEvents

\* A container that is killed exits for a Reason that a status can hold.
LEMMA ExitTypes == \A t \in Killers : ExitReasons(t) \subseteq Terminations
BY DEF Killers, Exits, ExitReasons, Terminations

-----------------------------------------------------------------------------
(* What each step of the kubelet leaves in the status.                      *)

LEMMA StartStatus ==
    ASSUME StateTypes, Evidence, NEW c \in Containers, Start(c)
    PROVE  /\ cs'[c] \in Statuses /\ cs' = [cs EXCEPT ![c] = cs'[c]]
           /\ LeftBehind(cs'[c], c)
           /\ cs'[c].state \notin {"terminated", "CrashLoopBackOff"}
<1> DEFINE t == trouble[c]
           s == Attempt(t)
           m == IF t \in BadConfigs THEN t ELSE "none"
<1>1. cs[c] \in Statuses /\ t \in Troubles \cup {"none"} /\ (t # "none" => t \in happened[c])
  BY PartSets DEF StateTypes, Evidence
<1>2. /\ s \in {"ImagePullBackOff", "CreateContainerConfigError", "InvalidImageName", "running"}
      /\ s = "ImagePullBackOff" => t \in PullErrors
      /\ s = "CreateContainerConfigError" => t \in BadConfigs
      /\ s = "InvalidImageName" => t = "invalid-reference"
  BY DEF Attempt
<1>3. m \in BadConfigs \cup {"none"} /\ (t \in BadConfigs => m = t)
  OBVIOUS
<1>4. "none" \notin PullErrors /\ "none" \notin BadConfigs
  BY DEF PullErrors, BadConfigs
<1>5. cs' = [cs EXCEPT ![c] = [cs[c] EXCEPT !.state = s, !.message = m]]
  BY DEF Start, SetStatus
<1>6. cs'[c] = [cs[c] EXCEPT !.state = s, !.message = m]
  BY <1>5 DEF StateTypes
<1> HIDE DEF s, m, t
<1>7. cs'[c] \in Statuses /\ cs'[c].state = s /\ cs'[c].message = m
  BY <1>1, <1>2, <1>3, <1>6 DEF Statuses, Waiting
<1>8. LeftBehind(cs'[c], c)
  BY <1>1, <1>2, <1>3, <1>4, <1>7 DEF LeftBehind
<1> QED
  BY <1>2, <1>5, <1>6, <1>7, <1>8

LEMMA ReadyStatus ==
    ASSUME StateTypes, Evidence, NEW c \in Containers, BecomeReady(c) \/ FailProbe(c)
    PROVE  /\ cs'[c] \in Statuses /\ cs' = [cs EXCEPT ![c] = cs'[c]]
           /\ cs'[c].state = cs[c].state /\ LeftBehind(cs'[c], c)
<1>1. cs[c] \in Statuses /\ LeftBehind(cs[c], c)
  BY DEF StateTypes, Evidence
<1>2. PICK b \in BOOLEAN : cs' = [cs EXCEPT ![c] = [cs[c] EXCEPT !.ready = b]]
  BY DEF BecomeReady, FailProbe, SetStatus
<1>3. cs'[c] = [cs[c] EXCEPT !.ready = b]
  BY <1>2 DEF StateTypes
<1>4. /\ cs'[c] \in Statuses /\ cs'[c].state = cs[c].state /\ cs'[c].message = cs[c].message
      /\ cs'[c].exit = cs[c].exit /\ cs'[c].last = cs[c].last
  BY <1>1, <1>3 DEF Statuses
<1> QED
  BY <1>1, <1>2, <1>3, <1>4 DEF LeftBehind

LEMMA ExitStatus ==
    ASSUME StateTypes, Evidence, NEW c \in Containers, Exit(c)
    PROVE  /\ cs'[c] \in Statuses /\ cs' = [cs EXCEPT ![c] = cs'[c]]
           /\ cs'[c].state = "terminated" /\ cs'[c].exit \in ExitReasons(trouble[c])
<1>1. cs[c] \in Statuses /\ trouble[c] \in Killers
  BY DEF StateTypes, Exit
<1>2. PICK exit \in ExitReasons(trouble[c]) :
        cs' = [cs EXCEPT ![c] = [cs[c] EXCEPT !.state = "terminated", !.exit = exit, !.ready = FALSE]]
  BY DEF Exit, SetStatus
<1>3. cs'[c] = [cs[c] EXCEPT !.state = "terminated", !.exit = exit, !.ready = FALSE]
  BY <1>2 DEF StateTypes
<1>4. exit \in Terminations
  BY <1>1, ExitTypes
<1>5. cs'[c] \in Statuses /\ cs'[c].state = "terminated" /\ cs'[c].exit = exit
  BY <1>1, <1>3, <1>4 DEF Statuses
<1> QED
  BY <1>2, <1>3, <1>5

LEMMA RestartStatus ==
    ASSUME StateTypes, Evidence, NEW c \in Containers, Restart(c)
    PROVE  /\ cs'[c] \in Statuses /\ cs' = [cs EXCEPT ![c] = cs'[c]]
           /\ cs[c].state = "terminated" /\ LeftBehind(cs'[c], c)
<1> DEFINE s == IF cs[c].restarted THEN "CrashLoopBackOff" ELSE "running"
           l == cs[c].exit
<1>1. cs[c] \in Statuses /\ LeftBehind(cs[c], c) /\ cs[c].state = "terminated" /\ l # "completed"
  BY DEF StateTypes, Evidence, Restart, Completed
<1>2. stopped[c] \in Killers /\ l \in ExitReasons(stopped[c]) /\ l \in Terminations
  BY <1>1, ExitTypes DEF LeftBehind, StateTypes
<1>3. cs' = [cs EXCEPT ![c] = [cs[c] EXCEPT !.state = s, !.restarted = TRUE, !.last = l, !.exit = "none"]]
  BY DEF Restart, SetStatus
<1>4. cs'[c] = [cs[c] EXCEPT !.state = s, !.restarted = TRUE, !.last = l, !.exit = "none"]
  BY <1>3 DEF StateTypes
<1>5. s \in {"CrashLoopBackOff", "running"}
  OBVIOUS
<1>6. stopped[c] # "none"
  BY <1>2 DEF Killers, Exits
<1> HIDE DEF s, l
<1>7. cs'[c] \in Statuses /\ cs'[c].state = s /\ cs'[c].last = l
  BY <1>1, <1>2, <1>4, <1>5 DEF Statuses, Waiting
<1> QED
  BY <1>1, <1>2, <1>3, <1>4, <1>5, <1>6, <1>7 DEF LeftBehind

LEMMA FinishStatus ==
    ASSUME StateTypes, Evidence, NEW c \in Containers, FinishInit(c)
    PROVE  /\ cs'[c] \in Statuses /\ cs' = [cs EXCEPT ![c] = cs'[c]]
           /\ c \in Inits /\ LeftBehind(cs'[c], c)
<1>1. cs[c] \in Statuses
  BY DEF StateTypes
<1>2. cs' = [cs EXCEPT ![c] = [cs[c] EXCEPT !.state = "terminated", !.exit = "completed"]]
  BY DEF FinishInit, SetStatus
<1>3. cs'[c] = [cs[c] EXCEPT !.state = "terminated", !.exit = "completed"]
  BY <1>2 DEF StateTypes
<1>4. cs'[c] \in Statuses /\ cs'[c].state = "terminated" /\ cs'[c].exit = "completed"
  BY <1>1, <1>3 DEF Statuses
<1> QED
  BY <1>2, <1>3, <1>4 DEF LeftBehind, FinishInit

LEMMA ForgetStatus ==
    ASSUME StateTypes, Evidence, NEW c \in Containers, Forget(c)
    PROVE  /\ cs'[c] \in Statuses /\ cs' = [cs EXCEPT ![c] = cs'[c]]
           /\ cs'[c].state = cs[c].state /\ LeftBehind(cs'[c], c)
<1>1. cs[c] \in Statuses /\ LeftBehind(cs[c], c)
  BY DEF StateTypes, Evidence
<1>2. cs' = [cs EXCEPT ![c] = [cs[c] EXCEPT !.last = "none"]]
  BY DEF Forget
<1>3. cs'[c] = [cs[c] EXCEPT !.last = "none"]
  BY <1>2 DEF StateTypes
<1>4. /\ cs'[c] \in Statuses /\ cs'[c].state = cs[c].state /\ cs'[c].message = cs[c].message
      /\ cs'[c].exit = cs[c].exit /\ cs'[c].last = "none"
  BY <1>1, <1>3 DEF Statuses
<1> QED
  BY <1>1, <1>2, <1>3, <1>4 DEF LeftBehind

-----------------------------------------------------------------------------
(* The inductive invariant.                                                 *)

\* A step that changes the status of one container and nothing that has happened.
LEMMA StatusStep ==
    ASSUME StateTypes, Evidence, NEW c \in Containers, cs'[c] \in Statuses,
           cs' = [cs EXCEPT ![c] = cs'[c]], LeftBehind(cs'[c], c), count' \in 0..MaxTroubles,
           UNCHANGED <<trouble, scheduled, mounted, events, deadline, happened, stopped, killed>>
    PROVE  StateTypes' /\ Evidence'
<1>1. cs' \in [Containers -> Statuses] /\ \A d \in Containers \ {c} : cs'[d] = cs[d]
  BY DEF StateTypes
<1>2. StateTypes'
  BY <1>1 DEF StateTypes
<1>3. \A d \in Containers : LeftBehind(cs[d], d)' <=> LeftBehind(cs'[d], d)
  BY DEF LeftBehind
<1>4. \A d \in Containers : LeftBehind(cs'[d], d)
  BY <1>1 DEF Evidence
<1> QED
  BY <1>2, <1>3, <1>4 DEF Evidence

LEMMA ExitStep ==
    ASSUME StateTypes, Evidence, NEW c \in Containers, Exit(c)
    PROVE  StateTypes' /\ Evidence'
<1> DEFINE t == trouble[c]
<1>1. /\ t \in Killers /\ t # "none" /\ t \in happened[c]
      /\ c \in Inits => t # "liveness-probe"
      /\ stopped' = [stopped EXCEPT ![c] = t]
      /\ UNCHANGED <<trouble, scheduled, mounted, deadline, count, happened>>
  BY PartSets DEF Exit, SetStatus, Killers, Exits, Evidence
<1>2. /\ cs'[c] \in Statuses /\ cs' = [cs EXCEPT ![c] = cs'[c]]
      /\ cs'[c].state = "terminated" /\ cs'[c].exit \in ExitReasons(t)
  BY ExitStatus
<1>3. /\ cs' \in [Containers -> Statuses] /\ stopped' \in [Containers -> Killers \cup {"none"}]
      /\ stopped'[c] = t /\ \A d \in Containers \ {c} : cs'[d] = cs[d] /\ stopped'[d] = stopped[d]
  BY <1>1, <1>2 DEF StateTypes
<1>4. events' = events /\ killed' = IF t = "liveness-probe" THEN killed \cup {c} ELSE killed
  BY DEF Exit
<1>5. killed \subseteq killed' /\ killed' \subseteq Apps /\ (t = "liveness-probe" => c \in killed')
  BY <1>1, <1>4, PartSets DEF StateTypes
<1>6. StateTypes'
  BY <1>1, <1>3, <1>4, <1>5 DEF StateTypes
<1>7. \A e \in events' : e.note \in happened[e.about] /\ (e.reason = "Killing" => e.about \in killed')
  BY <1>4, <1>5 DEF Evidence
<1>8. \A d \in Containers : LeftBehind(cs[d], d)'
  <2>1. LeftBehind(cs[c], c)'
    BY <1>1, <1>2, <1>3 DEF LeftBehind
  <2>2. ASSUME NEW d \in Containers, d # c
        PROVE  LeftBehind(cs[d], d)'
    <3>1. /\ LeftBehind(cs[d], d) /\ cs'[d] = cs[d] /\ stopped'[d] = stopped[d]
          /\ happened' = happened
      BY <1>1, <1>3, <2>2 DEF Evidence
    <3> QED
      BY <3>1 DEF LeftBehind
  <2> QED
    BY <2>1, <2>2
<1> QED
  BY <1>1, <1>3, <1>5, <1>6, <1>7, <1>8, PartSets DEF Evidence

LEMMA GoWrongStep ==
    ASSUME StateTypes, Evidence, NEW x \in Parts, GoWrong(x)
    PROVE  StateTypes' /\ Evidence'
<1>1. PICK t \in Troubles :
        /\ t # trouble[x] /\ MayHave(x, t) /\ Change(x, t)
        /\ happened' = [happened EXCEPT ![x] = @ \cup {t}]
  BY DEF GoWrong
<1>2. /\ trouble' \in [Parts -> Troubles \cup {"none"}] /\ trouble'[x] = t
      /\ \A y \in Parts \ {x} : trouble'[y] = trouble[y]
  BY <1>1 DEF Change, StateTypes
<1>3. /\ happened' \in [Parts -> SUBSET Troubles] /\ t \in happened'[x]
      /\ \A y \in Parts : happened[y] \subseteq happened'[y]
  BY <1>1 DEF StateTypes
<1>4. UNCHANGED <<scheduled, mounted, cs, events, deadline, stopped, killed>>
  BY <1>1 DEF Change, stops
<1>5. x \in Inits => t # "liveness-probe"
  BY <1>1, PartSets DEF MayHave, Exits, BadConfigs, PullErrors
<1>6. count' \in 0..MaxTroubles
  BY BoundAssumption DEF GoWrong, StateTypes
<1>7. StateTypes'
  BY <1>2, <1>3, <1>4, <1>6 DEF StateTypes
<1>8. \A e \in events : e.about \in Parts
  BY EventsType DEF StateTypes
<1>9. ASSUME NEW c \in Containers
      PROVE  LeftBehind(cs[c], c)'
  <2>1. /\ LeftBehind(cs[c], c) /\ cs'[c] = cs[c] /\ stopped'[c] = stopped[c]
        /\ happened[c] \subseteq happened'[c]
    BY <1>3, <1>4, PartSets DEF Evidence
  <2> QED
    BY <2>1 DEF LeftBehind
<1> QED
  BY <1>2, <1>3, <1>4, <1>5, <1>7, <1>8, <1>9, PartSets DEF Evidence

LEMMA EvidenceStep ==
    ASSUME StateTypes, Evidence, [Next]_vars
    PROVE  StateTypes' /\ Evidence'
<1>1. ASSUME Schedule \/ Mount
      PROVE  StateTypes' /\ Evidence'
  <2>1. /\ UNCHANGED <<trouble, cs, events, deadline, count, happened, stopped, killed>>
        /\ scheduled' \in BOOLEAN /\ mounted' \in BOOLEAN
    BY <1>1 DEF Schedule, Mount, StateTypes, stops
  <2>2. StateTypes'
    BY <2>1 DEF StateTypes
  <2>3. \A c \in Containers : LeftBehind(cs[c], c)'
    BY <2>1 DEF Evidence, LeftBehind
  <2> QED
    BY <2>1, <2>2, <2>3 DEF Evidence
<1>2. CASE DeadlineChanges
  <2>1. \E x \in Parts : happened[x] # {}
    BY <1>2 DEF DeadlineChanges, Evidence
  <2> QED
    BY <1>2, <2>1 DEF DeadlineChanges, StateTypes, Evidence, LeftBehind, stops
<1>3. ASSUME NEW c \in Containers, Start(c)
      PROVE  StateTypes' /\ Evidence'
  BY <1>3, StartStatus, StatusStep DEF Start, SetStatus, StateTypes, stops
<1>4. ASSUME NEW c \in Containers, BecomeReady(c) \/ FailProbe(c)
      PROVE  StateTypes' /\ Evidence'
  BY <1>4, ReadyStatus, StatusStep DEF BecomeReady, FailProbe, SetStatus, StateTypes, stops
<1>5. ASSUME NEW c \in Containers, Exit(c)
      PROVE  StateTypes' /\ Evidence'
  BY <1>5, ExitStep
<1>6. ASSUME NEW c \in Containers, Restart(c)
      PROVE  StateTypes' /\ Evidence'
  BY <1>6, RestartStatus, StatusStep DEF Restart, SetStatus, StateTypes, stops
<1>7. ASSUME NEW c \in Containers, FinishInit(c)
      PROVE  StateTypes' /\ Evidence'
  BY <1>7, FinishStatus, StatusStep DEF FinishInit, SetStatus, StateTypes, stops
<1>8. ASSUME NEW c \in Containers, Forget(c)
      PROVE  StateTypes' /\ Evidence'
  <2>1. count' \in 0..MaxTroubles
    BY <1>8, BoundAssumption DEF Forget, StateTypes
  <2> QED
    BY <1>8, <2>1, ForgetStatus, StatusStep DEF Forget, stops
<1>9. ASSUME NEW e \in PossibleEvents, Record(e)
      PROVE  StateTypes' /\ Evidence'
  <2>1. e.note \in happened[e.about]
    <3>1. CASE e.reason \in {"FailedScheduling", "FailedMount", "Failed"}
      <4>1. e.note = trouble[e.about] /\ e.about \in Parts /\ e.note # "none"
        BY <1>9, <3>1, EventsType, PartSets DEF Record, Due, Unplaced, BadMounts, PullErrors
      <4> QED
        BY <4>1 DEF Evidence
    <3>2. CASE e.reason = "Unhealthy"
      <4>1. e.note = trouble[e.about] /\ e.about \in Parts /\ e.note # "none"
        BY <1>9, <3>2, EventsType, PartSets DEF Record, Due
      <4> QED
        BY <4>1 DEF Evidence
    <3>3. CASE e.reason = "Killing"
      <4>1. stopped[e.about] = e.note /\ e.about \in Containers /\ e.note # "none"
        BY <1>9, <3>3, EventsType, PartSets DEF Record, Due
      <4> QED
        BY <4>1 DEF Evidence
    <3> QED
      BY <1>9, <3>1, <3>2, <3>3 DEF Record, Due
  <2>2. e.reason = "Killing" => e.about \in killed
    BY <1>9, EventsType, PartSets DEF Record, Due, Evidence
  <2> QED
    BY <1>9, <2>1, <2>2 DEF Record, StateTypes, Evidence, LeftBehind, stops
<1>10. ASSUME NEW e \in PossibleEvents, Expire(e)
       PROVE  StateTypes' /\ Evidence'
  BY <1>10 DEF Expire, StateTypes, Evidence, LeftBehind, stops
<1>11. ASSUME NEW x \in Parts, GoWrong(x)
       PROVE  StateTypes' /\ Evidence'
  BY <1>11, GoWrongStep
<1>12. ASSUME NEW x \in Parts, Recover(x)
       PROVE  StateTypes' /\ Evidence'
  <2>1. /\ trouble' \in [Parts -> Troubles \cup {"none"}] /\ trouble'[x] = "none"
        /\ \A y \in Parts \ {x} : trouble'[y] = trouble[y]
    BY <1>12 DEF Recover, Change, StateTypes
  <2>2. UNCHANGED <<scheduled, mounted, cs, events, deadline, stopped, killed, count, happened>>
    BY <1>12 DEF Recover, Change, stops
  <2>3. StateTypes'
    BY <2>1, <2>2 DEF StateTypes
  <2>4. \A c \in Containers : LeftBehind(cs[c], c)'
    BY <2>2 DEF Evidence, LeftBehind
  <2> QED
    BY <2>1, <2>2, <2>3, <2>4, PartSets DEF Evidence
<1>13. CASE UNCHANGED vars
  BY <1>13 DEF vars, stops, StateTypes, Evidence, LeftBehind
<1> QED
  BY <1>1, <1>2, <1>3, <1>4, <1>5, <1>6, <1>7, <1>8, <1>9, <1>10, <1>11, <1>12, <1>13
     DEF Next, Kubelet

LEMMA EvidenceInvariant == Spec => [](StateTypes /\ Evidence)
<1>1. Init => StateTypes /\ Evidence
  <2> SUFFICES ASSUME Init
               PROVE  StateTypes /\ Evidence
    OBVIOUS
  <2>1. NewStatus \in Statuses /\ NewStatus.state = "creating"
    BY DEF NewStatus, Statuses, Waiting
  <2>2. StateTypes
    <3>1. cs \in [Containers -> Statuses] /\ stopped \in [Containers -> Killers \cup {"none"}]
      BY <2>1 DEF Init
    <3>2. trouble \in [Parts -> Troubles \cup {"none"}] /\ happened \in [Parts -> SUBSET Troubles]
      BY DEF Init
    <3>3. count \in 0..MaxTroubles
      BY BoundAssumption DEF Init
    <3> QED
      BY <3>1, <3>2, <3>3 DEF Init, StateTypes
  <2>3. \A c \in Containers : LeftBehind(cs[c], c)
    BY <2>1 DEF Init, LeftBehind
  <2> QED
    BY <2>2, <2>3, PartSets DEF Init, Evidence
<1> QED
  BY <1>1, EvidenceStep, PTL DEF Spec

-----------------------------------------------------------------------------
(* What the Findings say.                                                   *)

\* What an Event of a reason notes has happened to the part it is about.
LEMMA NotesHappened ==
    ASSUME StateTypes, Evidence
    PROVE  /\ \A n \in Notes("FailedScheduling") : n \in Unplaced /\ n \in happened[Pod]
           /\ \A n \in Notes("FailedMount") : n \in BadMounts /\ n \in happened[Pod]
           /\ \A n \in Notes("Failed") : n \in PullErrors /\ \E c \in Containers : n \in happened[c]
           /\ \A n \in Notes("Unhealthy") : \E a \in Apps : "readiness-probe" \in happened[a]
           /\ \A c : KilledByProbe(c) =>
                 c \in Apps /\ "liveness-probe" \in happened[c] /\ c \in killed
<1>1. \A e \in events : e \in PossibleEvents /\ e.note \in happened[e.about]
  BY DEF StateTypes, Evidence
<1>2. ASSUME NEW c, KilledByProbe(c)
      PROVE  c \in Apps /\ "liveness-probe" \in happened[c] /\ c \in killed
  <2>1. PICK e \in events : e.reason = "Killing" /\ e.about = c
    BY <1>2 DEF KilledByProbe
  <2>2. e.about \in Apps /\ e.note = "liveness-probe" /\ e.note \in happened[e.about]
    BY <1>1, <2>1, EventsType
  <2>3. e.about \in killed
    BY <2>1 DEF Evidence
  <2> QED
    BY <2>1, <2>2, <2>3
<1>3. /\ \A n \in Notes("FailedScheduling") : n \in Unplaced /\ n \in happened[Pod]
      /\ \A n \in Notes("FailedMount") : n \in BadMounts /\ n \in happened[Pod]
      /\ \A n \in Notes("Failed") : n \in PullErrors /\ \E c \in Containers : n \in happened[c]
      /\ \A n \in Notes("Unhealthy") : \E a \in Apps : "readiness-probe" \in happened[a]
  BY <1>1, EventsType DEF Notes
<1> QED
  BY <1>2, <1>3

\* A classification is undetermined or one of the notes that a pattern recognises.
LEMMA Classified ==
    \A notes : \A t \in Classify(notes) :
        t = "undetermined" \/ (t \in notes /\ Recognised(t))
BY DEF Classify

\* A CrashLoop Finding is about a container that has been stopped or killed, and
\* names the kill or what its last status shows.
LEMMA CrashFindings ==
    ASSUME StateTypes, Evidence, NEW f \in CrashLoop
    PROVE  /\ f.by = "crashloop" /\ f.about \in Apps /\ f.about \in Parts
           /\ f.cause \in {"liveness-probe", "oomkilled", "app-error", "undetermined"}
           /\ happened[f.about] # {}
           /\ f.cause = "liveness-probe" =>
                "liveness-probe" \in happened[f.about] /\ f.about \in killed
           /\ f.cause \in {"oomkilled", "app-error"} =>
                /\ ~KilledByProbe(f.about) /\ cs[f.about].state = "CrashLoopBackOff"
                /\ cs[f.about].last = f.cause /\ f.cause \in ExitReasons(stopped[f.about])
<1>1. PICK c \in Apps : CrashLooping(c) /\ f = Finding("crashloop", CrashCause(c), c)
  BY DEF CrashLoop
<1>2. f.by = "crashloop" /\ f.cause = CrashCause(c) /\ f.about = c
  BY <1>1 DEF Finding
<1>3. c \in Containers /\ c \in Parts
  BY PartSets
<1>4. cs[c] \in Statuses /\ LeftBehind(cs[c], c)
  BY <1>3 DEF StateTypes, Evidence
<1>5. cs[c].last \in Terminations \cup {"none"}
  BY <1>4 DEF Statuses
<1>6. KilledByProbe(c) => "liveness-probe" \in happened[c] /\ c \in killed
  BY NotesHappened
<1>7. CASE KilledByProbe(c)
  <2>1. CrashCause(c) = "liveness-probe"
    BY <1>7 DEF CrashCause
  <2> QED
    BY <1>2, <1>3, <1>6, <1>7, <2>1
<1>8. CASE ~KilledByProbe(c)
  <2>1. cs[c].state = "CrashLoopBackOff"
    BY <1>1, <1>8 DEF CrashLooping
  <2>2. stopped[c] # "none" /\ (cs[c].last = "none" \/ cs[c].last \in ExitReasons(stopped[c]))
    BY <1>4, <2>1 DEF LeftBehind
  <2>3. happened[c] # {}
    BY <1>3, <2>2 DEF Evidence
  <2>4. /\ CrashCause(c) \in {"oomkilled", "app-error", "undetermined"}
        /\ CrashCause(c) # "undetermined" => CrashCause(c) = cs[c].last /\ cs[c].last # "none"
    BY <1>5, <1>8 DEF CrashCause, Terminations
  <2> QED
    BY <1>2, <1>3, <1>8, <2>1, <2>2, <2>3, <2>4
<1> QED
  BY <1>7, <1>8

LEMMA PullFindings ==
    ASSUME StateTypes, Evidence, NEW f \in ImagePull
    PROVE  /\ f.by = "imagepull" /\ \E x \in Parts : happened[x] # {}
           /\ f.cause \in PullErrors \cup {"invalid-reference", "undetermined"}
           /\ f.cause # "undetermined" =>
                  Recognised(f.cause) /\ \E c \in Containers : f.cause \in happened[c]
<1>1. CASE f \in InvalidReference
  <2>1. PICK c \in Apps : /\ cs[c].state = "InvalidImageName"
                          /\ f = Finding("imagepull", "invalid-reference", c)
    BY <1>1 DEF InvalidReference
  <2>2. c \in Containers /\ c \in Parts /\ "invalid-reference" \in happened[c]
    BY <2>1, PartSets DEF Evidence, LeftBehind
  <2> QED
    BY <2>1, <2>2 DEF Finding, Recognised
<1>2. CASE f \notin InvalidReference
  <2>1. PICK c \in Apps, t \in Classify(Notes("Failed")) :
          cs[c].state = "ImagePullBackOff" /\ f = Finding("imagepull", t, c)
    BY <1>2 DEF ImagePull
  <2>2. c \in Parts /\ happened[c] # {}
    BY <2>1, PartSets DEF Evidence, LeftBehind
  <2>3. t = "undetermined" \/ (t \in Notes("Failed") /\ Recognised(t))
    BY Classified
  <2>4. t \in Notes("Failed") => t \in PullErrors /\ \E d \in Containers : t \in happened[d]
    BY NotesHappened
  <2> QED
    BY <2>1, <2>2, <2>3, <2>4 DEF Finding
<1> QED
  BY <1>1, <1>2

LEMMA ConfigFindings ==
    ASSUME StateTypes, Evidence, NEW f \in ConfigError
    PROVE  /\ f.by = "container-config" /\ f.about \in Parts /\ happened[f.about] # {}
           /\ f.cause \in BadConfigs \cup {"undetermined"}
           /\ f.cause # "undetermined" => Recognised(f.cause) /\ f.cause \in happened[f.about]
<1>1. PICK c \in Containers :
        /\ cs[c].state = "CreateContainerConfigError"
        /\ f = Finding("container-config",
                       IF Recognised(cs[c].message) THEN cs[c].message ELSE "undetermined", c)
  BY DEF ConfigError
<1>2. cs[c].message \in BadConfigs \cap happened[c] /\ c \in Parts
  BY <1>1, PartSets DEF Evidence, LeftBehind
<1> QED
  BY <1>1, <1>2 DEF Finding

LEMMA MountFindings ==
    ASSUME StateTypes, Evidence, NEW f \in VolumeMount
    PROVE  /\ f.by = "volume-mount" /\ f.about = Pod /\ happened[Pod] # {}
           /\ f.cause \in BadMounts \cup {"undetermined"}
           /\ f.cause # "undetermined" => Recognised(f.cause) /\ f.cause \in happened[Pod]
<1>1. Notes("FailedMount") # {} /\ \E t \in Classify(Notes("FailedMount")) : f = Finding("volume-mount", t, Pod)
  BY DEF VolumeMount
<1>2. happened[Pod] # {}
  BY <1>1, NotesHappened
<1>3. \A t \in Classify(Notes("FailedMount")) :
        t = "undetermined" \/ (t \in BadMounts /\ t \in happened[Pod] /\ Recognised(t))
  BY Classified, NotesHappened
<1> QED
  BY <1>1, <1>2, <1>3 DEF Finding

LEMMA InitFindings ==
    ASSUME StateTypes, Evidence, NEW f \in InitContainer
    PROVE  /\ f.by = "init-container" /\ f.about \in Parts /\ happened[f.about] # {}
           /\ f.cause \in {"oomkilled", "app-error", "undetermined"}
           /\ f.cause # "undetermined" =>
                f.cause \in Happened(f.about) /\ f.cause = CauseOf(stopped[f.about])
<1>1. PICK i \in Inits : FailedInit(i) /\ f = Finding("init-container", InitCause(i), i)
  BY DEF InitContainer
<1>2. f.by = "init-container" /\ f.cause = InitCause(i) /\ f.about = i
  BY <1>1 DEF Finding
<1>3. i \in Containers /\ i \in Parts
  BY PartSets
<1> DEFINE term == IF cs[i].state = "terminated" THEN cs[i].exit ELSE cs[i].last
<1>4. stopped[i] # "none" /\ (term = "none" \/ term \in ExitReasons(stopped[i]))
  BY <1>1, <1>3 DEF FailedInit, Evidence, LeftBehind
<1>5. stopped[i] # "liveness-probe" /\ stopped[i] \in Killers /\ stopped[i] \in happened[i]
  BY <1>3, <1>4 DEF Evidence, StateTypes
<1>6. term = "none" \/ (term = stopped[i] /\ term \in {"oomkilled", "app-error", "no-reason"})
  BY <1>4, <1>5 DEF ExitReasons, Killers, Exits
<1>7. /\ InitCause(i) \in {"oomkilled", "app-error", "undetermined"}
      /\ InitCause(i) # "undetermined" => term # "none" /\ InitCause(i) = CauseOf(term)
  BY <1>6 DEF InitCause, CauseOf
<1> HIDE DEF term
<1>8. term # "none" => CauseOf(term) \in Happened(i) /\ CauseOf(term) = CauseOf(stopped[i])
  BY <1>5, <1>6 DEF Happened
<1> QED
  BY <1>2, <1>3, <1>5, <1>7, <1>8

LEMMA ReadinessFindings ==
    ASSUME StateTypes, Evidence, NEW f \in Readiness
    PROVE  /\ f.by = "readiness" /\ \E x \in Parts : happened[x] # {}
           /\ f.cause \in {"readiness-probe", "undetermined"}
           /\ f.cause # "undetermined" => \E c \in Containers : "readiness-probe" \in happened[c]
<1>1. PICK c \in Apps :
        /\ deadline
        /\ f = Finding("readiness",
                       IF Notes("Unhealthy") # {} THEN "readiness-probe" ELSE "undetermined", c)
  BY DEF Readiness
<1>2. \E x \in Parts : happened[x] # {}
  BY <1>1 DEF Evidence
<1>3. Notes("Unhealthy") # {} => \E d \in Containers : "readiness-probe" \in happened[d]
  BY NotesHappened, PartSets
<1> QED
  BY <1>1, <1>2, <1>3 DEF Finding

LEMMA PendingFindings ==
    ASSUME StateTypes, Evidence, NEW f \in Pending
    PROVE  /\ f.by = "pending" /\ f.about = Pod /\ happened[Pod] # {}
           /\ f.cause \in Unplaced \cup {"undetermined"}
           /\ f.cause # "undetermined" => Recognised(f.cause) /\ f.cause \in happened[Pod]
<1>1. PICK t \in PendingCauses : f = Finding("pending", t, Pod)
  BY DEF Pending
<1>2. CASE t \in {"unbound-pvc"} /\ trouble[Pod] = t
  <2>1. t \in Unplaced /\ t \in happened[Pod] /\ Recognised(t)
    BY <1>2, PartSets DEF StateTypes, Evidence, Unplaced, Recognised
  <2> QED
    BY <1>1, <2>1 DEF Finding
<1>3. CASE \E n \in Notes("FailedScheduling") : t = IF Recognised(n) THEN n ELSE "undetermined"
  BY <1>1, <1>3, NotesHappened DEF Finding
<1> QED
  BY <1>2, <1>3 DEF PendingCauses

\* The state is well typed and every Finding names a cause that its category has:
\* the Diagnosers with classify, failedInitTermination and the patterns.
THEOREM TypeInvariant == Spec => []TypeOK
<1>1. StateTypes /\ Evidence => TypeOK
  <2> SUFFICES ASSUME StateTypes, Evidence, NEW f \in Findings
               PROVE  f.cause \in {t \in Causes(f.by) : Recognised(t)} \cup {"undetermined"}
    BY DEF StateTypes, TypeOK
  <2>1. CASE f \in CrashLoop
    BY <2>1, CrashFindings DEF Causes, Recognised
  <2>2. CASE f \in ImagePull
    BY <2>2, PullFindings DEF Causes, Recognised
  <2>3. CASE f \in ConfigError
    BY <2>3, ConfigFindings DEF Causes
  <2>4. CASE f \in VolumeMount
    BY <2>4, MountFindings DEF Causes
  <2>5. CASE f \in InitContainer
    BY <2>5, InitFindings DEF Causes, Recognised
  <2>6. CASE f \in Readiness
    BY <2>6, ReadinessFindings DEF Causes, Recognised
  <2>7. CASE f \in Pending
    BY <2>7, PendingFindings DEF Causes
  <2> QED
    BY <2>1, <2>2, <2>3, <2>4, <2>5, <2>6, <2>7 DEF Findings
<1> QED
  BY <1>1, EvidenceInvariant, PTL

-----------------------------------------------------------------------------
(* What the exits are called.                                               *)

\* A cause of a crash is why the container last stopped, is the exit that a kill not
\* announced yet leaves behind, or is a kill that has happened.
LEMMA CrashTruth ==
    ASSUME StateTypes, Evidence, NEW f \in CrashLoop, f.cause # "undetermined"
    PROVE  IF f.cause = "liveness-probe" THEN f.about \in killed
           ELSE f.cause = stopped[f.about] \/ Unannounced(f)
<1>1. CASE f.cause = "liveness-probe"
  BY <1>1, CrashFindings
<1>2. CASE f.cause # "liveness-probe"
  <2>1. ~KilledByProbe(f.about) /\ f.cause \in ExitReasons(stopped[f.about])
        /\ f.cause \in {"oomkilled", "app-error"}
    BY <1>2, CrashFindings
  <2>2. CASE stopped[f.about] = "liveness-probe"
    BY <2>1, <2>2 DEF ExitReasons, Unannounced
  <2>3. CASE stopped[f.about] # "liveness-probe"
    BY <2>1, <2>3 DEF ExitReasons
  <2> QED
    BY <1>2, <2>2, <2>3
<1> QED
  BY <1>1, <1>2

\* CrashLoop.classify and failedInitTermination, "neither OOMKilled nor killed by the
\* probe" (cause.go): the cause named of a container or an init container is why it
\* last stopped, one said to be killed by the probe has been, and only a kill whose
\* Event is not recorded yet passes for a failure of the application.
THEOREM ExitsAreNamedRight == Spec => []CrashCauseIsTrue
<1>1. StateTypes /\ Evidence => CrashCauseIsTrue
  <2> SUFFICES ASSUME StateTypes, Evidence,
                      NEW f \in CrashLoop \cup InitContainer, f.cause # "undetermined"
               PROVE  IF f.cause = "liveness-probe" THEN f.about \in killed
                      ELSE f.cause = CauseOf(stopped[f.about]) \/ Unannounced(f)
    BY DEF CrashCauseIsTrue, Determined
  <2>1. CASE f \in CrashLoop
    <3>1. f.cause # "no-reason"
      BY <2>1, CrashFindings
    <3> QED
      BY <2>1, <3>1, CrashTruth DEF CauseOf
  <2>2. CASE f \in InitContainer
    BY <2>2, InitFindings
  <2> QED
    BY <2>1, <2>2
<1> QED
  BY <1>1, EvidenceInvariant, PTL

\* "Never choose a cause by guessing" (diagnose.go): no Finding of any Diagnoser
\* names a cause that the pod has not had, save that of a kill not announced yet, and
\* a pod without trouble has no Finding.
THEOREM NoCauseIsGuessed == Spec => []CausesHappened
<1>1. StateTypes /\ Evidence => CausesHappened
  <2> SUFFICES ASSUME StateTypes, Evidence
               PROVE  CausesHappened
    OBVIOUS
  <2>1. ASSUME NEW f \in Findings
        PROVE  \E x \in Parts : happened[x] # {}
    BY <2>1, CrashFindings, PullFindings, ConfigFindings, MountFindings, InitFindings,
       ReadinessFindings, PendingFindings, PartSets DEF Findings
  <2>2. \A x, t : t \in happened[x] /\ t # "no-reason" => t \in Happened(x)
    BY DEF Happened, CauseOf
  <2>3. \A t : Recognised(t) => t # "no-reason"
    BY DEF Recognised
  <2>4. ASSUME NEW f \in CrashLoop, f.cause # "undetermined"
        PROVE  f.cause \in Happened(f.about) \/ Unannounced(f)
    <3>1. CASE f.cause = "liveness-probe"
      BY <2>2, <3>1, CrashFindings
    <3>2. CASE f.cause = stopped[f.about] /\ f.cause # "liveness-probe"
      <4>1. f.cause # "none" /\ f.cause # "no-reason" /\ f.about \in Containers
        BY <2>4, <3>2, CrashFindings, PartSets
      <4> QED
        BY <2>2, <3>2, <4>1 DEF Evidence
    <3> QED
      BY <2>4, <3>1, <3>2, CrashTruth
  <2>5. ASSUME NEW f \in ConfigError \cup VolumeMount \cup Pending, f.cause # "undetermined"
        PROVE  f.cause \in Happened(f.about)
    BY <2>2, <2>3, <2>5, ConfigFindings, MountFindings, PendingFindings
  <2>6. ASSUME NEW f \in InitContainer, f.cause # "undetermined"
        PROVE  f.cause \in Happened(f.about)
    BY <2>6, InitFindings
  <2>7. ASSUME NEW f \in ImagePull \cup Readiness, f.cause # "undetermined"
        PROVE  \E c \in Containers : f.cause \in Happened(c)
    BY <2>2, <2>3, <2>7, PullFindings, ReadinessFindings
  <2> QED
    BY <2>1, <2>4, <2>5, <2>6, <2>7 DEF CausesHappened, Findings, Determined
<1> QED
  BY <1>1, EvidenceInvariant, PTL

=============================================================================
