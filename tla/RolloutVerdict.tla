--------------------------- MODULE RolloutVerdict ---------------------------
(***************************************************************************)
(* What an observation promises, without pods, streams, timers or ticks    *)
(* that fail: it sees the rollout in one class after another, and ends     *)
(* once, with a cause at once, with success, an ambiguous or a held        *)
(* rollout only after an unbroken run of that class, or because it was     *)
(* stopped.  RolloutWatch implements it.                                   *)
(***************************************************************************)
EXTENDS Naturals

CONSTANTS CleanWindow, RestartedWindow, GraceWindow, PausedWindow

VARIABLES
    class,      \* of the run that is under way
    age,        \* how long it has lasted
    long,       \* does the longer window apply to it?
    restarted,  \* a container has restarted while it was observed
    verdict     \* how the observation ended

vars == <<class, age, long, restarted, verdict>>

\* How long a run has to last.
Needed ==
    IF class = "ambiguous" THEN GraceWindow
    ELSE IF long THEN RestartedWindow
    ELSE IF class = "held" THEN PausedWindow ELSE CleanWindow

Init ==
    /\ class = "none" /\ age = 0 /\ long = FALSE
    /\ restarted = FALSE
    /\ verdict = "none"

Continue == UNCHANGED <<class, age, long>>

\* A restart that has been seen lengthens every later run that could end in success.
Begin(c) ==
    /\ class' = c /\ age' = 0 /\ long' \in BOOLEAN
    /\ c # "held" => long' = restarted

Open == verdict = "none"

\* The rollout is seen in class c, and the observation goes on.
See(c) ==
    /\ Open
    /\ (c = class /\ Continue) \/ Begin(c)
    /\ UNCHANGED <<restarted, verdict>>

SeeCause ==
    /\ Open
    /\ (class = "cause" /\ Continue) \/ Begin("cause")
    /\ verdict' = "cause"
    /\ UNCHANGED restarted

\* A run of class c has lasted.
Conclude(c, v) ==
    /\ Open
    /\ class = c /\ age >= Needed
    /\ verdict' = v
    /\ Continue /\ UNCHANGED restarted

SeeRestart ==
    /\ Open
    /\ restarted' = TRUE
    /\ Continue /\ UNCHANGED verdict

\* The streams are lost: the next run begins from nothing.
Forget ==
    /\ Open
    /\ class' = "none" /\ age' = 0 /\ long' = FALSE
    /\ UNCHANGED <<restarted, verdict>>

Pass ==
    /\ Open
    /\ age' = age + 1
    /\ UNCHANGED <<class, long, restarted, verdict>>

\* An API call fails, or --timeout has passed.
Stop ==
    /\ Open
    /\ verdict' \in {"error", "timeout"}
    /\ restarted' \in {restarted, TRUE}
    /\ Continue

Next ==
    \/ \E c \in {"ambiguous", "held", "complete", "progressing"} : See(c)
    \/ SeeCause
    \/ Conclude("complete", "success")
    \/ Conclude("ambiguous", "ambiguous")
    \/ Conclude("held", "held")
    \/ SeeRestart \/ Forget \/ Pass \/ Stop

Spec == Init /\ [][Next]_vars
=============================================================================
