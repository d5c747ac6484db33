----------------------------- MODULE HealthProbes -----------------------------
(***************************************************************************)
(* The liveness and readiness probes of health/{service,readiness,         *)
(* indicators}.py, read while the application starts, serves, stops and    *)
(* starts again.                                                           *)
(*                                                                         *)
(* A read copies the names registered on its probe and checks them all at  *)
(* once, each in a task of its own and under a timer of its own; the tasks *)
(* first run when the event loop comes round, so the lifecycle may move    *)
(* between the copy and the check.  The lifecycle check reads the two      *)
(* edges of ReadinessState, which the hooks of the lifecycle set: a state  *)
(* and a service belong to the generation of instances they were built in, *)
(* and a read may still hold those of a generation that is gone.           *)
(*                                                                         *)
(* Time counts in units of which a check is given CheckTimeout.            *)
(***************************************************************************)
EXTENDS Integers, Sequences

CONSTANTS
    Readers,        \* whoever reads a probe, one read at a time
    Participants,   \* the constructed instances with hooks, dependencies first
    Wiring,         \* what each of them registers on readiness when initialized, or Absent
    Indicators,     \* names an indicator may have
    State,          \* the participant that is the ReadinessState
    Lifecycle,      \* LIFECYCLE_CHECK_NAME
    CheckTimeout,   \* check_timeout
    Generations,    \* bound: how often the application is built
    Absent          \* no read, no registration

Probes == {"live", "ready"}

Position == 1..Len(Participants)

ASSUME HealthAssumption ==
    /\ CheckTimeout \in Nat \ {0}
    /\ Generations \in Nat \ {0}
    /\ Participants \in Seq({Participants[i] : i \in Position})
    /\ State \in {Participants[i] : i \in Position}
    /\ Wiring \in [{Participants[i] : i \in Position} -> Indicators \union {Absent}]
    /\ Wiring[State] = Absent
    /\ Lifecycle \in Indicators
    /\ Absent \notin Indicators

VARIABLES
    phase,      \* where LifecycleManager is
    at,         \* the participant whose hook runs, or runs next
    generation, \* which instances the container holds
    started,    \* ReadinessState._started, by generation
    draining,   \* ReadinessState._draining, by generation
    indicators, \* HealthService._liveness and _readiness, by generation
    wired,      \* the names registered by hooks of initialization, by generation
    read        \* the read each reader has begun or been answered, or Absent

lifeVars == <<phase, at, generation>>
edges == <<started, draining>>
probesVars == <<lifeVars, edges, indicators, wired, read>>

Built == 1..generation

ProbesInit ==
    /\ phase = "new" /\ at = 1 /\ generation = 1
    /\ started = [g \in 1..Generations |-> FALSE]
    /\ draining = [g \in 1..Generations |-> FALSE]
    /\ indicators = [g \in 1..Generations |-> [live |-> {}, ready |-> {Lifecycle}]]
    /\ wired = [g \in 1..Generations |-> {}]
    /\ read = [r \in Readers |-> Absent]

-----------------------------------------------------------------------------
(* Startup and teardown, as far as a probe can tell them apart.              *)

\* A startup builds what the last shutdown dropped: a new state, with neither edge.
Startup ==
    /\ \/ phase = "new" /\ UNCHANGED generation
       \/ /\ phase = "down" /\ generation < Generations
          /\ generation' = generation + 1
    /\ phase' = "initializing" /\ at' = 1
    /\ UNCHANGED <<edges, indicators, wired, read>>

\* HealthService._register: one probe has one indicator of a name.
Registered(probe, name, g) ==
    /\ name \notin indicators[g][probe]
    /\ indicators' = [indicators EXCEPT ![g][probe] = @ \union {name}]

\* The next participant, in construction order.
Onwards(last) == IF at = Len(Participants)
                 THEN phase' = last /\ at' = 1
                 ELSE phase' = phase /\ at' = at + 1

\* A stage of startup that a hook fails is undone by tearing down what was built.
HookRaises ==
    /\ phase \in {"initializing", "bootstrapping"}
    /\ Participants[at] # State
    /\ phase' = "tearing_down" /\ at' = Len(Participants)
    /\ UNCHANGED <<generation, edges, indicators, wired, read>>

OnModuleInit ==
    /\ phase = "initializing"
    /\ Onwards("bootstrapping")
    /\ LET name == Wiring[Participants[at]]
       IN  \/ /\ name = Absent
              /\ UNCHANGED <<indicators, wired>>
           \/ /\ name # Absent
              /\ Registered("ready", name, generation)
              /\ wired' = [wired EXCEPT ![generation] = @ \union {name}]
    /\ UNCHANGED <<generation, edges, read>>

\* A name that is taken raises out of the hook that registers it.
InitRefused ==
    /\ phase = "initializing"
    /\ Wiring[Participants[at]] \in indicators[generation].ready
    /\ phase' = "tearing_down" /\ at' = Len(Participants)
    /\ UNCHANGED <<generation, edges, indicators, wired, read>>

OnApplicationBootstrap ==
    /\ phase = "bootstrapping"
    /\ Onwards("running")
    /\ started' = IF Participants[at] = State
                  THEN [started EXCEPT ![generation] = TRUE]
                  ELSE started
    /\ UNCHANGED <<generation, draining, indicators, wired, read>>

Shutdown ==
    /\ phase = "running"
    /\ phase' = "tearing_down" /\ at' = Len(Participants)
    /\ UNCHANGED <<generation, edges, indicators, wired, read>>

\* Teardown visits the participants backwards, whatever a hook raises, and the later
\* stages with the dropping of the instances are the end of the last one's.
BeforeApplicationShutdown ==
    /\ phase = "tearing_down"
    /\ IF at = 1
       THEN phase' = "down" /\ at' = 1
       ELSE phase' = phase /\ at' = at - 1
    /\ draining' = IF Participants[at] = State
                   THEN [draining EXCEPT ![generation] = TRUE]
                   ELSE draining
    /\ UNCHANGED <<generation, started, indicators, wired, read>>

\* Whoever owns the shutdown sequence, or anybody else, withdraws the process: of the
\* state it holds, which may be one that was dropped.
BeginDrain(g) ==
    /\ draining' = [draining EXCEPT ![g] = TRUE]
    /\ UNCHANGED <<lifeVars, started, indicators, wired, read>>

\* An indicator registered by other code than a hook of initialization.
Register(probe, name, g) ==
    /\ Registered(probe, name, g)
    /\ UNCHANGED <<lifeVars, edges, wired, read>>

-----------------------------------------------------------------------------
(* Reading a probe: HealthService._run, ._check and the lifecycle indicator. *)

\* Of a read: the service it asked, the checks it waits for with the time each has
\* left, how long it has taken, and what the edges were when it began.
Begin(r, probe, g) ==
    /\ read[r] = Absent
    /\ g \in Built
    /\ read' = [read EXCEPT ![r] =
          [probe |-> probe, of |-> g, report |-> "pending", age |-> 0,
           checks |-> [n \in indicators[g][probe] |-> "queued"],
           left |-> [n \in indicators[g][probe] |-> CheckTimeout],
           begun |-> [started |-> started[g], draining |-> draining[g]]]]
    /\ UNCHANGED <<lifeVars, edges, indicators, wired>>

\* Checks one after another: the next is asked once all the others have answered.
\* (A mutant of AskedAt.)
AskedInTurn(r, n) ==
    read[r].checks[n] = "queued" /\ \A m \in DOMAIN read[r].checks : read[r].checks[m] # "asked"

\* asyncio.gather: every check is a task of its own.
AskedAt(r, n) == read[r].checks[n] = "queued"

Pending(r) == read[r] # Absent /\ read[r].report = "pending"

\* LifecycleIndicator.check, of the state the read's service was built over.
InRotation(g) == started[g] /\ ~draining[g]

\* A lifecycle check that forgets that the process may be going away.
LifecycleCheckOfTheStart(g) == IF started[g] THEN "up" ELSE "down"

LifecycleCheck(g) == IF InRotation(g) THEN "up" ELSE "down"

\* A check's task runs for the first time. The lifecycle check answers there and then.
Ask(r, n) ==
    /\ Pending(r) /\ n \in DOMAIN read[r].checks
    /\ AskedAt(r, n)
    /\ read' = [read EXCEPT ![r].checks[n] =
                   IF n = Lifecycle /\ read[r].probe = "ready"
                   THEN LifecycleCheck(read[r].of) ELSE "asked"]
    /\ UNCHANGED <<lifeVars, edges, indicators, wired>>

\* An indicator answers, raises, or answers with something that is no result.
Answer(r, n, answer) ==
    /\ Pending(r) /\ n \in DOMAIN read[r].checks
    /\ read[r].checks[n] = "asked"
    /\ read' = [read EXCEPT ![r].checks[n] = IF answer = "up" THEN "up" ELSE "down"]
    /\ UNCHANGED <<lifeVars, edges, indicators, wired>>

\* Its timer ends a check that does not answer.
TimesOut(r, n) ==
    /\ Pending(r) /\ n \in DOMAIN read[r].checks
    /\ read[r].checks[n] = "asked" /\ read[r].left[n] = 0
    /\ read' = [read EXCEPT ![r].checks[n] = "down"]
    /\ UNCHANGED <<lifeVars, edges, indicators, wired>>

\* A cancellation is left to propagate: the reader's own, or one an indicator raises
\* because what it awaited was cancelled. Either ends the read without a report.
Cancelled(r) ==
    /\ Pending(r)
    /\ read' = [read EXCEPT ![r].report = "none"]
    /\ UNCHANGED <<lifeVars, edges, indicators, wired>>

\* The report is up when no check is down.
Report(r) ==
    /\ Pending(r)
    /\ \A n \in DOMAIN read[r].checks : read[r].checks[n] \in {"up", "down"}
    /\ read' = [read EXCEPT ![r].report =
                   IF \E n \in DOMAIN read[r].checks : read[r].checks[n] = "down"
                   THEN "down" ELSE "up"]
    /\ UNCHANGED <<lifeVars, edges, indicators, wired>>

\* A reader has taken its report, and may read again.
Forget(r) ==
    /\ read[r] # Absent /\ ~Pending(r)
    /\ read' = [read EXCEPT ![r] = Absent]
    /\ UNCHANGED <<lifeVars, edges, indicators, wired>>

\* Time passes once the loop has nothing to run: every task has started and every
\* timer that is due has ended its check.
Waiting(r) == {n \in DOMAIN read[r].checks : read[r].checks[n] = "asked"}

TimePasses ==
    /\ \E r \in Readers : Pending(r)
    /\ \A r \in Readers : Pending(r) =>
          /\ \A n \in DOMAIN read[r].checks : ~AskedAt(r, n)
          /\ Waiting(r) # {}
          /\ \A n \in Waiting(r) : read[r].left[n] > 0
    /\ read' = [r \in Readers |->
          IF Pending(r)
          THEN [read[r] EXCEPT !.age = @ + 1,
                   !.left = [n \in DOMAIN @ |-> IF n \in Waiting(r) THEN @[n] - 1 ELSE @[n]]]
          ELSE read[r]]
    /\ UNCHANGED <<lifeVars, edges, indicators, wired>>

Living == \/ Startup \/ HookRaises \/ OnModuleInit \/ InitRefused
          \/ OnApplicationBootstrap \/ Shutdown \/ BeforeApplicationShutdown
          \/ \E g \in Built :
                \/ BeginDrain(g)
                \/ \E probe \in Probes, name \in Indicators : Register(probe, name, g)

Advance(r) == \/ Report(r)
              \/ \E n \in Indicators : Ask(r, n) \/ TimesOut(r, n)

ProbesNext ==
    \/ Living
    \/ \E r \in Readers :
          \/ \E probe \in Probes, g \in Built : Begin(r, probe, g)
          \/ Advance(r)
          \/ \E n \in Indicators, answer \in {"up", "down", "raises", "unusable"} :
                Answer(r, n, answer)
          \/ Cancelled(r) \/ Forget(r)
    \/ TimePasses

ProbesSpec == ProbesInit /\ [][ProbesNext]_probesVars

\* The loop runs what is ready and time passes; no indicator is obliged to answer.
FairProbesSpec == ProbesSpec /\ WF_probesVars(TimePasses) /\ \A r \in Readers : WF_probesVars(Advance(r))

-----------------------------------------------------------------------------
(* Properties.                                                               *)

Reads == {r \in Readers : read[r] # Absent}

\* A readiness report is up only of a process that had started and that nobody had
\* withdrawn when the read began; and one that began after the process started had
\* every indicator checked that the hooks of initialization registered.
UpIsEarned ==
    \A r \in Reads : read[r].report = "up" /\ read[r].probe = "ready" =>
        /\ started[read[r].of]
        /\ ~read[r].begun.draining
        /\ read[r].begun.started => wired[read[r].of] \subseteq DOMAIN read[r].checks

\* However many indicators there are and whichever of them hang, a read takes no longer
\* than one check is given, and ends.
AnsweredInTime ==
    /\ [](\A r \in Reads : read[r].age <= CheckTimeout)
    /\ \A r \in Readers : (r \in Reads) ~> (r \notin Reads \/ ~Pending(r))

\* What the documentation says besides, and the code does not do.

\* docs/how-to/observe-an-application.md:264: down before startup finishes, and down
\* again from the moment the process is asked to stop.
DownUnlessRunning ==
    [][\A r \in Readers :
          Ask(r, Lifecycle) /\ read'[r].checks[Lifecycle] = "up" /\ read[r].probe = "ready"
              => phase = "running"]_probesVars

\* docs/how-to/observe-an-application.md:297: an indicator registered by a hook of
\* initialization is being consulted the first time readiness can be true.
ConsultedFromTheStart ==
    \A r \in Reads : read[r].report = "up" /\ read[r].probe = "ready" =>
        wired[read[r].of] \subseteq DOMAIN read[r].checks
==============================================================================
