------------------------------ MODULE Lifecycle ------------------------------
(***************************************************************************)
(* Starting and stopping an application: LifecycleManager and the stages   *)
(* it runs (kernel/lifecycle/{manager,runner}.py), the server lifespan and *)
(* close() that call it (app/{lifespan,application}.py), and what it tells *)
(* the container (kernel/ioc/{container,overrides}.py).                    *)
(*                                                                         *)
(* Drivers are tasks of one event loop.  A lifespan starts the application,*)
(* serves, and shuts it down; a closer calls close().  A resolver is a     *)
(* request resolving a durable provider.  The loop switches between them   *)
(* at awaits: while an instance is built and while a hook runs.            *)
(*                                                                         *)
(* A provider stands for the one slot its instance is kept in: a singleton *)
(* for its binding, a durable one for one partition of its binding.  Every *)
(* hook may fail, and one a class does not declare is one that does        *)
(* nothing.  The durable store's limit is not reached here.                *)
(***************************************************************************)
EXTENDS Integers, Sequences, SequencesExt

CONSTANTS
    Lifespans,   \* servings of the application, one at a time
    Closers,     \* calls of close() nobody orders with the lifespans
    Resolvers,   \* requests that resolve a durable provider
    Providers,
    Durable,     \* the durable ones; the others are singletons
    Deps,        \* what each provider's constructor asks for, in order
    Warmed,      \* what warm_up_providers builds, in the order of the graph
    Modules,     \* the modules with hooks, root first
    Drained,     \* BOOLEAN: does a shutdown wait for the requests in flight?
    None

Drivers == Lifespans \union Closers
Actors == Drivers \union Resolvers

Startups == {"on_module_init", "on_application_bootstrap"}
Teardowns == {"before_application_shutdown", "on_application_shutdown", "on_module_destroy"}
Stages == Startups \union Teardowns

ASSUME ProvidersAssumption ==
    /\ Durable \subseteq Providers
    /\ Deps \in [Providers -> Seq(Providers)]
    /\ Warmed \in Seq(Providers)
    /\ Providers \ Durable \subseteq ToSet(Warmed)
    /\ Modules # <<>> /\ Modules \in Seq(ToSet(Modules)) /\ IsInjective(Modules)
    /\ ToSet(Modules) \intersect Providers = {}
    /\ Drivers \intersect Resolvers = {}
    /\ None \notin Providers \union Stages
    /\ Drained \in BOOLEAN

Participants == Providers \union ToSet(Modules)

VARIABLES
    initialized,  \* LifecycleState.initialized
    shut,         \* Container._shut_down, and LifecycleState.closed with it
    overridable,  \* whether OverrideManager still takes an override
    singletons,   \* the singleton cache's keys, in insertion order
    durables,     \* the durable store's keys, least recently used first
    runs,         \* how often each hook ran on a participant's instance
    pc,           \* where each actor is
    work,         \* the resolution each actor is in: a stack of frames
    stage,        \* the lifecycle stage each driver is in,
    todo,         \* the participants it has left in it, the hook of the
                  \* first one running,
    half          \* and whether those are its modules or its providers

cacheVars == <<singletons, durables>>
stateVars == <<initialized, shut, overridable>>
stageVars == <<stage, todo, half>>
vars == <<stateVars, cacheVars, runs, pc, work, stageVars>>

Cached == ToSet(singletons) \union ToSet(durables)
NeverRun == [s \in Stages |-> 0]

-----------------------------------------------------------------------------
(* Resolution, as the kernel drives it: depth first, a frame per provider    *)
(* under construction, the innermost first.                                  *)

Frame(made, needed) == [makes |-> made, needs |-> needed]

\* A cached instance is read, or a new one kept: a singleton stays where it was
\* first kept, a durable one moves to the end of its store.
Use(p) ==
    IF p \in Durable
    THEN durables' = Append(RemoveFirst(durables, p), p) /\ UNCHANGED singletons
    ELSE /\ singletons' = IF p \in ToSet(singletons) THEN singletons ELSE Append(singletons, p)
         /\ UNCHANGED durables

\* The construction lock of a provider is held while it is on a stack.
UnderConstruction(p) ==
    \E a \in Actors : \E i \in DOMAIN work[a] : work[a][i].makes = p

Resolving(a) == work[a] # <<>>
AtRoot(a) == Len(work[a]) = 1

\* Container.resolve_async refuses between a shutdown and the next startup, when
\* it is entered: what it resolves on the way is not asked again.
Refusing(a) == AtRoot(a) /\ shut

Needing(a, q) ==
    /\ Resolving(a)
    /\ ~Refusing(a)
    /\ LET top == Head(work[a]) IN top.needs # <<>> /\ Head(top.needs) = q

\* The innermost frame, less the dependency it has been answered.
Answered(a) == <<Frame(Head(work[a]).makes, Tail(Head(work[a]).needs))>> \o Tail(work[a])

ReadCached(a, q) ==
    /\ Needing(a, q)
    /\ q \in Cached
    /\ Use(q)
    /\ work' = [work EXCEPT ![a] = Answered(a)]
    /\ UNCHANGED <<stateVars, runs, pc, stageVars>>

Construct(a, q) ==
    /\ Needing(a, q)
    /\ q \notin Cached
    /\ ~UnderConstruction(q)
    /\ work' = [work EXCEPT ![a] = <<Frame(q, Deps[q])>> \o Answered(a)]
    /\ UNCHANGED <<stateVars, cacheVars, runs, pc, stageVars>>

Built(a) ==
    /\ Resolving(a)
    /\ ~AtRoot(a)
    /\ LET top == Head(work[a])
       IN  /\ top.needs = <<>>
           /\ Use(top.makes)
           /\ runs' = [runs EXCEPT ![top.makes] = NeverRun]
    /\ work' = [work EXCEPT ![a] = Tail(@)]
    /\ UNCHANGED <<stateVars, pc, stageVars>>

\* A request asks for a provider, while the container answers and, where the
\* adapter drains, while the application is serving.
Request(r, p) ==
    /\ pc[r] = "idle"
    /\ Drained => \E d \in Lifespans : pc[d] = "serving"
    /\ Drained => \A d \in Drivers : pc[d] # "stop"
    /\ pc' = [pc EXCEPT ![r] = "resolving"]
    /\ work' = [work EXCEPT ![r] = <<Frame(None, <<p>>)>>]
    /\ UNCHANGED <<stateVars, cacheVars, runs, stageVars>>

\* The request has its instance, or the resolution raised.
RequestEnds(r) ==
    /\ pc[r] = "resolving"
    /\ \/ AtRoot(r) /\ (Head(work[r]).needs = <<>> \/ shut)
       \/ ~AtRoot(r)
    /\ pc' = [pc EXCEPT ![r] = "ended"]
    /\ work' = [work EXCEPT ![r] = <<>>]
    /\ UNCHANGED <<stateVars, cacheVars, runs, stageVars>>

-----------------------------------------------------------------------------
(* Stages: the modules' hooks, then the providers' over the instances the    *)
(* container has at that moment; in reverse when tearing down.               *)

ModulesOf(s) == IF s \in Startups THEN Modules ELSE Reverse(Modules)

\* A teardown that visits the instances in the order of a startup.
InstancesForward(s) == singletons \o durables

\* constructed_instances, in the order one stage visits them.
InstancesOf(s) ==
    IF s \in Startups THEN singletons \o durables ELSE Reverse(singletons \o durables)

EnterStage(d, s) ==
    /\ stage' = [stage EXCEPT ![d] = s]
    /\ half' = [half EXCEPT ![d] = "modules"]
    /\ todo' = [todo EXCEPT ![d] = ModulesOf(s)]

LeaveStages(d) ==
    /\ stage' = [stage EXCEPT ![d] = None]
    /\ half' = [half EXCEPT ![d] = None]
    /\ todo' = [todo EXCEPT ![d] = <<>>]

\* What follows a stage of a startup or of a teardown, None when it was the last.
Following(s) ==
    CASE s = "on_module_init" -> "on_application_bootstrap"
      [] s = "before_application_shutdown" -> "on_application_shutdown"
      [] s = "on_application_shutdown" -> "on_module_destroy"
      [] OTHER -> None

\* The hook a driver is in returns or raises; a third run counts as the second.
HookEnds(d) ==
    /\ pc[d] \in {"start", "undo", "stop"}
    /\ runs' = [runs EXCEPT ![Head(todo[d])][stage[d]] = IF @ = 2 THEN 2 ELSE @ + 1]
    /\ UNCHANGED work

MoreToDo(d) == Len(todo[d]) > 1

\* Nobody is left in the stage of the hook that ends.
StageEnds(d) ==
    /\ ~MoreToDo(d)
    /\ half[d] = "providers" \/ InstancesOf(stage[d]) = <<>>

\* The next hook of the same stage.
NextHook(d) ==
    /\ HookEnds(d)
    /\ ~StageEnds(d)
    /\ IF MoreToDo(d)
       THEN /\ todo' = [todo EXCEPT ![d] = Tail(@)]
            /\ UNCHANGED half
       ELSE /\ todo' = [todo EXCEPT ![d] = InstancesOf(stage[d])]
            /\ half' = [half EXCEPT ![d] = "providers"]
    /\ UNCHANGED <<stateVars, cacheVars, pc, stage>>

NextStage(d) ==
    /\ HookEnds(d)
    /\ StageEnds(d)
    /\ Following(stage[d]) # None
    /\ EnterStage(d, Following(stage[d]))
    /\ UNCHANGED <<stateVars, cacheVars, pc>>

-----------------------------------------------------------------------------
(* LifecycleManager.startup, .shutdown, ._tear_down and ._forget_instances.  *)

MayEnter(d) ==
    /\ d \in Lifespans /\ pc[d] = "idle"
    /\ \A e \in Lifespans : pc[e] \in {"idle", "ended"}

\* A startup that keeps the module instances of the cycle before.
BeginReusing(d) ==
    /\ MayEnter(d)
    /\ ~initialized
    /\ shut' = FALSE
    /\ pc' = [pc EXCEPT ![d] = "warm"]
    /\ work' = [work EXCEPT ![d] = <<Frame(None, Warmed)>>]
    /\ UNCHANGED <<initialized, overridable, cacheVars, runs, stageVars>>

\* startup, up to its first await: fresh module instances, resolution allowed.
Begin(d) ==
    /\ MayEnter(d)
    /\ ~initialized
    /\ shut' = FALSE
    /\ runs' = [x \in Participants |-> IF x \in ToSet(Modules) THEN NeverRun ELSE runs[x]]
    /\ pc' = [pc EXCEPT ![d] = "warm"]
    /\ work' = [work EXCEPT ![d] = <<Frame(None, Warmed)>>]
    /\ UNCHANGED <<initialized, overridable, cacheVars, stageVars>>

\* An application that is already started is served as it is; a module that cannot
\* be built stops a startup that has opened nothing.
BeginNothing(d) ==
    /\ MayEnter(d)
    /\ pc' = [pc EXCEPT ![d] = IF initialized THEN "serving" ELSE "ended"]
    /\ UNCHANGED <<stateVars, cacheVars, runs, work, stageVars>>

\* Every eager provider is built, and the first hook is called.
WarmedUp(d) ==
    /\ pc[d] = "warm"
    /\ AtRoot(d) /\ Head(work[d]).needs = <<>>
    /\ work' = [work EXCEPT ![d] = <<>>]
    /\ pc' = [pc EXCEPT ![d] = "start"]
    /\ EnterStage(d, "on_module_init")
    /\ UNCHANGED <<stateVars, cacheVars, runs>>

\* A provider that cannot be built, or is refused, ends the warm-up.
WarmUpFails(d) ==
    /\ pc[d] = "warm"
    /\ ~AtRoot(d) \/ (Refusing(d) /\ Head(work[d]).needs # <<>>)
    /\ work' = [work EXCEPT ![d] = <<>>]
    /\ UNCHANGED runs

StartupHookFails(d) == pc[d] = "start" /\ HookEnds(d)

\* A startup that fails and is reported without being undone.
UndoForgotten(d) ==
    /\ WarmUpFails(d) \/ StartupHookFails(d)
    /\ pc' = [pc EXCEPT ![d] = "leaving"]
    /\ singletons' = <<>> /\ durables' = <<>>
    /\ shut' = TRUE
    /\ UNCHANGED <<initialized, overridable, stageVars>>

\* What a failed startup has built is torn down, every instance it finds.
Undo(d) ==
    /\ WarmUpFails(d) \/ StartupHookFails(d)
    /\ pc' = [pc EXCEPT ![d] = "undo"]
    /\ EnterStage(d, "before_application_shutdown")
    /\ UNCHANGED <<stateVars, cacheVars>>

Ready(d) ==
    /\ pc[d] = "start"
    /\ HookEnds(d)
    /\ StageEnds(d)
    /\ Following(stage[d]) = None
    /\ initialized' = TRUE
    /\ overridable' = FALSE
    /\ pc' = [pc EXCEPT ![d] = "serving"]
    /\ LeaveStages(d)
    /\ UNCHANGED <<shut, cacheVars>>

\* The server stops serving, or close() is called: shutdown, up to its first await.
\* There is nothing to do unless a startup has completed.
Leave(d) ==
    /\ pc[d] \in {"serving", "leaving"} \/ (d \in Closers /\ pc[d] = "idle")
    /\ Drained => \A r \in Resolvers : pc[r] # "resolving"
    /\ IF initialized
       THEN /\ pc' = [pc EXCEPT ![d] = "stop"]
            /\ EnterStage(d, "before_application_shutdown")
       ELSE /\ pc' = [pc EXCEPT ![d] = "ended"]
            /\ UNCHANGED stageVars
    /\ UNCHANGED <<stateVars, cacheVars, runs, work>>

\* A teardown that drops the singletons and leaves the durable instances cached.
ForgetSingletons ==
    /\ singletons' = <<>>
    /\ shut' = TRUE /\ overridable' = TRUE /\ initialized' = FALSE
    /\ UNCHANGED durables

ForgetInstances ==
    /\ singletons' = <<>> /\ durables' = <<>>
    /\ shut' = TRUE /\ overridable' = TRUE /\ initialized' = FALSE

\* A teardown whose last hook may escape, and leave the application as it was.
TornDownRaises(d) ==
    /\ pc[d] \in {"undo", "stop"}
    /\ HookEnds(d)
    /\ StageEnds(d)
    /\ Following(stage[d]) = None
    /\ ForgetInstances \/ UNCHANGED <<stateVars, cacheVars>>
    /\ pc' = [pc EXCEPT ![d] = IF pc[d] = "undo" THEN "leaving" ELSE "ended"]
    /\ LeaveStages(d)

\* The last hook of a teardown; a failed startup is raised from here, and its
\* lifespan goes on to call shutdown.
TornDown(d) ==
    /\ pc[d] \in {"undo", "stop"}
    /\ HookEnds(d)
    /\ StageEnds(d)
    /\ Following(stage[d]) = None
    /\ ForgetInstances
    /\ pc' = [pc EXCEPT ![d] = IF pc[d] = "undo" THEN "leaving" ELSE "ended"]
    /\ LeaveStages(d)

\* A cancellation is no Exception: it unwinds startup and shutdown undone.
Cancel(d) ==
    /\ \/ pc[d] = "warm" /\ UNCHANGED runs /\ work' = [work EXCEPT ![d] = <<>>]
       \/ HookEnds(d)
    /\ pc' = [pc EXCEPT ![d] = IF pc[d] = "stop" THEN "ended" ELSE "leaving"]
    /\ LeaveStages(d)
    /\ UNCHANGED <<stateVars, cacheVars>>

-----------------------------------------------------------------------------
Init ==
    /\ initialized = FALSE /\ shut = FALSE /\ overridable = TRUE
    /\ singletons = <<>> /\ durables = <<>>
    /\ runs = [x \in Participants |-> NeverRun]
    /\ pc = [a \in Actors |-> "idle"]
    /\ work = [a \in Actors |-> <<>>]
    /\ stage = [d \in Drivers |-> None]
    /\ half = [d \in Drivers |-> None]
    /\ todo = [d \in Drivers |-> <<>>]

Resolve(a) == Built(a) \/ \E q \in Providers : ReadCached(a, q) \/ Construct(a, q)

\* The steps of a driver in the middle of starting or stopping the application.
Proceed(d) ==
    \/ Resolve(d) \/ WarmedUp(d) \/ Undo(d) \/ Ready(d)
    \/ NextHook(d) \/ NextStage(d) \/ TornDown(d)

AllEnded == /\ \A d \in Drivers : pc[d] = "ended"
            /\ \A r \in Resolvers : pc[r] # "resolving"
            /\ UNCHANGED vars

Next ==
    \/ \E d \in Drivers : Begin(d) \/ BeginNothing(d) \/ Proceed(d) \/ Leave(d)
    \/ \E r \in Resolvers : Resolve(r) \/ RequestEnds(r) \/ \E p \in Durable : Request(r, p)
    \/ AllEnded

Spec == Init /\ [][Next]_vars

\* The same, in a process whose tasks are cancelled.
CancellingSpec == Init /\ [][Next \/ \E d \in Drivers : Cancel(d)]_vars

\* What is being built is built or raises, and a hook that is called ends; nobody
\* is obliged to start the application or to stop it.
FairSpec ==
    /\ Spec
    /\ \A d \in Drivers : WF_vars(Proceed(d))
    /\ \A r \in Resolvers : WF_vars(Resolve(r) \/ RequestEnds(r))

-----------------------------------------------------------------------------
(* Properties.                                                               *)

Ran(x, s) == runs[x][s] > 0

\* No hook runs twice on one instance, over failures, restarts and the requests that
\* build instances meanwhile; and once an application has started, both startup hooks
\* have run on every provider it was to build before the first request.
HooksRunOnce ==
    /\ \A x \in Participants, s \in Stages : runs[x][s] <= 1
    /\ initialized =>
          \A p \in ToSet(Warmed) : p \in Cached /\ \A s \in Startups : Ran(p, s)

\* What is initialized has its dependencies initialized before it, and what is torn
\* down is torn down after all that depends on it, in every stage.
InOrder(p, q) ==
    q \in ToSet(Deps[p]) /\ p \in Cached =>
        /\ \A s \in Startups : Ran(p, s) => Ran(q, s)
        /\ \A s \in Teardowns : Ran(q, s) => Ran(p, s)

\* The order among instances that depend on a singleton.
SingletonsOutliveDependents == \A p \in Providers, q \in Providers \ Durable : InOrder(p, q)

\* The order among the durable instances, which the reference promises alike.
DurablesOutliveDependents == \A p \in Providers, q \in Durable : InOrder(p, q)

\* No instance is dropped before every teardown hook has run on it.
NothingDroppedAlive ==
    [][\A p \in Cached \ Cached' : \A s \in Teardowns : runs'[p][s] > 0]_vars

\* Seen from outside the application starts, runs, stops and starts again, empty.
Phase ==
    IF \E d \in Drivers : pc[d] \in {"undo", "stop"} THEN "stopping"
    ELSE IF \E d \in Drivers : pc[d] \in {"warm", "start"} THEN "starting"
    ELSE IF initialized THEN "running" ELSE "stopped"

Cycle == INSTANCE ApplicationCycle WITH phase <- Phase, alive <- Cached
ImplementsCycle == Cycle!Spec

\* A teardown that begins, for whatever reason, ends with the application shut.
TeardownEnds == \A d \in Drivers : pc[d] \in {"undo", "stop"} ~> shut

\* A lifespan that has ended leaves nothing a startup hook has run on: what a startup
\* opened before it stopped part-way is released.
EndedLifespanReleases ==
    (\A d \in Drivers : pc[d] \in {"idle", "ended"}) =>
        \A p \in Cached, s \in Startups : ~Ran(p, s)
==============================================================================
