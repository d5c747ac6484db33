----------------------------- MODULE InstanceCaches -----------------------------
(***************************************************************************)
(* Who may go on holding an instance: the container's caches, the          *)
(* controllers, and what a route memoizes of its pipeline, across the       *)
(* overrides and the shutdowns that make what they hold stale               *)
(* (kernel/ioc/overrides.py, runtime/controller_factory.py, and the parts  *)
(* of kernel/lifecycle/manager.py and kernel/ioc/ that fill and empty      *)
(* those caches).                                                          *)
(*                                                                         *)
(* An instance is told apart by who built it, in which generation of the   *)
(* container its oldest part was built, and which replacements it was      *)
(* built from.  Callers share one event loop: an action is what happens    *)
(* between two awaits of a resolution.  Module SharedConstruction looks    *)
(* inside the lock: here an instance under construction has one builder,   *)
(* and whoever else asks for it waits.                                     *)
(***************************************************************************)
EXTENDS Integers, SequencesExt, FiniteSetsExt

CONSTANTS
    Requests,       \* tasks that serve one request after the other
    Boot,           \* the caller of startup()
    Singletons,     \* tokens bound for the life of the application
    Fleeting,       \* tokens bound for less: a request's own, transients
    Replaceable,    \* the tokens a test or a bootstrap may override
    Controller,     \* a controller class, a singleton
    Needs,          \* the tokens each token's construction resolves, in order
    Routes,
    Components,     \* the tokens of each route's pipeline, in order
    WarmUp,         \* the singletons in the order startup builds them
    Quiet,          \* overrides are registered while nobody resolves
    Drained,        \* a shutdown comes after the requests have ended
    MaxGeneration,  \* how many shutdowns are looked at
    None

Tokens == Singletons \cup Fleeting
Nodes == Tokens \cup {Controller}
Actors == Requests \cup {Boot}

\* What the caches may hold.
Instances == [of : Nodes, by : Actors \cup {None}, gen : Nat, sees : SUBSET Tokens]

ASSUME GraphAssumption ==
    /\ Boot \notin Requests /\ Controller \notin Tokens /\ None \notin Instances
    /\ Singletons \cap Fleeting = {}
    /\ Replaceable \subseteq Tokens
    /\ Needs \in [Nodes -> Seq(Tokens)]
    /\ Components \in [Routes -> Seq(Tokens)]
    /\ WarmUp \in Seq(Singletons)
    /\ Quiet \in BOOLEAN /\ Drained \in BOOLEAN /\ MaxGeneration \in Nat

VARIABLES
    phase,          \* where the lifecycle is
    shut,           \* Container._shut_down
    started,        \* OverrideManager._started
    generation,     \* Container._instance_generation
    overridden,     \* the tokens a replacement stands for
    cached,         \* ScopeManager._singletons
    controllers,    \* ScopeManager._controller_singletons
    memo,           \* each route's PipelineMemo
    doing,          \* what each actor is about
    route,          \* the route of the request it serves
    got,            \* the instances it has been handed, in order
    settled,        \* whether the next request would be handed the same
    frames,         \* the constructions it is in, innermost last
    shown           \* ghost: what requests were handed since anything was last dropped

containerVars == <<phase, shut, started, generation, overridden>>
cacheVars == <<cached, controllers, memo>>
actorVars == <<doing, route, got, settled, frames>>
vars == <<containerVars, cacheVars, actorVars, shown>>

EmptyTable == [t \in {} |-> None]
EmptyMemo == [gen |-> 0, entries |-> EmptyTable, whole |-> None]

-----------------------------------------------------------------------------
(* Instances.                                                                *)

Instance(t, by, gen, sees) == [of |-> t, by |-> by, gen |-> gen, sees |-> sees]
Replacement(t) == Instance(t, None, generation, {t})

\* What a construction has been given so far.
Frame(t) == [of |-> t, todo |-> Needs[t], gen |-> generation, sees |-> {}]

Given(f, i) ==
    [f EXCEPT !.todo = Tail(@), !.gen = Min({@, i.gen}), !.sees = @ \cup i.sees]

\* Everything a token is built from, itself included, when nothing is built from what
\* stands for the tokens in cut: the least set that holds it and is closed under Needs.
Closed(s, cut) == \A u \in s \ cut : Range(Needs[u]) \subseteq s
Reach(t, cut) ==
    {u \in Nodes : \A s \in SUBSET Nodes : t \in s /\ Closed(s, cut) => u \in s}

\* _binding_with_dependents: the binding and all that reach it, however indirectly.
ReachedBy(x) == {t \in Tokens : x \in Reach(t, {})}

Active(a) == doing[a] # "idle"
Building(t) == \E a \in Actors : \E n \in DOMAIN frames[a] : frames[a][n].of = t
Top(a) == Last(frames[a])

\* The token an actor asks for next.
Todo(a) ==
    CASE doing[a] = "warming" -> WarmUp
      [] doing[a] = "pipeline" -> Components[route[a]]
      [] doing[a] = "controller" -> Append(Components[route[a]], Controller)
      [] OTHER -> <<>>
Asked(a) == IF frames[a] = <<>> THEN Todo(a)[Len(got[a]) + 1] ELSE Head(Top(a).todo)
Asking(a) == IF frames[a] = <<>> THEN Len(got[a]) < Len(Todo(a)) ELSE Top(a).todo # <<>>

-----------------------------------------------------------------------------
(* PipelineMemo.                                                             *)

\* The memo that outlives the container's instances.
FollowedNever(m) == m

\* _follow: a memo filled in another generation is emptied.
Followed(m) ==
    IF m.gen = generation THEN m ELSE [EmptyMemo EXCEPT !.gen = generation]

\* ControllerFactory._settled.
Settled(t) == started /\ t \in Singletons

Extended(table, t, i) == [u \in DOMAIN table \cup {t} |-> IF u = t THEN i ELSE table[u]]

\* The pipeline after one more component: kept alone when it is settled, and the whole of
\* it when every component was.
Remembered(a, i, fresh) ==
    LET m == Followed(memo[route[a]])
        kept == IF fresh /\ Settled(i.of)
                THEN [m EXCEPT !.entries = Extended(@, i.of, i)] ELSE m
        all == settled[a] /\ (fresh => Settled(i.of))
        ends == Len(got[a]) + 1 = Len(Components[route[a]])
    IN  /\ settled' = [settled EXCEPT ![a] = all]
        /\ memo' = [memo EXCEPT ![route[a]] =
                       IF ends /\ all THEN [kept EXCEPT !.whole = Append(got[a], i)] ELSE kept]

-----------------------------------------------------------------------------
(* Resolution.                                                               *)

\* An instance reaches the actor outside of every construction.
HandOver(a, i, fresh) ==
    /\ got' = [got EXCEPT ![a] = Append(@, i)]
    /\ CASE doing[a] = "warming" -> UNCHANGED <<doing, settled, memo, shown>>
         [] doing[a] = "pipeline" ->
               /\ Remembered(a, i, fresh)
               /\ doing' = [doing EXCEPT ![a] =
                     IF Len(got[a]) + 1 = Len(Components[route[a]]) THEN "controller" ELSE @]
               /\ UNCHANGED shown
         [] OTHER ->
               /\ doing' = [doing EXCEPT ![a] = "ready"]
               /\ shown' = shown \cup Range(got'[a])
               /\ UNCHANGED <<settled, memo>>

\* The machine's answer goes to the construction that asked, or to the actor.
Deliver(a, i, left) ==
    IF left = <<>>
    THEN HandOver(a, i, TRUE) /\ frames' = [frames EXCEPT ![a] = <<>>]
    ELSE /\ frames' = [frames EXCEPT ![a] = Append(Front(left), Given(Last(left), i))]
         /\ UNCHANGED <<got, doing, settled, memo, shown>>

\* The facade's refusal: only the caller of resolve() is refused, a construction that is
\* under way asks the kernel.
Refused(a) == shut /\ frames[a] = <<>>

\* _resolve_components_async: a component the route has kept.
TakeKept(a) ==
    /\ doing[a] = "pipeline" /\ Asking(a) /\ frames[a] = <<>>
    /\ LET m == Followed(memo[route[a]]) IN
          /\ Asked(a) \in DOMAIN m.entries
          /\ HandOver(a, m.entries[Asked(a)], FALSE)
    /\ UNCHANGED <<containerVars, cached, controllers, route, frames>>

KeptByRoute(a) ==
    /\ doing[a] = "pipeline" /\ frames[a] = <<>>
    /\ Asked(a) \in DOMAIN Followed(memo[route[a]]).entries

\* What is there without building: a replacement before anything cached.
Found(t) ==
    IF t \in overridden THEN Replacement(t)
    ELSE IF t \in DOMAIN cached THEN cached[t]
    ELSE IF t \in DOMAIN controllers THEN controllers[t] ELSE None

\* _resolve_steps: a token answered by an override or from a cache.
TakeFound(a) ==
    /\ Active(a) /\ Asking(a) /\ ~KeptByRoute(a)
    /\ Refused(a) => Asked(a) = Controller
    /\ Found(Asked(a)) # None
    /\ Deliver(a, Found(Asked(a)), frames[a])
    /\ UNCHANGED <<containerVars, cached, controllers, route>>

\* A controller built without the lock its synchronous construction takes.
BeginUnlocked(a) ==
    /\ Active(a) /\ Asking(a) /\ ~KeptByRoute(a) /\ ~Refused(a)
    /\ Found(Asked(a)) = None
    /\ Asked(a) \in Singletons => ~Building(Asked(a))
    /\ frames' = [frames EXCEPT ![a] = Append(@, Frame(Asked(a)))]
    /\ UNCHANGED <<containerVars, cacheVars, doing, route, got, settled, shown>>

\* A token nobody has built: its construction begins, one at a time when it is shared.
Begin(a) ==
    /\ Active(a) /\ Asking(a) /\ ~KeptByRoute(a) /\ ~Refused(a)
    /\ Found(Asked(a)) = None
    /\ Asked(a) \in Fleeting \/ ~Building(Asked(a))
    /\ frames' = [frames EXCEPT ![a] = Append(@, Frame(Asked(a)))]
    /\ UNCHANGED <<containerVars, cacheVars, doing, route, got, settled, shown>>

\* _cached_construction and instantiate_async: a provider's slot is checked and set, a
\* controller's is set.
Build(a) ==
    /\ frames[a] # <<>> /\ Top(a).todo = <<>>
    /\ LET f == Top(a)
           new == Instance(f.of, a, f.gen, f.sees)
           kept == IF f.of \in DOMAIN cached THEN cached[f.of] ELSE new
       IN  /\ cached' = IF f.of \in Singletons THEN Extended(cached, f.of, kept) ELSE cached
           /\ controllers' = IF f.of = Controller THEN Extended(controllers, f.of, new)
                             ELSE controllers
           /\ Deliver(a, kept, Front(frames[a]))
    /\ UNCHANGED <<containerVars, route>>

-----------------------------------------------------------------------------
(* Requests.                                                                 *)

Idle(a) ==
    /\ doing' = [doing EXCEPT ![a] = "idle"]
    /\ got' = [got EXCEPT ![a] = <<>>]
    /\ frames' = [frames EXCEPT ![a] = <<>>]

\* resolve_pipeline_async begins: a pipeline kept whole is served as it is.
Arrive(r) == \E p \in Routes :
    LET m == Followed(memo[p]) IN
    /\ ~Active(r)
    /\ route' = [route EXCEPT ![r] = p]
    /\ memo' = [memo EXCEPT ![p] = m]
    /\ settled' = [settled EXCEPT ![r] = TRUE]
    /\ got' = [got EXCEPT ![r] = IF m.whole = None THEN <<>> ELSE m.whole]
    /\ doing' = [doing EXCEPT ![r] = IF m.whole = None /\ Components[p] # <<>>
                                     THEN "pipeline" ELSE "controller"]
    /\ UNCHANGED <<containerVars, cached, controllers, frames, shown>>

\* The request asked a container that has shut down.
Fail(r) ==
    /\ Active(r) /\ Asking(r) /\ ~KeptByRoute(r) /\ Refused(r)
    /\ Asked(r) = Controller => Found(Controller) = None
    /\ Idle(r)
    /\ UNCHANGED <<containerVars, cacheVars, route, settled, shown>>

Finish(r) ==
    /\ doing[r] = "ready"
    /\ Idle(r)
    /\ UNCHANGED <<containerVars, cacheVars, route, settled, shown>>

-----------------------------------------------------------------------------
(* Startup and shutdown.                                                     *)

StartupBegins ==
    /\ phase \in {"new", "stopped"}
    /\ phase' = "starting" /\ shut' = FALSE
    /\ doing' = [doing EXCEPT ![Boot] = "warming"]
    /\ UNCHANGED <<started, generation, overridden, cacheVars, route, got, settled, frames, shown>>

\* The warm-up and the startup hooks have run.
StartupEnds ==
    /\ phase = "starting" /\ Len(got[Boot]) = Len(WarmUp)
    /\ phase' = "started" /\ started' = TRUE
    /\ Idle(Boot)
    /\ UNCHANGED <<shut, generation, overridden, cacheVars, route, settled, shown>>

\* LifecycleManager._forget_instances.
Forgotten ==
    /\ cached' = EmptyTable /\ controllers' = EmptyTable
    /\ shut' = TRUE /\ started' = FALSE
    /\ generation' = generation + 1
    /\ shown' = {}

\* A hook or a construction of the startup failed and what it built is torn down, or the
\* application is shut down.
Stop ==
    /\ phase \in {"starting", "started"} /\ generation < MaxGeneration
    /\ Drained => \A r \in Requests : ~Active(r)
    /\ phase' = "stopped"
    /\ Forgotten
    /\ Idle(Boot)
    /\ UNCHANGED <<overridden, memo, route, settled>>

-----------------------------------------------------------------------------
(* Overrides.                                                                *)

\* _evict_reach: what the binding reaches, and every controller.
Evict(x) ==
    /\ cached' = [t \in DOMAIN cached \ ReachedBy(x) |-> cached[t]]
    /\ controllers' = EmptyTable

MayOverride == ~started /\ (Quiet => \A a \in Actors : ~Active(a))

\* override(): evicts, and seats the replacement of a singleton as that singleton.
Override(x) ==
    LET left == [t \in DOMAIN cached \ ReachedBy(x) |-> cached[t]] IN
    /\ MayOverride /\ x \notin overridden
    /\ overridden' = overridden \cup {x}
    /\ cached' = IF x \in Singletons THEN Extended(left, x, Replacement(x)) ELSE left
    /\ controllers' = EmptyTable
    /\ shown' = {}
    /\ UNCHANGED <<phase, shut, started, generation, memo, actorVars>>

\* clear_override().
ClearOverride(x) ==
    /\ MayOverride /\ x \in overridden
    /\ overridden' = overridden \ {x}
    /\ Evict(x)
    /\ shown' = {}
    /\ UNCHANGED <<phase, shut, started, generation, memo, actorVars>>

-----------------------------------------------------------------------------

Init ==
    /\ phase = "new" /\ shut = FALSE /\ started = FALSE /\ generation = 0
    /\ overridden = {}
    /\ cached = EmptyTable /\ controllers = EmptyTable
    /\ memo = [p \in Routes |-> EmptyMemo]
    /\ doing = [a \in Actors |-> "idle"]
    /\ route = [a \in Actors |-> CHOOSE p \in Routes : TRUE]
    /\ got = [a \in Actors |-> <<>>]
    /\ settled = [a \in Actors |-> TRUE]
    /\ frames = [a \in Actors |-> <<>>]
    /\ shown = {}

Resolves(a) == TakeKept(a) \/ TakeFound(a) \/ Begin(a) \/ Build(a)

Next ==
    \/ \E a \in Actors : Resolves(a)
    \/ \E r \in Requests : Arrive(r) \/ Fail(r) \/ Finish(r)
    \/ StartupBegins \/ StartupEnds \/ Stop
    \/ \E x \in Replaceable : Override(x) \/ ClearOverride(x)

Spec == Init /\ [][Next]_vars

-----------------------------------------------------------------------------
(* Properties.                                                               *)

\* PipelineMemo, _evict_reach: whatever a request was handed was built since the last
\* shutdown, parts and all, and from exactly the replacements that stand for something
\* it is built from.  A stale guard or controller would go on serving what a shutdown
\* destroyed, or the provider an override took the place of.
Fresh(i) == i.gen = generation /\ i.sees = overridden \cap Reach(i.of, overridden)

ServedFresh == \A r \in Requests : \A n \in DOMAIN got[r] : Fresh(got[r][n])

\* instantiate_async, InstanceCache.keep: until something is dropped every request is
\* handed the same controller and the same singletons, memoized or not.
OneInstance ==
    \A i, j \in shown : i.of = j.of /\ i.of \notin Fleeting => i = j

\* OverrideManager.override: "A replacement for a singleton binding becomes that singleton,
\* because the lifecycle runs its hooks over the instances the container holds and a
\* replacement held nowhere would be initialized by nobody" (overrides.py:85-87).
ReplacementsAreHeld == started => overridden \cap Singletons \subseteq DOMAIN cached

\* PipelineMemo: what is kept "is dropped rather than served once either has moved on"
\* (controller_factory.py:54-57): a memo of this generation holds nothing built before it.
MemoFollows ==
    \A p \in Routes : memo[p].gen = generation =>
        \A t \in DOMAIN memo[p].entries : memo[p].entries[t].gen = generation
==============================================================================
