# A formal model of bustan

bustan is a Python framework for ASGI applications built from modules: classes declare
the providers they need, a container builds them, a lifecycle starts and stops what was
built, and adapters serve requests through it. This directory models the parts of it
where several callers, loops, threads and failures meet, and the algorithms that decide
what an application is before it serves: TLA+ modules, the TLC configurations that check
them on small instances, and theorems the TLA+ proof system checks for every instance.

Paths below are relative to `src/src/bustan/`.

## Inventory

| Component | State it keeps | Operations | Hard because |
| --- | --- | --- | --- |
| Resolution kernel (`kernel/ioc/runtime/kernel.py`, `locks.py`, `steps.py`; locks and caches in `kernel/ioc/scopes.py`) | the instance caches, two tables of construction locks | resolve, from a thread or a task | threads and event loops build one instance; cancellation; failure half-way; eviction meanwhile |
| Lifecycle (`kernel/lifecycle`, `app/lifespan.py`) | started or not, module instances | startup, shutdown, their five stages of hooks | any hook fails; restart; requests build instances meanwhile; overlapping and cancelled calls |
| Container (`kernel/ioc/container.py`) | shut down or not, generation of instances | resolve, instantiate, call | must refuse after a shutdown |
| Durable store (`BoundedInstanceStore`, `runtime/execution.py`) | a bounded table in order of use | read, write, evict | eviction while in use, partitions of refused requests |
| Overrides (`kernel/ioc/overrides.py`) | replacements, and whether they are still taken | override, clear, evict what either reaches | caches hold what was built from what is replaced |
| Controller factory (`runtime/controller_factory.py`) | memo of pipeline components, controllers | resolve, keep | what is kept outlives what it was built from |
| Module graph, registry (`kernel/module`, `kernel/ioc/registry.py`) | modules, exports, bindings | expand, normalize, discover, publish, look up | overlays, slots of several components, cycles, diamonds, order, collisions |
| Route compiler (`runtime/compiler.py`, `pipeline/metadata.py`) | none | merge what three levels declare, refuse | a guard or a requirement lost between levels |
| Scope and container plan (`kernel/ioc/planning`) | lifetimes of providers | solve, refuse | a fixpoint over a graph with cycles |
| Routing and versioning (`runtime/scanner.py`, `registry.py`, `routing.py`, `adapter.py`; `adapters/asgi/routing.py`) | the plan, the router's table | compile, register, resolve | three orders (declaration, version, table) that must agree |
| Request execution (`runtime/execution.py`, `pipeline`, `observability`) | one request's stages, deadlines, limiter, observation | run a route, render a failure | a timeout or a failure at any stage, and while rendering one; threads that outlive their request |
| Parameter binding (`runtime/params.py`) | none | compile a signature, bind, read or check a value | one source for each parameter, whatever the request repeats elsewhere; types that nest, and all that is wrong in one answer |
| Security policies (`security/policy.py`, `pipeline/guards.py`) | recorded results | guard, replay, record | who a result may be replayed to, expiry and the limit of the store |
| Throttler (`security/throttler.py`) | windows of timestamps, by caller | count a request | proxies, boundaries, eviction |
| Starlette adapter (`adapters/starlette`) | drain gate, server | serve, stop, drain | signal, requests, drain timeout and teardown race |
| Raw ASGI adapter (`adapters/asgi`) | lifespan conversation, event to stop, connections | serve, stop | failing startups and binds, cancellation, receive sides left open |
| Health (`health`) | indicators, the two edges of readiness | register, withdraw, read a probe | a read spans steps of the lifecycle; indicators hang, raise, are cancelled |
| OpenAPI, configuration, CORS, command line, testing | little or none | pure conversions | not concurrent; left out |

The kernel is called by everything: requests, controllers, the lifecycle's warm-up, and
`ModuleRef` from user code. The lifecycle drives the kernel at startup and reads its
caches at every stage. The adapters drive the lifecycle, through the server's lifespan
or through `Application.close`, and decide whether requests are still running when it
tears down. Overrides and evictions change the caches under the kernel's feet, and the
memo of each route keeps what came out of them. Before any of it, `create_app` turns the
declarations into a graph, a container, route contracts and a plan of routes, and may
refuse at each step.

What makes each correct: one instance per shared slot, whoever asks; every resolution
ends; nothing opened is lost (kernel). Every hook once, dependencies before dependents
and after them, nothing dropped that was not torn down, and an application that can be
started again (lifecycle). No answer from a former generation (container, memo,
overrides). A token names one binding and nothing outlives its parts (graph, plan). The
handler declared for a request answers it (routing). One observation, one rendering, one
instance per request, the right source for each argument (execution, binding). No limit
passed and nobody refused early (throttler); nobody served what is not theirs
(policies). Requests in flight are let out before what they use is destroyed (adapters). A
probe says up of what is up, in time (health).

## Modules

| Module | What it is |
| --- | --- |
| `InstanceSlots` | abstract: a slot filled once and then served until it is dropped |
| `SharedConstruction` | how the two drivers of the kernel build a shared instance |
| `ApplicationCycle` | abstract: stopped, starting, running, stopping, stopped and empty |
| `Lifecycle` | startup, shutdown, stages, warm-up, requests that build durable instances |
| `GracefulShutdown` | the Starlette adapter's gate and server, `listen` and `close`, requests in flight |
| `AsgiServer` | the raw ASGI adapter: servings, lifespans, `stop`, `close`, connections |
| `HealthProbes` | both probes, their checks, and readiness through startup and teardown |
| `RequestExecution` | requests on one loop: guards, the bounded durable store, deadlines, handlers on threads |
| `RequestPath` | one request's calls: middleware, route stages, failures and their filters |
| `RequestBinding` | what a handler is called with: composes `RequestPath` with `ParameterBinding` |
| `ParameterBinding` | operators: compiling a signature, binding arguments; used by `RequestBinding` |
| `DeclaredTypes` | operators: reading a text as a declared type, checking a JSON value against one; used by `ParameterBinding` |
| `InstanceCaches` | container caches, controllers and route memos over overrides and generations |
| `RecordedResults` | policy guard, `Cache` and `Idempotent` |
| `Throttler` | whom a request is charged to, and the sliding window |
| `ModuleCompiler` | operators: overlays of dynamic registrations, providers normalized to bindings, joined slots |
| `Constructors` | operators: reading a constructor, where its arguments come from, how it is called |
| `Assembly` | module graph, visibility, scope plan |
| `AsgiRouter` | the router's table and its resolution |
| `RouteContracts` | operators: guards, policies, authenticator registry, what makes a route unservable |
| `Bootstrap` | `create_app`: composes `Assembly` and `AsgiRouter` through the contracts and the route plan |
| `MC*` | instances of each for TLC |
| `SharedConstruction_proofs`, `Lifecycle_proofs`, `InstanceCaches_proofs`, `RecordedResults_proofs` | theorems about the module each is named after |
| `Bootstrap_proofs` | theorems about `Bootstrap`, the `Assembly` and the `AsgiRouter` in it |
| `Services_proofs` | theorems about `Throttler` and `HealthProbes` |
| `Adapters_proofs` | theorems about `GracefulShutdown` and `AsgiServer` |
| `Execution_proofs` | theorems about `RequestExecution` and `RequestPath` |

### SharedConstruction

A *caller* is one resolution of one cache key. A synchronous caller keeps its thread
from its first step to its last; a task lets go of its thread, the event loop's, only
at an await. `Runs(c)` states that: a caller may take a step when no other caller of
its thread is between awaits. Blocking a thread is then a caller that occupies it and
whose next action is disabled.

| State | Code |
| --- | --- |
| `cache` | the slot of `InstanceCache`, in whichever store |
| `table`, `holders`, `held` | `ConstructionLocks._entries`, `_LockEntry.holders` and `.lock`, of `construction_locks` ("thread") and `async_construction_locks` ("await") |
| `entry` | the local `entry` of `_held`, `_held_async`, `shared_construction` |
| `abandoned` | a worker thread left inside `acquire()` by a task that is gone |
| `pc`, `result` | the position of the generators and context managers, and the answer |

The actions follow `_resolve_steps`, `_held_async`, `shared_construction`,
`_acquired_off_the_loop`, `_held` and `_cached_construction` line by line, down to the
separate read and write of `InstanceCache.keep`. `borrow` and `release` are single
steps because the code runs them under `_guard`. Entries and instances are named after
the caller that created them, so a second lock for one key, or a second instance, is a
different value. `anyio.Lock` is external: it excludes the tasks of one loop, and
nothing is assumed of it across loops. Cancellation reaches a task at its awaits. A
cancellation by anyio's scopes is held back until the worker thread has finished
(`CancelHearing`); a native `Task.cancel()` is not (`CancelNatively`), and constant
`NativeCancels` says whether there are any. `Drop` empties a slot at any moment: an
eviction, an override, a shutdown. Request-scoped slots take no lock (`Unshared`); the
named assumption is that the callers of one such slot share a thread, since a request
is served on one loop.

### Lifecycle

Drivers are tasks of one event loop: lifespans, one at a time, and calls of `close()`.
The loop switches at awaits, which the code has while it builds an instance and while a
hook runs; each action is what happens between two of them. A resolution is a stack of
frames as the kernel's generators nest, so a request may build a durable provider's
dependencies between two steps of a startup. `todo` is the snapshot a stage takes, of
the modules first and then of the instances the container has *at that moment*: the
singletons in the order they were built, then the durable store in its order of use.
Every hook may fail, every construction may raise, at any position.

| State | Code |
| --- | --- |
| `initialized`, `shut`, `overridable` | `LifecycleState.initialized`, `Container._shut_down`, `OverrideManager._started` |
| `singletons`, `durables` | the keys of the caches in their order |
| `runs` | ghost: how often each hook ran on the instance a slot holds, reset when it is rebuilt |
| `stage`, `half`, `todo` | the position in `run_*_hooks` and `run_*_lifecycle_stage` |
| `work` | the kernel's nested machines |

### GracefulShutdown

Everything runs on one loop, and an action is what happens between two awaits, but for a
signal. A *run* is one call of `StarletteAdapter.start`: it has its own gate, server and
socket, so a request belongs to the run that admitted it even when that run is over.
The lifecycle is seen from outside (started or not, instances or not); what happens
inside a startup or a teardown is `Lifecycle`'s.

| State | Code |
| --- | --- |
| `draining`, `in_flight` | `DrainGate._draining`, `._in_flight`, one gate for each run |
| `server`, `run`, `should_exit` | the position in `GracefulServer` and `StarletteAdapter.start`, `Server.should_exit` |
| `bound` | the listening sockets that are open |
| `initialized`, `shut`, `kept` | `LifecycleState.initialized`, `Container._shut_down`, the caches |
| `request`, `gate` | the position in `DrainingApp.__call__`, and whose gate it is |
| `closer`, `closes` | the position in `Application.close`, and the run it stops |
| `expired` | ghost: the runs whose drain window closed on requests in flight |

`Signal` is `handle_exit`, `Drain`, `Idle`, `WindowCloses` and `TornDown` the parts of
`_drain_and_tear_down` between its awaits, `CallClose`, `CloseShutsDown` and `CloseEnds`
those of `close`. Whether a drain window closes before the requests end, and whether a
teardown hook fails, are choices. Uvicorn is external, and modelled as the adapter uses
it: it starts the application and binds; asked to exit, at whatever moment, it calls
`shutdown` once it serves; its own `shutdown` closes the sockets, gives requests some
time and cancels them. Assumed of the caller: nobody calls `listen` while a `close` of
theirs is under way, and the drain window is a number. Connections that are not HTTP
pass the gate uncounted and are left out.

### RequestExecution

Requests of one application on one loop; an action is what happens between two awaits,
but for the end of a handler that runs on a thread. Each route asks for the durable
provider of its request's partition twice, as it does when a guard and the controller
both need it: before the guards, if the route declares any, and before the handler.

| State | Code |
| --- | --- |
| `stage`, `answer` | the position in `execute_http_route` and `_call_handler`, and how the request left it |
| `created` | `created_durable_partitions` and the context variable it is filled through; `None` for a route without guards, and once the request is admitted |
| `store` | `BoundedInstanceStore._entries` in order; each entry names the request that built it |
| `borrowers`, `queue` | the tokens of the loop's `CapacityLimiter` and those who wait for one |
| `threads` | the handlers that `_SYNC_HANDLER_POOL` is running |
| `overdue` | ghost: the requests whose deadline passed |
| `lost` | ghost: the requests an instance of whose has left the store |

`Find` and `Built` are the two ends of a construction, seen from the requests: one
builds, and the others wait, which `SharedConstruction` establishes. `Reject` is
`GuardRejectedError`, from a guard or from later code, `Fail` every other exception.
`OnlyTheRefusedAreUndone` says what may leave the store: the oldest entry, where another is
written into a full store; and, with a request refused before its guards admitted it, the entry
of its partition, which is its own or has come in the place of its own. Eviction is by key, so
the second is real: a refusal drops what another rebuilt (`RefusalDropsItsOwn`, below).
`Respond` holds the last look at the clock. anyio is external: its scopes deliver a
deadline at an await and once only, and its limiter hands tokens out in the order of
asking; `NativeCancel` is `Task.cancel()`. Assumed: `timeout_seconds` is a number (`None`
takes the limit away) and every request is served under the same limits. What comes
after an answer is decided, rendering it through the filters, is left out, and so are
middleware, pipes and interceptors, which run around the handler in the same stages.

### AsgiServer

Everything runs on one loop; an action is the code between two awaits. A *serving* is
one call of `listen()`: its server, its lifespan conversation and its event.

| State | Code |
| --- | --- |
| `serving` | the position in `AsgiServer.serve` |
| `stopped` | `AsgiServer._stopped`, an event of each server |
| `lifespan` | the application's end of the conversation, `AsgiApplication._run_lifespan` |
| `current` | `AsgiAdapter._server` |
| `up` | `LifecycleState.initialized`, and by which serving |
| `conn` | `_handle`, `_ConnectionChannel`, `AsgiHttpRequest._body`, whether the client is there (`here`) and whether the server has the transport (`attached`) |

Unlike the Starlette adapter this one does not drain: `close()` stops the server and at
once tears the application down, and the server's own lifespan tears down whatever it
finds once the connections are gone. asyncio is external: leaving `async with server`
waits for the transports (`Drained`), not for `_handle`. A client that ends its side
(`PeerLeaves`) leaves the transport with the server until `_handle` closes it; a connection
that is reset (`ConnectionLost`) is gone at once, while the application goes on with the
request until it returns, and no serving waits for it. A cancellation of the serving task ends the await it finds
it in. The application on a connection reads the body, perhaps twice, writes, and may
watch for the disconnect. `AwaitsServer` says that nobody listens again before the
previous `listen()` returned; the run assumes it.

### RequestPath and RequestBinding

The calls under way are a stack of frames: the links of the middleware chain, the route
at its end, and the renderings of failures. What a frame returns or raises is a signal
to the one below. Every stage of `execute_http_route` is an action, and each may raise
what the application raises, the deadline or the runtime's own refusals. A filter
answers, declines, raises (the chain starts again, once) or answers with something no
response can be written from. Middlewares call next any number of times, with the
request they were given or another.

| State | Code |
| --- | --- |
| `frames`, `signal` | Python's stack: `run_middleware_chain`, `execute_http_route`, `execute_http_exception`, `_render_failure` |
| `active` | the request context variable |
| `cache` | the request caches of `ScopeManager` |
| `built`, `ended`, `spoilt` | ghosts: instances built, the last execution's observation, failed renderings |

`MatchingFilters` is the filters `_matching_filters` finds and `First` the one of them its
order puts before the others: by breadth, distance in the method resolution order, and
declaration. A failure asks the first of those it has not asked (`asked`). Whether a
signature compiles, whether a request binds to it and to what are constants of `RequestPath`
(`IsCompiled`, `IsBound`, `BoundTo`, `ReadsBody`); `RequestBinding` says what they stand
for and what a handler must then be called with. `ParameterBinding` holds the pure part of
`runtime/params.py`: the source of each parameter in the three modes and what each
source yields for a request, the body included. An argument says which source it is from.

`DeclaredTypes` holds what becomes of a value. Texts (path, query, header, cookie) are
read as the declared type or refused: `Coerced` is `_coerce_value`. JSON has types, and
`Bound`, which is `_bind_body_field`, checks them down to the last field and element,
builds the classes, and collects every problem with its path. Some types nothing reads a text
as (`Unread`): `dict[str, T]`, whose text is handed over as it came, where a bare `dict` raises
(`params.py:1658`, `:1686`), and those that stand here as "any", Pydantic models, tuples and
literals among them. What such a parameter is given is not claimed to have its type. The refusal's
wording is left out, its places are not: `Repaired` puts right what they name, and
`RefusalsNameWhatIsWrong` says, of each parameter, that what it takes from the body then binds,
and would not with one of them left. A conversion that raises names nothing, so it must be
owed to a value no constructor takes (`CannotBeBuilt`); binding stops at the first parameter that is
refused, so where two share a body the answer is about one of them (`BodiesAreAnsweredWhole`,
below). `Has` says what a declared type promises, read off the declaration alone; a
constructor called as it declares is assumed to succeed. Sinks and tracers are assumed
not to raise.

### InstanceCaches

An instance is told apart by who built it, in which generation its oldest part was
built, and which replacements it was built from. A resolution is a stack of frames as in
`Lifecycle`; a shared instance has one builder at a time, which `SharedConstruction`
establishes.

| State | Code |
| --- | --- |
| `phase`, `shut`, `started` | the lifecycle, `Container._shut_down`, `OverrideManager._started` |
| `generation` | `Container._instance_generation` |
| `overridden` | `OverrideManager._overrides` |
| `cached`, `controllers` | `ScopeManager._singletons`, `._controller_singletons` |
| `memo` | the `PipelineMemo` of each route |
| `doing`, `route`, `got`, `settled`, `frames` | the position in `resolve_pipeline_async` and the kernel |

`Quiet` says overrides are registered with nothing under construction, as the
documentation asks; `Drained` that a shutdown finds no request in flight, as the Starlette
adapter ensures. Both are assumed by the run.

### RecordedResults

`Ask` is the policy guard and what the interceptor does before the handler; a request
then runs until `HandlerReturns` records its result or `HandlerFails` does not. Results
are named after the request that computed them. `Public`, `Roles` and `Authenticates`
merge what controller and handler declare; `Key` is `_cacheable_key` and
`_presented_idempotency_key`; `Record`, `Answer` and `DropStale` are `_RecordedResults`,
whose lock makes each of them one step. The guard, its ghosts aside, is a function of the
declarations, so permissions are modelled as roles.

### Throttler

`Arrive` is a whole request: nothing is awaited while the in-process store counts. The
world in front of the application is part of the model: a client sends a forwarding
header of its own making, and every trusted proxy on the way appends the address it was
reached from, so `Charged` is the set of callers a client can be taken for. The clock is
in ticks, several to the second, because windows are declared in seconds and readings
fall between them. `order` and `window` are `_windows`; the ghost `log` keeps, for each
client and budget, when it was let through since its key was last evicted: eviction
documentedly forgets what a caller has spent.

### HealthProbes

| State | Code |
| --- | --- |
| `phase`, `at` | the position in `LifecycleManager.startup` and `.shutdown`, and the participant whose hook runs |
| `generation` | the instances the container holds: each has its `HealthService` and `ReadinessState` |
| `started`, `draining` | `ReadinessState._started`, `._draining` |
| `indicators` | `HealthService._liveness`, `._readiness` |
| `wired` | ghost: what hooks of initialization registered |
| `read` | one call of `HealthService.liveness` or `.readiness`: its tasks, their timers, its report |

A read copies the registered names and checks each in a task and under a timer of its
own. The tasks run when the loop comes round, so the lifecycle, which the hooks move one
participant at a time, may pass between the copy and the check, and a reader may hold the
service of a generation that is gone. An indicator answers, raises, answers with
something that is no result, hangs, or is cancelled from within. `BeginDrain` is the
application's to call, at any moment: the framework never does. Time counts in units of
which a check has `CheckTimeout`, and passes only when no task is ready and no timer due.

### Assembly, AsgiRouter and Bootstrap

These are algorithms that run once, so their behaviours are short, and what varies is
the application they run on: `Families` are sets of declared applications, all of which
TLC takes. `ModuleCompiler` is the pure part of compiling one module: the overlay of a
dynamic registration (`_overlaid_providers` and its neighbours), `normalize_provider` with
the lifetime a definition may name for a class, and the folding of a slot declared more
than once into one binding that joins its entries; `Spelled` says which tokens are equal
without being the same. `Constructors` reads an annotation through names, quotes, metadata
and unions (`_interpret`), leaves a parameter to its default or finds it a source
(`_source_for`), and passes it by place or by name (`_dependency_for`); `Receives` is what
Python makes of such a call, and `CallIsAccepted` that each parameter receives what was
meant for it. A class is planned for each module that builds it, but what it is charged
with holding (`Charged`) is what the first of them can give it. `Assembly` walks the imports with the recursion of `_discover_modules` as a
stack, compiles each module where it is first visited, resolves visibility in the order modules are left, and solves the lifetimes one
binding at a time, in any order, which covers the order of the table. Its properties
compare the outcome with definitions by reachability that know nothing of the traversal.
`AsgiRouter` has the table of static paths, the patterns and what is kept out of the
table; how a template matches a path is a constant. `RouteContracts` has what the route
compiler makes of a handler: the guards of modules, controller and handler in order, a
global one kept as a reference to the module that binds it; the merged policy; the two
refusals that need the whole application, a registry the route's module cannot see or the
guard cannot await, and a readable interceptor that changes what a raw response hands on.
`Admits` is the policy guard on the outcome. `Bootstrap` runs all of it and the plan by
path or by version, in the order of `_create_app`; any step may refuse.
`AnsweredAsDeclared` and `GuardedByDeclaration` read the declarations before any of it: who answers,
which guards run before, and whom they let through. No operator here is declared
RECURSIVE: reachability is the least closed set (`Closure`), an annotation is stripped by a
function on the number of layers around it (`Layers` bounds them, `Annotations` has all that a
parameter may be annotated with), and entries are picked from a sequence by their places
(`Picked`), so that all of it can be proved about.

## Runs

| Run | Instance | What it shows |
| --- | --- | --- |
| `SharedConstruction_build` | two tasks of a loop and a thread asking for a shared key, a synchronous call on the loop asking for a request's own; cancellations of both kinds, slots dropped at any moment | one builder, nothing discarded, tables that measure the work in flight, refinement of `InstanceSlots`; every resolution ends, unless a native cancellation left a worker behind |
| `Lifecycle_cycle` | two lifespans, two requests, a pool, a repository, a durable session and a durable profile in a chain, two modules | hooks once, in order, nothing dropped alive, refinement of `ApplicationCycle`, teardowns end |
| `GracefulShutdown_drain` | two runs of the server, two requests, two calls of `close()`, signals at any moment | the gate counts who is inside, nobody is served from what is destroyed, nothing is kept by a container that refuses (`DrainShieldsRequests`); `close()` returns, and leaves the application closed |
| `RequestExecution_serve` | two requests of one partition behind a guard, one of another without; a store of one entry, one thread, native cancellation | a refused request leaves nothing of its own, and nothing goes but for room or with a refusal that drops its own, or what came in its place; tokens cover threads; nobody is served late; every request is answered or occupies a thread |
| `RequestPath_serve` | two middlewares, routes over filters, guards, hooks, and signatures of every source and type, what requests send by each source and bodies with every mistake a model allows, three calls of next | observed once; the right filters with the right context; one instance per request; only an unwritable answer escapes; arguments from their own source and of their type, where the binder reads it; refusals that name all that is wrong with what the refused parameter takes from the body |
| `RequestPath_missing` | the route of two unannotated parameters inferred from the body | **violated**: the finding |
| `InstanceCaches_serve` | a guard over a transient over a singleton, a controller, two routes, two requests, two generations, overrides of two tokens | whatever a request is handed is of this generation and of the replacements that stand; one instance |
| `RecordedResults_replay` | four requests over four routes and two stores of two entries, three callers | nobody is served past the requirements; replays are for who asked; nothing recorded runs again |
| `Throttler_window` | two clients, two proxies, four routes, limits of 0, 1 and 2, a store of two keys, four readings of a clock of two ticks a second | nobody spends more than a limit in a window; nobody is refused with something left, or told to come back too early |
| `AsgiServer_serve` | two servings, one connection, two calls of `stop` or `close`, a cancellation | no early disconnect; no request whose connection stands is with an application that is down; a server runs until stopped; a stop ends it |
| `HealthProbes_rotation` | a readiness state and a participant that wires an indicator, built twice; a reader who may be cancelled, another indicator on either probe; checks of two units | readiness is up only of what had started and was not withdrawn when it was asked, and consults what startup wired; a read ends in the time of one check |
| `Bootstrap_assemble` | all applications of several families: graphs of three modules, chains of three bindings and a controller, a controller that two modules list, constructors of up to three parameters, forms and lifetimes of a provider, overlays, guards of three modules and a route, pairs of policies beside a registry in six places, interceptors, routes over six templates, two versions | bindings, graph, visibility, constructions, lifetimes, guards and policies, table, dispatch and conflicts agree with the declarations |

Every property has a mutant in `PROJECT.json`: an operator beside the definition it
changes, such as a recheck that is skipped or a key that leaves out the caller, under
which TLC finds the property violated.

Bounds. Two tasks of one loop meet at the awaited lock, and the one that has it meets the
caller with a thread of its own at the thread lock, which it then waits for through a
worker. A task of a second loop would meet them there too, as that caller does: the
awaited lock excludes nobody across loops, and the proof covers any number of both. The
request-scoped slot is asked for by a synchronous call on the loop of the tasks, whose
check and set of `keep` they surround. A key more would add nothing: callers of different
keys share only the thread, which the second key already shows.
For the lifecycle, a chain of four with both caches is enough for a dependency to cross
between singletons and durables and within each, and two servings for anything kept
from one to the next. Hook counts stop at two, past which nothing changes.
For the shutdown, two requests let one outlast the window of a run and leave while the
next run admits the other, and two calls of `close()` overlap. The durable
store's limit is never reached in `Lifecycle`, and its runs drain: no request is in flight when a
shutdown begins (`Drained`). For requests, a store of one entry is
pushed out by the third request while the first two, of the same partition, are being
decided, and one thread makes the third queue behind the first.
`RequestPath` calls next three times (`MaxNext`): once each, and once too often in one of
the two middlewares. A name is sent by any set of the sources, and the bodies combine, for
a class with a required field, a list, a union over a nested class and a field its
constructor does not take, every way to get each of them right and wrong. `InstanceCaches` has one shutdown (`MaxGeneration`), so memos and
caches of one generation meet the next. In `RecordedResults` four requests are enough to
record three keys in a store of two and ask again for the first; the clock reaches the
longest ttl. The throttler's clock (`MaxTime`) passes a window and a half; with two keys
kept, a third caller evicts one in mid-window. `AsgiServer` has two servings, the second of
which finds what the first left; connections share nothing but the wait of the
server, which one shows. Reads of a probe share nothing at all: one reader, who may be
cancelled and may read again, stands for them, and two generations let it hold the
service of the one that is gone. `Bootstrap`'s graphs have every import list without
repetitions up to two, each token bound or exported anywhere; cycles need two modules and
diamonds three. An overlay and its base have up to two entries each, so that one side
replaces, joins, collides with or repeats the other. Constructors have every pair of
sixteen annotations, which are those of the planner's own tests, and every triple of the
three that differ in whether they can be supplied, over what Python lets one parameter
follow another. Policies come in every pair of the
seven declarations a level can make, one of them contradictory, with two roles, so that
roles of the two levels can differ. Symmetric requests are declared so where no property tells them apart
and no liveness is checked.

Deadlock is not checked where a run may end: the application may be closed for good
(`GracefulShutdown_drain`, `AsgiServer_serve`, `InstanceCaches_serve`), requests end
(`RequestExecution_serve`, `RequestPath_*`, `RecordedResults_replay`), the clock reaches its
bound with every route of the caller spent (`Throttler_window`), an application is served
or refused (`Bootstrap_assemble`), an application is built no more than its bound
(`HealthProbes_rotation`), and in `SharedConstruction_build` callers are done, or a native
cancellation has blocked their loop for good. The others check it.

Fairness. `SharedConstruction`: weak fairness of each caller's own steps and of the
worker threads: operating-system threads are scheduled and loops run what is ready, and
what is built returns or raises. It is not fair to start a resolution, or to cancel one.
Weak fairness per caller suffices because each caller resolves once, so nobody can be
overtaken for ever. `Lifecycle`: weak fairness of the steps of a driver in the middle
of a startup or a teardown: a hook that is called ends. Nothing obliges anyone to start
or stop the application. `GracefulShutdown`: weak fairness of the server's steps, as one
action, and of each call of `close()`: the loop goes round, its timers fire and hooks
end. None for requests: `CloseReturns` holds though none of them ever ends.
`RequestExecution`: weak fairness of each request's deadline and of hearing from its
thread: timers fire and the loop is told when a thread is done. None for guards,
constructors and handlers: `EveryRequestIsAnswered` holds though all of them hang, at an
await or on a thread, and
its exception, a handler that keeps its thread, is the one the code documents.
`AsgiServer`: weak fairness of each step of a serving and, unlike the above, of each
connection: this server waits for them, so a stop ends nothing unless requests are read,
answered and returned from. The application is assumed to return only once told of the
disconnect, the hardest case; and a client is assumed to leave when the application waits
for a message that cannot come, and to take what is written to it: a response is finished
or its connection lost.
`HealthProbes`: weak fairness of each read's own steps and of time. None of the indicators,
of the lifecycle or of readers: `AnsweredInTime` holds though every indicator hangs.

## What is proved

`SharedConstruction_proofs`, for any sets of tasks, threads, loops and keys that meet
`CallersAssumption`, with both kinds of cancellation, and drops at any moment:

- `TypeCorrect`, and `BuildsOnce`, `KeepsWhatItBuilds`, `TableCounts`: the three invariants
  of `SharedConstruction_build`, as `Spec => []Inv`;
- `Refinement`: `Spec => Slots!Spec`, that construction implements `InstanceSlots`.

None of the invariants is inductive alone. `IInv` adds what each place of a caller says
about the locks: which entries it has borrowed and which it holds (or its worker, on
its behalf); that a caller building a shared slot holds the thread lock of the entry the
table shows; that a lock has at most one holder; that an abandoned worker's entry is
remembered. One builder follows because two builders of a key would hold the same
entry's lock, and the entry is the same because it is in the table for as long as it is
counted, which is why `TableMeasuresWork` is part of the induction rather than a
consequence. For the unshared slots the argument is the other one: their callers share
a thread, and none of them lets go of it between the read of `keep` and its write.
That the count is the number of borrowers rests on lemmas about adding and removing an
element of a finite set.

`Lifecycle_proofs`, for any providers and dependencies among them, any modules, lifespans
and requests, and any hook or construction failing at any moment, under `OneAtATime`:
shutdowns wait for requests and nobody calls `close()` beside the lifespans, which
`Lifecycle_cycle` assumes too (with overlapping `close()` the first theorem is false, see
below):

- `HooksOnce`, `OrderOfInstances`, `NothingForgottenAlive`: the invariants `HooksRunOnce` and
  `SingletonsOutliveDependents` and the action property `NothingDroppedAlive` of `Lifecycle_cycle`;
- `Refinement`: `Spec => Cycle!Spec`, that manager and container implement `ApplicationCycle`.

Its `IInv` adds that one driver is under way and requests only while it serves (`Turns`);
that the frames of a resolution are each other's dependencies, and no two actors build
one provider (`Stacks`, `OneConstruction`); that what an instance was made of is cached
before it, singletons in the order of `singletons` (`DependenciesFirst`); that `todo` is what
is left of the very sequence the stage would take now (`Positions`), although requests
resolve between its steps of startup; and, from that, how often each hook has run on
whatever is alive: once where the stage has passed, not at all where it has not
(`RunsInStages`, `RunsOutside`). The last is why nothing alive is dropped, and why the count
never reaches two. Dependencies need not be acyclic: a cycle is never built.

`InstanceCaches_proofs`, for any graph of dependencies, routes, overrides and number of
generations, under `Quiet` and `Drained` (both are conditions the run assumes, and `ServedFresh`
is false without `Drained`, see below): `NothingStaleIsServed`, `EverybodyHandedTheSame` and
`MemosFollow`, of which the first two state the invariants `ServedFresh` and `OneInstance` of
`InstanceCaches_serve`. Its `CachesInv` says that what caches and requests hold is of this
generation, of the replacements that stand, and the one instance there is today; that
what is under construction is in no cache and is built by one actor; and, the heart of
it, that what a construction has been given and what it has still to ask for see, together,
exactly the replacements its provider reaches. That an override evicts enough rests on
two lemmas about the least closed set `Reach`: it is the needs of a token and what they
reach (`ReachUnfolds`), and what does not reach the overridden token loses nothing of its own
reach to the override (`ReachWithout`).

`Adapters_proofs`, about `GracefulShutdown`, for any finite set of requests, any calls of
`close()`, any number of servings: `TypeCorrect`, `GateCounts`, `DrainedBeforeDestroyed`
and `RefusingIsEmpty`, of which `DrainShields` is made, and `ClosedStaysClosed`: the two
invariants of `GracefulShutdown_drain`. Its `GateInv` adds which gate still admits (only that of the
server that is serving), where whoever is inside a gate may be (`Sheltered`: served,
drained, or left behind by a window that closed), that the application is up while its
server serves and drains and that `close()` destroys it only when there is no server,
and that a call of `close()` past the server has outlived its run. That an idle drain
leaves nobody inside is where the count matters: the set it measures is empty.

`Execution_proofs`, about `RequestExecution`, for any finite set of requests, any partitions, limit of the
store and number of threads: `TokensHeldWhileRunning` and `DeadlineIsKept`, the
invariants `TokensCoverThreads` and `ServedInTime` of `RequestExecution_serve`. Its `IInv`
adds where a request must be to hold a token, to have a thread, to be overdue or to have
an answer: an overdue request is past every step that could serve it. `RefusalsUndoTheirOwn`
is the property `OnlyTheRefusedAreUndone`; its `UndoInv` says what the store holds:
no partition twice, and of each entry that its builder has arrived, was not refused and,
while it is undecided, remembers the partition as one it created; an admitted request
remembers none. `LossInv` is what an eviction by key rests on: of one partition one request builds
at a time (`OneBuilds`), the store keeps to its limit, and what an undecided request remembers is
still there as its own entry or has been lost (`KeptOrLost`), which only a full store or another's
refusal brings about.

`Execution_proofs`, about `RequestPath`, for any routes, middlewares, filters, class hierarchies,
number of calls of next and binding of parameters that meet `PathAssumption`:
`ObservedOnce`, `OneInstanceEach`, `OnlyUnwrittenEscapes` and `FiltersInOrder`, the invariants
`MeasuredOnce`, `OneInstancePerRequest`, `EscapesOnlyUnwritten` and `FiltersAreAsked` of
`RequestPath_serve`. Its `PathInv` is about the stack: each execution waits on the link that
called it, its context is of its own side of the controller, the filters it has asked
match what it renders, and one whose rendering failed has spoilt an answer before; a first
error signal is only heard by a link that called the route; an instance that was built is in the cache until the
request is over. `FiltersInOrder` needs that of filters that match there is always a
first: three nested choices of a least number, and a lemma that the filters for less than
`BaseException` come before the runtime's own (`LimitsLast`).

`Adapters_proofs`, about `AsgiServer`, for any sets of connections and calls, any number of servings:
`NobodyToldEarly` with no assumption, `ServedBeforeTeardown`, of the requests whose connection
stands (of others it is false, see below), and `NotTornDownUnder` under
`AwaitsServer` (`close()` waits for the server it stopped before it returns; without it
the second is false, see below). Its `IInv` adds that a serving with a connection the server
still has is still serving or draining, that at most one lifespan is open and it belongs to the
latest serving, and that an application is down only behind a call of `close()` or a
serving that was cut. A connection's part, `ExchangesOK`, is inductive without any of it.

`RecordedResults_proofs`, for any requests, routes, declarations, stores and limits:
`GuardedAsDeclared`, and `ReplayedToTheAsked` under `RoutesToldApart` (two routes that one
inherited handler serves differ in method or path, as the router demands of routes).
Its `IInv` says that every entry of a store is accounted for by a request in the log that
computed it, under that request's key; that equal keys mean equal requests is then a
fact about `Key` alone. `RecordedIsNotRepeated` is the action
property `NotRunTwice`, with no assumption. Its `MemoryOK` reads a store against the log:
the entries stand, in order, for the last recordings of their keys (`Ordered`), and the
last recording of a key is held, has expired, or has as many other keys recorded after it
as the store holds (`Remembered`). `PushedOut` is what the limit rests on: entries behind an
entry are of as many different keys recorded after it.

`Services_proofs`, about `Throttler`, for any clients, proxies, routes, limits, spans and eviction limit:
`NeverOverTheLimit` and `RefusedWhenSpent`, under `BudgetsOfTheirOwn` (two routes with
budgets of their own are served by two handlers; `LimitHolds` fails without it, see
below). Its `IInv` says that a window is a suffix of what its client was served, of which
all the rest is older than the span; that whoever sends a request is the one charged
for it, whatever its headers say, is the lemma `ChargedToItself`. The window is filtered
by a least index rather than by recursion, which is why the least-number principle is
needed.

`Services_proofs`, about `HealthProbes`, for any readers, participants, indicators, time limits
and number of generations: `ReadyIsEarned`, the invariant `UpIsEarned` of `HealthProbes_rotation`.
Its `ProbesInv` adds that an edge of the start lies behind initialization in every generation,
that what hooks wire is on readiness beside the lifecycle check, and, for each read, that
a check which answered up did so of a process that had started and was not withdrawn when
the read began. It is inductive because both edges only rise within a generation
(`Undisturbed`), and a generation that is gone keeps the edges it had.

`Bootstrap_proofs`, for any families of declared applications over any finite set of modules,
any tokens, templates and versions:

- `GraphIsAsDeclared`, the invariant `GraphIsDeclared`, has four parts.
  `GraphFollowsImports` (`GraphIsTheImports`) rests on `ModulesAreVisitedInOrder`: `WalkInv` says
  that whatever was visited has been left or is on the path, that a module is left after all
  it imports, and that the imports before a module's next have been left but for the last,
  where its visit is under way. What has been left is closed under imports, so at the end it
  is all that is reached; and no module is below itself, since what is below it was left
  before it.
  `EachTokenHasOneAnswer` (`OneAnswerPerToken`) rests on `ModulesResolveInOrder`: `TableInv` says that
  a module is resolved after its imports, to what `Hands` leads to by any chain of exports;
  `HandsUnfolds` turns that chain, a least closed set, into one step over the imports.
  `BindsWhatIsDeclared` (`BoundAsDeclared`) reads the compiled table as a subsequence: `Place` numbers
  the places of a filter in order, so that what is filtered of a concatenation, or of what was
  filtered, is filtered once (`PickedOfConcat`, `PickedOfPicked`); with that `OverlaidIsSupplied`
  says what an overlay leaves of each token, and `HandsOverEach` what the folded table hands over.
  `RefusedForCause` gives the last (`CollisionsAreReal`): what a module was resolved to when the
  collision was found is what the declarations lead to (`CollidesWithCause`).
- `NothingIsKeptTooLong`, the invariant `LifetimesHold` wherever each class is charged with
  exactly what its own module gives it (`AllCharged`, `NoneOvercharged`). Without that it is false,
  since of a class that two modules build only the first is asked (`TwiceFamilies`, below); TLC finds
  both true of every application of the run. In `NothingOutlivesWhatItHolds`, the solved scope of a
  transient is no wider than that of anything it reaches in one hop, and so (`HeldIsNoNarrower`) than
  anything behind any chain of them. `KeptAsAllowed`, which needs no such hypothesis, is about each
  binding that is compiled of a valid module (`ValidStays`). That nobody is refused for nothing
  (`EscapesAreReal`) is the other part of `RefusedForCause`: `NarrowedWithCause` says that, in
  whatever order the scopes are solved, one that has been narrowed has a witness, something the
  transient holds whose own lifetime it is. What settles a scope takes it from one hop away, and
  passes the witness on with it (`SettlesWithCause`); an owner that violates the plan then
  holds the witness of what escapes it (`ViolatesWithCause`).
- `FirstDeclaredAnswers`, the invariant `AnsweredAsDeclared`. `NoTwoHandlersAnswerAlike` is the first
  of its parts: `PlanInv` says that every contract the plan builder was given has an entry for each of
  its paths, or is among its path's versions, and that those given so far are pairwise apart;
  where nothing tells versions apart, that validate has let no two patterns through whose hosts
  agree, and that nothing served names a host.

  The second is the order of the answers: `TableKeepsTheOrder`, which
  `RouterKeepsTheOrder` also states of the router alone, however many routes are registered
  of any templates that meet `RouterAssumption` (a literal one answers no literal path but its
  own), and `AnsweredByDeclaration`. `OrderInv` has a part for each of the three orders.
  `RouterInv` adds to the table the three facts it rests on: a route that answers a tabled path
  from outside the table comes after all that is in it; unless the path is shadowed there is
  no such route; and a path that is neither tabled nor shadowed was never registered.
  The second is what lets a literal enter the table, the first what makes its answer the
  first. `PathsInOrder` maps each entry of the plan to the contract it was made for, without
  ever going back, and gives each path of each contract an entry; `VersionsInOrder` says that where
  a header tells versions apart an entry has the contracts of its method and template in
  order, and stands where the first of them put it. The first route that matches is then an
  entry of the first contract that declares to (`AnsweredByPath`), or the one that it joined, where
  the first that takes the version is the first of all that share its path (`FirstOfPicked`).

- `GuardsAreAsDeclared`, the invariant `GuardedByDeclaration`. `MadeOfHandlers` says that once
  contracts are compiled each stands in the place of its handler, and is what the route compiler
  makes of it, having refused none. The rest is about what that is. The guards are flattened out of
  those of each module, as references to what each binds, and then expanded: flattening and mapping
  change places (`Regrouped`, `ReferencesYield`), a declared guard is no reference, and a reference is bound to
  what the overlay leaves (`SuppliedIsReferred`), so that both sides are one sequence. A token that
  takes one binding is declared once by a valid module (`BoundOnce`), which makes the registry a
  policy guard asks the declared one (`RegistryAnswers`).

- `ClassesAreCalledAsWritten`, the invariant `CalledAsWritten`, of any annotations: any set of them
  that has the parts of its members (`AnnotationsAssumption`), with up to `Layers` of metadata and
  unions around each. `ScopesInv` says that an application which was not refused has nothing left
  that cannot be planned (`ScopesAreSolved`), and `PlannedIsConstructed` that what is planned is a class
  with its declared constructor, so the rest is about one call.
  That each argument arrives (`EachArgumentArrives`): no parameter before one passed by place is left
  to its default, so that the arguments by place are the first of all and their numbers are
  those of their parameters (`WithAllBefore`, `ByPlaceInOrder`); those after go by name, which a
  parameter by place only would not take, but then its constructor was refused.
  That it is meant (`EachArgumentIsMeant`): the planner's loop keeps one reading and takes
  layers off it, where the property gathers all an annotation leads to. `Comes` relates the two: the
  reading stands on a set the annotation has led to whose other members lead to it or
  to one another only, are no token, and are marked by just the markers stripped off so far (`ByWayOf`).
  A turn of the loop keeps it in no more than `Rounds` steps (`StrippedComes`); where the reading is bare
  nothing more is led to (`ComesToAnEnd`), and what it states is all there is.

What a fold makes of a sequence (`FlattenIsSeq`) is proved by looking at the least number of steps
after which it would fail, from the well-founded order of the naturals.

Only model-checked: the liveness properties, which the prover does not reach (`TeardownEnds`
of the lifecycle among them); and `RequestBinding`, which rests on definitions by recursion (`DeclaredTypes`, `ParameterBinding`):
`RequestPath` is kept apart from them so that it can be proved about, while `CalledAsDeclared`,
about what is bound, stays with TLC.

## Findings

`RequestPath_missing`: a field a body lacks is bound as the binder's own sentinel
(`runtime/params.py:664`), where the documentation promises a refusal.

`PROJECT.json` quotes the line.

## Statements that do not hold

Met while modelling. Each is defined in its module and violated under the change of
constants given, but checked by no run here.

- `EveryResolutionEnds` without its condition `[]NobodyLeftBehind`: a task cancelled natively
  while its worker waits leaves the lock to a resolution that is gone, and who comes after
  waits for ever; the docstring of `locks.py:57-60` says it gives the lock back.
- `LoopNeverWaitsForItself` with `KeyOf` giving everybody `key` in `SharedConstruction_build`: the thread lock is held
  across an await (`locks.py:44-49`), and a synchronous resolution on that loop, as
  `ModuleRef.get` makes, waits for it; `scopes.py:354-355` says why it must not.
- `EndedLifespanReleases` under `CancellingSpec` with `Lifespans = {first}` and no resolvers: a
  startup that is cancelled is neither undone (`manager.py:86` catches `Exception`) nor shut
  down (`:106` finds it not initialized); `app/lifespan.py:29-30` promises the release.
- `DurablesOutliveDependents` with `Warmed <- EveryProvider`: the durable store is in order of
  use, so a dependency read last is torn down before its dependent
  (`runner.py:177`; docs/reference/lifecycle.md:45).
- `HooksRunOnce` with `Closers = {closer, another}` in `Lifecycle_cycle`: two overlapping `close()`
  run each teardown hook twice (`manager.py:106`; `application.py:313-314` calls it a no-op).
- `CloseFreesPort` in `GracefulShutdown_drain`: a teardown hook that fails keeps Uvicorn's
  own shutdown from closing the socket (`adapters/starlette/server.py:65`;
  docs/reference/lifecycle.md:172).
- `RefusalDropsItsOwn` in `RequestExecution_serve`: a refused request evicts by key what another
  has rebuilt after the store pushed it out (`execution.py:980`; its docstring `:968-971`).
- `LimitHolds` with `HandlerOf <- Inherited` and `Budget <- TwoBudgets`: two routes of one
  inherited handler share a key whatever budgets they declare (`throttler.py:246`; the
  docstring says a route's budget is counted apart).
- `RunsUntilStopped` with `AwaitsServer = FALSE`: after `close()` returned and freed the port,
  the former server's lifespan, still waiting for its connections, tears down the
  application that was started again (`adapters/asgi/server.py:72`).
- `EveryRequestServedWhileUp` in `AsgiServer_serve`: leaving `async with self._server` waits for
  transports, so the request of a connection that was reset (`adapters/asgi/server.py:287`) is
  still with the application (`:95`) when the lifespan is shut down (`:72`).
- `TextsHaveTheirType` in `RequestPath_serve`: a header, query or path text for a parameter of
  type `dict[str, T]`, or of a type the binder does not read, reaches the handler as the
  text (`runtime/params.py:1658`, `:1686`).
- `BodiesAreAnsweredWhole` in `RequestPath_serve`: binding stops at the first parameter that is
  refused, so what a second one would find wrong in the same body is in no answer
  (docs/reference/errors.md:229: every problem in one body is reported in one response).
- `NoListingOutlivesItsParts` in `Bootstrap_assemble`: the registry keeps one module for a controller
  class, the last that lists it (`registry.py:517`), and the plan judges it there alone; in the
  other it may hold what is kept for less long. It concerns no request in the run, where a class listed
  twice has no handler in an application that is served: the second listing would repeat its routes.
- `ReplacementsAreHeld` in `InstanceCaches_serve`: an override kept over a shutdown is no
  longer seated as the singleton (`overrides.py:85-87`), so the next startup runs no hook
  on it.
- `MemoFollows` and `ServedFresh` with `Drained = FALSE`: a request under way across a shutdown
  files an instance of the former generation under the new one
  (`controller_factory.py:54-57`).
- `TransientsShareNothing` in `Bootstrap_assemble`: a request-scoped class may be bound as
  transient, since that "shares nothing" (`registry.py:46-49`), and a singleton may then
  hold the instance for good; the docstring of `_use_class_scope` says binding a class
  under another token does not change what its instances are safe to hold.
- `NothingOutlivesItsParts` with `Families <- TwiceFamilies`: of a class bound in two modules,
  only what the first can give its constructor is charged to it (`container_plan.py:136`), so
  a singleton whose defaulted parameter only the second can supply holds a request-scoped
  instance; `plan_container` says it refuses every dependency its owner would outlive
  (`:114-116`).
- `NoPatternTwice` with `Families <- PatternFamilies`: `runtime/routing.py:92` compares patterns only
  where no versioning is configured, and the plan builder compares paths as they are written;
  of two handlers of one method and one version, told by a header, at `/{x}` and `/{y}` the
  second never answers, where docs/reference/errors.md:193 says that they conflict.
- `HostsAreRefused` with `Families <- HostFamilies`: the hosts of a route are those of its first contract
  (`routing.py:240`), so a version that declares hosts behind one that does not is served
  by an adapter that cannot route by host.

- `DownUnlessRunning` in `HealthProbes_rotation`: the readiness state is a participant like any
  other, so readiness is up while the hooks of its dependents have still to run, and stays
  up in a teardown until its own hook, which comes after theirs, unless the application calls
  `begin_drain` (docs/how-to/observe-an-application.md:262-265: down before startup finishes,
  and again from the moment the process is asked to stop).
- `ConsultedFromTheStart` in `HealthProbes_rotation`: a read begun before an indicator was
  registered, whose checks run after the start, is up without it
  (docs/how-to/observe-an-application.md:296-298).

Of other statements, read in the code and not modelled as properties: an export a dynamic
registration adds is dropped where the base exports an equal token of another type
(`module/compiler.py:68-70`); an interceptor that changes responses and that only a factory
can produce, or an alias names, is not refused beside a raw response
(`runtime/compiler.py:214-217` says so); a bind that fails
leaves the lifespan open (`server.py:62-65` is outside the `try`); `stop()` when no server runs does
leave the event set, for the next `serve()` of that server object; a body refused for its size and read again
waits for the client to leave (`requests.py:258`); a version-neutral handler declared first answers every
version; a filter declared
for `BaseException` alone is asked after the runtime's own for its limits
(`execution.py:180-184`); a middleware that fails after the handler answered, or calls
next twice, has one request measured twice, and one that answers itself none
(`observability.py:66-74`); a parameter inferred from the body never looks at the query
(`params.py:721`, docs/reference/routing.md:53); a parameter that is a list or None is
refused whenever the query has it (`params.py:608` takes one text for it); of a body with a
value that a conversion refuses, nothing else is named (`params.py:1376` says so, against
docs/reference/errors.md:229); an indicator that raises `CancelledError`, as one does whose own task was cancelled, ends the
whole probe (`health/service.py:147`, against `:42-43`); an annotation whose quoted name leads back to it through `Optional`
is stripped for ever (`annotations.py:302-333`); a constructor's
parameter of type `HttpRequest` with a default is left to it though the container could answer,
as `_is_satisfiable` asks only for its tokens (`annotations.py:28`, `:399`); a provider bound
under a transport's own request class is resolved from the table (`container_plan.py:277`) but
judged as the request itself (`scopes.py:347`);
two providers that resolve each other through `ModuleRef` while they are built are no cycle
to the kernel, and from two callers may each hold the lock the other waits for.

## Plan

Done, in the order of importance: construction, lifecycle, graceful shutdown, request
execution, then the raw adapter, caches and memos, throttler, policies, assembly,
routing, the path of one request, the compilers of modules and of routes, and health. What is left:

1. The durable store read and evicted from several threads while a stage copies it, and
   nested constructions of several keys from several loops.

## Not modelled

Wording, logging, serialisation, the command line, OpenAPI, CORS, configuration:
sequential conversions of data. Reading decorators. Parsing forms
and uploads. The conformance suite and the test
client, which drive an application from outside. User code is a choice: a constructor,
hook, guard, handler, middleware, filter or indicator returns or raises.
The limits on the installed provers leave three things to TLC: liveness under fairness,
facts about recursively defined functions for all inputs, and whatever needs induction
over data.
