--------------------------- MODULE GracefulShutdown ---------------------------
(***************************************************************************)
(* Serving an application and stopping it without cutting off who is being *)
(* served: the Starlette adapter, its gate and its server                  *)
(* (adapters/starlette/{adapter,shutdown,server}.py), and the listen() and *)
(* close() of the application that drive them (app/application.py).        *)
(*                                                                         *)
(* Everything runs on one event loop and each action is what happens       *)
(* between two awaits, except a signal, which arrives at any moment.  A    *)
(* run is one call of start(): it has its own server, socket and gate.     *)
(* The lifecycle is seen from outside: started or not, instances or not    *)
(* (module Lifecycle looks inside).  Uvicorn is external, as the adapter   *)
(* uses it: it starts the application and binds, leaves its loop when      *)
(* asked to, and its own shutdown releases the socket, gives requests some *)
(* time and cancels them.                                                  *)
(***************************************************************************)
EXTENDS Integers, FiniteSets

CONSTANTS
    Requests,
    Closers,     \* calls of Application.close
    MaxRuns      \* bound: how often the application is served

ASSUME RunsAssumption == MaxRuns \in Nat /\ IsFiniteSet(Requests)

Runs == 1..MaxRuns

VARIABLES
    server,       \* what the adapter's server is doing
    run,          \* the run it belongs to, the number of calls of start()
    should_exit,  \* Server.should_exit, of that run
    draining,     \* DrainGate._draining, by run
    in_flight,    \* DrainGate._in_flight, by run
    bound,        \* the runs whose listening socket is open
    expired,      \* the runs whose drain window closed on requests in flight
    initialized,  \* LifecycleState.initialized
    shut,         \* Container._shut_down
    kept,         \* the requests whose instances the container keeps
    request,      \* where each request is
    gate,         \* the run each request was admitted in, 0 before
    closer,       \* where each call of close() is
    closes        \* the run each call of close() stops, the last one or 0

serverVars == <<server, run, should_exit>>
gateVars == <<draining, in_flight, expired>>
appVars == <<initialized, shut, kept>>
requestVars == <<request, gate>>
closerVars == <<closer, closes>>
allVars == <<serverVars, gateVars, bound, appVars, requestVars, closerVars>>

Serving == {"starting", "serving", "draining", "tearing", "releasing", "closing"}

\* A request is inside the gate that admitted it until it has finished unwinding.
Inside(r) == request[r] \in {"served", "resolving", "cancelled"}

-----------------------------------------------------------------------------
(* Requests: DrainingApp.__call__ around the application.                    *)

\* The gate of the run that accepted the connection admits the request, or refuses.
Arrive(r, g) ==
    /\ request[r] = "idle"
    /\ g \in bound
    /\ IF draining[g]
       THEN /\ request' = [request EXCEPT ![r] = "refused"]
            /\ UNCHANGED <<gate, in_flight>>
       ELSE /\ request' = [request EXCEPT ![r] = "served"]
            /\ gate' = [gate EXCEPT ![r] = g]
            /\ in_flight' = [in_flight EXCEPT ![g] = @ + 1]
    /\ UNCHANGED <<serverVars, draining, expired, bound, appVars, closerVars>>

\* A request resolves a durable provider of its own, unless the container refuses.
Resolve(r) ==
    /\ request[r] = "served"
    /\ ~shut
    /\ request' = [request EXCEPT ![r] = "resolving"]
    /\ UNCHANGED <<serverVars, gateVars, bound, appVars, gate, closerVars>>

\* What it built is kept; nobody asks the container again.
Keep(r) ==
    /\ request[r] = "resolving"
    /\ kept' = kept \union {r}
    /\ request' = [request EXCEPT ![r] = "served"]
    /\ UNCHANGED <<serverVars, gateVars, bound, initialized, shut, gate, closerVars>>

\* Answered, failed or cancelled, the request leaves its gate.
End(r) ==
    /\ Inside(r)
    /\ in_flight' = [in_flight EXCEPT ![gate[r]] = @ - 1]
    /\ request' = [request EXCEPT ![r] = "ended"]
    /\ UNCHANGED <<serverVars, draining, expired, bound, appVars, gate, closerVars>>

-----------------------------------------------------------------------------
(* One run of the server.                                                    *)

\* StarletteAdapter.start: a new gate and a new server.  Whoever closes the
\* application waits for that before serving it again.
StartServing ==
    /\ server = "off" /\ run < MaxRuns
    /\ \A c \in Closers : closer[c] \in {"idle", "ended"}
    /\ run' = run + 1
    /\ server' = "starting"
    /\ should_exit' = FALSE
    /\ shut' = IF initialized THEN shut ELSE FALSE
    /\ UNCHANGED <<gateVars, bound, initialized, kept, requestVars, closerVars>>

Started ==
    /\ server = "starting"
    /\ server' = "serving"
    /\ bound' = bound \union {run}
    /\ initialized' = TRUE
    /\ UNCHANGED <<run, should_exit, gateVars, shut, kept, requestVars, closerVars>>

ForgetInstances ==
    /\ initialized' = FALSE
    /\ shut' = TRUE
    /\ kept' = {}

\* The startup fails and is undone, or the port is taken and the lifespan ended.
StartFails ==
    /\ server = "starting"
    /\ server' = "off"
    /\ ForgetInstances
    /\ UNCHANGED <<run, should_exit, gateVars, bound, requestVars, closerVars>>

\* GracefulServer.handle_exit: the gate closes as the signal arrives.
Signal ==
    /\ server \in Serving
    /\ ~should_exit \/ ~draining[run]
    /\ should_exit' = TRUE
    /\ draining' = [draining EXCEPT ![run] = TRUE]
    /\ UNCHANGED <<server, run, in_flight, expired, bound, appVars, requestVars, closerVars>>

\* A server asked to stop that goes on to drain with its gate open.
DrainGateOpen ==
    /\ server = "serving" /\ should_exit
    /\ server' = "draining"
    /\ UNCHANGED <<run, should_exit, gateVars, bound, appVars, requestVars, closerVars>>

\* The server leaves its loop: GracefulServer.shutdown, _drain_and_tear_down.
Drain ==
    /\ server = "serving" /\ should_exit
    /\ server' = "draining"
    /\ draining' = [draining EXCEPT ![run] = TRUE]
    /\ UNCHANGED <<run, should_exit, in_flight, expired, bound, appVars, requestVars, closerVars>>

\* The drain is over, and the teardown runs if there is something to tear down.
TearDown == server' = IF initialized THEN "tearing" ELSE "releasing"

\* wait_until_idle: the last request in flight has finished.
Idle ==
    /\ server = "draining" /\ in_flight[run] <= 0
    /\ TearDown
    /\ UNCHANGED <<run, should_exit, gateVars, bound, appVars, requestVars, closerVars>>

\* A wait without a timeout.
WindowNeverCloses == FALSE /\ UNCHANGED allVars

\* wait_until_idle: the drain window closes on requests that are still in flight.
WindowCloses ==
    /\ server = "draining" /\ in_flight[run] > 0
    /\ expired' = expired \union {run}
    /\ TearDown
    /\ UNCHANGED <<run, should_exit, draining, in_flight, bound, appVars, requestVars, closerVars>>

\* A teardown hook that failed is raised when they have all run, past the rest of
\* the server's shutdown.
TornDown ==
    /\ server = "tearing"
    /\ ForgetInstances
    /\ server' \in {"releasing", "off"}
    /\ UNCHANGED <<run, should_exit, gateVars, bound, requestVars, closerVars>>

\* uvicorn.Server.shutdown closes its sockets, then waits for the connections.
Release ==
    /\ server = "releasing"
    /\ server' = "closing"
    /\ bound' = bound \ {run}
    /\ UNCHANGED <<run, should_exit, gateVars, appVars, requestVars, closerVars>>

\* The requests that are still running are cancelled, and serve() returns.
ServerEnds ==
    /\ server = "closing"
    /\ server' = "off"
    /\ request' = [r \in Requests |->
                      IF Inside(r) /\ gate[r] = run THEN "cancelled" ELSE request[r]]
    /\ UNCHANGED <<run, should_exit, gateVars, bound, appVars, gate, closerVars>>

-----------------------------------------------------------------------------
(* Application.close: stop the server, then shut the application down.       *)

CallClose(c) ==
    /\ closer[c] = "idle"
    /\ closer' = [closer EXCEPT ![c] = "stopping"]
    /\ closes' = [closes EXCEPT ![c] = run]
    /\ should_exit' = IF server = "off" THEN should_exit ELSE TRUE
    /\ UNCHANGED <<server, run, gateVars, bound, appVars, requestVars>>

\* StarletteAdapter.stop returns when the server has ended, at once when there is none.
StopReturned(c) == closer[c] = "stopping" /\ server = "off"

\* A close that leaves the teardown to the server.
CloseTrusting(c) ==
    /\ StopReturned(c)
    /\ closer' = [closer EXCEPT ![c] = "ended"]
    /\ UNCHANGED <<serverVars, gateVars, bound, appVars, requestVars, closes>>

CloseShutsDown(c) ==
    /\ StopReturned(c)
    /\ closer' = [closer EXCEPT ![c] = IF initialized THEN "tearing" ELSE "ended"]
    /\ UNCHANGED <<serverVars, gateVars, bound, appVars, requestVars, closes>>

CloseEnds(c) ==
    /\ closer[c] = "tearing"
    /\ closer' = [closer EXCEPT ![c] = "ended"]
    /\ ForgetInstances
    /\ UNCHANGED <<serverVars, gateVars, bound, requestVars, closes>>

-----------------------------------------------------------------------------
\* The application may have been started by hand before it is served.
GateInit ==
    /\ server = "off" /\ run = 0 /\ should_exit = FALSE
    /\ draining = [g \in Runs |-> FALSE]
    /\ in_flight = [g \in Runs |-> 0]
    /\ bound = {} /\ expired = {}
    /\ initialized \in BOOLEAN /\ shut = FALSE /\ kept = {}
    /\ request = [r \in Requests |-> "idle"]
    /\ gate = [r \in Requests |-> 0]
    /\ closer = [c \in Closers |-> "idle"]
    /\ closes = [c \in Closers |-> 0]

ServerSteps ==
    Started \/ StartFails \/ Drain \/ Idle \/ WindowCloses \/ TornDown \/ Release \/ ServerEnds

Closes(c) == CloseShutsDown(c) \/ CloseEnds(c)

GateNext ==
    \/ StartServing \/ ServerSteps \/ Signal
    \/ \E r \in Requests : Resolve(r) \/ Keep(r) \/ End(r) \/ \E g \in Runs : Arrive(r, g)
    \/ \E c \in Closers : CallClose(c) \/ Closes(c)

GateSpec == GateInit /\ [][GateNext]_allVars

\* The loop goes round and its timers fire; hooks end.  No request is obliged to.
FairSpec ==
    /\ GateSpec
    /\ WF_allVars(ServerSteps)
    /\ \A c \in Closers : WF_allVars(Closes(c))

-----------------------------------------------------------------------------
(* Properties.                                                               *)

\* The state is what its variables' comments say it is.
TypeOK ==
    /\ server \in Serving \union {"off"}
    /\ run \in 0..MaxRuns /\ should_exit \in BOOLEAN
    /\ server # "off" => run \in Runs
    /\ draining \in [Runs -> BOOLEAN] /\ in_flight \in [Runs -> Nat]
    /\ bound \subseteq Runs /\ expired \subseteq Runs
    /\ initialized \in BOOLEAN /\ shut \in BOOLEAN /\ kept \subseteq Requests
    /\ request \in [Requests -> {"idle", "refused", "served", "resolving", "cancelled", "ended"}]
    /\ gate \in [Requests -> 0..MaxRuns]
    /\ closer \in [Closers -> {"idle", "stopping", "tearing", "ended"}]
    /\ closes \in [Closers -> 0..MaxRuns]

Admitted(g) == {r \in Requests : Inside(r) /\ gate[r] = g}

\* A gate counts exactly the requests it has admitted that have not left: what a
\* drain waits for, and what a request that is cancelled must not escape.
GateCountsRequests == \A g \in Runs : in_flight[g] = Cardinality(Admitted(g))

BeingTornDown == server = "tearing" \/ \E c \in Closers : closer[c] = "tearing"

\* Nobody is served from instances that are being destroyed or are gone, unless the
\* drain window of its run closed on it: the one exception the adapter makes.
NobodyServedFromTheDestroyed ==
    \A r \in Requests :
        Inside(r) /\ (BeingTornDown \/ ~initialized) => gate[r] \in expired

\* A container that refuses to resolve keeps nothing, unless a request outlasted a
\* drain window.
ShutMeansEmpty == shut => \A r \in kept : gate[r] \in expired

\* What a drain is for: it waits for exactly those it let in, and short of its window
\* closing none of them meets, or leaves behind, an instance of a container shut down.
DrainShieldsRequests ==
    GateCountsRequests /\ NobodyServedFromTheDestroyed /\ ShutMeansEmpty

\* Whoever has closed the application finds it closed, however many closed it at once
\* and whatever signal arrived meanwhile, until it is served again.
CloseLeavesItClosed ==
    \A c \in Closers :
        closer[c] = "ended" /\ server = "off" /\ closes[c] = run => ~initialized

\* No request can keep a process from closing: a call of close() returns although
\* none of the requests in flight ever does.
CloseReturns == \A c \in Closers : closer[c] = "stopping" ~> closer[c] = "ended"

\* A call of close() that has returned has freed the port the application listened on.
CloseFreesPort ==
    \A c \in Closers :
        closer[c] = "ended" /\ server = "off" => closes[c] \notin bound
==============================================================================
