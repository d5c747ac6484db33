------------------------------ MODULE AsgiServer ------------------------------
(***************************************************************************)
(* An application served by the framework's own HTTP server                *)
(* (adapters/asgi): listen() builds a server, the server runs the          *)
(* application's lifespan around its socket, stop() asks it to end, and    *)
(* each connection carries one request whose receive side stays open until *)
(* something really ends it.  A connection that is reset is gone at once,  *)
(* and its request runs on without one.                                    *)
(*                                                                         *)
(* This adapter does not drain.  Application.close() stops the server and  *)
(* tears the application down as two steps, and the server's own lifespan  *)
(* tears down whatever it finds when the last connection has gone, with    *)
(* requests that have lost theirs still in the application.                *)
(*                                                                         *)
(* The event loop runs one task at a time, so an action is the code from   *)
(* one await to the next.  An interrupt (Ctrl-C under asyncio.run) cancels *)
(* the task that serves, once, and nothing is served after it.             *)
(***************************************************************************)
EXTENDS Integers, FiniteSets

CONSTANTS
    Conns,              \* the connections clients open
    Calls,              \* the calls of Application.close() and of AsgiAdapter.stop()
    MaxServings,        \* bound: how often listen() is called
    AwaitsServer        \* a caller listens again only once the previous listen() has returned

ASSUME AsgiServerAssumption ==
    MaxServings \in Nat \ {0} /\ AwaitsServer \in BOOLEAN

Servings == 1..MaxServings

VARIABLES
    serving,    \* how far each call of listen() is
    stopped,    \* each server's event: it was asked to stop
    lifespan,   \* the application's end of each server's lifespan conversation
    current,    \* AsgiAdapter._server: the serving stop() reaches, 0 for none
    up,         \* the serving whose startup the running application came from, 0 when it is down
    calls,      \* how far each call of close() or stop() is, and the serving it reached
    cut,        \* the servings whose task was cancelled
    conn        \* what each connection is doing

vars == <<serving, stopped, lifespan, current, up, calls, cut, conn>>

\* The stages in which a call of listen() has not returned.
Running == {"starting", "binding", "serving", "closing", "leaving"}

\* The stages a call of listen() ends in.
Ended == {"ended", "failed", "unbound", "interrupted"}

Unused == [of |-> 0, stage |-> "none", here |-> TRUE, attached |-> FALSE, body |-> "unread",
           sent |-> "nothing", ended |-> FALSE, told |-> FALSE]

\* The connections of a server that keep it from closing: those whose transport stands,
\* whatever their request does.
Open(s) == {c \in Conns : conn[c].of = s /\ conn[c].attached}

Goes(s, stage) == serving' = [serving EXCEPT ![s] = stage]

Speaks(s, stage) == lifespan' = [lifespan EXCEPT ![s] = stage]

-----------------------------------------------------------------------------
(* Starting a server: AsgiAdapter.start, AsgiServer.serve and the lifespan.  *)

\* A caller listens again once listen() has returned, or where it does not wait for that,
\* once the close() that reached the server has and the port is free.
MayListen(s) ==
    /\ serving[s] = "idle"
    /\ \A t \in 1..(s - 1) :
          \/ serving[t] \in Ended
          \/ /\ ~AwaitsServer /\ serving[t] \in {"closing", "leaving"}
             /\ \E k \in Calls : calls[k].stage = "closed" /\ calls[k].of = t
    /\ \A k \in Calls : calls[k].stage # "tearing"
    /\ cut = {}

\* A startup of an application that is up returns at once.
Listen(s) ==
    /\ MayListen(s)
    /\ current' = s
    /\ Goes(s, IF up = 0 THEN "starting" ELSE "binding")
    /\ Speaks(s, IF up = 0 THEN "starting" ELSE "open")
    /\ UNCHANGED <<stopped, up, calls, cut, conn>>

StartupCompletes(s) ==
    /\ serving[s] = "starting"
    /\ up' = s
    /\ Goes(s, "binding")
    /\ Speaks(s, "open")
    /\ UNCHANGED <<stopped, current, calls, cut, conn>>

\* A server that takes any answer to its startup message for success.
StartupFailsUnread(s) ==
    /\ serving[s] = "starting"
    /\ up' = 0
    /\ Goes(s, "binding")
    /\ Speaks(s, "open")
    /\ UNCHANGED <<stopped, current, calls, cut, conn>>

\* A startup that raises is undone and reported; the runner ends the conversation.
StartupFails(s) ==
    /\ serving[s] = "starting"
    /\ up' = 0
    /\ current' = 0
    /\ Goes(s, "failed")
    /\ Speaks(s, "ended")
    /\ UNCHANGED <<stopped, calls, cut, conn>>

\* asyncio.start_server.
Binds(s) ==
    /\ serving[s] = "binding"
    /\ \A t \in Servings : serving[t] # "serving"
    /\ Goes(s, "serving")
    /\ UNCHANGED <<stopped, lifespan, current, up, calls, cut, conn>>

\* The address is taken: the lifespan was started outside the try that shuts it down.
BindFails(s) ==
    /\ serving[s] = "binding"
    /\ current' = 0
    /\ Goes(s, "unbound")
    /\ UNCHANGED <<stopped, lifespan, up, calls, cut, conn>>

-----------------------------------------------------------------------------
(* Stopping it.                                                              *)

\* The wait of serve() ends: no connection is accepted from here on.
SeesStop(s) ==
    /\ serving[s] = "serving" /\ stopped[s]
    /\ Goes(s, "closing")
    /\ UNCHANGED <<stopped, lifespan, current, up, calls, cut, conn>>

\* Leaving the block waits for nobody.
LetGo(s) == TRUE

\* Leaving the block waits until the last transport of the server has gone, which is not
\* until the last _handle has returned.
Drained(s) == Open(s) = {}

\* lifespan.shutdown: the application tears down whatever is up, its own startup or not.
ShutsLifespan(s) ==
    /\ stopped' = [stopped EXCEPT ![s] = FALSE]
    /\ Goes(s, "leaving")
    /\ Speaks(s, IF up = 0 THEN "answered" ELSE "tearing")

Leaves(s) ==
    /\ serving[s] = "closing"
    /\ Drained(s)
    /\ ShutsLifespan(s)
    /\ UNCHANGED <<current, up, calls, cut, conn>>

\* Every teardown hook has run, failed or not, and the instances are dropped.
LifespanTornDown(s) ==
    /\ lifespan[s] = "tearing"
    /\ up' = 0
    /\ Speaks(s, "answered")
    /\ UNCHANGED <<serving, stopped, current, calls, cut, conn>>

\* The answer is heard and start() returns, or raises what it reports.
Hears(s) ==
    /\ serving[s] = "leaving"
    /\ lifespan[s] = "answered"
    /\ current' = 0
    /\ Goes(s, "ended")
    /\ Speaks(s, "ended")
    /\ UNCHANGED <<stopped, up, calls, cut, conn>>

\* A cancellation ends the await it finds serve() in: a startup is left where it stands,
\* the wait for the event becomes the wait for the connections, that wait becomes the
\* shutdown of the lifespan, and the wait for its answer becomes the end.
Interrupt(s) ==
    /\ serving[s] \in Running /\ s \notin cut
    /\ cut' = cut \cup {s}
    /\ \/ /\ serving[s] \in {"starting", "binding"}
          /\ Goes(s, "interrupted")
          /\ Speaks(s, IF serving[s] = "starting" THEN "ended" ELSE "open")
          /\ UNCHANGED stopped
       \/ /\ serving[s] = "serving"
          /\ Goes(s, "closing")
          /\ UNCHANGED <<stopped, lifespan>>
       \/ serving[s] = "closing" /\ ShutsLifespan(s)
       \/ /\ serving[s] = "leaving"
          /\ Goes(s, "ended")
          /\ UNCHANGED <<stopped, lifespan>>
    /\ current' = IF serving'[s] \in Ended THEN 0 ELSE current
    /\ UNCHANGED <<up, calls, conn>>

\* AsgiAdapter.stop: reaches the server of the last listen(), when there is one.
StopReaches == stopped' = [s \in Servings |-> stopped[s] \/ s = current]

Call(k, stage) == calls' = [calls EXCEPT ![k] = [stage |-> stage, of |-> current]]

Stop(k) ==
    /\ calls[k].stage = "idle"
    /\ StopReaches
    /\ Call(k, "stopped")
    /\ UNCHANGED <<serving, lifespan, current, up, cut, conn>>

\* Application.close: stop() returns at once, and the teardown begins behind it.
Close(k) ==
    /\ calls[k].stage = "idle"
    /\ StopReaches
    /\ Call(k, IF up = 0 THEN "closed" ELSE "tearing")
    /\ UNCHANGED <<serving, lifespan, current, up, cut, conn>>

CloseTornDown(k) ==
    /\ calls[k].stage = "tearing"
    /\ up' = 0
    /\ calls' = [calls EXCEPT ![k].stage = "closed"]
    /\ UNCHANGED <<serving, stopped, lifespan, current, cut, conn>>

-----------------------------------------------------------------------------
(* One connection: AsgiServer._handle and its channel.                       *)

Turns(c, record) ==
    /\ conn' = [conn EXCEPT ![c] = record]
    /\ UNCHANGED <<serving, stopped, lifespan, current, up, calls, cut>>

Connect(c, s) ==
    /\ serving[s] = "serving" /\ conn[c].stage = "none"
    /\ Turns(c, [conn[c] EXCEPT !.of = s, !.stage = "reading", !.attached = TRUE])

\* The client's end of file: the connection stands until this end closes it too.
PeerLeaves(c) ==
    /\ conn[c].attached /\ conn[c].here
    /\ Turns(c, [conn[c] EXCEPT !.here = FALSE])

\* A read or a write finds the connection reset: the transport is lost there and then,
\* while _handle goes on with what it was doing.
ConnectionLost(c) ==
    /\ conn[c].attached
    /\ Turns(c, [conn[c] EXCEPT !.here = FALSE, !.attached = FALSE])

\* _handle closes the connection, which stands no longer once its client has read.
HangsUp(c) == Turns(c, [conn[c] EXCEPT !.stage = "closed", !.attached = FALSE])

\* A request that is not one is answered with a status; a client that left is not answered.
ReadFails(c) ==
    /\ conn[c].stage = "reading"
    /\ HangsUp(c)

\* The whole request was read, and the application is called.
ReadRequest(c) ==
    /\ conn[c].stage = "reading" /\ conn[c].attached
    /\ Turns(c, [conn[c] EXCEPT !.stage = "app"])

\* A receive side that reads every pause of a client as its end.
WatcherHurries(c) ==
    /\ conn[c].stage = "app" /\ ~conn[c].ended
    /\ Turns(c, [conn[c] EXCEPT !.ended = TRUE])

\* _watch_for_the_peer_leaving.
WatcherSees(c) ==
    /\ conn[c].stage = "app" /\ ~conn[c].here /\ ~conn[c].ended
    /\ Turns(c, [conn[c] EXCEPT !.ended = TRUE])

InApp(c) == conn[c].stage = "app" /\ conn[c].body # "again"

\* AsgiHttpRequest.body: the first read takes the one message there is, and keeps the
\* body unless it is over the bound.
ReadBody(c) ==
    /\ InApp(c) /\ conn[c].body = "unread"
    /\ \E outcome \in {"kept", "refused"} : Turns(c, [conn[c] EXCEPT !.body = outcome])

\* A body that was refused was not kept: who reads it again, a filter say, asks for the
\* next message, and the only one there will be is the disconnect.
ReadBodyAgain(c) ==
    /\ InApp(c) /\ conn[c].body = "refused" /\ conn[c].sent = "nothing" /\ ~conn[c].told
    /\ Turns(c, [conn[c] EXCEPT !.body = "again"])

\* _ConnectionChannel.receive, once the body was taken: the disconnect, when the exchange
\* has ended.
Receive(c) ==
    /\ conn[c].stage = "app" /\ conn[c].body # "unread"
    /\ conn[c].ended /\ ~conn[c].told
    /\ Turns(c, [conn[c] EXCEPT !.told = TRUE,
                                !.body = IF @ = "again" THEN "refused" ELSE @])

StartResponse(c) ==
    /\ InApp(c) /\ conn[c].sent = "nothing"
    /\ Turns(c, [conn[c] EXCEPT !.sent = "started"])

\* The last body message, sent without a note of it.
FinishUnnoted(c) ==
    /\ InApp(c) /\ conn[c].sent = "started" /\ conn[c].attached
    /\ Turns(c, [conn[c] EXCEPT !.sent = "finished"])

\* The last body message ends the exchange, which is what an application that goes on
\* watching for a disconnect is waiting for.  On a connection that was lost it raises.
FinishResponse(c) ==
    /\ InApp(c) /\ conn[c].sent = "started" /\ conn[c].attached
    /\ Turns(c, [conn[c] EXCEPT !.sent = "finished", !.ended = TRUE])

\* The application returns once it heard of the disconnect or has no reason to wait for
\* it, fails, or writes to a client that has gone.
Returns(c) ==
    /\ InApp(c)
    /\ HangsUp(c)

\* An application that watches until it is told returns only then.
ReturnsTold(c) == conn[c].told /\ Returns(c)

-----------------------------------------------------------------------------
Init ==
    /\ serving = [s \in Servings |-> "idle"]
    /\ stopped = [s \in Servings |-> FALSE]
    /\ lifespan = [s \in Servings |-> "none"]
    /\ current = 0
    /\ up = 0
    /\ calls = [k \in Calls |-> [stage |-> "idle", of |-> 0]]
    /\ cut = {}
    /\ conn = [c \in Conns |-> Unused]

ServerStep(s) ==
    \/ Listen(s) \/ StartupCompletes(s) \/ StartupFails(s) \/ Binds(s) \/ BindFails(s)
    \/ Interrupt(s) \/ SeesStop(s) \/ Leaves(s) \/ LifespanTornDown(s) \/ Hears(s)

CallStep(k) == Stop(k) \/ Close(k) \/ CloseTornDown(k)

ConnStep(c) ==
    \/ \E s \in Servings : Connect(c, s)
    \/ PeerLeaves(c) \/ ConnectionLost(c) \/ ReadFails(c) \/ ReadRequest(c) \/ WatcherSees(c)
    \/ ReadBody(c) \/ ReadBodyAgain(c) \/ Receive(c)
    \/ StartResponse(c) \/ FinishResponse(c) \/ Returns(c)

Next ==
    \/ \E s \in Servings : ServerStep(s)
    \/ \E k \in Calls : CallStep(k)
    \/ \E c \in Conns : ConnStep(c)

\* The loop runs what is ready: the server's own steps, its watcher and its receivers.
\* Hooks end and clients send what they began, or leave.
ServerFairness ==
    \A s \in Servings :
        /\ WF_vars(StartupCompletes(s)) /\ WF_vars(Binds(s) \/ BindFails(s))
        /\ WF_vars(SeesStop(s)) /\ WF_vars(Leaves(s))
        /\ WF_vars(LifespanTornDown(s)) /\ WF_vars(Hears(s))

\* An application reads the body, answers, and watches until it is told that the exchange
\* has ended; nobody who waits for an answer that cannot come waits for ever.
ConnFairness ==
    \A c \in Conns :
        /\ WF_vars(ReadRequest(c) \/ ReadFails(c)) /\ WF_vars(ReadBody(c))
        /\ WF_vars(StartResponse(c)) /\ WF_vars(FinishResponse(c))
        /\ WF_vars(WatcherSees(c)) /\ WF_vars(Receive(c)) /\ WF_vars(ReturnsTold(c))
        /\ WF_vars(conn[c].body = "again" /\ PeerLeaves(c))

Spec == Init /\ [][Next]_vars /\ ServerFairness /\ ConnFairness

-----------------------------------------------------------------------------
(* Properties.                                                               *)

\* Nobody is told of a disconnect while the client is there and its response unfinished:
\* an application that stops writing when it sees one would truncate the response.
NoEarlyDisconnect ==
    \A c \in Conns : conn[c].told => ~conn[c].here \/ conn[c].sent = "finished"

\* Somebody called close() while the serving ran, or cut it short.
TornDownBehind(s) ==
    s \in cut \/ \E k \in Calls : calls[k].stage \in {"tearing", "closed"} /\ calls[k].of = s

\* No request whose connection stands is with an application that is down, however slowly
\* its client sent it and whenever the server was stopped: the server that was stopped
\* waits for the connections before the teardown.  close() does not, on an adapter that
\* cannot drain, and neither does an interrupt; and a request whose connection was reset
\* is waited for by nobody.
ServedWhileUp ==
    \A c \in Conns :
        (conn[c].stage = "app" /\ conn[c].attached /\ up = 0) => TornDownBehind(conn[c].of)

\* The same of every request.  It does not hold: the one whose connection was reset is with
\* the application when the lifespan is shut down (server.py:67, :72).
EveryRequestServedWhileUp ==
    \A c \in Conns : (conn[c].stage = "app" /\ up = 0) => TornDownBehind(conn[c].of)

\* A call of listen() that returned left nothing behind: no connection, and the
\* application down.  A bind that fails leaves it up, and is not covered.
EndedReleases ==
    \A s \in Servings :
        /\ serving[s] \in {"ended", "failed"} /\ s \notin cut
        /\ \A t \in Servings : t > s => serving[t] = "idle"
        => up = 0 /\ Open(s) = {}

\* The teardown comes after the last connection of its serving, and before listen()
\* returns (AsgiServer.serve).
NobodyServedDown == ServedWhileUp /\ EndedReleases

\* A server that nobody asked to stop serves an application that is up: the application
\* it started, or found started, is not taken down under it.
RunsUntilStopped ==
    \A s \in Servings :
        (serving[s] = "serving" /\ up = 0)
        => s \in cut \/ \E k \in Calls : calls[k].of = s

\* A server that was asked to stop ends: no receive side is left open that keeps an
\* application watching it, and so a connection, and so the server, for ever.
StopEndsServing == \A s \in Servings : stopped[s] ~> serving[s] \in Ended
==============================================================================
