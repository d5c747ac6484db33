----------------------------- MODULE RequestPath -----------------------------
(***************************************************************************)
(* The way of one request through its route: the middleware chain, the     *)
(* stages of the route, and whatever renders a failure of either           *)
(* (runtime/execution.py, pipeline/filters.py, observability.py).  What    *)
(* its handler's parameters are bound to is left to the constants; module  *)
(* RequestBinding says it with ParameterBinding.                           *)
(*                                                                         *)
(* The calls under way are a stack of frames.  A link is one invocation of *)
(* the chain, a middleware or the route at its end; a route and a          *)
(* rendering are the two executions a link can call.  What a frame returns *)
(* or raises is a signal to the frame below it.  The application's parts   *)
(* (middlewares, guards, constructors, handlers, filters) do whatever      *)
(* their contract lets them.  Sinks and tracers are assumed not to raise.  *)
(***************************************************************************)
EXTENDS Naturals, Sequences, SequencesExt

CONSTANTS
    Plans,        \* the routes considered: filters, guards, observation, handler, and
                  \* what the requests for it may carry
    Middlewares,  \* how many middlewares stand before the route
    Mro,          \* what each exception type is, itself first
    Raised,       \* the types that the application's parts raise
    MaxNext,      \* how often a request's middlewares call next between them
    IsCompiled(_),   \* whether a handler's signature compiles
    IsBound(_, _),   \* whether its parameters can be bound to what was sent,
    BoundTo(_, _),   \* and to what
    ReadsBody(_),    \* whether a body is read for one of them
    Nothing

RequestObjects == {"asked", "rewritten"}

\* The types of the refusals the runtime's own limits produce.
Limits == {"Timeout", "TooLarge"}

IsSequence(s) == s \in Seq(ToSet(s))

ASSUME PathAssumption ==
    /\ \A p \in Plans :
          /\ IsSequence(p.filters) /\ p.globals \subseteq DOMAIN p.filters
          /\ p.guarded \in BOOLEAN /\ p.observed \in BOOLEAN
    /\ \A e \in DOMAIN Mro : IsSequence(Mro[e])
    /\ Raised \union {"Timeout", "TooLarge", "Refused", "TypeError", "ParameterBindingError"}
         \subseteq DOMAIN Mro
    /\ Middlewares \in Nat /\ MaxNext \in Nat
    /\ Nothing \notin RequestObjects \union {"bare", "full", "answer", "error", "cancelled"}

VARIABLES
    plan,      \* the route that is asked for
    frames,    \* the calls under way, innermost last
    signal,    \* what was just returned or raised, Nothing while a frame is running
    outcome,   \* how the handler ended, Nothing before
    calls,     \* how often a middleware has called next
    active,    \* the request bound in the context variable
    cache,     \* per request, whether its cache holds the request-scoped instance
    built,     \* ghost: how many instances were built for each request
    ended,     \* ghost: how the last execution ended, and what became of its observation
    spoilt     \* ghost: how many attempts to render a failure have failed, up to two

held == <<active, cache, built>>
pathVars == <<plan, frames, signal, outcome, calls, held, ended, spoilt>>

-----------------------------------------------------------------------------
(* Which filter is asked, and when.                                          *)

\* The runtime's own filter stands in front of the application's, at position 0.
Declared(i) ==
    IF i = 0 THEN {"Exception"}
    ELSE IF plan.filters[i] = {} THEN {"Exception"} ELSE plan.filters[i]

Matching(i, e) == Declared(i) \intersect ToSet(Mro[e])

CatchAll(i) == Declared(i) \subseteq {"BaseException", "Exception"}

Distance(i, e) == CHOOSE n \in DOMAIN Mro[e] :
    /\ Mro[e][n] \in Declared(i)
    /\ \A k \in 1..(n - 1) : Mro[e][k] \notin Declared(i)

\* A filter of named types comes before a catch-all, a nearer type before a farther one,
\* and of two alike the one declared later.
Before(i, j, e) ==
    \/ CatchAll(j) /\ ~CatchAll(i)
    \/ /\ CatchAll(i) = CatchAll(j)
       /\ \/ Distance(i, e) < Distance(j, e)
          \/ Distance(i, e) = Distance(j, e) /\ i > j

MatchingFilters(e, filters) == {i \in filters \union {0} : Matching(i, e) # {}}

First(e, filters) == CHOOSE i \in filters : \A j \in filters \ {i} : Before(i, j, e)

-----------------------------------------------------------------------------
(* Frames.                                                                   *)

Response == [is |-> "answer"]
Error(e) == [is |-> "error", of |-> e]

Link(i, r) == [kind |-> "link", index |-> i, request |-> r, at |-> "enter"]

\* An execution binds its request unless it finds it bound.
Execution(kind, r, e) ==
    [kind |-> kind, request |-> r, at |-> IF kind = "route" THEN "observe" ELSE "resolve",
     context |-> IF kind = "route" THEN Nothing ELSE "bare", controller |-> FALSE,
     arguments |-> Nothing, filters |-> Nothing, observation |-> "none", error |-> e, asked |-> {},
     reentered |-> FALSE, unbinds |-> IF active = r THEN Nothing ELSE active]

Top == Last(frames)
Running(kind) == signal = Nothing /\ frames # <<>> /\ Top.kind = kind
Becomes(f) == frames' = Append(Front(frames), f)
Calls(f, g) == frames' = Append(Front(frames), f) \o <<g>>

Enters(r) == active' = r /\ UNCHANGED <<cache, built>>

\* A frame gives up its place, and what it had bound.
Leaves(s) == frames' = Front(frames) /\ signal' = s

\* The request-scoped provider is resolved for a request.
Resolves(r) ==
    /\ cache' = [cache EXCEPT ![r] = TRUE]
    /\ built' = [built EXCEPT ![r] = IF cache[r] THEN @ ELSE @ + 1]

-----------------------------------------------------------------------------
(* The chain: run_middleware_chain.  A route without middleware is a chain   *)
(* of its end alone.                                                         *)

\* handle binds the request before anything runs for it.
Handle ==
    /\ frames = <<>> /\ signal = Nothing /\ outcome = Nothing
    /\ frames' = <<Link(1, "asked")>>
    /\ Enters("asked")
    /\ UNCHANGED <<plan, signal, outcome, calls, ended, spoilt>>

\* Whatever is raised in a link is rendered where it was raised.
Renders(e) ==
    /\ Calls([Top EXCEPT !.at = "rendering"], Execution("rendering", Top.request, e))
    /\ signal' = Nothing
    /\ Enters(Top.request)

ToMiddleware ==
    /\ Running("link") /\ Top.at = "enter" /\ Top.index <= Middlewares
    /\ \/ Becomes([Top EXCEPT !.at = "using"]) /\ UNCHANGED <<signal, held>>
       \/ \E e \in Raised : Renders(e)
    /\ UNCHANGED <<plan, outcome, calls, ended, spoilt>>

ToRoute ==
    /\ Running("link") /\ Top.at = "enter" /\ Top.index > Middlewares
    /\ Calls([Top EXCEPT !.at = "routing"], Execution("route", Top.request, Nothing))
    /\ Enters(Top.request)
    /\ UNCHANGED <<plan, signal, outcome, calls, ended, spoilt>>

Using == Running("link") /\ Top.at = "using"

\* A middleware hands on the request it was given, or another one.
CallNext ==
    /\ Using /\ calls < MaxNext
    /\ calls' = calls + 1
    /\ \E r \in {Top.request, "rewritten"} :
          frames' = Append(frames, Link(Top.index + 1, r))
    /\ UNCHANGED <<plan, signal, outcome, held, ended, spoilt>>

\* A middleware asks its container for the provider, before or after it calls next.
AskContainer ==
    /\ Using
    /\ Resolves(active)
    /\ UNCHANGED <<plan, frames, signal, outcome, calls, active, ended, spoilt>>

\* A middleware returns the response it received, or one of its own, or it raises.
MiddlewareEnds ==
    /\ Using
    /\ \/ Leaves(Response) /\ UNCHANGED held
       \/ \E e \in Raised : Renders(e)
    /\ UNCHANGED <<plan, outcome, calls, ended, spoilt>>

\* What was called has returned or raised.
Hear ==
    /\ signal # Nothing /\ frames # <<>>
    /\ \/ /\ Top.at = "rendering" \/ (Top.at = "routing" /\ signal = Response)
          /\ Leaves(signal)
          /\ UNCHANGED held
       \/ /\ Top.at = "using"
          /\ signal' = Nothing
          /\ UNCHANGED <<frames, held>>
       \/ /\ Top.at \in {"using", "routing"} /\ signal # Response
          /\ Renders(signal.of)
    /\ UNCHANGED <<plan, outcome, calls, ended, spoilt>>

\* The request is over once the outermost link has ended, and what it held is let go.
Finish ==
    /\ frames = <<>> /\ signal # Nothing /\ outcome = Nothing
    /\ outcome' = signal.is
    /\ active' = Nothing
    /\ cache' = [cache EXCEPT !["asked"] = FALSE]
    /\ UNCHANGED <<plan, frames, signal, calls, built, ended, spoilt>>

\* A cancellation is no Exception: it passes every frame, and their finally clauses run.
Cancel ==
    /\ frames # <<>>
    /\ frames' = <<>> /\ signal' = Nothing
    /\ outcome' = "cancelled"
    /\ active' = Nothing
    /\ cache' = [cache EXCEPT !["asked"] = FALSE]
    /\ UNCHANGED <<plan, calls, built, ended, spoilt>>

-----------------------------------------------------------------------------
(* How an execution ends.                                                    *)

Unbinds == active' = IF Top.unbinds = Nothing THEN active ELSE Top.unbinds

\* An execution whose route lets go of what is scoped to its request.
ReturnsForgetting(f, s) ==
    /\ Leaves(s)
    /\ Unbinds
    /\ cache' = [cache EXCEPT ![f.request] = FALSE]
    /\ ended' = [with |-> s.is, observation |-> f.observation]
    /\ UNCHANGED built

\* The response and the request are unbound, whether it returns or raises.
Returns(f, s) ==
    /\ Leaves(s)
    /\ Unbinds
    /\ ended' = [with |-> s.is, observation |-> f.observation]
    /\ UNCHANGED <<cache, built>>

\* finish_request: the observation is closed with the answer.
Closed(f) ==
    IF f.observation = "none" THEN f
    ELSE [f EXCEPT !.observation = IF @ = "open" THEN "closed" ELSE "closed again"]

\* The exception is put to the filters, from the first that matches it.
Asking(f, e, filters, at) ==
    [f EXCEPT !.at = at, !.error = e, !.filters = filters,
              !.asked = MatchingFilters(e, filters), !.reentered = FALSE]

\* The except clause: a context is built if no stage was handed one, and the filters are
\* those resolved for the route, or what can be resolved of the application's own.
Fails(f, e) ==
    LET named == [f EXCEPT !.error = e,
                     !.context = IF @ # Nothing THEN @
                                 ELSE IF f.controller THEN "full" ELSE "bare"]
    IN  IF f.filters = Nothing THEN [named EXCEPT !.at = "resolving globals"]
        ELSE Asking(named, e, f.filters, "except")

-----------------------------------------------------------------------------
(* The route: execute_http_route.                                            *)

InRoute(at) == Running("route") /\ Top.at = at
Quietly == UNCHANGED <<plan, signal, outcome, calls, held, ended, spoilt>>

Observe ==
    /\ InRoute("observe")
    /\ Becomes([Top EXCEPT !.at = "gate",
                           !.context = IF plan.observed THEN "bare" ELSE Nothing,
                           !.observation = IF plan.observed THEN "open" ELSE "none"])
    /\ Quietly

\* The guards and the filters are resolved, and the guards are handed a context.
Gate ==
    /\ InRoute("gate")
    /\ Becomes([Top EXCEPT !.at = IF plan.guarded THEN "guards" ELSE "controller",
                           !.context = IF plan.guarded THEN "bare" ELSE @,
                           !.filters = DOMAIN plan.filters])
    /\ Quietly

GuardsAdmit ==
    /\ InRoute("guards")
    /\ Becomes([Top EXCEPT !.at = "controller"])
    /\ Quietly

\* A controller that is built under the context of the guards.
BuildControllerInPlace ==
    /\ InRoute("controller")
    /\ Becomes([Top EXCEPT !.at = "binding", !.controller = TRUE])
    /\ Resolves(Top.request)
    /\ UNCHANGED <<plan, signal, outcome, calls, active, ended, spoilt>>

\* Every later stage is handed a context that names the controller.
BuildController ==
    /\ InRoute("controller")
    /\ Becomes([Top EXCEPT !.at = "binding", !.controller = TRUE, !.context = Nothing])
    /\ Resolves(Top.request)
    /\ UNCHANGED <<plan, signal, outcome, calls, active, ended, spoilt>>

\* A stage may be handed a context, which is built if there is none.
Handed(f) == {f, [f EXCEPT !.context = IF @ = Nothing THEN "full" ELSE @]}

\* The pipes and interceptors are resolved, and the arguments bound and piped.  A body is
\* measured when it is read for a parameter.
BindParameters ==
    /\ InRoute("binding")
    /\ \E f \in Handed(Top), sent \in plan.contents :
          \/ /\ IsBound(plan.handler, sent)
             /\ Becomes([f EXCEPT !.at = "call", !.arguments = BoundTo(plan.handler, sent)])
          \/ /\ ~IsBound(plan.handler, sent)
             /\ Becomes(Fails(f, "ParameterBindingError"))
          \/ /\ ReadsBody(plan.handler)
             /\ Becomes(Fails(f, "TooLarge"))
    /\ Quietly

\* The interceptors and the handler run.
CallHandler ==
    /\ InRoute("call")
    /\ \E f \in Handed(Top) : Becomes([f EXCEPT !.at = "write", !.arguments = Nothing])
    /\ Quietly

\* A stage raises, or the deadline finds it waiting.
StageFails ==
    /\ Running("route")
    /\ \/ /\ Top.at \in {"gate", "guards", "controller", "binding", "call"}
          /\ Top.at = "gate" => plan.guarded \/ plan.filters # <<>>
          /\ \E e \in Raised \union {"Timeout"} :
                Becomes(Fails([Top EXCEPT !.arguments = Nothing], e))
       \/ Top.at = "guards" /\ Becomes(Fails(Top, "Refused"))
       \/ Top.at = "write" /\ Becomes(Fails(Top, "TypeError"))
    /\ Quietly

\* A response that is measured before the clock is read.
WriteResponseMeasured ==
    /\ InRoute("write")
    /\ \/ Becomes(Fails(Closed(Top), "Timeout")) /\ Quietly
       \/ /\ Returns(Closed(Top), Response)
          /\ UNCHANGED <<plan, outcome, calls, spoilt>>

\* The response exists: the clock is read, and only then is the observation closed.
WriteResponse ==
    /\ InRoute("write")
    /\ \/ Becomes(Fails(Top, "Timeout")) /\ Quietly
       \/ /\ Returns(Closed(Top), Response)
          /\ UNCHANGED <<plan, outcome, calls, spoilt>>

-----------------------------------------------------------------------------
(* Rendering a failure: execute_http_exception, _render_failure, and         *)
(* handle_exception.                                                         *)

Spoils == spoilt' = IF spoilt = 2 THEN 2 ELSE spoilt + 1

\* The filters of the route are resolved and the rendering observed.
Resolve ==
    /\ Running("rendering") /\ Top.at = "resolve"
    /\ \/ /\ Becomes([Asking(Top, Top.error, DOMAIN plan.filters, "try") EXCEPT
                         !.observation = IF plan.observed THEN "open" ELSE "none"])
          /\ UNCHANGED spoilt
       \/ /\ \E e \in Raised : Becomes(Fails(Top, e))
          /\ Spoils
    /\ UNCHANGED <<plan, signal, outcome, calls, held, ended>>

\* Where the route's filters could not be resolved, the application's are, or none.
ResolveGlobals ==
    /\ signal = Nothing /\ frames # <<>> /\ Top.at = "resolving globals"
    /\ \E filters \in {plan.globals, {}} :
          Becomes(Asking(Top, Top.error, filters, "except"))
    /\ Quietly

InChain == signal = Nothing /\ frames # <<>> /\ Top.at \in {"try", "except"}
Asked == First(Top.error, Top.asked)

\* A filter has nothing to say to the exception.
Decline ==
    /\ InChain /\ Top.asked # {}
    /\ Asked = 0 => Top.error \notin Limits
    /\ Becomes([Top EXCEPT !.asked = @ \ {Asked}])
    /\ Quietly

\* A filter raises: the chain starts again for what it raised, but only once.
FilterRaises ==
    /\ InChain /\ Top.asked # {} /\ Asked # 0 /\ ~Top.reentered
    /\ \E e \in Raised :
          Becomes([Asking(Top, e, Top.filters, Top.at) EXCEPT !.reentered = TRUE])
    /\ Quietly

\* Somebody answers: a filter, the runtime's own for its limits, or the problem details
\* once nobody is left or a filter has raised in the chain's second round.
Answered ==
    /\ InChain
    /\ \/ Top.asked = {}
       \/ Top.asked # {} /\ (Asked = 0 => Top.error \in Limits)
    /\ Returns(Closed(Top), Response)
    /\ UNCHANGED <<plan, outcome, calls, spoilt>>

\* An execution that lets an unwritable answer through.
UnwritableEscapes ==
    /\ InChain /\ Top.asked # {} /\ Asked # 0
    /\ Spoils
    /\ Returns(Top, Error("TypeError"))
    /\ UNCHANGED <<plan, outcome, calls>>

\* A filter answers with what no response can be written from.  In a rendering that is
\* one more failure to render; in an except clause nothing is left to catch it.
Unwritable ==
    /\ InChain /\ Top.asked # {} /\ Asked # 0
    /\ Spoils
    /\ \/ /\ Top.at = "try"
          /\ Becomes(Fails(Top, "TypeError"))
          /\ UNCHANGED <<signal, held, ended>>
       \/ /\ Top.at = "except"
          /\ Returns(Top, Error("TypeError"))
    /\ UNCHANGED <<plan, outcome, calls>>

-----------------------------------------------------------------------------
PathInit ==
    /\ plan \in Plans /\ IsCompiled(plan.handler)
    /\ frames = <<>> /\ signal = Nothing /\ outcome = Nothing /\ calls = 0
    /\ active = Nothing
    /\ cache = [r \in RequestObjects |-> FALSE]
    /\ built = [r \in RequestObjects |-> 0]
    /\ ended = Nothing /\ spoilt = 0

PathNext ==
    \/ Handle \/ ToMiddleware \/ ToRoute \/ CallNext \/ AskContainer
    \/ MiddlewareEnds \/ Hear \/ Finish \/ Cancel
    \/ Observe \/ Gate \/ GuardsAdmit \/ BuildController \/ BindParameters
    \/ CallHandler \/ StageFails \/ WriteResponse
    \/ Resolve \/ ResolveGlobals \/ Decline \/ FilterRaises \/ Answered \/ Unwritable

PathSpec == PathInit /\ [][PathNext]_pathVars

-----------------------------------------------------------------------------
(* Properties.                                                               *)

Over == outcome # Nothing

\* An execution that answers has closed its observation once, whichever of its stages
\* failed and however late; one that raises instead leaves it open.
MeasuredOnce ==
    /\ \A n \in DOMAIN frames :
          frames[n].kind # "link" => frames[n].observation \in {"none", "open"}
    /\ ended # Nothing =>
          \/ ~plan.observed /\ ended.observation = "none"
          \/ plan.observed /\ ended.with = "answer" /\ ended.observation \in {"closed", "none"}
          \/ plan.observed /\ ended.with = "error" /\ ended.observation \in {"open", "none"}

\* The filters are handed the context of the stage the failure has reached: it names a
\* controller exactly when one was built.
ContextNamesTheStage ==
    InChain => Top.context = IF Top.controller THEN "full" ELSE "bare"

\* Whatever the middlewares, the handler and the filters ask of the container, and
\* however often the route is run, a request has one request-scoped instance, and when
\* it is over it is bound nowhere and keeps none.
OneInstancePerRequest ==
    /\ \A r \in RequestObjects : built[r] <= 1
    /\ Over => active = Nothing /\ ~cache["asked"]

\* What an application's part raises never reaches the transport.  All that does is that
\* nothing could be written from a filter's answer, after a first attempt to render the
\* failure had failed too.
EscapesOnlyUnwritten ==
    outcome = "error" => spoilt = 2 /\ signal = Error("TypeError")

\* The runtime answers for its own limits only when every filter the application declared
\* has let the exception pass, those for BaseException alone excepted.
LimitsAnswerLast ==
    InChain /\ Top.asked # {} /\ Asked = 0 =>
        \A i \in Top.asked \ {0} : Declared(i) = {"BaseException"}

\* The filters are asked in their order, with what the failed stage left them.
FiltersAreAsked == ContextNamesTheStage /\ LimitsAnswerLast
=============================================================================
