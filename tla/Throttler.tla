------------------------------ MODULE Throttler ------------------------------
(***************************************************************************)
(* How a route's callers are counted and refused (security/throttler.py):  *)
(* who a request is charged to, the budget it is counted against, the      *)
(* sliding windows of the in-process store and the eviction that bounds    *)
(* them.  Nothing is awaited while the in-process store counts, so one     *)
(* request is one action.                                                  *)
(*                                                                         *)
(* The clock reads a whole number of ticks, TicksPerSecond to the second:  *)
(* windows are declared in seconds and a reading falls between them.       *)
(* The world in front of the application is part of the model: a client    *)
(* sends a forwarding header of its own making, and every trusted proxy    *)
(* on the way appends the address it was reached from.                     *)
(***************************************************************************)
EXTENDS Integers, FiniteSets, SequencesExt

CONSTANTS
    Clients,        \* the addresses requests come from; a transport that names no peer is one
    Proxies,        \* trusted_proxies: the addresses that may name a caller
    Garbage,        \* a header entry that is no address
    Claims,         \* the headers a client may send
    Paths,          \* the proxies a request may pass, in order
    Routes,
    Skipped,        \* the routes marked with SkipThrottle
    OwnBudget,      \* the routes that declare a limit and a window of their own
    HandlerOf,      \* the function serving each route: an inherited one serves several
    Budget,         \* the limit and ttl of each such route, and under None the application's
    MaxKeys,        \* InMemoryThrottlerStorage.max_keys
    TicksPerSecond,
    MaxTime,        \* bound: the last reading of the clock
    None

Callers == Clients \cup Proxies
Handlers == {HandlerOf[route] : route \in OwnBudget}
Keys == Callers \X (Handlers \cup {None})

\* What a client may spend: the budget of a route, or under None the one all others share.
Allowances == Clients \X (OwnBudget \cup {None})

ASSUME ThrottlerAssumption ==
    /\ Clients \cap Proxies = {} /\ Garbage \notin Callers /\ None \notin Callers
    /\ Claims \subseteq Seq(Clients \cup Proxies \cup {Garbage})
    /\ Paths \subseteq Seq(Proxies)
    /\ Skipped \subseteq Routes /\ OwnBudget \subseteq Routes
    /\ None \notin Routes /\ None \notin Handlers
    /\ Budget \in [OwnBudget \cup {None} -> [limit : Nat, ttl : Nat \ {0}]]
    /\ MaxKeys \in Nat \ {0} /\ TicksPerSecond \in Nat \ {0} /\ MaxTime \in Nat

VARIABLES
    clock,
    order,      \* the keys the store holds, least recently used first
    window,     \* the times each key's requests were counted, oldest first
    log,        \* ghost: when each allowance was spent, since its key was last evicted
    told        \* ghost: when a refused client was told to come back, -1 if it was not or never may

vars == <<clock, order, window, log, told>>

-----------------------------------------------------------------------------
(* Whom a request is charged to.                                             *)

Peer(client, path) == IF path = <<>> THEN client ELSE Last(path)

\* The header once every proxy on the way has appended the address it saw.
Header(client, claim, path) ==
    IF path = <<>> THEN claim ELSE claim \o <<client>> \o Front(path)

\* The header read as the client wrote it, from the left.
ForwardedFromTheLeft(header) ==
    LET untrusted == {i \in 1..Len(header) : header[i] \notin Proxies}
    IN  IF untrusted = {} THEN None
        ELSE LET entry == header[CHOOSE i \in untrusted : \A j \in untrusted : i <= j]
             IN  IF entry = Garbage THEN None ELSE entry

\* _forwarded_client: the rightmost entry no trusted proxy wrote itself; None when it is
\* no address, or when there is none.
Forwarded(header) ==
    LET untrusted == {i \in 1..Len(header) : header[i] \notin Proxies}
    IN  IF untrusted = {} THEN None
        ELSE LET entry == header[CHOOSE i \in untrusted : \A j \in untrusted : i >= j]
             IN  IF entry = Garbage THEN None ELSE entry

\* The default key resolver: a header is read only when a trusted proxy sent it.
Caller(peer, header) ==
    IF peer \in Proxies /\ Forwarded(header) # None THEN Forwarded(header) ELSE peer

\* Every caller the requests of a client may be taken for.
Charged == [client \in Clients |->
              {Caller(Peer(client, path), Header(client, claim, path)) :
                 claim \in Claims, path \in Paths}]

-----------------------------------------------------------------------------
(* What a request is counted against.                                        *)

Allowance(route) == IF route \in OwnBudget THEN route ELSE None

\* ThrottlerGuard._resolve_budget: a route with a budget of its own has a key of its own,
\* named after the function that serves it.
Key(caller, route) == <<caller, IF route \in OwnBudget THEN HandlerOf[route] ELSE None>>

Limit(a) == Budget[a].limit
Span(a) == Budget[a].ttl * TicksPerSecond

-----------------------------------------------------------------------------
(* InMemoryThrottlerStorage.count_request.                                   *)

\* The window without the requests at its front that have left it.
Fresh(times, cutoff) ==
    LET n == CHOOSE i \in 0..Len(times) :
                /\ \A j \in 1..i : times[j] <= cutoff
                /\ i < Len(times) => times[i + 1] > cutoff
    IN  SubSeq(times, n + 1, Len(times))

\* A window that is pushed along by the requests it refuses.
CountedAlways(times, limit) == Append(times, clock)

\* A request is recorded only when it fits: a refused one does not extend its own wait.
Counted(times, limit) == IF Len(times) < limit THEN Append(times, clock) ELSE times

\* Whole seconds, rounded up, until the oldest request leaves the window; 0 for an empty one.
Reset(times, span) ==
    IF times = <<>> THEN 0
    ELSE (span - (clock - times[1]) + TicksPerSecond - 1) \div TicksPerSecond

\* The order of use once a key has been counted: an empty window is not kept, and the key
\* unused for longest goes when there are too many.
Recency(key, held) ==
    LET used == RemoveFirst(order, key) \o (IF held THEN <<key>> ELSE <<>>)
    IN  IF Len(used) > MaxKeys THEN Tail(used) ELSE used

\* The allowances whose key is among those given.
SpentUnder(keys) ==
    {a \in Allowances : Key(a[1], a[2]) \in keys}

\* ThrottlerGuard.can_activate for a request of the client, taken for the caller.
Arrive(client, caller, route) ==
    LET key == Key(caller, route)
        a == <<client, Allowance(route)>>
        kept == Fresh(window[key], clock - Span(a[2]))
        counted == Counted(kept, Limit(a[2]))
        admitted == Len(kept) + 1 <= Limit(a[2])
        evicted == ToSet(order) \ (ToSet(Recency(key, counted # <<>>)) \cup {key})
        wait == Reset(counted, Span(a[2]))
    IN  /\ route \notin Skipped
        /\ order' = Recency(key, counted # <<>>)
        /\ window' = [k \in Keys |-> IF k = key THEN counted
                                     ELSE IF k \in evicted THEN <<>> ELSE window[k]]
        /\ log' = [b \in Allowances |->
                     IF b \in SpentUnder(evicted) THEN <<>>
                     ELSE IF b = a /\ admitted THEN Append(log[b], clock) ELSE log[b]]
        /\ told' = [told EXCEPT ![a] =
                      IF admitted \/ Limit(a[2]) = 0 THEN -1
                      ELSE clock + (IF wait < 1 THEN 1 ELSE wait) * TicksPerSecond]
        /\ UNCHANGED clock

\* time.monotonic.
Tick ==
    /\ clock < MaxTime
    /\ clock' = clock + 1
    /\ UNCHANGED <<order, window, log, told>>

Init ==
    /\ clock = 0
    /\ order = <<>>
    /\ window = [k \in Keys |-> <<>>]
    /\ log = [a \in Allowances |-> <<>>]
    /\ told = [a \in Allowances |-> -1]

Next ==
    \/ Tick
    \/ \E client \in Clients : \E caller \in Charged[client], route \in Routes :
          Arrive(client, caller, route)

Spec == Init /\ [][Next]_vars

-----------------------------------------------------------------------------
(* Properties.                                                               *)

\* A client is never admitted more often than its limit in any span of the declared
\* length, wherever that span begins and whichever way its requests travelled, unless its
\* key was evicted meanwhile: the request limit places further on comes a span later.
LimitHolds ==
    \A a \in Allowances :
        \A i, j \in DOMAIN log[a] :
            j = i + Limit(a[2]) => log[a][j] - log[a][i] >= Span(a[2])

\* How often an allowance was spent in the span that ends now.
Spent(a) == Cardinality({i \in DOMAIN log[a] : log[a][i] > clock - Span(a[2])})

\* Nobody is refused before spending the whole limit in the span that ends with the
\* refused request, nor when coming back at the time Retry-After named: a request exactly
\* one span old is no longer held against its caller.  A limit of zero admits nobody.
RefusedOnlyWhenSpent ==
    [][\A a \in Allowances :
          (told'[a] # told[a] /\ told'[a] >= 0) =>
             /\ Spent(a) >= Limit(a[2])
             /\ told[a] >= 0 => clock < told[a]]_vars
==============================================================================
