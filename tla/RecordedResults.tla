---------------------------- MODULE RecordedResults ----------------------------
(***************************************************************************)
(* Routes that answer a request with what an earlier one computed: Cache    *)
(* replays a read until it is stale, Idempotent replays an attempt to who  *)
(* presents its key again (security/policy.py).  In front of both stands   *)
(* the policy guard (pipeline/guards.py), which reads what the controller  *)
(* and the handler declare together (runtime/compiler.py).                 *)
(*                                                                         *)
(* Handlers are awaited, so several requests are inside one route at once: *)
(* a request looks into the store before its handler runs and records into *)
(* it afterwards, and in between the store is anybody's.                   *)
(*                                                                         *)
(* A result is named after the request that computed it.                   *)
(***************************************************************************)
EXTENDS Integers, FiniteSets, SequencesExt

CONSTANTS
    Requests,
    Asks,           \* what a request may ask, and who asks it
    Stores,         \* the decorators that hold results; one on a controller serves all its routes
    Routes,
    StoreOf,        \* the store of each route
    IsCache,        \* the stores that belong to Cache; the others belong to Idempotent
    HandlerOf,      \* the function serving each route
    Controller,     \* what the controller of each route declares: public, auth and roles
    Handler,        \* what its handler declares
    Ttl,            \* the ttl each route's plan declares, or Idempotent's retention
    Safe,           \* the methods Cache replays: GET and HEAD
    Unreadable,     \* the query string of a transport that exposes none
    Nameless,       \* the identity of a principal that carries none
    RolesOf,        \* the roles of each caller an authenticator identifies
    Limit,          \* CACHE_ENTRY_LIMIT, IDEMPOTENCY_KEY_LIMIT
    MaxTime,        \* bound: the last reading of the clock
    None

Callers == DOMAIN RolesOf \cup {Nameless, None}

ASSUME RecordedResultsAssumption ==
    /\ StoreOf \in [Routes -> Stores] /\ IsCache \subseteq Stores
    /\ \A a \in Asks : a.route \in Routes /\ a.caller \in Callers
    /\ Ttl \in [Routes -> Nat \ {0}] /\ Limit \in Nat \ {0} /\ MaxTime \in Nat
    /\ None \notin Requests /\ Nameless \notin DOMAIN RolesOf /\ None \notin DOMAIN RolesOf
    /\ \A route \in Routes :
          \A policy \in {Controller[route], Handler[route]} :
              ~(policy.public /\ (policy.auth \/ policy.roles # {}))

VARIABLES
    clock,
    entries,    \* what each store holds, the oldest first
    stage,      \* each request: "idle", "running", "served", "refused" or "failed"
    ask,        \* what each request asked, None before it did
    result,     \* the request whose result each one was served, None if it was not
    log         \* ghost: every result recorded into each store, in order

vars == <<clock, entries, stage, ask, result, log>>

-----------------------------------------------------------------------------
(* Who is let through.                                                       *)

\* RouteCompiler refuses at startup a level that is public and requires something, which
\* the assumption says of the declarations.
Requires(policy) == policy.auth \/ policy.roles # {}

\* A handler's own requirements read as nothing more than its controller's.
PublicByEither(route) == Handler[route].public \/ Controller[route].public

\* _resolve_public_policy.
Public(route) ==
    Handler[route].public \/ (~Requires(Handler[route]) /\ Controller[route].public)

\* merge_policy_metadata.
Roles(route) == Controller[route].roles \cup Handler[route].roles
Authenticates(route) == Controller[route].auth \/ Handler[route].auth

\* The principal a route's guard leaves on the request: None where nothing establishes one.
Principal(a) == IF Authenticates(a.route) /\ ~Public(a.route) THEN a.caller ELSE None

\* PolicyGuard.can_activate.  The roles of a nameless principal are those of nobody.
Admits(a) ==
    \/ Public(a.route)
    \/ /\ Authenticates(a.route) => a.caller # None
       /\ Roles(a.route) # {} =>
             Principal(a) \in DOMAIN RolesOf /\ Roles(a.route) \subseteq RolesOf[Principal(a)]

-----------------------------------------------------------------------------
(* What a result is recorded under; None when it is neither recorded nor     *)
(* replayed.                                                                 *)

\* A key that leaves out who asked.
KeyForAnybody(a) ==
    IF StoreOf[a.route] \in IsCache
    THEN IF a.method \in Safe /\ a.query # Unreadable /\ Principal(a) # Nameless
         THEN <<HandlerOf[a.route], a.method, a.path, a.query>>
         ELSE None
    ELSE IF a.presented # None
         THEN <<HandlerOf[a.route], a.method, a.path, a.presented>>
         ELSE None

\* _cacheable_key and _presented_idempotency_key.
Key(a) ==
    IF StoreOf[a.route] \in IsCache
    THEN IF a.method \in Safe /\ a.query # Unreadable /\ Principal(a) # Nameless
         THEN <<HandlerOf[a.route], a.method, a.path, a.query, Principal(a)>>
         ELSE None
    ELSE IF a.presented # None
         THEN <<HandlerOf[a.route], a.method, a.path, a.presented>>
         ELSE None

-----------------------------------------------------------------------------
(* _RecordedResults.                                                         *)

Held(held, key) == {i \in 1..Len(held) : held[i].key = key}

Without(held, key) ==
    IF Held(held, key) = {} THEN held
    ELSE RemoveAt(held, CHOOSE i \in Held(held, key) : TRUE)

\* answer: the result the key is still answerable by.
Answer(held, key) ==
    {held[i].by : i \in {j \in Held(held, key) : held[j].expires > clock}}

\* answer forgets an entry it finds expired.
Forgetting(held, key) == IF Answer(held, key) = {} THEN Without(held, key) ELSE held

\* Dropping what just fits.
DropStaleEarly(held) ==
    LET n == CHOOSE i \in 0..Len(held) :
                /\ \A j \in 1..i : Len(held) - (j - 1) >= Limit \/ held[j].expires <= clock
                /\ i < Len(held) => Len(held) - i < Limit /\ held[i + 1].expires > clock
    IN  SubSeq(held, n + 1, Len(held))

\* _drop_stale: from the front, until nothing has expired there and the limit is kept.
DropStale(held) ==
    LET n == CHOOSE i \in 0..Len(held) :
                /\ \A j \in 1..i : Len(held) - (j - 1) > Limit \/ held[j].expires <= clock
                /\ i < Len(held) => Len(held) - i <= Limit /\ held[i + 1].expires > clock
    IN  SubSeq(held, n + 1, Len(held))

\* record: the newest entry is the last, whatever the key held before.
Record(held, key, r, ttl) ==
    DropStale(Append(Without(held, key), [key |-> key, by |-> r, expires |-> clock + ttl]))

-----------------------------------------------------------------------------
(* A request.                                                                *)

\* The guard, and what the interceptor does before it calls the handler.
Ask(r, a) ==
    /\ stage[r] = "idle"
    /\ ask' = [ask EXCEPT ![r] = a]
    /\ LET store == StoreOf[a.route]
           found == IF Key(a) = None THEN {} ELSE Answer(entries[store], Key(a))
       IN  \/ /\ ~Admits(a)
              /\ stage' = [stage EXCEPT ![r] = "refused"]
              /\ UNCHANGED <<entries, result>>
           \/ /\ Admits(a) /\ found = {}
              /\ stage' = [stage EXCEPT ![r] = "running"]
              /\ entries' = [entries EXCEPT ![store] =
                               IF Key(a) = None THEN @ ELSE Forgetting(@, Key(a))]
              /\ UNCHANGED result
           \/ /\ Admits(a)
              /\ \E by \in found : result' = [result EXCEPT ![r] = by]
              /\ stage' = [stage EXCEPT ![r] = "served"]
              /\ UNCHANGED entries
    /\ UNCHANGED <<clock, log>>

\* The handler returned, and what it returned is recorded.
HandlerReturns(r) ==
    LET route == ask[r].route
        key == Key(ask[r])
    IN  /\ stage[r] = "running"
        /\ stage' = [stage EXCEPT ![r] = "served"]
        /\ result' = [result EXCEPT ![r] = r]
        /\ IF key = None THEN UNCHANGED <<entries, log>>
           ELSE /\ entries' = [entries EXCEPT ![StoreOf[route]] = Record(@, key, r, Ttl[route])]
                /\ log' = [log EXCEPT ![StoreOf[route]] =
                             Append(@, [key |-> key, by |-> r, at |-> clock])]
        /\ UNCHANGED <<clock, ask>>

\* The handler raised, or the request's time ran out around it: nothing is recorded.
HandlerFails(r) ==
    /\ stage[r] = "running"
    /\ stage' = [stage EXCEPT ![r] = "failed"]
    /\ UNCHANGED <<clock, entries, ask, result, log>>

\* time.monotonic.
Tick ==
    /\ clock < MaxTime
    /\ clock' = clock + 1
    /\ UNCHANGED <<entries, stage, ask, result, log>>

Init ==
    /\ clock = 0
    /\ entries = [s \in Stores |-> <<>>]
    /\ stage = [r \in Requests |-> "idle"]
    /\ ask = [r \in Requests |-> None]
    /\ result = [r \in Requests |-> None]
    /\ log = [s \in Stores |-> <<>>]

Next ==
    \/ Tick
    \/ \E r \in Requests :
          \/ \E a \in Asks : Ask(r, a)
          \/ HandlerReturns(r) \/ HandlerFails(r)

Spec == Init /\ [][Next]_vars

-----------------------------------------------------------------------------
(* Properties.                                                               *)

\* What the request could have been served without running anything: the last result
\* recorded under its key, unless it has expired or as many others as the store holds
\* were recorded since.
Replayable(a) ==
    LET recorded == log[StoreOf[a.route]]
    IN  \E i \in 1..Len(recorded) :
            /\ recorded[i].key = Key(a)
            /\ \A j \in (i + 1)..Len(recorded) : recorded[j].key # Key(a)
            /\ clock < recorded[i].at + Ttl[ask[recorded[i].by].route]
            /\ Cardinality({recorded[j].key : j \in (i + 1)..Len(recorded)}) < Limit

\* A result is replayed to nobody it was not computed for: not on another route, for
\* another method or another resource, and from the cache not to another caller; nor a
\* moment after its ttl.
ReplayIsForTheAsked ==
    [][\A r \in Requests :
          (stage[r] = "idle" /\ stage'[r] = "served") =>
             LET a == ask'[r]
                 b == ask[result'[r]]
             IN  /\ a.route = b.route /\ a.method = b.method /\ a.path = b.path
                 /\ IF StoreOf[a.route] \in IsCache
                    THEN /\ a.query = b.query
                         /\ \/ Public(a.route) \/ ~Authenticates(a.route)
                            \/ a.caller = b.caller /\ a.caller # Nameless
                    ELSE a.presented = b.presented
                 /\ \E i \in 1..Len(log[StoreOf[a.route]]) :
                       /\ log[StoreOf[a.route]][i].by = result'[r]
                       /\ clock - log[StoreOf[a.route]][i].at < Ttl[a.route]]_vars

\* A handler runs again only when there is nothing left to replay: of a key whose attempt
\* was recorded, the side effect is not repeated while the recording lasts.
NotRunTwice ==
    [][\A r \in Requests :
          (stage[r] = "idle" /\ stage'[r] = "running" /\ Key(ask'[r]) # None)
          => ~Replayable(ask'[r])]_vars

\* Nobody is served past what was declared for them, from the store as little as from the
\* handler: the requirements of the controller and of the handler both hold, unless the
\* handler itself, or the controller of a handler that requires nothing, waives them.
ServedAsDeclared ==
    \A r \in Requests :
        stage[r] \in {"running", "served", "failed"} =>
            \E waived \in SUBSET {Controller[ask[r].route], Handler[ask[r].route]} :
                /\ waived # {} => \/ Handler[ask[r].route].public
                                  \/ Controller[ask[r].route].public /\ ~Requires(Handler[ask[r].route])
                /\ \A policy \in {Controller[ask[r].route], Handler[ask[r].route]} \ waived :
                      /\ policy.auth => ask[r].caller # None
                      /\ policy.roles # {} => /\ ask[r].caller \in DOMAIN RolesOf
                                              /\ policy.roles \subseteq RolesOf[ask[r].caller]
==============================================================================
