------------------------------- MODULE AsgiRouter -------------------------------
(***************************************************************************)
(* The router of the ASGI adapter (adapters/asgi/routing.py): the routes in  *)
(* registration order, and the table that answers a path without parameters  *)
(* before any pattern is tried.                                              *)
(*                                                                          *)
(* A template stands for a compiled path and answers a set of request paths. *)
(* A literal one is a path that can be looked up by itself.  An entry of the *)
(* table is kept as a position in the list of routes: entries are only ever  *)
(* appended, so the order of a list of them is the order of the positions.   *)
(***************************************************************************)
EXTENDS Integers, Sequences

CONSTANTS
    Paths,          \* what a request may ask for
    Templates,      \* what a route may be registered for
    Literals,       \* the templates _is_static accepts
    Answers,        \* compile_path and match: the paths each template matches
    Alternate,      \* alternate_path, <<>> for a path that has none
    Methods

ASSUME RouterAssumption ==
    /\ Literals \subseteq Templates /\ Literals \subseteq Paths
    /\ Answers \in [Templates -> SUBSET Paths]
    /\ \A t \in Literals : Answers[t] \cap Literals = {t}

VARIABLES
    routes,         \* the registered routes
    table,          \* _static
    shadowed        \* _shadowed

routerVars == <<routes, table, shadowed>>

Routes == [template : Templates, methods : SUBSET Methods]

\* match.
Matches(r, p) == p \in Answers[r.template]

\* A server answers HEAD wherever it answers GET.
Served(r) == r.methods \cup (IF "GET" \in r.methods THEN {"HEAD"} ELSE {})

Patterned == {n \in DOMAIN routes : routes[n].template \notin Literals}

RouterInit == routes = <<>> /\ table = [p \in {} |-> {}] /\ shadowed = {}

-----------------------------------------------------------------------------
(* _enter, for the route that becomes the last.                              *)

\* A route with parameters waits behind the entries it also answers.
EnterPattern(r) ==
    /\ r.template \notin Literals
    /\ shadowed' = shadowed \cup {p \in DOMAIN table : Matches(r, p)}
    /\ UNCHANGED table

\* The rule that asks only about the patterns registered so far.
HiddenOnce(p) == p \notin DOMAIN table /\ \E n \in Patterned : Matches(routes[n], p)

\* A path a pattern registered earlier answers is kept out of the table.
Hidden(p) ==
    \/ p \in shadowed
    \/ p \notin DOMAIN table /\ \E n \in Patterned : Matches(routes[n], p)

KeepOut(r) ==
    /\ r.template \in Literals /\ Hidden(r.template)
    /\ shadowed' = shadowed \cup {r.template}
    /\ UNCHANGED table

Tabulate(r) ==
    LET p == r.template IN
    /\ p \in Literals /\ ~Hidden(p)
    /\ table' = [q \in DOMAIN table \cup {p} |->
                    (IF q \in DOMAIN table THEN table[q] ELSE {})
                        \cup (IF q = p THEN {Len(routes) + 1} ELSE {})]
    /\ UNCHANGED shadowed

Register(r) ==
    /\ routes' = Append(routes, r)
    /\ EnterPattern(r) \/ KeepOut(r) \/ Tabulate(r)

-----------------------------------------------------------------------------
(* resolve.                                                                  *)

First(ns) == CHOOSE n \in ns : \A k \in ns : n <= k

Tabled(p, m) == {n \in (IF p \in DOMAIN table THEN table[p] ELSE {}) : m \in Served(routes[n])}
Answering(p) == {n \in DOMAIN routes : Matches(routes[n], p)}
Scanned(p, m) == {n \in Answering(p) : m \in Served(routes[n])}

Matched(p, m) == Tabled(p, m) # {} \/ Scanned(p, m) # {}
RouteFor(p, m) == IF Tabled(p, m) # {} THEN First(Tabled(p, m)) ELSE First(Scanned(p, m))

MethodMismatch(p, m) == ~Matched(p, m) /\ UNION {Served(routes[n]) : n \in Answering(p)} # {}

Redirect(p, m) ==
    /\ ~Matched(p, m) /\ ~MethodMismatch(p, m)
    /\ Alternate[p] # <<>> /\ Answering(Alternate[p]) # {}

-----------------------------------------------------------------------------

RouterSpec == RouterInit /\ [][\E r \in Routes : Register(r)]_routerVars

\* AsgiRouter: "The table only ever gives the answer registration order gives."
TableKeepsTheOrder ==
    \A p \in Paths, m \in Methods :
        Tabled(p, m) # {} => RouteFor(p, m) = First(Scanned(p, m))
=============================================================================
