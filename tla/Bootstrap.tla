------------------------------- MODULE Bootstrap -------------------------------
(***************************************************************************)
(* create_app (app/bootstrap.py), from the declared modules to the routes an  *)
(* adapter serves: the graph and the container are assembled, the handlers   *)
(* of the reached modules become route contracts, the contracts become a     *)
(* plan (runtime/registry.py, runtime/routing.py), and the plan is           *)
(* registered, entry by entry, with the router of the ASGI adapter.          *)
(*                                                                          *)
(* A declared application also says which handlers each module has and how   *)
(* versions are told apart.  A contract keeps of a handler what decides who  *)
(* answers: its method, its path, the versions and the hosts it declares.    *)
(***************************************************************************)
EXTENDS RouteContracts, AsgiRouter

CONSTANTS
    Versions,
    Neutral,        \* VERSION_NEUTRAL
    Prefixed,       \* _join_paths: the template of each version and template under URI versioning
    Canonical       \* _canonical_path_pattern of each template

IsHandler(h) ==
    /\ h.method \in Methods \ {"HEAD"} /\ h.template \in Templates /\ h.raw \in BOOLEAN

\* What controllers and handlers both declare: a guard they name is one, and not a reference.
IsDeclared(d) ==
    /\ d.versions \in Seq(Versions \cup {Neutral}) /\ d.hosts \in BOOLEAN
    /\ d.policy \in Policies /\ d.mutates \in BOOLEAN
    /\ IsSequence(d.guards) /\ \A m \in Modules : Global(GuardToken, m) \notin ToSet(d.guards)

IsServable(metadata) ==
    \A c \in ToSet(metadata.controllers) :
        IsDeclared(c) /\ \A h \in ToSet(c.handlers) : IsHandler(h) /\ IsDeclared(h)

\* A default version is one of the versions, or Neutral for none.
Versionings == [type : {"none", "uri", "header"}, default : Versions \cup {Neutral}]

ASSUME BootstrapAssumption ==
    /\ Neutral \notin Versions
    /\ \A v \in Versions : \A t \in DOMAIN Prefixed[v] : Prefixed[v][t] \in Templates
    /\ DOMAIN Canonical = Templates
    /\ \A f \in DOMAIN Families : \A a \in Families[f] :
          /\ a.versioning \in Versionings
          /\ \A m \in Modules : IsServable(a.modules[m])
          /\ \A m \in DOMAIN a.dynamic : IsServable(a.dynamic[m])

VARIABLES
    contracts,      \* the route contracts, in the order of the modules and their handlers
    planned,        \* how many of them the plan builder has been given
    plan            \* _routes and _versioned: what is registered, with its contracts

planVars == <<contracts, planned, plan>>
bootstrapVars == <<assemblyVars, routerVars, planVars>>

RefusePlan(why) ==
    /\ stage' = "refused" /\ reason' = why
    /\ UNCHANGED <<app, graphVars, tableVars, scopes, planVars, routerVars>>

GoesOn(next) ==
    /\ stage' = next
    /\ UNCHANGED <<app, reason, graphVars, tableVars, scopes>>

-----------------------------------------------------------------------------
(* compile_route_contracts and RouteRegistry.validate.                       *)

IsNeutral(c) == c.versions = <<>> \/ Neutral \in ToSet(c.versions)

SharesAVersion(c, d) == ToSet(c.versions) \cap ToSet(d.versions) # {}

\* _versions_overlap.
VersionsOverlap(c, d) ==
    IF IsNeutral(c) \/ IsNeutral(d) THEN IsNeutral(c) /\ IsNeutral(d) ELSE SharesAVersion(c, d)

\* The refusals of validate, the repeated contract and the repeated pattern.
Conflict(c, d) ==
    /\ c.method = d.method /\ c.hosts = d.hosts
    /\ \/ c.template = d.template /\ c.versions = d.versions
       \/ VersionsOverlap(c, d) /\ Canonical[c.template] = Canonical[d.template]

CompileContracts ==
    /\ stage = "assembled"
    /\ LET handlers == ScannedHandlers
           made == [n \in DOMAIN handlers |->
                       Contract(handlers[n].module, handlers[n].controller, handlers[n].handler)]
       IN IF \E s \in ToSet(handlers) : Unservable(s.module, s.controller, s.handler)
          THEN RefusePlan("contract")
          ELSE IF /\ app.versioning.type = "none"
                  /\ \E i, j \in DOMAIN made : i < j /\ Conflict(made[i], made[j])
          THEN RefusePlan("conflict")
          ELSE /\ contracts' = made
               /\ GoesOn("routing")
               /\ UNCHANGED <<planned, plan, routerVars>>

-----------------------------------------------------------------------------
(* _RoutePlanBuilder.                                                        *)

\* dict.fromkeys: each member of a sequence once, where it stands first.
Each(s) == Picked(s, {i \in DOMAIN s : ~\E j \in 1..(i - 1) : s[j] = s[i]})

\* _build_uri_paths, and the one path of a contract that is not versioned by path.
PathsOf(c) ==
    IF app.versioning.type # "uri" \/ IsNeutral(c) THEN <<c.template>>
    ELSE Each(FlattenSeq([n \in DOMAIN c.versions |->
             <<Prefixed[c.versions[n]][c.template]>>
                 \o (IF c.versions[n] = app.versioning.default THEN <<c.template>> ELSE <<>>)]))

Entry(c, t) == [method |-> c.method, template |-> t, contracts |-> <<c>>]

Claimed(c) ==
    \E n \in DOMAIN plan : plan[n].method = c.method /\ plan[n].template \in ToSet(PathsOf(c))

\* add, with no versioning or with the version in the path.
PlanByPath ==
    /\ stage = "routing" /\ planned < Len(contracts) /\ app.versioning.type # "header"
    /\ LET c == contracts[planned + 1] IN
          IF Claimed(c) THEN RefusePlan("duplicate")
          ELSE /\ plan' = plan \o [n \in DOMAIN PathsOf(c) |-> Entry(c, PathsOf(c)[n])]
               /\ planned' = planned + 1
               /\ UNCHANGED <<assemblyVars, contracts, routerVars>>

Group(c) == {n \in DOMAIN plan : plan[n].method = c.method /\ plan[n].template = c.template}

\* _check_version_overlap: a neutral handler may stand beside versioned ones.
Overlaps(c, d) == VersionsOverlap(c, d)

\* add, with the version in a header.
PlanByHeader ==
    /\ stage = "routing" /\ planned < Len(contracts) /\ app.versioning.type = "header"
    /\ LET c == contracts[planned + 1] IN
          IF \E n \in Group(c) : \E d \in ToSet(plan[n].contracts) : Overlaps(c, d)
          THEN RefusePlan("overlap")
          ELSE /\ plan' = IF Group(c) = {} THEN Append(plan, Entry(c, c.template))
                          ELSE [n \in DOMAIN plan |->
                                  IF n \in Group(c)
                                  THEN [plan[n] EXCEPT !.contracts = Append(@, c)] ELSE plan[n]]
               /\ planned' = planned + 1
               /\ UNCHANGED <<assemblyVars, contracts, routerVars>>

\* _validate_adapter_capabilities: no adapter of this repository routes by host.
CheckCapabilities ==
    /\ stage = "routing" /\ planned = Len(contracts)
    /\ IF \E n \in DOMAIN plan : plan[n].contracts[1].hosts THEN RefusePlan("hosts")
       ELSE /\ GoesOn(IF plan = <<>> THEN "serving" ELSE "registering")
            /\ UNCHANGED <<planVars, routerVars>>

RegisterNext ==
    /\ stage = "registering"
    /\ LET n == Len(routes) + 1 IN
          /\ Register([template |-> plan[n].template, methods |-> {plan[n].method}])
          /\ GoesOn(IF n = Len(plan) THEN "serving" ELSE stage)
    /\ UNCHANGED planVars

-----------------------------------------------------------------------------

Init == AssemblyInit /\ RouterInit /\ contracts = <<>> /\ planned = 0 /\ plan = <<>>

Next ==
    \/ AssemblyNext /\ UNCHANGED <<routerVars, planVars>>
    \/ CompileContracts
    \/ PlanByPath \/ PlanByHeader
    \/ CheckCapabilities
    \/ RegisterNext

Spec == Init /\ [][Next]_bootstrapVars

-----------------------------------------------------------------------------
(* Who answers a request that is served.                                     *)

\* The dispatcher's choice among the contracts of an entry: the first that is neutral or
\* has the version that was asked for.
Accepts(c, v) == app.versioning.type # "header" \/ IsNeutral(c) \/ v \in ToSet(c.versions)

FirstOf(s, Test(_)) == 
    LET ns == {n \in DOMAIN s : Test(s[n])} IN IF ns = {} THEN {} ELSE {s[First(ns)]}

Handler(p, m, v) ==
    IF ~Matched(p, m) THEN {}
    ELSE FirstOf(plan[RouteFor(p, m)].contracts, LAMBDA c : Accepts(c, v))

\* What a contract declares it answers, read off the declaration.
Declares(c, p, m) ==
    /\ (m = c.method) \/ (m = "HEAD" /\ c.method = "GET")
    /\ LET prefixed == app.versioning.type = "uri" /\ ~IsNeutral(c) IN
       \/ /\ p \in Answers[c.template]
          /\ prefixed => app.versioning.default \in ToSet(c.versions)
       \/ /\ prefixed
          /\ \E v \in ToSet(c.versions) : p \in Answers[Prefixed[v][c.template]]

-----------------------------------------------------------------------------
(* Properties.                                                               *)

\* RouteCompiler and PolicyGuard: whoever is served has passed every guard that any level
\* declares, each once, outermost first; a controller never widens what its handler asks
\* for; no policy guard is without a registry to ask; and no response that is handed on as
\* it is meets an interceptor that would change it, as far as one can be read.
GuardedByDeclaration ==
    stage = "serving" =>
        \A n \in DOMAIN contracts :
            LET s == ScannedHandlers[n]  c == s.controller  h == s.handler IN
            /\ GuardsRun(contracts[n]) = GuardsDeclared(c, h)
            /\ \A caller \in Callers : Admits(contracts[n].policy, caller) = LetsThrough(c, h, caller)
            /\ ~contracts[n].policy.public /\ (c.policy.auth \/ h.policy.auth) =>
                  \E k \in Answerers(s.module, RegistryToken) :
                      ~\E e \in ToSet(Entries(Expanded(k).providers, RegistryToken)) :
                            e.form = "factory" /\ e.trait = "awaits"
            /\ h.raw => ~\E e \in ToSet(SuppliedEverywhere(InterceptorToken)) :
                              e.form \in {"bare", "class", "value"} /\ e.trait = "mutates"

\* runtime/routing.py and AsgiRouter together: a request is answered by the handler that was
\* declared first among those whose path and method it matches, and where versions are told
\* by a header by the first of the handlers at that path which takes the version; it goes
\* unanswered only where no handler declares it.
AnsweredByDeclaration ==
    stage = "serving" =>
        \A p \in Paths, m \in Methods, v \in Versions \cup {Neutral} :
            LET first == FirstOf(contracts, LAMBDA c : Declares(c, p, m)) IN
            Handler(p, m, v) =
                FirstOf(contracts, LAMBDA c :
                    /\ \E f \in first : c.method = f.method /\ c.template = f.template
                    /\ Declares(c, p, m) /\ Accepts(c, v))

\* From the declarations to an answer, the order is theirs: the plan, the versions of an entry
\* and the router's table never let a later handler answer before an earlier one.
AnsweredInOrder == TableKeepsTheOrder /\ AnsweredByDeclaration

\* RouteRegistry.validate and _RoutePlanBuilder: no two handlers of a served application
\* claim one method and path, unless a header tells their versions apart; nor, where nothing
\* tells versions apart, two paths of one pattern under versions that overlap.
NoTwoAnswerAlike ==
    stage = "serving" =>
        \A i, j \in DOMAIN contracts : i < j /\ contracts[i].method = contracts[j].method =>
            LET c == contracts[i]  d == contracts[j] IN
            CASE app.versioning.type = "none" ->
                      /\ c.template # d.template
                      /\ VersionsOverlap(c, d) => Canonical[c.template] # Canonical[d.template]
              [] app.versioning.type = "uri" -> ToSet(PathsOf(c)) \cap ToSet(PathsOf(d)) = {}
              [] OTHER -> c.template = d.template =>
                      /\ ~(IsNeutral(c) /\ IsNeutral(d))
                      /\ IsNeutral(c) \/ IsNeutral(d) \/ ~SharesAVersion(c, d)

\* Who answers is who is declared to: no two claim one request, and the first of those that
\* declare it has it.
AnsweredAsDeclared == NoTwoAnswerAlike /\ AnsweredInOrder

\* "`Conflicting route path pattern for ...` - two handlers claim one path. The last of these
\* fires when the paths differ only by parameter name, such as `/users/{id}` and
\* `/users/{user_id}`, which match the same requests" (docs/reference/errors.md:193): no two
\* entries of a served plan have one method and one pattern.
NoPatternTwice ==
    stage = "serving" =>
        \A i, j \in DOMAIN plan : i < j /\ plan[i].method = plan[j].method =>
            Canonical[plan[i].template] # Canonical[plan[j].template]

\* "the adapter is consulted only to reject what it cannot serve ... a route needing a
\* capability the adapter lacks" (runtime/adapter.py:91-93): what is served names no host.
HostsAreRefused ==
    stage = "serving" => \A n \in DOMAIN contracts : ~contracts[n].hosts
=============================================================================
