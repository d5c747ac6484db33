-------------------------------- MODULE Assembly --------------------------------
(***************************************************************************)
(* What an application may be assembled from (kernel/module/graph.py and    *)
(* kernel/ioc/planning/): the modules reached from the root, which module   *)
(* answers for each token in each of them, and which bindings may hold      *)
(* which.  The code is sequential; an action is one step of one of its      *)
(* loops, and an application is refused by the first check it fails.        *)
(*                                                                          *)
(* A declared application is data: for each module its metadata, and for a  *)
(* dynamic registration, which is a module of its own here, what it lays     *)
(* over that.  What is compiled of a module is kept where it is first visited.*)
(***************************************************************************)
EXTENDS Constructors

CONSTANTS
    Modules,
    Root,
    Families        \* the declared applications that are looked at, in one or more sets

IsSequence(s) == s \in Seq(ToSet(s))

\* Python has the parameters that may be passed by place before the others.
IsConstructor(c) ==
    /\ IsSequence(c.parameters) /\ \A n \in DOMAIN c.globals : c.globals[n] \in Annotations
    /\ \A n \in DOMAIN c.parameters :
          /\ c.parameters[n].annotation \in Annotations \cup {Missing}
          /\ c.parameters[n].kind \in Kinds /\ c.parameters[n].default \in BOOLEAN
    /\ \A n \in DOMAIN c.parameters : c.parameters[n].kind \in {"positional", "either"} =>
          \A i \in 1..(n - 1) : c.parameters[i].kind \in {"positional", "either"}

\* What is built by a class has its needs in its constructor.
IsProvided(e) ==
    /\ e.form \in Forms /\ e.token \in Tokens /\ e.trait \in Traits
    /\ {e.scope, e.class} \subseteq Lifetimes \cup {Unstated}
    /\ e.hook \in {"none", "method", "static"}
    /\ e.needs \subseteq Tokens \cup {Request, Inquirer} /\ IsConstructor(e.constructor)
    /\ IF IsOfClass(e) THEN e.needs = {} ELSE e.constructor = NoConstructor

\* A controller class, which is this record: its lifetime, whether it carries a context key
\* hook, its constructor and the methods and templates of its handlers.
IsController(c) ==
    /\ c.scope \in Lifetimes /\ c.hook \in BOOLEAN
    /\ IsConstructor(c.constructor) /\ IsSequence(c.handlers)

IsMetadata(d) ==
    /\ IsSequence(d.providers) /\ IsSequence(d.controllers)
    /\ d.imports \in Seq(Modules) /\ d.exports \in Seq(Tokens) /\ d.isGlobal \in BOOLEAN
    /\ \A n \in DOMAIN d.providers : IsProvided(d.providers[n])
    /\ \A n \in DOMAIN d.controllers : IsController(d.controllers[n])

IsApplication(a) ==
    /\ DOMAIN a.modules = Modules /\ \A m \in Modules : IsMetadata(a.modules[m])
    /\ DOMAIN a.dynamic \subseteq Modules
    /\ \A m \in DOMAIN a.dynamic : IsMetadata(a.dynamic[m])

ASSUME AssemblyAssumption ==
    /\ Root \in Modules /\ IsFiniteSet(Modules)
    /\ \A f \in DOMAIN Families : \A a \in Families[f] : IsApplication(a)

VARIABLES
    app,        \* what is declared
    stage,      \* how far assembling it has come
    reason,     \* why it was refused
    path,       \* visiting_stack, with the position in each module's imports
    ordered,    \* ordered_keys: the modules in the order they were first visited
    left,       \* key_by_input: those whose imports have been visited, in that order
    compiled,   \* compiled_by_key and bindings_by_key
    base,       \* what each module sees of its own and through its imports
    origins,    \* export_origins
    visible,    \* what each module sees, the global exports included
    scopes      \* the narrowest lifetime each binding hands over

graphVars == <<path, ordered, left, compiled>>
tableVars == <<base, origins, visible>>
assemblyVars == <<app, stage, reason, graphVars, tableVars, scopes>>

Nothing == [x \in {} |-> Root]
With(f, x, v) == [y \in DOMAIN f \cup {x} |-> IF y = x THEN v ELSE f[y]]

Refuse(why) ==
    /\ stage' = "refused" /\ reason' = why
    /\ UNCHANGED <<app, graphVars, tableVars, scopes>>

-----------------------------------------------------------------------------
(* _discover_modules.                                                        *)

Visit(m) == [module |-> m, next |-> 1]
Here == Last(path)

\* expand_module_input.
Expanded(m) ==
    IF m \in DOMAIN app.dynamic THEN Overlaid(app.modules[m], app.dynamic[m]) ELSE app.modules[m]

Compiled(m) ==
    [imports |-> Expanded(m).imports, controllers |-> Expanded(m).controllers,
     exports |-> ToSet(Expanded(m).exports), isGlobal |-> Expanded(m).isGlobal,
     binds |-> Bindings(Expanded(m).providers)]

Imports(m) == ToSet(compiled[m].imports)

OnPath(m) == \E n \in DOMAIN path : path[n].module = m

\* key_by_input.
Visited(m) == m \in ToSet(left)

Advanced == IF path = <<>> THEN <<>> ELSE [path EXCEPT ![Len(path)].next = @ + 1]

\* The root, then each import in turn.
Importing(m) ==
    /\ stage = "discovering"
    /\ IF path = <<>> THEN m = Root
       ELSE /\ Here.next <= Len(compiled[Here.module].imports)
            /\ m = compiled[Here.module].imports[Here.next]

\* A module visited before is not visited again.
Skip(m) ==
    /\ Importing(m) /\ Visited(m)
    /\ path' = Advanced
    /\ UNCHANGED <<app, stage, reason, ordered, left, compiled, tableVars, scopes>>

Enter(m) ==
    /\ Importing(m) /\ ~Visited(m) /\ ~OnPath(m)
    /\ IF Invalid(Expanded(m)) THEN Refuse("declaration")
       ELSE /\ path' = Append(Advanced, Visit(m))
            /\ ordered' = Append(ordered, m)
            /\ compiled' = With(compiled, m, Compiled(m))
            /\ UNCHANGED <<app, stage, reason, left, tableVars, scopes>>

\* _reject_cycle.
RejectCycle(m) ==
    /\ Importing(m) /\ ~Visited(m) /\ OnPath(m)
    /\ Refuse("cycle")

\* A module whose imports have all been visited.
Leave ==
    /\ stage = "discovering" /\ path # <<>>
    /\ Here.next > Len(compiled[Here.module].imports)
    /\ left' = Append(left, Here.module)
    /\ path' = Front(path)
    /\ stage' = IF Len(path) = 1 THEN "resolving" ELSE stage
    /\ UNCHANGED <<app, reason, ordered, compiled, tableVars, scopes>>

-----------------------------------------------------------------------------
(* _build_visibility_tables.                                                 *)

Local(m) == DOMAIN compiled[m].binds

\* What the imports of a module offer it under a token it does not bind itself.
Offers(m, t) ==
    {origins[k][t] : k \in {k \in Imports(m) : t \in DOMAIN origins[k]}}

Offered(m) == {t \in Tokens \ Local(m) : Offers(m, t) # {}}

\* _merge_import: two imports export one token from different modules.
Collides(m) == \E t \in Offered(m) : Cardinality(Offers(m, t)) > 1

Seen(m) ==
    [t \in Local(m) \cup Offered(m) |->
        IF t \in Local(m) THEN m ELSE CHOOSE o \in Offers(m, t) : TRUE]

\* resolve(key): depth first, so in the order in which discovery left the modules.
Resolve ==
    /\ stage = "resolving"
    /\ LET m == left[Cardinality(DOMAIN base) + 1] IN
          IF Collides(m) THEN Refuse("collision")
          ELSE /\ base' = With(base, m, Seen(m))
               /\ origins' = With(origins, m,
                      [t \in compiled[m].exports \cap DOMAIN Seen(m) |-> Seen(m)[t]])
               /\ stage' = IF Cardinality(DOMAIN base) + 1 = Len(left) THEN "publishing" ELSE stage
               /\ UNCHANGED <<app, reason, graphVars, visible, scopes>>

Reached == ToSet(ordered)

\* _build_global_visibility.
GlobalOffers(t) ==
    {base[m][t] : m \in {m \in Reached : /\ compiled[m].isGlobal
                                         /\ t \in compiled[m].exports \cap DOMAIN base[m]}}

\* _with_global_fallback.
SeenOrGlobal(m) ==
    [t \in DOMAIN base[m] \cup {t \in Tokens : GlobalOffers(t) # {}} |->
        IF t \in DOMAIN base[m] THEN base[m][t] ELSE CHOOSE o \in GlobalOffers(t) : TRUE]

Publish ==
    /\ stage = "publishing"
    /\ IF \E t \in Tokens : Cardinality(GlobalOffers(t)) > 1 THEN Refuse("global collision")
       ELSE /\ visible' = [m \in Reached |-> SeenOrGlobal(m)]
            /\ stage' = "exporting"
            /\ UNCHANGED <<app, reason, graphVars, base, origins, scopes>>

\* _validate_exports.
ExportsUnseen(m) == ~(compiled[m].exports \subseteq DOMAIN visible[m])

\* _validate_controller_routes and _refuse_unservable_controller_lifetime.
IsUnservable(c) ==
    \/ \E i, j \in DOMAIN c.handlers :
          /\ i < j /\ c.handlers[i].method = c.handlers[j].method
          /\ c.handlers[i].template = c.handlers[j].template
    \/ c.scope = "durable" \/ c.hook

\* A controller is bound under its own class, which nothing sees as a token.
ControllerToken(n) == <<"controller", n>>

\* register_controller: a class that several modules list is kept for the last of them.
Registered(m) ==
    LET later == {n \in DOMAIN ordered : \E i \in 1..(n - 1) : ordered[i] = m}
    IN  {n \in DOMAIN compiled[m].controllers :
            \A l \in later : compiled[m].controllers[n] \notin ToSet(compiled[ordered[l]].controllers)}

\* The bindings of every module, the controllers kept for it included: _scope_bindings.
Keys ==
    UNION {{m} \X (Local(m) \cup {ControllerToken(n) : n \in Registered(m)}) : m \in DOMAIN compiled}

Of(k) ==
    IF k[2] \in Local(k[1]) THEN compiled[k[1]].binds[k[2]]
    ELSE LET c == compiled[k[1]].controllers[k[2][2]]
         IN  [kind |-> "class", scope |-> c.scope, of |-> k, constructor |-> c.constructor,
              trait |-> "plain"]

\* is_pass_through: an alias has no lifetime but the transient one.
PassesThrough(k) == Of(k).scope = "transient"

\* The checks build_module_graph makes of each module in turn, then the scopes every
\* binding starts from.
CheckModules ==
    /\ stage = "exporting"
    /\ LET faulty == {n \in DOMAIN ordered :
                         \/ ExportsUnseen(ordered[n])
                         \/ \E c \in ToSet(compiled[ordered[n]].controllers) : IsUnservable(c)}
       IN IF faulty # {}
          THEN Refuse(IF ExportsUnseen(ordered[Min(faulty)]) THEN "export" ELSE "controller")
          ELSE /\ scopes' = [k \in Keys |-> Of(k).scope]
               /\ stage' = "planning"
               /\ UNCHANGED <<app, reason, graphVars, tableVars>>

-----------------------------------------------------------------------------
(* plan_scopes and plan_container.                                           *)

Width(s) ==
    CASE s = "request" -> 0 [] s = "durable" -> 1 [] s = "singleton" -> 2 [] OTHER -> 3

Narrowest(ss) == CHOOSE s \in ss \cup {"transient"} :
    \A other \in ss : Width(s) <= Width(other)

Located(t, m) == t \in DOMAIN visible[m]
At(t, m) == <<visible[m][t], t>>

\* _planning_targets.
IsPlanned(k) == Of(k).kind = "class"

Sees(m) == DOMAIN visible[m]

\* _plan_target and _source_for: a constructor that cannot be called with what its module sees.
Unsatisfied(k) == IsPlanned(k) /\ ~Plannable(Of(k).constructor, Sees(k[1]))

\* class_dependencies: of the modules that build a class, the first that can speaks for all.
Charged(k) ==
    LET builds(m) == \E j \in Keys : /\ j[1] = m /\ IsPlanned(j) /\ Of(j).of = Of(k).of
                                     /\ ~Unsatisfied(j)
        builders == {n \in DOMAIN ordered : builds(ordered[n])}
    IN  IF builders = {} THEN {} ELSE HeldBy(Of(k).constructor, Sees(ordered[Min(builders)]))

\* dependencies.
Needs(k) == IF IsPlanned(k) THEN Charged(k) ELSE Of(k).needs

\* _is_request_derived.
RequestDerived == {Request, HttpRequest}

\* reached_scope.
ReachedScope(t, m) ==
    IF t \in RequestDerived THEN "request"
    ELSE IF Located(t, m) THEN scopes[At(t, m)] ELSE "transient"

Narrowed(k) == Narrowest({ReachedScope(t, k[1]) : t \in Needs(k)})

Unsettled == {k \in Keys : PassesThrough(k) /\ scopes[k] # Narrowed(k)}

\* One binding of one pass of solve(), over any order of the table.
Settle(k) ==
    /\ stage = "planning" /\ k \in Unsettled
    /\ scopes' = [scopes EXCEPT ![k] = Narrowed(k)]
    /\ UNCHANGED <<app, stage, reason, graphVars, tableVars>>

\* The rule that looks at the first hop only.
EscapesByDeclaration(k, t) ==
    Located(t, k[1]) /\ ~PassesThrough(At(t, k[1]))
        /\ Width(Of(k).scope) > Width(Of(At(t, k[1])).scope)

\* _escapes_owner.
Escapes(k, t) ==
    /\ ReachedScope(t, k[1]) # "transient"
    /\ Width(Of(k).scope) > Width(ReachedScope(t, k[1]))

\* violations(): what outlives something it holds, or records who first asked for it.
Violates(k) == ~PassesThrough(k) /\ \E t \in Needs(k) : t = Inquirer \/ Escapes(k, t)

Judge ==
    /\ stage = "planning" /\ Unsettled = {}
    /\ IF \E k \in Keys : Violates(k) \/ Unsatisfied(k) THEN Refuse("plan")
       ELSE /\ stage' = "assembled"
            /\ UNCHANGED <<app, reason, graphVars, tableVars, scopes>>

-----------------------------------------------------------------------------

AssemblyInit ==
    /\ \E f \in DOMAIN Families : app \in Families[f]
    /\ stage = "discovering" /\ reason = "none"
    /\ path = <<>> /\ ordered = <<>> /\ left = <<>> /\ compiled = Nothing
    /\ base = Nothing /\ origins = Nothing /\ visible = Nothing
    /\ scopes = Nothing

AssemblyNext ==
    \/ \E m \in Modules : Skip(m) \/ Enter(m) \/ RejectCycle(m)
    \/ Leave \/ Resolve \/ Publish \/ CheckModules
    \/ \E k \in Keys : Settle(k)
    \/ Judge

AssemblySpec == AssemblyInit /\ [][AssemblyNext]_assemblyVars /\ WF_assemblyVars(AssemblyNext)

-----------------------------------------------------------------------------
(* Reference definitions.                                                    *)

\* The least set that has the members of s and, with each of its members, all that step
\* leads to from there.
Closure(s, step) ==
    {x \in DOMAIN step : \A t \in SUBSET DOMAIN step :
        s \subseteq t /\ (\A y \in t : step[y] \subseteq t) => x \in t}

DeclaredImports(m) == ToSet(Expanded(m).imports)
Binds(m) == {e.token : e \in ToSet(Expanded(m).providers)}

ImportGraph == [m \in Modules |-> DeclaredImports(m)]
Below(m) == Closure(DeclaredImports(m), ImportGraph)
ReachedFromRoot == Closure({Root}, ImportGraph)
Cyclic == \E m \in ReachedFromRoot : m \in Below(m)

\* The modules that bind a token as a module exports it, through any chain of re-exports.
Passes(m, t) == t \in ToSet(Expanded(m).exports)
Hands(t, m) ==
    LET onwards == [x \in Modules |->
                       IF t \in Binds(x) THEN {} ELSE {k \in DeclaredImports(x) : Passes(k, t)}]
    IN  IF ~Passes(m, t) THEN {} ELSE {o \in Closure({m}, onwards) : t \in Binds(o)}

\* The modules that answer for a token in a module: itself, its imports, the global ones.
Answerers(m, t) ==
    LET imported == UNION {Hands(t, k) : k \in DeclaredImports(m)} IN
    IF t \in Binds(m) THEN {m}
    ELSE IF imported # {} THEN imported
    ELSE UNION {Hands(t, g) : g \in {g \in ReachedFromRoot : Expanded(g).isGlobal}}

\* What an instance of a binding holds, however many transients are in between.
Asks(k) == IF IsPlanned(k) THEN HeldBy(Of(k).constructor, Sees(k[1])) ELSE Of(k).needs
Direct(k) ==
    {At(t, k[1]) : t \in {t \in Asks(k) \ RequestDerived : Located(t, k[1])}}
        \cup {<<k[1], t>> : t \in Asks(k) \cap RequestDerived}
Held(k) ==
    LET through == {j \in Keys : PassesThrough(j)}
        between == Closure(Direct(k) \cap through, [j \in through |-> Direct(j) \cap through])
    IN  Direct(k) \cup UNION {Direct(j) : j \in between}

Outlives(k, j) ==
    IF j[2] \in RequestDerived THEN Of(k).scope # "request"
    ELSE ~PassesThrough(j) /\ Width(Of(k).scope) > Width(Of(j).scope)

-----------------------------------------------------------------------------
(* Properties.                                                               *)

\* _discover_modules: the walk ends with every module the imports reach, each once, and
\* refuses exactly the graphs that import in a circle.
GraphIsTheImports ==
    /\ reason = "cycle" => Cyclic
    /\ stage \notin {"discovering", "refused"} =>
          /\ ~Cyclic
          /\ ToSet(ordered) = ReachedFromRoot /\ IsInjective(ordered)
          /\ ToSet(left) = ReachedFromRoot /\ IsInjective(left)

\* expand_module_input and _accumulate_multi_provider_tokens: a module that is compiled binds
\* what it declares and nothing else, each token to what the dynamic registration says of
\* it before what its base module does, and a pipeline slot to the components of both, in
\* order: no overlay takes a guard away.
BoundAsDeclared ==
    \A m \in DOMAIN compiled : \A t \in Tokens :
        LET overlay == IF m \in DOMAIN app.dynamic THEN app.dynamic[m].providers ELSE <<>>
            entries == Supplied(app.modules[m].providers, overlay, t)
        IN  HandedOver(compiled[m].binds, t) = [n \in DOMAIN entries |-> Bound(entries[n])]

\* _build_visibility_tables: in an application that is not refused, one module answers
\* for each token a module sees, the one a chain of exports leads to.
OneAnswerPerToken ==
    stage \in {"planning", "assembled"} =>
        \A m \in Reached : \A t \in Tokens :
            Answerers(m, t) = IF Located(t, m) THEN {visible[m][t]} ELSE {}

\* _merge_import: no application is refused for two imports that offer one token where they
\* do not, through whatever chains of re-exports.
CollisionsAreReal ==
    reason = "collision" =>
        \E m \in ReachedFromRoot : \E t \in Tokens \ Binds(m) :
            Cardinality(UNION {Hands(t, k) : k \in DeclaredImports(m)}) > 1

\* The graph is the one that was declared: its modules are those the imports reach, what
\* each binds is what was written for it, and a module that sees a token has one answer;
\* who sees a token that has two is refused, and nobody else for that.
GraphIsDeclared ==
    GraphIsTheImports /\ BoundAsDeclared /\ OneAnswerPerToken /\ CollisionsAreReal

\* planning/scopes.py: no instance of an assembled application is kept longer than
\* something it holds, through any chain of transients and aliases.
NothingOutlivesItsParts ==
    stage = "assembled" =>
        \A k \in {k \in Keys : ~PassesThrough(k)} : \A j \in Held(k) : ~Outlives(k, j)

\* What a module builds: each controller it lists, whichever module that is registered for.
Listings ==
    UNION {{m} \X {ControllerToken(n) : n \in DOMAIN compiled[m].controllers} : m \in DOMAIN compiled}

\* The same of every module that lists a controller. It does not hold: a class that two list
\* is judged for the last (registry.py:517), and kernel.py:453 plans it for the other when
\* asked. Such a class has no handler where an application is served: it would have it twice.
NoListingOutlivesItsParts ==
    stage = "assembled" =>
        \A k \in {k \in Listings : ~PassesThrough(k)} : \A j \in Held(k) : ~Outlives(k, j)

\* _use_class_scope: no binding keeps an instance longer than its class allows, whichever
\* module declares the class under whichever token and lays over whichever other.
KeptAsItsClassAllows ==
    \A m \in DOMAIN compiled : \A t \in Tokens :
        LET entries == Entries(Expanded(m).providers, t) IN
        \A n \in DOMAIN entries :
            (IsOfClass(entries[n]) /\ entries[n].class # Unstated) =>
                Keeps(HandedOver(compiled[m].binds, t)[n].scope) <= Keeps(entries[n].class)

\* violations(): no application is refused for an instance that outlives what it holds where
\* there is none, through whatever chain the solved scopes say so.
EscapesAreReal ==
    reason = "plan" =>
        \E k \in Keys :
            \/ Unsatisfied(k)
            \/ ~PassesThrough(k) /\ (Inquirer \in Asks(k) \/ \E j \in Held(k) : Outlives(k, j))

\* Nothing is kept too long, by what it was declared or by what it holds, and no application
\* is refused for what would not be.
LifetimesHold == NothingOutlivesItsParts /\ KeptAsItsClassAllows /\ EscapesAreReal

\* plan_constructor_dependencies and _build_steps: every class of an assembled application is
\* built by a call its constructor accepts, each argument in its own place.
CalledAsWritten ==
    stage = "assembled" =>
        \A k \in Keys : IsPlanned(k) => CallIsAccepted(Of(k).constructor, Sees(k[1]))

\* registry.py:44-48 takes a transient binding of a class to share nothing, so that any
\* class may be bound so: nothing that is kept longer than a class allows holds it.
TransientsShareNothing ==
    stage = "assembled" =>
        \A m \in Reached : \A e \in ToSet(Expanded(m).providers) :
            IsOfClass(e) /\ e.class = "request" =>
                \A k \in {k \in Keys : Of(k).scope \in {"durable", "singleton"}} :
                    <<m, e.token>> \notin Held(k)
=============================================================================
