----------------------------- MODULE RouteContracts -----------------------------
(***************************************************************************)
(* What RouteCompiler (runtime/compiler.py) makes of a handler: the contract   *)
(* that a request is served by, or the refusal of the application.  A contract *)
(* gathers what the application, the controller and the handler declare: the *)
(* guards in the order they run, the policy, the versions and the hosts.     *)
(*                                                                          *)
(* A global guard or interceptor stays a reference to the module that binds  *)
(* it until a request resolves it; what the reference then yields is         *)
(* HandedOver of ModuleCompiler.                                             *)
(***************************************************************************)
EXTENDS Assembly

CONSTANTS
    GuardToken,         \* APP_GUARD
    InterceptorToken,   \* APP_INTERCEPTOR
    RegistryToken,      \* AUTHENTICATOR_REGISTRY
    Roles               \* the roles and permissions a caller may hold

ASSUME ContractsAssumption ==
    /\ {GuardToken, InterceptorToken} \subseteq MultiTokens
    /\ RegistryToken \in Tokens \ MultiTokens

\* What a controller or a handler declares by @Auth, by @Roles and @Permissions, by @Public
\* and by the other policies.
Policies == [auth : BOOLEAN, roles : SUBSET Roles, public : BOOLEAN, other : BOOLEAN]

PolicyGuard == [guard |-> "policy"]

\* GlobalPipelineProvider: where a component comes from, rather than which it is.
Global(t, m) == [token |-> t, module |-> m]

\* get_global_pipeline_providers and _global_providers.
GlobalProviders(t) ==
    LET binding == Picked(ordered, {n \in DOMAIN ordered : t \in Local(ordered[n])})
    IN  [n \in DOMAIN binding |-> Global(t, binding[n])]

-----------------------------------------------------------------------------
(* Policies.                                                                 *)

\* _declares_access_requirements.
RequiresAccess(policy) == policy.auth \/ policy.roles # {}

Contradicts(policy) == policy.public /\ RequiresAccess(policy)

\* The merge that lets whichever level is public speak for both.
PublicAnywhere(c, h) == h.policy.public \/ c.policy.public

\* _resolve_public_policy: what a handler requires is not waived by its controller.
IsPublic(c, h) ==
    IF RequiresAccess(h.policy) THEN h.policy.public
    ELSE h.policy.public \/ c.policy.public

\* merge_policy_metadata.
Merged(c, h) ==
    [auth |-> c.policy.auth \/ h.policy.auth, roles |-> c.policy.roles \cup h.policy.roles,
     public |-> IsPublic(c, h), other |-> c.policy.other \/ h.policy.other]

\* _has_policy.
HasPolicy(policy) == RequiresAccess(policy) \/ policy.public \/ policy.other

\* A caller that an authenticator knows, that a middleware has attached a principal for, and
\* what either principal holds.
Callers == [known : BOOLEAN, attached : BOOLEAN, roles : SUBSET Roles]

\* PolicyGuard.can_activate.
Admits(policy, caller) ==
    \/ policy.public
    \/ LET principal == IF policy.auth THEN caller.known ELSE caller.attached
       IN  /\ policy.auth => principal
           /\ policy.roles # {} => principal /\ policy.roles \subseteq caller.roles

\* The search for a registry anywhere in the application.
RegistryAnywhere(m) == {k \in Reached : RegistryToken \in Local(k)}

\* _visible_authenticator_registry: the module whose registry one module sees.
VisibleRegistry(m) == IF Located(RegistryToken, m) THEN {visible[m][RegistryToken]} ELSE {}

\* _validate_authenticator_registry: the guard can neither do without one nor await it.
Unauthenticated(m, policy) ==
    /\ policy.auth /\ ~policy.public
    /\ \/ VisibleRegistry(m) = {}
       \/ \E k \in VisibleRegistry(m) :
             LET binding == compiled[k].binds[RegistryToken]
             IN  binding.kind = "factory" /\ binding.trait = "awaits"

-----------------------------------------------------------------------------
(* Interceptors of responses that are handed on as they are.                 *)

Readable(binding) == binding.kind \in {"class", "value"}

\* _declared_component and _joined_components: what can be read without a request.
DeclaredComponents(provider) ==
    LET handed == HandedOver(compiled[provider.module].binds, provider.token)
    IN  {b \in ToSet(handed) : Readable(b)}

\* _validate_interceptor_response_compatibility.
MutatesRaw(c, h) ==
    /\ h.raw
    /\ \/ c.mutates \/ h.mutates
       \/ \E p \in ToSet(GlobalProviders(InterceptorToken)) :
             \E b \in DeclaredComponents(p) : b.trait = "mutates"

-----------------------------------------------------------------------------
(* _compile_handler_contract.                                                *)

\* The pipeline in which the handler's own guards come first.
InnermostFirst(c, h) == h.guards \o c.guards \o GlobalProviders(GuardToken)

\* merge_pipeline_metadata.
MergedGuards(c, h) == GlobalProviders(GuardToken) \o c.guards \o h.guards

Unservable(m, c, h) ==
    \/ Contradicts(c.policy) \/ Contradicts(h.policy)
    \/ Unauthenticated(m, Merged(c, h))
    \/ MutatesRaw(c, h)

Contract(m, c, h) ==
    [method |-> h.method, template |-> h.template, module |-> m,
     versions |-> IF h.versions # <<>> THEN h.versions ELSE c.versions,
     hosts |-> h.hosts \/ c.hosts,
     policy |-> Merged(c, h),
     guards |-> IF HasPolicy(Merged(c, h)) THEN <<PolicyGuard>> \o MergedGuards(c, h)
                ELSE MergedGuards(c, h)]

\* ControllerScanner.scan: every handler with its module and its controller, in order.
ScannedHandlers ==
    FlattenSeq([n \in DOMAIN ordered |->
        LET m == ordered[n] IN
        FlattenSeq([k \in DOMAIN compiled[m].controllers |->
            LET c == compiled[m].controllers[k] IN
            [i \in DOMAIN c.handlers |-> [module |-> m, controller |-> c, handler |-> c.handlers[i]]]])])

-----------------------------------------------------------------------------
(* Reference definitions.                                                    *)

\* What is supplied under a token in every module, in the order of the modules.
SuppliedEverywhere(t) ==
    FlattenSeq([n \in DOMAIN ordered |->
        LET m == ordered[n] IN
        Supplied(app.modules[m].providers,
                 IF m \in DOMAIN app.dynamic THEN app.dynamic[m].providers ELSE <<>>, t)])

\* What runs before a handler, in order, read off the declarations: the policy guard where
\* anything at all is declared, every guard of every module, and the route's own.
GuardsDeclared(c, h) ==
    LET global == SuppliedEverywhere(GuardToken)
        silent == [auth |-> FALSE, roles |-> {}, public |-> FALSE, other |-> FALSE]
    IN  (IF c.policy = silent /\ h.policy = silent THEN <<>> ELSE <<PolicyGuard>>)
            \o [n \in DOMAIN global |-> Bound(global[n])] \o c.guards \o h.guards

\* What a contract runs, once the references are resolved.
GuardsRun(contract) ==
    FlattenSeq([n \in DOMAIN contract.guards |->
        IF contract.guards[n] \in {Global(GuardToken, m) : m \in Reached}
        THEN HandedOver(compiled[contract.guards[n].module].binds, GuardToken)
        ELSE <<contract.guards[n]>>])

\* Whom the declarations let through: a handler that asks for something is not waived by its
\* controller, the roles both ask for add up, and @Public waives both. Which strategy tells who
\* the caller is, the handler's where both name one, is left out.
LetsThrough(c, h, caller) ==
    \/ h.policy.public
    \/ c.policy.public /\ ~RequiresAccess(h.policy)
    \/ LET auth == c.policy.auth \/ h.policy.auth
           roles == c.policy.roles \cup h.policy.roles
       IN  /\ auth => caller.known
           /\ roles # {} => (auth \/ caller.attached) /\ roles \subseteq caller.roles
=============================================================================
