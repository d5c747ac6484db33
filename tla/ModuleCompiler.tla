----------------------------- MODULE ModuleCompiler -----------------------------
(***************************************************************************)
(* What a module declares, compiled to the bindings a container holds         *)
(* (kernel/module/compiler.py, normalize_provider of kernel/ioc/registry.py).  *)
(* A dynamic registration overlays the declaration of its base module; every *)
(* provider entry becomes a binding with a lifetime, or is refused; and the   *)
(* entries of a token that names a pipeline slot are joined.                 *)
(*                                                                          *)
(* An entry keeps of a provider its form, its token, the lifetime it names,   *)
(* the one its class declares, how that class derives a context key, which    *)
(* class that is with its constructor, or what else it needs, and the one trait of what is built that the route       *)
(* compiler reads.                                                           *)
(***************************************************************************)
EXTENDS Integers, SequencesExt, FiniteSetsExt

CONSTANTS
    Tokens,
    MultiTokens,    \* MULTI_PROVIDER_TOKENS
    Spelled         \* of each token, what it is equal to: tokens of two types may be equal

ASSUME CompilerAssumption ==
    /\ IsFiniteSet(Tokens) /\ MultiTokens \subseteq Tokens
    /\ DOMAIN Spelled = Tokens
    /\ \A t \in Tokens : t \notin Tokens \X Nat

Lifetimes == {"request", "durable", "singleton", "transient"}
Unstated == "unstated"

\* "bare" is a class written where a provider belongs, "malformed" what is no provider.
Forms == {"bare", "class", "factory", "value", "existing", "malformed"}

\* An asynchronous factory, and an interceptor that changes response bodies.
Traits == {"plain", "awaits", "mutates"}

\* A binding that joins the entries of a token needs an entry token for each of them.
EntryToken(t, n) == <<t, n>>

\* The entries of a sequence at some of its places, in order.
Picked(s, places) ==
    [n \in 1..Cardinality(places) |->
        s[CHOOSE i \in places : Cardinality({j \in places : j <= i}) = n]]

-----------------------------------------------------------------------------
(* expand_module_input.                                                      *)

\* declared_token_identity: what is no provider has no token to be replaced by.
NamesAToken(e) == e.form # "malformed"

\* _replaceable_token_identity.
Replaceable(e) == NamesAToken(e) /\ e.token \notin MultiTokens

\* The overlay that replaces the components of a slot as well.
OverlaidSlots(base, overlay) ==
    Picked(base, {i \in DOMAIN base : ~\E o \in ToSet(overlay) : o.token = base[i].token}) \o overlay

\* _overlaid_providers.
OverlaidProviders(base, overlay) ==
    LET isReplaced(e) == Replaceable(e) /\ \E o \in ToSet(overlay) : Replaceable(o) /\ o.token = e.token
    IN  Picked(base, {i \in DOMAIN base : ~isReplaced(base[i])}) \o overlay

\* _overlaid_entries.
OverlaidEntries(base, overlay) ==
    base \o Picked(overlay, {i \in DOMAIN overlay : overlay[i] \notin ToSet(base)})

\* dict.fromkeys, which keeps the first of equal tokens.
OverlaidExports(base, overlay) ==
    LET all == base \o overlay
    IN  Picked(all, {i \in DOMAIN all : ~\E j \in 1..(i - 1) : Spelled[all[j]] = Spelled[all[i]]})

Overlaid(base, overlay) ==
    [imports     |-> OverlaidEntries(base.imports, overlay.imports),
     controllers |-> OverlaidEntries(base.controllers, overlay.controllers),
     providers   |-> OverlaidProviders(base.providers, overlay.providers),
     exports     |-> OverlaidExports(base.exports, overlay.exports),
     isGlobal    |-> base.isGlobal \/ overlay.isGlobal]

-----------------------------------------------------------------------------
(* normalize_provider.                                                       *)

\* _LIFETIME_ORDER: how long a lifetime keeps an instance.
Keeps(s) ==
    CASE s = "transient" -> 0 [] s = "request" -> 1 [] s = "durable" -> 2 [] s = "singleton" -> 3

IsOfClass(e) == e.form \in {"bare", "class"}

NamesAScope(e) == e.form \in {"class", "factory"} /\ e.scope # Unstated

ScopeOf(e) ==
    CASE e.form = "value" -> "singleton"
      [] e.form = "existing" -> "transient"
      [] NamesAScope(e) -> e.scope
      [] IsOfClass(e) /\ ~NamesAScope(e) /\ e.class # Unstated -> e.class
      [] OTHER -> "singleton"

\* _use_class_scope: a definition may narrow what the class declares, never widen it.
Widens(e) ==
    /\ e.form = "class" /\ e.scope # Unstated /\ e.class # Unstated
    /\ Keeps(e.scope) > Keeps(e.class)

\* _refuse_unusable_durable_key_hook, and a durable factory, which can have no hook.
Partitionless(e) ==
    /\ ScopeOf(e) = "durable"
    /\ IsOfClass(e) => e.hook # "static"

Unusable(e) == ~NamesAToken(e) \/ Widens(e) \/ Partitionless(e)

Bound(e) ==
    [kind  |-> IF e.form = "bare" THEN "class" ELSE e.form,
     scope |-> ScopeOf(e),
     needs |-> e.needs,
     of    |-> e.of,
     constructor |-> e.constructor,
     trait |-> e.trait]

-----------------------------------------------------------------------------
(* validate_module_compiled.                                                 *)

Entries(providers, t) == Picked(providers, {i \in DOMAIN providers : providers[i].token = t})

\* _reject_colliding_token: two entries of one token, or of tokens that are equal.
Collide(d, e) ==
    /\ d.token \notin MultiTokens /\ e.token \notin MultiTokens
    /\ Spelled[d.token] = Spelled[e.token]

\* _validate_unique_entries.
Repeats(s) == ~IsInjective(s)

\* _normalized_bindings behind it.
Invalid(metadata) ==
    \/ Repeats(metadata.imports) \/ Repeats(metadata.controllers)
    \/ Repeats([n \in DOMAIN metadata.exports |-> Spelled[metadata.exports[n]]])
    \/ \E e \in ToSet(metadata.providers) : Unusable(e)
    \/ \E i, j \in DOMAIN metadata.providers :
          i < j /\ Collide(metadata.providers[i], metadata.providers[j])

Joined(t, n) ==
    [kind |-> "factory", scope |-> "transient", needs |-> {EntryToken(t, i) : i \in 1..n},
     trait |-> "plain"]

\* _accumulate_multi_provider_tokens: a token declared more than once, which a valid module
\* does with no other, is bound to all its entries.
Bindings(providers) ==
    LET declared == {e.token : e \in ToSet(providers)}
        folded == {t \in declared : Len(Entries(providers, t)) > 1}
        parts == UNION {{EntryToken(t, n) : n \in DOMAIN Entries(providers, t)} : t \in folded}
    IN  [t \in declared \cup parts |->
            IF t \in folded THEN Joined(t, Len(Entries(providers, t)))
            ELSE IF t \in declared THEN Bound(Entries(providers, t)[1])
            ELSE Bound(Entries(providers, t[1])[t[2]])]

-----------------------------------------------------------------------------
(* Reference definitions.                                                    *)

\* What a module that declares these entries supplies under a token, in order.
Supplied(base, overlay, t) ==
    LET later == Entries(overlay, t) IN
    IF t \in MultiTokens THEN Entries(base, t) \o later
    ELSE IF later # <<>> THEN later ELSE Entries(base, t)

\* What whoever asks for a token is handed, in order, by the bindings of a module.
HandedOver(binds, t) ==
    IF t \notin DOMAIN binds THEN <<>>
    ELSE LET parts == {n \in 1..Cardinality(DOMAIN binds) : EntryToken(t, n) \in binds[t].needs}
         IN  IF parts = {} THEN <<binds[t]>>
             ELSE [n \in 1..Cardinality(parts) |-> binds[EntryToken(t, n)]]
=============================================================================
