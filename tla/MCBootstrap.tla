---- MODULE MCBootstrap ----
EXTENDS Bootstrap

CONSTANTS r, a, b, x, xx, y, z, g, i, reg, ask, web, who, opaque, v1, v2

MCModules == {r, a, b}
\* g and i name the slots of guards and interceptors, reg the authenticators; x and xx are equal, as a string and an enum member may be.
MCTokens == {x, xx, y, z, g, i, reg}
MCSpelled == [t \in MCTokens |-> IF t = xx THEN x ELSE t]
\* Two classes of one bare name.
MCNameOf == [t \in MCTokens |-> CASE t \in {x, reg} -> "Repo" [] t = z -> "Z" [] OTHER -> opaque]

-----------------------------------------------------------------------------
(* Paths and templates.                                                      *)

\* "/a\n" is matched by the template "/a" as well, and is a template that is no literal.
MCPaths == {"/a", "/a/", "/a\n", "/b", "/v1/a", "/v2/a", "/v1/b", "/v2/b"}
MCAlternate == [p \in MCPaths |-> CASE p = "/a" -> "/a/" [] p = "/a/" -> "/a" [] OTHER -> <<>>]
MCLiterals == {"/a", "/v1/a", "/v2/a"}
MCTemplates == MCLiterals \cup {"/a\n", "/{x}", "/{y}", "/v1/{x}", "/v2/{x}", "/{x}/"}
MCAnswers == [t \in MCTemplates |->
    CASE t = "/a" -> {"/a", "/a\n"}
      [] t \in {"/{x}", "/{y}"} -> {"/a", "/a\n", "/b"}
      [] t = "/v1/{x}" -> {"/v1/a", "/v1/b"}
      [] t = "/v2/{x}" -> {"/v2/a", "/v2/b"}
      [] t = "/{x}/" -> {"/a/"}
      [] OTHER -> {t}]
MCPrefixed == (v1 :> ("/a" :> "/v1/a" @@ "/{x}" :> "/v1/{x}"))
           @@ (v2 :> ("/a" :> "/v2/a" @@ "/{x}" :> "/v2/{x}"))
MCCanonical == [t \in MCTemplates |-> IF t = "/{y}" THEN "/{x}" ELSE t]
MCMethods == {"GET", "HEAD", "POST"}

Nobody == [auth |-> FALSE, roles |-> {}, public |-> FALSE, other |-> FALSE]
OneGuard(place) == <<[guard |-> place]>>

Route(method, template, versions) ==
    [method |-> method, template |-> template, versions |-> versions, hosts |-> FALSE,
     raw |-> FALSE, mutates |-> FALSE, policy |-> Nobody, guards |-> <<>>]

Unversioned == [type |-> "none", default |-> Neutral]

-----------------------------------------------------------------------------
(* Declared modules.                                                         *)

Provider(form, t, scope, class, hook, needs) ==
    [form |-> form, token |-> t, scope |-> scope, class |-> class, hook |-> hook, needs |-> needs,
     of |-> t, constructor |-> NoConstructor, trait |-> "plain"]
Value(t) == Provider("value", t, Unstated, Unstated, "none", {})
Alias(t, needs) == Provider("existing", t, Unstated, Unstated, "none", needs)
Factory(t, scope, needs) == Provider("factory", t, scope, Unstated, "none", needs)

\* A constructor that asks for each of these plainly, and a class that has one.
Plainly(needs) ==
    Constructor(NoConstructor.globals,
        [n \in 1..Cardinality(needs) |-> Parameter(Token(SetToSeq(needs)[n]), "either", FALSE)])
Class(t, scope, needs) ==
    [Provider("bare", t, Unstated, scope, "static", {}) EXCEPT !.constructor = Plainly(needs)]

Controller(scope, hook, needs, handlers) ==
    [scope |-> scope, hook |-> hook, constructor |-> Plainly(needs), handlers |-> handlers,
     versions |-> <<>>, hosts |-> FALSE, mutates |-> FALSE, policy |-> Nobody, guards |-> <<>>]

\* Every handler in a controller of its own, told apart by its place.
Apart(handlers) ==
    [n \in DOMAIN handlers |-> [place |-> n] @@ Controller("singleton", FALSE, {}, <<handlers[n]>>)]

Metadata(imports, controllers, providers, exports, isGlobal) ==
    [imports |-> imports, controllers |-> controllers, providers |-> providers,
     exports |-> exports, isGlobal |-> isGlobal]
Bare == Metadata(<<>>, <<>>, <<>>, <<>>, FALSE)

Application(modules, dynamic, versioning) ==
    [modules |-> modules, dynamic |-> dynamic, versioning |-> versioning]
NoOverlay == [m \in {} |-> Bare]

OnlyRoot(providers, versioning, controllers) ==
    Application([m \in MCModules |-> IF m = r THEN Metadata(<<>>, controllers, providers, <<>>, FALSE)
                                     ELSE Bare],
                NoOverlay, versioning)

\* A handler in each module: the order of the modules decides which of them answers.
InEach == [m \in MCModules |->
    CASE m = r -> <<>> [] m = a -> <<Route("GET", "/a", <<>>)>> [] m = b -> <<Route("GET", "/{x}", <<>>)>>]

\* Three modules that import each other in every order and pass one token on.
Graphs ==
    {Application([m \in MCModules |->
          Metadata(IF m = r THEN fromR ELSE IF m = a THEN fromA ELSE fromB, Apart(InEach[m]),
                   IF m \in binding THEN <<Value(x)>> ELSE <<>>,
                   IF m \in exporting THEN <<x>> ELSE <<>>, m \in globals)],
          NoOverlay, Unversioned) :
        fromR \in {<<>>, <<a>>, <<b>>, <<a, b>>, <<b, a>>},
        fromA \in {<<>>, <<b>>, <<r>>},
        fromB \in {<<>>, <<a>>},
        binding \in SUBSET MCModules, exporting \in SUBSET MCModules,
        globals \in {{}, {a}, {b}, {a, b}, {r, b}}}

\* Three bindings of one module that hold each other, the request, or who asks for them;
\* the one that holds the others may be a controller.
Holders == {Class(x, s, n) : s \in Lifetimes, n \in {{y}, {y, z}, {y, ask}, {who}}}
Middles ==
    {Alias(y, n) : n \in {{x}, {z}, {ask}}}
        \cup {Factory(y, "transient", n) : n \in {{}, {x, z}, {who}}}
        \cup {Class(y, s, n) : s \in Lifetimes \ {"transient"}, n \in {{}, {z}}}
Ends == {Alias(z, n) : n \in {{y}, {ask}}} \cup {Class(z, s, {}) : s \in Lifetimes}
Chains ==
    {OnlyRoot(<<h, m, e>>, Unversioned, <<>>) : h \in Holders, m \in Middles, e \in Ends}
        \cup {OnlyRoot(<<h, m>>, Unversioned, <<>>) : h \in Holders, m \in Middles}
        \cup {OnlyRoot(<<m, e>>, Unversioned, <<Controller(s, hook, {y}, hs)>>) :
                 m \in Middles, e \in Ends, s \in Lifetimes, hook \in BOOLEAN,
                 hs \in {<<>>, <<Route("GET", "/a", <<>>), Route("GET", "/a", <<v1>>)>>}}

\* A binding reached through an export is resolved where it is bound.
Elsewhere ==
    {Application([m \in MCModules |->
          CASE m = r -> Metadata(<<a>>, <<>>, <<Class(x, s, {y}), [Class(z, near, {}) EXCEPT !.of = b]>>, <<>>, FALSE)
            [] m = a -> Metadata(<<>>, <<>>, <<middle, Class(z, far, {})>>, <<y>>, FALSE)
            [] OTHER -> Bare],
          NoOverlay, Unversioned) :
        s \in Lifetimes, near \in Lifetimes, far \in Lifetimes,
        middle \in {Alias(y, {z}), Class(y, "singleton", {z})}}

\* A controller that two modules list, each of which binds what it asks for on its own.
ListedTwice ==
    {Application([m \in MCModules |->
          CASE m = r -> Metadata(<<a>>, <<c>>, own, <<>>, FALSE)
            [] m = a -> Metadata(<<>>, <<c>>, <<Class(y, far, {})>>, <<>>, FALSE)
            [] OTHER -> Bare],
          NoOverlay, [type |-> type, default |-> Neutral]) :
        type \in {"none", "header"}, far \in Lifetimes,
        own \in {<<>>} \cup {<<Class(y, s, {})>> : s \in Lifetimes},
        c \in {Controller(s, FALSE, {y}, hs) :
                  s \in {"request", "singleton"}, hs \in {<<>>, <<Route("GET", "/a", <<>>)>>}}}

\* A class bound under a lifetime of the binding's, and a factory, beside whoever holds it.
Lifetime ==
    {OnlyRoot(<<Class(x, "singleton", {y}), e>>, Unversioned, <<>>) :
        e \in {Provider(form, y, scope, class, hook, {}) :
                  form \in {"class", "factory"}, scope \in Lifetimes \cup {Unstated},
                  class \in Lifetimes \cup {Unstated}, hook \in {"none", "method", "static"}}}

\* What a module declares, what a dynamic registration lays over it, and a module that is
\* handed the outcome: up to two entries of each, of a slot, of equal tokens, or malformed.
Declared ==
    {Value(x), Value(xx), Class(g, "singleton", {}), [Class(g, "request", {x}) EXCEPT !.of = z],
     Provider("malformed", x, Unstated, Unstated, "none", {})}
UpToTwo(pool) == UNION {[1..n -> pool] : n \in 0..2}
Overlays ==
    {Application([m \in MCModules |->
          CASE m = r -> Metadata(<<a>>, <<>>, <<Class(y, "singleton", {g})>>, <<>>, FALSE)
            [] m = a -> Metadata(<<b>>, <<>>, own, <<g>>, FALSE)
            [] OTHER -> Bare],
          a :> Metadata(<<b>>, <<>>, overlay, exports, FALSE), Unversioned) :
        own \in UpToTwo(Declared), overlay \in UpToTwo(Declared), exports \in {<<g>>, <<x, g>>}}

-----------------------------------------------------------------------------
(* Declared constructors, of a class y beside whatever else its module sees.  *)

\* Z is no global of the constructor's module, which defines names that lead to a token, to
\* each other in quotes, to a union, and to themselves.
Globals == "X" :> Token(x) @@ "Quoted" :> Named("X") @@ "Either" :> Union(<<Named("Repo")>>, TRUE)
           @@ "Itself" :> Named("Itself")

Asked ==
    {Missing, Token(x), Token(z), Token(ask), Token(web), Named("Quoted"), Named("Repo"),
     Named("Either"), Named("Itself"), Named("Z"), Union(<<Token(x), Token(z)>>, FALSE),
     Union(<<Token(x), Token(z)>>, TRUE), Union(<<Token(z)>>, TRUE),
     WithMarkers(Token(z), <<x>>, FALSE), WithMarkers(Token(z), <<>>, TRUE),
     WithMarkers(Union(<<WithMarkers(Token(z), <<x>>, FALSE)>>, TRUE), <<ask>>, FALSE)}
MCAnnotations ==
    Asked \cup {Token(t) : t \in Tokens \cup {Request, HttpRequest, Inquirer}}
          \cup {Globals[n] : n \in DOMAIN Globals}
          \cup {Union(<<WithMarkers(Token(z), <<x>>, FALSE)>>, TRUE)}

\* What Python lets one parameter follow another.
Follows(p, q) ==
    LET Place(k) == CASE k = "positional" -> 1 [] k = "either" -> 2 [] OTHER -> 3 IN
    /\ Place(p.kind) <= Place(q.kind)
    /\ (p.default /\ Place(q.kind) < 3) => q.default
Parameters(annotations, kinds) ==
    {Parameter(n, k, d) : n \in annotations, k \in kinds, d \in BOOLEAN}

Signatures ==
    {ps \in UNION {[1..n -> Parameters({Token(x), Token(z), Missing}, Kinds \ {"variadic"})] : n \in 0..3}
           \cup [1..2 -> Parameters(Asked, {"positional", "keyword"})]
           \cup {<<Parameter(Token(x), "variadic", FALSE)>>} :
        \A n \in 2..Len(ps) : Follows(ps[n - 1], ps[n])}

Constructed ==
    {OnlyRoot(beside \o <<[Class(y, scope, {}) EXCEPT !.constructor = Constructor(Globals, ps)]>>,
              Unversioned, <<>>) :
        ps \in Signatures, scope \in {"request"},
        beside \in {<<>>, <<Class(x, "request", {})>>, <<Class(x, "request", {}), Value(reg)>>}}

\* One class that two modules build, of which the second sees more than the first.
BuiltTwice ==
    {Application([m \in MCModules |->
          CASE m = r -> Metadata(<<a>>, <<>>, <<inRoot>>, <<>>, FALSE)
            [] m = a -> Metadata(<<>>, <<>>, <<[inRoot EXCEPT !.token = xx], Class(z, "request", {})>>, <<>>, FALSE)
            [] OTHER -> Bare],
          NoOverlay, Unversioned) :
        inRoot \in {[Class(x, "singleton", {}) EXCEPT
                        !.constructor = Constructor(Globals, <<Parameter(Token(z), "either", TRUE)>>)]}}

\* What is built twice, and nothing else.
TwiceFamilies == <<BuiltTwice>>

-----------------------------------------------------------------------------
(* Declared guards, policies and interceptors.                               *)

Policy(auth, roles, public, other) ==
    [auth |-> auth, roles |-> roles, public |-> public, other |-> other]
Declarable ==
    {Nobody, Policy(TRUE, {}, FALSE, FALSE), Policy(FALSE, {"p"}, FALSE, FALSE),
     Policy(TRUE, {"q"}, FALSE, FALSE), Policy(FALSE, {}, TRUE, FALSE),
     Policy(TRUE, {}, TRUE, FALSE), Policy(FALSE, {}, FALSE, TRUE)}

OneHandler(policies, raw, mutates, versions) ==
    <<[Controller("singleton", FALSE, {},
           <<[Route("GET", "/a", versions[2]) EXCEPT !.policy = policies[2], !.raw = raw,
                  !.mutates = mutates[2], !.guards = OneGuard("handler")]>>)
       EXCEPT !.policy = policies[1], !.mutates = mutates[1], !.versions = versions[1],
              !.guards = OneGuard("controller")]>>
Served1 == OneHandler(<<Nobody, Nobody>>, FALSE, <<FALSE, FALSE>>, <<<<>>, <<>>>>)

\* Guards of three modules, one of them overlaid, before those of a route of the second.
Guarded ==
    {Application([m \in MCModules |->
          CASE m = r -> Metadata(<<a>>, <<>>, first, <<>>, FALSE)
            [] m = a -> Metadata(<<b>>, Served1, own, <<>>, FALSE)
            [] OTHER -> Metadata(<<>>, <<>>, last, <<>>, FALSE)],
          a :> Metadata(<<>>, <<>>, overlay, <<>>, FALSE), Unversioned) :
        first \in {<<>>, <<Factory(g, "request", {})>>}, last \in {<<>>, <<Value(g)>>},
        own \in UpToTwo({Value(g), Class(g, "request", {})}),
        overlay \in UpToTwo({Value(g), Factory(g, "request", {})})}

\* Every pair of policies, and a registry here, there, exported, imported, global or nowhere.
Awaited == [Factory(reg, "singleton", {}) EXCEPT !.trait = "awaits"]
Policed ==
    {Application([m \in MCModules |->
          CASE m = r -> Metadata(<<a, b>>, <<>>, <<>>, <<>>, FALSE)
            [] m = a -> Metadata(imports, OneHandler(<<p, q>>, FALSE, <<FALSE, FALSE>>, <<<<>>, <<>>>>),
                                 IF m \in binding THEN registry ELSE <<>>, <<>>, FALSE)
            [] OTHER -> Metadata(<<>>, <<>>, IF m \in binding THEN registry ELSE <<>>,
                                 IF m \in binding /\ exported THEN <<reg>> ELSE <<>>, global)],
          NoOverlay, Unversioned) :
        p \in Declarable, q \in Declarable, imports \in {<<>>, <<b>>},
        binding \in SUBSET {a, b}, exported \in BOOLEAN, global \in BOOLEAN,
        registry \in {<<Value(reg)>>, <<Factory(reg, "singleton", {})>>, <<Awaited>>}}

\* Interceptors that can and cannot be read, beside a response that is handed on as it is.
Mutating(form, scope, needs) ==
    [Provider(form, i, scope, Unstated, "none", needs) EXCEPT !.trait = "mutates"]
Intercepted ==
    {OnlyRoot(slot \o <<Value(z)>>, Unversioned,
              OneHandler(<<Nobody, Nobody>>, raw, <<own, inner>>, <<<<>>, <<>>>>)) :
        slot \in UpToTwo({Mutating("bare", Unstated, {}), Mutating("factory", "request", {}),
                          Mutating("existing", Unstated, {z}), Value(i)}),
        raw \in BOOLEAN, own \in BOOLEAN, inner \in BOOLEAN}

-----------------------------------------------------------------------------
(* Declared handlers: up to three, of every path, method and version.        *)

UpToThree(pool) == UNION {[1..n -> pool] : n \in 1..3}

Paths1 ==
    {Route(m, t, <<>>) : m \in {"GET", "POST"}, t \in {"/a", "/{x}", "/{y}"}}
        \cup {Route("POST", "/a\n", <<>>), Route("GET", "/{x}/", <<>>)}
        \cup {Route("GET", t, <<v1>>) : t \in {"/a", "/{y}"}}
VersionLists == {<<>>, <<v1>>, <<v2>>, <<v1, v2>>}
Repeated == {<<v1, v1>>}
Versioned ==
    {Route("GET", t, vs) : t \in {"/a", "/{x}"}, vs \in VersionLists}
        \cup {Route("POST", "/a", <<v1>>)}
ForAHost == [Route("GET", "/a", <<v2>>) EXCEPT !.hosts = TRUE]

Inherited ==
    {OnlyRoot(<<>>, [type |-> type, default |-> v1],
              OneHandler(<<Nobody, Nobody>>, FALSE, <<FALSE, FALSE>>, <<outer, inner>>)) :
        type \in {"uri", "header"}, outer \in VersionLists, inner \in VersionLists \cup Repeated}

Handled(type, default, pool) ==
    {OnlyRoot(<<>>, [type |-> type, default |-> default], Apart(hs)) : hs \in UpToThree(pool)}

MCFamilies ==
    <<Graphs, Chains, Elsewhere, ListedTwice, Lifetime, Overlays, Constructed, Guarded, Policed,
      Intercepted, Inherited,
      Handled("none", Neutral, Paths1), Handled("uri", Neutral, Versioned),
      Handled("uri", v1, Versioned), Handled("header", Neutral, Versioned),
      {OnlyRoot(<<>>, Unversioned, Apart(<<ForAHost>>))}>>

\* Two paths of one pattern, of one version or of none, where a header tells versions apart.
PatternFamilies ==
    <<Handled("header", Neutral,
              {Route("GET", t, vs) : t \in {"/{x}", "/{y}"}, vs \in {<<>>, <<v1>>}})>>

\* Handlers told apart by a header, of which some name a host.
HostFamilies == <<Handled("header", Neutral, Versioned \cup {ForAHost})>>
====
