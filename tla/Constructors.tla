------------------------------ MODULE Constructors ------------------------------
(***************************************************************************)
(* How a class is called to build it: its constructor's annotations are     *)
(* read into tokens (kernel/ioc/planning/annotations.py), each token gets a  *)
(* source (container_plan.py), and the arguments are passed by place or by   *)
(* name (kernel.py, _build_steps).                                           *)
(*                                                                          *)
(* An annotation is a tree: a token; a name, in quotes; an annotation with   *)
(* metadata; a union.  A constructor is its parameters in order and the      *)
(* names its own module defines.  `seen` is what the module that builds the  *)
(* class can see.                                                            *)
(***************************************************************************)
EXTENDS ModuleCompiler

CONSTANTS
    NameOf,         \* __name__ of each token that is a class, or Opaque
    Opaque,         \* what is no class, as a union of two is none
    Request,        \* REQUEST or RESPONSE
    HttpRequest,    \* the types HttpRequest and HttpResponse, or the transport's own
    Inquirer,       \* the INQUIRER token
    Annotations,    \* what parameters are annotated with, names defined as, and their parts
    Layers          \* a bound on the metadata and unions around an annotation

ASSUME ConstructorsAssumption ==
    /\ DOMAIN NameOf = Tokens
    /\ {Request, HttpRequest, Inquirer, Opaque} \cap Tokens = {}
    /\ Cardinality({Request, HttpRequest, Inquirer, Opaque}) = 4
    /\ Request \notin Tokens \X Nat /\ Inquirer \notin Tokens \X Nat
    /\ Layers \in Nat

Token(t) == [is |-> "token", token |-> t]
Named(n) == [is |-> "name", name |-> n]
WithMarkers(a, inject, optional) ==
    [is |-> "annotated", of |-> a, inject |-> inject, optional |-> optional]
Union(members, none) == [is |-> "union", members |-> members, none |-> none]
Missing == [is |-> "missing"]

ASSUME AnnotationsAssumption ==
    /\ {Token(t) : t \in Tokens} \subseteq Annotations
    /\ \A x \in Annotations :
          /\ x.is = "annotated" =>
                /\ x.of \in Annotations /\ x.inject \in Seq(ToSet(x.inject))
                /\ x.optional \in BOOLEAN
          /\ x.is = "union" => x.members \in Seq(Annotations) /\ x.none \in BOOLEAN

\* In the order Python has them: passed by place only, either way, by name only.
Kinds == {"positional", "either", "keyword", "variadic"}
Parameter(annotation, kind, default) ==
    [annotation |-> annotation, kind |-> kind, default |-> default]
Constructor(globals, parameters) == [globals |-> globals, parameters |-> parameters]
NoConstructor == Constructor([n \in {} |-> Missing], <<>>)

-----------------------------------------------------------------------------
(* _ConstructorNamespace, _dereference and _interpret.                       *)

\* _MAX_DEREFERENCE_ROUNDS, the last of which is not looked at.
Rounds == 8

\* A name means what the constructor's module defines, and otherwise the one visible class
\* of that name.
Meanings(n, c, seen) ==
    IF n \in DOMAIN c.globals THEN {c.globals[n]}
    ELSE LET claimants == {t \in seen \cap Tokens : NameOf[t] = n}
         IN  {Token(t) : t \in {t \in claimants : claimants = {t}}}

\* One round: every name among some annotations is looked up.
LookedUp(s, c, seen) ==
    UNION {IF x.is = "name" THEN Meanings(x.name, c, seen) ELSE {x} : x \in s}

\* What an annotation evaluates to, or nothing.
Dereferenced(a, c, seen) ==
    LET looked[n \in 0..(Rounds - 1)] == IF n = 0 THEN {a} ELSE LookedUp(looked[n - 1], c, seen)
    IN  IF a.is = "name" THEN {x \in looked[Rounds - 1] : x.is # "name"} ELSE {a}

\* An annotation, with the markers and the None that were stripped off around it.
Reading(a, inject, optional) == [of |-> a, inject |-> inject, optional |-> optional]

\* One turn of the loop of _interpret: a union with None has to name one other type.
Stripped(r, c, seen) ==
    UNION {CASE e.is = "annotated" ->
                  {Reading(e.of, r.inject \o e.inject, r.optional \/ e.optional)}
             [] e.is = "union" /\ e.none ->
                  {Reading(x, r.inject, TRUE) : x \in IF Len(e.members) = 1 THEN ToSet(e.members) ELSE {}}
             [] OTHER -> {Reading(e, r.inject, r.optional)} :
           e \in Dereferenced(r.of, c, seen)}

StrippedAll(s, c, seen) == UNION {Stripped(r, c, seen) : r \in s}

\* The requirement an annotation states, or nothing.
Requirement(a, c, seen) ==
    LET layer[n \in 0..Layers] ==
            IF n = 0 THEN {Reading(a, <<>>, FALSE)} ELSE StrippedAll(layer[n - 1], c, seen)
        bare == {r \in layer[Layers] : r.of.is = "token" \/ (r.of.is = "union" /\ ~r.of.none)}
    IN  {[token |-> IF r.inject # <<>> THEN r.inject[1]
                    ELSE IF r.of.is = "token" THEN r.of.token ELSE Opaque,
          optional |-> r.optional] :
            r \in {r \in bare : Len(r.inject) <= 1}}

Required(p, c, seen) ==
    IF p.annotation = Missing THEN {} ELSE Requirement(p.annotation, c, seen)

-----------------------------------------------------------------------------
(* plan_constructor_dependencies.                                            *)

\* _is_satisfiable: of what the container answers itself, its tokens and not its types.
Satisfiable(t, seen) == t \in seen \cup {Request, Inquirer}

\* A parameter its planner passes nothing for.
Left(p, c, seen) ==
    /\ p.default
    /\ \/ p.annotation = Missing
       \/ \E q \in Required(p, c, seen) : ~Satisfiable(q.token, seen)

AfterDefault(c, n, seen) == \E i \in 1..(n - 1) : Left(c.parameters[i], c, seen)

\* The reasons _injectable_parameters, _requirement_for, _interpret and _dependency_for
\* have to refuse a constructor.
Unreadable(c, seen) ==
    \E n \in DOMAIN c.parameters :
        LET p == c.parameters[n] IN
        \/ p.kind = "variadic"
        \/ IF p.annotation = Missing THEN ~p.default ELSE Required(p, c, seen) = {}
        \/ /\ p.kind = "positional" /\ ~Left(p, c, seen)
           /\ AfterDefault(c, n, seen)

\* _source_for: where the value of a requirement comes from, if it comes from anywhere.
Sources(q, seen) ==
    IF q.token \in {Request, HttpRequest, Inquirer} THEN {"container"}
    ELSE IF q.token \in seen THEN {"table"}
    ELSE IF q.optional THEN {"none"} ELSE {}

\* The argument that goes by place whatever was left before it.
ByItsKind(c, n, seen) == c.parameters[n].kind \in {"positional", "either"}

\* _dependency_for: nothing after an empty place can still be passed by place.
ByPlace(c, n, seen) ==
    c.parameters[n].kind \in {"positional", "either"} /\ ~AfterDefault(c, n, seen)

\* _plan_target: an argument for each parameter that is not left to its default.
Arguments(c, seen) ==
    LET passed == Picked([n \in DOMAIN c.parameters |-> n],
                         {n \in DOMAIN c.parameters : ~Left(c.parameters[n], c, seen)})
    IN  [i \in DOMAIN passed |->
            LET q == CHOOSE q \in Required(c.parameters[passed[i]], c, seen) : TRUE IN
            [parameter |-> passed[i], positional |-> ByPlace(c, passed[i], seen),
             token |-> q.token, sources |-> Sources(q, seen)]]

Plannable(c, seen) ==
    ~Unreadable(c, seen) /\ \A g \in ToSet(Arguments(c, seen)) : g.sources # {}

\* ConstructionPlan.held: what a planned instance keeps hold of.
HeldBy(c, seen) ==
    IF ~Plannable(c, seen) THEN {}
    ELSE {g.token : g \in {g \in ToSet(Arguments(c, seen)) : g.sources # {"none"}}}

-----------------------------------------------------------------------------
(* Reference definitions.                                                    *)

\* The argument each parameter receives when Python makes the call, if any: those by place
\* fill the parameters in order, those by name the one they name.
Receives(c, arguments, n) ==
    LET byPlace == Picked(arguments, {i \in DOMAIN arguments : arguments[i].positional})
        byName == {g \in ToSet(arguments) : ~g.positional /\ g.parameter = n}
    IN  (IF n <= Len(byPlace) /\ c.parameters[n].kind \in {"positional", "either"}
         THEN {byPlace[n]} ELSE {})
            \cup (IF c.parameters[n].kind = "positional" THEN {} ELSE byName)

\* What an annotation leads to at once: through a name, metadata or a union with None.
Beneath(x, c, seen) ==
    CASE x.is = "name" -> Meanings(x.name, c, seen)
      [] x.is = "annotated" -> {x.of}
      [] x.is = "union" /\ x.none -> ToSet(x.members)
      [] OTHER -> {}

WithBeneath(s, c, seen) == s \cup UNION {Beneath(x, c, seen) : x \in s}

\* The annotations it leads to, as far as any requirement is read from it.
LeadsTo(a, c, seen) ==
    LET grown[i \in 0..(Rounds * Layers)] ==
            IF i = 0 THEN {a} ELSE WithBeneath(grown[i - 1], c, seen)
    IN  grown[Rounds * Layers]

\* A parameter may receive what its annotation names, or its marker does; and None, where
\* nothing the module sees answers for that, if the annotation allows it.
MayReceive(p, c, seen, g) ==
    LET reached == LeadsTo(p.annotation, c, seen)
        marked == UNION {ToSet(x.inject) : x \in {x \in reached : x.is = "annotated"}}
        plain == {x.token : x \in {x \in reached : x.is = "token"}}
    IN  /\ IF marked # {} THEN marked = {g.token} ELSE plain \subseteq {g.token}
        /\ g.sources = {"none"} =>
              /\ g.token \notin seen
              /\ \E x \in reached : \/ x.is = "union" /\ x.none
                                    \/ x.is = "annotated" /\ x.optional

\* The call that builds a class is one Python accepts: each argument reaches a parameter, the
\* one it was made for, and each parameter receives one at the most, or has a default.
EachArrives(c, seen) ==
    LET arguments == Arguments(c, seen) IN
    /\ \A n \in DOMAIN c.parameters :
          LET received == Receives(c, arguments, n) IN
          /\ \A g, f \in received : g = f /\ g.parameter = n
          /\ received = {} => c.parameters[n].default
    /\ \A g \in ToSet(arguments) : \E n \in DOMAIN c.parameters : g \in Receives(c, arguments, n)

\* What arrives is meant for the parameter it reaches.
EachIsMeant(c, seen) ==
    \A n \in DOMAIN c.parameters : \A g \in Receives(c, Arguments(c, seen), n) :
        MayReceive(c.parameters[n], c, seen, g)

CallIsAccepted(c, seen) == EachArrives(c, seen) /\ EachIsMeant(c, seen)
==================================================================================
