--------------------------- MODULE ParameterBinding ---------------------------
(***************************************************************************)
(* How a handler's parameters are bound to a request (runtime/params.py):  *)
(* the source each is compiled to, and the value that source gives it.     *)
(*                                                                         *)
(* A handler is a record of its `parameters`, the names in its `path`, its *)
(* binding `mode` and whether its method is `safe`.  A parameter has a     *)
(* `name`, the source its `marker` names or None, a `type` as in module    *)
(* DeclaredTypes, or "request", and perhaps a `default`.  What was sent is *)
(* a text per name for each source, a sequence of texts or files for those *)
(* that repeat, and a body: empty, invalid or a JSON value.  Aliases, and  *)
(* the resolvers that an application writes itself, are left out.          *)
(***************************************************************************)
EXTENDS DeclaredTypes

CONSTANT None

From(source, value) == [from |-> source, value |-> value]

\* The sentinel that stands for no value within the binder.
Missing == Of("sentinel")
Refusal == From("refusal", None)
Default == From("default", None)

-----------------------------------------------------------------------------
(* Compiling a signature.                                                    *)

Parameters(handler) == ToSet(handler.parameters)

HasExplicitSource(handler, p) ==
    \/ p.marker # None
    \/ p.type.is = "request"
    \/ p.name \in handler.path

Unresolved(handler) ==
    {i \in DOMAIN handler.parameters : ~HasExplicitSource(handler, handler.parameters[i])}

\* A parameter nothing names a source for is refused in strict mode, and in explicit
\* mode when it is not the only one a body could be meant for.
Compiles(handler) ==
    Unresolved(handler) # {} =>
        \/ handler.mode = "infer"
        \/ handler.mode = "explicit" /\ (handler.safe \/ Cardinality(Unresolved(handler)) = 1)

\* A marker wins over the type and the path, and they over what the method lets infer.
Source(handler, p) ==
    IF p.marker # None THEN p.marker
    ELSE IF p.type.is = "request" THEN "request"
    ELSE IF p.name \in handler.path THEN "path"
    ELSE IF handler.safe THEN "query" ELSE "body"

Inferred(handler) ==
    {p \in Parameters(handler) :
        ~HasExplicitSource(handler, p) /\ Source(handler, p) = "body"}

-----------------------------------------------------------------------------
(* Binding one parameter.                                                    *)

\* What an inferred parameter takes from the body: its field, or all of the body when
\* no other parameter is inferred from it.
ExtractBodyValue(handler, p, body) ==
    IF body.is = "object" /\ p.name \in DOMAIN body.fields THEN body.fields[p.name]
    ELSE IF Cardinality(Inferred(handler)) = 1 THEN body
    ELSE IF body.is = "object" THEN Missing ELSE Refusal

\* What a parameter takes from a body that is JSON.
BodyValue(handler, p, body) ==
    IF body.is = "object" /\ p.name \in DOMAIN body.fields THEN body.fields[p.name]
    ELSE IF p \in Inferred(handler) THEN ExtractBodyValue(handler, p, body)
    ELSE body

BindBodyValue(p, value) ==
    LET bound == Bound(value, p.type, <<>>)
    IN  IF bound.problems = {} THEN From("body", bound.value) ELSE Refusal

BindFromBody(handler, p, body) ==
    CASE body.is = "empty" -> IF p.default THEN Default ELSE Refusal
      [] body.is = "invalid" -> Refusal
      [] OTHER -> LET value == BodyValue(handler, p, body)
                  IN  IF value = Refusal THEN Refusal ELSE BindBodyValue(p, value)

\* What a source that has not got the parameter leaves it: its default, or nothing.
Absent(source, p) ==
    IF p.default /\ source # "path" THEN Default
    ELSE IF source = "files" THEN From(source, Items(<<>>))
    ELSE IF source \in {"cookie", "ip", "host", "file"} THEN From("nothing", Of("null"))
    ELSE Refusal

\* The transport's values are handed on as they are, whatever type is declared.
Untyped == {"ip", "host", "file", "files"}

\* A query may repeat a name: a list of a type takes all its values, anything else the last.
Taken(source, p, sent) ==
    IF source # "query" THEN sent[source][p.name]
    ELSE IF p.type.is = "list" /\ IsAlias(p.type) THEN Items(sent.query[p.name])
    ELSE Last(sent.query[p.name])

BindNamed(source, p, sent) ==
    LET read == Coerced(Taken(source, p, sent), p.type)
    IN  IF source \in Untyped THEN From(source, sent[source][p.name])
        ELSE IF read.problems = {} THEN From(source, read.value) ELSE Refusal

\* _bind_parameter: one source, and no other.  A mapping of cookies is all of them.
Bind(handler, p, sent) ==
    LET source == Source(handler, p)
    IN  CASE source = "request" -> From(source, Of(source))
          [] source = "body" -> BindFromBody(handler, p, sent.body)
          [] source = "cookie" /\ p.type.is = "dict" -> From(source, Object(sent.cookie))
          [] OTHER -> IF p.name \in DOMAIN sent[source] THEN BindNamed(source, p, sent)
                      ELSE Absent(source, p)

-----------------------------------------------------------------------------
(* Binding them all.                                                         *)

Arguments(handler, sent) ==
    [i \in DOMAIN handler.parameters |-> Bind(handler, handler.parameters[i], sent)]

\* The first parameter that cannot be bound refuses the request.
Binds(handler, sent) == \A i \in DOMAIN handler.parameters : Arguments(handler, sent)[i] # Refusal

\* A body is measured when it is read, as JSON or as a form.
ReadsTheBody(handler) ==
    \E p \in Parameters(handler) : Source(handler, p) \in {"body", "file", "files"}
=============================================================================
