---------------------------- MODULE RequestBinding ----------------------------
(***************************************************************************)
(* What a handler is called with, or refused for: module RequestPath, with *)
(* the parameters of its handlers bound as in module ParameterBinding,     *)
(* whose operators a configuration gives to RequestPath's constants.       *)
(***************************************************************************)
EXTENDS RequestPath, ParameterBinding

Called == {n \in DOMAIN frames : frames[n].kind = "route" /\ frames[n].at = "call"}

\* A handler trusts a header, a cookie or a path: whatever else the caller sent under the
\* same name, the value is from there, and a value for a query or a body is not.
ArgumentsKeepTheirSource ==
    \A n \in Called : \A i \in DOMAIN frames[n].arguments :
        LET p == plan.handler.parameters[i]
            value == frames[n].arguments[i].from
        IN  /\ \A trusted \in {"header", "cookie", "path"} :
                   value = trusted <=> /\ trusted = Source(plan.handler, p)
                                       /\ value \notin {"default", "nothing"}
            /\ p.marker = "query" => value \in {"query", "default"}

\* A value that was converted or checked has the type its parameter declares, down to the
\* last field and element.  Two are not held to theirs: a mapping of all cookies is of
\* texts whatever it declares, and a text for an alias of dict stays a text (_coerce_value).
ArgumentsHaveTheirType ==
    \A n \in Called : \A i \in DOMAIN frames[n].arguments :
        LET p == plan.handler.parameters[i]
            argument == frames[n].arguments[i]
        IN  \/ argument.from \notin {"header", "cookie", "path", "query", "body"}
            \/ argument.from # "body" /\ Unread(p.type)
            \/ argument.from = "cookie" /\ p.type.is = "dict"
            \/ Has(argument.value, p.type)

\* A refusal names every problem in what its parameter takes from the body
\* (_bind_body_value): what is put right where it says is bound, and nothing is named that
\* was right.  A conversion that raises names nothing, and is owed to a value that cannot
\* be built.  Binding stops at the first parameter refused, so where several share a body
\* the problems of the others are not in the answer.
RefusalsNameWhatIsWrong ==
    frames = <<>> /\ outcome = Nothing =>
        \A p \in Parameters(plan.handler), sent \in plan.contents :
            Source(plan.handler, p) = "body" /\ sent.body.is \notin {"empty", "invalid"} =>
                LET value == BodyValue(plan.handler, p, sent.body)
                IN  value = Refusal \/ NamesWhatIsWrong(value, p.type)

\* A handler is called with what it declares, or the caller is told all that is wrong with
\* what the refused parameter was given, but for a conversion that raised.
CalledAsDeclared ==
    ArgumentsKeepTheirSource /\ ArgumentsHaveTheirType /\ RefusalsNameWhatIsWrong

\* Every text that was bound has the type its parameter declares.
TextsHaveTheirType ==
    \A n \in Called : \A i \in DOMAIN frames[n].arguments :
        frames[n].arguments[i].from \in {"header", "path", "query"} =>
            Has(frames[n].arguments[i].value, plan.handler.parameters[i].type)

\* What docs/reference/errors.md says of one body: all that is wrong with it is one refusal,
\* so no two parameters are refused what they take from it.
BodiesAreAnsweredWhole ==
    frames = <<>> /\ outcome = Nothing =>
        \A sent \in plan.contents, p, q \in Parameters(plan.handler) :
            /\ sent.body.is = "object" /\ p # q
            /\ \A r \in {p, q} : Source(plan.handler, r) = "body"
                                 /\ Bind(plan.handler, r, sent) = Refusal
            => FALSE

\* What docs/reference/routing.md says of a field that a body has not got: it is refused,
\* and never stands for a value.
MissingIsRefused ==
    \A n \in Called : \A i \in DOMAIN frames[n].arguments :
        frames[n].arguments[i].value # Missing
=============================================================================
