---------------------------- MODULE MCRequestPath ----------------------------
(***************************************************************************)
(* Routes for RequestPath: without guards, filters or hooks; with filters  *)
(* of every breadth, some of them application-wide; with a filter declared *)
(* for BaseException; and with handlers whose parameters come from every   *)
(* source, named and inferred, against requests that send the same names   *)
(* everywhere or nowhere, of every type against bodies with every mistake. *)
(***************************************************************************)
EXTENDS RequestBinding, TLC

Unknown == Of("any")

Param(name, marker, type, default) ==
    [name |-> name, marker |-> marker, type |-> type, default |-> default]

Handler(mode, safe, path, parameters) ==
    [mode |-> mode, safe |-> safe, path |-> path, parameters |-> parameters]

Plain == Handler("infer", TRUE, {}, <<>>)

Sent(headers, query, cookies, body) ==
    [header |-> headers, query |-> query, cookie |-> cookies, body |-> body,
     path |-> [n \in {"a", "b"} |-> Text({"int", "float"})],
     ip |-> [n \in {"a"} |-> Text({})], host |-> [n \in {"b"} |-> Text({})],
     file |-> [n \in {"a"} |-> Of("file")],
     files |-> [n \in {"b"} |-> Items(<<Of("file"), Of("file")>>)]]

NoNames == [n \in {} |-> None]
Empty == Of("empty")
Carrying(body) == Sent(NoNames, NoNames, NoNames, body)

Route(filters, globals, guarded, observed) ==
    [filters |-> filters, globals |-> globals, guarded |-> guarded, observed |-> observed,
     handler |-> Plain, contents |-> {Carrying(Empty)}]

Serving(handler, contents) ==
    [Route(<<>>, {}, FALSE, FALSE) EXCEPT !.handler = handler, !.contents = contents]

-----------------------------------------------------------------------------
(* Sources: the same names are sent in one or in several of them.            *)

Seven == Text({"int", "float"})
Word == Text({})

Named(names, text) == [n \in names |-> text]

Everywhere ==
    {Sent(Named(h, Word), Named(q, <<Word, Seven>>), Named(c, Seven), b) :
        h, q, c \in {{}, {"a", "b"}},
        b \in {Empty, Of("invalid"), Of("int"), Object(Named({"b"}, Of("int"))),
                Object(Named({"a", "b"}, Word))}}

OptionalList == [is |-> "union", members |-> <<[is |-> "list", of |-> Unknown], Of("none")>>]
Counts == [is |-> "dict", of |-> Of("int")]
Number == [is |-> "union", members |-> <<Of("int"), Of("bool")>>]

FromEverywhere ==
    {Handler("strict", TRUE, {"a"},
             <<Param("a", None, Of("int"), FALSE), Param("b", "header", t, d)>>) :
        t \in {Unknown, Number}, d \in BOOLEAN}
    \union {Handler("infer", TRUE, {}, <<Param("a", None, t, FALSE),
                                         Param("b", "cookie", u, FALSE)>>) :
        t \in {Of("float"), [is |-> "list", of |-> Of("str")], OptionalList},
        u \in {Number, Counts}}
    \union {Handler("infer", TRUE, {}, <<Param("a", None, t, FALSE),
                                         Param("b", "header", u, TRUE)>>) :
        t \in {Counts, [is |-> "union", members |-> <<Of("int"), Counts>>], Of("list")},
        u \in {Of("dict"), [is |-> "list", of |-> Counts]}}
    \union {Handler("infer", FALSE, {}, <<Param("a", "ip", Of("int"), FALSE),
                                          Param("b", "host", Unknown, FALSE),
                                          Param("c", "host", Unknown, FALSE)>>),
            Handler("infer", FALSE, {}, <<Param("a", "file", Unknown, TRUE),
                                          Param("b", "files", Unknown, FALSE),
                                          Param("c", "files", Unknown, FALSE)>>),
            Handler("explicit", FALSE, {}, <<Param("a", None, Of("request"), FALSE),
                                             Param("b", None, Of("int"), FALSE)>>),
            Handler("infer", FALSE, {"b"}, <<Param("a", None, Of("int"), FALSE),
                                             Param("b", "body", Unknown, TRUE)>>),
            Handler("infer", FALSE, {}, <<Param("a", None, Of("int"), FALSE),
                                          Param("b", None, Of("int"), TRUE)>>),
            Handler("explicit", FALSE, {}, <<Param("a", None, Unknown, FALSE),
                                             Param("b", None, Unknown, FALSE)>>)}

\* Two fields inferred from one body, neither of them annotated.
Unannotated == Handler("infer", FALSE, {}, <<Param("a", None, Unknown, FALSE),
                                             Param("b", None, Unknown, FALSE)>>)

-----------------------------------------------------------------------------
(* Types: a class of every kind of field, and the bodies that get each wrong.  *)

Field(type, required) == [type |-> type, required |-> required, init |-> TRUE]
Class(fields, surplus) == [is |-> "class", fields |-> fields, surplus |-> surplus]

Inner == Class([depth |-> Field(Of("float"), TRUE)], FALSE)

Note(inner, surplus) ==
    Class([count |-> Field(Of("int"), TRUE),
           tags  |-> Field([is |-> "list", of |-> Of("str")], FALSE),
           inner |-> Field([is |-> "union", members |-> inner], FALSE),
           stamp |-> [type |-> Of("int"), required |-> FALSE, init |-> FALSE]], surplus)

Built == [is |-> "built", from |-> {"str"}]

Notes ==
    {Note(<<Inner, Of("none")>>, s) : s \in BOOLEAN}
    \union {Note(<<Of("int"), Inner>>, FALSE),
            Note(<<Built, Counts>>, FALSE),
            Class([count |-> Field(Of("int"), TRUE), tags |-> Field(Of("list"), FALSE),
                   inner |-> Field([is |-> "dict", of |-> Built], FALSE)], TRUE)}

With(name, values) == {NoNames} \union {[n \in {name} |-> v] : v \in values}

NoteBodies ==
    {Object(c @@ t @@ i @@ s) :
        c \in With("count", {Of("int"), Of("bool"), Word}),
        t \in With("tags", {Items(<<>>), Items(<<Word, Of("int")>>)}),
        i \in With("inner", {Of("null"), Word, Object(NoNames),
                             Object([depth |-> Of("int")]),
                             Object([depth |-> Word, colour |-> Word])}),
        s \in With("stamp", {Of("int"), Word})}

OfEveryType ==
    {Serving(Handler("infer", FALSE, {}, <<Param("a", None, n, FALSE)>>),
             {Carrying(b) : b \in NoteBodies \union {Items(<<Of("null")>>)}}) : n \in Notes}

-----------------------------------------------------------------------------
Filtered ==
    {Route(<<>>, {}, FALSE, FALSE), Route(<<>>, {}, FALSE, TRUE)}
    \union {Route(<<{"Exception"}, {"Domain"}, {}>>, {1}, TRUE, o) : o \in BOOLEAN}
    \union {Route(<<{"BaseException"}, {"Special", "Exception"}>>, {2}, FALSE, TRUE)}

SomePlans ==
    Filtered \union OfEveryType
    \union {Serving(h, Everywhere) : h \in FromEverywhere \union {Unannotated}}

UnannotatedPlans == {Serving(Unannotated, Everywhere)}

SomeMro ==
    [Domain    |-> <<"Domain", "Exception", "BaseException">>,
     Special   |-> <<"Special", "Domain", "Exception", "BaseException">>,
     Timeout   |-> <<"Timeout", "BustanError", "Exception", "BaseException">>,
     TooLarge  |-> <<"TooLarge", "BustanError", "Exception", "BaseException">>,
     Refused   |-> <<"Refused", "BustanError", "Exception", "BaseException">>,
     ParameterBindingError |->
         <<"ParameterBindingError", "BustanError", "Exception", "BaseException">>,
     TypeError |-> <<"TypeError", "Exception", "BaseException">>]

SomeRaised == {"Domain", "Special"}
=============================================================================
