---------------------------- MODULE DeclaredTypes ----------------------------
(***************************************************************************)
(* How a value is given the type a handler declares for it                 *)
(* (runtime/params.py).  A text is read as the type.  A JSON value has a   *)
(* type already: it is refused when that is not the declared one, and the  *)
(* refusal names every place in it that is wrong.                          *)
(*                                                                         *)
(* A value `is` of a kind; a text knows what it `reads` as, an array has   *)
(* `items` and an object `fields`.  A declared type `is` "any", "none", a  *)
(* JSON scalar, a "list" or "dict", bare or `of` a type, a "union" of      *)
(* `members`, a "class" of `fields` that may collect a `surplus` of        *)
(* keywords, or "built" by calling it with a value of the kinds it is      *)
(* built `from`.  A field has a `type`, may be `required`, and may be none *)
(* of the constructor's (`init`).  A constructor called as it declares is  *)
(* assumed not to raise.  "any" is also what the code does not look into:  *)
(* a Pydantic model, which pipes validate, a tuple or a Literal.           *)
(* Paths are sequences: how they are written is left out.                  *)
(***************************************************************************)
EXTENDS Naturals, SequencesExt

Of(kind) == [is |-> kind]
Text(reads) == [is |-> "str", reads |-> reads]
Items(items) == [is |-> "array", items |-> items]
Object(fields) == [is |-> "object", fields |-> fields]
Instance(type, fields) == [is |-> "instance", of |-> type, fields |-> fields]

JsonScalars == {"bool", "int", "float", "str"}

\* What became of a value: what it was bound as, and the problems found in it.
Problem(kind, path, wanted) == [kind |-> kind, path |-> path, wanted |-> wanted]
Fits(value) == [value |-> value, problems |-> {}]
Mistyped(value, type, path) ==
    [value |-> value, problems |-> {Problem("mistyped", path, type)}]

\* A conversion refuses at once, whatever else is wrong.
Raise(value) == [value |-> value, problems |-> {Problem("conversion", <<>>, Of("any"))}]
Raises(result) == \E p \in result.problems : p.kind = "conversion"

Values(parts) == [i \in DOMAIN parts |-> parts[i].value]

\* A value whose parts answer for themselves until the first of them that has a problem.
JoinedToTheFirst(value, problems, parts) ==
    LET wrong == {i \in DOMAIN parts : parts[i].problems # {}}
    IN  IF problems # {} \/ wrong = {} THEN [value |-> value, problems |-> problems]
        ELSE [value |-> value, problems |-> parts[CHOOSE i \in wrong : TRUE].problems]

\* A value made of the parts, with its own problems and theirs.
Joined(value, problems, parts) ==
    IF \E i \in DOMAIN parts : Raises(parts[i]) THEN Raise(value)
    ELSE [value |-> value,
          problems |-> problems \union UNION {parts[i].problems : i \in DOMAIN parts}]

\* dict[str, int] and list[int] are of a type; the bare dict and list of any value.
IsAlias(type) == "of" \in DOMAIN type
Part(type) == IF IsAlias(type) THEN type.of ELSE Of("any")

OtherThanNone(type) == SelectSeq(type.members, LAMBDA m : m.is # "none")
AllowsNone(type) == Of("none") \in ToSet(type.members)

-----------------------------------------------------------------------------
(* Reading a text: _coerce_value.                                            *)

RECURSIVE Coerced(_, _)

\* The first member of a union that the value can be read as.
CoercedToUnion(value, type) ==
    LET options == OtherThanNone(type)
        read == {i \in DOMAIN options : ~Raises(Coerced(value, options[i]))}
    IN  IF value.is = "null" /\ AllowsNone(type) THEN Fits(value)
        ELSE IF read = {} THEN Raise(value)
        ELSE Coerced(value, options[Min(read)])

\* Only the bare dict is looked at: a text for an alias of it is handed over as it is.
Coerced(value, type) ==
    CASE type.is = "any" -> Fits(value)
      [] type.is = "union" -> CoercedToUnion(value, type)
      [] type.is = "list" ->
            IF value.is # "array" THEN Raise(value)
            ELSE LET parts == [i \in DOMAIN value.items |-> Coerced(value.items[i], Part(type))]
                 IN  Joined(Items(Values(parts)), {}, parts)
      [] type.is \in JsonScalars ->
            IF type.is = "str" THEN Fits(value)
            ELSE IF type.is \in value.reads THEN Fits(Of(type.is)) ELSE Raise(value)
      [] type.is = "dict" -> IF IsAlias(type) THEN Fits(value) ELSE Raise(value)
      [] type.is = "built" -> IF value.is \in type.from THEN Fits(Of("built")) ELSE Raise(value)
      [] OTHER -> Raise(value)

-----------------------------------------------------------------------------
(* Binding a JSON value: _bind_body_field.                                   *)

\* True is no number, and a whole number stands for a float.
FitsJsonScalar(value, type) ==
    \/ value.is = type.is
    \/ value.is = "int" /\ type.is = "float"

Accepts(type) == {n \in DOMAIN type.fields : type.fields[n].init}

\* The names a class requires and was not given, and those that it does not take.
ShapeProblems(type, fields, path) ==
    {Problem("missing", Append(path, n), type.fields[n].type) :
        n \in {m \in Accepts(type) : type.fields[m].required} \ DOMAIN fields}
    \union {Problem("unexpected", Append(path, n), Of("any")) :
        n \in IF type.surplus THEN {} ELSE DOMAIN fields \ Accepts(type)}

RECURSIVE Bound(_, _, _)

\* The first member that the value fits; a sole member answers for what it found within.
BoundToUnion(value, type, path) ==
    LET options == OtherThanNone(type)
        tried == [i \in DOMAIN options |-> Bound(value, options[i], path)]
        fitting == {i \in DOMAIN options : tried[i].problems = {}}
    IN  IF value.is = "null"
        THEN IF AllowsNone(type) THEN Fits(value) ELSE Mistyped(value, type, path)
        ELSE IF fitting # {} THEN tried[Min(fitting)]
        ELSE IF Len(options) = 1 /\ ~Raises(tried[1]) THEN tried[1]
        ELSE Mistyped(value, type, path)

\* Every value is bound to the type its field declares; the others stay as they arrived.
BoundToClass(value, type, path) ==
    LET parts == [n \in DOMAIN value.fields |->
                     IF n \in DOMAIN type.fields
                     THEN Bound(value.fields[n], type.fields[n].type, Append(path, n))
                     ELSE Fits(value.fields[n])]
    IN  Joined(Instance(type, Values(parts)), ShapeProblems(type, value.fields, path), parts)

BoundToList(value, type, path) ==
    LET parts == [i \in DOMAIN value.items |->
                     Bound(value.items[i], Part(type), Append(path, i))]
    IN  Joined(Items(Values(parts)), {}, parts)

BoundToDict(value, type, path) ==
    LET parts == [n \in DOMAIN value.fields |->
                     Bound(value.fields[n], Part(type), Append(path, n))]
    IN  Joined(Object(Values(parts)), {}, parts)

Bound(value, type, path) ==
    CASE type.is = "any" -> Fits(value)
      [] type.is = "union" -> BoundToUnion(value, type, path)
      [] type.is = "list" /\ value.is = "array" -> BoundToList(value, type, path)
      [] type.is = "dict" /\ value.is = "object" -> BoundToDict(value, type, path)
      [] type.is = "class" /\ value.is = "object" -> BoundToClass(value, type, path)
      [] type.is = "none" /\ value.is = "null" -> Fits(value)
      [] type.is \in JsonScalars /\ FitsJsonScalar(value, type) -> Fits(value)
      [] type.is = "built" -> Coerced(value, type)
      [] OTHER -> Mistyped(value, type, path)

-----------------------------------------------------------------------------
(* What a handler may rely on, and what the caller of a refused one may.     *)

\* A bound value is what its declaration says.
RECURSIVE Has(_, _)
Has(value, type) ==
    CASE type.is = "any" -> TRUE
      [] type.is = "union" -> \E i \in DOMAIN type.members : Has(value, type.members[i])
      [] type.is = "list" ->
            value.is = "array" /\ \A i \in DOMAIN value.items : Has(value.items[i], Part(type))
      [] type.is = "dict" ->
            value.is = "object" /\ \A n \in DOMAIN value.fields : Has(value.fields[n], Part(type))
      [] type.is = "class" ->
            /\ value.is = "instance" /\ value.of = type
            /\ type.surplus \/ DOMAIN value.fields \subseteq Accepts(type)
            /\ \A n \in DOMAIN type.fields :
                  IF n \in DOMAIN value.fields THEN Has(value.fields[n], type.fields[n].type)
                  ELSE ~type.fields[n].required
      [] type.is = "none" -> value.is = "null"
      [] type.is = "float" -> value.is \in {"float", "int"}
      [] OTHER -> value.is = type.is

\* A text is not held to a type that is an alias of dict, or leads to one.
RECURSIVE Unread(_)
Unread(type) ==
    CASE type.is = "dict" -> IsAlias(type)
      [] type.is = "list" -> Unread(Part(type))
      [] type.is = "union" -> \E i \in DOMAIN type.members : Unread(type.members[i])
      [] OTHER -> FALSE

\* Something in a value is to be built and cannot be; a union would go on to its next member.
RECURSIVE CannotBeBuilt(_, _)
CannotBeBuilt(value, type) ==
    \/ type.is = "built" /\ value.is \notin type.from
    \/ /\ type.is = "list" /\ value.is = "array"
       /\ \E i \in DOMAIN value.items : CannotBeBuilt(value.items[i], Part(type))
    \/ /\ type.is = "dict" /\ value.is = "object"
       /\ \E n \in DOMAIN value.fields : CannotBeBuilt(value.fields[n], Part(type))
    \/ /\ type.is = "class" /\ value.is = "object"
       /\ \E n \in DOMAIN value.fields \intersect DOMAIN type.fields :
             CannotBeBuilt(value.fields[n], type.fields[n].type)

\* Some JSON value of a type.
RECURSIVE Sample(_)
Sample(type) ==
    CASE type.is = "any" -> Of("null")
      [] type.is = "union" -> Sample(type.members[1])
      [] type.is = "list" -> Items(<<>>)
      [] type.is = "dict" -> Object(<<>>)
      [] type.is = "class" ->
            Object([n \in {m \in Accepts(type) : type.fields[m].required} |->
                       Sample(type.fields[n].type)])
      [] type.is = "none" -> Of("null")
      [] type.is = "built" -> Of(CHOOSE k \in type.from : TRUE)
      [] type.is = "str" -> Text({})
      [] OTHER -> Of(type.is)

\* A value put right in the places that a refusal names, and nowhere else.
RECURSIVE Repaired(_, _, _)
Repaired(value, path, problems) ==
    LET Named(kind, n) == {p \in problems : p.kind = kind /\ p.path = Append(path, n)}
        wrong == {p \in problems : p.kind = "mistyped" /\ p.path = path}
    IN  CASE wrong # {} -> Sample((CHOOSE p \in wrong : TRUE).wanted)
          [] wrong = {} /\ value.is = "array" ->
                Items([i \in DOMAIN value.items |->
                          Repaired(value.items[i], Append(path, i), problems)])
          [] wrong = {} /\ value.is = "object" ->
                LET kept == {n \in DOMAIN value.fields : Named("unexpected", n) = {}}
                    added == {p \in problems : p.kind = "missing" /\ p.path # <<>>
                                                /\ Front(p.path) = path}
                IN  Object([n \in kept \union {Last(p.path) : p \in added} |->
                        IF n \in kept THEN Repaired(value.fields[n], Append(path, n), problems)
                        ELSE Sample((CHOOSE p \in added : Last(p.path) = n).wanted)])
          [] OTHER -> value

\* A conversion that raises answers alone, and only for something that cannot be built.
\* Otherwise putting right every place that is named leaves nothing to refuse, and putting
\* right all but one does not.
NamesWhatIsWrong(value, type) ==
    LET Wrong(v) == Bound(v, type, <<>>).problems
        After(places) == Wrong(Repaired(value, <<>>,
                                        {p \in Wrong(value) : p.path \in places}))
        named == {p.path : p \in Wrong(value)}
    IN  IF Raises(Bound(value, type, <<>>)) THEN CannotBeBuilt(value, type)
        ELSE After(named) = {} /\ \A place \in named : After(named \ {place}) # {}
=============================================================================
