---------------------------- MODULE MCInheritance -----------------------------
(***************************************************************************)
(* Instances of Inheritance for TLC: up to three types, each with a few    *)
(* facets at the bounds 1 and 2.  The values are those on both sides of    *)
(* every bound and between, dates and times of all spellings, and arrays   *)
(* and objects of up to two of them.                                       *)
(***************************************************************************)
EXTENDS Inheritance

CONSTANTS p, q

Num(n)  == Scalar("int", n)
Text(n) == Scalar("text", n)

MCScalarValues ==
    {Scalar(k, n) : k \in {"int", "float", "half", "text"}, n \in 0 .. 3}
    \cup {Scalar("accented", n) : n \in 2 .. 3}
    \cup {Scalar("bool", n) : n \in 0 .. 1}
    \cup {Scalar(k, 1) : k \in DateTimes \cup DateForms \cup Spellings \cup {"nil"}}

Elements == {Num(0), Num(1), Num(2), Scalar("half", 1), Text(1)}

MCValues ==
    MCScalarValues
    \cup {List(e) : e \in {<< >>} \cup [1 .. 1 -> Elements] \cup [1 .. 2 -> Elements]}
    \cup {List(<<Num(0), Num(1), Num(2)>>)}
    \cup {Object(f) : f \in UNION {[N -> Elements] : N \in SUBSET Names}}

-----------------------------------------------------------------------------
(* Documents *)

Alone(f)       == [facets |-> f, alias |-> 0, parents |-> << >>]
Child(f, ps)   == [facets |-> f, alias |-> 0, parents |-> ps]
Alias(type, a) == [facets |-> Plain(type, 0), alias |-> a, parents |-> << >>]

\* Three types: one after the other, an alias between, or two and their child.
\* The identity of a type is its position, parts have greater ones.
Chain(a, b, c) == << Alone(a), Child(b, <<1>>), Child(c, <<2>>) >>
Inner3(a, c)   == << Alone(a), Alias(a.type, 1), Child(c, <<2>>) >>
Joined(a, b, c, ps) == << Alone(a), Alone(b), Child(c, ps) >>
Siblings(a, b, c)   == << Alone(a), Child(b, <<1>>), Child(c, <<1>>) >>

Numbered(g) == [i \in DOMAIN g |-> [g[i] EXCEPT !.facets.id = i]]

Limits == {None, 1, 2}

Ranges(type)    == {[Plain(type, 0) EXCEPT !.min = x, !.max = y] : x \in Limits, y \in Limits}
Enums(type, E)  == {[Plain(type, 0) EXCEPT !.min = x, !.enum = e] : x \in {None, 2}, e \in E}
Formatted(type, F) == {[Plain(type, 0) EXCEPT !.format = f] : f \in F \cup {None}}

Choice(kinds) == {None} \cup ((SUBSET {Scalar(k, n) : k \in kinds, n \in 1 .. 2}) \ {{}})

ScalarMenus ==
    { Ranges("integer"), Ranges("string"),
      Enums("integer", Choice({"int"})),
      Enums("number", {None, {Num(1)}} \cup {{Scalar("float", n) : n \in 1 .. m} : m \in 1 .. 2}),
      {[Plain("file", 0) EXCEPT !.enum = e] : e \in Choice({"text"})},
      {[Plain("string", 0) EXCEPT !.pattern = r, !.enum = e] :
          r \in {None, {1}, {1, 2}}, e \in {None, {Text(1)}}},
      {[Plain("boolean", 0) EXCEPT !.enum = e] :
          e \in {None, {Scalar("bool", 0)}, {Scalar("bool", 0), Scalar("bool", 1)}}},
      Formatted("integer", IntegerFormats),
      Formatted("number", {"float", "double"}),
      Formatted("datetime", DateTimes),
      {Plain("any", 0)}, {Plain("nil", 0)},
      {Plain("date-only", 0)}, {Plain("time-only", 0)}, {Plain("datetime-only", 0)} }

MCScalars ==
    UNION { {Chain(a, b, c) : a \in M, b \in M, c \in M}
            \cup {Joined(a, b, Plain(a.type, 0), <<1, 2>>) : a \in M, b \in M}
            \cup {Inner3(a, c) : a \in M, c \in M}
            \cup {Siblings(a, b, c) : a \in {Plain("any", 0)} \cap M, b \in M, c \in M} :
            M \in ScalarMenus }
    \cup {Joined(a, b, a, <<2, 1>>) : a \in Ranges("integer"), b \in Ranges("integer")}
    \cup {Joined(a, b, Plain("integer", 0), <<1, 2>>) : a \in Ranges("integer"),
             b \in {Plain("number", 0), Plain("any", 0)}}

Small(id)     == [Plain("integer", id) EXCEPT !.max = 1]
Great(id)     == [Plain("integer", id) EXCEPT !.min = 1]
Word(id)      == [Plain("string", id) EXCEPT !.max = 1]
Either(id, m) == [Plain("union", id) EXCEPT !.anyOf = m]

Array(id, x, y, u, i) ==
    [Plain("array", id) EXCEPT !.min = x, !.max = y, !.unique = u, !.items = i]

Items(id) == {None, Plain("any", id), Plain("integer", id), Small(id), Great(id)}

Arrays(id) ==
    {Array(0, None, None, u, i) : u \in {None, FALSE, TRUE}, i \in Items(id)}
    \cup {Array(0, x, y, None, None) : x \in Limits, y \in Limits}

Mapped(id, x, y, a, f) ==
    [Plain("object", id) EXCEPT !.min = x, !.max = y, !.additional = a, !.props = f]

Prop(base, r) == [base |-> base, required |-> r]

\* The properties of an object: each absent, optional or required.
Has(k, base, r) == [Plain("object", 0).props EXCEPT ![k] = Prop(base, r)]

Props(id, B) ==
    {Has(p, b, r) : b \in B, r \in BOOLEAN}
    \cup {Plain("object", 0).props, Has(q, Plain("integer", id + 1), TRUE)}

Objects(id) ==
    {Mapped(0, None, None, a, f) : a \in {None, FALSE},
        f \in Props(id, {Plain("integer", id), Great(id)})}
    \cup {Mapped(0, x, y, None, Plain("object", 0).props) : x \in Limits, y \in Limits}

MCComposites ==
    {Chain(a, b, c) : a \in Arrays(11), b \in Arrays(21),
        c \in {Plain("array", 0), Array(0, 2, None, TRUE, Great(31)), Array(0, None, 1, None, None)}}
    \cup {Chain(a, b, c) : a \in Objects(11), b \in Objects(21),
        c \in {Plain("object", 0), Mapped(0, 1, 1, None, Has(q, Small(31), TRUE))}}

Holder(base) == Mapped(0, None, None, None, Has(p, base, FALSE))

\* Unions of scalars with identities from id on.
Unions(id) ==
    {Either(id, m) : m \in {<<Small(id + 1)>>, <<Small(id + 1), Great(id + 2)>>,
                            <<Great(id + 1), Word(id + 2)>>, <<Word(id + 1)>>,
                            <<Plain("any", id + 1), Word(id + 2)>>,
                            <<Plain("integer", id + 1), Plain("string", id + 2)>>,
                            <<Plain("integer", id + 1), Great(id + 2)>>}}

MCUnions ==
    {Siblings(Holder(a), Holder(b), Holder(c)) : a \in Unions(11), b \in Unions(21), c \in Unions(31)}
    \cup {Chain(Holder(a), Holder(b), Holder(c)) : a \in Unions(11), b \in Unions(21), c \in Unions(31)}
    \cup {Joined(a, b, Plain("union", 0), <<1, 2>>) : a \in Unions(11), b \in Unions(21)}
    \cup {Siblings(Holder(a), Holder(b), Holder(c)) : a \in Unions(11),
             b \in {Small(21), Word(21), Plain("any", 21)}, c \in {Small(31), Great(31)}}
    \cup {Joined(b, a, Plain(b.type, 0), <<1, 2>>) : a \in Unions(11), b \in {Small(2), Word(2)}}

MCDocuments == {Numbered(g) : g \in MCScalars \cup MCComposites \cup MCUnions}

\* A property that is a union where the parent's is none.
MCUnionTargets ==
    {Numbered(<< Alone(Holder(a)), Child(Holder(b), <<1>>) >>) :
        a \in {Small(11), Great(11), Plain("any", 11)},
        b \in {Small(21), Either(21, <<Small(22), Word(23)>>)}}

=============================================================================
