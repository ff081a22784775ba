------------------------------ MODULE MCResolver ------------------------------
(***************************************************************************)
(* Instances of Resolver for TLC: three declared types.  p and r are the   *)
(* parts of the expression of a, n is a property of it, q the part of the  *)
(* expression of b, m a property of c.                                     *)
(***************************************************************************)
EXTENDS Resolver

CONSTANTS a, b, c, p, q, r, m, n

MCShapes == {a, b, c, p, q, r, m, n}

\* A node: its type, its kind, what it refers to, its parts, its facets
\* ("none", "some" or "bad") and its properties.
Node(op, k, to, members, f, nested) ==
    [ op |-> op, kind |-> k, to |-> to, members |-> members, facets |-> f, nested |-> nested ]

Builtin(k)   == Node("builtin", k, None, << >>, "none", << >>)
Group(k, f)  == Node("group", k, None, << >>, f, << >>)
Ref(t)       == Node("reference", "any", t, << >>, "none", << >>)
Syntax       == Node("syntax", "any", None, << >>, "none", << >>)
Parts(op, M) == Node(op, "any", None, M, "none", << >>)

With(node, f, nested) == [node EXCEPT !.facets = f, !.nested = nested]

\* The functions on the shapes of one type: its expression, and what hangs on it.
First ==
    LET plain == {Ref(b), Ref(c), Node("include", "any", b, << >>, "none", << >>)}
        split == {<<Parts("array", <<p>>), x, Builtin("string")>> : x \in {Ref(a), Ref(b)}}
                   \cup {<<Parts("union", <<p, r>>), x, y>> :
                            x \in {Ref(a), Ref(c)}, y \in {Ref(b), Syntax}}
                   \cup {<<Parts("list", <<p, r>>), x, y>> :
                            x \in {Ref(a), Ref(b)}, y \in {Ref(c), Builtin("object")}}
        forms == split \cup {<<x, Builtin("any"), Builtin("any")>> : x \in plain}
        full(t, f, nested, z) == (a :> With(t[1], f, nested)) @@ (p :> t[2]) @@ (r :> t[3]) @@ (n :> z)
    IN  {full(t, "none", << >>, Builtin("any")) : t \in forms}
          \cup {full(t, "some", <<n>>, z) : t \in forms, z \in {Ref(a), Ref(b)}}
          \cup {full(t, "bad", <<n>>, Builtin("any")) : t \in forms}
          \cup {full(<<x, Builtin("any"), Builtin("any")>>, "none", << >>, Builtin("any")) :
                    x \in {Ref(a), Ref(None), Group("object", "none")}}

Second ==
    LET of(x, y) == (b :> x) @@ (q :> y)
    IN  {of(Parts(op, <<q>>), y) : op \in {"array", "optional"}, y \in {Ref(a), Ref(c)}}
          \cup {of(x, Builtin("any")) :
                   x \in {Ref(a), Ref(c), With(Ref(a), "some", << >>), With(Ref(c), "bad", << >>),
                          Builtin("object"), Group("string", "some"), Parts("list", << >>)}}

Third ==
    LET of(x, y) == (c :> x) @@ (m :> y)
    IN  {of(x, Builtin("any")) : x \in {Builtin("string"), Ref(a), Group("object", "none")}}
          \cup {of(With(Builtin("object"), "none", <<m>>), y) : y \in {Ref(b), Ref(c), Builtin("any")}}

Document(f, order) ==
    [ op        |-> [s \in MCShapes |-> f[s].op],
      kind      |-> [s \in MCShapes |-> f[s].kind],
      to        |-> [s \in MCShapes |-> f[s].to],
      members   |-> [s \in MCShapes |-> f[s].members],
      facets    |-> [s \in MCShapes |-> f[s].facets # "none"],
      nested    |-> [s \in MCShapes |-> f[s].nested],
      height    |-> [s \in MCShapes |-> IF s \in {a, b, c} THEN 1 ELSE 0],
      malformed |-> {s \in MCShapes : f[s].facets = "bad"},
      declared  |-> order ]

\* The types in order, and in the reverse order where a has no property, or one
\* that refers to b.
MCDocuments ==
    LET reversed == {x \in First : x[a].nested = << >> \/ x[n].to = b}
    IN  {Document(x @@ y @@ z, <<a, b, c>>) : x \in First, y \in Second, z \in Third}
          \cup {Document(x @@ y @@ z, <<c, b, a>>) : x \in reversed, y \in Second, z \in Third}

=============================================================================
