------------------------------- MODULE MCUnwrap -------------------------------
(***************************************************************************)
(* Instances of Unwrap for TLC.  z, a and c are declared types, x, y and w *)
(* the shapes of their properties, v the shape of a property of x, i and j *)
(* the shapes the parser makes for the members of a multiple inheritance.  *)
(***************************************************************************)
EXTENDS Unwrap, TLC

CONSTANTS z, a, c, x, y, w, v, i, j, m, n

MCShapes == {z, a, c, x, y, w, v, i, j}

Prop(name, base) == << [name |-> name, base |-> base] >>

MCOrders == { <<z, a, c>>, <<c, a, z>>, <<a, c, z>> }

\* How a shape refers to its parents.
Ref(al, pa) == [alias |-> al, parents |-> pa]
Plain       == Ref(None, << >>)
Child(s)    == Ref(None, <<s>>)
Other(s)    == Ref(s, << >>)

\* The references and properties of some shapes, the others have none.
Model(kind, refs, props, order) ==
    LET ref  == refs @@ (i :> Other(z)) @@ (j :> Other(a)) @@ [s \in MCShapes |-> Plain]
    IN  [ kind     |-> kind,
          alias    |-> [s \in MCShapes |-> ref[s].alias],
          parents  |-> [s \in MCShapes |-> ref[s].parents],
          props    |-> props @@ [s \in MCShapes |-> << >>],
          rejected |-> {},
          roots    |-> order ]

\* Shapes that refer to nothing and have no properties are scalars.
Scalars(T) == [s \in MCShapes |-> IF s \in T THEN "scalar" ELSE "object"]

\* A type without properties, or with one of the given names whose shape
\* refers to others in one of the given ways.
With(names, base, refs) ==
    {[props |-> << >>, ref |-> Plain]}
        \cup {[props |-> Prop(k, base), ref |-> r] : k \in names, r \in refs}

\* Every way three object types inherit from one another and refer to each
\* other through properties, with shared, added and redeclared properties.
\* An alias has no properties of its own.
MCModels ==
    { Model(Scalars({v} \cup UNION {IF pz.ref = Plain THEN {x} ELSE {},
                                    IF pa.ref = Plain THEN {y} ELSE {},
                                    IF pc.ref = Plain THEN {w} ELSE {}}),
            a :> aa @@ c :> ac @@ x :> pz.ref @@ y :> pa.ref @@ w :> pc.ref,
            z :> pz.props @@ a :> pa.props @@ c :> pc.props, order) :
        ac \in {Plain, Child(a), Ref(None, <<i, j>>), Ref(None, <<j, i>>)},
        pz \in With({n}, x, {Plain, Child(a), Other(c)}),
        pc \in With({n, m}, w, {Plain, Child(z)}),
        order \in MCOrders,
        <<aa, pa>> \in ({Plain, Child(z)} \X With({n, m}, y,
                            {Plain, Child(a), Other(a), Child(z), Child(c)}))
                       \cup ({Other(z)} \X With({}, y, {})) }

\* Types with a property that has a property, both redeclared or not.
MCNested ==
    { Model(Scalars({v} \cup (IF aw = Plain THEN {w} ELSE {})),
            a :> Child(z) @@ c :> ac @@ x :> ax @@ y :> ay @@ w :> aw,
            z :> Prop(n, x) @@ a :> Prop(k, y) @@ x :> Prop(l, v) @@ y :> Prop(n, w), order) :
        ac \in {Plain, Child(a), Child(z)},
        ax \in {Plain, Child(c)},
        ay \in {Plain, Child(z), Child(c)},
        aw \in {Plain, Child(c)},
        k \in {m, n}, l \in {m, n},
        order \in MCOrders }

\* The unwrapping of one shape is refused by a hook.
MCRejected == {[g EXCEPT !.rejected = {s}] :
                  s \in MCShapes \ {v, w},
                  g \in {h \in MCModels : h.parents[c] = <<i, j>> /\ Len(h.parents[y]) = 1
                                           /\ h.alias[x] = None /\ h.props[c] # Prop(m, w)
                                           /\ h.kind[w] = "scalar" /\ h.roots = <<c, a, z>>}}

\* Types of kind any, and properties of kind any.
MCAny ==
    { Model([s \in MCShapes |-> "any"], a :> Child(z) @@ c :> Child(z), z :> << >>, order) :
        order \in MCOrders }
    \cup
    { Model([Scalars({y}) EXCEPT ![x] = "any"], a :> Child(z) @@ c :> ac,
            z :> Prop(n, x) @@ a :> pa, order) :
        ac \in {Child(z), Child(a)}, pa \in { << >>, Prop(n, y) }, order \in MCOrders }

\* A property is redeclared with another type: the error leaves the flag of z
\* set, which has another child.
MCClash ==
    { Model(Scalars({x}), a :> Child(z) @@ c :> Child(z), z :> Prop(n, x) @@ a :> Prop(n, y),
            order) : order \in MCOrders }

MCAll == MCModels \cup MCNested \cup MCRejected \cup MCAny \cup MCClash

=============================================================================
