--------------------------- MODULE MCSchemaConverter ---------------------------
(***************************************************************************)
(* Instances of SchemaConverter for TLC: three types, each part of those   *)
(* before it or not, and two recursive shapes that may stand anywhere for  *)
(* them, among the facet definitions as well.                              *)
(***************************************************************************)
EXTENDS SchemaConverter, TLC

CONSTANTS ta, tb, tc, r1, r2

MCShapes == {ta, tb, tc, r1, r2}

NameOf == (ta :> "A") @@ (tb :> "B") @@ (tc :> "C") @@ (r1 :> "n") @@ (r2 :> "n")

\* Nothing is part of what comes before it.
MCGraphs ==
    { [ name      |-> NameOf,
        facetDefs |-> [s \in MCShapes |-> IF s = ta THEN fa ELSE IF s = tb THEN fb ELSE << >>],
        parts     |-> (ta :> pa) @@ (tb :> pb) @@ (tc :> pc) @@ (r1 :> << >>) @@ (r2 :> << >>),
        head      |-> (r1 :> h1) @@ (r2 :> h2) @@ (ta :> None) @@ (tb :> None) @@ (tc :> None),
        unwrapped |-> IF pc = << >> THEN MCShapes \ {tc} ELSE MCShapes,
        entries   |-> {ta, tb, tc} ] :
        fa \in {<< >>, << r1 >>, << tb >>}, fb \in {<< >>, << r2 >>},
        pa \in {<< tb, r1 >>, << tb, tc >>, << tc, tb, r2 >>, << r1, r2 >>},
        pb \in {<< r1 >>, << tc >>, << r2, tc >>}, pc \in {<< >>, << r1 >>, << r2, r1 >>},
        h1 \in {ta, tb}, h2 \in {ta, tb, tc} }

=============================================================================
