--------------------------- MODULE MCRecursionMark ---------------------------
(***************************************************************************)
(* Instances of RecursionMark for TLC: every graph of three shapes with    *)
(* three slots in which each shape owns up to two slots, slots may be      *)
(* shared, dangling or self-referential, and each slot may be used as a    *)
(* custom facet definition.                                                *)
(***************************************************************************)
EXTENDS RecursionMark, TLC

CONSTANTS a, b, c, k1, k2, k3

MCShapes == {a, b, c}
MCSlots  == {k1, k2, k3}

Children == { << >>, <<k1>>, <<k2>>, <<k1, k2>>, <<k2, k3>> }
Facets   == { << >>, <<k3>> }

\* A sound model: everything unwrapped, no hook error, no flag left over.
Sound(ch, fd, tg) ==
    [ children |-> ch, facetDefs |-> fd, target |-> tg, unwrapped |-> MCShapes,
      rejected |-> {}, stale |-> {}, roots |-> <<a, b, c>> ]

Uses(g, k) == {n \in MCShapes : \E i \in DOMAIN (g.children[n] \o g.facetDefs[n]) :
                                   (g.children[n] \o g.facetDefs[n])[i] = k}

\* Root order and the numbering of slots are fixed: the graphs range over all
\* their permutations.  A slot has one owner or two; k3 may have three.
MCGraphs ==
    LET all == {Sound(ch, fd, tg) : ch \in [MCShapes -> Children],
                                    fd \in [MCShapes -> Facets],
                                    tg \in [MCSlots -> MCShapes]}
    IN  {g \in all : /\ g.facetDefs[c] = << >>
                     /\ \A k \in MCSlots : Uses(g, k) # {}
                     /\ Uses(g, k1) # MCShapes /\ Uses(g, k2) # MCShapes}

\* Graphs on which a call fails: a shape a hook rejects, one not unwrapped.
MCBadGraphs ==
    LET ring == Sound((a :> <<k1, k2>>) @@ (b :> <<k3>>) @@ (c :> << >>),
                      [n \in MCShapes |-> << >>],
                      (k1 :> b) @@ (k2 :> c) @@ (k3 :> a))
    IN  {[ring EXCEPT !.rejected = R, !.unwrapped = U] :
            R \in {{}, {a}, {b}, {c}}, U \in {MCShapes, {a, b}, {a}}}

\* Graphs handed over with a flag still set by BaseShape.Inherit.
MCStaleGraphs ==
    LET two == {g \in MCGraphs : g.facetDefs[a] = << >> /\ Len(g.children[b]) < 2}
    IN  {[g EXCEPT !.stale = S] : g \in two, S \in {{a}, {b}, {c}}}

MCAllGraphs == MCGraphs \cup MCBadGraphs \cup MCStaleGraphs

=============================================================================
