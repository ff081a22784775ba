------------------------------ MODULE MCCloning -------------------------------
(***************************************************************************)
(* Instances of Cloning for TLC: three shapes that refer to each other and *)
(* themselves through any of their containers, with and without heads, and *)
(* two of one identity that refer to each other.                           *)
(***************************************************************************)
EXTENDS Cloning

Node(i, d, l, p, h) == [id |-> i, defs |-> d, line |-> l, parts |-> p, head |-> h]

Singles ==
    { << Node(1, d1, l1, p1, 0), Node(2, << >>, l2, p2, 0), Node(3, << >>, << >>, p3, h3) >> :
        d1 \in {<< 2 >>}, l1 \in {<< 3 >>, << 1, 2 >>}, p1 \in {<< 2, 2 >>},
        l2 \in {<< >>, << 1 >>}, p2 \in {<< 3 >>}, p3 \in {<< >>, << 1 >>}, h3 \in {0, 1} }

\* The second and the third shape have one identity, and may differ.
Twins ==
    { << Node(1, << >>, << 2 >>, << 3 >>, 0), Node(2, << >>, << >>, p2, 0), Node(2, d3, << >>, << >>, 0) >> :
        p2 \in {<< 1 >>, << 3 >>}, d3 \in {<< >>, << 2 >>} }

MCGraphs == Singles \cup Twins

=============================================================================
