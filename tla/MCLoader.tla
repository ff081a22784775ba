------------------------------ MODULE MCLoader ------------------------------
(***************************************************************************)
(* Instances of Loader for TLC: systems of three files.  p ranges over     *)
(* everything a file can be, q over one !include and one "uses", r over    *)
(* leaves, cycles back to p and q, and every way a file can be bad.        *)
(***************************************************************************)
EXTENDS Loader, TLC

CONSTANTS p, q, r

MCPath == {p, q, r}

File(kind, includes, uses) ==
    [kind |-> kind, includes |-> includes, uses |-> uses, malformed |-> FALSE]

DT(x) == << [kind |-> "DataType", path |-> x] >>
NE(x) == << [kind |-> "NamedExample", path |-> x] >>

Leaf(kind) == File(kind, << >>, << >>)
Broken(f)  == [f EXCEPT !.malformed = TRUE]

MCFirst ==
    {File("Library", i, u) : i \in { << >>, DT(q), DT(r), DT(q) \o NE(r) },
                             u \in { << >>, <<p>>, <<q>>, <<q, r>> }}
        \cup {File("DataType", i, u) : i \in { << >>, DT(q) }, u \in { << >>, <<r>>, <<q, r>> }}

MCSecond ==
    {File("Library", i, u) : i \in { << >>, DT(r) }, u \in { << >>, <<p>>, <<r>> }}
        \cup {File("DataType", i, u) : i \in { << >>, DT(r) }, u \in { << >>, <<p>>, <<r>> }}
        \cup {Leaf("NamedExample"), Broken(File("Library", << >>, <<p>>)),
              Broken(File("DataType", DT(r), << >>))}

MCThird ==
    {File("Library", << >>, << >>), File("Library", << >>, <<p>>),
     File("Library", << >>, <<q>>), File("Library", DT(p), << >>),
     File("DataType", << >>, << >>), File("DataType", << >>, <<p>>),
     Leaf("NamedExample"), Leaf("JSON"), Broken(Leaf("JSON")),
     Broken(File("Library", << >>, <<q>>)), Leaf("Unknown"), Leaf("Missing")}

System(x, y, z) == (p :> x) @@ (q :> y) @@ (r :> z)

\* Without cycles of includes alone, which are never decoded to the end.
Ends(fs) ==
    ~\E x \in MCPath : \E i \in DOMAIN fs[x].includes :
        LET y == fs[x].includes[i].path
        IN  \/ y = x
            \/ \E j \in DOMAIN fs[y].includes :
                  LET z == fs[y].includes[j].path
                  IN  z = x \/ (\E k \in DOMAIN fs[z].includes : fs[z].includes[k].path = x)

MCSystems ==
    {fs \in {System(x, y, z) : x \in MCFirst, y \in MCSecond, z \in MCThird} : Ends(fs)}

=============================================================================
