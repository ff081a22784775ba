----------------------------- MODULE MCValidation -----------------------------
(***************************************************************************)
(* Instances of Validation for TLC.  Library l1 declares the annotation    *)
(* type ta and the type tq, library l2 the annotation type tb and the type *)
(* tp, and dt is a data type with the type td.                             *)
(***************************************************************************)
EXTENDS Validation, TLC

CONSTANTS l1, l2, dt, ta, tb, tp, tq, td, nA, nB, nP, nQ, nD, mB, lA

MCLocations == {l1, l2, dt}
MCTypes     == {ta, tb, tp, tq, td}
MCNames     == {nA, nB, nP, nQ, nD, mB, lA}

MCDeclared ==
    (l1 :> [annotation |-> << ta >>, type |-> << tq >>])
      @@ (l2 :> [annotation |-> << tb >>, type |-> << tp >>])
      @@ (dt :> [annotation |-> << >>, type |-> << td >>])

MCUses(l, n) ==
    CASE l \in {l1, dt} /\ n = mB -> [at |-> l2, name |-> nB]
      [] l = dt /\ n = lA -> [at |-> l1, name |-> nA]
      [] OTHER -> None

\* One thing is wrong with a model, or nothing.
Right == [clashes |-> {}, own |-> {}, merged |-> {}, values |-> << "good", "good" >>]
Wrongs ==
    { Right,
      [Right EXCEPT !.clashes = {ta}], [Right EXCEPT !.clashes = {tp}], [Right EXCEPT !.clashes = {td}],
      [Right EXCEPT !.own = {ta}], [Right EXCEPT !.own = {tp}],
      [Right EXCEPT !.merged = {ta}], [Right EXCEPT !.merged = {td}],
      [Right EXCEPT !.values = << "wide", "good" >>], [Right EXCEPT !.values = << "good", "bad" >>] }

Forms == { [t \in MCTypes |-> "plain"],
           [t \in MCTypes |-> IF t = tp THEN "any" ELSE "plain"],
           [t \in MCTypes |-> IF t = tp THEN "union" ELSE "plain"],
           [t \in MCTypes |-> IF t = tq THEN "union" ELSE "plain"] }

\* Custom facets: which types define f, which define g, which set f; whether f is
\* required; whether td is recursive.
Custom(f, g, sets, required, recursive) ==
    [ defines   |-> [t \in MCTypes |-> (IF t \in f THEN {"f"} ELSE {}) \cup (IF t \in g THEN {"g"} ELSE {})],
      sets      |-> [t \in MCTypes |-> IF t \in sets THEN {"f"} ELSE {}],
      required  |-> IF required THEN {"f"} ELSE {},
      recursive |-> recursive ]

Plain == Custom({}, {}, {}, FALSE, {})
Customs ==
    { Custom(f, {td}, sets, required, recursive) :
        f \in {{tq}, {tp}, {tq, td}}, sets \in {{tp}, {ta, td}, {tp, td}},
        required \in BOOLEAN, recursive \in {{}, {td}} }

MCFacetNames == {"f", "g"}

\* Types with a parent in either library, through both; the annotation type
\* ta may have the name by which tb is known in l1.  Custom facets come with
\* models that have nothing else wrong, or one type that cannot be merged.
Model(an, pa, pb, pp, f, w, e, c) ==
      [ isLibrary  |-> [l \in MCLocations |-> l # dt],
        declared   |-> MCDeclared,
        name       |-> (ta :> an) @@ (tb :> nB) @@ (tp :> nP) @@ (tq :> nQ) @@ (td :> nD),
        uses       |-> [l \in MCLocations |-> [n \in MCNames |-> MCUses(l, n)]],
        parent     |-> (ta :> pa) @@ (tb :> pb) @@ (tp :> pp) @@ (tq :> None) @@ (td :> tp),
        form       |-> f,
        clashes    |-> w.clashes,
        fault      |-> [t \in MCTypes |-> IF t \in w.own THEN "own"
                                          ELSE IF t \in w.merged THEN "merged" ELSE "none"],
        defines    |-> c.defines, required |-> c.required, sets |-> c.sets,
        recursive  |-> c.recursive,
        extensions |-> << [at |-> l1, name |-> mB, value |-> w.values[1]],
                          [at |-> dt, name |-> e, value |-> w.values[2]] >> ]

MCModels ==
    { Model(an, pa, pb, pp, f, w, e, Plain) :
        an \in {nA, mB}, pa \in {None, tp, tq}, pb \in {None, tp}, pp \in {None, tq},
        f \in Forms, w \in Wrongs, e \in {mB, lA} }
      \cup
    { Model(nA, pa, None, pp, f, w, lA, c) :
        pa \in {None, tp}, pp \in {None, tq}, f \in Forms,
        w \in {Right, [Right EXCEPT !.clashes = {tp}]}, c \in Customs }

=============================================================================
