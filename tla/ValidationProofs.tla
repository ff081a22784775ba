---------------------------- MODULE ValidationProofs ----------------------------
(***************************************************************************)
(* Theorems about Validation, for every model: annotations keep their type *)
(* in UnwrapShapes, which fails if some type cannot be merged, and         *)
(* ValidateShapes reports what is wrong.  What a model says of its types   *)
(* depends on the model alone, and is defined first.                       *)
(***************************************************************************)
EXTENDS Validation, SequenceTheorems, TLAPS

\* The types above each one, by what is declared in the model g.
Above(g) ==
    LET above[t \in Types] ==
            IF g.parent[t] = None THEN {} ELSE {g.parent[t]} \cup above[g.parent[t]]
    IN  above

\* The types that cannot be merged.
Failing(g) ==
    LET bad[t \in Types] == \/ g.parent[t] # None /\ t \in g.clashes
                            \/ g.parent[t] # None /\ bad[g.parent[t]]
    IN  bad

\* The custom facets a type has when everything above it is merged into it.
Full(g, t) == [ sets   |-> UNION {g.sets[a] : a \in {t} \cup Above(g)[t]},
                offers |-> UNION {g.defines[a] : a \in Above(g)[t]} ]

\* The declared type at a place; whether t is an annotation type.
At(g, p) == g.declared[p.at][p.table][p.index]
IsAnnotation(g, t) ==
    \E l \in Locations : \E i \in DOMAIN g.declared[l]["annotation"] : g.declared[l]["annotation"][i] = t

\* The type t is the annotation type that l declares under the name n.
Is(g, t, l, n) ==
    /\ (CHOOSE k \in Locations : \E table \in Tables : \E i \in DOMAIN g.declared[k][table] :
            g.declared[k][table][i] = t) = l
    /\ g.name[t] = n
    /\ \E i \in DOMAIN g.declared[l]["annotation"] : g.declared[l]["annotation"][i] = t

\* Meant(e), of the model g.
MeantIn(g, e) ==
    LET x    == g.extensions[e]
        used == g.uses[x.at][x.name]
    IN  CHOOSE t \in Types :
           \/ g.isLibrary[x.at] /\ Is(g, t, x.at, x.name)
           \/ /\ ~\E u \in Types : g.isLibrary[x.at] /\ Is(g, u, x.at, x.name)
              /\ used # None /\ Is(g, t, used.at, used.name)

\* Every shape stands where its type is declared, or its type does.
Standing    == \A p \in AllPlaces : slots[p.at][p.table][p.index] = Own(At(given, p))
TypeStands  == \A p \in AllPlaces : slots[p.at][p.table][p.index].type = At(given, p)
Inherited   == \A p \in AllPlaces :
                  LET t == slots[p.at][p.table][p.index].type
                  IN  t = At(given, p) \/ t \in Above(given)[At(given, p)]

\* The loops are past the place p.
Past(p) == p.at \notin left /\ \A k \in DOMAIN todo : todo[k] # p

\* The loop is past the annotation e.
Beyond(e) == \A k \in DOMAIN todo : todo[k] # e

Entry(p) == tables["annotation"][p.at][given.name[At(given, p)]]

\* In phase "resolve", an annotation without a type is in the errors.
Resolving ==
    phase = "resolve" => \A e \in Extensions :
        Beyond(e) /\ definedBy[e] = None => << "annotation", e >> \in errors

\* Links and entries of the tables are to annotation types.
ToAnnotations ==
    /\ \A e \in Extensions : definedBy[e] # None => IsAnnotation(given, definedBy[e].type)
    /\ \A l \in Locations, n \in Names :
          tables["annotation"][l][n] # None => IsAnnotation(given, tables["annotation"][l][n].type)

\* The table has an entry for every annotation type that UnwrapShapes is past.
Entered ==
    /\ phase = "unwrap" /\ errors = {} => \A p \in AllPlaces :
          p.table = "annotation" /\ Past(p) => Entry(p) # None
    /\ phase = "links" => \A p \in AllPlaces : p.table = "annotation" => Entry(p) # None

NoneLost ==
    phase \notin {"resolve", "refused"} => phase # "crashed" /\ \A e \in Extensions : definedBy[e] # None

\* What the links and tables hold as long as the types stand.
Linked == Resolving /\ (TypeStands => ToAnnotations /\ Entered /\ NoneLost)

ToMeant == \A e \in Extensions : definedBy[e] # None => definedBy[e] = Own(MeantIn(given, e))

\* An entry of the table has the name it is under, and its fragment declares it.
Entries ==
    \A l \in Locations, n \in Names : tables["annotation"][l][n] # None =>
        \E i \in DOMAIN given.declared[l]["annotation"] :
            LET t == given.declared[l]["annotation"][i]
            IN  given.name[t] = n /\ tables["annotation"][l][n] = Own(t)

\* As long as the shapes themselves stand, they are what is meant.
Named == Standing => ToMeant /\ Entries

\* A type is flagged, but was not merged with all it inherits.
Lost == \E a \in flagged : Own(a) \notin merged

\* What is merged is flagged; as long as nothing is lost, what is flagged is right.
Merged ==
    /\ \A t \in Types : Own(t) \in merged => t \in flagged
    /\ \A t \in Types : given.parent[t] = None => facets[t] = Full(given, t)
    /\ ~Lost => \A a \in flagged : facets[a] = Full(given, a) /\ ~Failing(given)[a]

NoUnwraps == \A i \in DOMAIN calls : calls[i].call # "unwrap"

\* Nothing was unwrapped in place.
Quiet ==
    /\ flagged = {} /\ visited = {} /\ merged = {}
    /\ Standing
    /\ \A t \in Types : facets[t] = [sets |-> given.sets[t], offers |-> {}]

Untouched ==
    /\ NoUnwraps /\ phase \notin {"unwrap", "links", "crashed"} => Quiet
    /\ phase = "overflowed" => \E i \in DOMAIN calls : calls[i].call = "unwrap" /\ ~calls[i].ok

AllPlain == \A t \in Types : given.form[t] = "plain"

\* So far no type that cannot be merged was met.
SoFarGood ==
    /\ Standing /\ visited = {}
    /\ \A t \in flagged : ~Failing(given)[t]
    /\ \A p \in AllPlaces : Past(p) => At(given, p) \in flagged

\* The first UnwrapShapes of a model whose types are plain.
FirstUnwrap ==
    AllPlain /\ NoUnwraps =>
        /\ phase = "unwrap" /\ errors # {} => \E t \in Types : Failing(given)[t]
        /\ phase = "unwrap" /\ errors = {} => SoFarGood
        /\ phase = "links" => \A t \in Types : ~Failing(given)[t]

\* A call begins without errors and with an empty cache.
Clean ==
    /\ phase = "resolve" => calls = << >>
    /\ phase \in {"idle", "links"} => errors = {}
    /\ phase \in {"resolve", "idle", "unwrap", "links"} => \A t \in Types : cache[t] = None

\* If the i-th call was the first UnwrapShapes, it failed exactly if it had to.
FoundAt(cs, i) ==
    cs[i].call = "unwrap" /\ (\A j \in 1..(i - 1) : cs[j].call # "unwrap")
        => (cs[i].ok <=> \A t \in Types : ~Failing(given)[t])
FailingFound == AllPlain => \A i \in DOMAIN calls : FoundAt(calls, i)

\* What is wrong with a type and with an annotation of the model g.
WrongType(g, t) ==
    \/ Failing(g)[t] \/ g.fault[t] # "none"
    \/ g.defines[t] \cap Full(g, t).offers # {}
    \/ ~(g.required \cap Full(g, t).offers \subseteq Full(g, t).sets)
    \/ ~(Full(g, t).sets \subseteq Full(g, t).offers)
    \/ t \in g.recursive /\ Full(g, t).sets # {}
WrongValue(g, e) == Failing(g)[MeantIn(g, e)] \/ g.extensions[e].value # "good"
Found(g, E) ==
    {<< "type", t >> : t \in {t \in Types : WrongType(g, t)}} \cup
    {<< "annotation", e >> : e \in {e \in E : WrongValue(g, e)}}

\* The errors and the cache hold nothing but what they should.
Sound ==
    /\ \A t \in Types : << "type", t >> \in errors => WrongType(given, t)
    /\ \A e \in Extensions : << "annotation", e >> \in errors => WrongValue(given, e)
    /\ \A t \in Types : t \notin flagged /\ cache[t] # None => ~Failing(given)[t] /\ cache[t].whole

\* They hold what they should of the type t.
Settled(t) ==
    /\ WrongType(given, t) => << "type", t >> \in errors
    /\ t \notin flagged /\ ~Failing(given)[t] => cache[t] # None

Validated     == phase = "validate" => \A p \in AllPlaces : Past(p) => Settled(At(given, p))
ValuesChecked ==
    phase = "values" =>
        /\ \A t \in Types : Settled(t)
        /\ \A e \in Extensions : Beyond(e) /\ WrongValue(given, e) => << "annotation", e >> \in errors
Told ==
    phase = "idle" /\ calls # << >> /\ calls[Len(calls)].call = "validate" => reported = Found(given, Extensions)

\* The errors of ValidateShapes, so far and when it returned.
Reported ==
    InOrder => /\ phase \in {"validate", "values"} => Sound
               /\ Validated /\ ValuesChecked /\ Told

-----------------------------------------------------------------------------
(* Lines of inheritance: no type is above itself, and so what holds of the *)
(* types without parents, and of a type when it holds of its parent, holds *)
(* of all; and a function may be defined from the top downwards.           *)

TopDown(par) ==
    /\ par \in [Types -> Types \cup {None}]
    /\ \A T \in SUBSET Types : T # {} => \E t \in T : par[t] \notin T

\* What holds of a type when it holds of its parent holds of every type.
LEMMA FromTheTop ==
    ASSUME NEW par, TopDown(par), NEW S,
           \A t \in Types : par[t] = None \/ par[t] \in S => t \in S
    PROVE  Types \subseteq S
<1> DEFINE T == Types \ S
<1>1. SUFFICES ASSUME T # {} PROVE FALSE
  OBVIOUS
<1>2. PICK t \in T : par[t] \notin T
  BY <1>1 DEF TopDown
<1>3. par[t] = None \/ par[t] \in S
  BY <1>2 DEF TopDown
<1> QED
  BY <1>2, <1>3

\* f is defined for the types of U, with all that is above them, by what it
\* is for a type without a parent and how it follows from that of the parent.
Solves(par, base, step, f, U) ==
    \A t \in U : /\ par[t] # None => par[t] \in U
                 /\ f[t] = IF par[t] = None THEN base[t] ELSE step[t][f[par[t]]]

\* Two such functions agree on the types both are defined for.
LEMMA SolvesUnique ==
    ASSUME NEW par, TopDown(par), NEW base, NEW step, NEW U \in SUBSET Types, NEW W \in SUBSET Types,
           NEW f, NEW h, Solves(par, base, step, f, U), Solves(par, base, step, h, W)
    PROVE  \A t \in U \cap W : f[t] = h[t]
<1> DEFINE S == {t \in Types : t \in U \cap W => f[t] = h[t]}
<1>1. ASSUME NEW t \in Types, par[t] = None \/ par[t] \in S PROVE t \in S
  BY <1>1 DEF Solves
<1> HIDE DEF S
<1>2. Types \subseteq S
  BY <1>1, FromTheTop
<1> QED
  BY <1>2 DEF S

\* Some function of Types into V is defined from the top downwards by base and step.
Defined(par, V, base, step) ==
    \E f \in [Types -> V] : \A t \in Types :
        f[t] = IF par[t] = None THEN base[t] ELSE step[t][f[par[t]]]

\* There is one for all types.
LEMMA Recursion ==
    ASSUME NEW par, NEW V, NEW base, NEW step,
           TopDown(par), base \in [Types -> V], step \in [Types -> [V -> V]]
    PROVE  Defined(par, V, base, step)
<1> DEFINE Partial(U, f) == f \in [U -> V] /\ Solves(par, base, step, f, U)
           S == {t \in Types : \E U \in SUBSET Types : t \in U /\ \E f \in [U -> V] : Partial(U, f)}
<1>1. ASSUME NEW t \in Types, par[t] = None \/ par[t] \in S PROVE t \in S
  <2>1. CASE par[t] = None
    <3>1. Partial({t}, [x \in {t} |-> base[x]])
      BY <2>1 DEF Solves
    <3> QED
      BY <3>1
  <2>2. CASE par[t] \in S
    <3>1. PICK U \in SUBSET Types : par[t] \in U /\ \E f \in [U -> V] : Partial(U, f)
      BY <2>2
    <3>2. PICK f \in [U -> V] : Partial(U, f)
      BY <3>1
    <3>3. CASE t \in U
      BY <3>2, <3>3
    <3>4. CASE t \notin U
      <4> DEFINE h == [x \in U \cup {t} |-> IF x = t THEN IF par[t] = None THEN base[t] ELSE step[t][f[par[t]]]
                                            ELSE f[x]]
      <4>1. f[par[t]] \in V /\ step[t] \in [V -> V]
        BY <3>1, <3>2
      <4>2. h \in [U \cup {t} -> V]
        BY <4>1, <3>2
      <4>3. \A x \in U : h[x] = f[x]
        BY <3>4
      <4>4. h[t] = IF par[t] = None THEN base[t] ELSE step[t][f[par[t]]]
        OBVIOUS
      <4> HIDE DEF h
      <4>5. Solves(par, base, step, h, U \cup {t})
        BY <3>1, <3>2, <4>3, <4>4 DEF Solves
      <4> QED
        BY <4>2, <4>5
    <3> QED
      BY <3>3, <3>4
  <2> QED
    BY <1>1, <2>1, <2>2
<1>2. Types \subseteq S
  <2> HIDE DEF S
  <2> QED
    BY <1>1, FromTheTop
<1> DEFINE Sol(t) == CHOOSE f : \E U \in SUBSET Types : t \in U /\ Partial(U, f)
           F == [t \in Types |-> Sol(t)[t]]
<1>3. ASSUME NEW t \in Types PROVE \E U \in SUBSET Types : t \in U /\ Partial(U, Sol(t))
  <2>1. \E f : \E U \in SUBSET Types : t \in U /\ Partial(U, f)
    BY <1>2
  <2> QED
    BY <2>1
<1> HIDE DEF S
<1>4. ASSUME NEW t \in Types
      PROVE  F[t] \in V /\ F[t] = IF par[t] = None THEN base[t] ELSE step[t][F[par[t]]]
  <2>1. PICK U \in SUBSET Types : t \in U /\ Partial(U, Sol(t))
    BY <1>3
  <2>2. F[t] \in V
    BY <2>1
  <2>3. CASE par[t] = None
    BY <2>1, <2>2, <2>3 DEF Solves
  <2>4. CASE par[t] # None
    <3>1. par[t] \in U
      BY <2>1, <2>4 DEF Solves
    <3>2. PICK W \in SUBSET Types : par[t] \in W /\ Partial(W, Sol(par[t]))
      BY <1>3, <3>1
    <3> HIDE DEF Sol
    <3>3. Sol(t)[par[t]] = Sol(par[t])[par[t]]
      BY <2>1, <3>1, <3>2, SolvesUnique
    <3>4. F[par[t]] = Sol(par[t])[par[t]] /\ F[t] = Sol(t)[t]
      BY <3>1
    <3>5. Sol(t)[t] = step[t][Sol(t)[par[t]]]
      BY <2>1, <2>4 DEF Solves
    <3> QED
      BY <2>2, <2>4, <3>3, <3>4, <3>5
  <2> QED
    BY <2>3, <2>4
<1> HIDE DEF F
<1>5. F \in [Types -> V]
  BY <1>4 DEF F
<1> QED
  BY <1>4, <1>5 DEF Defined

-----------------------------------------------------------------------------
(* What a model says of its types *)

\* What the types of a model have.
LEMMA ModelFacts ==
    ASSUME NEW g \in Models
    PROVE  /\ TopDown(g.parent)
           /\ g.name \in [Types -> Names] /\ g.form \in [Types -> {"plain", "any", "union"}]
           /\ g.sets \in [Types -> SUBSET FacetNames] /\ g.defines \in [Types -> SUBSET FacetNames]
           /\ g.fault \in [Types -> {"none", "own", "merged"}]
           /\ g.isLibrary \in [Locations -> BOOLEAN]
           /\ g.required \subseteq FacetNames
BY ConstantsAssumption DEF ModelType, TopDown

\* The same of the parents alone.
LEMMA ParentFacts ==
    ASSUME NEW g \in Models
    PROVE  /\ TopDown(g.parent)
           /\ g.parent \in [Types -> Types \cup {None}]
           /\ \A t \in Types : g.parent[t] # None => g.parent[t] \in Types
<1>1. TopDown(g.parent)
  BY ModelFacts
<1> QED
  BY <1>1 DEF TopDown

\* What a fragment declares are types.
LEMMA DeclaredFacts ==
    ASSUME NEW g \in Models, NEW l \in Locations, NEW table \in Tables
    PROVE  /\ g.declared[l][table] \in Seq(Types)
           /\ \A i \in DOMAIN g.declared[l][table] : i \in Nat /\ g.declared[l][table][i] \in Types
<1>1. g.declared \in [Locations -> [Tables -> Seq(Types)]]
  BY ConstantsAssumption DEF ModelType
<1>2. g.declared[l][table] \in Seq(Types)
  BY <1>1
<1> QED
  BY <1>2

\* What the annotations and the prefixed names refer to are locations and names.
LEMMA ExtensionFacts ==
    ASSUME NEW g \in Models
    PROVE  /\ Len(g.extensions) \in Nat /\ DOMAIN g.extensions = 1..Len(g.extensions)
           /\ \A e \in DOMAIN g.extensions :
                 /\ g.extensions[e].at \in Locations /\ g.extensions[e].name \in Names
                 /\ g.extensions[e].value \in {"good", "wide", "bad"}
           /\ \A l \in Locations, n \in Names : g.uses[l][n] # None =>
                 g.uses[l][n].at \in Locations /\ g.uses[l][n].name \in Names
<1> DEFINE X == [at : Locations, name : Names, value : {"good", "wide", "bad"}]
<1>1. g.extensions \in Seq(X)
  BY ConstantsAssumption DEF ModelType
<1>2. \A x \in X : x.at \in Locations /\ x.name \in Names /\ x.value \in {"good", "wide", "bad"}
  OBVIOUS
<1>3. Len(g.extensions) \in Nat /\ DOMAIN g.extensions = 1..Len(g.extensions)
      /\ \A e \in DOMAIN g.extensions : g.extensions[e] \in X
  <2> HIDE DEF X
  <2> QED
    BY <1>1
<1>4. g.uses \in [Locations -> [Names -> ([at : Locations, name : Names] \cup {None})]]
  BY ConstantsAssumption DEF ModelType
<1> HIDE DEF X
<1> QED
  BY <1>2, <1>3, <1>4

\* A type is declared at one place, a name once in a table.
LEMMA DeclaredOnce ==
    ASSUME NEW g \in Models
    PROVE  /\ \A t \in Types : \E l \in Locations, table \in Tables :
                 \E i \in DOMAIN g.declared[l][table] : g.declared[l][table][i] = t
           /\ \A l, k \in Locations, table, other \in Tables :
                 \A i \in DOMAIN g.declared[l][table], j \in DOMAIN g.declared[k][other] :
                     g.declared[l][table][i] = g.declared[k][other][j]
                        => l = k /\ table = other /\ i = j
           /\ \A l \in Locations, table \in Tables : \A i, j \in DOMAIN g.declared[l][table] :
                 g.name[g.declared[l][table][i]] = g.name[g.declared[l][table][j]] => i = j
<1>1. /\ \A t \in Types : \E l \in Locations, table \in Tables :
            \E i \in DOMAIN g.declared[l][table] : g.declared[l][table][i] = t
      /\ \A l, k \in Locations, table, other \in Tables :
            \A i \in DOMAIN g.declared[l][table], j \in DOMAIN g.declared[k][other] :
                LET t == g.declared[l][table][i]
                    u == g.declared[k][other][j]
                IN  t = u \/ (l = k /\ table = other /\ g.name[t] = g.name[u])
                      => l = k /\ table = other /\ i = j
  BY ConstantsAssumption
<1> QED
  BY <1>1

\* Above satisfies its recursive definition.
LEMMA AboveAt ==
    ASSUME NEW g \in Models
    PROVE  /\ Above(g) \in [Types -> SUBSET Types]
           /\ \A t \in Types : Above(g)[t] =
                 IF g.parent[t] = None THEN {} ELSE {g.parent[t]} \cup Above(g)[g.parent[t]]
<1> DEFINE base == [t \in Types |-> {}]
           step == [t \in Types |-> [A \in SUBSET Types |->
                       (IF g.parent[t] \in Types THEN {g.parent[t]} ELSE {}) \cup A]]
<1>1. TopDown(g.parent) /\ g.parent \in [Types -> Types \cup {None}]
  BY ParentFacts
<1>2. base \in [Types -> SUBSET Types] /\ step \in [Types -> [SUBSET Types -> SUBSET Types]]
  OBVIOUS
<1>3. \A t \in Types : base[t] = {}
      /\ \A A \in SUBSET Types : step[t][A] = (IF g.parent[t] \in Types THEN {g.parent[t]} ELSE {}) \cup A
  OBVIOUS
<1> HIDE DEF base, step
<1>4. PICK f \in [Types -> SUBSET Types] : \A t \in Types :
          f[t] = IF g.parent[t] = None THEN base[t] ELSE step[t][f[g.parent[t]]]
  <2>1. Defined(g.parent, SUBSET Types, base, step)
    BY <1>1, <1>2, Recursion
  <2> QED
    BY <2>1 DEF Defined
<1>5. \A t \in Types : f[t] = IF g.parent[t] = None THEN {} ELSE {g.parent[t]} \cup f[g.parent[t]]
  BY <1>1, <1>3, <1>4
<1> DEFINE P(h) == h = [t \in Types |-> IF g.parent[t] = None THEN {}
                                        ELSE {g.parent[t]} \cup h[g.parent[t]]]
<1>6. P(f)
  BY <1>5
<1>7. Above(g) = CHOOSE h : P(h)
  BY DEF Above
<1>8. P(Above(g))
  BY <1>6, <1>7
<1>9. \A t \in Types : Above(g)[t] =
          IF g.parent[t] = None THEN {} ELSE {g.parent[t]} \cup Above(g)[g.parent[t]]
  BY <1>8
<1>10. \A t \in Types : Above(g)[t] \in SUBSET Types
  <2> DEFINE S == {t \in Types : Above(g)[t] \in SUBSET Types}
  <2>1. ASSUME NEW t \in Types, g.parent[t] = None \/ g.parent[t] \in S PROVE t \in S
    BY <1>1, <1>9, <2>1
  <2>2. Types \subseteq S
    <3> HIDE DEF S
    <3> QED
      BY <1>1, <2>1, FromTheTop
  <2> QED
    BY <2>2
<1>11. Above(g) = [t \in Types |-> Above(g)[t]]
  BY <1>8
<1> QED
  BY <1>9, <1>10, <1>11

\* Failing satisfies its recursive definition.
LEMMA FailingAt ==
    ASSUME NEW g \in Models
    PROVE  /\ Failing(g) \in [Types -> BOOLEAN]
           /\ \A t \in Types : Failing(g)[t] <=>
                 g.parent[t] # None /\ (t \in g.clashes \/ Failing(g)[g.parent[t]])
<1> DEFINE base == [t \in Types |-> FALSE]
           step == [t \in Types |-> [b \in BOOLEAN |-> t \in g.clashes \/ b]]
<1>1. TopDown(g.parent) /\ g.parent \in [Types -> Types \cup {None}]
  BY ParentFacts
<1>2. base \in [Types -> BOOLEAN] /\ step \in [Types -> [BOOLEAN -> BOOLEAN]]
  OBVIOUS
<1>3. \A t \in Types : base[t] = FALSE /\ \A b \in BOOLEAN : step[t][b] = (t \in g.clashes \/ b)
  OBVIOUS
<1> HIDE DEF base, step
<1>4. PICK f \in [Types -> BOOLEAN] : \A t \in Types :
          f[t] = IF g.parent[t] = None THEN base[t] ELSE step[t][f[g.parent[t]]]
  <2>1. Defined(g.parent, BOOLEAN, base, step)
    BY <1>1, <1>2, Recursion
  <2> QED
    BY <2>1 DEF Defined
<1> DEFINE Body(h, t) == \/ g.parent[t] # None /\ t \in g.clashes
                         \/ g.parent[t] # None /\ h[g.parent[t]]
<1>5. \A t \in Types : f[t] = Body(f, t)
  <2> TAKE t \in Types
  <2>1. f[t] \in BOOLEAN
    OBVIOUS
  <2>2. CASE g.parent[t] = None
    BY <1>3, <1>4, <2>2
  <2>3. CASE g.parent[t] # None
    <3>1. f[g.parent[t]] \in BOOLEAN
      BY <1>1, <2>3
    <3>2. f[t] = (t \in g.clashes \/ f[g.parent[t]])
      BY <1>3, <1>4, <2>3, <3>1
    <3> QED
      BY <2>3, <3>2
  <2> QED
    BY <2>2, <2>3
<1> DEFINE P(h) == h = [t \in Types |-> Body(h, t)]
<1>6. P(f)
  BY <1>5
<1>7. Failing(g) = CHOOSE h : P(h)
  BY DEF Failing
<1>8. P(Failing(g))
  <2> HIDE DEF P
  <2> QED
    BY <1>6, <1>7
<1>9. \A t \in Types : Failing(g)[t] = Body(Failing(g), t)
  BY <1>8
<1>10. \A t \in Types : Failing(g)[t] \in BOOLEAN
  BY <1>9
<1>11. Failing(g) = [t \in Types |-> Failing(g)[t]]
  BY <1>8
<1> QED
  BY <1>9, <1>10, <1>11

\* What is above a type that can be merged can be merged.
LEMMA FailingDown ==
    ASSUME NEW g \in Models, NEW t \in Types, ~Failing(g)[t], NEW a \in Above(g)[t]
    PROVE  ~Failing(g)[a]
<1> DEFINE S == {x \in Types : ~Failing(g)[x] => \A y \in Above(g)[x] : ~Failing(g)[y]}
<1>1. TopDown(g.parent) /\ g.parent \in [Types -> Types \cup {None}]
  BY ParentFacts
<1>2. ASSUME NEW x \in Types, g.parent[x] = None \/ g.parent[x] \in S PROVE x \in S
  <2>1. CASE g.parent[x] = None
    BY <2>1, AboveAt
  <2>2. CASE g.parent[x] # None
    <3>1. ~Failing(g)[x] => ~Failing(g)[g.parent[x]]
      BY <2>2, FailingAt
    <3>2. Above(g)[x] = {g.parent[x]} \cup Above(g)[g.parent[x]]
      BY <2>2, AboveAt
    <3> QED
      BY <1>2, <2>2, <3>1, <3>2
  <2> QED
    BY <2>1, <2>2
<1>3. Types \subseteq S
  <2> HIDE DEF S
  <2> QED
    BY <1>1, <1>2, FromTheTop
<1> QED
  BY <1>3

\* What is above a type above t is above t.
LEMMA AboveTransitive ==
    ASSUME NEW g \in Models, NEW t \in Types, NEW a \in Above(g)[t]
    PROVE  a \in Types /\ Above(g)[a] \subseteq Above(g)[t]
<1> DEFINE S == {x \in Types : \A y \in Above(g)[x] : Above(g)[y] \subseteq Above(g)[x]}
<1>1. TopDown(g.parent) /\ g.parent \in [Types -> Types \cup {None}]
  BY ParentFacts
<1>2. ASSUME NEW x \in Types, g.parent[x] = None \/ g.parent[x] \in S PROVE x \in S
  <2>1. CASE g.parent[x] = None
    BY <2>1, AboveAt
  <2>2. CASE g.parent[x] # None
    <3>1. Above(g)[x] = {g.parent[x]} \cup Above(g)[g.parent[x]]
      BY <2>2, AboveAt
    <3> QED
      BY <1>2, <2>2, <3>1
  <2> QED
    BY <2>1, <2>2
<1>3. Types \subseteq S
  <2> HIDE DEF S
  <2> QED
    BY <1>1, <1>2, FromTheTop
<1> QED
  BY <1>3, AboveAt

\* No type is above itself.
LEMMA NotAboveItself ==
    ASSUME NEW g \in Models, NEW t \in Types
    PROVE  t \notin Above(g)[t]
<1> DEFINE T == {x \in Types : t \in Above(g)[x]}
<1>1. SUFFICES ASSUME t \in Above(g)[t] PROVE FALSE
  OBVIOUS
<1>2. PICK x \in T : g.parent[x] \notin T
  <2>1. T \in SUBSET Types /\ T # {}
    BY <1>1
  <2> HIDE DEF T
  <2> QED
    BY <2>1, ModelFacts DEF TopDown
<1>3. g.parent[x] # None /\ g.parent[x] \in Types /\ Above(g)[x] = {g.parent[x]} \cup Above(g)[g.parent[x]]
  BY <1>2, AboveAt, ParentFacts
<1> QED
  BY <1>1, <1>2, <1>3

\* Two types are not above each other.
LEMMA AboveOrder ==
    ASSUME NEW g \in Models, NEW t \in Types, NEW u \in Types,
           t = u \/ t \in Above(g)[u], u = t \/ u \in Above(g)[t]
    PROVE  t = u
BY AboveTransitive, NotAboveItself

\* The facets of a type are its own and those of its parent.
LEMMA FullAt ==
    ASSUME NEW g \in Models, NEW t \in Types
    PROVE  Full(g, t) = [ sets   |-> g.sets[t] \cup IF g.parent[t] = None THEN {} ELSE Full(g, g.parent[t]).sets,
                          offers |-> IF g.parent[t] = None THEN {}
                                     ELSE g.defines[g.parent[t]] \cup Full(g, g.parent[t]).offers ]
<1>1. CASE g.parent[t] = None
  <2>1. Above(g)[t] = {}
    BY <1>1, AboveAt
  <2>2. UNION {g.sets[a] : a \in {t} \cup {}} = g.sets[t] /\ UNION {g.defines[a] : a \in {}} = {}
    OBVIOUS
  <2>3. Full(g, t) = [sets |-> g.sets[t], offers |-> {}]
    BY <2>1, <2>2 DEF Full
  <2> QED
    BY <1>1, <2>3
<1>2. CASE g.parent[t] # None
  <2> DEFINE p == g.parent[t]
  <2>1. p \in Types /\ Above(g)[t] = {p} \cup Above(g)[p]
    BY <1>2, AboveAt, ParentFacts
  <2> HIDE DEF p
  <2>2. UNION {g.sets[a] : a \in {t} \cup Above(g)[t]} =
            g.sets[t] \cup UNION {g.sets[a] : a \in {p} \cup Above(g)[p]}
    BY <2>1
  <2>3. UNION {g.defines[a] : a \in Above(g)[t]} =
            g.defines[p] \cup UNION {g.defines[a] : a \in Above(g)[p]}
    BY <2>1
  <2>4. Full(g, t) = [sets |-> g.sets[t] \cup Full(g, p).sets, offers |-> g.defines[p] \cup Full(g, p).offers]
    BY <2>2, <2>3 DEF Full
  <2> QED
    BY <1>2, <2>4 DEF p
<1> QED
  BY <1>1, <1>2

-----------------------------------------------------------------------------
(* What UnwrapShape returns and reaches *)

\* What t is unwrapped to once its parent was unwrapped to source.
Onto(t, source) ==
    LET q == source.shape.type
    IN  IF Skips(source)
        THEN source
        ELSE [ ok    |-> source.ok /\ t \notin given.clashes,
               shape |-> IF given.form[q] = "union" THEN Copy(t) ELSE Own(t),
               whole |-> source.whole,
               line  |-> Line(t, source) ]

Lines == [sets : SUBSET FacetNames, offers : SUBSET FacetNames]

\* The fields of an outcome.
LEMMA OutcomeFields ==
    ASSUME NEW u \in Outcome
    PROVE  /\ u.ok \in BOOLEAN /\ u.whole \in BOOLEAN /\ u.line \in Lines
           /\ u.shape \in Shape /\ u.shape.type \in Types /\ u.shape.copy \in BOOLEAN
           /\ u.line.sets \subseteq FacetNames /\ u.line.offers \subseteq FacetNames
<1>1. u.shape \in Shape /\ u.line \in Lines
  BY DEF Outcome, Lines
<1>2. u.shape.type \in Types /\ u.shape.copy \in BOOLEAN
  BY <1>1 DEF Shape
<1>3. u.line.sets \subseteq FacetNames /\ u.line.offers \subseteq FacetNames
  BY <1>1 DEF Lines
<1>4. u.ok \in BOOLEAN /\ u.whole \in BOOLEAN
  BY DEF Outcome
<1> QED
  BY <1>1, <1>2, <1>3, <1>4

\* An outcome made of its fields.
LEMMA MakeOutcome ==
    ASSUME NEW b \in BOOLEAN, NEW s \in Shape, NEW w \in BOOLEAN, NEW l \in Lines
    PROVE  [ok |-> b, shape |-> s, whole |-> w, line |-> l] \in Outcome
BY DEF Outcome, Lines

\* The own shapes and the copies of the types are all shapes, and different.
LEMMA ShapeFields ==
    /\ \A t \in Types : Own(t) \in Shape /\ Own(t).type = t /\ ~Own(t).copy
                        /\ Copy(t) \in Shape /\ Copy(t).type = t /\ Copy(t).copy
    /\ \A t, u \in Types : Own(t) # Copy(u) /\ (Own(t) = Own(u) => t = u)
    /\ \A s \in Shape : s.type \in Types /\ s.copy \in BOOLEAN
                        /\ (s.copy => s = Copy(s.type)) /\ (~s.copy => s = Own(s.type))
BY DEF Shape, Own, Copy

\* None is no type, shape or outcome.
LEMMA NothingIsNone ==
    None \notin Types /\ None \notin Shape /\ None \notin Outcome
BY ConstantsAssumption

\* What is returned of a type that is left as it is.
LEMMA AsItIsType ==
    ASSUME TypeOK, NEW t \in Types
    PROVE  /\ AsItIs(t) \in Outcome
           /\ AsItIs(t).ok /\ AsItIs(t).shape = Own(t) /\ AsItIs(t).line = facets[t]
           /\ AsItIs(t).whole = (t \notin flagged \/ Own(t) \in merged)
<1>1. Own(t) \in Shape /\ facets[t] \in Lines
  BY ShapeFields DEF TypeOK, Lines
<1>2. AsItIs(t) \in Outcome
  BY <1>1, MakeOutcome DEF AsItIs
<1> QED
  BY <1>2 DEF AsItIs

\* The facets a type has once its parent was unwrapped are facets.
LEMMA LineType ==
    ASSUME TypeOK, NEW t \in Types, NEW u \in Outcome
    PROVE  Line(t, u) \in Lines
<1>1. given.sets[t] \subseteq FacetNames /\ given.defines[u.shape.type] \subseteq FacetNames
  BY OutcomeFields, ModelFacts DEF TypeOK
<1> QED
  BY <1>1, OutcomeFields DEF Line, Lines

\* What a type is unwrapped to is an outcome if that of its parent is.
LEMMA OntoType ==
    ASSUME TypeOK, NEW t \in Types, NEW u \in Outcome
    PROVE  Onto(t, u) \in Outcome
<1>1. Line(t, u) \in Lines /\ u.whole \in BOOLEAN
  BY LineType, OutcomeFields
<1>2. (IF given.form[u.shape.type] = "union" THEN Copy(t) ELSE Own(t)) \in Shape
  BY ShapeFields
<1>3. (u.ok /\ t \notin given.clashes) \in BOOLEAN
  OBVIOUS
<1>4. [ ok    |-> u.ok /\ t \notin given.clashes,
        shape |-> IF given.form[u.shape.type] = "union" THEN Copy(t) ELSE Own(t),
        whole |-> u.whole,
        line  |-> Line(t, u) ] \in Outcome
  BY <1>1, <1>2, <1>3, MakeOutcome
<1> QED
  BY <1>4 DEF Onto

\* UnwrapShape satisfies its recursive definition.
LEMMA UnwrapShapeAt ==
    ASSUME TypeOK
    PROVE  /\ UnwrapShape \in [Types -> Outcome]
           /\ \A t \in Types : UnwrapShape[t] =
                 IF t \in flagged \/ given.parent[t] = None THEN AsItIs(t)
                 ELSE Onto(t, UnwrapShape[given.parent[t]])
<1> DEFINE base == [t \in Types |-> AsItIs(t)]
           step == [t \in Types |-> [u \in Outcome |-> IF t \in flagged THEN AsItIs(t) ELSE Onto(t, u)]]
<1>1. given \in Models /\ TopDown(given.parent) /\ given.parent \in [Types -> Types \cup {None}]
  BY ParentFacts DEF TypeOK
<1>2. base \in [Types -> Outcome] /\ step \in [Types -> [Outcome -> Outcome]]
  BY AsItIsType, OntoType
<1>3. \A t \in Types : base[t] = AsItIs(t)
      /\ \A u \in Outcome : step[t][u] = IF t \in flagged THEN AsItIs(t) ELSE Onto(t, u)
  OBVIOUS
<1> HIDE DEF base, step
<1>4. PICK f \in [Types -> Outcome] : \A t \in Types :
          f[t] = IF given.parent[t] = None THEN base[t] ELSE step[t][f[given.parent[t]]]
  <2>1. Defined(given.parent, Outcome, base, step)
    BY <1>1, <1>2, Recursion
  <2> QED
    BY <2>1 DEF Defined
<1> DEFINE Body(h, t) == IF t \in flagged \/ given.parent[t] = None THEN AsItIs(t)
                         ELSE Onto(t, h[given.parent[t]])
<1>5. \A t \in Types : f[t] = Body(f, t)
  BY <1>1, <1>3, <1>4
<1> DEFINE P(h) == h = [t \in Types |-> Body(h, t)]
<1>6. P(f)
  BY <1>5
<1>7. UnwrapShape = CHOOSE h : P(h)
  BY DEF UnwrapShape, Onto
<1>8. P(UnwrapShape)
  <2> HIDE DEF P
  <2> QED
    BY <1>6, <1>7
<1>9. \A t \in Types : UnwrapShape[t] = Body(UnwrapShape, t)
  BY <1>8
<1>10. Types \subseteq {t \in Types : UnwrapShape[t] \in Outcome}
  <2> DEFINE S == {t \in Types : UnwrapShape[t] \in Outcome}
  <2>1. ASSUME NEW t \in Types, given.parent[t] = None \/ given.parent[t] \in S PROVE t \in S
    BY <1>9, <2>1, AsItIsType, OntoType
  <2> HIDE DEF S
  <2>2. Types \subseteq S
    BY <1>1, <2>1, FromTheTop
  <2> QED
    BY <2>2 DEF S
<1>11. UnwrapShape = [t \in Types |-> UnwrapShape[t]]
  BY <1>8
<1> HIDE DEF P
<1> QED
  BY <1>9, <1>10, <1>11

\* Reaches satisfies its recursive definition.
LEMMA ReachesAt ==
    ASSUME TypeOK
    PROVE  /\ Reaches \in [Types -> SUBSET Types]
           /\ \A t \in Types : Reaches[t] =
                 IF t \in flagged THEN {}
                 ELSE {t} \cup IF given.parent[t] = None THEN {} ELSE Reaches[given.parent[t]]
<1> DEFINE base == [t \in Types |-> IF t \in flagged THEN {} ELSE {t}]
           step == [t \in Types |-> [A \in SUBSET Types |-> IF t \in flagged THEN {} ELSE {t} \cup A]]
<1>1. given \in Models /\ TopDown(given.parent) /\ given.parent \in [Types -> Types \cup {None}]
  BY ParentFacts DEF TypeOK
<1>2. base \in [Types -> SUBSET Types] /\ step \in [Types -> [SUBSET Types -> SUBSET Types]]
  OBVIOUS
<1>3. \A t \in Types : base[t] = (IF t \in flagged THEN {} ELSE {t})
      /\ \A A \in SUBSET Types : step[t][A] = IF t \in flagged THEN {} ELSE {t} \cup A
  OBVIOUS
<1> HIDE DEF base, step
<1>4. PICK f \in [Types -> SUBSET Types] : \A t \in Types :
          f[t] = IF given.parent[t] = None THEN base[t] ELSE step[t][f[given.parent[t]]]
  <2>1. Defined(given.parent, SUBSET Types, base, step)
    BY <1>1, <1>2, Recursion
  <2> QED
    BY <2>1 DEF Defined
<1> DEFINE Body(h, t) == IF t \in flagged THEN {}
                         ELSE IF given.parent[t] = None THEN {t} ELSE {t} \cup h[given.parent[t]]
<1>5. \A t \in Types : f[t] = Body(f, t)
  BY <1>1, <1>3, <1>4
<1> DEFINE P(h) == h = [t \in Types |-> Body(h, t)]
<1>6. P(f)
  BY <1>5
<1>7. Reaches = CHOOSE h : P(h)
  BY DEF Reaches
<1>8. P(Reaches)
  <2> HIDE DEF P
  <2> QED
    BY <1>6, <1>7
<1>9. \A t \in Types : Reaches[t] = Body(Reaches, t)
  BY <1>8
<1>10. Types \subseteq {t \in Types : Reaches[t] \in SUBSET Types}
  <2> DEFINE S == {t \in Types : Reaches[t] \in SUBSET Types}
  <2>1. ASSUME NEW t \in Types, given.parent[t] = None \/ given.parent[t] \in S PROVE t \in S
    <3>1. given.parent[t] = None \/ Reaches[given.parent[t]] \subseteq Types
      BY <2>1
    <3>2. Reaches[t] = Body(Reaches, t)
      BY <1>9
    <3>3. Body(Reaches, t) \subseteq Types
      BY <3>1
    <3> QED
      BY <3>2, <3>3
  <2> HIDE DEF S
  <2>2. Types \subseteq S
    BY <1>1, <2>1, FromTheTop
  <2> QED
    BY <2>2 DEF S
<1>11. Reaches = [t \in Types |-> Reaches[t]]
  BY <1>8
<1>12. \A t \in Types : Body(Reaches, t) =
          IF t \in flagged THEN {}
          ELSE {t} \cup IF given.parent[t] = None THEN {} ELSE Reaches[given.parent[t]]
  OBVIOUS
<1> HIDE DEF P, Body
<1> QED
  BY <1>9, <1>10, <1>11, <1>12


\* A type leads to itself or to one above it, and to that one as this does.
LEMMA UnwrapShapeLeads ==
    ASSUME TypeOK, NEW t \in Types
    PROVE  LET a == UnwrapShape[t].shape.type
           IN  /\ a = t \/ (~UnwrapShape[t].shape.copy /\ a \in Above(given)[t])
               /\ ~UnwrapShape[t].shape.copy => UnwrapShape[a] = UnwrapShape[t]
               /\ a \notin flagged => a \in Reaches[t]
<1> DEFINE To(x) == UnwrapShape[x].shape.type
           Good(x) == /\ To(x) = x \/ (~UnwrapShape[x].shape.copy /\ To(x) \in Above(given)[x])
                      /\ ~UnwrapShape[x].shape.copy => UnwrapShape[To(x)] = UnwrapShape[x]
                      /\ To(x) \notin flagged => To(x) \in Reaches[x]
           S == {x \in Types : Good(x)}
<1>1. given \in Models /\ TopDown(given.parent)
      /\ \A x \in Types : given.parent[x] # None => given.parent[x] \in Types
  BY ParentFacts DEF TypeOK
<1>2. ASSUME NEW x \in Types, given.parent[x] = None \/ given.parent[x] \in S PROVE Good(x)
  <2>1. CASE x \in flagged \/ given.parent[x] = None
    <3>1. UnwrapShape[x].shape = Own(x)
      BY <2>1, UnwrapShapeAt, AsItIsType
    <3>2. x \notin flagged => x \in Reaches[x]
      BY ReachesAt
    <3> QED
      BY <3>1, <3>2, ShapeFields
  <2>2. CASE x \notin flagged /\ given.parent[x] # None
    <3> DEFINE p == given.parent[x]
    <3>1. p \in Types /\ UnwrapShape[p] \in Outcome /\ UnwrapShape[x] = Onto(x, UnwrapShape[p])
      BY <1>1, <2>2, UnwrapShapeAt
    <3>2. Reaches[x] = {x} \cup Reaches[p] /\ Above(given)[x] = {p} \cup Above(given)[p]
      BY <1>1, <2>2, ReachesAt, AboveAt
    <3>3. Good(p)
      BY <1>2, <2>2
    <3> HIDE DEF p
    <3>4. CASE Skips(UnwrapShape[p])
      <4>1. UnwrapShape[x] = UnwrapShape[p] /\ ~UnwrapShape[p].shape.copy
        BY <3>1, <3>4 DEF Onto, Skips
      <4> QED
        BY <3>2, <3>3, <4>1
    <3>5. CASE ~Skips(UnwrapShape[p])
      <4>1. UnwrapShape[x].shape = Copy(x) \/ UnwrapShape[x].shape = Own(x)
        BY <3>1, <3>5 DEF Onto
      <4> QED
        BY <3>2, <4>1, ShapeFields
    <3> QED
      BY <3>4, <3>5
  <2> QED
    BY <2>1, <2>2
<1>3. Types \subseteq S
  <2>1. ASSUME NEW x \in Types, given.parent[x] = None \/ given.parent[x] \in S PROVE x \in S
    BY <1>2, <2>1
  <2> HIDE DEF S
  <2> QED
    BY <1>1, <2>1, FromTheTop
<1> QED
  BY <1>3

\* What is reached is not flagged, is the type or above it, and goes on to a type that is flagged.
LEMMA ReachesUp ==
    ASSUME TypeOK, NEW t \in Types
    PROVE  \A c \in Reaches[t] :
              /\ c \in Types /\ c \notin flagged
              /\ c = t \/ c \in Above(given)[t]
              /\ given.parent[c] # None => given.parent[c] \in flagged \cup Reaches[t]
<1> DEFINE Good(x) == \A c \in Reaches[x] :
                         /\ c \in Types /\ c \notin flagged
                         /\ c = x \/ c \in Above(given)[x]
                         /\ given.parent[c] # None => given.parent[c] \in flagged \cup Reaches[x]
           S == {x \in Types : Good(x)}
<1>1. given \in Models /\ TopDown(given.parent)
      /\ \A x \in Types : given.parent[x] # None => given.parent[x] \in Types
  BY ParentFacts DEF TypeOK
<1>2. ASSUME NEW x \in Types, given.parent[x] = None \/ given.parent[x] \in S PROVE Good(x)
  <2>1. CASE x \in flagged
    BY <2>1, ReachesAt
  <2>2. CASE x \notin flagged /\ given.parent[x] = None
    <3>1. Reaches[x] = {x}
      BY <2>2, ReachesAt
    <3> QED
      BY <2>2, <3>1
  <2>3. CASE x \notin flagged /\ given.parent[x] # None
    <3> DEFINE p == given.parent[x]
    <3>1. p \in Types /\ Reaches[x] = {x} \cup Reaches[p] /\ Above(given)[x] = {p} \cup Above(given)[p]
      BY <1>1, <2>3, ReachesAt, AboveAt
    <3>2. Good(p)
      BY <1>2, <2>3
    <3>3. p \in flagged \/ p \in Reaches[p]
      BY <3>1, ReachesAt
    <3> QED
      BY <2>3, <3>1, <3>2, <3>3
  <2> QED
    BY <2>1, <2>2, <2>3
<1>3. Types \subseteq S
  <2>1. ASSUME NEW x \in Types, given.parent[x] = None \/ given.parent[x] \in S PROVE x \in S
    BY <1>2, <2>1
  <2> HIDE DEF S
  <2> QED
    BY <1>1, <2>1, FromTheTop
<1> QED
  BY <1>3

\* What c leads to is reached from where c is, unless it is flagged.
LEMMA ReachedLeads ==
    ASSUME TypeOK, NEW t \in Types, NEW c \in Reaches[t]
    PROVE  Reaches[c] \subseteq Reaches[t]
<1> DEFINE S == {x \in Types : \A c1 \in Reaches[x] : Reaches[c1] \subseteq Reaches[x]}
<1>1. given \in Models /\ TopDown(given.parent)
      /\ \A x \in Types : given.parent[x] # None => given.parent[x] \in Types
  BY ParentFacts DEF TypeOK
<1>2. ASSUME NEW x \in Types, given.parent[x] = None \/ given.parent[x] \in S PROVE x \in S
  <2>1. CASE x \in flagged \/ given.parent[x] = None
    <3>1. Reaches[x] = {} \/ Reaches[x] = {x}
      BY <2>1, ReachesAt
    <3> QED
      BY <3>1
  <2>2. CASE x \notin flagged /\ given.parent[x] # None
    <3>1. Reaches[x] = {x} \cup Reaches[given.parent[x]]
      BY <1>1, <2>2, ReachesAt
    <3> QED
      BY <1>2, <2>2, <3>1
  <2> QED
    BY <2>1, <2>2
<1>3. Types \subseteq S
  <2> HIDE DEF S
  <2> QED
    BY <1>1, <1>2, FromTheTop
<1> QED
  BY <1>3

\* What becomes of a type that is merged with its parent.
LEMMA OntoMerges ==
    ASSUME TypeOK, NEW t \in Types, NEW u \in Outcome, ~Skips(u)
    PROVE  LET o == Onto(t, u)
           IN  /\ o.ok <=> (u.ok /\ t \notin given.clashes)
               /\ o.shape = IF given.form[u.shape.type] = "union" THEN Copy(t) ELSE Own(t)
               /\ o.whole = u.whole
               /\ o.line = Line(t, u)
               /\ o.line.sets = given.sets[t] \cup IF u.ok THEN u.line.sets ELSE {}
               /\ o.line.offers = given.defines[u.shape.type] \cup u.line.offers
BY DEF Onto, Line

-----------------------------------------------------------------------------
(* Places, and what takes them *)

Slot(p) == slots[p.at][p.table][p.index]

\* A place has a fragment, a table and an index, a declared type and a shape.
LEMMA PlaceFacts ==
    ASSUME TypeOK, NEW p \in AllPlaces
    PROVE  /\ p.at \in Locations /\ p.table \in Tables
           /\ p.index \in DOMAIN given.declared[p.at][p.table] /\ p.index \in Nat
           /\ p = [at |-> p.at, table |-> p.table, index |-> p.index]
           /\ At(given, p) \in Types
           /\ p.index \in DOMAIN slots[p.at][p.table]
           /\ Slot(p) \in Shape
<1>1. PICK l \in Locations, table \in Tables : \E i \in DOMAIN given.declared[l][table] :
          p = [at |-> l, table |-> table, index |-> i]
  BY DEF AllPlaces
<1>2. /\ p.at \in Locations /\ p.table \in Tables
      /\ p.index \in DOMAIN given.declared[p.at][p.table]
      /\ p = [at |-> p.at, table |-> p.table, index |-> p.index]
  BY <1>1
<1>3. given \in Models
  BY DEF TypeOK
<1>4. p.index \in Nat /\ At(given, p) \in Types
  BY <1>2, <1>3, DeclaredFacts DEF At
<1>5. p.index \in DOMAIN slots[p.at][p.table] /\ slots[p.at][p.table] \in Seq(Shape)
  BY <1>2 DEF TypeOK
<1>6. Slot(p) \in Shape
  BY <1>5 DEF Slot
<1> QED
  BY <1>2, <1>4, <1>5, <1>6

\* Every declaration has a place.
LEMMA PlaceExists ==
    ASSUME NEW l \in Locations, NEW table \in Tables, NEW i \in DOMAIN given.declared[l][table]
    PROVE  [at |-> l, table |-> table, index |-> i] \in AllPlaces
<1> DEFINE In(k, tb) == {[at |-> k, table |-> tb, index |-> j] : j \in DOMAIN given.declared[k][tb]}
<1>1. [at |-> l, table |-> table, index |-> i] \in In(l, table)
  OBVIOUS
<1>2. AllPlaces = UNION {In(k, tb) : k \in Locations, tb \in Tables}
  BY DEF AllPlaces
<1>3. In(l, table) \in {In(k, tb) : k \in Locations, tb \in Tables}
  OBVIOUS
<1> HIDE DEF In
<1> QED
  BY <1>1, <1>2, <1>3

\* The places do not change.
LEMMA SamePlaces ==
    ASSUME given' = given
    PROVE  AllPlaces' = AllPlaces
BY DEF AllPlaces

\* A type is declared at one place.
LEMMA PlaceOfType ==
    ASSUME TypeOK
    PROVE  /\ \A t \in Types : \E p \in AllPlaces : At(given, p) = t
           /\ \A p, q \in AllPlaces : At(given, p) = At(given, q) => p = q
           /\ \A p, q \in AllPlaces :
                 p.at = q.at /\ p.table = q.table /\ given.name[At(given, p)] = given.name[At(given, q)]
                    => p = q
<1>1. given \in Models
  BY DEF TypeOK
<1>2. ASSUME NEW t \in Types PROVE \E p \in AllPlaces : At(given, p) = t
  <2>1. PICK l \in Locations, table \in Tables : \E i \in DOMAIN given.declared[l][table] :
            given.declared[l][table][i] = t
    BY <1>1, DeclaredOnce
  <2>2. PICK i \in DOMAIN given.declared[l][table] : given.declared[l][table][i] = t
    BY <2>1
  <2> DEFINE p == [at |-> l, table |-> table, index |-> i]
  <2>3. p \in AllPlaces /\ At(given, p) = t
    BY <2>2, PlaceExists DEF At
  <2> QED
    BY <2>3
<1>3. ASSUME NEW p \in AllPlaces, NEW q \in AllPlaces,
             \/ At(given, p) = At(given, q)
             \/ p.at = q.at /\ p.table = q.table /\ given.name[At(given, p)] = given.name[At(given, q)]
      PROVE  p = q
  <2>1. p.at = q.at /\ p.table = q.table /\ p.index = q.index
    <3>1. /\ p.at \in Locations /\ p.table \in Tables /\ p.index \in DOMAIN given.declared[p.at][p.table]
          /\ q.at \in Locations /\ q.table \in Tables /\ q.index \in DOMAIN given.declared[q.at][q.table]
      BY PlaceFacts
    <3>2. CASE At(given, p) = At(given, q)
      <4>1. \A l, k \in Locations, table, other \in Tables :
                \A i \in DOMAIN given.declared[l][table], j \in DOMAIN given.declared[k][other] :
                    given.declared[l][table][i] = given.declared[k][other][j] => l = k /\ table = other /\ i = j
        BY <1>1, DeclaredOnce
      <4>2. given.declared[p.at][p.table][p.index] = given.declared[q.at][q.table][q.index]
        BY <3>2 DEF At
      <4>3. PICK l, k, table, other, i, j :
                l = p.at /\ k = q.at /\ table = p.table /\ other = q.table /\ i = p.index /\ j = q.index
        OBVIOUS
      <4>4. /\ l \in Locations /\ k \in Locations /\ table \in Tables /\ other \in Tables
            /\ i \in DOMAIN given.declared[l][table] /\ j \in DOMAIN given.declared[k][other]
            /\ given.declared[l][table][i] = given.declared[k][other][j]
        BY <3>1, <4>2, <4>3
      <4>5. l = k /\ table = other /\ i = j
        BY ONLY <4>1, <4>4
      <4> QED
        BY <4>3, <4>5
    <3>3. CASE p.at = q.at /\ p.table = q.table /\ given.name[At(given, p)] = given.name[At(given, q)]
      <4>1. \A l \in Locations, table \in Tables : \A i, j \in DOMAIN given.declared[l][table] :
                given.name[given.declared[l][table][i]] = given.name[given.declared[l][table][j]] => i = j
        BY <1>1, DeclaredOnce
      <4>2. given.name[given.declared[p.at][p.table][p.index]] = given.name[given.declared[p.at][p.table][q.index]]
        BY <3>3 DEF At
      <4> QED
        BY ONLY <3>1, <3>3, <4>1, <4>2
    <3> QED
      BY <1>3, <3>2, <3>3
  <2> QED
    BY <2>1, PlaceFacts
<1> QED
  BY <1>2, <1>3

\* The loops over a fragment visit all its places and no others.
LEMMA PlacesType ==
    ASSUME TypeOK, NEW l \in Locations
    PROVE  /\ Places(l) \in Seq(AllPlaces)
           /\ \A p \in AllPlaces : p.at = l => \E k \in DOMAIN Places(l) : Places(l)[k] = p
<1> DEFINE In(table) == [i \in DOMAIN given.declared[l][table] |->
                            [at |-> l, table |-> table, index |-> i]]
<1>1. ASSUME NEW table \in Tables
      PROVE  In(table) \in Seq(AllPlaces) /\ DOMAIN In(table) = DOMAIN given.declared[l][table]
  <2>1. given.declared[l][table] \in Seq(Types)
    BY DeclaredFacts DEF TypeOK
  <2>2. PICK n \in Nat : DOMAIN given.declared[l][table] = 1..n
    BY <2>1
  <2>3. In(table) \in [1..n -> AllPlaces]
    BY <2>2, PlaceExists
  <2> QED
    BY <2>2, <2>3, SeqDef
<1>2. PICK a, t : a = In("annotation") /\ t = In("type")
  OBVIOUS
<1>3. Places(l) = a \o t
  BY <1>2 DEF Places
<1>4. a \in Seq(AllPlaces) /\ t \in Seq(AllPlaces)
  BY <1>1, <1>2 DEF Tables
<1>5. Places(l) \in Seq(AllPlaces)
  BY <1>3, <1>4
<1>6. /\ \A k \in DOMAIN a : k \in DOMAIN (a \o t) /\ (a \o t)[k] = a[k]
      /\ \A k \in DOMAIN t : Len(a) + k \in DOMAIN (a \o t) /\ (a \o t)[Len(a) + k] = t[k]
  <2> HIDE DEF In
  <2> QED
    BY <1>4
<1>7. ASSUME NEW p \in AllPlaces, p.at = l PROVE \E k \in DOMAIN Places(l) : Places(l)[k] = p
  <2>1. p = [at |-> l, table |-> p.table, index |-> p.index] /\ p.table \in Tables
        /\ p.index \in DOMAIN given.declared[l][p.table]
    BY <1>7, PlaceFacts
  <2>2. p.index \in DOMAIN In(p.table) /\ In(p.table)[p.index] = p
    BY <2>1
  <2>3. CASE p.table = "annotation"
    <3>1. p.index \in DOMAIN a /\ a[p.index] = p
      BY <1>2, <2>2, <2>3
    <3> QED
      BY <1>3, <1>6, <3>1
  <2>4. CASE p.table = "type"
    <3>1. p.index \in DOMAIN t /\ t[p.index] = p
      BY <1>2, <2>2, <2>4
    <3> QED
      BY <1>3, <1>6, <3>1
  <2> QED
    BY <2>1, <2>3, <2>4 DEF Tables
<1> QED
  BY <1>5, <1>7

\* Put replaces the shape at one place and no other.
LEMMA PutSlots ==
    ASSUME TypeOK, NEW p \in AllPlaces, NEW s \in Shape, Put(p, s)
    PROVE  /\ slots' \in [Locations -> [Tables -> Seq(Shape)]]
           /\ \A l \in Locations, table \in Tables :
                 DOMAIN slots'[l][table] = DOMAIN given.declared[l][table]
           /\ \A q \in AllPlaces : slots'[q.at][q.table][q.index] = IF q = p THEN s ELSE Slot(q)
<1>1. p.at \in Locations /\ p.table \in Tables /\ p.index \in DOMAIN slots[p.at][p.table]
  BY PlaceFacts
<1>2. slots \in [Locations -> [Tables -> Seq(Shape)]]
      /\ \A l \in Locations, table \in Tables : DOMAIN slots[l][table] = DOMAIN given.declared[l][table]
  BY DEF TypeOK
<1>3. slots' = [slots EXCEPT ![p.at][p.table][p.index] = s]
  BY DEF Put
<1>4. PICK Q : Q = Seq(Shape)
  OBVIOUS
<1> DEFINE z == [slots[p.at][p.table] EXCEPT ![p.index] = s]
<1>5. z \in Q /\ DOMAIN z = DOMAIN slots[p.at][p.table]
  <2>1. slots[p.at][p.table] \in Seq(Shape)
    BY <1>1, <1>2
  <2> QED
    BY <1>1, <1>4, <2>1, ExceptSeq
<1>6. slots' = [slots EXCEPT ![p.at][p.table] = z]
  BY <1>3
<1>7. \A l \in Locations, table \in Tables :
          slots'[l][table] = IF l = p.at /\ table = p.table THEN z ELSE slots[l][table]
  BY <1>1, <1>2, <1>6
<1>8. slots' \in [Locations -> [Tables -> Q]]
  <2>1. slots \in [Locations -> [Tables -> Q]]
    BY <1>2, <1>4
  <2> HIDE DEF z
  <2> QED
    BY <1>1, <1>5, <1>6, <2>1
<1>9. \A i : z[p.index] = s /\ (i \in DOMAIN slots[p.at][p.table] /\ i # p.index => z[i] = slots[p.at][p.table][i])
  BY <1>1
<1> HIDE DEF z
<1>10. \A l \in Locations, table \in Tables : DOMAIN slots'[l][table] = DOMAIN given.declared[l][table]
  BY <1>1, <1>2, <1>5, <1>7
<1>11. ASSUME NEW q \in AllPlaces
       PROVE  slots'[q.at][q.table][q.index] = IF q = p THEN s ELSE Slot(q)
  <2>1. q.at \in Locations /\ q.table \in Tables /\ q.index \in DOMAIN slots[q.at][q.table]
        /\ (q = p <=> q.at = p.at /\ q.table = p.table /\ q.index = p.index)
    BY PlaceFacts
  <2> QED
    BY <1>7, <1>9, <2>1 DEF Slot
<1> QED
  BY <1>4, <1>8, <1>10, <1>11

\* Put changes one entry of the annotation types, or none.
LEMMA PutTables ==
    ASSUME TypeOK, NEW p \in AllPlaces, NEW s \in Shape, Put(p, s)
    PROVE  /\ tables' \in [Tables -> [Locations -> [Names -> Shape \cup {None}]]]
           /\ \A l \in Locations, n \in Names :
                 tables'["annotation"][l][n] =
                    IF p.table = "annotation" /\ l = p.at /\ n = given.name[s.type]
                    THEN IF given.isLibrary[l] THEN Slot(p) ELSE s
                    ELSE tables["annotation"][l][n]
<1>1. p.at \in Locations /\ p.table \in Tables /\ Slot(p) \in Shape
  BY PlaceFacts
<1>2. s.type \in Types /\ given.name[s.type] \in Names
  BY ShapeFields, ModelFacts DEF TypeOK
<1>3. tables \in [Tables -> [Locations -> [Names -> Shape \cup {None}]]]
  BY DEF TypeOK
<1>4. PICK V, e, n : V = Shape \cup {None} /\ n = given.name[s.type]
                     /\ e = IF given.isLibrary[p.at] THEN Slot(p) ELSE s
  OBVIOUS
<1>5. e \in V /\ n \in Names
  BY <1>1, <1>2, <1>4
<1>6. tables' = [tables EXCEPT ![p.table][p.at][n] = e]
  BY <1>4 DEF Put, Slot, Name
<1>7. tables \in [Tables -> [Locations -> [Names -> V]]]
  BY <1>3, <1>4
<1>8. tables' \in [Tables -> [Locations -> [Names -> V]]]
  BY <1>1, <1>5, <1>6, <1>7
<1>9. "annotation" \in Tables
  BY DEF Tables
<1>10. \A l \in Locations, m \in Names :
          tables'["annotation"][l][m] = IF p.table = "annotation" /\ l = p.at /\ m = n
                                        THEN e ELSE tables["annotation"][l][m]
  BY <1>1, <1>5, <1>6, <1>7, <1>9
<1> QED
  BY <1>4, <1>8, <1>10

-----------------------------------------------------------------------------
(* Types *)

\* What the name refers to is an annotation type of that name.
LEMMA ReferenceType ==
    ASSUME NEW g \in Models, given = g, NEW n \in Names, NEW l \in Locations,
           GetReferenceAnnotationType(n, l) # None
    PROVE  LET ref == GetReferenceAnnotationType(n, l)
               Here == g.isLibrary[l] /\ Declared(l, "annotation", n) # {}
           IN  /\ Here => ref \in Declared(l, "annotation", n)
               /\ ~Here => g.uses[l][n] # None
                           /\ ref \in Declared(g.uses[l][n].at, "annotation", g.uses[l][n].name)
<1>1. \A S : TheOf(S) # None => TheOf(S) \in S
  BY DEF TheOf
<1> HIDE DEF TheOf
<1> QED
  BY <1>1 DEF GetReferenceAnnotationType

\* What a fragment declares under a name are its annotation types of that name.
LEMMA DeclaredAre ==
    ASSUME NEW g \in Models, given = g, NEW l \in Locations, NEW n \in Names
    PROVE  \A t \in Declared(l, "annotation", n) :
              /\ t \in Types /\ g.name[t] = n
              /\ \E i \in DOMAIN g.declared[l]["annotation"] : g.declared[l]["annotation"][i] = t
<1>1. "annotation" \in Tables
  BY DEF Tables
<1>2. \A i \in DOMAIN g.declared[l]["annotation"] : g.declared[l]["annotation"][i] \in Types
  BY <1>1, DeclaredFacts
<1> QED
  BY <1>2 DEF Declared

\* A reference that is found is to an annotation type.
LEMMA ReferenceIsType ==
    ASSUME TypeOK, NEW e \in Extensions
    PROVE  LET x == given.extensions[e]
               ref == GetReferenceAnnotationType(x.name, x.at)
           IN  ref # None => ref \in Types /\ IsAnnotation(given, ref)
<1>1. PICK x, g : x = given.extensions[e] /\ g = given
  OBVIOUS
<1>2. g \in Models /\ x.name \in Names /\ x.at \in Locations
  BY <1>1, ExtensionFacts DEF TypeOK, Extensions
<1>3. PICK ref : ref = GetReferenceAnnotationType(x.name, x.at)
  OBVIOUS
<1>4. SUFFICES ASSUME ref # None PROVE ref \in Types /\ IsAnnotation(given, ref)
  BY <1>1, <1>3
<1>5. \E l \in Locations, n \in Names : ref \in Declared(l, "annotation", n)
  <2>1. \/ ref \in Declared(x.at, "annotation", x.name)
        \/ g.uses[x.at][x.name] # None
           /\ ref \in Declared(g.uses[x.at][x.name].at, "annotation", g.uses[x.at][x.name].name)
    BY <1>1, <1>2, <1>3, <1>4, ReferenceType
  <2>2. g.uses[x.at][x.name] # None =>
            g.uses[x.at][x.name].at \in Locations /\ g.uses[x.at][x.name].name \in Names
    BY <1>2, ExtensionFacts
  <2> QED
    BY <1>2, <2>1, <2>2
<1> QED
  BY <1>1, <1>2, <1>5, DeclaredAre DEF IsAnnotation

\* Unwrapping in place keeps the flags and facets well typed.
LEMMA UnwrapInPlaceType ==
    ASSUME TypeOK, NEW t \in Types, UnwrapInPlace(t)
    PROVE  /\ flagged' \subseteq Types /\ visited' \subseteq Types /\ merged' \subseteq Shape
           /\ facets' \in [Types -> Lines]
<1>1. Reaches[t] \subseteq Types
  BY ReachesAt
<1>2. flagged \subseteq Types /\ visited \subseteq Types /\ merged \subseteq Shape /\ facets \in [Types -> Lines]
  BY DEF TypeOK, Lines
<1>3. \A p \in Types : given.parent[p] # None => given.parent[p] \in Types
  BY ParentFacts DEF TypeOK
<1>4. \A p \in Types : UnwrapShape[p] \in Outcome
  BY UnwrapShapeAt
<1>5. \A c \in Reaches[t] : LeftVisited(c) \subseteq Types
  BY <1>1, <1>3, <1>4, OutcomeFields DEF LeftVisited
<1>6. flagged' \subseteq Types
  BY <1>1, <1>2 DEF UnwrapInPlace
<1>7. visited' \subseteq Types
  BY <1>2, <1>5 DEF UnwrapInPlace
<1>8. merged' \subseteq Shape
  <2>1. \A c \in Reaches[t] : UnwrapShape[c].shape \in Shape
    BY <1>1, <1>4, OutcomeFields
  <2> QED
    BY <1>2, <2>1 DEF UnwrapInPlace
<1>9. facets' \in [Types -> Lines]
  <2>1. \A c \in Types : given.parent[c] # None => Line(c, UnwrapShape[given.parent[c]]) \in Lines
    BY <1>3, <1>4, LineType
  <2>2. \A c \in Types : facets[c] \in Lines
    BY <1>2
  <2> QED
    BY <2>1, <2>2 DEF UnwrapInPlace
<1> QED
  BY <1>6, <1>7, <1>8, <1>9

\* The one action of many parts.
LEMMA UnwrapTypeCases ==
    ASSUME TypeOK, UnwrapType
    PROVE  LET p == Head(todo)
               t == Slot(p).type
               u == UnwrapShape[t]
           IN  /\ p \in AllPlaces /\ Slot(p) \in Shape /\ t \in Types /\ u \in Outcome /\ u.shape \in Shape
               /\ phase = "unwrap" /\ phase' = phase /\ given' = given /\ left' = left
               /\ definedBy' = definedBy /\ calls' = calls /\ reported' = reported /\ cache' = cache
               /\ todo # << >> /\ todo \in Seq(AllPlaces) /\ todo' = Tail(todo)
               /\ \/ Slot(p).copy /\ Put(p, Slot(p)) /\ UNCHANGED << heap, errors >>
                  \/ ~Slot(p).copy /\ UnwrapInPlace(t) /\ u.ok /\ Put(p, u.shape) /\ UNCHANGED errors
                  \/ ~Slot(p).copy /\ UnwrapInPlace(t) /\ ~u.ok
                     /\ errors' = errors \cup {<< "type", t >>} /\ UNCHANGED << slots, tables >>
<1>1. phase = "unwrap" /\ todo # << >> /\ todo \in Seq(AllPlaces)
  BY DEF UnwrapType, TypeOK
<1>2. PICK p : p = Head(todo)
  OBVIOUS
<1>3. p \in AllPlaces
  BY <1>1, <1>2
<1>4. PICK s : s = Slot(p)
  OBVIOUS
<1>5. s \in Shape /\ s.type \in Types
  BY <1>3, <1>4, PlaceFacts, ShapeFields
<1>6. UnwrapShape[s.type] \in Outcome /\ UnwrapShape[s.type].shape \in Shape
  BY <1>5, UnwrapShapeAt, OutcomeFields
<1>7. \/ s.copy /\ Put(p, s) /\ UNCHANGED << heap, errors >>
      \/ ~s.copy /\ UnwrapInPlace(s.type) /\ UnwrapShape[s.type].ok /\ Put(p, UnwrapShape[s.type].shape)
         /\ UNCHANGED errors
      \/ ~s.copy /\ UnwrapInPlace(s.type) /\ ~UnwrapShape[s.type].ok
         /\ errors' = errors \cup {<< "type", s.type >>} /\ UNCHANGED << slots, tables >>
  BY <1>2, <1>4 DEF UnwrapType, Slot
<1>8. /\ phase' = phase /\ given' = given /\ left' = left
      /\ definedBy' = definedBy /\ calls' = calls /\ reported' = reported /\ cache' = cache
      /\ todo' = Tail(todo)
  BY DEF UnwrapType
<1> QED
  BY <1>1, <1>2, <1>3, <1>4, <1>5, <1>6, <1>7, <1>8


\* The initial state is well typed.
LEMMA InitType ==
    ASSUME Init
    PROVE  TypeOK
<1>1. given \in Models
  BY DEF Init
<1>2. slots \in [Locations -> [Tables -> Seq(Shape)]]
      /\ \A l \in Locations, table \in Tables : DOMAIN slots[l][table] = DOMAIN given.declared[l][table]
  <2>1. slots = Slots
    BY DEF Init
  <2>2. ASSUME NEW l \in Locations, NEW table \in Tables
        PROVE  slots[l][table] \in Seq(Shape) /\ DOMAIN slots[l][table] = DOMAIN given.declared[l][table]
    <3>1. given.declared[l][table] \in Seq(Types)
      BY <1>1, DeclaredFacts
    <3>2. slots[l][table] = [i \in DOMAIN given.declared[l][table] |-> Own(given.declared[l][table][i])]
      BY <2>1 DEF Slots
    <3>3. slots[l][table] \in [1..Len(given.declared[l][table]) -> Shape]
      BY <3>1, <3>2, ShapeFields
    <3> QED
      BY <3>1, <3>2, <3>3, SeqDef
  <2>3. PICK Q : Q = Seq(Shape)
    OBVIOUS
  <2>4. slots \in [Locations -> [Tables -> Q]]
    BY <2>1, <2>2, <2>3 DEF Slots
  <2> QED
    BY <2>2, <2>3, <2>4
<1>3. tables \in [Tables -> [Locations -> [Names -> Shape \cup {None}]]]
  BY DEF Init, NoTables
<1>4. facets \in [Types -> [sets : SUBSET FacetNames, offers : SUBSET FacetNames]]
  BY <1>1, ModelFacts DEF Init
<1>5. todo \in Seq(Extensions)
  <2>1. PICK n \in Nat : Extensions = 1..n
    BY <1>1, ExtensionFacts DEF Extensions
  <2>2. todo = [e \in 1..n |-> e]
    BY <2>1 DEF Init
  <2> QED
    BY <2>1, <2>2
<1>6. calls \in Seq([call : {"unwrap", "validate"}, ok : BOOLEAN])
  BY DEF Init
<1> QED
  BY <1>1, <1>2, <1>3, <1>4, <1>5, <1>6 DEF Init, TypeOK

\* The loops over the annotations visit all of them.
LEMMA AllExtensions ==
    ASSUME TypeOK
    PROVE  /\ [e \in Extensions |-> e] \in Seq(Extensions)
           /\ \A e \in Extensions : e \in DOMAIN [x \in Extensions |-> x] /\ [x \in Extensions |-> x][e] = e
<1>1. PICK n \in Nat : Extensions = 1..n
  BY ExtensionFacts DEF TypeOK, Extensions
<1> QED
  BY <1>1

\* The part of the types that is about the heap and the fragments, and the rest.
HeapOK ==
    /\ slots \in [Locations -> [Tables -> Seq(Shape)]]
    /\ \A l \in Locations, table \in Tables :
          DOMAIN slots[l][table] = DOMAIN given.declared[l][table]
    /\ tables \in [Tables -> [Locations -> [Names -> Shape \cup {None}]]]
    /\ flagged \subseteq Types /\ visited \subseteq Types /\ merged \subseteq Shape
    /\ facets \in [Types -> [sets : SUBSET FacetNames, offers : SUBSET FacetNames]]

ProgressOK ==
    /\ phase \in {"resolve", "refused", "idle", "unwrap", "links", "validate", "values",
                  "crashed", "overflowed"}
    /\ left \subseteq Locations
    /\ phase \in {"resolve", "links", "values"} => todo \in Seq(Extensions)
    /\ phase \in {"unwrap", "validate"} => todo \in Seq(AllPlaces)
    /\ phase = "idle" => todo = << >>

ResultsOK ==
    /\ definedBy \in [Extensions -> Shape \cup {None}]
    /\ cache \in [Types -> Outcome \cup {None}]
    /\ errors \subseteq Errors /\ reported \subseteq Errors
    /\ calls \in Seq([call : {"unwrap", "validate"}, ok : BOOLEAN])

\* The parts make the type invariant.
LEMMA TypeParts ==
    TypeOK <=> given \in Models /\ HeapOK /\ ProgressOK /\ ResultsOK
BY DEF TypeOK, HeapOK, ProgressOK, ResultsOK

\* A step that leaves the heap alone keeps it well typed.
LEMMA HeapSame ==
    ASSUME HeapOK, UNCHANGED << given, slots, tables, heap >>
    PROVE  HeapOK'
BY DEF HeapOK, heap

\* A call that returns leaves a well typed state.
LEMMA ReturnsType ==
    ASSUME TypeOK, NEW call \in {"unwrap", "validate"}, Returns(call),
           UNCHANGED << given, slots, tables, heap, definedBy, left, todo >>, todo = << >>
    PROVE  TypeOK'
<1>1. HeapOK'
  BY TypeParts, HeapSame
<1>2. ProgressOK'
  BY DEF Returns, ProgressOK, TypeOK
<1>3. calls' \in Seq([call : {"unwrap", "validate"}, ok : BOOLEAN])
  <2>1. PICK R, r : R = [call : {"unwrap", "validate"}, ok : BOOLEAN] /\ r = [call |-> call, ok |-> errors = {}]
    OBVIOUS
  <2>2. r \in R
    BY <2>1
  <2>3. calls \in Seq(R) /\ calls' = Append(calls, r)
    BY <2>1 DEF TypeOK, Returns
  <2>4. calls' \in Seq(R)
    BY <2>2, <2>3
  <2> QED
    BY <2>1, <2>4
<1>4. ResultsOK'
  BY <1>3 DEF Returns, ResultsOK, TypeOK, Extensions, Errors
<1> QED
  BY <1>1, <1>2, <1>4 DEF TypeOK, HeapOK, ProgressOK, ResultsOK


\* Every step keeps the state well typed.
LEMMA TypeStep ==
    ASSUME TypeOK, [Next]_vars
    PROVE  TypeOK'
<1> USE DEF ProgressOK, ResultsOK
<1>0. given \in Models /\ HeapOK /\ ProgressOK /\ ResultsOK
  BY TypeParts
<1>p. SUFFICES given' \in Models /\ HeapOK' /\ ProgressOK' /\ ResultsOK'
  BY DEF TypeOK, HeapOK, ProgressOK, ResultsOK
<1>s. given' = given => Extensions' = Extensions /\ Errors' = Errors /\ AllPlaces' = AllPlaces
  BY SamePlaces DEF Extensions, Errors
<1>a. [e \in Extensions |-> e] \in Seq(Extensions)
  BY AllExtensions
<1>1. CASE ResolveDomainExtension
  <2>1. PICK e, ref : e = Head(todo)
            /\ ref = GetReferenceAnnotationType(given.extensions[e].name, given.extensions[e].at)
    OBVIOUS
  <2>2. e \in Extensions /\ todo' \in Seq(Extensions)
    BY <1>0, <1>1, <2>1 DEF ResolveDomainExtension
  <2>3. ref # None => ref \in Types /\ Own(ref) \in Shape
    BY <2>1, <2>2, ReferenceIsType, ShapeFields
  <2>4. \/ errors' = errors \cup {<< "annotation", e >>} /\ UNCHANGED definedBy
        \/ ref # None /\ definedBy' = [definedBy EXCEPT ![e] = Own(ref)] /\ UNCHANGED errors
    BY <1>1, <2>1 DEF ResolveDomainExtension
  <2>5. errors' \subseteq Errors
    BY <1>0, <2>2, <2>4 DEF Errors
  <2>6. definedBy' \in [Extensions -> Shape \cup {None}]
    BY <1>0, <2>2, <2>3, <2>4
  <2>7. UNCHANGED << given, slots, tables, heap, cache, phase, left, calls, reported >> /\ phase = "resolve"
    BY <1>1 DEF ResolveDomainExtension
  <2>8. HeapOK'
    BY <1>0, <2>7, HeapSame
  <2> QED
    BY <1>0, <1>s, <2>2, <2>5, <2>6, <2>7, <2>8
<1>2. CASE Resolved
  <2>1. HeapOK'
    BY <1>0, <1>2, HeapSame DEF Resolved
  <2> QED
    BY <1>0, <1>s, <1>2, <2>1 DEF Resolved
<1>3. CASE CallUnwrapShapes
  <2>1. tables' \in [Tables -> [Locations -> [Names -> Shape \cup {None}]]]
    BY <1>3 DEF CallUnwrapShapes, NoTables
  <2>2. HeapOK'
    BY <1>0, <1>3, <2>1 DEF CallUnwrapShapes, HeapOK, heap
  <2>3. << >> \in Seq(AllPlaces)
    OBVIOUS
  <2> QED
    BY <1>0, <1>s, <1>3, <2>2, <2>3 DEF CallUnwrapShapes
<1>4. CASE CallValidateShapes
  <2>1. HeapOK'
    BY <1>0, <1>4, HeapSame DEF CallValidateShapes
  <2>2. << >> \in Seq(AllPlaces)
    OBVIOUS
  <2> QED
    BY <1>0, <1>s, <1>4, <2>1, <2>2 DEF CallValidateShapes
<1>5. CASE NextFragment
  <2>1. HeapOK'
    BY <1>0, <1>5, HeapSame DEF NextFragment
  <2>2. PICK l \in left : todo' = Places(l) /\ left' = left \ {l}
    BY <1>5 DEF NextFragment
  <2>3. todo' \in Seq(AllPlaces) /\ left' \subseteq Locations
    BY <1>0, <2>2, PlacesType
  <2> QED
    BY <1>0, <1>s, <1>5, <2>1, <2>3 DEF NextFragment
<1>6. CASE UnwrapType
  <2>1. PICK p, t, u : p = Head(todo) /\ t = Slot(p).type /\ u = UnwrapShape[t]
    OBVIOUS
  <2>2. /\ p \in AllPlaces /\ Slot(p) \in Shape /\ t \in Types /\ u.shape \in Shape
        /\ phase = "unwrap" /\ phase' = phase /\ given' = given /\ left' = left
        /\ definedBy' = definedBy /\ calls' = calls /\ reported' = reported /\ cache' = cache
        /\ todo # << >> /\ todo \in Seq(AllPlaces) /\ todo' = Tail(todo)
    BY <1>6, <2>1, UnwrapTypeCases
  <2>3. \/ Put(p, Slot(p)) /\ UNCHANGED << heap, errors >>
        \/ UnwrapInPlace(t) /\ Put(p, u.shape) /\ UNCHANGED errors
        \/ UnwrapInPlace(t) /\ errors' = errors \cup {<< "type", t >>} /\ UNCHANGED << slots, tables >>
    BY <1>6, <2>1, UnwrapTypeCases
  <2>4. flagged' \subseteq Types /\ visited' \subseteq Types /\ merged' \subseteq Shape
        /\ facets' \in [Types -> [sets : SUBSET FacetNames, offers : SUBSET FacetNames]]
    <3>1. CASE UNCHANGED heap
      BY <1>0, <3>1 DEF HeapOK, heap
    <3>2. CASE UnwrapInPlace(t)
      BY <2>2, <3>2, UnwrapInPlaceType DEF Lines
    <3> QED
      BY <2>3, <3>1, <3>2
  <2>5. /\ slots' \in [Locations -> [Tables -> Seq(Shape)]]
        /\ \A l \in Locations, table \in Tables : DOMAIN slots'[l][table] = DOMAIN given.declared[l][table]
        /\ tables' \in [Tables -> [Locations -> [Names -> Shape \cup {None}]]]
    <3>1. CASE \E s \in Shape : Put(p, s)
      BY <2>2, <3>1, PutSlots, PutTables
    <3>2. CASE UNCHANGED << slots, tables >>
      BY <1>0, <3>2 DEF HeapOK
    <3> QED
      BY <2>2, <2>3, <3>1, <3>2
  <2>6. HeapOK'
    BY <2>2, <2>4, <2>5 DEF HeapOK
  <2>7. errors' \subseteq Errors
    BY <1>0, <2>2, <2>3 DEF Errors
  <2> QED
    BY <1>0, <1>s, <2>2, <2>6, <2>7
<1>7. CASE TypesUnwrapped
  <2>1. CASE errors = {}
    <3>1. HeapOK'
      BY <1>0, <1>7, HeapSame DEF TypesUnwrapped
    <3> QED
      BY <1>0, <1>s, <1>a, <1>7, <2>1, <3>1 DEF TypesUnwrapped
  <2>2. CASE errors # {}
    <3>1. Returns("unwrap") /\ todo = << >>
          /\ UNCHANGED << given, slots, tables, heap, definedBy, left, todo >>
      BY <1>7, <2>2 DEF TypesUnwrapped, FragmentsDone
    <3>2. TypeOK'
      BY <3>1, ReturnsType
    <3> QED
      BY <3>2 DEF TypeOK, HeapOK
  <2> QED
    BY <2>1, <2>2
<1>8. CASE UnwrapDomainExtension
  <2>1. PICK e, db : e = Head(todo) /\ db = definedBy[e]
    OBVIOUS
  <2>2. e \in Extensions /\ Tail(todo) \in Seq(Extensions) /\ phase = "links"
    BY <1>0, <1>8, <2>1 DEF UnwrapDomainExtension
  <2>3. CASE db = None
    <3>1. Crashes
      BY <1>8, <2>1, <2>3 DEF UnwrapDomainExtension
    <3>2. HeapOK'
      BY <1>0, <3>1, HeapSame DEF Crashes
    <3> QED
      BY <1>0, <1>s, <3>1, <3>2 DEF Crashes
  <2>4. CASE db # None
    <3>1. definedBy' = [definedBy EXCEPT ![e] = tables["annotation"][Location(db.type)][Name(db)]]
          /\ todo' = Tail(todo)
          /\ UNCHANGED << given, slots, tables, heap, cache, phase, left, errors, calls, reported >>
      BY <1>8, <2>1, <2>4 DEF UnwrapDomainExtension
    <3>2. tables["annotation"][Location(db.type)][Name(db)] \in Shape \cup {None}
      <4>1. db \in Shape /\ db.type \in Types
        BY <1>0, <2>1, <2>2, <2>4, ShapeFields
      <4>2. Location(db.type) \in Locations
        BY <1>0, <4>1, DeclaredOnce DEF Location
      <4>3. Name(db) \in Names
        BY <1>0, <4>1, ModelFacts DEF Name
      <4> QED
        BY <1>0, <4>2, <4>3 DEF HeapOK, Tables
    <3>3. definedBy' \in [Extensions -> Shape \cup {None}]
      BY <1>0, <2>2, <3>1, <3>2
    <3>4. HeapOK'
      BY <1>0, <3>1, HeapSame
    <3> QED
      BY <1>0, <1>s, <2>2, <3>1, <3>3, <3>4
  <2> QED
    BY <2>3, <2>4
<1>9. CASE UnwrapShapesReturns
  <2>1. TypeOK'
    BY <1>9, ReturnsType DEF UnwrapShapesReturns
  <2> QED
    BY <2>1 DEF TypeOK, HeapOK
<1>10. CASE ValidateType
  <2>1. PICK p : p = Head(todo)
    OBVIOUS
  <2>2. p \in AllPlaces /\ todo' = Tail(todo) /\ Tail(todo) \in Seq(AllPlaces) /\ phase = "validate"
    <3>1. phase = "validate" /\ todo # << >> /\ todo' = Tail(todo)
      BY <1>10 DEF ValidateType
    <3> QED
      BY <1>0, <2>1, <3>1
  <2>3. Slot(p) \in Shape /\ Slot(p).type \in Types /\ UnwrapShape[Slot(p).type] \in Outcome
    BY <2>2, PlaceFacts, ShapeFields, UnwrapShapeAt
  <2>4. /\ cache' = cache \/ cache' = [cache EXCEPT ![Slot(p).type] = UnwrapShape[Slot(p).type]]
        /\ errors' = errors \/ errors' = errors \cup {<< "type", Slot(p).type >>}
    BY <1>10, <2>1 DEF ValidateType, Slot
  <2>5. UNCHANGED << given, slots, tables, heap, definedBy, phase, left, calls, reported >>
    BY <1>10 DEF ValidateType
  <2>6. HeapOK'
    BY <1>0, <2>5, HeapSame
  <2>7. cache' \in [Types -> Outcome \cup {None}]
    BY <1>0, <2>3, <2>4
  <2>8. errors' \subseteq Errors
    BY <1>0, <2>3, <2>4 DEF Errors
  <2> QED
    BY <1>0, <1>s, <2>2, <2>5, <2>6, <2>7, <2>8
<1>11. CASE ValidateTypeOverflows
  <2>1. HeapOK'
    BY <1>0, <1>11, HeapSame DEF ValidateTypeOverflows
  <2> QED
    BY <1>0, <1>s, <1>11, <2>1 DEF ValidateTypeOverflows
<1>12. CASE TypesValidated
  <2>1. HeapOK'
    BY <1>0, <1>12, HeapSame DEF TypesValidated
  <2> QED
    BY <1>0, <1>s, <1>a, <1>12, <2>1 DEF TypesValidated
<1>13. CASE ValidateDomainExtension
  <2>1. PICK e : e = Head(todo)
    OBVIOUS
  <2>2. e \in Extensions /\ Tail(todo) \in Seq(Extensions) /\ phase = "values"
    BY <1>0, <1>13, <2>1 DEF ValidateDomainExtension
  <2>3. CASE definedBy[e] = None
    <3>1. Crashes
      BY <1>13, <2>1, <2>3 DEF ValidateDomainExtension
    <3>2. HeapOK'
      BY <1>0, <3>1, HeapSame DEF Crashes
    <3> QED
      BY <1>0, <1>s, <3>1, <3>2 DEF Crashes
  <2>4. CASE definedBy[e] # None
    <3>1. /\ errors' = errors \/ errors' = errors \cup {<< "annotation", e >>}
          /\ todo' = Tail(todo)
          /\ UNCHANGED << given, slots, tables, heap, definedBy, cache, phase, left, calls, reported >>
      BY <1>13, <2>1, <2>4 DEF ValidateDomainExtension
    <3>2. HeapOK'
      BY <1>0, <3>1, HeapSame
    <3>3. errors' \subseteq Errors
      BY <1>0, <2>2, <3>1 DEF Errors
    <3> QED
      BY <1>0, <1>s, <2>2, <3>1, <3>2, <3>3
  <2> QED
    BY <2>3, <2>4
<1>14. CASE ValidateShapesReturns
  <2>1. TypeOK'
    BY <1>14, ReturnsType DEF ValidateShapesReturns
  <2> QED
    BY <2>1 DEF TypeOK, HeapOK
<1>15. CASE UNCHANGED vars
  <2>1. HeapOK'
    BY <1>0, <1>15, HeapSame DEF vars, heap
  <2> QED
    BY <1>0, <1>s, <1>15, <2>1 DEF vars
<1> QED
  BY <1>1, <1>2, <1>3, <1>4, <1>5, <1>6, <1>7, <1>8, <1>9, <1>10, <1>11, <1>12, <1>13, <1>14, <1>15
     DEF Next, Over

-----------------------------------------------------------------------------
(* The annotation types: DefinedByKept *)

\* What is not in the tail of a sequence is its head or not in it at all.
LEMMA TailOf ==
    ASSUME NEW S, NEW q \in Seq(S), q # << >>
    PROVE  /\ Head(q) \in S /\ Tail(q) \in Seq(S) /\ q[1] = Head(q) /\ 1 \in DOMAIN q
           /\ \A x : (\A k \in DOMAIN Tail(q) : Tail(q)[k] # x) => x = Head(q) \/ \A k \in DOMAIN q : q[k] # x
           /\ \A x : (\A k \in DOMAIN q : q[k] # x) => \A k \in DOMAIN Tail(q) : Tail(q)[k] # x
<1>1. PICK n \in Nat : n = Len(q)
  OBVIOUS
<1>2. DOMAIN q = 1..n /\ n # 0
  BY <1>1
<1>3. Tail(q) \in Seq(S) /\ DOMAIN Tail(q) = 1..(n - 1) /\ Head(q) \in S /\ Head(q) = q[1]
  BY <1>1, <1>2
<1>4. \A k \in 1..(n - 1) : Tail(q)[k] = q[k + 1]
  BY <1>1, <1>2
<1>5. ASSUME NEW x, \A k \in DOMAIN Tail(q) : Tail(q)[k] # x, NEW k \in DOMAIN q, q[k] = x
      PROVE  x = Head(q)
  <2>1. CASE k = 1
    BY <1>3, <1>5, <2>1
  <2>2. CASE k # 1
    <3>1. k - 1 \in 1..(n - 1) /\ (k - 1) + 1 = k
      BY <1>2, <2>2
    <3> QED
      BY <1>3, <1>4, <1>5, <3>1
  <2> QED
    BY <2>1, <2>2
<1>6. ASSUME NEW x, \A k \in DOMAIN q : q[k] # x, NEW k \in DOMAIN Tail(q)
      PROVE  Tail(q)[k] # x
  <2>1. k \in 1..(n - 1) /\ k + 1 \in DOMAIN q
    BY <1>2, <1>3
  <2> QED
    BY <1>4, <1>6, <2>1
<1> QED
  BY <1>2, <1>3, <1>5, <1>6

\* How the progress of the loops looks one step on.
LEMMA PastLater ==
    ASSUME NEW S, todo \in Seq(S), todo # << >>, todo' = Tail(todo), left' = left
    PROVE  /\ \A p : Past(p)' => p = Head(todo) \/ Past(p)
           /\ \A p : Past(p) => Past(p)'
           /\ \A e : Beyond(e)' => e = Head(todo) \/ Beyond(e)
<1>1. PICK q, h, r : q = todo /\ h = Head(q) /\ r = Tail(q)
  OBVIOUS
<1>2. /\ \A x : (\A k \in DOMAIN r : r[k] # x) => x = h \/ \A k \in DOMAIN q : q[k] # x
      /\ \A x : (\A k \in DOMAIN q : q[k] # x) => \A k \in DOMAIN r : r[k] # x
  BY SMTT(40), <1>1, TailOf
<1>3. todo = q /\ todo' = r /\ Head(todo) = h
  BY <1>1
<1>4. \A e : (Beyond(e)' => e = h \/ Beyond(e)) /\ (Beyond(e) => Beyond(e)')
  BY <1>2, <1>3 DEF Beyond
<1>5. \A p : Past(p) <=> p.at \notin left /\ Beyond(p)
  BY DEF Past, Beyond
<1>6. \A p : Past(p)' <=> p.at \notin left /\ Beyond(p)'
  BY DEF Past, Beyond
<1> QED
  BY <1>3, <1>4, <1>5, <1>6

\* A fragment that is taken up next is not past: all its places are to be visited.
LEMMA PastNext ==
    ASSUME TypeOK, NextFragment
    PROVE  \A p \in AllPlaces : Past(p)' => Past(p)
<1>1. PICK l \in left : todo' = Places(l) /\ left' = left \ {l}
  BY DEF NextFragment
<1>2. todo = << >> /\ l \in Locations
  BY <1>1 DEF NextFragment, TypeOK
<1>3. ASSUME NEW p \in AllPlaces, Past(p)' PROVE Past(p)
  <2>1. p.at \notin left \/ p.at = l
    BY <1>1, <1>3 DEF Past
  <2>2. p.at # l
    BY <1>1, <1>2, <1>3, PlacesType DEF Past
  <2> QED
    BY <1>2, <2>1, <2>2 DEF Past
<1> QED
  BY <1>3

\* The location of a declared type is that of its place.
LEMMA LocationIs ==
    ASSUME TypeOK, NEW p \in AllPlaces
    PROVE  Location(At(given, p)) = p.at
<1>1. PICK g, t : g = given /\ t = At(given, p)
  OBVIOUS
<1>2. g \in Models /\ p.at \in Locations /\ p.table \in Tables /\ p.index \in DOMAIN g.declared[p.at][p.table]
      /\ g.declared[p.at][p.table][p.index] = t
  BY <1>1, PlaceFacts DEF TypeOK, At
<1>3. \A l \in Locations :
          (\E table \in Tables : \E i \in DOMAIN g.declared[l][table] : g.declared[l][table][i] = t) => l = p.at
  BY <1>2, DeclaredOnce
<1>4. \E table \in Tables : \E i \in DOMAIN g.declared[p.at][table] : g.declared[p.at][table][i] = t
  BY <1>2
<1> QED
  BY <1>1, <1>2, <1>3, <1>4 DEF Location

\* What stands after a shape took a place stood before.
LEMMA SlotsLead ==
    ASSUME TypeOK, Inherited, UnwrapType
    PROVE  /\ Inherited'
           /\ TypeStands' => TypeStands
           /\ Standing' => Standing
<1>1. PICK p, t, u, g : p = Head(todo) /\ t = Slot(p).type /\ u = UnwrapShape[t] /\ g = given
  OBVIOUS
<1>2. /\ p \in AllPlaces /\ Slot(p) \in Shape /\ t \in Types /\ u.shape \in Shape /\ given' = g
      /\ \/ \E s \in Shape : /\ Put(p, s)
                             /\ s = Slot(p) \/ (~Slot(p).copy /\ s = u.shape)
         \/ UNCHANGED slots
  BY <1>1, UnwrapTypeCases
<1>3. g \in Models /\ AllPlaces' = AllPlaces
  BY <1>1, <1>2, SamePlaces DEF TypeOK
<1>4. u.shape.type \in Types /\ (u.shape.type = t \/ u.shape.type \in Above(g)[t])
  BY <1>1, <1>2, UnwrapShapeLeads, ShapeFields
<1>5. CASE UNCHANGED slots
  BY <1>1, <1>2, <1>3, <1>5 DEF Inherited, TypeStands, Standing
<1>6. CASE \E s \in Shape : Put(p, s) /\ (s = Slot(p) \/ (~Slot(p).copy /\ s = u.shape))
  <2>1. PICK s \in Shape : Put(p, s) /\ (s = Slot(p) \/ (~Slot(p).copy /\ s = u.shape))
    BY <1>6
  <2>2. \A q \in AllPlaces : slots'[q.at][q.table][q.index] = IF q = p THEN s ELSE Slot(q)
    BY <1>2, <2>1, PutSlots
  <2>3. PICK d \in Types : d = At(g, p)
    BY <1>1, <1>2, PlaceFacts
  <2>4. t = d \/ t \in Above(g)[d]
    BY <1>1, <1>2, <2>3 DEF Inherited, Slot
  <2>5. s.type = d \/ s.type \in Above(g)[d]
    BY <1>1, <1>3, <1>4, <2>1, <2>3, <2>4, AboveTransitive
  <2>6. s.type = d => t = d
    BY <1>1, <1>2, <1>3, <1>4, <2>1, <2>3, <2>4, AboveOrder
  <2>7. s = Own(d) => Slot(p) = Own(d)
    BY <1>1, <1>2, <2>1, <2>3, <2>6, ShapeFields
  <2>8. Inherited'
    BY <1>1, <1>2, <1>3, <2>2, <2>3, <2>5 DEF Inherited, Slot
  <2>9. TypeStands' => TypeStands
    BY <1>1, <1>2, <1>3, <2>2, <2>3, <2>6 DEF TypeStands, Slot
  <2>10. Standing' => Standing
    BY <1>1, <1>2, <1>3, <2>2, <2>3, <2>7 DEF Standing, Slot
  <2> QED
    BY <2>8, <2>9, <2>10
<1> QED
  BY <1>2, <1>5, <1>6

\* Where the shapes stand, their types do.
LEMMA StandingTypes ==
    ASSUME TypeOK
    PROVE  Standing => TypeStands
BY PlaceFacts, ShapeFields DEF Standing, TypeStands, Slot

\* The shape that is put into the table has the type of the place.
LEMMA PutStands ==
    ASSUME TypeOK, NEW p \in AllPlaces, NEW s \in Shape, Put(p, s), given' = given
    PROVE  /\ TypeStands' => s.type = At(given, p)
           /\ Standing' => s = Own(At(given, p))
<1>1. AllPlaces' = AllPlaces
  BY SamePlaces
<1>2. slots'[p.at][p.table][p.index] = s
  BY PutSlots
<1> QED
  BY <1>1, <1>2 DEF TypeStands, Standing


\* Where the slots do not change, what stands does not.
LEMMA SlotsSame ==
    ASSUME UNCHANGED << given, slots >>
    PROVE  /\ Inherited' <=> Inherited
           /\ TypeStands' <=> TypeStands
           /\ Standing' <=> Standing
<1>1. AllPlaces' = AllPlaces
  BY SamePlaces
<1> QED
  BY <1>1 DEF Inherited, TypeStands, Standing

\* Only UnwrapType changes what stands at the places and in the heap.
LEMMA OnlyUnwrapType ==
    ASSUME [Next]_vars
    PROVE  /\ given' = given
           /\ UnwrapType \/ UNCHANGED << slots, heap >>
BY DEF Next, vars, heap, ResolveDomainExtension, Resolved, CallUnwrapShapes, CallValidateShapes, NextFragment,
       UnwrapType, TypesUnwrapped, UnwrapDomainExtension, UnwrapShapesReturns, ValidateType,
       ValidateTypeOverflows, TypesValidated, ValidateDomainExtension, ValidateShapesReturns, Over,
       Returns, Crashes

\* A type in the place of another one stays above it, and no step brings the other back.
LEMMA InheritedStep ==
    ASSUME TypeOK, Inherited, [Next]_vars
    PROVE  /\ Inherited'
           /\ TypeStands' => TypeStands
           /\ Standing' => Standing
<1>1. CASE UnwrapType
  BY <1>1, SlotsLead
<1>2. CASE UNCHANGED << slots, heap >>
  BY <1>2, OnlyUnwrapType, SlotsSame
<1> QED
  BY <1>1, <1>2, OnlyUnwrapType

\* resolveDomainExtensions reports every annotation it finds no type for.
LEMMA ResolvingStep ==
    ASSUME TypeOK, Resolving, [Next]_vars
    PROVE  Resolving'
<1>1. CASE ResolveDomainExtension
  <2>1. PICK e, ref : e = Head(todo)
            /\ ref = GetReferenceAnnotationType(given.extensions[e].name, given.extensions[e].at)
    OBVIOUS
  <2>2. phase = "resolve" /\ todo # << >> /\ todo' = Tail(todo) /\ left' = left /\ given' = given
    BY <1>1 DEF ResolveDomainExtension
  <2>3. todo \in Seq(Extensions) /\ e \in Extensions /\ definedBy \in [Extensions -> Shape \cup {None}]
    BY <2>1, <2>2 DEF TypeOK
  <2>4. ref # None => Own(ref) # None
    BY <2>1, <2>3, ReferenceIsType, ShapeFields, NothingIsNone
  <2>5. \/ errors' = errors \cup {<< "annotation", e >>} /\ UNCHANGED definedBy
        \/ Own(ref) # None /\ definedBy' = [definedBy EXCEPT ![e] = Own(ref)] /\ UNCHANGED errors
    BY <1>1, <2>1, <2>4 DEF ResolveDomainExtension
  <2>6. \A x : Beyond(x)' => x = e \/ Beyond(x)
    BY <2>1, <2>2, <2>3, PastLater
  <2>7. Extensions' = Extensions
    BY <2>2 DEF Extensions
  <2> QED
    BY <2>2, <2>3, <2>5, <2>6, <2>7 DEF Resolving
<1>2. CASE ~ResolveDomainExtension
  <2>1. phase' = "resolve" => UNCHANGED << given, definedBy, errors, todo >> /\ phase = "resolve"
    BY <1>2 DEF Next, vars, Resolved, CallUnwrapShapes, CallValidateShapes, NextFragment,
       UnwrapType, TypesUnwrapped, UnwrapDomainExtension, UnwrapShapesReturns, ValidateType,
       ValidateTypeOverflows, TypesValidated, ValidateDomainExtension, ValidateShapesReturns, Over,
       Returns, Crashes
  <2> QED
    BY <2>1 DEF Resolving, Beyond, Extensions
<1> QED
  BY <1>1, <1>2

\* The annotation type of an entry or of a link is at a place.
LEMMA AnnotationPlace ==
    ASSUME TypeOK, NEW t, IsAnnotation(given, t)
    PROVE  \E p \in AllPlaces : p.table = "annotation" /\ At(given, p) = t /\ Location(t) = p.at
<1>1. PICK l \in Locations : \E i \in DOMAIN given.declared[l]["annotation"] : given.declared[l]["annotation"][i] = t
  BY DEF IsAnnotation
<1>2. PICK i \in DOMAIN given.declared[l]["annotation"] : given.declared[l]["annotation"][i] = t
  BY <1>1
<1> DEFINE p == [at |-> l, table |-> "annotation", index |-> i]
<1>3. p \in AllPlaces
  BY <1>2, PlaceExists DEF Tables
<1>4. p.table = "annotation" /\ At(given, p) = t
  BY <1>2 DEF At
<1> QED
  BY <1>3, <1>4, LocationIs

\* How the entries of the annotation types change with a shape that is put.
LEMMA PutEntries ==
    ASSUME TypeOK, NEW p \in AllPlaces, NEW s \in Shape, Put(p, s), s.type = At(given, p),
           Slot(p).type = At(given, p)
    PROVE  \E e \in {s, Slot(p)} :
              \A l \in Locations, n \in Names :
                 tables'["annotation"][l][n] =
                    IF p.table = "annotation" /\ l = p.at /\ n = given.name[At(given, p)]
                    THEN e ELSE tables["annotation"][l][n]
<1>1. p.at \in Locations
  BY PlaceFacts
<1>2. CASE given.isLibrary[p.at]
  BY <1>2, PutTables
<1>3. CASE ~given.isLibrary[p.at]
  BY <1>3, PutTables
<1> QED
  BY <1>2, <1>3


\* UnwrapType keeps the links and enters the annotation type it is at.
LEMMA LinkedUnwrapType ==
    ASSUME TypeOK, Inherited, TypeStands, ToAnnotations, Entered, NoneLost, UnwrapType, TypeStands'
    PROVE  ToAnnotations' /\ Entered' /\ NoneLost'
<1>1. PICK p, t, u, g, d : p = Head(todo) /\ t = Slot(p).type /\ u = UnwrapShape[t] /\ g = given
                           /\ d = At(given, p)
  OBVIOUS
<1>2. /\ p \in AllPlaces /\ Slot(p) \in Shape /\ u.shape \in Shape
      /\ phase = "unwrap" /\ phase' = phase /\ given' = given /\ left' = left /\ definedBy' = definedBy
      /\ todo # << >> /\ todo \in Seq(AllPlaces) /\ todo' = Tail(todo)
      /\ \/ (\E s \in Shape : Put(p, s)) /\ UNCHANGED errors
         \/ errors' = errors \cup {<< "type", t >>} /\ UNCHANGED << slots, tables >>
  BY <1>1, UnwrapTypeCases DEF heap
<1>3. AllPlaces' = AllPlaces /\ Extensions' = Extensions
  BY <1>2, SamePlaces DEF Extensions
<1>4. NoneLost'
  BY <1>2, <1>3 DEF NoneLost
<1>5. CASE errors' = errors \cup {<< "type", t >>} /\ UNCHANGED << slots, tables >>
  <2>1. errors' # {}
    BY <1>5
  <2>2. ToAnnotations'
    BY <1>2, <1>3, <1>5 DEF ToAnnotations
  <2> QED
    BY <1>2, <1>4, <2>1, <2>2 DEF Entered
<1>6. CASE (\E s \in Shape : Put(p, s)) /\ UNCHANGED errors
  <2>1. PICK s \in Shape : Put(p, s)
    BY <1>6
  <2>2. s.type = d /\ Slot(p).type = d
    BY <1>1, <1>2, <2>1, PutStands DEF TypeStands, Slot
  <2>3. PICK e \in {s, Slot(p)} :
            \A l \in Locations, n \in Names :
               tables'["annotation"][l][n] =
                  IF p.table = "annotation" /\ l = p.at /\ n = g.name[d]
                  THEN e ELSE tables["annotation"][l][n]
    BY <1>1, <1>2, <2>1, <2>2, PutEntries
  <2>4. e # None /\ e.type = d
    BY <1>2, <2>2, <2>3, NothingIsNone
  <2>5. p.table = "annotation" => IsAnnotation(g, d)
    BY <1>1, <1>2, PlaceFacts DEF IsAnnotation, At
  <2>6. ToAnnotations'
    BY <1>1, <1>2, <1>3, <2>3, <2>4, <2>5 DEF ToAnnotations
  <2>7. ASSUME NEW q \in AllPlaces, q.table = "annotation", Past(q)', errors' = {}
        PROVE  tables'["annotation"][q.at][g.name[At(g, q)]] # None
    <3>1. q.at \in Locations /\ At(g, q) \in Types /\ g.name[At(g, q)] \in Names
      BY <1>1, <2>7, PlaceFacts, ModelFacts DEF TypeOK
    <3>2. q = p \/ Past(q)
      BY <1>1, <1>2, <2>7, PastLater
    <3>3. CASE q = p
      BY <1>1, <2>3, <2>4, <2>7, <3>1, <3>3
    <3>4. CASE Past(q)
      <4>1. tables["annotation"][q.at][g.name[At(g, q)]] # None
        BY <1>1, <1>2, <1>6, <2>7, <3>4 DEF Entered, Entry
      <4> QED
        BY <2>3, <2>4, <3>1, <4>1
    <3> QED
      BY <3>2, <3>3, <3>4
  <2>8. Entered'
    BY <1>1, <1>2, <1>3, <2>7 DEF Entered, Entry
  <2> QED
    BY <1>4, <2>6, <2>8
<1> QED
  BY <1>2, <1>5, <1>6

\* An annotation is linked again to a type the table has.
LEMMA LinkedUnwrapExtension ==
    ASSUME TypeOK, ToAnnotations, Entered, NoneLost, UnwrapDomainExtension
    PROVE  ToAnnotations' /\ Entered' /\ NoneLost'
<1>1. PICK e, db : e = Head(todo) /\ db = definedBy[e]
  OBVIOUS
<1>2. phase = "links" /\ todo # << >> /\ todo \in Seq(Extensions) /\ e \in Extensions
  BY <1>1 DEF UnwrapDomainExtension, TypeOK
<1>3. db # None /\ IsAnnotation(given, db.type)
  BY <1>1, <1>2 DEF NoneLost, ToAnnotations
<1>4. PICK s : s = tables["annotation"][Location(db.type)][Name(db)]
  OBVIOUS
<1>5. definedBy' = [definedBy EXCEPT ![e] = s]
      /\ UNCHANGED << given, slots, tables, heap, cache, phase, left, errors, calls, reported >>
  BY <1>1, <1>3, <1>4 DEF UnwrapDomainExtension
<1>6. PICK p \in AllPlaces : p.table = "annotation" /\ At(given, p) = db.type /\ Location(db.type) = p.at
  BY <1>3, AnnotationPlace
<1>7. p.at \in Locations /\ given.name[db.type] \in Names
  BY <1>6, PlaceFacts, ModelFacts DEF TypeOK
<1>8. s = Entry(p)
  BY <1>4, <1>6 DEF Entry, Name
<1>9. s # None /\ IsAnnotation(given, s.type)
  BY <1>2, <1>4, <1>6, <1>7, <1>8 DEF Entered, ToAnnotations, Name
<1>10. Extensions' = Extensions /\ AllPlaces' = AllPlaces
  BY <1>5, SamePlaces DEF Extensions
<1>11. definedBy \in [Extensions -> Shape \cup {None}]
  BY DEF TypeOK
<1>12. ToAnnotations'
  BY <1>2, <1>5, <1>9, <1>10, <1>11 DEF ToAnnotations
<1>13. NoneLost'
  BY <1>2, <1>5, <1>9, <1>10, <1>11 DEF NoneLost
<1>14. Entered'
  BY <1>2, <1>5, <1>10 DEF Entered, Entry
<1> QED
  BY <1>12, <1>13, <1>14

\* Every step keeps Linked.
LEMMA LinkedStep ==
    ASSUME TypeOK, Inherited, Linked, [Next]_vars
    PROVE  Linked'
<1>1. Resolving /\ Resolving'
  BY ResolvingStep DEF Linked
<1>2. SUFFICES ASSUME TypeStands' PROVE ToAnnotations' /\ Entered' /\ NoneLost'
  BY <1>1 DEF Linked
<1>3. TypeStands /\ ToAnnotations /\ Entered /\ NoneLost
  BY <1>2, InheritedStep DEF Linked
<1>4. given' = given /\ AllPlaces' = AllPlaces /\ Extensions' = Extensions
  BY OnlyUnwrapType, SamePlaces DEF Extensions
<1>5. CASE UnwrapType
  BY <1>2, <1>3, <1>5, LinkedUnwrapType
<1>6. CASE UnwrapDomainExtension
  BY <1>3, <1>6, LinkedUnwrapExtension
<1>7. CASE ResolveDomainExtension
  <2>1. PICK e, ref : e = Head(todo)
            /\ ref = GetReferenceAnnotationType(given.extensions[e].name, given.extensions[e].at)
    OBVIOUS
  <2>2. phase = "resolve" /\ todo # << >> /\ phase' = phase /\ tables' = tables
    BY <1>7 DEF ResolveDomainExtension
  <2>3. e \in Extensions /\ definedBy \in [Extensions -> Shape \cup {None}]
    BY <2>1, <2>2 DEF TypeOK
  <2>4. ref # None => Own(ref).type = ref /\ IsAnnotation(given, ref)
    BY <2>1, <2>3, ReferenceIsType, ShapeFields
  <2>5. definedBy' = definedBy \/ (ref # None /\ definedBy' = [definedBy EXCEPT ![e] = Own(ref)])
    BY <1>7, <2>1 DEF ResolveDomainExtension
  <2>6. ToAnnotations'
    BY <1>3, <1>4, <2>2, <2>3, <2>4, <2>5 DEF ToAnnotations
  <2> QED
    BY <2>2, <2>6 DEF Entered, NoneLost
<1>8. CASE Resolved
  <2>1. phase = "resolve" /\ todo = << >> /\ UNCHANGED << tables, definedBy >>
        /\ phase' = IF errors = {} THEN "idle" ELSE "refused"
    BY <1>8 DEF Resolved
  <2>2. ToAnnotations'
    BY <1>3, <1>4, <2>1 DEF ToAnnotations
  <2>3. NoneLost'
    <3>1. \A e : Beyond(e)
      BY <2>1 DEF Beyond
    <3>2. errors = {} => \A e \in Extensions : definedBy[e] # None
      BY <1>1, <2>1, <3>1 DEF Resolving
    <3> QED
      BY <1>4, <2>1, <3>2 DEF NoneLost
  <2> QED
    BY <2>1, <2>2, <2>3 DEF Entered
<1>9. CASE NextFragment
  <2>1. phase \in {"unwrap", "validate"} /\ UNCHANGED << tables, definedBy, phase, errors >>
    BY <1>9 DEF NextFragment
  <2>2. ToAnnotations' /\ NoneLost'
    BY <1>3, <1>4, <2>1 DEF ToAnnotations, NoneLost
  <2>3. Entered'
    BY <1>3, <1>4, <1>9, <2>1, PastNext DEF Entered, Entry
  <2> QED
    BY <2>2, <2>3
<1>10. CASE CallUnwrapShapes
  <2>1. phase = "idle" /\ phase' = "unwrap" /\ left' = Locations /\ tables' = NoTables /\ definedBy' = definedBy
    BY <1>10 DEF CallUnwrapShapes
  <2>2. ToAnnotations'
    BY <1>3, <1>4, <2>1 DEF ToAnnotations, NoTables, Tables
  <2>3. NoneLost'
    BY <1>3, <1>4, <2>1 DEF NoneLost
  <2>4. \A p \in AllPlaces : ~Past(p)'
    BY <2>1, PlaceFacts DEF Past
  <2> QED
    BY <1>4, <2>1, <2>2, <2>3, <2>4 DEF Entered
<1>11. CASE TypesUnwrapped
  <2>1. phase = "unwrap" /\ left = {} /\ todo = << >> /\ UNCHANGED << tables, definedBy >>
        /\ ((phase' = "links" /\ errors = {}) \/ phase' = "idle")
    BY <1>11 DEF TypesUnwrapped, FragmentsDone, Returns
  <2>2. ToAnnotations' /\ NoneLost'
    BY <1>3, <1>4, <2>1 DEF ToAnnotations, NoneLost
  <2>3. \A p \in AllPlaces : Past(p)
    BY <2>1 DEF Past
  <2>4. Entered'
    BY <1>3, <1>4, <2>1, <2>3 DEF Entered, Entry
  <2> QED
    BY <2>2, <2>4
<1>12. CASE UNCHANGED vars
  BY <1>3, <1>4, <1>12 DEF vars, ToAnnotations, Entered, Entry, Past, NoneLost
<1>13. CASE \/ CallValidateShapes \/ UnwrapShapesReturns \/ ValidateType \/ ValidateTypeOverflows
            \/ TypesValidated \/ ValidateDomainExtension \/ ValidateShapesReturns
  <2>1. ~Crashes \/ ~ValidateDomainExtension
    BY <1>3 DEF ValidateDomainExtension, NoneLost, TypeOK, Crashes
  <2>2. /\ UNCHANGED << tables, definedBy >>
        /\ phase \notin {"resolve", "refused"}
        /\ phase' \in {"idle", "validate", "overflowed", "values"}
    BY <1>13, <2>1 DEF CallValidateShapes, UnwrapShapesReturns, ValidateType, ValidateTypeOverflows,
       TypesValidated, ValidateDomainExtension, ValidateShapesReturns, Returns
  <2> QED
    BY <1>3, <1>4, <2>2 DEF ToAnnotations, Entered, NoneLost
<1> QED
  BY <1>5, <1>6, <1>7, <1>8, <1>9, <1>10, <1>11, <1>12, <1>13 DEF Next, Over

-----------------------------------------------------------------------------
(* What an annotation refers to *)

\* The type at a place is the annotation type of its fragment and name, and no other.
LEMMA IsOfPlace ==
    ASSUME TypeOK, NEW t \in Types, NEW l \in Locations, NEW n \in Names
    PROVE  Is(given, t, l, n) <=> t \in Declared(l, "annotation", n)
<1>1. PICK g : g = given
  OBVIOUS
<1>2. g \in Models
  BY <1>1 DEF TypeOK
<1>3. t \in Declared(l, "annotation", n) <=>
          /\ given.name[t] = n
          /\ \E i \in DOMAIN given.declared[l]["annotation"] : given.declared[l]["annotation"][i] = t
  BY DEF Declared
<1>4. ASSUME NEW i \in DOMAIN given.declared[l]["annotation"], given.declared[l]["annotation"][i] = t
      PROVE  Location(t) = l
  <2> DEFINE p == [at |-> l, table |-> "annotation", index |-> i]
  <2>1. p \in AllPlaces /\ At(given, p) = t /\ p.at = l
    BY <1>4, PlaceExists DEF At, Tables
  <2> QED
    BY <2>1, LocationIs
<1>5. Is(given, t, l, n) <=>
          /\ Location(t) = l
          /\ given.name[t] = n
          /\ \E i \in DOMAIN given.declared[l]["annotation"] : given.declared[l]["annotation"][i] = t
  BY DEF Is, Location
<1> QED
  BY <1>3, <1>4, <1>5

\* A fragment declares one annotation type of a name.
LEMMA OneOfAName ==
    ASSUME TypeOK, NEW l \in Locations, NEW n \in Names
    PROVE  \A t, u \in Declared(l, "annotation", n) : t = u
<1>1. "annotation" \in Tables /\ given \in Models
  BY DEF Tables, TypeOK
<1>2. \A i, j \in DOMAIN given.declared[l]["annotation"] :
          given.name[given.declared[l]["annotation"][i]] = given.name[given.declared[l]["annotation"][j]] => i = j
  BY <1>1, DeclaredOnce
<1> QED
  BY <1>2 DEF Declared

\* What the reference of an annotation is resolved to is the type that is meant.
LEMMA MeantIs ==
    ASSUME TypeOK, NEW e \in Extensions
    PROVE  LET x == given.extensions[e]
               ref == GetReferenceAnnotationType(x.name, x.at)
           IN  ref # None => ref = MeantIn(given, e)
<1>1. PICK x, g, used : x = given.extensions[e] /\ g = given /\ used = g.uses[x.at][x.name]
  OBVIOUS
<1>2. g \in Models /\ x.name \in Names /\ x.at \in Locations
      /\ (used # None => used.at \in Locations /\ used.name \in Names)
  BY <1>1, ExtensionFacts DEF TypeOK, Extensions
<1>3. PICK ref : ref = GetReferenceAnnotationType(x.name, x.at)
  OBVIOUS
<1>4. SUFFICES ASSUME ref # None PROVE ref = MeantIn(given, e)
  BY <1>1, <1>3
<1>5. PICK Here, There : Here = Declared(x.at, "annotation", x.name)
                         /\ There = Declared(used.at, "annotation", used.name)
  OBVIOUS
<1>6. ref \in Types
  BY <1>1, <1>3, <1>4, ReferenceIsType
<1>7. /\ g.isLibrary[x.at] /\ Here # {} => ref \in Here
      /\ ~(g.isLibrary[x.at] /\ Here # {}) => used # None /\ ref \in There
  BY <1>1, <1>2, <1>3, <1>4, <1>5, ReferenceType
<1>8. /\ \A t \in Types : Is(g, t, x.at, x.name) <=> t \in Here
      /\ used # None => \A t \in Types : Is(g, t, used.at, used.name) <=> t \in There
  BY <1>1, <1>2, <1>5, IsOfPlace
<1>9. (\A t \in Here : t \in Types) /\ (\A t, u \in Here : t = u)
      /\ (used # None => \A t, u \in There : t = u)
  <2>1. (\A t \in Here : t \in Types) /\ (\A t, u \in Here : t = u)
    BY <1>1, <1>2, <1>5, DeclaredAre, OneOfAName
  <2>2. CASE used # None
    <3>1. \A t, u \in There : t = u
      BY <1>2, <1>5, <2>2, OneOfAName
    <3> QED
      BY <2>1, <3>1
  <2> QED
    BY <2>1, <2>2
<1> DEFINE P(t) == \/ g.isLibrary[x.at] /\ Is(g, t, x.at, x.name)
                   \/ /\ ~\E u \in Types : g.isLibrary[x.at] /\ Is(g, u, x.at, x.name)
                      /\ used # None /\ Is(g, t, used.at, used.name)
<1>10. \A t \in Types : P(t) <=> t = ref
  <2>1. CASE g.isLibrary[x.at] /\ Here # {}
    BY <1>6, <1>7, <1>8, <1>9, <2>1
  <2>2. CASE ~(g.isLibrary[x.at] /\ Here # {})
    BY <1>6, <1>7, <1>8, <1>9, <2>2
  <2> QED
    BY <2>1, <2>2
<1>11. MeantIn(given, e) = CHOOSE t \in Types : P(t)
  BY <1>1 DEF MeantIn
<1> HIDE DEF P
<1> QED
  BY <1>6, <1>10, <1>11

\* UnwrapType enters a type that stands under its own name.
LEMMA NamedUnwrapType ==
    ASSUME TypeOK, Standing, ToMeant, Entries, UnwrapType, Standing'
    PROVE  ToMeant' /\ Entries'
<1>1. PICK p, t, u, g, d : p = Head(todo) /\ t = Slot(p).type /\ u = UnwrapShape[t] /\ g = given
                           /\ d = At(given, p)
  OBVIOUS
<1>2. /\ p \in AllPlaces /\ Slot(p) \in Shape /\ u.shape \in Shape
      /\ given' = given /\ definedBy' = definedBy
      /\ (\E s \in Shape : Put(p, s)) \/ UNCHANGED << slots, tables >>
  BY <1>1, UnwrapTypeCases DEF heap
<1>3. Extensions' = Extensions
  BY <1>2 DEF Extensions
<1>4. ToMeant'
  BY <1>2, <1>3 DEF ToMeant
<1>5. CASE UNCHANGED << slots, tables >>
  BY <1>2, <1>4, <1>5 DEF Entries
<1>6. CASE \E s \in Shape : Put(p, s)
  <2>1. PICK s \in Shape : Put(p, s)
    BY <1>6
  <2>2. d \in Types /\ s = Own(d) /\ Slot(p) = Own(d)
    BY <1>1, <1>2, <2>1, PutStands, PlaceFacts DEF Standing, Slot
  <2>3. s.type = d /\ Slot(p).type = d
    BY <2>2, ShapeFields
  <2>4. \A l \in Locations, n \in Names :
            tables'["annotation"][l][n] =
               IF p.table = "annotation" /\ l = p.at /\ n = g.name[d]
               THEN Own(d) ELSE tables["annotation"][l][n]
    BY <1>1, <1>2, <2>1, <2>2, <2>3, PutEntries
  <2>5. p.table = "annotation" => p.index \in DOMAIN g.declared[p.at]["annotation"]
                                  /\ g.declared[p.at]["annotation"][p.index] = d
    BY <1>1, <1>2, PlaceFacts DEF At
  <2>6. ASSUME NEW l \in Locations, NEW n \in Names, tables'["annotation"][l][n] # None
        PROVE  \E i \in DOMAIN g.declared[l]["annotation"] :
                  LET x == g.declared[l]["annotation"][i]
                  IN  g.name[x] = n /\ tables'["annotation"][l][n] = Own(x)
    <3>1. CASE p.table = "annotation" /\ l = p.at /\ n = g.name[d]
      BY <2>4, <2>5, <3>1
    <3>2. CASE ~(p.table = "annotation" /\ l = p.at /\ n = g.name[d])
      <4>1. tables'["annotation"][l][n] = tables["annotation"][l][n]
        BY <2>4, <3>2
      <4> QED
        BY <1>1, <2>6, <4>1 DEF Entries
    <3> QED
      BY <3>1, <3>2
  <2>7. Entries'
    BY <1>1, <1>2, <2>6 DEF Entries
  <2> QED
    BY <1>4, <2>7
<1> QED
  BY <1>2, <1>5, <1>6

\* Every step keeps Named.
LEMMA NamedStep ==
    ASSUME TypeOK, Inherited, Linked, Named, [Next]_vars
    PROVE  Named'
<1>1. SUFFICES ASSUME Standing' PROVE ToMeant' /\ Entries'
  BY DEF Named
<1>2. Standing /\ ToMeant /\ Entries
  BY <1>1, InheritedStep DEF Named
<1>3. given' = given /\ Extensions' = Extensions
  BY OnlyUnwrapType DEF Extensions
<1>4. CASE UnwrapType
  BY <1>1, <1>2, <1>4, NamedUnwrapType
<1>5. CASE ResolveDomainExtension
  <2>1. PICK e, ref : e = Head(todo)
            /\ ref = GetReferenceAnnotationType(given.extensions[e].name, given.extensions[e].at)
    OBVIOUS
  <2>2. phase = "resolve" /\ todo # << >> /\ tables' = tables
    BY <1>5 DEF ResolveDomainExtension
  <2>3. e \in Extensions /\ definedBy \in [Extensions -> Shape \cup {None}]
    BY <2>1, <2>2 DEF TypeOK
  <2>4. ref # None => ref = MeantIn(given, e)
    BY <2>1, <2>3, MeantIs
  <2>5. definedBy' = definedBy \/ (ref # None /\ definedBy' = [definedBy EXCEPT ![e] = Own(ref)])
    BY <1>5, <2>1 DEF ResolveDomainExtension
  <2>6. ToMeant'
    BY <1>2, <1>3, <2>3, <2>4, <2>5 DEF ToMeant
  <2> QED
    BY <1>2, <1>3, <2>2, <2>6 DEF Entries
<1>6. CASE UnwrapDomainExtension
  <2>1. PICK e, db : e = Head(todo) /\ db = definedBy[e]
    OBVIOUS
  <2>2. phase = "links" /\ todo # << >> /\ todo \in Seq(Extensions) /\ e \in Extensions
    BY <1>6, <2>1 DEF UnwrapDomainExtension, TypeOK
  <2>3. TypeStands /\ ToAnnotations
    BY <1>2, StandingTypes DEF Linked
  <2>4. CASE db = None
    <3>1. UNCHANGED << tables, definedBy >>
      BY <1>6, <2>1, <2>4 DEF UnwrapDomainExtension, Crashes
    <3> QED
      BY <1>2, <1>3, <3>1 DEF ToMeant, Entries
  <2>5. CASE db # None
    <3>1. PICK s, m : s = tables["annotation"][Location(db.type)][Name(db)] /\ m = MeantIn(given, e)
      OBVIOUS
    <3>2. definedBy' = [definedBy EXCEPT ![e] = s] /\ tables' = tables
      BY <1>6, <2>1, <2>5, <3>1 DEF UnwrapDomainExtension
    <3>3. db = Own(m) /\ db.type = m
      <4>1. db = Own(m)
        BY <1>2, <2>1, <2>2, <2>5, <3>1 DEF ToMeant
      <4> QED
        BY <4>1 DEF Own
    <3>4. PICK p \in AllPlaces : p.table = "annotation" /\ At(given, p) = m /\ Location(m) = p.at
      BY <2>1, <2>2, <2>3, <2>5, <3>3, AnnotationPlace DEF ToAnnotations
    <3>5. p.at \in Locations /\ m \in Types /\ given.name[m] \in Names
          /\ p.index \in DOMAIN given.declared[p.at]["annotation"]
          /\ given.declared[p.at]["annotation"][p.index] = m
      BY <3>4, PlaceFacts, ModelFacts DEF TypeOK, At
    <3>6. s # None => s = Own(m)
      <4>1. SUFFICES ASSUME s # None PROVE s = Own(m)
        OBVIOUS
      <4>2. PICK i \in DOMAIN given.declared[p.at]["annotation"] :
                given.name[given.declared[p.at]["annotation"][i]] = given.name[m]
                /\ s = Own(given.declared[p.at]["annotation"][i])
        BY <1>2, <3>1, <3>3, <3>4, <3>5, <4>1 DEF Entries, Name
      <4>3. i = p.index
        <5>1. "annotation" \in Tables /\ given \in Models
          BY DEF Tables, TypeOK
        <5>2. \A j, k \in DOMAIN given.declared[p.at]["annotation"] :
                  given.name[given.declared[p.at]["annotation"][j]] = given.name[given.declared[p.at]["annotation"][k]]
                     => j = k
          BY <3>5, <5>1, DeclaredOnce
        <5> QED
          BY <3>5, <4>2, <5>2
      <4> QED
        BY <3>5, <4>2, <4>3
    <3>7. definedBy \in [Extensions -> Shape \cup {None}]
      BY DEF TypeOK
    <3>8. ToMeant'
      BY <1>2, <1>3, <2>2, <3>1, <3>2, <3>6, <3>7 DEF ToMeant
    <3> QED
      BY <1>2, <1>3, <3>2, <3>8 DEF Entries
  <2> QED
    BY <2>4, <2>5
<1>7. CASE CallUnwrapShapes
  <2>1. tables' = NoTables /\ definedBy' = definedBy
    BY <1>7 DEF CallUnwrapShapes
  <2> QED
    BY <1>2, <1>3, <2>1 DEF ToMeant, Entries, NoTables, Tables
<1>8. CASE ~UnwrapType /\ ~ResolveDomainExtension /\ ~UnwrapDomainExtension /\ ~CallUnwrapShapes
  <2>1. UNCHANGED << tables, definedBy >>
    BY <1>8 DEF Next, vars, Resolved, CallValidateShapes, NextFragment, TypesUnwrapped, UnwrapShapesReturns,
       ValidateType, ValidateTypeOverflows, TypesValidated, ValidateDomainExtension, ValidateShapesReturns,
       Over, Crashes
  <2> QED
    BY <1>2, <1>3, <2>1 DEF ToMeant, Entries
<1> QED
  BY <1>4, <1>5, <1>6, <1>7, <1>8

-----------------------------------------------------------------------------
(* What is merged *)

\* Lines with the same fields are the same.
LEMMA SameLine ==
    ASSUME NEW l \in Lines, NEW k \in Lines, l.sets = k.sets, l.offers = k.offers
    PROVE  l = k
BY DEF Lines

\* The full facets of a type are facets.
LEMMA FullType ==
    ASSUME NEW g \in Models, NEW t \in Types
    PROVE  Full(g, t) \in Lines
<1>1. \A a \in {t} \cup Above(g)[t] : a \in Types /\ g.sets[a] \subseteq FacetNames /\ g.defines[a] \subseteq FacetNames
  BY AboveAt, ModelFacts
<1> QED
  BY <1>1 DEF Full, Lines

\* A type that leads to itself is not replaced by its parent.
LEMMA OwnMerges ==
    ASSUME TypeOK, NEW x \in Types, x \notin flagged, given.parent[x] # None,
           UnwrapShape[x].shape.type = x
    PROVE  ~Skips(UnwrapShape[given.parent[x]])
<1>1. PICK g, p : g = given /\ p = given.parent[x]
  OBVIOUS
<1>2. g \in Models /\ p \in Types /\ UnwrapShape[x] = Onto(x, UnwrapShape[p])
  BY <1>1, ParentFacts, UnwrapShapeAt DEF TypeOK
<1>3. Above(g)[x] = {p} \cup Above(g)[p]
  BY <1>1, <1>2, AboveAt
<1>4. UnwrapShape[p].shape.type \in Above(g)[x]
  BY <1>1, <1>2, <1>3, UnwrapShapeLeads
<1>5. x \notin Above(g)[x]
  BY <1>2, NotAboveItself
<1>6. Skips(UnwrapShape[p]) => UnwrapShape[x] = UnwrapShape[p]
  BY <1>2 DEF Onto
<1> QED
  BY <1>1, <1>4, <1>5, <1>6

\* The line of a type that was merged with one that has all its own.
LEMMA LineGrows ==
    ASSUME TypeOK, NEW x \in Types, x \notin flagged, given.parent[x] # None,
           UnwrapShape[x].shape.type = x, UnwrapShape[x].ok,
           LET p == given.parent[x] IN
              UnwrapShape[p].shape.type = p /\ UnwrapShape[p].line = Full(given, p) /\ ~Failing(given)[p]
    PROVE  /\ UnwrapShape[x].line = Full(given, x) /\ ~Failing(given)[x]
           /\ Line(x, UnwrapShape[given.parent[x]]) = Full(given, x)
<1>1. PICK g, p, u : g = given /\ p = given.parent[x] /\ u = UnwrapShape[p]
  OBVIOUS
<1>2. g \in Models /\ p \in Types /\ u \in Outcome /\ UnwrapShape[x] = Onto(x, u) /\ ~Skips(u)
  BY <1>1, ParentFacts, UnwrapShapeAt, OwnMerges DEF TypeOK
<1>3. /\ u.ok /\ x \notin g.clashes
      /\ UnwrapShape[x].line = Line(x, u)
      /\ UnwrapShape[x].line.sets = g.sets[x] \cup u.line.sets
      /\ UnwrapShape[x].line.offers = g.defines[u.shape.type] \cup u.line.offers
  <2>1. PICK o : o = Onto(x, u)
    OBVIOUS
  <2>2. /\ o.ok <=> (u.ok /\ x \notin given.clashes)
        /\ o.line = Line(x, u)
        /\ o.line.sets = given.sets[x] \cup IF u.ok THEN u.line.sets ELSE {}
        /\ o.line.offers = given.defines[u.shape.type] \cup u.line.offers
    BY <1>2, <2>1, OntoMerges
  <2>3. UnwrapShape[x] = o /\ o.ok
    BY <1>2, <2>1
  <2> QED
    BY <1>1, <2>2, <2>3
<1>4. u.shape.type = p /\ u.line = Full(g, p) /\ ~Failing(g)[p]
  BY <1>1
<1>5. ~Failing(g)[x]
  BY <1>1, <1>2, <1>3, <1>4, FailingAt
<1>6. Full(g, x).sets = g.sets[x] \cup Full(g, p).sets /\ Full(g, x).offers = g.defines[p] \cup Full(g, p).offers
  BY <1>1, <1>2, FullAt
<1>7. UnwrapShape[x].line \in Lines /\ Full(g, x) \in Lines
  BY <1>2, UnwrapShapeAt, OutcomeFields, FullType
<1>8. UnwrapShape[x].line = Full(g, x)
  <2>1. PICK l, k : l = UnwrapShape[x].line /\ k = Full(g, x)
    OBVIOUS
  <2>2. l \in Lines /\ k \in Lines /\ l.sets = k.sets /\ l.offers = k.offers
    BY <1>3, <1>4, <1>6, <1>7, <2>1
  <2> QED
    BY <2>1, <2>2, SameLine
<1> QED
  BY <1>1, <1>3, <1>5, <1>8

\* Unwrapping a type in place keeps Merged: what it reaches gets its full facets or is lost.
LEMMA MergedUnwrap ==
    ASSUME TypeOK, Merged, NEW t \in Types, UnwrapInPlace(t), given' = given
    PROVE  Merged'
<1>1. PICK g, R, o : g = given /\ R = Reaches[t] /\ o = UnwrapShape
  OBVIOUS
<1>2. g \in Models /\ R \subseteq Types /\ o \in [Types -> Outcome]
  BY <1>1, ReachesAt, UnwrapShapeAt DEF TypeOK
<1>3. /\ flagged' = flagged \cup R
      /\ merged' = merged \cup {o[c].shape : c \in {c \in R : o[c].ok /\ o[c].whole}}
      /\ \A x \in Types : facets'[x] = IF x \notin R \/ g.parent[x] = None THEN facets[x]
                                       ELSE Line(x, o[g.parent[x]])
  BY <1>1 DEF UnwrapInPlace
<1>4. /\ \A x \in Types : Own(x) \in merged => x \in flagged
      /\ \A x \in Types : g.parent[x] = None => facets[x] = Full(g, x)
      /\ ~Lost => \A a \in flagged : facets[a] = Full(g, a) /\ ~Failing(g)[a]
  BY <1>1 DEF Merged
<1>5. ASSUME NEW x \in Types, Own(x) \in merged', Own(x) \notin merged
      PROVE  o[x].shape = Own(x) /\ o[x].ok /\ o[x].whole /\ (x \notin flagged => x \in R)
  <2>1. PICK c \in R : o[c].ok /\ o[c].whole /\ o[c].shape = Own(x)
    BY <1>3, <1>5
  <2>2. o[c].shape.type = x /\ ~o[c].shape.copy /\ c \in Types
    BY <1>2, <2>1, ShapeFields
  <2>3. o[x] = o[c] /\ (x \notin flagged => x \in Reaches[c])
    BY <1>1, <2>2, UnwrapShapeLeads
  <2>4. Reaches[c] \subseteq R
    BY <1>1, ReachedLeads
  <2> QED
    BY <2>1, <2>3, <2>4
<1>6. \A x \in Types : Own(x) \in merged' => x \in flagged'
  BY <1>3, <1>4, <1>5
<1>7. \A x \in Types : g.parent[x] = None => facets'[x] = Full(g, x)
  BY <1>3, <1>4
<1>8. ASSUME \A a \in flagged' : Own(a) \in merged', NEW a \in flagged'
      PROVE  facets'[a] = Full(g, a) /\ ~Failing(g)[a]
  <2>1. flagged \subseteq Types
    BY DEF TypeOK
  <2>2. ASSUME NEW x \in flagged PROVE Own(x) \in merged
    <3>1. SUFFICES ASSUME Own(x) \notin merged PROVE FALSE
      OBVIOUS
    <3>2. x \in Types /\ Own(x) \in merged'
      BY <1>3, <1>8, <2>1
    <3>3. o[x].whole
      BY <1>5, <3>1, <3>2
    <3>4. o[x] = AsItIs(x)
      BY <1>1, <3>2, UnwrapShapeAt
    <3> QED
      BY <3>1, <3>2, <3>3, <3>4, AsItIsType
  <2>3. \A x \in flagged : facets[x] = Full(g, x) /\ ~Failing(g)[x]
    BY <1>4, <2>2 DEF Lost
  <2>4. ASSUME NEW x \in R
        PROVE  x \in Types /\ x \notin flagged /\ o[x].shape = Own(x) /\ o[x].shape.type = x /\ o[x].ok
    <3>1. x \in Types /\ x \notin flagged
      BY <1>1, ReachesUp
    <3>2. Own(x) \notin merged /\ Own(x) \in merged'
      BY <1>3, <1>4, <1>8, <3>1
    <3> QED
      BY <1>5, <3>1, <3>2, ShapeFields
  <2>5. ASSUME NEW x \in R, g.parent[x] # None,
               g.parent[x] \in R =>
                  o[g.parent[x]].line = Full(g, g.parent[x]) /\ ~Failing(g)[g.parent[x]]
        PROVE  o[x].line = Full(g, x) /\ ~Failing(g)[x] /\ Line(x, o[g.parent[x]]) = Full(g, x)
    <3>1. PICK p : p = g.parent[x]
      OBVIOUS
    <3>2. p \in Types /\ p \in flagged \cup R
      BY <1>1, <1>2, <2>4, <2>5, <3>1, ReachesUp, ParentFacts
    <3>3. o[p].shape.type = p /\ o[p].line = Full(g, p) /\ ~Failing(g)[p]
      <4>1. CASE p \in flagged
        <5>1. o[p] = AsItIs(p)
          BY <1>1, <3>2, <4>1, UnwrapShapeAt
        <5> QED
          BY <2>3, <3>2, <4>1, <5>1, AsItIsType, ShapeFields
      <4>2. CASE p \in R
        BY <2>4, <2>5, <3>1, <4>2
      <4> QED
        BY <3>2, <4>1, <4>2
    <3> QED
      BY <1>1, <2>4, <2>5, <3>1, <3>3, LineGrows
  <2>6. \A x \in R : o[x].line = Full(g, x) /\ ~Failing(g)[x]
    <3> DEFINE S == {x \in Types : x \in R => o[x].line = Full(g, x) /\ ~Failing(g)[x]}
    <3>1. ASSUME NEW x \in Types, g.parent[x] = None \/ g.parent[x] \in S PROVE x \in S
      <4>1. SUFFICES ASSUME x \in R PROVE o[x].line = Full(g, x) /\ ~Failing(g)[x]
        OBVIOUS
      <4>2. CASE g.parent[x] = None
        <5>1. o[x] = AsItIs(x)
          BY <1>1, <4>2, UnwrapShapeAt
        <5> QED
          BY <1>2, <1>4, <4>2, <5>1, AsItIsType, FailingAt
      <4>3. CASE g.parent[x] # None
        BY <2>5, <3>1, <4>1, <4>3
      <4> QED
        BY <4>2, <4>3
    <3>2. TopDown(g.parent)
      BY <1>2, ParentFacts
    <3>3. Types \subseteq S
      <4> HIDE DEF S
      <4> QED
        BY <3>1, <3>2, FromTheTop
    <3> QED
      BY <1>2, <3>3
  <2>7. CASE a \in R
    <3>1. a \in Types
      BY <1>2, <2>7
    <3>2. CASE g.parent[a] = None
      BY <1>7, <2>6, <2>7, <3>1, <3>2
    <3>3. CASE g.parent[a] # None
      <4>1. Line(a, o[g.parent[a]]) = Full(g, a)
        BY <2>5, <2>6, <2>7, <3>3
      <4> QED
        BY <1>3, <2>6, <2>7, <3>1, <3>3, <4>1
    <3> QED
      BY <3>2, <3>3
  <2>8. CASE a \notin R
    BY <1>3, <2>1, <2>3, <2>8
  <2> QED
    BY <2>7, <2>8
<1> QED
  BY <1>1, <1>6, <1>7, <1>8 DEF Merged, Lost

\* Every step keeps Merged.
LEMMA MergedStep ==
    ASSUME TypeOK, Merged, [Next]_vars
    PROVE  Merged'
<1>1. given' = given /\ (UnwrapType \/ UNCHANGED heap)
  BY OnlyUnwrapType
<1>2. CASE UNCHANGED heap
  BY <1>1, <1>2 DEF heap, Merged, Lost
<1>3. CASE UnwrapType /\ ~UNCHANGED heap
  <2>1. PICK t \in Types : UnwrapInPlace(t)
    BY <1>3, UnwrapTypeCases
  <2> QED
    BY <1>1, <2>1, MergedUnwrap
<1> QED
  BY <1>1, <1>2, <1>3

-----------------------------------------------------------------------------
(* Calls, and what each of them starts from *)

CallType == [call : {"unwrap", "validate"}, ok : BOOLEAN]

\* A sequence with one element more.
LEMMA AppendOne ==
    ASSUME NEW R, NEW q \in Seq(R), NEW c \in R
    PROVE  LET a == Append(q, c) IN
           /\ Len(q) \in Nat /\ DOMAIN q = 1..Len(q)
           /\ Len(a) = Len(q) + 1 /\ a # << >>
           /\ DOMAIN a = 1..(Len(q) + 1)
           /\ a[Len(q) + 1] = c
           /\ \A i \in DOMAIN q : a[i] = q[i]
OBVIOUS

\* The calls that have returned before and after a step.
LEMMA CallsGrow ==
    ASSUME TypeOK, [Next]_vars
    PROVE  \/ calls' = calls /\ ~TypesUnwrapped
           \/ calls' = calls /\ TypesUnwrapped /\ phase' = "links" /\ errors = {}
           \/ TypesUnwrapped /\ errors # {} /\ Returns("unwrap")
           \/ UnwrapShapesReturns
           \/ ValidateShapesReturns
BY DEF Next, vars, ResolveDomainExtension, Resolved, CallUnwrapShapes, CallValidateShapes, NextFragment,
       UnwrapType, TypesUnwrapped, UnwrapDomainExtension, ValidateType,
       ValidateTypeOverflows, TypesValidated, ValidateDomainExtension, Over, Crashes

\* The calls after one of them returned.
LEMMA ReturnedCall ==
    ASSUME TypeOK, NEW c \in {"unwrap", "validate"}, Returns(c)
    PROVE  /\ calls \in Seq(CallType) /\ [call |-> c, ok |-> errors = {}] \in CallType
           /\ calls' = Append(calls, [call |-> c, ok |-> errors = {}])
           /\ Len(calls) \in Nat /\ DOMAIN calls = 1..Len(calls)
           /\ DOMAIN calls' = 1..(Len(calls) + 1)
           /\ calls'[Len(calls) + 1].call = c /\ (calls'[Len(calls) + 1].ok <=> errors = {})
           /\ \A i \in DOMAIN calls : calls'[i] = calls[i]
           /\ Len(calls') = Len(calls) + 1 /\ calls' # << >>
<1>1. PICK r : r = [call |-> c, ok |-> errors = {}]
  OBVIOUS
<1>2. r \in CallType /\ r.call = c /\ (r.ok <=> errors = {})
  BY <1>1 DEF CallType
<1>3. calls \in Seq(CallType) /\ calls' = Append(calls, r)
  BY <1>1 DEF TypeOK, Returns, CallType
<1>4. LET a == Append(calls, r) IN
      /\ Len(calls) \in Nat /\ DOMAIN calls = 1..Len(calls)
      /\ Len(a) = Len(calls) + 1 /\ a # << >>
      /\ DOMAIN a = 1..(Len(calls) + 1)
      /\ a[Len(calls) + 1] = r
      /\ \A i \in DOMAIN calls : a[i] = calls[i]
  BY <1>2, <1>3, AppendOne
<1> QED
  BY <1>1, <1>2, <1>3, <1>4

\* Where no UnwrapShapes returned by a step, none returned before or in it.
LEMMA NoUnwrapsBefore ==
    ASSUME TypeOK, [Next]_vars, NoUnwraps'
    PROVE  /\ NoUnwraps
           /\ ~UnwrapShapesReturns
           /\ ~(TypesUnwrapped /\ errors # {})
<1>1. ASSUME NEW c \in {"unwrap", "validate"}, Returns(c) PROVE NoUnwraps /\ c # "unwrap"
  <2>1. /\ Len(calls) \in Nat /\ DOMAIN calls = 1..Len(calls) /\ DOMAIN calls' = 1..(Len(calls) + 1)
        /\ calls'[Len(calls) + 1].call = c
        /\ \A i \in DOMAIN calls : calls'[i] = calls[i]
    BY <1>1, ReturnedCall
  <2>2. Len(calls) + 1 \in DOMAIN calls' /\ \A i \in DOMAIN calls : i \in DOMAIN calls'
    BY <2>1
  <2> QED
    BY <2>1, <2>2 DEF NoUnwraps
<1>2. CASE calls' = calls
  <2>1. NoUnwraps
    BY <1>2 DEF NoUnwraps
  <2>2. ~Returns("unwrap")
    BY <1>1
  <2> QED
    BY <2>1, <2>2 DEF UnwrapShapesReturns, TypesUnwrapped
<1>3. CASE TypesUnwrapped /\ errors # {} /\ Returns("unwrap")
  BY <1>1, <1>3
<1>4. CASE UnwrapShapesReturns
  BY <1>1, <1>4 DEF UnwrapShapesReturns
<1>5. CASE ValidateShapesReturns
  <2>1. NoUnwraps /\ phase = "values"
    BY <1>1, <1>5 DEF ValidateShapesReturns
  <2> QED
    BY <2>1 DEF UnwrapShapesReturns, TypesUnwrapped
<1> QED
  BY <1>2, <1>3, <1>4, <1>5, CallsGrow

\* Every step keeps Clean.
LEMMA CleanStep ==
    ASSUME TypeOK, Clean, [Next]_vars
    PROVE  Clean'
<1>1. CASE UnwrapType
  BY <1>1 DEF UnwrapType, Clean
<1>2. CASE ~UnwrapType
  BY <1>2 DEF Clean, Next, vars, ResolveDomainExtension, Resolved, CallUnwrapShapes, CallValidateShapes, NextFragment,
       TypesUnwrapped, UnwrapDomainExtension, UnwrapShapesReturns, ValidateType,
       ValidateTypeOverflows, TypesValidated, ValidateDomainExtension, ValidateShapesReturns, Over,
       Returns, Crashes
<1> QED
  BY <1>1, <1>2

\* No UnwrapShapes is under way.
Before == phase \notin {"unwrap", "links", "crashed"}

\* Where no UnwrapShapes returned, one that is under way stays so.
LEMMA BeforeStep ==
    ASSUME TypeOK, [Next]_vars, NoUnwraps', Before'
    PROVE  Before
<1>1. ~UnwrapShapesReturns /\ ~(TypesUnwrapped /\ errors # {})
  BY NoUnwrapsBefore
<1> QED
  BY <1>1 DEF Before, Next, vars, ResolveDomainExtension, Resolved, CallUnwrapShapes, CallValidateShapes, NextFragment,
       UnwrapType, TypesUnwrapped, UnwrapDomainExtension, ValidateType,
       ValidateTypeOverflows, TypesValidated, ValidateDomainExtension, ValidateShapesReturns, Over,
       Crashes

\* Nothing is unwrapped in place by a step that leaves the heap alone.
LEMMA QuietSame ==
    ASSUME UNCHANGED << given, slots, heap >>, Quiet
    PROVE  Quiet'
BY SlotsSame DEF Quiet, heap

\* Every step keeps Untouched: only UnwrapShapes changes a type, and Check follows a
\* cycle for ever only after one that failed.
LEMMA UntouchedStep ==
    ASSUME TypeOK, Untouched, [Next]_vars
    PROVE  Untouched'
<1>1. ASSUME NoUnwraps', Before' PROVE Quiet'
  <2>1. Quiet
    BY <1>1, NoUnwrapsBefore, BeforeStep DEF Untouched, Before
  <2>2. ~UnwrapType
    BY <1>1 DEF UnwrapType, Before
  <2> QED
    BY <2>1, <2>2, OnlyUnwrapType, QuietSame
<1>2. ASSUME phase' = "overflowed"
      PROVE  \E i \in DOMAIN calls' : calls'[i].call = "unwrap" /\ ~calls'[i].ok
  <2>1. CASE ValidateTypeOverflows
    <3>1. PICK p : p = Head(todo)
      OBVIOUS
    <3>2. phase = "validate" /\ todo # << >> /\ Unmarked(Slot(p)) /\ calls' = calls
      BY <2>1, <3>1 DEF ValidateTypeOverflows, Slot
    <3>3. p \in AllPlaces
      BY <3>1, <3>2 DEF TypeOK
    <3>4. SUFFICES ASSUME \A i \in DOMAIN calls : calls[i].call = "unwrap" => calls[i].ok PROVE FALSE
      BY <3>2
    <3>5. NoUnwraps
      BY <3>2, <3>4 DEF NoUnwraps, Unmarked
    <3>6. Quiet
      BY <3>2, <3>5 DEF Untouched
    <3>7. Slot(p) = Own(At(given, p)) /\ flagged = {}
      BY <3>3, <3>6 DEF Quiet, Standing, Slot
    <3>8. ~IsUnwrapped(Slot(p))
      BY <3>3, <3>7, PlaceFacts, ShapeFields DEF IsUnwrapped
    <3> QED
      BY <3>2, <3>8 DEF Unmarked
  <2>2. CASE ~ValidateTypeOverflows
    <3>1. phase = "overflowed" /\ calls' = calls
      BY <1>2, <2>2 DEF Next, vars, ResolveDomainExtension, Resolved, CallUnwrapShapes, CallValidateShapes,
         NextFragment, UnwrapType, TypesUnwrapped, UnwrapDomainExtension, UnwrapShapesReturns, ValidateType,
         TypesValidated, ValidateDomainExtension, ValidateShapesReturns, Over, Returns, Crashes
    <3> QED
      BY <3>1 DEF Untouched
  <2> QED
    BY <2>1, <2>2
<1> QED
  BY <1>1, <1>2 DEF Untouched, Before

-----------------------------------------------------------------------------
(* The first UnwrapShapes: UnwrapFindsClashes *)

\* Without visited types no type is replaced, and one that cannot be merged is not.
LEMMA OkUnlessFailing ==
    ASSUME TypeOK, visited = {}, \A a \in flagged : ~Failing(given)[a], NEW x \in Types
    PROVE  /\ UnwrapShape[x].ok <=> ~Failing(given)[x]
           /\ UnwrapShape[x].shape.type = x
           /\ (\A t \in Types : given.form[t] = "plain") => UnwrapShape[x].shape = Own(x)
<1>1. PICK g, o : g = given /\ o = UnwrapShape
  OBVIOUS
<1>2. g \in Models /\ o \in [Types -> Outcome] /\ TopDown(g.parent)
  BY <1>1, UnwrapShapeAt, ParentFacts DEF TypeOK
<1> DEFINE Good(t) == /\ o[t].ok <=> ~Failing(g)[t]
                      /\ o[t].shape.type = t
                      /\ (\A a \in Types : g.form[a] = "plain") => o[t].shape = Own(t)
           S == {t \in Types : Good(t)}
<1>3. ASSUME NEW t \in Types, g.parent[t] = None \/ g.parent[t] \in S PROVE Good(t)
  <2>1. CASE t \in flagged \/ g.parent[t] = None
    <3>1. o[t] = AsItIs(t)
      BY <1>1, <2>1, UnwrapShapeAt
    <3>2. ~Failing(g)[t]
      BY <1>1, <1>2, <2>1, FailingAt
    <3> QED
      BY <3>1, <3>2, AsItIsType, ShapeFields
  <2>2. CASE t \notin flagged /\ g.parent[t] # None
    <3>1. PICK p, u : p = g.parent[t] /\ u = o[p]
      OBVIOUS
    <3>2. p \in Types /\ u \in Outcome /\ o[t] = Onto(t, u) /\ Good(p)
      BY <1>1, <1>2, <1>3, <2>2, <3>1, ParentFacts, UnwrapShapeAt
    <3>3. ~Skips(u)
      BY DEF Skips
    <3>4. /\ o[t].ok <=> (u.ok /\ t \notin g.clashes)
          /\ o[t].shape = IF g.form[u.shape.type] = "union" THEN Copy(t) ELSE Own(t)
      BY <1>1, <3>2, <3>3, OntoMerges
    <3>5. o[t].ok <=> ~Failing(g)[t]
      BY <1>2, <2>2, <3>1, <3>2, <3>4, FailingAt
    <3>6. u.shape.type = p
      BY <3>1, <3>2
    <3> QED
      BY <3>2, <3>4, <3>5, <3>6, ShapeFields
  <2> QED
    BY <2>1, <2>2
<1>4. Types \subseteq S
  <2>1. ASSUME NEW t \in Types, g.parent[t] = None \/ g.parent[t] \in S PROVE t \in S
    BY <1>3, <2>1
  <2> HIDE DEF S
  <2> QED
    BY <1>2, <2>1, FromTheTop
<1> QED
  BY <1>1, <1>4

\* UnwrapType of a plain model flags the type and all above it, or meets one that
\* cannot be merged.
LEMMA SoFarGoodUnwrap ==
    ASSUME TypeOK, AllPlain, SoFarGood, UnwrapType
    PROVE  \/ SoFarGood' /\ errors' = errors
           \/ errors' # {} /\ \E t \in Types : Failing(given)[t]
<1>1. PICK p, t, u, g, d : p = Head(todo) /\ t = Slot(p).type /\ u = UnwrapShape[t] /\ g = given
                           /\ d = At(given, p)
  OBVIOUS
<1>2. /\ p \in AllPlaces /\ g \in Models /\ given' = given /\ left' = left
      /\ todo # << >> /\ todo \in Seq(AllPlaces) /\ todo' = Tail(todo)
  BY <1>1, UnwrapTypeCases DEF TypeOK
<1>3. d \in Types /\ Slot(p) = Own(d) /\ t = d /\ ~Slot(p).copy
  <2>1. d \in Types
    BY <1>1, <1>2, PlaceFacts
  <2>2. Slot(p) = Own(d)
    BY <1>1, <1>2 DEF SoFarGood, Standing, Slot
  <2> QED
    BY <1>1, <2>1, <2>2, ShapeFields
<1>4. /\ UnwrapInPlace(d)
      /\ \/ u.ok /\ Put(p, u.shape) /\ UNCHANGED errors
         \/ ~u.ok /\ errors' = errors \cup {<< "type", d >>}
  BY <1>1, <1>3, UnwrapTypeCases
<1>5. (u.ok <=> ~Failing(g)[d]) /\ u.shape = Own(d)
  BY <1>1, <1>3, OkUnlessFailing DEF SoFarGood, AllPlain
<1>6. CASE ~u.ok
  BY <1>1, <1>3, <1>4, <1>5, <1>6
<1>7. CASE u.ok
  <2>1. Put(p, Own(d)) /\ Own(d) \in Shape
    BY <1>3, <1>4, <1>5, <1>7, ShapeFields
  <2>2. AllPlaces' = AllPlaces
    BY <1>2, SamePlaces
  <2>3. \A q \in AllPlaces : slots'[q.at][q.table][q.index] = IF q = p THEN Own(d) ELSE Slot(q)
    BY <1>2, <2>1, PutSlots
  <2>4. Standing'
    BY <1>1, <1>2, <2>2, <2>3 DEF SoFarGood, Standing, Slot
  <2>5. ASSUME NEW c \in Reaches[d] PROVE c \in Types /\ ~Failing(g)[c] /\ LeftVisited(c) = {}
    <3>1. c \in Types /\ (c = d \/ c \in Above(g)[d])
      BY <1>1, <1>3, ReachesUp
    <3>2. ~Failing(g)[c]
      BY <1>2, <1>3, <1>5, <1>7, <3>1, FailingDown
    <3>3. CASE g.parent[c] = None
      BY <1>1, <3>1, <3>2, <3>3 DEF LeftVisited
    <3>4. CASE g.parent[c] # None
      <4>1. c \notin g.clashes
        BY <1>2, <3>1, <3>2, <3>4, FailingAt
      <4>2. UnwrapShape[g.parent[c]].shape.type \in Types
        BY <1>1, <1>2, <3>1, <3>4, ParentFacts, UnwrapShapeAt, OutcomeFields
      <4> QED
        BY <1>1, <3>1, <3>2, <4>1, <4>2 DEF LeftVisited, AllPlain
    <3> QED
      BY <3>3, <3>4
  <2>6. visited' = {} /\ flagged' = flagged \cup Reaches[d]
    BY <1>4, <2>5 DEF UnwrapInPlace, SoFarGood
  <2>7. \A a \in flagged' : ~Failing(g)[a]
    BY <1>1, <2>5, <2>6 DEF SoFarGood
  <2>8. d \in flagged'
    BY <1>3, <2>6, ReachesAt
  <2>9. \A q \in AllPlaces : Past(q)' => At(g, q) \in flagged'
    <3>1. \A q : Past(q)' => q = p \/ Past(q)
      BY <1>1, <1>2, PastLater
    <3> QED
      BY <1>1, <2>6, <2>8, <3>1 DEF SoFarGood
  <2>10. SoFarGood'
    BY <1>1, <1>2, <2>2, <2>4, <2>6, <2>7, <2>9 DEF SoFarGood
  <2> QED
    BY <1>4, <1>7, <2>10
<1> QED
  BY <1>6, <1>7

\* Every step keeps FirstUnwrap.
LEMMA FirstUnwrapStep ==
    ASSUME TypeOK, Clean, Untouched, FirstUnwrap, [Next]_vars
    PROVE  FirstUnwrap'
<1>1. SUFFICES ASSUME AllPlain', NoUnwraps'
               PROVE  /\ phase' = "unwrap" /\ errors' # {} => \E t \in Types : Failing(given')[t]
                      /\ phase' = "unwrap" /\ errors' = {} => SoFarGood'
                      /\ phase' = "links" => \A t \in Types : ~Failing(given')[t]
  BY DEF FirstUnwrap
<1>2. given' = given /\ AllPlain /\ NoUnwraps /\ AllPlaces' = AllPlaces
  BY <1>1, OnlyUnwrapType, NoUnwrapsBefore, SamePlaces DEF AllPlain
<1>3. /\ phase = "unwrap" /\ errors # {} => \E t \in Types : Failing(given)[t]
      /\ phase = "unwrap" /\ errors = {} => SoFarGood
      /\ phase = "links" => \A t \in Types : ~Failing(given)[t]
  BY <1>2 DEF FirstUnwrap
<1>4. CASE UnwrapType
  <2>1. phase = "unwrap" /\ phase' = "unwrap" /\ (errors = {} \/ errors' # {})
    BY <1>4 DEF UnwrapType
  <2>2. CASE errors = {}
    BY <1>2, <1>3, <1>4, <2>1, <2>2, SoFarGoodUnwrap
  <2>3. CASE errors # {}
    BY <1>2, <1>3, <2>1, <2>3
  <2> QED
    BY <2>2, <2>3
<1>5. CASE CallUnwrapShapes
  <2>1. /\ phase = "idle" /\ phase' = "unwrap" /\ errors' = errors /\ left' = Locations
        /\ UNCHANGED << slots, flagged, visited >>
    BY <1>5 DEF CallUnwrapShapes, heap
  <2>2. errors = {} /\ Quiet
    BY <1>2, <2>1 DEF Clean, Untouched
  <2>3. \A p \in AllPlaces : ~Past(p)'
    BY <2>1, PlaceFacts DEF Past
  <2>4. Standing'
    BY <1>2, <2>1, <2>2, SlotsSame DEF Quiet
  <2>5. SoFarGood'
    BY <1>2, <2>1, <2>2, <2>3, <2>4 DEF SoFarGood, Quiet
  <2> QED
    BY <2>1, <2>2, <2>5
<1>6. CASE NextFragment
  <2>1. UNCHANGED << slots, flagged, visited, phase, errors >>
    BY <1>6 DEF NextFragment, heap
  <2>2. SoFarGood => SoFarGood'
    BY <1>2, <1>6, <2>1, PastNext, SlotsSame DEF SoFarGood
  <2> QED
    BY <1>2, <1>3, <2>1, <2>2
<1>7. CASE TypesUnwrapped
  <2>1. errors = {} /\ phase' = "links" /\ phase = "unwrap" /\ left = {} /\ todo = << >>
    BY <1>1, <1>7, NoUnwrapsBefore DEF TypesUnwrapped, FragmentsDone
  <2>2. \A p \in AllPlaces : Past(p)
    BY <2>1 DEF Past
  <2>3. \A t \in Types : ~Failing(given)[t]
    BY <1>3, <2>1, <2>2, PlaceOfType DEF SoFarGood
  <2> QED
    BY <1>2, <2>1, <2>3
<1>8. CASE UNCHANGED vars
  BY <1>2, <1>3, <1>8, SlotsSame DEF vars, SoFarGood, Past
<1>9. CASE ~UnwrapType /\ ~CallUnwrapShapes /\ ~NextFragment /\ ~TypesUnwrapped /\ ~UNCHANGED vars
  <2>1. phase' # "unwrap" /\ (phase' = "links" => phase = "links")
    BY <1>9 DEF Next, ResolveDomainExtension, Resolved, CallValidateShapes, UnwrapDomainExtension,
       UnwrapShapesReturns, ValidateType, ValidateTypeOverflows, TypesValidated, ValidateDomainExtension,
       ValidateShapesReturns, Over, Returns, Crashes
  <2> QED
    BY <1>2, <1>3, <2>1
<1> QED
  BY <1>4, <1>5, <1>6, <1>7, <1>8, <1>9

\* A call that returns keeps FailingFound if the first UnwrapShapes fails when it has to.
LEMMA FailingFoundReturns ==
    ASSUME TypeOK, AllPlain, FailingFound, NEW c \in {"unwrap", "validate"}, Returns(c), given' = given,
           c = "unwrap" /\ NoUnwraps => (errors = {} <=> \A t \in Types : ~Failing(given)[t])
    PROVE  FailingFound'
<1>1. /\ Len(calls) \in Nat /\ DOMAIN calls = 1..Len(calls) /\ DOMAIN calls' = 1..(Len(calls) + 1)
      /\ calls'[Len(calls) + 1].call = c /\ (calls'[Len(calls) + 1].ok <=> errors = {})
      /\ \A i \in DOMAIN calls : calls'[i] = calls[i]
  BY ReturnedCall
<1>2. PICK n \in Nat : n = Len(calls)
  BY <1>1
<1>3. ASSUME NEW i \in 1..n PROVE FoundAt(calls', i)
  <2>1. calls'[i] = calls[i] /\ \A j \in 1..(i - 1) : calls'[j] = calls[j]
    BY <1>1, <1>2
  <2>2. FoundAt(calls, i)
    BY <1>1, <1>2 DEF FailingFound
  <2> QED
    BY <2>1, <2>2 DEF FoundAt
<1>4. FoundAt(calls', n + 1)
  <2>1. SUFFICES ASSUME calls'[n + 1].call = "unwrap", \A j \in 1..((n + 1) - 1) : calls'[j].call # "unwrap"
                 PROVE  calls'[n + 1].ok <=> \A t \in Types : ~Failing(given)[t]
    BY DEF FoundAt
  <2>2. (n + 1) - 1 = n
    OBVIOUS
  <2>3. NoUnwraps
    BY <1>1, <1>2, <2>1, <2>2 DEF NoUnwraps
  <2> QED
    BY <1>1, <1>2, <2>1, <2>3
<1>5. \A i \in DOMAIN calls' : FoundAt(calls', i)
  <2>1. \A i \in 1..(n + 1) : i \in 1..n \/ i = n + 1
    OBVIOUS
  <2> QED
    BY <1>1, <1>2, <1>3, <1>4, <2>1
<1> QED
  BY <1>5 DEF FailingFound, FoundAt

\* Every step keeps FailingFound.
LEMMA FailingFoundStep ==
    ASSUME TypeOK, Clean, FirstUnwrap, FailingFound, [Next]_vars
    PROVE  FailingFound'
<1>1. given' = given
  BY OnlyUnwrapType
<1>2. CASE ~AllPlain
  BY <1>1, <1>2 DEF FailingFound, AllPlain
<1>3. CASE AllPlain /\ calls' = calls
  BY <1>1, <1>3 DEF FailingFound, AllPlain, FoundAt
<1>4. CASE AllPlain /\ TypesUnwrapped /\ errors # {} /\ Returns("unwrap")
  <2>1. phase = "unwrap"
    BY <1>4 DEF TypesUnwrapped
  <2>2. NoUnwraps => \E t \in Types : Failing(given)[t]
    BY <1>4, <2>1 DEF FirstUnwrap
  <2> QED
    BY <1>1, <1>4, <2>2, FailingFoundReturns
<1>5. CASE AllPlain /\ UnwrapShapesReturns
  <2>1. phase = "links" /\ Returns("unwrap")
    BY <1>5 DEF UnwrapShapesReturns
  <2>2. errors = {} /\ (NoUnwraps => \A t \in Types : ~Failing(given)[t])
    BY <1>5, <2>1 DEF FirstUnwrap, Clean
  <2> QED
    BY <1>1, <1>5, <2>1, <2>2, FailingFoundReturns
<1>6. CASE AllPlain /\ ValidateShapesReturns
  <2>1. Returns("validate")
    BY <1>6 DEF ValidateShapesReturns
  <2> QED
    BY <1>1, <1>6, <2>1, FailingFoundReturns
<1> QED
  BY <1>2, <1>3, <1>4, <1>5, <1>6, CallsGrow

-----------------------------------------------------------------------------
(* What ValidateShapes reports: ReportsWhatIsWrong *)

\* Before anything is unwrapped in place, a copy of a type is merged with all
\* that it inherits, unless it cannot be.
LEMMA QuietOutcome ==
    ASSUME TypeOK, Quiet, NEW x \in Types
    PROVE  /\ UnwrapShape[x].ok <=> ~Failing(given)[x]
           /\ UnwrapShape[x].shape.type = x /\ UnwrapShape[x].whole
           /\ UnwrapShape[x].ok => UnwrapShape[x].line = Full(given, x)
<1>1. PICK g, o : g = given /\ o = UnwrapShape
  OBVIOUS
<1>2. g \in Models /\ o \in [Types -> Outcome] /\ TopDown(g.parent) /\ flagged = {} /\ visited = {}
  BY <1>1, UnwrapShapeAt, ParentFacts DEF TypeOK, Quiet
<1>3. \A t \in Types : (o[t].ok <=> ~Failing(g)[t]) /\ o[t].shape.type = t
  BY <1>1, <1>2, OkUnlessFailing
<1> DEFINE S == {t \in Types : o[t].whole /\ (o[t].ok => o[t].line = Full(g, t))}
<1>4. ASSUME NEW t \in Types, g.parent[t] = None \/ g.parent[t] \in S PROVE t \in S
  <2>1. CASE g.parent[t] = None
    <3>1. o[t] = AsItIs(t) /\ o[t].whole /\ o[t].line = facets[t]
      BY <1>1, <1>2, <2>1, UnwrapShapeAt, AsItIsType
    <3>2. facets[t] = [sets |-> g.sets[t], offers |-> {}]
      BY <1>1 DEF Quiet
    <3>3. Full(g, t) = [sets |-> g.sets[t] \cup {}, offers |-> {}]
      BY <1>2, <2>1, FullAt
    <3> QED
      BY <3>1, <3>2, <3>3
  <2>2. CASE g.parent[t] # None
    <3>1. PICK p : p = g.parent[t]
      OBVIOUS
    <3>2. p \in Types /\ p \in S /\ o[t] = Onto(t, o[p]) /\ o[p] \in Outcome
      BY <1>1, <1>2, <1>4, <2>2, <3>1, ParentFacts, UnwrapShapeAt
    <3>3. ~Skips(o[p])
      BY <1>2 DEF Skips
    <3>4. o[t].whole /\ (o[t].ok => o[p].ok)
      BY <3>2, <3>3, OntoMerges
    <3>5. o[t].ok => o[t].line = Full(g, t)
      <4>1. SUFFICES ASSUME o[t].ok PROVE o[t].line = Full(g, t)
        OBVIOUS
      <4>2. o[p].shape.type = p /\ o[p].line = Full(g, p) /\ ~Failing(g)[p] /\ o[t].shape.type = t
        BY <1>3, <3>2, <3>4, <4>1
      <4> HIDE DEF S
      <4> QED
        BY <1>1, <1>2, <2>2, <3>1, <4>1, <4>2, LineGrows
    <3> QED
      BY <3>4, <3>5
  <2> QED
    BY <2>1, <2>2
<1>5. Types \subseteq S
  <2> HIDE DEF S
  <2> QED
    BY <1>2, <1>4, FromTheTop
<1> QED
  BY <1>1, <1>3, <1>5

\* With every slot as it was declared the shapes stand.
LEMMA SlotsStand ==
    ASSUME TypeOK, slots = Slots
    PROVE  Standing
<1>1. SUFFICES ASSUME NEW p \in AllPlaces PROVE slots[p.at][p.table][p.index] = Own(At(given, p))
  BY DEF Standing
<1> QED
  BY PlaceFacts DEF Slots, At

\* In order, either nothing is unwrapped or everything, and that is right.
LEMMA InOrderMeans ==
    ASSUME TypeOK, Merged, Untouched, InOrder, phase \in {"validate", "values", "idle"}
    PROVE  /\ Standing
           /\ Quiet \/ Types \subseteq flagged
           /\ \A a \in flagged : Own(a) \in merged /\ facets[a] = Full(given, a) /\ ~Failing(given)[a]
<1>1. CASE NoUnwraps
  <2>1. Quiet
    BY <1>1 DEF Untouched
  <2> QED
    BY <2>1 DEF Quiet
<1>2. CASE ~NoUnwraps
  <2>1. PICK i \in DOMAIN calls : calls[i].call = "unwrap"
    BY <1>2 DEF NoUnwraps
  <2>2. calls[i].ok = TRUE \/ calls[i].ok = FALSE
    BY DEF TypeOK
  <2>3. slots = Slots /\ \A t \in Types : Own(t) \in merged
    BY <2>1, <2>2 DEF InOrder, Unwraps
  <2>4. Standing
    BY <2>3, SlotsStand
  <2>5. Types \subseteq flagged /\ ~Lost /\ flagged \subseteq Types
    BY <2>3 DEF Merged, Lost, TypeOK
  <2> QED
    BY <2>3, <2>4, <2>5 DEF Merged
<1> QED
  BY <1>1, <1>2

\* A merged type passes the checks exactly if it is not wrong.
LEMMA PassesIs ==
    ASSUME TypeOK, NEW t \in Types, ~Failing(given)[t]
    PROVE  Passes(t, TRUE, Full(given, t)) <=> ~WrongType(given, t)
<1>1. given.fault[t] \in {"none", "own", "merged"}
  BY ModelFacts DEF TypeOK
<1> QED
  BY <1>1 DEF Passes, FacetsFit, WrongType

\* One type: it is in the errors exactly if it is wrong, and else what it was
\* unwrapped to is at hand.
LEMMA ValidateTypeFinds ==
    ASSUME TypeOK, Merged, Untouched, InOrder, ValidateType
    PROVE  \E d \in Types :
              /\ Head(todo) \in AllPlaces /\ d = At(given, Head(todo))
              /\ errors' = IF WrongType(given, d) THEN errors \cup {<< "type", d >>} ELSE errors
              /\ \A t \in Types : t # d \/ d \in flagged \/ Failing(given)[d] => cache'[t] = cache[t]
              /\ d \notin flagged /\ ~Failing(given)[d] => cache'[d] # None /\ cache'[d].whole
<1>1. PICK p, d, u, s : p = Head(todo) /\ d = At(given, p) /\ u = UnwrapShape[d]
                        /\ s = slots[p.at][p.table][p.index]
  OBVIOUS
<1>2. phase = "validate" /\ p \in AllPlaces
  <2>1. phase = "validate" /\ todo # << >>
    BY DEF ValidateType
  <2> QED
    BY <1>1, <2>1 DEF TypeOK
<1>3. d \in Types /\ given \in Models
  BY <1>1, <1>2, PlaceFacts DEF TypeOK
<1>4. /\ Standing /\ (Quiet \/ Types \subseteq flagged)
      /\ \A a \in flagged : Own(a) \in merged /\ facets[a] = Full(given, a) /\ ~Failing(given)[a]
  BY <1>2, InOrderMeans
<1>5. s = Own(d) /\ s.type = d /\ ~s.copy
  BY <1>1, <1>2, <1>3, <1>4, ShapeFields DEF Standing
<1>6. IsUnwrapped(s) <=> d \in flagged
  BY <1>5 DEF IsUnwrapped
<1>7. PICK right \in BOOLEAN :
         /\ right = IF IsUnwrapped(s) THEN Passes(d, s \in merged, facets[d])
                    ELSE u.ok /\ Passes(u.shape.type, u.whole, u.line)
         /\ cache' = IF IsUnwrapped(s) \/ ~u.ok THEN cache ELSE [cache EXCEPT ![d] = u]
         /\ errors' = IF right THEN errors ELSE errors \cup {<< "type", d >>}
  <2>1. DEFINE r == IF IsUnwrapped(s) THEN Passes(d, s \in merged, facets[d])
                    ELSE u.ok /\ Passes(u.shape.type, u.whole, u.line)
  <2>2. /\ cache' = IF IsUnwrapped(s) \/ ~u.ok THEN cache ELSE [cache EXCEPT ![d] = u]
        /\ errors' = IF r THEN errors ELSE errors \cup {<< "type", d >>}
    BY <1>1, <1>5 DEF ValidateType
  <2>3. r \in BOOLEAN
    BY <1>3, UnwrapShapeAt, OutcomeFields, <1>1 DEF Passes, FacetsFit
  <2> QED
    BY <2>2, <2>3
<1>8. u \in Outcome /\ u # None /\ u.ok \in BOOLEAN
  BY <1>1, <1>3, UnwrapShapeAt, NothingIsNone, OutcomeFields
<1>9. CASE d \in flagged
  <2>1. s \in merged /\ facets[d] = Full(given, d) /\ ~Failing(given)[d]
    BY <1>4, <1>5, <1>9
  <2>2. right <=> ~WrongType(given, d)
    BY <1>3, <1>6, <1>7, <1>9, <2>1, PassesIs
  <2> QED
    BY <1>1, <1>2, <1>3, <1>6, <1>7, <1>9, <2>2
<1>10. CASE d \notin flagged
  <2>1. Quiet
    BY <1>3, <1>4, <1>10
  <2>2. (u.ok <=> ~Failing(given)[d]) /\ u.shape.type = d /\ u.whole /\ (u.ok => u.line = Full(given, d))
    BY <1>1, <1>3, <2>1, QuietOutcome
  <2>3. u.whole = TRUE
    BY <1>8, <2>2, OutcomeFields
  <2>4. right <=> ~WrongType(given, d)
    <3>1. CASE u.ok
      BY <1>3, <1>6, <1>7, <1>10, <2>2, <2>3, <3>1, PassesIs
    <3>2. CASE ~u.ok
      BY <1>6, <1>7, <1>10, <2>2, <3>2 DEF WrongType
    <3> QED
      BY <3>1, <3>2
  <2>5. cache \in [Types -> Outcome \cup {None}]
    BY DEF TypeOK
  <2>6. cache' = IF ~u.ok THEN cache ELSE [cache EXCEPT ![d] = u]
    BY <1>6, <1>7, <1>10
  <2> QED
    BY <1>1, <1>2, <1>3, <1>7, <1>8, <1>10, <2>2, <2>4, <2>5, <2>6
<1> QED
  BY <1>9, <1>10

\* ValidateType keeps the errors and the cache right, and settles the type it is at.
LEMMA SoundType ==
    ASSUME TypeOK, Merged, Untouched, InOrder, ValidateType, Sound,
           \A p \in AllPlaces : Past(p) => Settled(At(given, p))
    PROVE  Sound' /\ \A p \in AllPlaces : Past(p)' => Settled(At(given, p))'
<1>1. PICK d \in Types :
              /\ Head(todo) \in AllPlaces /\ d = At(given, Head(todo))
              /\ errors' = IF WrongType(given, d) THEN errors \cup {<< "type", d >>} ELSE errors
              /\ \A t \in Types : t # d \/ d \in flagged \/ Failing(given)[d] => cache'[t] = cache[t]
              /\ d \notin flagged /\ ~Failing(given)[d] => cache'[d] # None /\ cache'[d].whole
  BY ValidateTypeFinds
<1>2. /\ given' = given /\ flagged' = flagged /\ todo # << >> /\ todo' = Tail(todo) /\ left' = left
      /\ todo \in Seq(AllPlaces)
  BY DEF ValidateType, heap, TypeOK
<1>3. Sound'
  <2>1. \A t \in Types : << "type", t >> \in errors' => WrongType(given, t)
    BY <1>1 DEF Sound
  <2>2. \A e \in Extensions : << "annotation", e >> \in errors' => WrongValue(given, e)
    BY <1>1 DEF Sound
  <2>3. \A t \in Types : t \notin flagged /\ cache'[t] # None => ~Failing(given)[t] /\ cache'[t].whole
    BY <1>1 DEF Sound
  <2> QED
    BY <1>2, <2>1, <2>2, <2>3 DEF Sound, Extensions
<1>4. ASSUME NEW p \in AllPlaces, Past(p)' PROVE Settled(At(given, p))'
  <2>1. PICK t \in Types : t = At(given, p)
    BY PlaceFacts
  <2>2. (WrongType(given, t) => << "type", t >> \in errors')
        /\ (t \notin flagged /\ ~Failing(given)[t] => cache'[t] # None)
    <3>1. CASE t = d
      BY <1>1, <3>1
    <3>2. CASE t # d
      <4>1. Past(p)
        BY <1>1, <1>2, <1>4, <2>1, <3>2, PastLater
      <4> QED
        BY <1>1, <2>1, <3>2, <4>1 DEF Settled
    <3> QED
      BY <3>1, <3>2
  <2> QED
    BY <1>2, <2>1, <2>2 DEF Settled
<1> QED
  BY <1>3, <1>4

\* One annotation: it is in the errors exactly if it is wrong.
LEMMA ValidateExtensionFinds ==
    ASSUME TypeOK, Merged, Untouched, Linked, Named, InOrder, ValidateDomainExtension, Sound,
           \A t \in Types : Settled(t)
    PROVE  LET e == Head(todo) IN
           /\ e \in Extensions /\ phase' = "values" /\ todo' = Tail(todo) /\ cache' = cache /\ calls' = calls
           /\ errors' = IF WrongValue(given, e) THEN errors \cup {<< "annotation", e >>} ELSE errors
<1>1. PICK e, db, m : e = Head(todo) /\ db = definedBy[e] /\ m = MeantIn(given, e)
  OBVIOUS
<1>2. phase = "values" /\ e \in Extensions
  BY <1>1 DEF ValidateDomainExtension, TypeOK
<1>3. /\ Standing
      /\ \A a \in flagged : Own(a) \in merged /\ ~Failing(given)[a]
  BY <1>2, InOrderMeans
<1>4. db # None
  BY <1>1, <1>2, <1>3, StandingTypes DEF Linked, NoneLost
<1>5. db = Own(m) /\ db \in Shape
  BY <1>1, <1>2, <1>3, <1>4 DEF Named, ToMeant, TypeOK
<1>6. m \in Types /\ db.type = m /\ ~db.copy
  <2>1. db.type = m /\ db.copy = FALSE
    BY <1>5 DEF Own
  <2> QED
    BY <1>5, <2>1, ShapeFields
<1>7. IsUnwrapped(db) <=> m \in flagged
  BY <1>6 DEF IsUnwrapped
<1>8. PICK value : value = given.extensions[e].value
  OBVIOUS
<1>9. value \in {"good", "wide", "bad"}
  BY <1>2, <1>8, ExtensionFacts DEF TypeOK, Extensions
<1> DEFINE right == IF IsUnwrapped(db) THEN Fits(value, db \in merged)
                    ELSE cache[db.type] # None /\ Fits(value, cache[db.type].whole)
<1>10. right <=> ~WrongValue(given, e)
  <2>1. WrongValue(given, e) <=> Failing(given)[m] \/ value # "good"
    BY <1>1, <1>8 DEF WrongValue
  <2>2. CASE m \in flagged
    BY <1>3, <1>5, <1>7, <1>9, <2>1, <2>2 DEF Fits
  <2>3. CASE m \notin flagged
    <3>1. right <=> cache[m] # None /\ Fits(value, cache[m].whole)
      BY <1>6, <1>7, <2>3
    <3>2. cache[m] # None => ~Failing(given)[m] /\ cache[m].whole
      BY <1>6, <2>3 DEF Sound
    <3>3. ~Failing(given)[m] => cache[m] # None
      BY <1>6, <2>3 DEF Settled
    <3> HIDE DEF right
    <3> QED
      BY <1>9, <2>1, <3>1, <3>2, <3>3 DEF Fits
  <2> QED
    BY <2>2, <2>3
<1>11. /\ errors' = IF right THEN errors ELSE errors \cup {<< "annotation", e >>}
       /\ todo' = Tail(todo) /\ phase' = phase /\ cache' = cache /\ calls' = calls
  BY <1>1, <1>4, <1>8 DEF ValidateDomainExtension
<1> QED
  BY <1>1, <1>2, <1>10, <1>11

\* In order after a step that neither unwraps nor returns from it: in order before.
LEMMA InOrderBefore ==
    ASSUME TypeOK, UNCHANGED << given, slots, merged >>, InOrder',
           \/ calls' = calls
           \/ Returns("validate")
    PROVE  InOrder
<1>1. Slots' = Slots
  BY DEF Slots
<1>2. \A b \in BOOLEAN : Unwraps(b)' = Unwraps(b)
  <2>1. CASE calls' = calls
    BY <2>1 DEF Unwraps
  <2>2. CASE Returns("validate")
    <3>1. /\ Len(calls) \in Nat /\ DOMAIN calls = 1..Len(calls) /\ DOMAIN calls' = 1..(Len(calls) + 1)
          /\ calls'[Len(calls) + 1].call = "validate"
          /\ \A i \in DOMAIN calls : calls'[i] = calls[i]
      BY <2>2, ReturnedCall
    <3>2. \A i \in DOMAIN calls' : i \in DOMAIN calls \/ i = Len(calls) + 1
      BY <3>1
    <3>3. DOMAIN calls \subseteq DOMAIN calls'
      BY <3>1
    <3> QED
      BY <3>1, <3>2, <3>3 DEF Unwraps
  <2> QED
    BY <2>1, <2>2
<1>3. Unwraps(TRUE)' = Unwraps(TRUE) /\ Unwraps(FALSE)' = Unwraps(FALSE)
  BY <1>2
<1> QED
  BY <1>1, <1>3 DEF InOrder

\* Every step keeps Reported.
LEMMA ReportedStep ==
    ASSUME TypeOK, Clean, Merged, Untouched, Linked, Named, Reported, [Next]_vars
    PROVE  Reported'
<1>1. SUFFICES ASSUME InOrder'
               PROVE  /\ phase' \in {"validate", "values"} => Sound'
                      /\ Validated' /\ ValuesChecked' /\ Told'
  BY DEF Reported
<1>2. given' = given /\ AllPlaces' = AllPlaces /\ Extensions' = Extensions
  BY OnlyUnwrapType, SamePlaces DEF Extensions
<1> DEFINE Keeps == UNCHANGED << given, slots, merged >> /\ (calls' = calls \/ Returns("validate"))
<1>3. ASSUME Keeps
      PROVE  /\ InOrder /\ Validated /\ ValuesChecked /\ Told
             /\ phase \in {"validate", "values"} => Sound
  BY <1>1, <1>3, InOrderBefore DEF Reported
<1> HIDE DEF Keeps
<1>4. CASE CallValidateShapes
  <2>1. /\ phase = "idle" /\ phase' = "validate" /\ errors' = errors /\ left' = Locations
        /\ cache' = cache /\ flagged' = flagged
    BY <1>4 DEF CallValidateShapes, heap
  <2>2. errors = {} /\ \A t \in Types : cache[t] = None
    BY <2>1 DEF Clean
  <2>3. \A p \in AllPlaces : ~Past(p)'
    BY <2>1, PlaceFacts DEF Past
  <2>4. Sound'
    BY <1>2, <2>1, <2>2 DEF Sound
  <2> QED
    BY <1>2, <2>1, <2>3, <2>4 DEF Validated, ValuesChecked, Told
<1>5. CASE NextFragment
  <2>1. /\ UNCHANGED << given, slots, merged, flagged, phase, errors, calls, cache, reported >>
        /\ phase \in {"unwrap", "validate"}
    BY <1>5 DEF NextFragment, heap
  <2>2. /\ InOrder /\ Validated
        /\ phase = "validate" => Sound
    BY <1>3, <2>1 DEF Keeps
  <2>3. \A p \in AllPlaces : Past(p)' => Past(p)
    BY <1>5, PastNext
  <2>4. phase = "validate" => Sound'
    BY <1>2, <2>1, <2>2 DEF Sound
  <2>5. Validated'
    BY <1>2, <2>1, <2>2, <2>3 DEF Validated, Settled
  <2> QED
    BY <2>1, <2>4, <2>5 DEF ValuesChecked, Told
<1>6. CASE ValidateType
  <2>1. UNCHANGED << given, slots, merged, calls >> /\ phase = "validate" /\ phase' = "validate"
    BY <1>6 DEF ValidateType, heap
  <2>2. InOrder /\ Sound /\ Validated
    BY <1>3, <2>1 DEF Keeps
  <2>3. Sound' /\ \A p \in AllPlaces : Past(p)' => Settled(At(given, p))'
    BY <1>6, <2>1, <2>2, SoundType DEF Validated
  <2>4. Validated'
    BY <1>2, <2>3 DEF Validated
  <2> QED
    BY <2>1, <2>3, <2>4 DEF ValuesChecked, Told
<1>7. CASE TypesValidated
  <2>1. /\ UNCHANGED << given, slots, merged, flagged, calls, errors, cache >>
        /\ phase = "validate" /\ phase' = "values" /\ left = {} /\ todo = << >>
        /\ todo' = [e \in Extensions |-> e]
    BY <1>7 DEF TypesValidated, heap, FragmentsDone
  <2>2. InOrder /\ Sound /\ Validated
    BY <1>3, <2>1 DEF Keeps
  <2>3. \A p \in AllPlaces : Past(p)
    BY <2>1 DEF Past
  <2>4. \A t \in Types : Settled(t)
    BY <2>1, <2>2, <2>3, PlaceOfType DEF Validated
  <2>5. \A e \in Extensions : ~Beyond(e)'
    BY <2>1, AllExtensions DEF Beyond
  <2>6. Sound'
    BY <1>2, <2>1, <2>2 DEF Sound
  <2>7. \A t \in Types : Settled(t)'
    BY <1>2, <2>1, <2>4 DEF Settled
  <2>8. ValuesChecked'
    BY <1>2, <2>5, <2>7 DEF ValuesChecked
  <2> QED
    BY <2>1, <2>6, <2>8 DEF Validated, Told
<1>8. CASE ValidateDomainExtension
  <2>1. /\ UNCHANGED << given, slots, merged, flagged, left >> /\ (calls' = calls)
        /\ phase = "values" /\ todo # << >>
    BY <1>8 DEF ValidateDomainExtension, heap, Crashes
  <2>2. InOrder /\ Sound /\ ValuesChecked
    BY <1>3, <2>1 DEF Keeps
  <2>3. PICK e : e = Head(todo)
    OBVIOUS
  <2>4. /\ e \in Extensions /\ phase' = "values" /\ todo' = Tail(todo) /\ cache' = cache
        /\ errors' = IF WrongValue(given, e) THEN errors \cup {<< "annotation", e >>} ELSE errors
    BY <1>8, <2>1, <2>2, <2>3, ValidateExtensionFinds DEF ValuesChecked
  <2>5. Sound'
    <3>1. \A t \in Types : << "type", t >> \in errors' => << "type", t >> \in errors
      BY <2>4
    <3>2. \A x \in Extensions : << "annotation", x >> \in errors' => WrongValue(given, x)
      BY <2>2, <2>4 DEF Sound
    <3> QED
      BY <1>2, <2>1, <2>2, <2>4, <3>1, <3>2 DEF Sound
  <2>6. \A t \in Types : Settled(t)'
    BY <1>2, <2>1, <2>2, <2>4 DEF Settled, ValuesChecked
  <2>7. \A x : Beyond(x)' => x = e \/ Beyond(x)
    <3>1. todo \in Seq(Extensions)
      BY <2>1 DEF TypeOK
    <3> QED
      BY <2>1, <2>3, <2>4, <3>1, PastLater
  <2>8. \A x \in Extensions : Beyond(x)' /\ WrongValue(given, x) => << "annotation", x >> \in errors'
    BY <2>1, <2>2, <2>4, <2>7 DEF ValuesChecked
  <2>9. ValuesChecked'
    BY <1>2, <2>6, <2>8 DEF ValuesChecked
  <2> QED
    BY <2>4, <2>5, <2>9 DEF Validated, Told
<1>9. CASE ValidateShapesReturns
  <2>1. /\ UNCHANGED << given, slots, merged >> /\ Returns("validate")
        /\ phase = "values" /\ todo = << >> /\ phase' = "idle" /\ reported' = errors
    BY <1>9 DEF ValidateShapesReturns, heap, Returns
  <2>2. InOrder /\ Sound /\ ValuesChecked
    BY <1>3, <2>1 DEF Keeps
  <2>3. \A e \in Extensions : Beyond(e)
    BY <2>1 DEF Beyond
  <2>4. \A t \in Types : << "type", t >> \in errors <=> WrongType(given, t)
    BY <2>1, <2>2 DEF Sound, Settled, ValuesChecked
  <2>5. \A e \in Extensions : << "annotation", e >> \in errors <=> WrongValue(given, e)
    BY <2>1, <2>2, <2>3 DEF Sound, ValuesChecked
  <2>6. errors \subseteq ({"type"} \X Types) \cup ({"annotation"} \X Extensions)
    BY DEF TypeOK, Errors
  <2>7. errors = Found(given, Extensions)
    BY <2>4, <2>5, <2>6 DEF Found
  <2>8. Told'
    BY <1>2, <2>1, <2>7 DEF Told
  <2> QED
    BY <2>1, <2>8 DEF Validated, ValuesChecked
<1>10. CASE Resolved
  <2>1. calls' = << >> /\ phase' \in {"idle", "refused"}
    BY <1>10 DEF Resolved, Clean
  <2> QED
    BY <2>1 DEF Validated, ValuesChecked, Told
<1>11. CASE Returns("unwrap")
  <2>1. calls'[Len(calls')].call = "unwrap" /\ phase' = "idle"
    BY <1>11, ReturnedCall DEF Returns
  <2> QED
    BY <2>1 DEF Validated, ValuesChecked, Told
<1>12. CASE UNCHANGED vars
  <2>1. Keeps
    BY <1>12 DEF vars, heap, Keeps
  <2>2. InOrder /\ Validated /\ ValuesChecked /\ Told /\ (phase \in {"validate", "values"} => Sound)
    BY <1>3, <2>1
  <2> QED
    BY <1>2, <1>12, <2>2 DEF vars, heap, Validated, ValuesChecked, Told, Sound, Settled, Past, Beyond
<1>13. CASE UnwrapType
  BY <1>13 DEF UnwrapType, Validated, ValuesChecked, Told
<1>14. CASE ~CallValidateShapes /\ ~NextFragment /\ ~ValidateType /\ ~TypesValidated
            /\ ~ValidateDomainExtension /\ ~ValidateShapesReturns /\ ~Resolved /\ ~Returns("unwrap")
            /\ ~UNCHANGED vars /\ ~UnwrapType
  <2>1. phase' \notin {"validate", "values", "idle"}
    BY <1>14 DEF Next, ResolveDomainExtension, CallUnwrapShapes, TypesUnwrapped, UnwrapDomainExtension,
         UnwrapShapesReturns, ValidateTypeOverflows, Over, Crashes
  <2> QED
    BY <2>1 DEF Validated, ValuesChecked, Told
<1> QED
  BY <1>4, <1>5, <1>6, <1>7, <1>8, <1>9, <1>10, <1>11, <1>12, <1>13, <1>14

-----------------------------------------------------------------------------
(* The invariant, and what it says in the words of Validation *)

IInv ==
    /\ TypeOK /\ Inherited /\ Linked /\ Named /\ Merged
    /\ Clean /\ Untouched /\ FirstUnwrap /\ FailingFound /\ Reported

\* The invariant holds at first.
LEMMA IInvInit ==
    ASSUME Init
    PROVE  IInv
<1>1. TypeOK
  BY InitType
<1>2. /\ given \in Models /\ slots = Slots /\ tables = NoTables
      /\ flagged = {} /\ visited = {} /\ merged = {}
      /\ facets = [t \in Types |-> [sets |-> given.sets[t], offers |-> {}]]
      /\ definedBy = [e \in Extensions |-> None] /\ cache = [t \in Types |-> None]
      /\ phase = "resolve" /\ todo = [e \in Extensions |-> e] /\ calls = << >>
  BY DEF Init
<1>3. Quiet
  <2>1. Standing
    BY <1>1, <1>2, SlotsStand
  <2> QED
    BY <1>2, <2>1 DEF Quiet
<1>4. Inherited
  <2>1. SUFFICES ASSUME NEW p \in AllPlaces PROVE slots[p.at][p.table][p.index].type = At(given, p)
    BY DEF Inherited
  <2> QED
    BY <1>1, <1>3, StandingTypes DEF Quiet, TypeStands
<1>5. /\ \A e \in Extensions : ~Beyond(e) /\ definedBy[e] = None
      /\ \A l \in Locations, n \in Names : tables["annotation"][l][n] = None
  <2>1. \A e \in Extensions : ~Beyond(e)
    BY <1>1, <1>2, AllExtensions DEF Beyond
  <2> QED
    BY <1>2, <2>1 DEF NoTables, Tables
<1>6. Linked /\ Named
  BY <1>2, <1>5 DEF Linked, Resolving, ToAnnotations, Entered, NoneLost, Named, ToMeant, Entries
<1>7. Merged
  <2>1. ASSUME NEW t \in Types, given.parent[t] = None PROVE facets[t] = Full(given, t)
    <3>1. Full(given, t) = [sets |-> given.sets[t] \cup {}, offers |-> {}]
      BY <1>2, <2>1, FullAt
    <3> QED
      BY <1>2, <3>1
  <2> QED
    BY <1>2, <2>1 DEF Merged
<1>8. Clean /\ Untouched /\ FirstUnwrap /\ FailingFound /\ Reported
  BY <1>2, <1>3 DEF Clean, Untouched, FirstUnwrap, FailingFound, Reported, Validated, ValuesChecked, Told
<1> QED
  BY <1>1, <1>4, <1>6, <1>7, <1>8 DEF IInv

\* Every step keeps the invariant.
LEMMA IInvStep ==
    ASSUME IInv, [Next]_vars
    PROVE  IInv'
BY TypeStep, InheritedStep, LinkedStep, NamedStep, MergedStep, CleanStep, UntouchedStep, FirstUnwrapStep,
   FailingFoundStep, ReportedStep DEF IInv

\* The invariant holds in every reachable state.
LEMMA IInvAlways == Spec => []IInv
BY IInvInit, IInvStep, PTL DEF Spec

\* What Validation says of a model, and what is said here of any.
LEMMA SameModel ==
    /\ Unmergeable = {t \in Types : Failing(given)[t]}
    /\ Ancestors = Above(given)
    /\ \A e \in Extensions : Meant(e) = MeantIn(given, e)
<1>1. Unmergeable = {t \in Types : Failing(given)[t]}
  BY DEF Unmergeable, Failing
<1>2. Ancestors = Above(given)
  BY DEF Ancestors, Above
<1>3. ASSUME NEW e \in Extensions PROVE Meant(e) = MeantIn(given, e)
  BY DEF Meant, MeantIn, Is, Location
<1> QED
  BY <1>1, <1>2, <1>3

\* A type is wrong in the words of Validation exactly if it is here.
LEMMA WrongTypeIs ==
    ASSUME given \in Models, NEW t \in Types
    PROVE  /\ Sets(t) = Full(given, t).sets /\ Offers(t) = Full(given, t).offers
           /\ WrongType(given, t) <=>
                 t \in Unmergeable \/ given.fault[t] # "none" \/ Misused(t)
                    \/ (t \in given.recursive /\ Sets(t) # {})
<1>1. Sets(t) = Full(given, t).sets /\ Offers(t) = Full(given, t).offers
  BY SameModel DEF Sets, Offers, Full
<1>2. (\E f \in given.defines[t] : \E a \in Ancestors[t] : f \in given.defines[a])
         <=> given.defines[t] \cap Offers(t) # {}
  BY DEF Offers
<1>3. Misused(t) <=> \/ given.defines[t] \cap Offers(t) # {}
                     \/ ~(given.required \cap Offers(t) \subseteq Sets(t))
                     \/ ~(Sets(t) \subseteq Offers(t))
  BY <1>2 DEF Misused
<1>4. t \in Unmergeable <=> Failing(given)[t]
  BY SameModel
<1> QED
  BY <1>1, <1>3, <1>4 DEF WrongType

\* What is wrong with the model is what is found.
LEMMA WrongIsFound ==
    ASSUME TypeOK, \A e \in Extensions : MeantIn(given, e) \in Types
    PROVE  Wrong \cup {<< "type", t >> : t \in {t \in given.recursive : Sets(t) # {}}}
              = Found(given, Extensions)
<1>1. given \in Models /\ given.recursive \subseteq Types
  BY ConstantsAssumption DEF TypeOK, ModelType
<1> DEFINE T == {t \in Types : t \in Unmergeable \/ given.fault[t] # "none" \/ Misused(t)}
           R == {t \in given.recursive : Sets(t) # {}}
           E == {e \in Extensions : Meant(e) \in Unmergeable \/ given.extensions[e].value # "good"}
<1>2. T \cup R = {t \in Types : WrongType(given, t)}
  BY <1>1, WrongTypeIs
<1>3. E = {e \in Extensions : WrongValue(given, e)}
  BY SameModel DEF WrongValue
<1>4. Wrong = {<< "type", t >> : t \in T} \cup {<< "annotation", e >> : e \in E}
  BY DEF Wrong
<1> HIDE DEF T, R, E
<1>5. {<< "type", t >> : t \in T} \cup {<< "type", t >> : t \in R} = {<< "type", t >> : t \in T \cup R}
  OBVIOUS
<1> QED
  BY <1>2, <1>3, <1>4, <1>5 DEF Found, R

-----------------------------------------------------------------------------

\* Every variable has its type in all reachable states.
THEOREM TypeCorrect == Spec => []TypeOK
<1>1. IInv => TypeOK
  BY DEF IInv
<1> QED
  BY IInvAlways, <1>1, PTL

\* As long as no type is replaced by another one, every annotation keeps its
\* type in UnwrapShapes, and the program does not follow a nil DefinedBy.
THEOREM DefinedByKeptCorrect == Spec => []DefinedByKept
<1>1. ASSUME IInv PROVE DefinedByKept
  <2>1. SUFFICES ASSUME phase # "resolve", phase # "refused",
                        \A l \in Locations, table \in Tables : \A i \in DOMAIN slots[l][table] :
                           slots[l][table][i].type = given.declared[l][table][i]
                 PROVE  phase # "crashed" /\ \A e \in Extensions : definedBy[e] # None
    BY DEF DefinedByKept
  <2>2. TypeStands
    <3>1. SUFFICES ASSUME NEW p \in AllPlaces PROVE slots[p.at][p.table][p.index].type = At(given, p)
      BY DEF TypeStands
    <3> QED
      BY <1>1, <2>1, PlaceFacts DEF IInv, At
  <2> QED
    BY <1>1, <2>1, <2>2 DEF IInv, Linked, NoneLost
<1> QED
  BY IInvAlways, <1>1, PTL

\* The first UnwrapShapes of a model whose types are plain fails exactly if some
\* type cannot be merged, whatever the order in which the fragments come.
THEOREM UnwrapFindsClashesCorrect == Spec => []UnwrapFindsClashes
<1>1. ASSUME IInv PROVE UnwrapFindsClashes
  <2>1. Unmergeable = {} <=> \A t \in Types : ~Failing(given)[t]
    BY SameModel
  <2> QED
    BY <1>1, <2>1 DEF IInv, FailingFound, FoundAt, AllPlain, UnwrapFindsClashes
<1> QED
  BY IInvAlways, <1>1, PTL

\* ValidateShapes reports what is wrong with the model and nothing else, before
\* UnwrapShapes and after one that left every type in its place and merged; and
\* it does not recurse for ever unless an UnwrapShapes failed.
THEOREM ReportsWhatIsWrongCorrect == Spec => []ReportsWhatIsWrong
<1>1. ASSUME IInv PROVE ReportsWhatIsWrong
  <2>1. phase = "overflowed" => Unwraps(FALSE) # {}
    <3>1. SUFFICES ASSUME phase = "overflowed" PROVE Unwraps(FALSE) # {}
      OBVIOUS
    <3>2. PICK i \in DOMAIN calls : calls[i].call = "unwrap" /\ ~calls[i].ok
      BY <1>1, <3>1 DEF IInv, Untouched
    <3>3. calls \in Seq([call : {"unwrap", "validate"}, ok : BOOLEAN])
      BY <1>1 DEF IInv, TypeOK
    <3>4. calls[i].ok = FALSE
      BY <3>2, <3>3
    <3> QED
      BY <3>2, <3>4 DEF Unwraps
  <2>2. ASSUME phase = "idle", calls # << >>, calls[Len(calls)].call = "validate", InOrder
        PROVE  reported = Wrong \cup {<< "type", t >> : t \in {t \in given.recursive : Sets(t) # {}}}
    <3>1. Standing
      BY <1>1, <2>2, InOrderMeans DEF IInv
    <3>2. TypeStands
      BY <1>1, <3>1, StandingTypes DEF IInv
    <3>3. ASSUME NEW e \in Extensions PROVE MeantIn(given, e) \in Types
      <4>1. definedBy[e] # None
        BY <1>1, <2>2, <3>2 DEF IInv, Linked, NoneLost
      <4>2. definedBy[e] = Own(MeantIn(given, e)) /\ definedBy[e] \in Shape
        BY <1>1, <3>1, <4>1 DEF IInv, Named, ToMeant, TypeOK
      <4>3. definedBy[e].type = MeantIn(given, e)
        BY <4>2 DEF Own
      <4> QED
        BY <4>2, <4>3, ShapeFields
    <3>4. reported = Found(given, Extensions)
      BY <1>1, <2>2 DEF IInv, Reported, Told
    <3> QED
      BY <1>1, <3>3, <3>4, WrongIsFound DEF IInv
  <2> QED
    BY <2>1, <2>2 DEF ReportsWhatIsWrong
<1> QED
  BY IInvAlways, <1>1, PTL

=============================================================================
