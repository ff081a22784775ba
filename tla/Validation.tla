------------------------------ MODULE Validation ------------------------------
(***************************************************************************)
(* What a client does with a parsed model: UnwrapShapes (unwrap.go) and    *)
(* ValidateShapes (validate.go), in any order and again, after             *)
(* resolveDomainExtensions (resolve.go) has linked every annotation to the *)
(* annotation type that defines it.                                        *)
(*                                                                         *)
(* The declared types of all fragments are visited fragment by fragment;   *)
(* the fragments are in a Go map and come in any order.  UnwrapShapes      *)
(* merges types in place, ValidateShapes merges detached copies and keeps  *)
(* them in a cache.  How one type is merged is the subject of the module   *)
(* Unwrap; here it is one step that succeeds or fails, and what matters is *)
(* which shapes it leaves flagged, merged or replaced by another one, and  *)
(* which shape an annotation is then checked against.  Custom facets are   *)
(* looked at one by one; the other facets of a type and its examples only  *)
(* as far as they are right or wrong.                                      *)
(***************************************************************************)
EXTENDS Naturals, Sequences

CONSTANTS
    Locations,  \* of the parsed fragments
    Types,      \* the declared types
    Names,      \* the names types are declared with and referred to by
    FacetNames, \* the names of custom facets
    Models,     \* the models the parser may leave (see ModelType)
    MaxCalls,   \* how many calls the client makes
    None

Tables == {"annotation", "type"}

(***************************************************************************)
(* isLibrary   the fragment at a location is a library, not a data type    *)
(* declared    the annotation types and the types of a fragment, in order; *)
(*             a data type has one type                                    *)
(* uses        what a prefixed name refers to at a location: the used      *)
(*             library and the name in it, or None                         *)
(* parent      the type a type inherits from, or None                      *)
(* form        what a type is to its children: they are merged in place,   *)
(*             but when it is "any" its visited flag is not reset, and     *)
(*             when it is a "union" with one member for the child a copy   *)
(*             of the child replaces it besides                            *)
(* clashes     the types that cannot be merged with their parent           *)
(* fault       what Check and validateExamples find wrong in a type:       *)
(*             "none", an error in its own facets ("own"), or one between  *)
(*             those and the inherited ones ("merged")                     *)
(* defines     the custom facets a type defines for those below it         *)
(* required    the custom facets that have to be set where they are        *)
(*             defined above                                               *)
(* sets        the custom facets a type gives a value                      *)
(* recursive   the types with a property of their own type; nothing        *)
(*             inherits from them                                          *)
(* extensions  the annotations: where they are, what they refer to, and    *)
(*             whether the value fits the merged type ("good"), only what  *)
(*             the type itself declares ("wide"), or neither ("bad")       *)
(***************************************************************************)
ModelType ==
    [ isLibrary  : [Locations -> BOOLEAN],
      declared   : [Locations -> [Tables -> Seq(Types)]],
      name       : [Types -> Names],
      uses       : [Locations -> [Names -> ([at : Locations, name : Names] \cup {None})]],
      parent     : [Types -> Types \cup {None}],
      form       : [Types -> {"plain", "any", "union"}],
      clashes    : SUBSET Types,
      fault      : [Types -> {"none", "own", "merged"}],
      defines    : [Types -> SUBSET FacetNames],
      required   : SUBSET FacetNames,
      sets       : [Types -> SUBSET FacetNames],
      recursive  : SUBSET Types,
      extensions : Seq([at : Locations, name : Names, value : {"good", "wide", "bad"}]) ]

\* A declared type, or the copy that takes its place.
Shape == [type : Types, copy : BOOLEAN]
Own(t)  == [type |-> t, copy |-> FALSE]
Copy(t) == [type |-> t, copy |-> TRUE]

\* What UnwrapShape may return: see there.
Outcome == [ ok : BOOLEAN, shape : Shape, whole : BOOLEAN,
             line : [sets : SUBSET FacetNames, offers : SUBSET FacetNames] ]

\* Each type is declared at one place, no name twice in a table, and no type is
\* its own ancestor: the resolver does not come to an end on one that is.
ASSUME ConstantsAssumption ==
    /\ None \notin Types \cup Shape \cup Outcome /\ MaxCalls \in Nat
    /\ Models \subseteq ModelType
    /\ \A m \in Models :
          /\ \A t \in Types : m.parent[t] \notin m.recursive
          /\ \A T \in SUBSET Types : T # {} => \E t \in T : m.parent[t] \notin T
          /\ \A t \in Types : \E l \in Locations, table \in Tables :
                \E i \in DOMAIN m.declared[l][table] : m.declared[l][table][i] = t
          /\ \A l, k \in Locations, table, other \in Tables :
                \A i \in DOMAIN m.declared[l][table], j \in DOMAIN m.declared[k][other] :
                    LET t == m.declared[l][table][i]
                        u == m.declared[k][other][j]
                    IN  t = u \/ (l = k /\ table = other /\ m.name[t] = m.name[u])
                          => l = k /\ table = other /\ i = j

VARIABLES
    given,      \* the model as the parser left it (never changes)
    slots,      \* Library.AnnotationTypes, Library.Types and DataType.Shape
    tables,     \* RAML.fragmentAnnotationTypes and RAML.fragmentTypes
    flagged,    \* the types with BaseShape.unwrapped set
    visited,    \* the types with BaseShape.ShapeVisited set
    merged,     \* the shapes that have all they inherit
    facets,     \* the custom facets a type has a value of, and is offered: see Line
    definedBy,  \* DomainExtension.DefinedBy
    cache,      \* unwrapCache: what a type was unwrapped to, by identity
    phase,      \* the part of a call that is under way
    left,       \* the fragments this part has still to visit
    todo,       \* the types of the current fragment, or the annotations, left
    errors,     \* the errors collected by the call
    calls,      \* the calls made so far, and whether each succeeded
    reported    \* the errors of the last call

vars == << given, slots, tables, flagged, visited, merged, facets, definedBy, cache,
           phase, left, todo, errors, calls, reported >>

heap == << flagged, visited, merged, facets >>

IsUnwrapped(s) == s.copy \/ s.type \in flagged
Name(s)        == given.name[s.type]

Extensions == DOMAIN given.extensions

\* The places of the types of the fragment at l, in the order of the loops.
Places(l) ==
    LET In(table) == [i \in DOMAIN given.declared[l][table] |->
                        [at |-> l, table |-> table, index |-> i]]
    IN  In("annotation") \o In("type")

Location(t) == CHOOSE l \in Locations :
    \E table \in Tables : \E i \in DOMAIN given.declared[l][table] :
        given.declared[l][table][i] = t

-----------------------------------------------------------------------------
(* Resolving references *)

\* The declared types that have the name n in a table.
Declared(l, table, n) ==
    {t \in {given.declared[l][table][i] : i \in DOMAIN given.declared[l][table]} : given.name[t] = n}

\* The one element of S, or None.
TheOf(S) == IF S = {} THEN None ELSE CHOOSE x \in S : TRUE

\* A name declared in the library itself comes first, dots or not; a data type
\* has none.  None stands for the error.
GetReferenceAnnotationType(n, l) ==
    LET used  == given.uses[l][n]
        local == IF given.isLibrary[l] THEN Declared(l, "annotation", n) ELSE {}
    IN  IF local # {} \/ used = None
        THEN TheOf(local)
        ELSE TheOf(Declared(used.at, "annotation", used.name))

-----------------------------------------------------------------------------
(* UnwrapShape, as far as it matters here *)

\* A type that is returned as it is.
AsItIs(t) ==
    [ok |-> TRUE, shape |-> Own(t), whole |-> t \notin flagged \/ Own(t) \in merged,
     line |-> facets[t]]

\* Inherit leaves the target alone when the source is visited.
Skips(source) == source.ok /\ ~source.shape.copy /\ source.shape.type \in visited

(***************************************************************************)
(* The custom facets of t once its parent was unwrapped to source: those   *)
(* it has a value of, which Inherit adds to (CustomShapeFacets), and those *)
(* it is offered, which are defined above it, where validateShapeFacets    *)
(* follows the first parents (Inherits).                                   *)
(***************************************************************************)
Line(t, source) ==
    [ sets   |-> given.sets[t] \cup (IF source.ok /\ ~Skips(source) THEN source.line.sets ELSE {}),
      offers |-> given.defines[source.shape.type] \cup source.line.offers ]

\* Mutant of UnwrapShape: an error of the parent is not returned.
UnwrapIgnoringParent ==
    LET outcome[t \in Types] ==
        LET p == given.parent[t]
        IN  IF t \in flagged \/ p = None
            THEN AsItIs(t)
            ELSE LET source == outcome[p]
                     q      == source.shape.type
                 IN  IF ~source.shape.copy /\ q \in visited
                     THEN source
                     ELSE [ ok    |-> t \notin given.clashes,
                            shape |-> IF given.form[q] = "union" THEN Copy(t) ELSE Own(t),
                            whole |-> source.whole,
                            line  |-> Line(t, source) ]
    IN  outcome

(***************************************************************************)
(* What UnwrapShape returns for each type.  A flagged type is returned as  *)
(* it is.  A type whose parent is visited is replaced by this parent; one  *)
(* that is merged is whole when what it was merged with is.                *)
(***************************************************************************)
UnwrapShape ==
    LET outcome[t \in Types] ==
        LET p == given.parent[t]
        IN  IF t \in flagged \/ p = None
            THEN AsItIs(t)
            ELSE LET source == outcome[p]
                     q      == source.shape.type
                 IN  IF Skips(source)
                     THEN source
                     ELSE [ ok    |-> source.ok /\ t \notin given.clashes,
                            shape |-> IF given.form[q] = "union" THEN Copy(t) ELSE Own(t),
                            whole |-> source.whole,
                            line  |-> Line(t, source) ]
    IN  outcome

\* The types UnwrapShape(t) reaches and flags: those up to the first flagged.
Reaches ==
    LET line[t \in Types] ==
        IF t \in flagged THEN {}
        ELSE IF given.parent[t] = None THEN {t} ELSE {t} \cup line[given.parent[t]]
    IN  line

\* The parents whose visited flag is left set when c was merged: an error, and
\* a parent that is any or a union, return before it is reset.
LeftVisited(c) ==
    IF given.parent[c] = None THEN {}
    ELSE LET source == UnwrapShape[given.parent[c]]
             q      == source.shape.type
         IN  IF source.ok /\ ~source.shape.copy /\ (c \in given.clashes \/ given.form[q] # "plain")
             THEN {q} ELSE {}

\* The unwrap of t in place, whatever it returns.
UnwrapInPlace(t) ==
    /\ flagged' = flagged \cup Reaches[t]
    /\ visited' = visited \cup UNION {LeftVisited(c) : c \in Reaches[t]}
    /\ merged'  = merged \cup {UnwrapShape[c].shape :
                                 c \in {c \in Reaches[t] : UnwrapShape[c].ok /\ UnwrapShape[c].whole}}
    /\ facets'  = [c \in Types |-> IF c \notin Reaches[t] \/ given.parent[c] = None
                                   THEN facets[c]
                                   ELSE Line(c, UnwrapShape[given.parent[c]])]

-----------------------------------------------------------------------------

Slots == [l \in Locations |-> [table \in Tables |->
            [i \in DOMAIN given.declared[l][table] |-> Own(given.declared[l][table][i])]]]
NoTables == [table \in Tables |-> [l \in Locations |-> [n \in Names |-> None]]]

Init ==
    /\ given \in Models
    /\ slots = Slots
    /\ tables = NoTables
    /\ flagged = {} /\ visited = {} /\ merged = {}
    /\ facets = [t \in Types |-> [sets |-> given.sets[t], offers |-> {}]]
    /\ definedBy = [e \in Extensions |-> None]
    /\ cache = [t \in Types |-> None]
    /\ phase = "resolve"
    /\ left = {}
    /\ todo = [e \in Extensions |-> e]
    /\ errors = {} /\ calls = << >> /\ reported = {}

\* resolveDomainExtension: one annotation, by name.
ResolveDomainExtension ==
    /\ phase = "resolve" /\ todo # << >>
    /\ LET e   == Head(todo)
           ref == GetReferenceAnnotationType(given.extensions[e].name, given.extensions[e].at)
       IN  IF ref = None
           THEN errors' = errors \cup {<< "annotation", e >>} /\ UNCHANGED definedBy
           ELSE definedBy' = [definedBy EXCEPT ![e] = Own(ref)] /\ UNCHANGED errors
    /\ todo' = Tail(todo)
    /\ UNCHANGED << given, slots, tables, heap, cache, phase, left, calls, reported >>

\* The client gets the model, or an error, and then it does not go on.
Resolved ==
    /\ phase = "resolve" /\ todo = << >>
    /\ phase' = IF errors = {} THEN "idle" ELSE "refused"
    /\ UNCHANGED << given, slots, tables, heap, definedBy, cache, left, todo, errors, calls, reported >>

\* A call of the client returns what was collected.
Returns(call) ==
    /\ calls' = Append(calls, [call |-> call, ok |-> errors = {}])
    /\ reported' = errors
    /\ phase' = "idle"
    /\ errors' = {}
    /\ cache' = [t \in Types |-> None]

\* The program follows a nil pointer.
Crashes ==
    /\ phase' = "crashed"
    /\ UNCHANGED << given, slots, tables, heap, definedBy, cache, left, todo, errors, calls, reported >>

\* UnwrapShapes begins with new tables.
CallUnwrapShapes ==
    /\ phase = "idle" /\ Len(calls) < MaxCalls
    /\ phase' = "unwrap"
    /\ left' = Locations
    /\ tables' = NoTables
    /\ UNCHANGED << given, slots, heap, definedBy, cache, todo, errors, calls, reported >>

CallValidateShapes ==
    /\ phase = "idle" /\ Len(calls) < MaxCalls
    /\ phase' = "validate"
    /\ left' = Locations
    /\ UNCHANGED << given, slots, tables, heap, definedBy, cache, todo, errors, calls, reported >>

\* The loops over the fragments: any of those that are left comes next.
NextFragment ==
    /\ phase \in {"unwrap", "validate"} /\ todo = << >>
    /\ \E l \in left : todo' = Places(l) /\ left' = left \ {l}
    /\ UNCHANGED << given, slots, tables, heap, definedBy, cache, phase, errors, calls, reported >>

FragmentsDone == left = {} /\ todo = << >>

\* Mutant of Put: annotation types are put into the table of the types.
PutAsType(p, s) ==
    /\ slots' = [slots EXCEPT ![p.at][p.table][p.index] = s]
    /\ tables' = [tables EXCEPT !["type"][p.at][Name(s)] =
                     IF given.isLibrary[p.at] THEN slots[p.at][p.table][p.index] ELSE s]

\* The shape s takes its place in the fragment and is put into the table, under
\* its own name; a library puts what was in the place before instead.
Put(p, s) ==
    /\ slots' = [slots EXCEPT ![p.at][p.table][p.index] = s]
    /\ tables' = [tables EXCEPT ![p.table][p.at][Name(s)] =
                     IF given.isLibrary[p.at] THEN slots[p.at][p.table][p.index] ELSE s]

\* unwrapTypes, unwrapDataType: one type.  A shape that took the place of
\* another one is unwrapped already.
UnwrapType ==
    /\ phase = "unwrap" /\ todo # << >>
    /\ LET p == Head(todo)
           s == slots[p.at][p.table][p.index]
           u == UnwrapShape[s.type]
       IN  IF s.copy
           THEN Put(p, s) /\ UNCHANGED << heap, errors >>
           ELSE /\ UnwrapInPlace(s.type)
                /\ IF u.ok
                   THEN Put(p, u.shape) /\ UNCHANGED errors
                   ELSE errors' = errors \cup {<< "type", s.type >>} /\ UNCHANGED << slots, tables >>
    /\ todo' = Tail(todo)
    /\ UNCHANGED << given, definedBy, cache, phase, left, calls, reported >>

\* Errors of the types end the call before the annotations.
TypesUnwrapped ==
    /\ phase = "unwrap" /\ FragmentsDone
    /\ IF errors = {}
       THEN /\ phase' = "links" /\ todo' = [e \in Extensions |-> e]
            /\ UNCHANGED << errors, calls, reported, cache >>
       ELSE Returns("unwrap") /\ UNCHANGED todo
    /\ UNCHANGED << given, slots, tables, heap, definedBy, left >>

\* unwrapDomainExtensions: one annotation is linked again, by name.  The table
\* has an entry for every fragment that declares a type.
UnwrapDomainExtension ==
    /\ phase = "links" /\ todo # << >>
    /\ LET e  == Head(todo)
           db == definedBy[e]
       IN  IF db = None
           THEN Crashes
           ELSE /\ definedBy' = [definedBy EXCEPT ![e] = tables["annotation"][Location(db.type)][Name(db)]]
                /\ todo' = Tail(todo)
                /\ UNCHANGED << given, slots, tables, heap, cache, phase, left, errors, calls, reported >>

UnwrapShapesReturns ==
    /\ phase = "links" /\ todo = << >>
    /\ Returns("unwrap")
    /\ UNCHANGED << given, slots, tables, heap, definedBy, left, todo >>

(***************************************************************************)
(* validateShapeFacets: a type defines no facet again that it is offered,  *)
(* sets those that are required and no others.  The marker that takes the  *)
(* place of the property of a recursive type has the facets of that type,  *)
(* but no parents, and so it is offered none.                              *)
(***************************************************************************)
FacetsFit(t, line) ==
    /\ given.defines[t] \cap line.offers = {}
    /\ given.required \cap line.offers \subseteq line.sets
    /\ line.sets \subseteq line.offers
    /\ t \in given.recursive => line.sets = {}

\* What Check and validateShapeCommons say of a type, given whether it is merged.
Passes(t, whole, line) ==
    /\ given.fault[t] = "none" \/ (given.fault[t] = "merged" /\ ~whole)
    /\ FacetsFit(t, line)

\* Whether a value fits a type, given whether it is merged.
Fits(value, whole) == value = "good" \/ (value = "wide" /\ ~whole)

\* A recursive type that is unwrapped, while no UnwrapShapes came as far as
\* markShapeRecursions: Check follows the cycle until the stack is used up.
Unmarked(s) ==
    /\ IsUnwrapped(s) /\ s.type \in given.recursive
    /\ ~\E i \in DOMAIN calls : calls[i].call = "unwrap" /\ calls[i].ok

\* Mutant of ValidateType: a copy is cached once it is found right.
ValidateTypeCachesLate ==
    /\ phase = "validate" /\ todo # << >>
    /\ LET p == Head(todo) IN ~Unmarked(slots[p.at][p.table][p.index])
    /\ LET p == Head(todo)
           s == slots[p.at][p.table][p.index]
           t == s.type
           u == UnwrapShape[t]
           right == IF IsUnwrapped(s) THEN Passes(t, s \in merged, facets[t])
                    ELSE u.ok /\ Passes(u.shape.type, u.whole, u.line)
       IN  /\ cache' = IF IsUnwrapped(s) \/ ~right THEN cache ELSE [cache EXCEPT ![t] = u]
           /\ errors' = IF right THEN errors ELSE errors \cup {<< "type", t >>}
    /\ todo' = Tail(todo)
    /\ UNCHANGED << given, slots, tables, heap, definedBy, phase, left, calls, reported >>

ValidateTypeOverflows ==
    /\ phase = "validate" /\ todo # << >>
    /\ LET p == Head(todo) IN Unmarked(slots[p.at][p.table][p.index])
    /\ phase' = "overflowed"
    /\ UNCHANGED << given, slots, tables, heap, definedBy, cache, left, todo, errors, calls, reported >>

\* validateTypes, validateDataType: one type.  What is not unwrapped is cloned,
\* flags included, the copy unwrapped, marked, cached and checked.
ValidateType ==
    /\ phase = "validate" /\ todo # << >>
    /\ LET p == Head(todo) IN ~Unmarked(slots[p.at][p.table][p.index])
    /\ LET p == Head(todo)
           s == slots[p.at][p.table][p.index]
           t == s.type
           u == UnwrapShape[t]
           right == IF IsUnwrapped(s) THEN Passes(t, s \in merged, facets[t])
                    ELSE u.ok /\ Passes(u.shape.type, u.whole, u.line)
       IN  /\ cache' = IF IsUnwrapped(s) \/ ~u.ok THEN cache ELSE [cache EXCEPT ![t] = u]
           /\ errors' = IF right THEN errors ELSE errors \cup {<< "type", t >>}
    /\ todo' = Tail(todo)
    /\ UNCHANGED << given, slots, tables, heap, definedBy, phase, left, calls, reported >>

TypesValidated ==
    /\ phase = "validate" /\ FragmentsDone
    /\ phase' = "values"
    /\ todo' = [e \in Extensions |-> e]
    /\ UNCHANGED << given, slots, tables, heap, definedBy, cache, left, errors, calls, reported >>

\* validateDomainExtensions: one annotation, against the type that defines it if
\* this is unwrapped, else against the copy of it in the cache.
ValidateDomainExtension ==
    /\ phase = "values" /\ todo # << >>
    /\ LET e     == Head(todo)
           db    == definedBy[e]
           value == given.extensions[e].value
           right == IF IsUnwrapped(db) THEN Fits(value, db \in merged)
                    ELSE cache[db.type] # None /\ Fits(value, cache[db.type].whole)
       IN  IF db = None
           THEN Crashes
           ELSE /\ errors' = IF right THEN errors ELSE errors \cup {<< "annotation", e >>}
                /\ todo' = Tail(todo)
                /\ UNCHANGED << given, slots, tables, heap, definedBy, cache, phase, left, calls, reported >>

ValidateShapesReturns ==
    /\ phase = "values" /\ todo = << >>
    /\ Returns("validate")
    /\ UNCHANGED << given, slots, tables, heap, definedBy, left, todo >>

\* The client is done; lets TLC tell the end from a deadlock.
Over ==
    /\ phase \in {"refused", "crashed", "overflowed"} \/ (phase = "idle" /\ Len(calls) = MaxCalls)
    /\ UNCHANGED vars

Next ==
    \/ ResolveDomainExtension \/ Resolved
    \/ CallUnwrapShapes \/ CallValidateShapes \/ NextFragment
    \/ UnwrapType \/ TypesUnwrapped \/ UnwrapDomainExtension \/ UnwrapShapesReturns
    \/ ValidateType \/ ValidateTypeOverflows \/ TypesValidated \/ ValidateDomainExtension \/ ValidateShapesReturns
    \/ Over

Spec == Init /\ [][Next]_vars

-----------------------------------------------------------------------------
(* Properties *)

\* The places of all declared types.
AllPlaces ==
    UNION { {[at |-> l, table |-> table, index |-> i] : i \in DOMAIN given.declared[l][table]} :
            l \in Locations, table \in Tables }

Errors == ({"type"} \X Types) \cup ({"annotation"} \X Extensions)

TypeOK ==
    /\ given \in Models
    /\ slots \in [Locations -> [Tables -> Seq(Shape)]]
    /\ \A l \in Locations, table \in Tables :
          DOMAIN slots[l][table] = DOMAIN given.declared[l][table]
    /\ tables \in [Tables -> [Locations -> [Names -> Shape \cup {None}]]]
    /\ flagged \subseteq Types /\ visited \subseteq Types /\ merged \subseteq Shape
    /\ facets \in [Types -> [sets : SUBSET FacetNames, offers : SUBSET FacetNames]]
    /\ definedBy \in [Extensions -> Shape \cup {None}]
    /\ cache \in [Types -> Outcome \cup {None}]
    /\ phase \in {"resolve", "refused", "idle", "unwrap", "links", "validate", "values",
                  "crashed", "overflowed"}
    /\ left \subseteq Locations
    /\ phase \in {"resolve", "links", "values"} => todo \in Seq(Extensions)
    /\ phase \in {"unwrap", "validate"} => todo \in Seq(AllPlaces)
    /\ phase = "idle" => todo = << >>
    /\ errors \subseteq Errors /\ reported \subseteq Errors
    /\ calls \in Seq([call : {"unwrap", "validate"}, ok : BOOLEAN])

\* The type an annotation is meant to be defined by: the one its library
\* declares under the full name, else the one of the library the prefix names.
Meant(e) ==
    LET x    == given.extensions[e]
        used == given.uses[x.at][x.name]
        Is(t, l, n) == Location(t) = l /\ given.name[t] = n
                       /\ \E i \in DOMAIN given.declared[l]["annotation"] :
                             given.declared[l]["annotation"][i] = t
    IN  CHOOSE t \in Types :
           \/ given.isLibrary[x.at] /\ Is(t, x.at, x.name)
           \/ /\ ~\E u \in Types : given.isLibrary[x.at] /\ Is(u, x.at, x.name)
              /\ used # None /\ Is(t, used.at, used.name)

\* A type that cannot be merged, on its own account or that of an ancestor.
Unmergeable ==
    LET bad[t \in Types] == \/ given.parent[t] # None /\ t \in given.clashes
                            \/ given.parent[t] # None /\ bad[given.parent[t]]
    IN  {t \in Types : bad[t]}

\* The types a type inherits from, directly or not, and the custom facets it has
\* a value of and those it may have, by what is declared.
Ancestors ==
    LET above[t \in Types] ==
            IF given.parent[t] = None THEN {} ELSE {given.parent[t]} \cup above[given.parent[t]]
    IN  above

Sets(t)   == UNION {given.sets[a] : a \in {t} \cup Ancestors[t]}
Offers(t) == UNION {given.defines[a] : a \in Ancestors[t]}

\* A facet is defined twice, missing, or not defined.
Misused(t) ==
    \/ \E f \in given.defines[t] : \E a \in Ancestors[t] : f \in given.defines[a]
    \/ \E f \in given.required : f \in Offers(t) /\ f \notin Sets(t)
    \/ \E f \in Sets(t) : f \notin Offers(t)

\* What is wrong with the model: types that cannot be merged or that are wrong
\* once they are, and annotations that do not fit their type, or whose type has
\* no merged form they could fit.
Wrong ==
    {<< "type", t >> : t \in {t \in Types : t \in Unmergeable \/ given.fault[t] # "none" \/ Misused(t)}}
      \cup {<< "annotation", e >> : e \in {e \in Extensions :
               Meant(e) \in Unmergeable \/ given.extensions[e].value # "good"}}

Unwraps(ok) == {i \in DOMAIN calls : calls[i].call = "unwrap" /\ calls[i].ok = ok}

\* No type was left half merged, and none replaced, by an UnwrapShapes.
InOrder ==
    /\ Unwraps(FALSE) = {}
    /\ Unwraps(TRUE) # {} => slots = Slots /\ \A t \in Types : Own(t) \in merged

\* ValidateShapes reports what is wrong with the model, all of it and nothing
\* else: in whatever order the fragments come, whether UnwrapShapes succeeded
\* before or was not called, and as often as it is called; in particular an
\* annotation is checked against the merged form of the type it refers to, and
\* custom facets against what all ancestors define and set.  (A recursive type with
\* custom facets is always refused, for the marker in it.)  Once an UnwrapShapes
\* failed, or replaced a type by another shape, this is no longer so; and only
\* after one that failed can it happen that the call does not return.
ReportsWhatIsWrong ==
    LET refused == {<< "type", t >> : t \in {t \in given.recursive : Sets(t) # {}}}
    IN  /\ phase = "idle" /\ calls # << >> /\ calls[Len(calls)].call = "validate" /\ InOrder
            => reported = Wrong \cup refused
        /\ phase = "overflowed" => Unwraps(FALSE) # {}

\* The first UnwrapShapes fails exactly if some type cannot be merged with its
\* parent, in whatever order the fragments come: a type that was reached through
\* a child and failed passes for unwrapped when its own turn comes.  (The visited
\* flag of a union can hide the error of a second child: the parents are plain.)
UnwrapFindsClashes ==
    (\A t \in Types : given.form[t] = "plain") =>
        \A i \in DOMAIN calls :
            calls[i].call = "unwrap" /\ (\A j \in 1..(i - 1) : calls[j].call # "unwrap")
                => (calls[i].ok <=> Unmergeable = {})

\* The annotation type of no annotation gets lost in UnwrapShapes, unless a type
\* was replaced by its parent: DefinedBy is not nil when it is followed.
DefinedByKept ==
    phase # "resolve" /\ phase # "refused"
      /\ (\A l \in Locations, table \in Tables : \A i \in DOMAIN slots[l][table] :
             slots[l][table][i].type = given.declared[l][table][i])
        => /\ phase # "crashed"
           /\ \A e \in Extensions : definedBy[e] # None

=============================================================================
