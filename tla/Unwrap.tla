-------------------------------- MODULE Unwrap --------------------------------
(***************************************************************************)
(* RAML.UnwrapShape and BaseShape.Inherit (unwrap.go, shape.go, and the    *)
(* alias and inherit methods of ObjectShape in complex.go).                *)
(*                                                                         *)
(* A declared type refers to its parents by alias, by !include link or by  *)
(* inheritance, and its properties are shapes of their own.  Unwrapping    *)
(* walks all of these depth first and merges every parent into its child   *)
(* in place.  The unwrapped flag is set before the walk, so that recursive *)
(* types end, and a type may be merged into another while its own parents  *)
(* are not yet merged into it.                                             *)
(*                                                                         *)
(* Types are objects, scalars or any.  Of the facets of a shape only who   *)
(* declared them is kept.  Ordered maps of properties are shared by        *)
(* pointer: a map is named after the shape it was parsed for.  The two     *)
(* recursive Go functions are a stack of activation records and the result *)
(* of the last one to return.                                              *)
(***************************************************************************)
EXTENDS Naturals, Sequences, FiniteSets

CONSTANTS
    Shapes,      \* the shapes the resolver produced
    Names,       \* names of properties
    Models,      \* the models the unwrapper may be given (see ModelType)
    None

Property == [name : Names, base : Shapes]

(***************************************************************************)
(* kind      the concrete type of a shape                                  *)
(* alias     the type a shape is another name of, or None                  *)
(* parents   the shape of the linked fragment, or the inherited types      *)
(* props     the properties declared by a shape itself                     *)
(* rejected  the shapes for which a registered hook returns an error       *)
(* roots     the declared types of all fragments (a Go map: in any order)  *)
(***************************************************************************)
ModelType ==
    [ kind     : [Shapes -> {"object", "scalar", "any"}],
      alias    : [Shapes -> Shapes \cup {None}],
      parents  : [Shapes -> Seq(Shapes)],
      props    : [Shapes -> Seq(Property)],
      rejected : SUBSET Shapes,
      roots    : Seq(Shapes) ]

\* An alias has nothing of its own; the properties of a type are the entries of
\* a map, and each has a shape of its own.
WellFormed(g) ==
    /\ \A s \in Shapes : g.alias[s] # None => g.parents[s] = << >> /\ g.props[s] = << >>
    /\ \A s \in Shapes : \A k, l \in DOMAIN g.props[s] :
          g.props[s][k].name = g.props[s][l].name => k = l
    /\ \A s, t \in Shapes : \A k \in DOMAIN g.props[s] : \A l \in DOMAIN g.props[t] :
          g.props[s][k].base = g.props[t][l].base => s = t /\ k = l

ASSUME ConstantsAssumption ==
    /\ IsFiniteSet(Shapes)
    /\ None \notin Shapes \cup [ok : BOOLEAN, shape : Shapes \cup {None}]
    /\ Models \subseteq ModelType
    /\ \A g \in Models : WellFormed(g)

VARIABLES
    given,       \* the model as the resolver left it (never changes)
    parents,     \* BaseShape.Inherits, or the shape of BaseShape.Link
    map,         \* which map Properties points to, or None
    entries,     \* the content of every map
    facets,      \* whose facet declarations a shape carries
    unwrapped,   \* BaseShape.unwrapped
    visited,     \* BaseShape.ShapeVisited
    frames,      \* activation records of UnwrapShape and Inherit
    ret,         \* what the last call to return returned, or None
    todo,        \* the declared types still to unwrap
    result,      \* what the unwrapper put in the place of a declared type
    failed       \* an error has been collected

vars == << given, parents, map, entries, facets, unwrapped, visited, frames,
           ret, todo, result, failed >>

heap == << parents, map, entries, facets, unwrapped, visited >>

Ok(s) == [ok |-> TRUE, shape |-> s]
Error == [ok |-> FALSE, shape |-> None]

Top   == frames[Len(frames)]
S     == Top.shape
Below == SubSeq(frames, 1, Len(frames) - 1)

\* The top frame with some fields changed.
Becomes(f) == Append(Below, f)

PropsOf(s) == IF map[s] = None THEN << >> ELSE entries[map[s]]

-----------------------------------------------------------------------------

Init ==
    /\ given \in Models
    /\ parents = given.parents
    /\ map = [s \in Shapes |-> IF given.props[s] = << >> THEN None ELSE s]
    /\ entries = given.props
    /\ facets = [s \in Shapes |-> IF given.alias[s] = None /\ given.kind[s] # "any"
                                  THEN {s} ELSE {}]
    /\ unwrapped = [s \in Shapes |-> FALSE]
    /\ visited = [s \in Shapes |-> FALSE]
    /\ frames = << >>
    /\ ret = None
    /\ todo = given.roots
    /\ result = [s \in Shapes |-> s]
    /\ failed = FALSE

\* UnwrapShape(s) is called, with the records fs below it.
UnwrapShape(fs, s) ==
    \/ /\ s \in given.rejected
       /\ ret' = Error
       /\ frames' = fs
       /\ UNCHANGED heap
    \/ /\ s \notin given.rejected /\ unwrapped[s]
       /\ ret' = Ok(s)
       /\ frames' = fs
       /\ UNCHANGED heap
    \/ /\ s \notin given.rejected /\ ~unwrapped[s]
       /\ unwrapped' = [unwrapped EXCEPT ![s] = TRUE]
       /\ frames' = Append(fs, [ shape  |-> s,
                                 at     |-> IF given.alias[s] = None THEN "parents" ELSE "alias",
                                 next   |-> 1,
                                 source |-> None ])
       /\ ret' = None
       /\ UNCHANGED << parents, map, entries, facets, visited >>

\* Mutant of Inherit: the facets are merged into the parent.
InheritSwapped(fs, target, source) ==
    \/ /\ visited[source]
       /\ ret' = Ok(source)
       /\ frames' = fs
       /\ UNCHANGED heap
    \/ /\ ~visited[source]
       /\ given.kind[source] = "any" \/ given.kind[source] # given.kind[target]
       /\ visited' = [visited EXCEPT ![source] = TRUE]
       /\ ret' = IF given.kind[source] = "any" THEN Ok(target) ELSE Error
       /\ frames' = fs
       /\ UNCHANGED << parents, map, entries, facets, unwrapped >>
    \/ /\ ~visited[source]
       /\ given.kind[source] # "any" /\ given.kind[source] = given.kind[target]
       /\ visited' = [visited EXCEPT ![source] = TRUE]
       /\ facets' = [facets EXCEPT ![source] = @ \cup facets[target]]
       /\ map' = [map EXCEPT ![target] = IF @ = None THEN map[source] ELSE @]
       /\ frames' = Append(fs, [ shape  |-> target,
                                 at     |-> IF map[target] = None THEN "merged" ELSE "merge",
                                 next   |-> 1,
                                 source |-> source ])
       /\ ret' = None
       /\ UNCHANGED << parents, entries, unwrapped >>

\* target.Inherit(source) is called.  A source that is any returns with its
\* flag set, as does one of another type, whose error ends the whole unwrap.
Inherit(fs, target, source) ==
    \/ /\ visited[source]
       /\ ret' = Ok(source)
       /\ frames' = fs
       /\ UNCHANGED heap
    \/ /\ ~visited[source]
       /\ given.kind[source] = "any" \/ given.kind[source] # given.kind[target]
       /\ visited' = [visited EXCEPT ![source] = TRUE]
       /\ ret' = IF given.kind[source] = "any" THEN Ok(target) ELSE Error
       /\ frames' = fs
       /\ UNCHANGED << parents, map, entries, facets, unwrapped >>
    \/ /\ ~visited[source]
       /\ given.kind[source] # "any" /\ given.kind[source] = given.kind[target]
       /\ visited' = [visited EXCEPT ![source] = TRUE]
       /\ facets' = [facets EXCEPT ![target] = @ \cup facets[source]]
       /\ map' = [map EXCEPT ![target] = IF @ = None THEN map[source] ELSE @]
       /\ frames' = Append(fs, [ shape  |-> target,
                                 at     |-> IF map[target] = None THEN "merged" ELSE "merge",
                                 next   |-> 1,
                                 source |-> source ])
       /\ ret' = None
       /\ UNCHANGED << parents, entries, unwrapped >>

\* The call of the top record returns r.
Returns(r) == frames' = Below /\ ret' = r

At(place)     == frames # << >> /\ Top.at = place
Calls(place)  == ret = None /\ At(place)
Gets(place)   == ret # None /\ ret.ok /\ At(place)
Unchanged     == UNCHANGED << given, todo, result, failed >>

\* unwrapTypes, unwrapDataType: the next declared type.
CallRoot ==
    /\ frames = << >> /\ ret = None /\ todo # << >>
    /\ UnwrapShape(<< >>, Head(todo))
    /\ Unchanged

\* The declared type is replaced, or its error collected.
RootReturns ==
    /\ frames = << >> /\ ret # None
    /\ result' = [result EXCEPT ![Head(todo)] = IF ret.ok THEN ret.shape ELSE @]
    /\ failed' = (failed \/ ~ret.ok)
    /\ todo' = Tail(todo)
    /\ ret' = None
    /\ UNCHANGED << given, heap, frames >>

CallAlias == Calls("alias") /\ UnwrapShape(frames, given.alias[S]) /\ Unchanged

\* AliasTo: pointers and values of the source replace those of the alias.
AliasTo ==
    /\ Gets("alias")
    /\ IF given.kind[S] = given.kind[ret.shape]
       THEN /\ parents' = [parents EXCEPT ![S] = parents[ret.shape]]
            /\ map'     = [map     EXCEPT ![S] = map[ret.shape]]
            /\ facets'  = [facets  EXCEPT ![S] = facets[ret.shape]]
            /\ Returns(Ok(S))
       ELSE /\ Returns(Error)
            /\ UNCHANGED << parents, map, facets >>
    /\ UNCHANGED << entries, unwrapped, visited >>
    /\ Unchanged

CallParent ==
    /\ Calls("parents") /\ Top.next <= Len(parents[S])
    /\ UnwrapShape(frames, parents[S][Top.next])
    /\ Unchanged

\* The first parent is the source of the merge to come.
FirstParent ==
    /\ Gets("parents") /\ Top.next = 1
    /\ parents' = [parents EXCEPT ![S][1] = ret.shape]
    /\ frames' = Becomes([Top EXCEPT !.next = 2, !.source = ret.shape])
    /\ ret' = None
    /\ UNCHANGED << map, entries, facets, unwrapped, visited >>
    /\ Unchanged

\* The others are merged into the first, which is a shape of its own only if
\* it was not an alias.
OtherParent ==
    /\ Gets("parents") /\ Top.next > 1
    /\ Inherit(Becomes([Top EXCEPT !.at = "joined"]), Top.source, ret.shape)
    /\ Unchanged

ParentJoined ==
    /\ Gets("joined")
    /\ parents' = [parents EXCEPT ![S][Top.next] = ret.shape]
    /\ frames' = Becomes([Top EXCEPT !.at = "parents", !.next = @ + 1])
    /\ ret' = None
    /\ UNCHANGED << map, entries, facets, unwrapped, visited >>
    /\ Unchanged

\* unwrapParents is done, UnwrapTarget begins.
ParentsDone ==
    /\ Calls("parents") /\ Top.next > Len(parents[S])
    /\ frames' = Becomes([Top EXCEPT !.at = "props", !.next = 1])
    /\ UNCHANGED << heap, ret >>
    /\ Unchanged

CallProperty ==
    /\ Calls("props") /\ Top.next <= Len(PropsOf(S))
    /\ UnwrapShape(frames, PropsOf(S)[Top.next].base)
    /\ Unchanged

PropertyReturns ==
    /\ Gets("props")
    /\ entries' = [entries EXCEPT ![map[S]][Top.next].base = ret.shape]
    /\ frames' = Becomes([Top EXCEPT !.next = @ + 1])
    /\ ret' = None
    /\ UNCHANGED << parents, map, facets, unwrapped, visited >>
    /\ Unchanged

\* The target is unwrapped: what its parents gave is now merged into it.
MergeSource ==
    /\ Calls("props") /\ Top.next > Len(PropsOf(S))
    /\ IF Top.source = None
       THEN Returns(Ok(S)) /\ UNCHANGED heap
       ELSE Inherit(Becomes([Top EXCEPT !.at = "source"]), S, Top.source)
    /\ Unchanged

\* UnwrapShape returns what Inherit returned, which may be the source.
SourceMerged == Gets("source") /\ Returns(ret) /\ UNCHANGED heap /\ Unchanged

\* Mutant of MergeProperty: a property both have is left as the child has it.
KeepProperty ==
    /\ Calls("merge") /\ Top.next <= Len(PropsOf(Top.source))
    /\ LET theirs == PropsOf(Top.source)[Top.next]
       IN  entries' = IF \E i \in DOMAIN PropsOf(S) : PropsOf(S)[i].name = theirs.name
                      THEN entries
                      ELSE [entries EXCEPT ![map[S]] = Append(@, theirs)]
    /\ frames' = Becomes([Top EXCEPT !.next = @ + 1])
    /\ UNCHANGED << parents, map, facets, unwrapped, visited, ret >>
    /\ Unchanged

\* inheritProperties: a property both have is merged, another one is added.
MergeProperty ==
    /\ Calls("merge") /\ Top.next <= Len(PropsOf(Top.source))
    /\ LET theirs == PropsOf(Top.source)[Top.next]
           Ours   == {i \in DOMAIN PropsOf(S) : PropsOf(S)[i].name = theirs.name}
       IN  IF Ours = {}
           THEN /\ entries' = [entries EXCEPT ![map[S]] = Append(@, theirs)]
                /\ frames' = Becomes([Top EXCEPT !.next = @ + 1])
                /\ UNCHANGED << parents, map, facets, unwrapped, visited, ret >>
           ELSE \E i \in Ours : Inherit(frames, PropsOf(S)[i].base, theirs.base)
    /\ Unchanged

\* Mutant of PropertyMerged: the loop does not go on.
PropertyAgain ==
    /\ Gets("merge")
    /\ ret' = None
    /\ UNCHANGED << heap, frames >>
    /\ Unchanged

\* The result of a property's Inherit is not used.
PropertyMerged ==
    /\ Gets("merge")
    /\ frames' = Becomes([Top EXCEPT !.next = @ + 1])
    /\ ret' = None
    /\ UNCHANGED heap
    /\ Unchanged

\* Mutant of InheritReturns: the source is returned.
InheritReturnsSource ==
    /\ \/ Calls("merged")
       \/ Calls("merge") /\ Top.next > Len(PropsOf(Top.source))
    /\ visited' = [visited EXCEPT ![Top.source] = FALSE]
    /\ Returns(Ok(Top.source))
    /\ UNCHANGED << parents, map, entries, facets, unwrapped >>
    /\ Unchanged

\* Mutant of InheritReturns: the flag of the source is not cleared.
InheritReturnsVisited ==
    /\ \/ Calls("merged")
       \/ Calls("merge") /\ Top.next > Len(PropsOf(Top.source))
    /\ Returns(Ok(S))
    /\ UNCHANGED heap
    /\ Unchanged

InheritReturns ==
    /\ \/ Calls("merged")
       \/ Calls("merge") /\ Top.next > Len(PropsOf(Top.source))
    /\ visited' = [visited EXCEPT ![Top.source] = FALSE]
    /\ Returns(Ok(S))
    /\ UNCHANGED << parents, map, entries, facets, unwrapped >>
    /\ Unchanged

\* Every caller returns the error it gets; flags stay as they are.
PassError ==
    /\ frames # << >> /\ ret = Error
    /\ frames' = Below
    /\ UNCHANGED << heap, ret >>
    /\ Unchanged

Done == frames = << >> /\ ret = None /\ todo = << >>

\* The pass is over; lets TLC tell the end from a deadlock.
Over == Done /\ UNCHANGED vars

Next ==
    \/ CallRoot \/ RootReturns \/ CallAlias \/ AliasTo
    \/ CallParent \/ FirstParent \/ OtherParent \/ ParentJoined \/ ParentsDone
    \/ CallProperty \/ PropertyReturns \/ MergeSource \/ SourceMerged
    \/ MergeProperty \/ PropertyMerged \/ InheritReturns \/ PassError \/ Over

\* The pass is a plain loop of one goroutine: it runs until it returns.
Spec == Init /\ [][Next]_vars /\ WF_vars(Next)

-----------------------------------------------------------------------------

Record == [ shape  : Shapes,
            at     : {"alias", "parents", "joined", "props", "source", "merge", "merged"},
            next   : Nat \ {0},
            source : Shapes \cup {None} ]

\* Every variable has its type.
TypeOK ==
    /\ given \in ModelType
    /\ parents \in [Shapes -> Seq(Shapes)]
    /\ map \in [Shapes -> Shapes \cup {None}]
    /\ entries \in [Shapes -> Seq(Property)]
    /\ facets \in [Shapes -> SUBSET Shapes]
    /\ unwrapped \in [Shapes -> BOOLEAN]
    /\ visited \in [Shapes -> BOOLEAN]
    /\ frames \in Seq(Record)
    /\ ret \in [ok : BOOLEAN, shape : Shapes \cup {None}] \cup {None}
    /\ todo \in Seq(Shapes)
    /\ result \in [Shapes -> Shapes]
    /\ failed \in BOOLEAN

-----------------------------------------------------------------------------
(***************************************************************************)
(* What the declarations say, without any walk.                            *)
(***************************************************************************)

\* The shapes reached from s in any number of steps of the relation.
Closure(step(_), s) ==
    LET within[k \in 0 .. Cardinality(Shapes)] ==
            IF k = 0 THEN {s}
            ELSE LET T == within[k - 1] IN T \cup UNION {step(t) : t \in T}
    IN  within[Cardinality(Shapes)]

Above(s) == {given.parents[s][i] : i \in DOMAIN given.parents[s]}
                \cup ({given.alias[s]} \ {None})

Own(s) == {given.props[s][i] : i \in DOMAIN given.props[s]}

\* The ancestors of every shape, itself included.
Ancestors == [s \in Shapes |-> Closure(Above, s)]

\* The names of the properties of every shape.
AllNames ==
    LET anc == Ancestors
    IN  [s \in Shapes |-> UNION {{p.name : p \in Own(t)} : t \in anc[s]}]

\* The properties of its owners' ancestors that a shape redeclares.
Redeclared ==
    LET anc == Ancestors
        by(o, s) == {q.base : q \in {q \in UNION {Own(t) : t \in anc[o] \ {o}} :
                                        [name |-> q.name, base |-> s] \in Own(o)}}
    IN  [s \in Shapes |-> UNION {by(o, s) : o \in Shapes}]

\* Whose declarations bind a value of a shape: its own, its parents', and
\* those of the properties it redeclares.
Binding ==
    LET over == Redeclared
        narrowed(s) == Above(s) \cup over[s]
    IN  [s \in Shapes |-> {t \in Closure(narrowed, s) :
                               given.alias[t] = None /\ given.kind[t] # "any"}]

\* Properties of the same name, one of a shape and one of what it narrows.
Redeclares(R) ==
    UNION {{<< e[1].base, e[2].base >> : e \in {e \in Own(r[1]) \X Own(r[2]) : e[1].name = e[2].name}} :
              r \in R}

\* Which shapes a shape may be merged with, directly or not: those above it,
\* and, if its owner narrows another type, the properties it redeclares.
Narrowing ==
    LET Wider(R) == R \cup Redeclares(R)
                      \cup {<< r[1][1], r[2][2] >> : r \in {r \in R \X R : r[1][2] = r[2][1]}}
        last == Cardinality(Shapes) * Cardinality(Shapes) + 1
        within[k \in 0 .. last] ==
            IF k = 0 THEN [pairs |-> {r \in Shapes \X Shapes : r[2] \in Above(r[1])}, grows |-> TRUE]
            ELSE LET r == within[k - 1]
                 IN  IF r.grows THEN [pairs |-> Wider(r.pairs), grows |-> Wider(r.pairs) # r.pairs]
                     ELSE r
    IN  within[last].pairs

NamesOf(s) == {PropsOf(s)[i].name : i \in DOMAIN PropsOf(s)}

\* What a shape refers to, and what it is merged with.
Reaches(s) == Above(s) \cup {p.base : p \in Own(s)}

\* A type under way may be merged before it is complete: from a type a shape is
\* reached, through a property or a parent, that inherits from a part of the
\* type, or redeclares it, while that part has something to be merged with
\* itself; or a shape that is merged with two others, and may share the map of
\* the first, is reached from itself.
Recursive  ==
    LET over == Redeclared
        narrowed(s) == Above(s) \cup over[s]
        parts(s) == {p.base : p \in Own(s)}
        linked(s) == Reaches(s) \cup over[s]
    IN  \/ \E o \in Shapes : \E t \in Closure(Reaches, o) :
            \E s \in narrowed(t) \cap Closure(parts, o) : narrowed(s) # {}
        \/ \E s \in Shapes :
            /\ Cardinality(narrowed(s)) > 1
            /\ \E t \in linked(s) : s \in Closure(linked, t)

UsesAny    == \E s \in Shapes : given.kind[s] = "any"

\* A shape into which two others are merged, and which may by then share the
\* map or the property shapes of the first: one that has parents and
\* redeclares a property, or the first type of a multiple inheritance.
Borrows(R) ==
    \/ \E r \in Redeclares(R) : Above(r[1]) # {}
    \/ \E s \in Shapes : Len(given.parents[s]) > 1

Succeeded   == Done /\ ~failed
\* The unwrapped types are complete: whatever order the fragments come in and
\* however maps are shared, every shape the walk has reached carries the
\* facets and properties of all its parents, links and aliases, and those of
\* the parent's property it redeclares.
Complete ==
    Succeeded /\ ~Recursive =>
        LET bind == Binding
            names == AllNames
        IN  \A s \in Shapes : unwrapped[s] =>
                bind[s] \subseteq facets[s] /\ names[s] \subseteq NamesOf(s)

\* Nothing leaks from a child or a sibling into a type, although children
\* share the property maps of their parents and are completed in place: a
\* shape has only what the shapes it narrows declare.
NothingExtra ==
    LET R == Narrowing
    IN  Succeeded /\ ~Borrows(R) =>
            \A s \in Shapes :
                LET sources == {s} \cup {t \in Shapes : << s, t >> \in R}
                IN  /\ facets[s] \subseteq sources
                    /\ NamesOf(s) \subseteq UNION {{p.name : p \in Own(t)} : t \in sources}

\* The unwrapper works in place: as long as there is no error, neither a
\* declared type nor a property is ever replaced by another shape.  (An error
\* leaves the flags of the sources set, and the next child of such a source is
\* replaced by it.)
InPlace ==
    ~UsesAny /\ ~failed => \A s \in Shapes :
        /\ result[s] = s
        /\ SubSeq(entries[s], 1, Len(given.props[s])) = given.props[s]

\* ShapeVisited is set exactly for the sources of the merges under way, so a
\* source is never skipped because an earlier merge forgot its flag.
FlagIsSource ==
    ~UsesAny /\ ~failed /\ ret # Error =>
        \A s \in Shapes :
            visited[s] <=> \E i \in DOMAIN frames :
                frames[i].source = s /\ frames[i].at \in {"merge", "merged"}

\* The unwrapper returns, on recursive types too.
Terminates == <>Done

=============================================================================
