----------------------------- MODULE Inheritance ------------------------------
(***************************************************************************)
(* How the types of a document become complete types: RAML.unwrapParents   *)
(* and UnwrapShape (unwrap.go) with the merging of facets, which           *)
(* Unwrap.tla leaves out, and the check of the result in                   *)
(* RAML.validateTypes (validate.go).  What the facets of two types make is *)
(* in Facets.tla.                                                          *)
(*                                                                         *)
(* Types are taken in the order in which UnwrapShape finishes them, a type *)
(* after those it refers to.  How that order comes about, and what types   *)
(* share, is the subject of Unwrap.tla: here a list of parents names       *)
(* scalars and unions only, which share nothing that is changed.           *)
(***************************************************************************)
EXTENDS SchemaFacets

CONSTANTS
    Documents,  \* what may be declared: sequences of declarations
    Values,     \* the values that types are tried with, in properties only
    FirstID     \* the first identity that is free

\* The i-th type declares facets, and is an alias or has parents, or neither.
Declaration(i) == [facets : Shape, alias : 0 .. i - 1, parents : Seq(1 .. i - 1)]

Composites == {"array", "object"}

\* A type has the type of its first parent, or of what it is an alias of.
WellFormed(g) ==
    \A i \in DOMAIN g :
        /\ g[i] \in Declaration(i)
        /\ g[i].alias # 0 => /\ g[i].parents = << >>
                             /\ g[i].facets = Plain(g[g[i].alias].facets.type, g[i].facets.id)
        /\ g[i].parents # << >> => g[i].facets.type = g[g[i].parents[1]].facets.type
        /\ Len(g[i].parents) > 1 => g[i].facets.type \notin Composites

ASSUME DocumentsAssumption ==
    /\ \A g \in Documents : DOMAIN g = 1 .. Len(g) /\ WellFormed(g)
    /\ FirstID \in Nat

VARIABLES
    given,     \* the document (never changes)
    merged,    \* the types: what is declared, or complete
    done,      \* the types unwrapped so far are 1 .. done
    joined,    \* the parents of the type being unwrapped that are joined
    source,    \* what they were joined to
    heap,      \* the shapes marked as visited, and the next identity
    phase,     \* "unwrap", then "failed" or "over"
    valid      \* the types that are checked and found valid

vars == << given, merged, done, joined, source, heap, phase, valid >>

-----------------------------------------------------------------------------

Init ==
    /\ given \in Documents
    /\ merged = [i \in DOMAIN given |-> given[i].facets]
    /\ done = 0
    /\ joined = 0
    /\ source = None
    /\ heap = [visited |-> {}, next |-> FirstID]
    /\ phase = "unwrap"
    /\ valid = {}

\* The type being unwrapped.
Type    == given[done + 1]
Working == phase = "unwrap" /\ done < Len(given)

Completed(shape) ==
    /\ merged' = [merged EXCEPT ![done + 1] = shape]
    /\ done' = done + 1
    /\ joined' = 0
    /\ source' = None

\* A type without alias and parents stays as declared.
UnwrapRoot ==
    /\ Working /\ Type.alias = 0 /\ Type.parents = << >>
    /\ Completed(merged[done + 1])
    /\ UNCHANGED << given, heap, phase, valid >>

UnwrapAlias ==
    /\ Working /\ Type.alias # 0
    /\ Completed(AliasTo(merged[Type.alias], Type.facets.id))
    /\ UNCHANGED << given, heap, phase, valid >>

\* The shape unwrapped for the k-th parent: the parent, or for a list the
\* anonymous alias made for it.
Parent(k) ==
    LET declared == merged[Type.parents[k]]
    IN  IF Len(Type.parents) = 1 THEN declared ELSE AliasTo(declared, heap.next)

Taken == [heap EXCEPT !.next = IF Len(Type.parents) = 1 THEN @ ELSE @ + 1]

FirstParent ==
    /\ Working /\ Type.parents # << >> /\ joined = 0
    /\ source' = Parent(1)
    /\ joined' = 1
    /\ heap' = Taken
    /\ UNCHANGED << given, merged, done, phase, valid >>

Joining == Working /\ 0 < joined /\ joined < Len(Type.parents)
Joint   == Inherit(source, Parent(joined + 1), Taken)

\* The first parent inherits from each of the others in turn.
JoinParent ==
    /\ Joining /\ Joint.ok
    /\ source' = Joint.shape
    /\ joined' = joined + 1
    /\ heap' = Joint.heap
    /\ UNCHANGED << given, merged, done, phase, valid >>

Merging == Working /\ 0 < joined /\ joined = Len(Type.parents)
Whole   == Inherit(merged[done + 1], source, heap)

\* The type inherits from the parents joined.
MergeSource ==
    /\ Merging /\ Whole.ok
    /\ Completed(Whole.returned)
    /\ heap' = Whole.heap
    /\ UNCHANGED << given, phase, valid >>

\* An error: UnwrapShapes goes on with the other types and fails in the end,
\* whatever becomes of them, so the model ends here.
Reject ==
    /\ (Joining /\ ~Joint.ok) \/ (Merging /\ ~Whole.ok)
    /\ phase' = "failed"
    /\ UNCHANGED << given, merged, done, joined, source, heap, valid >>

\* All types are unwrapped and then checked; every error is reported.
CheckTypes ==
    /\ phase = "unwrap" /\ done = Len(given)
    /\ phase' = "over"
    /\ valid' = {i \in DOMAIN given : Check(merged[i])}
    /\ UNCHANGED << given, merged, done, joined, source, heap >>

\* The end; lets TLC tell it from a deadlock.
Over == phase \in {"failed", "over"} /\ UNCHANGED vars

Next ==
    \/ UnwrapRoot \/ UnwrapAlias \/ FirstParent \/ JoinParent \/ MergeSource
    \/ Reject \/ CheckTypes \/ Over

Spec == Init /\ [][Next]_vars

-----------------------------------------------------------------------------
(* Properties *)

Parents(i) == ToSet(given[i].parents)

\* Types are of their kind, and the parents joined are parents of the type.
TypeOK ==
    /\ WellFormed(given)
    /\ DOMAIN merged = DOMAIN given
    /\ \A i \in DOMAIN merged : merged[i] \in Shape
    /\ done \in 0 .. Len(given)
    /\ joined \in 0 .. IF done < Len(given) THEN Len(Type.parents) ELSE 0
    /\ source \in Facet(Shape)
    /\ joined > 0 <=> source # None
    /\ phase \in {"unwrap", "failed", "over"}
    /\ valid \subseteq DOMAIN given

Unwrapped == 1 .. done

\* What a type is made from.
Origins(i) == {given[i].facets} \cup {merged[p] : p \in Parents(i)}

Inner(s) ==
    (IF s.items = None THEN {} ELSE {s.items}) \cup {s.props[k].base : k \in Known(s)}

\* Where a type may accept what its parent does not: one regular expression
\* replaces another ("FIXME: Patterns are merged unconditionally"), a type
\* opens what its parent closes to additional properties, and it may choose
\* RFC 2616 if its parent, without a format, is read as RFC 3339.
Regular(S) ==
    /\ \A s, t \in S : s.pattern # None /\ t.pattern # None => s.pattern = t.pattern
    /\ \A s, t \in S : s.format = None => t.format # "rfc2616"
    /\ \A s \in S : s.additional # FALSE
    /\ \A s \in S : \A u \in Inner(s) : u.pattern = None /\ u.format # "rfc2616"

\* A complete type accepts a value if and only if it is accepted by the facets
\* the type declares and by every parent, except for unions: neither is a
\* constraint of the parents lost nor one invented, over any number of levels
\* and of parents (inherit in scalars.go and complex.go).
MergedIsMeet ==
    \A i \in Unwrapped :
        /\ given[i].alias = 0
        /\ Regular(Origins(i))
        /\ \A s \in Origins(i) : \A u \in {s} \cup Inner(s) : u.type # "union"
        /\ Len(given[i].parents) > 1 => given[i].facets.type # "boolean"
        => \A v \in Values : Accepts(merged[i], v) <=> \A s \in Origins(i) : Accepts(s, v)

\* Two types agree on where they have unions.
Alike(s, t) ==
    /\ (s.type = "union") = (t.type = "union")
    /\ s.items # None /\ t.items # None => (s.items.type = "union") = (t.items.type = "union")
    /\ \A k \in Known(s) \cap Known(t) :
           (s.props[k].base.type = "union") = (t.props[k].base.type = "union")

\* A type accepts nothing that a parent rejects, unions included: also where a
\* member of a union failed to inherit before and its source stayed marked
\* (UnionShape.inherit).
Narrows ==
    \A i \in Unwrapped :
        /\ Regular(Origins(i))
        /\ \A s, t \in Origins(i) : Alike(s, t)
        /\ Len(given[i].parents) > 1 => given[i].facets.type # "boolean"
        => \A p \in Parents(i), v \in Values : Accepts(merged[i], v) => Accepts(merged[p], v)

\* A type that passes the check has a value, whatever levels its bounds come
\* from, if only bounds and formats restrict it (check in scalars.go and complex.go).
CheckedHasValue ==
    \A i \in valid :
        LET s == merged[i]
        IN  s.additional # FALSE /\ s.enum = None /\ s.pattern = None /\ s.items = None /\ Known(s) = {} /\ s.anyOf = << >>
            => \E v \in Values : Accepts(s, v)

\* A facet of a type, alone.
Only(s, f) ==
    CASE f = "min"  -> [Plain(s.type, 0) EXCEPT !.min = s.min]
      [] f = "max"  -> [Plain(s.type, 0) EXCEPT !.max = s.max]
      [] f = "enum" -> [Plain(s.type, 0) EXCEPT !.enum = s.enum]

\* consts.go: "int is an alias for int32, long is an alias for int64".
Bits(f) == CASE f = "int8" -> 8 [] f = "int16" -> 16 [] f \in {"int", "int32"} -> 32
             [] f \in {"int64", "long"} -> 64 [] OTHER -> f

Conflict(t, s) ==
    \/ t.type # s.type
    \/ t.format # None /\ s.format # None /\ Bits(t.format) # Bits(s.format)
    \/ \E f \in {"min", "max", "enum"}, v \in Values :
          Accepts(Only(t, f), v) /\ ~Accepts(Only(s, f), v)

\* No type is rejected without cause: some facet of the target, alone, accepts
\* a value that the same facet of the source does not (scalars; the values of
\* an enum of numbers are not all accepted, those of fileTypes not at all).
RejectedForCause ==
    phase = "failed" =>
        LET whole == joined = Len(Type.parents)
            t == IF whole THEN merged[done + 1] ELSE source
            s == IF whole THEN source ELSE Parent(joined + 1)
        IN  t.type \in Scalars /\ s.type \in Scalars
            /\ ~(t.type \in {"number", "file"} /\ t.enum # None) => Conflict(t, s)

\* The JSON Schema of a valid type and the type itself accept the same values,
\* but for those that some part of the type takes for something else than its
\* schema does, and these differ in a known direction: what only the type
\* accepts are halves cut off to integers, loosely written dates, times of day
\* without an offset and strings long enough in bytes alone; what only the
\* schema accepts are days that do not exist, leap seconds, times of day with
\* an offset and strings short enough in characters alone (the visitors of
\* jsonschemaconv.go against the methods validate of scalars.go and complex.go).
SchemaAgrees ==
    \A i \in valid :
        LET s == merged[i]  schema == Visit(s)
        IN  (\A m \in PartsOf(s) : Expressible(m)) =>
                \A v \in Values :
                    /\ Accepts(s, v)     => Valid(schema, v) \/ Somewhere(Refused, s, v)
                    /\ Valid(schema, v) => Accepts(s, v) \/ Somewhere(Admitted, s, v)

\* "Merge will raise an error in case any of union members has incompatible
\* type" (inheritUnionTarget): where a type declares a property as a union and
\* its parent does not, all members are of the type of the parent's property.
UnionMembersChecked ==
    \A i \in Unwrapped : \A p \in Parents(i) :
        \A k \in Known(given[i].facets) \cap Known(merged[p]) :
            LET mine == given[i].facets.props[k].base  theirs == merged[p].props[k].base
            IN  mine.type = "union" /\ theirs.type \notin {"union", "any"}
                => \A m \in ToSet(mine.anyOf) : m.type = theirs.type

=============================================================================
