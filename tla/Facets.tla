-------------------------------- MODULE Facets --------------------------------
(***************************************************************************)
(* What a type accepts, and how the facets of a type are merged with those *)
(* of its parent: the methods validate, check, alias and inherit of the    *)
(* shapes (scalars.go, complex.go) and BaseShape.Inherit with its two      *)
(* union cases (shape.go).                                                 *)
(*                                                                         *)
(* A shape is a record with the facets of all types; a facet that is nil,  *)
(* or that the type does not have, is None.  Items, properties and union   *)
(* members are shapes themselves, one level deep: the items and properties *)
(* of a type are scalars or unions, the members of a union scalars.        *)
(*                                                                         *)
(* BaseShape.Inherit marks the source as visited and does not always take  *)
(* the mark back.  Shapes therefore have identities, and the operators     *)
(* that model it take and return a heap: the shapes marked, and the next   *)
(* identity generateShapeID gives.                                         *)
(***************************************************************************)
EXTENDS Integers, FiniteSets, SequencesExt

CONSTANTS
    None,
    Names   \* of properties

ASSUME NoneAssumption == None \notin Int /\ None \notin BOOLEAN

(***************************************************************************)
(* Values.  kind is the Go type of a value, and for a string how it is     *)
(* written; n is the number or the bytes of the string (one string of each *)
(* length and form); of holds the elements of an array or the properties   *)
(* of an object.  A half is the float64 n + 1/2; numbers are not negative. *)
(* An accented text has one character of two bytes.                        *)
(***************************************************************************)
DateTimes == {"rfc3339", "rfc2616"}
DateForms == {"datetime-only", "date-only", "time-only"}

\* Spellings of dates and times that are near to those and not them:
\* an hour of one digit, or a fraction after a comma or where the layout has
\* none; the 30th of February or a month 00; a second 60; a time of day with
\* its offset.
Spellings == {"rfc3339-comma", "rfc3339-leap", "rfc2616-fraction", "rfc2616-impossible",
              "datetime-fraction", "datetime-impossible", "time-fraction", "time-offset"}
\* The formats the decoders let through (consts.go).
IntegerFormats == {"int8", "int16", "int32", "int", "int64", "long"}
Formats        == IntegerFormats \cup {"float", "double"} \cup DateTimes

Strings   == {"text", "accented"} \cup DateTimes \cup DateForms \cup Spellings
Integral  == {"int", "float"}
Numbers   == Integral \cup {"half"}

Scalar(kind, n) == [kind |-> kind, n |-> n, of |-> << >>]
List(of)        == [kind |-> "array", n |-> 0, of |-> of]
Object(of)      == [kind |-> "object", n |-> 0, of |-> of]

Bounded   == {"integer", "number", "string", "file", "array", "object"}
Scalars   == {"integer", "number", "string", "file", "boolean", "datetime",
              "any", "nil"} \cup DateForms

Characters(v) == IF v.kind = "accented" THEN v.n - 1 ELSE v.n

\* A shape of a type without facets.  pattern is the set of lengths whose
\* strings match the regular expression; enum also stands for fileTypes.
Plain(type, id) ==
    [ type |-> type, id |-> id, min |-> None, max |-> None, enum |-> None,
      format |-> None, pattern |-> None, unique |-> None, items |-> None,
      additional |-> None, props |-> [k \in Names |-> None], anyOf |-> << >> ]

\* The properties a shape has.
Known(s) == {k \in Names : s.props[k] # None}

\* The shapes there may be.
Facet(S) == S \cup {None}

ScalarValue == [kind : Strings \cup Numbers \cup {"bool", "nil"}, n : Int, of : {<< >>}]

ScalarShape ==
    [ type : Scalars, id : Nat, min : Facet(Int), max : Facet(Int),
      enum : Facet(SUBSET ScalarValue), format : Facet(Formats), pattern : Facet(SUBSET Int),
      unique : {None}, items : {None}, additional : {None}, props : [Names -> {None}],
      anyOf : {<< >>} ]

UnionShape ==
    [ type : {"union"}, id : Nat, min : {None}, max : {None}, enum : {None}, format : {None},
      pattern : {None}, unique : {None}, items : {None}, additional : {None},
      props : [Names -> {None}], anyOf : Seq(ScalarShape) ]

ItemShape == ScalarShape \cup UnionShape

ArrayShape ==
    [ type : {"array"}, id : Nat, min : Facet(Nat), max : Facet(Nat), enum : {None},
      format : {None}, pattern : {None}, unique : Facet(BOOLEAN), items : Facet(ItemShape),
      additional : {None}, props : [Names -> {None}], anyOf : {<< >>} ]

ObjectShape ==
    [ type : {"object"}, id : Nat, min : Facet(Nat), max : Facet(Nat), enum : {None},
      format : {None}, pattern : {None}, unique : {None}, items : {None},
      additional : Facet(BOOLEAN),
      props : [Names -> Facet([base : ItemShape, required : BOOLEAN])],
      anyOf : {<< >>} ]

Shape == ItemShape \cup ArrayShape \cup ObjectShape

-----------------------------------------------------------------------------
(* validate *)

InBounds(s, n) ==
    /\ s.min = None \/ s.min <= n
    /\ s.max = None \/ n <= s.max

\* Enum values are compared as Go interfaces: an int is no float64.  A half is
\* cut off to the number below.
AcceptsInteger(s, v) ==
    /\ v.kind \in Numbers
    /\ InBounds(s, v.n)
    /\ s.enum = None \/ Scalar("int", v.n) \in s.enum

AcceptsNumber(s, v) ==
    /\ v.kind \in Numbers
    /\ InBounds(s, v.n)
    /\ v.kind = "half" => s.max = None \/ v.n < s.max
    /\ s.enum = None \/ (IF v.kind = "half" THEN v ELSE Scalar("float", v.n)) \in s.enum

\* Bounds are on bytes, regular expressions on characters.
AcceptsString(s, v) ==
    /\ v.kind \in Strings
    /\ InBounds(s, v.n)
    /\ s.pattern = None \/ Characters(v) \in s.pattern
    /\ s.enum = None \/ v \in s.enum

AcceptsFile(s, v) == v.kind \in Strings /\ InBounds(s, v.n)

AcceptsBoolean(s, v) == v.kind = "bool" /\ (s.enum = None \/ v \in s.enum)

\* What time.Parse reads with a layout: an hour of one digit, and fractions of
\* a second also where the layout has none, but no date that does not exist.
Parsed(layout) ==
    CASE layout = "rfc3339"       -> {"rfc3339", "rfc3339-comma"}
      [] layout = "rfc2616"       -> {"rfc2616", "rfc2616-fraction"}
      [] layout = "datetime-only" -> {"datetime-only", "datetime-fraction"}
      [] layout = "date-only"     -> {"date-only"}
      [] layout = "time-only"     -> {"time-only", "time-fraction"}

\* A string of any form is accepted if the format is not one of the two.
AcceptsDateTime(s, v) ==
    /\ v.kind \in Strings
    /\ s.format = None => v.kind \in Parsed("rfc3339")
    /\ s.format \in DateTimes => v.kind \in Parsed(s.format)

AcceptsScalar(s, v) ==
    CASE s.type = "integer"     -> AcceptsInteger(s, v)
      [] s.type = "number"      -> AcceptsNumber(s, v)
      [] s.type = "string"      -> AcceptsString(s, v)
      [] s.type = "file"        -> AcceptsFile(s, v)
      [] s.type = "boolean"     -> AcceptsBoolean(s, v)
      [] s.type = "datetime"    -> AcceptsDateTime(s, v)
      [] s.type \in DateForms   -> v.kind \in Parsed(s.type)
      [] s.type = "nil"         -> v.kind = "nil"
      [] OTHER                  -> TRUE

\* UnionShape.validate: one member is enough.
AcceptsItem(s, v) ==
    IF s.type = "union" THEN \E i \in DOMAIN s.anyOf : AcceptsScalar(s.anyOf[i], v)
                        ELSE AcceptsScalar(s, v)

\* Elements are the same if their JSON is.
Hash(v) == << IF v.kind \in Integral THEN "number" ELSE v.kind, v.n >>

AcceptsArray(s, v) ==
    /\ v.kind = "array"
    /\ InBounds(s, Len(v.of))
    /\ s.items = None \/ \A i \in DOMAIN v.of : AcceptsItem(s.items, v.of[i])
    /\ s.unique = TRUE => Cardinality({Hash(v.of[i]) : i \in DOMAIN v.of}) = Len(v.of)

AcceptsObject(s, v) ==
    /\ v.kind = "object"
    /\ InBounds(s, Cardinality(DOMAIN v.of))
    /\ \A k \in Known(s) : s.props[k].required => k \in DOMAIN v.of
    /\ \A k \in DOMAIN v.of :
          IF k \in Known(s) THEN AcceptsItem(s.props[k].base, v.of[k])
                                  ELSE s.additional # FALSE

Accepts(s, v) ==
    CASE s.type = "array"  -> AcceptsArray(s, v)
      [] s.type = "object" -> AcceptsObject(s, v)
      [] OTHER             -> AcceptsItem(s, v)

-----------------------------------------------------------------------------
(* check *)

\* SetOfIntegerFormats.
Width(f) ==
    CASE f = "int16"             -> 1
      [] f \in {"int32", "int"}  -> 2
      [] f \in {"int64", "long"} -> 3
      [] OTHER                   -> 0

\* Mutant of BoundsMeet: the bounds may miss each other by one.
BoundsNearlyMeet(s) == s.min = None \/ s.max = None \/ s.min <= s.max + 1

BoundsMeet(s) == s.min = None \/ s.max = None \/ s.min <= s.max

EnumOf(s, kinds) == s.enum = None \/ \A e \in s.enum : e.kind \in kinds

CheckScalar(s) ==
    /\ s.type \in Bounded => BoundsMeet(s)
    /\ s.type = "integer" => EnumOf(s, {"int"}) /\ s.format \in Facet(IntegerFormats)
    /\ s.type = "number"  => EnumOf(s, Numbers)
    /\ s.type = "boolean" => EnumOf(s, {"bool"})
    /\ s.type \in {"string", "file"} => EnumOf(s, Strings)

CheckItem(s) == \A m \in {s} \cup ToSet(s.anyOf) : CheckScalar(m)

Check(s) ==
    /\ CheckItem(s)
    /\ s.items = None \/ CheckItem(s.items)
    /\ \A k \in Known(s) : CheckItem(s.props[k].base)

-----------------------------------------------------------------------------
(* inherit: t is the target, s the source; ok is FALSE for an error *)

Default(x, y) == IF x = None THEN y ELSE x

\* Mutant of LowerHolds: the target must be strictly above the source.
LowerStrict(t, s) == t.min = None \/ s.min = None \/ t.min > s.min

LowerHolds(t, s) == t.min = None \/ s.min = None \/ t.min >= s.min
UpperHolds(t, s) == t.max = None \/ s.max = None \/ t.max <= s.max
BoundsHold(t, s) == LowerHolds(t, s) /\ UpperHolds(t, s)

\* isCompatibleEnum
EnumHolds(t, s) == t.enum = None \/ s.enum = None \/ t.enum \subseteq s.enum

SameFormat(t, s) == t.format = None \/ s.format = None \/ t.format = s.format

SameWidth(t, s) == t.format = None \/ s.format = None \/ Width(t.format) = Width(s.format)

Merged(ok, shape) == [ok |-> ok, shape |-> shape]

\* Mutant of InheritInteger: the maximum is not compared.
InheritIntegerLower(t, s) ==
    Merged( LowerHolds(t, s) /\ EnumHolds(t, s) /\ SameWidth(t, s),
            [t EXCEPT !.min = Default(@, s.min), !.max = Default(@, s.max),
                      !.enum = Default(@, s.enum), !.format = Default(@, s.format)] )

InheritInteger(t, s) ==
    Merged( BoundsHold(t, s) /\ EnumHolds(t, s) /\ SameWidth(t, s),
            [t EXCEPT !.min = Default(@, s.min), !.max = Default(@, s.max),
                      !.enum = Default(@, s.enum), !.format = Default(@, s.format)] )

InheritNumber(t, s) ==
    Merged( BoundsHold(t, s) /\ EnumHolds(t, s) /\ SameFormat(t, s),
            [t EXCEPT !.min = Default(@, s.min), !.max = Default(@, s.max),
                      !.enum = Default(@, s.enum), !.format = Default(@, s.format)] )

\* A pattern of the target replaces that of the source.
InheritString(t, s) ==
    Merged( BoundsHold(t, s) /\ EnumHolds(t, s),
            [t EXCEPT !.min = Default(@, s.min), !.max = Default(@, s.max),
                      !.enum = Default(@, s.enum), !.pattern = Default(@, s.pattern)] )

InheritFile(t, s) ==
    Merged( BoundsHold(t, s) /\ EnumHolds(t, s),
            [t EXCEPT !.min = Default(@, s.min), !.max = Default(@, s.max),
                      !.enum = Default(@, s.enum)] )

InheritBoolean(t, s) ==
    Merged(EnumHolds(t, s), [t EXCEPT !.enum = Default(@, s.enum)])

InheritDateTime(t, s) ==
    Merged(SameFormat(t, s), [t EXCEPT !.format = Default(@, s.format)])

\* A source of another type is an error.
InheritScalar(t, s) ==
    CASE t.type # s.type        -> Merged(FALSE, t)
      [] t.type = "integer"     -> InheritInteger(t, s)
      [] t.type = "number"      -> InheritNumber(t, s)
      [] t.type = "string"      -> InheritString(t, s)
      [] t.type = "file"        -> InheritFile(t, s)
      [] t.type = "boolean"     -> InheritBoolean(t, s)
      [] t.type = "datetime"    -> InheritDateTime(t, s)
      [] OTHER                  -> Merged(TRUE, t)

\* BaseShape.Inherit changes shape in place and returns another one at times;
\* most callers ignore what it returns.
Result(ok, shape, returned, h) == [ok |-> ok, shape |-> shape, returned |-> returned, heap |-> h]

Marked(s, h) == [h EXCEPT !.visited = @ \cup {s.id}]

With(m, h) == [ok |-> m.ok, shape |-> m.shape, heap |-> h]

\* BaseShape.Inherit, unless only one of the two is a union; m is what the
\* method inherit of the target does.  An error leaves the source marked.
Inherited(t, s, h, m) ==
    CASE s.id \in h.visited -> Result(TRUE, t, s, h)
      [] s.type = "any"     -> Result(TRUE, t, t, Marked(s, h))
      [] OTHER              -> Result(m.ok, m.shape, m.shape,
                                      IF m.ok THEN [m.heap EXCEPT !.visited = @ \ {s.id}]
                                              ELSE m.heap)

\* The same with a copy of a union member, which gets a new identity.
InheritMember(t, s, h) ==
    LET copy  == [t EXCEPT !.id = h.next]
        taken == [h EXCEPT !.next = @ + 1]
    IN  Inherited(copy, s, taken, With(InheritScalar(copy, s), Marked(s, taken)))

Collected(shapes, h) == [shapes |-> shapes, heap |-> h]

Collect(acc, r) == Collected(IF r.ok THEN Append(acc.shapes, r.returned) ELSE acc.shapes, r.heap)

\* Mutant of Filtered: the targets are kept as they are.
Untouched(targets, s, h) ==
    Collected(SelectSeq(targets, LAMBDA t : t.type = s.type), h)

\* What the targets of a source member's type become; those that fail are skipped.
Filtered(targets, s, h) ==
    FoldLeft(LAMBDA acc, t : IF t.type = s.type THEN Collect(acc, InheritMember(t, s, acc.heap))
                                                ELSE acc,
             Collected(<< >>, h), targets)

\* UnionShape.inherit: every member of the source needs a target.
InheritUnion(t, s, h) ==
    LET Extend(acc, f) == [ ok    |-> f.shapes # << >>,
                            anyOf |-> acc.anyOf \o f.shapes,
                            heap  |-> f.heap ]
        Next(acc, m)   == IF acc.ok THEN Extend(acc, Filtered(t.anyOf, m, acc.heap)) ELSE acc
        Merge(all)     == With(Merged(all.ok, [t EXCEPT !.anyOf = all.anyOf]), all.heap)
    IN  IF t.anyOf = << >>
        THEN With(Merged(TRUE, [t EXCEPT !.anyOf = s.anyOf]), h)
        ELSE Merge(FoldLeft(Next, [ok |-> TRUE, anyOf |-> << >>, heap |-> h], s.anyOf))

\* BaseShape.inheritUnionSource: the target becomes the union of what it makes
\* of the members of its type.  If there is only one, that one is returned and
\* the target left alone.
InheritUnionSource(t, s, h) ==
    LET anyAt == {i \in DOMAIN s.anyOf : s.anyOf[i].type = "any"}
        tried == IF anyAt = {} THEN s.anyOf ELSE SubSeq(s.anyOf, 1, Min(anyAt) - 1)
        Next(acc, m) == IF m.type = t.type THEN Collect(acc, InheritMember(t, m, acc.heap))
                                           ELSE acc
        Union(shapes) == [Plain("union", t.id) EXCEPT !.anyOf = shapes]
        Finish(f) ==
            CASE anyAt # {}         -> Result(TRUE, t, t, f.heap)
              [] Len(f.shapes) = 0  -> Result(FALSE, t, t, f.heap)
              [] Len(f.shapes) = 1  -> Result(TRUE, t, f.shapes[1], f.heap)
              [] OTHER              -> Result(TRUE, Union(f.shapes), Union(f.shapes), f.heap)
    IN  Finish(FoldLeft(Next, Collected(<< >>, h), tried))

\* BaseShape.inheritUnionTarget: the members inherit from their own union, and
\* only the first does before the union is marked.  Members of one union are
\* of different types here, so that changes nothing.
InheritUnionTarget(t, h) == Result(TRUE, t, t, Marked(t, h))

Mixed(t, s, h) ==
    /\ s.id \notin h.visited
    /\ s.type # "any"
    /\ (t.type = "union") # (s.type = "union")

\* BaseShape.Inherit between scalars and unions.  The source is marked while
\* its members are visited.
InheritItem(t, s, h) ==
    IF Mixed(t, s, h)
    THEN IF s.type = "union" THEN InheritUnionSource(t, s, Marked(s, h))
                             ELSE InheritUnionTarget(t, Marked(s, h))
    ELSE Inherited(t, s, h, IF t.type = "union" THEN InheritUnion(t, s, Marked(s, h))
                                                ELSE With(InheritScalar(t, s), Marked(s, h)))

UniqueHolds(t, s) == ~(s.unique = TRUE /\ t.unique = FALSE)

\* What Inherit returns for the items is ignored.
InheritArray(t, s, h) ==
    LET Merge(items) ==
            With(Merged(items.ok /\ BoundsHold(t, s) /\ UniqueHolds(t, s),
                        [t EXCEPT !.min = Default(@, s.min), !.max = Default(@, s.max),
                                  !.unique = Default(@, s.unique), !.items = items.shape]),
                 items.heap)
    IN  Merge(IF t.items # None /\ s.items # None
              THEN InheritItem(t.items, s.items, h)
              ELSE With(Merged(TRUE, Default(t.items, s.items)), h))

\* ObjectShape.inheritProperties; what Inherit returns is ignored.
InheritProperties(t, s, h) ==
    LET Put(acc, k, r) ==
            [ ok    |-> r.ok /\ (s.props[k].required => t.props[k].required),
              props |-> [acc.props EXCEPT ![k].base = r.shape],
              heap  |-> r.heap ]
        Next(acc, k) ==
            CASE ~acc.ok          -> acc
              [] k \notin Known(t) -> [acc EXCEPT !.props[k] = s.props[k]]
              [] OTHER            ->
                   Put(acc, k, InheritItem(t.props[k].base, s.props[k].base, acc.heap))
    IN  FoldLeft(Next, [ok |-> TRUE, props |-> t.props, heap |-> h], SetToSeq(Known(s)))

InheritObject(t, s, h) ==
    LET Merge(inner) ==
            With(Merged(BoundsHold(t, s) /\ inner.ok,
                        [t EXCEPT !.min = Default(@, s.min), !.max = Default(@, s.max),
                                  !.additional = Default(@, s.additional),
                                  !.props = inner.props]),
                 inner.heap)
    IN  Merge(InheritProperties(t, s, h))

\* BaseShape.Inherit between types.
Inherit(t, s, h) ==
    IF t.type = s.type /\ t.type \in {"array", "object"}
    THEN Inherited(t, s, h, IF t.type = "array" THEN InheritArray(t, s, Marked(s, h))
                                                ELSE InheritObject(t, s, Marked(s, h)))
    ELSE InheritItem(t, s, h)

\* AliasTo: the shape takes over the facets of another of its type.  A boolean
\* takes none.
AliasTo(s, id) == IF s.type = "boolean" THEN Plain("boolean", id) ELSE [s EXCEPT !.id = id]

=============================================================================
