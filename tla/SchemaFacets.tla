----------------------------- MODULE SchemaFacets -----------------------------
(***************************************************************************)
(* The JSON Schema a complete type is converted to: the visitors of the    *)
(* JSONSchemaConverter (jsonschemaconv.go), and Map (schema.go), which     *)
(* writes the keywords that are set.  Which values a schema accepts is     *)
(* what JSON Schema draft-07 says, with date formats asserted.             *)
(*                                                                         *)
(* A schema is a function from the keywords it has.  Keywords that         *)
(* annotate (title, description, default, examples, contentEncoding,       *)
(* contentMediaType) accept everything and are left out.  References and   *)
(* what they lead to are in SchemaConverter.tla.                           *)
(***************************************************************************)
EXTENDS Facets

Nothing == [k \in {} |-> None]

\* A keyword is written if it has a value; an empty list is none.
Keyword(k, value) == IF value = None THEN Nothing ELSE k :> value
EnumKeyword(enum) == IF enum = {} THEN Nothing ELSE Keyword("enum", enum)

Limited(low, high, s) == Keyword(low, s.min) @@ Keyword(high, s.max)

\* Strings of some forms and lengths in characters; regular expressions are matched anywhere
\* in a string by both.
Matching(forms, lengths) == "pattern" :> [forms |-> forms, lengths |-> lengths]

VisitStringShape(s) ==
    "type" :> "string" @@ Limited("minLength", "maxLength", s) @@ EnumKeyword(s.enum)
    @@ IF s.pattern = None THEN Nothing ELSE Matching(Strings, s.pattern)

VisitIntegerShape(s) ==
    "type" :> "integer" @@ Limited("minimum", "maximum", s) @@ EnumKeyword(s.enum)

VisitNumberShape(s) ==
    "type" :> "number" @@ Limited("minimum", "maximum", s) @@ EnumKeyword(s.enum)

VisitFileShape(s) == "type" :> "string" @@ Limited("minLength", "maxLength", s)

VisitBooleanShape(s) == "type" :> "boolean" @@ EnumKeyword(s.enum)

\* A format that is neither of the two is not translated.  The regular expression
\* lets through days that do not exist, and no fraction of a second.
VisitDateTimeShape(s) ==
    "type" :> "string" @@
    CASE s.format \in {None, "rfc3339"} -> "format" :> "date-time"
      [] s.format = "rfc2616"           -> Matching({"rfc2616", "rfc2616-impossible"}, Nat)
      [] OTHER                          -> Nothing

VisitDateTimeOnlyShape(s) ==
    "type" :> "string" @@ Matching({"datetime-only", "datetime-impossible"}, Nat)
VisitDateOnlyShape(s)     == "type" :> "string" @@ "format" :> "date"
VisitTimeOnlyShape(s)     == "type" :> "string" @@ "format" :> "time"
VisitNilShape             == "type" :> "null"
VisitAnyShape             == Nothing

VisitScalar(s) ==
    CASE s.type = "string"        -> VisitStringShape(s)
      [] s.type = "integer"       -> VisitIntegerShape(s)
      [] s.type = "number"        -> VisitNumberShape(s)
      [] s.type = "file"          -> VisitFileShape(s)
      [] s.type = "boolean"       -> VisitBooleanShape(s)
      [] s.type = "datetime"      -> VisitDateTimeShape(s)
      [] s.type = "datetime-only" -> VisitDateTimeOnlyShape(s)
      [] s.type = "date-only"     -> VisitDateOnlyShape(s)
      [] s.type = "time-only"     -> VisitTimeOnlyShape(s)
      [] s.type = "nil"           -> VisitNilShape
      [] s.type = "any"           -> VisitAnyShape

VisitUnionShape(s) ==
    IF s.anyOf = << >> THEN Nothing
    ELSE "anyOf" :> {VisitScalar(m) : m \in ToSet(s.anyOf)}

VisitItem(s) == IF s.type = "union" THEN VisitUnionShape(s) ELSE VisitScalar(s)

VisitArrayShape(s) ==
    "type" :> "array" @@ Limited("minItems", "maxItems", s) @@ Keyword("uniqueItems", s.unique)
    @@ IF s.items = None THEN Nothing ELSE "items" :> VisitItem(s.items)

\* Mutant of VisitObjectShape: a property that is not required is.
VisitObjectAll(s) ==
    "type" :> "object" @@ Limited("minProperties", "maxProperties", s)
    @@ Keyword("additionalProperties", s.additional)
    @@ IF Known(s) = {} THEN Nothing
       ELSE "properties" :> [k \in Known(s) |-> VisitItem(s.props[k].base)]
            @@ "required" :> Known(s)

VisitObjectShape(s) ==
    "type" :> "object" @@ Limited("minProperties", "maxProperties", s)
    @@ Keyword("additionalProperties", s.additional)
    @@ IF Known(s) = {} THEN Nothing
       ELSE "properties" :> [k \in Known(s) |-> VisitItem(s.props[k].base)]
            @@ "required" :> {k \in Known(s) : s.props[k].required}

Visit(s) ==
    CASE s.type = "array"  -> VisitArrayShape(s)
      [] s.type = "object" -> VisitObjectShape(s)
      [] OTHER             -> VisitItem(s)

-----------------------------------------------------------------------------
(* draft-07 *)

HasType(type, v) ==
    CASE type = "string"                -> v.kind \in Strings
      [] type = "integer"               -> v.kind \in Integral
      [] type = "number"                -> v.kind \in Numbers
      [] type = "boolean"               -> v.kind = "bool"
      [] type = "null"                  -> v.kind = "nil"
      [] OTHER                          -> v.kind = type

AtLeast == {"minimum", "minLength", "minItems", "minProperties"}
AtMost  == {"maximum", "maxLength", "maxItems", "maxProperties"}

\* What a keyword limits: a number, or how long or how large a value is.
Size(v) ==
    CASE v.kind = "array"   -> Len(v.of)
      [] v.kind = "object"  -> Cardinality(DOMAIN v.of)
      [] v.kind \in Strings -> Characters(v)
      [] OTHER              -> v.n

Above(v) == IF v.kind = "half" THEN v.n + 1 ELSE Size(v)

\* The strings that have a format, by the grammar of RFC 3339: full-time has an
\* offset, and a second may be 60.
Spelled(format) ==
    CASE format = "date-time" -> {"rfc3339", "rfc3339-leap"}
      [] format = "date"      -> {"date-only"}
      [] format = "time"      -> {"time-offset"}

\* Of the values that have the type of the schema; Part judges what they hold.
Holds(schema, k, v, Part(_, _)) ==
    CASE k = "type"         -> TRUE
      [] k \in AtLeast      -> schema[k] <= Size(v)
      [] k \in AtMost       -> Above(v) <= schema[k]
      [] k = "enum"         -> \E e \in schema.enum : Hash(e) = Hash(v)
      [] k = "pattern"      ->
             v.kind \in schema.pattern.forms /\ Characters(v) \in schema.pattern.lengths
      [] k = "format"       -> v.kind \in Spelled(schema.format)
      [] k = "uniqueItems"  -> schema.uniqueItems =>
             \A i, j \in DOMAIN v.of : Hash(v.of[i]) = Hash(v.of[j]) => i = j
      [] k = "items"        -> \A i \in DOMAIN v.of : Part(schema.items, v.of[i])
      [] k = "required"     -> schema.required \subseteq DOMAIN v.of
      [] k = "properties"   ->
             \A f \in DOMAIN v.of \cap DOMAIN schema.properties : Part(schema.properties[f], v.of[f])
      [] k = "additionalProperties" -> schema.additionalProperties \/
             DOMAIN v.of \subseteq
                 IF "properties" \in DOMAIN schema THEN DOMAIN schema.properties ELSE {}
      [] k = "anyOf"        -> \E m \in schema.anyOf : Part(m, v)

Keeps(schema, v, Part(_, _)) ==
    /\ "type" \in DOMAIN schema => HasType(schema.type, v)
    /\ \A k \in DOMAIN schema : Holds(schema, k, v, Part)

KeepsScalar(schema, v) == LET NoPart(m, w) == FALSE IN Keeps(schema, v, NoPart)
KeepsItem(schema, v)   == Keeps(schema, v, KeepsScalar)

\* The values a schema accepts.
Valid(schema, v) == Keeps(schema, v, KeepsItem)

\* What a schema cannot say: an empty enum is left out by Map, and JSON does not
\* tell 1 from 1.0, as the enum of a number does.
Expressible(s) ==
    /\ s.enum # {}
    /\ s.type = "number" /\ s.enum # None => \A e \in s.enum : e.kind = "float"

(***************************************************************************)
(* Where a schema and the type it is made from part, by what they take a   *)
(* value for.  The type cuts a half off that is no integer for the schema; *)
(* time.Parse and the formats and regular expressions of the schema take   *)
(* dates of different spellings, and for a time of day none is common;     *)
(* lengths are bytes for the type and characters for the schema.           *)
(***************************************************************************)

\* Accepted by a scalar type, and perhaps not by its schema.
Refused(s, v) ==
    \/ s.type = "integer" /\ v.kind = "half"
    \/ s.type = "datetime" /\ s.format \in {None, "rfc3339"} /\ v.kind = "rfc3339-comma"
    \/ s.type = "datetime" /\ s.format = "rfc2616" /\ v.kind = "rfc2616-fraction"
    \/ s.type = "datetime-only" /\ v.kind = "datetime-fraction"
    \/ s.type = "time-only" /\ v.kind \in {"time-only", "time-fraction"}
    \/ s.type \in {"string", "file"} /\ s.min # None /\ v.kind = "accented"
       /\ Characters(v) < s.min /\ s.min <= v.n

\* Accepted by the schema of a scalar type, and perhaps not by the type.
Admitted(s, v) ==
    \/ s.type = "datetime" /\ s.format \in {None, "rfc3339"} /\ v.kind = "rfc3339-leap"
    \/ s.type = "datetime" /\ s.format = "rfc2616" /\ v.kind = "rfc2616-impossible"
    \/ s.type = "datetime-only" /\ v.kind = "datetime-impossible"
    \/ s.type = "time-only" /\ v.kind = "time-offset"
    \/ s.type \in {"string", "file"} /\ s.max # None /\ v.kind = "accented"
       /\ Characters(v) <= s.max /\ s.max < v.n

\* Some part of a type differs on what a value has for it.
Somewhere(Differs(_, _), s, v) ==
    LET In(t, w) == \E m \in {t} \cup ToSet(t.anyOf) : Differs(m, w)
    IN  \/ In(s, v)
        \/ v.kind = "array" /\ s.items # None /\ \E i \in DOMAIN v.of : In(s.items, v.of[i])
        \/ v.kind = "object" /\ \E k \in Known(s) \cap DOMAIN v.of : In(s.props[k].base, v.of[k])

PartsOf(s) ==
    {s} \cup ToSet(s.anyOf)
    \cup (IF s.items = None THEN {} ELSE {s.items} \cup ToSet(s.items.anyOf))
    \cup UNION {{s.props[k].base} \cup ToSet(s.props[k].base.anyOf) : k \in Known(s)}

=============================================================================
