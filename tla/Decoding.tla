------------------------------- MODULE Decoding -------------------------------
(***************************************************************************)
(* How the YAML mapping of a type becomes a shape: makeNewShapeYAML and    *)
(* BaseShape.decode (shape.go), which take the keys one by one, the choice *)
(* of the type by name or by facets, and unmarshalYAMLNodes of the shapes  *)
(* (scalars.go, complex.go), to which the other keys are given, at once or *)
(* when the resolver has found what the name of the type stands for.       *)
(*                                                                         *)
(* A document is a sequence of entries, because that is what the code goes *)
(* through, although the keys of a YAML mapping have no order.  A value is *)
(* one of a few words, of which each key takes some.                       *)
(***************************************************************************)
EXTENDS Naturals, Sequences

CONSTANTS
    Documents,  \* the documents there may be (see DocumentType)
    Resolved    \* what the resolver makes of each name of a declared type

(* What a shape makes of a key *)

Kinds == { "any", "nil", "object", "array", "string", "integer", "number", "datetime",
           "datetime-only", "date-only", "time-only", "file", "boolean", "union", "json" }

Words   == {"int8", "double", "rfc3339", "text"}
Scalars == {"whole", "fraction", "true"} \cup Words
Values  == Scalars \cup {"list", "map", "broken"}

\* What a field of one type takes.  A count is decoded to an unsigned integer,
\* for which the decoder cuts off a fraction.
Counts  == {"whole", "fraction"}
Numbers == {"whole", "fraction"}

\* MakeEnum: only a list.
EnumValues == {"list"}

\* The facets each kind of shape has fields for, and what they take.
IntegerFields ==
    [minimum |-> {"whole"}, maximum |-> {"whole"}, multipleOf |-> Numbers,
     format |-> {"int8"}, enum |-> EnumValues]
NumberFields ==
    [minimum |-> Numbers, maximum |-> Numbers, multipleOf |-> Numbers,
     format |-> {"double"}, enum |-> EnumValues]
StringFields ==
    [minLength |-> Counts, maxLength |-> Counts, pattern |-> Words, enum |-> EnumValues]
FileFields ==
    [minLength |-> Counts, maxLength |-> Counts, fileTypes |-> {"list"}]
BooleanFields  == [enum |-> EnumValues]
DateTimeFields == [format |-> {"rfc3339"}]
ArrayFields ==
    [minItems |-> Counts, maxItems |-> Counts, uniqueItems |-> {"true"},
     items |-> Words \cup {"list", "map"}]
\* A list (of odd length) cannot be the properties; a word is taken for none.
ObjectFields ==
    [minProperties |-> Counts, maxProperties |-> Counts, additionalProperties |-> {"true"},
     discriminator |-> Scalars, discriminatorValue |-> Values \ {"broken"},
     properties |-> Scalars \cup {"map"}]
NoFields == << >>

Fields ==
    [ k \in Kinds |->
        CASE k = "integer" -> IntegerFields [] k = "number"   -> NumberFields
          [] k = "string"  -> StringFields  [] k = "file"     -> FileFields
          [] k = "boolean" -> BooleanFields [] k = "datetime" -> DateTimeFields
          [] k = "array"   -> ArrayFields   [] k = "object"   -> ObjectFields
          [] OTHER         -> NoFields ]

Facets == [k \in Kinds |-> DOMAIN Fields[k]]

\* All other keys are custom facets, for which any value will do but that of a
\* file that does not exist ("broken").
Takes(kind, key) == IF key \in Facets[kind] THEN Fields[kind][key] ELSE Values \ {"broken"}

\* The keys BaseShape.decode keeps for itself.
Common == {"displayName", "description", "required", "facets", "example", "examples", "default"}

TakesCommon(key) ==
    CASE key = "required" -> {"true"}
      [] key \in {"displayName", "description"} -> Scalars
      [] key = "facets" -> Scalars \cup {"map"}
      [] key = "examples" -> {"map"}
      [] OTHER -> Values \ {"broken"}

IsCustomDomainExtension(key) == key \in {"(note)"}

\* What may be given as a type: a kind, a declared type (see Resolved), nothing,
\* null, a list of types, an included fragment, JSON, or something else.
TypeNodes == (Kinds \ {"json"}) \cup DOMAIN Resolved
               \cup {"", "null", "list", "include", "{json}", "{broken}", "map"}

Entry == UNION { [key : {"type"}, value : TypeNodes],
                 [key : Common \cup {"(note)", "allowedTargets", "custom"} \cup UNION {Facets[k] : k \in Kinds},
                  value : Values \ {"broken"}],
                 [key : {"default", "example", "(note)", "custom"}, value : {"broken"}] }

\* A mapping has a key once.
DocumentType == {d \in Seq(Entry) : \A i, j \in DOMAIN d : d[i].key = d[j].key => i = j}

ASSUME ConstantsAssumption ==
    /\ Documents \subseteq DocumentType
    /\ {"list", "include"} \subseteq DOMAIN Resolved
    /\ \A n \in DOMAIN Resolved : Resolved[n] \in Kinds

VARIABLES
    given,       \* the document (never changes)
    phase,       \* what is done with the entries: "keys", "facets", or no more of them
    next,        \* the entry to take
    typeNode,    \* the value of the key type, or ""
    facets,      \* the entries decode leaves for the shape (UnknownShape.facets later)
    common,      \* the keys decode has stored in the base shape
    annotations, \* the keys of CustomDomainProperties
    kind,        \* BaseShape.Type, "" before there is a shape
    fields,      \* the facets stored in fields of the shape
    custom       \* the keys of CustomShapeFacets

vars == << given, phase, next, typeNode, facets, common, annotations, kind, fields, custom >>

Init ==
    /\ given \in Documents
    /\ phase = "keys" /\ next = 1
    /\ typeNode = "" /\ facets = << >>
    /\ common = {} /\ annotations = {}
    /\ kind = "" /\ fields = {} /\ custom = {}

Keys(d) == {d[i].key : i \in DOMAIN d}

-----------------------------------------------------------------------------
(* identifyShapeType *)

Indicated(key) ==
    CASE key \in {"minLength", "maxLength", "pattern"} -> "string"
      [] key \in {"minimum", "maximum", "multipleOf"} -> "number"
      [] key \in {"minItems", "maxItems", "uniqueItems", "items"} -> "array"
      [] key \in {"minProperties", "maxProperties", "additionalProperties", "properties",
                  "discriminator"} -> "object"
      [] key = "fileTypes" -> "file"
      [] OTHER -> ""

\* Mutant of Narrowed: a facet of strings makes a string of what was a file.
NarrowedLast(t, ft, stringOnly) ==
    IF {t, ft} = {"string", "file"} /\ ~stringOnly THEN ft ELSE t

\* The type t so far and the type ft of the next facet, as they are compared: a
\* string without a pattern may turn out to be a file.
Narrowed(t, ft, stringOnly) ==
    IF {t, ft} = {"string", "file"} /\ ~stringOnly THEN "file" ELSE t

\* The type by the facets of f: from the first to the last.
IdentifyShapeType(f) ==
    LET after[i \in 0..Len(f)] ==
            IF i = 0 THEN [type |-> "", ok |-> TRUE]
            ELSE LET ft == Indicated(f[i].key)
                     stringOnly == \E j \in 1..i : f[j].key = "pattern"
                     t == Narrowed(after[i - 1].type, ft, stringOnly)
                     now == Narrowed(ft, after[i - 1].type, stringOnly)
                 IN  IF ft = "" \/ ~after[i - 1].ok THEN after[i - 1]
                     ELSE [type |-> now, ok |-> t = "" \/ t = now]
        end == after[Len(f)]
    IN  IF end.type = "" THEN [end EXCEPT !.type = "string"] ELSE end

-----------------------------------------------------------------------------

E == IF phase = "keys" THEN given[next] ELSE facets[next]

Fail ==
    /\ phase' = "failed"
    /\ UNCHANGED << given, next, typeNode, facets, common, annotations, kind, fields, custom >>

More == phase = "keys" /\ next <= Len(given)

\* example and examples exclude each other, whichever comes first.
Excluded(key) ==
    \/ key = "example"  /\ "examples" \in common
    \/ key = "examples" /\ "example" \in common

\* decodeValueNode: one key of the mapping.
DecodeType ==
    /\ More /\ E.key = "type"
    /\ typeNode' = E.value
    /\ next' = next + 1
    /\ UNCHANGED << given, phase, facets, common, annotations, kind, fields, custom >>

DecodeCommon ==
    /\ More /\ E.key \in Common /\ ~(E.key = "facets" /\ E.value = "list")
    /\ IF Excluded(E.key) \/ E.value \notin TakesCommon(E.key)
       THEN Fail
       ELSE /\ common' = common \cup {E.key}
            /\ next' = next + 1
            /\ UNCHANGED << given, phase, typeNode, facets, annotations, kind, fields, custom >>

\* decodeFacets takes the nodes two by two without looking what they are, and past
\* the end of a list of odd length the program panics.
DecodeFacetsPanics ==
    /\ More /\ E.key = "facets" /\ E.value = "list"
    /\ phase' = "crashed"
    /\ UNCHANGED << given, next, typeNode, facets, common, annotations, kind, fields, custom >>

DecodeAnnotation ==
    /\ More /\ IsCustomDomainExtension(E.key)
    /\ IF E.value = "broken"
       THEN Fail
       ELSE /\ annotations' = annotations \cup {E.key}
            /\ next' = next + 1
            /\ UNCHANGED << given, phase, typeNode, facets, common, kind, fields, custom >>

SkipTargets ==
    /\ More /\ E.key = "allowedTargets"
    /\ next' = next + 1
    /\ UNCHANGED << given, phase, typeNode, facets, common, annotations, kind, fields, custom >>

\* Any other key is left for the shape.
DecodeOther ==
    /\ More
    /\ E.key \notin Common \cup {"type", "allowedTargets"} /\ ~IsCustomDomainExtension(E.key)
    /\ facets' = Append(facets, E)
    /\ next' = next + 1
    /\ UNCHANGED << given, phase, typeNode, common, annotations, kind, fields, custom >>

KeysDone == phase = "keys" /\ next > Len(given)

\* MakeConcreteShapeYAML: a new shape of kind k is to take the facets; unions and
\* JSON shapes take none.
MakeConcreteShape(k) ==
    /\ kind' = k
    /\ phase' = IF k \in {"union", "json"} THEN "done" ELSE "facets"
    /\ next' = 1
    /\ UNCHANGED << given, typeNode, facets, common, annotations, fields, custom >>

\* makeNewShapeYAML, makeShapeType: no type is given.
MakeIdentified ==
    /\ KeysDone /\ typeNode = ""
    /\ IF IdentifyShapeType(facets).ok
       THEN MakeConcreteShape(IdentifyShapeType(facets).type)
       ELSE Fail

MakeNamed ==
    /\ KeysDone /\ typeNode \in Kinds \cup {"null"}
    /\ MakeConcreteShape(IF typeNode = "null" THEN "string" ELSE typeNode)

\* A JSON Schema: the shape is made of the schema alone.
MakeJSONShape ==
    /\ KeysDone /\ typeNode \in {"{json}", "{broken}"}
    /\ IF typeNode = "{broken}" THEN Fail ELSE MakeConcreteShape("json")

MakeRefused == KeysDone /\ typeNode = "map" /\ Fail

\* UnknownShape: the facets are stored for later.
MakeUnknown ==
    /\ KeysDone /\ typeNode \in DOMAIN Resolved
    /\ phase' = "unknown"
    /\ UNCHANGED << given, next, typeNode, facets, common, annotations, kind, fields, custom >>

\* The resolver has found the kind (module Resolver).
Resolve == phase = "unknown" /\ MakeConcreteShape(Resolved[typeNode])

\* unmarshalYAMLNodes: one facet.
UnmarshalFacet ==
    /\ phase = "facets" /\ next <= Len(facets)
    /\ IF E.value \notin Takes(kind, E.key)
       THEN Fail
       ELSE /\ IF E.key \in Facets[kind]
               THEN fields' = fields \cup {E.key} /\ UNCHANGED custom
               ELSE custom' = custom \cup {E.key} /\ UNCHANGED fields
            /\ next' = next + 1
            /\ UNCHANGED << given, phase, typeNode, facets, common, annotations, kind >>

FacetsDone ==
    /\ phase = "facets" /\ next > Len(facets)
    /\ phase' = "done"
    /\ UNCHANGED << given, next, typeNode, facets, common, annotations, kind, fields, custom >>

Over == phase \in {"done", "failed", "crashed"} /\ UNCHANGED vars

Next ==
    \/ DecodeType \/ DecodeCommon \/ DecodeFacetsPanics \/ DecodeAnnotation
    \/ SkipTargets \/ DecodeOther
    \/ MakeIdentified \/ MakeNamed \/ MakeJSONShape \/ MakeRefused \/ MakeUnknown \/ Resolve
    \/ UnmarshalFacet \/ FacetsDone
    \/ Over

Spec == Init /\ [][Next]_vars

-----------------------------------------------------------------------------
(* Properties *)

\* What a document says, as a set of entries.
Said == {given[i] : i \in DOMAIN given}
Left == {e \in Said : e.key \notin Common \cup {"type", "allowedTargets"} /\ ~IsCustomDomainExtension(e.key)}

\* The facets that tell one kind from another, and the kind they tell: the one
\* that has them all, a string rather than a file, or none.
Telling == {e.key : e \in {e \in Left : Indicated(e.key) # ""}}
Told ==
    LET having == {k \in {"string", "file", "number", "array", "object"} : Telling \subseteq Facets[k]}
    IN  IF "string" \in having THEN "string"
        ELSE IF having = {} THEN "none" ELSE CHOOSE k \in having : TRUE

Meant ==
    LET named == {e.value : e \in {e \in Said : e.key = "type"}}
    IN  IF named \subseteq {""} THEN Told
        ELSE LET n == CHOOSE n \in named : TRUE
             IN  CASE n \in DOMAIN Resolved -> Resolved[n]
                   [] n = "null" -> "string"
                   [] n = "{json}" -> "json"
                   [] n \in {"{broken}", "map"} -> "none"
                   [] OTHER -> n

\* A document is wrong if its kind cannot be told, if a value is not one its key
\* takes, or if it has both example and examples.
IsRight ==
    /\ Meant # "none"
    /\ \A e \in Said : e.key \in Common => e.value \in TakesCommon(e.key)
    /\ \A e \in Said : IsCustomDomainExtension(e.key) => e.value # "broken"
    /\ ~({"example", "examples"} \subseteq Keys(given))
    /\ Meant \in {"union", "json"} \/ \A e \in Left : e.value \in Takes(Meant, e.key)

\* What a document is decoded to is what it says, whatever the order of its keys,
\* and whether its kind is given, told by its facets or found by the resolver
\* later: the kind is the one whose facets it has, every key ends in the field or
\* map of its kind, nothing is dropped, and it fails only if it is wrong.  (The
\* facets beside a union or a JSON type are dropped without an error.)
DecodedAsSaid ==
    /\ phase \in {"failed", "crashed"} => ~IsRight
    /\ phase = "done" =>
          /\ IsRight /\ kind = Meant
          /\ common = {e.key : e \in Said} \cap Common
          /\ annotations = {e.key : e \in {e \in Said : IsCustomDomainExtension(e.key)}}
          /\ kind \notin {"union", "json"} =>
                /\ fields = {e.key : e \in Left} \cap Facets[kind]
                /\ custom = {e.key : e \in Left} \ Facets[kind]

=============================================================================
