---------------------------- MODULE SchemaConverter ----------------------------
(***************************************************************************)
(* JSONSchemaConverter (jsonschemaconv.go) and JSONSchemaWrapper           *)
(* (schema.go): from the graph of an unwrapped type to schemas that refer  *)
(* to definitions.                                                         *)
(*                                                                         *)
(* The graph is one FindAndMarkRecursion returns: without the heads of     *)
(* recursive shapes it has no cycle.  A recursive shape is converted to a  *)
(* reference to a definition named after its head; the head is converted   *)
(* the first time its name is met, and the name is occupied before that.   *)
(* What becomes of facets is in SchemaFacets.tla; here a schema is what it *)
(* was made from, what it refers to, and its parts.  A schema is named by  *)
(* its position in schemas.                                                *)
(***************************************************************************)
EXTENDS Naturals, Sequences

CONSTANTS
    Shapes, Names,
    None,
    Graphs,         \* the graphs there may be (see GraphType)
    Wrapped,        \* whether the converter is made WithWrapper
    MaxConversions  \* how often Convert is called

(***************************************************************************)
(* name        the name of a shape                                         *)
(* facetDefs   its custom facet definitions, parts its properties, items   *)
(*             or union members, in order                                  *)
(* head        of a recursive shape; None for the others                   *)
(* unwrapped   the shapes that are unwrapped                               *)
(* entries     the shapes Convert may be called with                       *)
(***************************************************************************)
GraphType ==
    [ name      : [Shapes -> Names],
      facetDefs : [Shapes -> Seq(Shapes)],
      parts     : [Shapes -> Seq(Shapes)],
      head      : [Shapes -> Shapes \cup {None}],
      unwrapped : SUBSET Shapes,
      entries   : SUBSET Shapes ]

\* Heads and entries are told apart by their names.
NamesUnique(g) ==
    LET named == g.entries \cup ({g.head[s] : s \in Shapes} \ {None})
    IN  \A a, b \in named : g.name[a] = g.name[b] => a = b

ASSUME ConstantsAssumption ==
    /\ None \notin Shapes \cup Names
    /\ Graphs \subseteq GraphType
    /\ \A g \in Graphs : NamesUnique(g)
    /\ Wrapped \in BOOLEAN /\ MaxConversions \in Nat

VARIABLES
    given,      \* the graph (never changes)
    schemas,    \* the schemas made
    tables,     \* the maps of definitions made, the current one last
    frames,     \* activation records of Visit
    results,    \* what the calls of Convert returned
    panicked

vars == << given, schemas, tables, frames, results, panicked >>

\* A definition: not there, the empty schema that occupies the name, or a schema.
Absent      == [there |-> FALSE, schema |-> 0]
Placeholder == [there |-> TRUE, schema |-> 0]
Defined(i)  == [there |-> TRUE, schema |-> i]

Definition == [there : BOOLEAN, schema : Nat]
Schema == [of : Shapes, ref : Names \cup {None}, parts : Seq(Nat)]
Frame  == [shape : Shapes, schema : Nat \ {0}, next : Nat \ {0}]
\* What Convert returned: an error (no map), or the schema of entry with a map.
\* The schemas it made are first..last (auxiliary).
Result == [entry : Shapes, table : Nat, first : Nat, last : Nat]

Top         == frames[Len(frames)]
Below       == SubSeq(frames, 1, Len(frames) - 1)
Definitions == tables[Len(tables)]
Recursive   == given.head[Top.shape] # None
HeadName    == given.name[given.head[Top.shape]]

\* What is visited for a shape: the wrapper visits the facet definitions when
\* it makes the schema.  A recursive shape is wrapped without its base.
Visited(s) ==
    IF given.head[s] # None THEN << >> ELSE given.facetDefs[s] \o given.parts[s]

-----------------------------------------------------------------------------

Init ==
    /\ given \in Graphs
    /\ schemas = << >>
    /\ tables = << [n \in Names |-> Absent] >>
    /\ frames = << >>
    /\ results = << >>
    /\ panicked = FALSE

Idle == frames = << >> /\ ~panicked

\* Visit(s) is called with the records fs below it and makes a schema.  Without
\* a wrapper the new JSONSchemaGeneric is asserted to be a JSONSchema, which it
\* is not.
Visit(fs, s) ==
    IF Wrapped
    THEN /\ schemas' = Append(schemas, [of |-> s, ref |-> None, parts |-> << >>])
         /\ frames' = Append(fs, [shape |-> s, schema |-> Len(schemas) + 1, next |-> 1])
         /\ UNCHANGED panicked
    ELSE /\ panicked' = TRUE
         /\ frames' = << >>
         /\ UNCHANGED schemas

\* Mutant of Convert: the definitions of the last conversion are kept.
ConvertKeeping(s) ==
    /\ Idle /\ Len(results) < MaxConversions
    /\ s \in given.entries \cap given.unwrapped
    /\ tables' = [tables EXCEPT ![Len(tables)][given.name[s]] = Placeholder]
    /\ Visit(<< >>, s)
    /\ UNCHANGED << given, results >>

Convert(s) ==
    /\ Idle /\ Len(results) < MaxConversions
    /\ s \in given.entries \cap given.unwrapped
    /\ tables' = Append(tables, [n \in Names |-> IF n = given.name[s] THEN Placeholder ELSE Absent])
    /\ Visit(<< >>, s)
    /\ UNCHANGED << given, results >>

\* "entrypoint shape must be unwrapped"
ConvertRefuses(s) ==
    /\ Idle /\ Len(results) < MaxConversions
    /\ s \in given.entries \ given.unwrapped
    /\ results' = Append(results, [entry |-> s, table |-> 0, first |-> 1, last |-> 0])
    /\ UNCHANGED << given, schemas, tables, frames, panicked >>

\* The next facet definition, property, item or member.
VisitPart ==
    /\ frames # << >> /\ ~Recursive /\ Top.next <= Len(Visited(Top.shape))
    /\ Visit([frames EXCEPT ![Len(frames)].next = @ + 1], Visited(Top.shape)[Top.next])
    /\ UNCHANGED << given, tables, results >>

\* Mutant of VisitHead: the name is not occupied, and the stack overflows.
VisitHeadLate ==
    /\ frames # << >> /\ Recursive /\ ~Definitions[HeadName].there
    /\ IF Len(frames) < 12 THEN Visit(frames, given.head[Top.shape])
                           ELSE UNCHANGED << schemas, frames, panicked >>
    /\ UNCHANGED << given, tables, results >>

\* VisitRecursiveShape occupies the name and visits the head.
VisitHead ==
    /\ frames # << >> /\ Recursive /\ ~Definitions[HeadName].there
    /\ tables' = [tables EXCEPT ![Len(tables)][HeadName] = Placeholder]
    /\ Visit(frames, given.head[Top.shape])
    /\ UNCHANGED << given, results >>


\* Mutant of Finished: the last part is not visited.
FinishedEarly ==
    /\ frames # << >>
    /\ IF Recursive THEN Definitions[HeadName].there ELSE Top.next >= Len(Visited(Top.shape))

Finished ==
    /\ frames # << >>
    /\ IF Recursive THEN Definitions[HeadName].there ELSE Top.next > Len(Visited(Top.shape))

\* The schema i of the top shape, finished.
Complete(i) ==
    IF Recursive THEN [schemas EXCEPT ![i].ref = HeadName] ELSE schemas

\* Visit returns to whoever called it: VisitRecursiveShape and Convert put the
\* schema into the map, the others into their own schema.
Leave ==
    /\ Finished
    /\ frames' = Below
    /\ LET i == Top.schema
           b == Below[Len(Below)]
           Define(n) == tables' = [tables EXCEPT ![Len(tables)][n] = Defined(i)]
       IN  CASE Below = << >> ->
                  /\ schemas' = Complete(i)
                  /\ Define(given.name[Top.shape])
                  /\ results' = Append(results, [ entry |-> Top.shape, table |-> Len(tables),
                                                  first |-> i, last |-> Len(schemas) ])
             [] Below # << >> /\ given.head[b.shape] # None ->
                  /\ schemas' = Complete(i)
                  /\ Define(given.name[given.head[b.shape]])
                  /\ UNCHANGED results
             [] OTHER ->
                  /\ schemas' = [Complete(i) EXCEPT ![b.schema].parts = Append(@, i)]
                  /\ UNCHANGED << tables, results >>
    /\ UNCHANGED << given, panicked >>

Work == VisitPart \/ VisitHead \/ Leave

\* The end; lets TLC tell it from a deadlock.
Over == (Len(results) = MaxConversions \/ panicked) /\ frames = << >> /\ UNCHANGED vars

Next ==
    \/ \E s \in given.entries : Convert(s) \/ ConvertRefuses(s)
    \/ Work
    \/ Over

Spec == Init /\ [][Next]_vars

\* Convert is a function call: it goes on while there is something to do.
FairSpec == Spec /\ WF_vars(Work)

-----------------------------------------------------------------------------
(* Properties *)

\* Every variable has its type; schemas, maps and records refer to what exists.
TypeOK ==
    /\ given \in Graphs
    /\ schemas \in Seq(Schema)
    /\ \A i \in DOMAIN schemas : \A k \in DOMAIN schemas[i].parts :
          schemas[i].parts[k] \in DOMAIN schemas
    /\ tables \in Seq([Names -> Definition]) /\ tables # << >>
    /\ \A t \in DOMAIN tables : \A n \in Names : tables[t][n].schema \in 0..Len(schemas)
    /\ frames \in Seq(Frame)
    /\ \A k \in DOMAIN frames : frames[k].schema \in DOMAIN schemas
    /\ results \in Seq(Result)
    /\ \A r \in DOMAIN results : results[r].table \in 0..Len(tables)
    /\ panicked \in BOOLEAN

\* Schema i says what shape s is: it is made from s, refers to a definition made
\* from the head of s if s is recursive, and else has the parts of s in order.
Says(table, i, s) ==
    /\ i \in DOMAIN schemas
    /\ schemas[i].of = s
    /\ IF given.head[s] # None
       THEN /\ schemas[i].ref = given.name[given.head[s]]
            /\ schemas[i].parts = << >>
            /\ table[schemas[i].ref].there
       ELSE /\ schemas[i].ref = None
            /\ Len(schemas[i].parts) = Len(Visited(s))
            /\ \A k \in DOMAIN Visited(s) : schemas[schemas[i].parts[k]].of = Visited(s)[k]

\* Every schema Convert has returned describes its type completely: there is a
\* definition of the entry, every schema in it says what its shape is, every
\* reference has a definition, which is made from the head it stands for, and
\* no name that was occupied is left empty (VisitRecursiveShape).
Describes ==
    \A r \in DOMAIN results : results[r].table # 0 =>
        LET table == tables[results[r].table]
            entry == results[r].entry
        IN  /\ table[given.name[entry]].there
            /\ \A n \in Names : table[n].there =>
                  /\ table[n].schema # 0
                  /\ LET s == schemas[table[n].schema].of
                     IN  /\ given.name[s] = n
                         /\ s \in {entry} \cup {given.head[t] : t \in Shapes}
            /\ \A i \in results[r].first..results[r].last : Says(table, i, schemas[i].of)

\* A schema that was returned is never changed by a later conversion, although
\* it shares the map of definitions with the converter.
ReturnedStays ==
    [][\A r \in DOMAIN results : results[r].table # 0 =>
          /\ tables'[results[r].table] = tables[results[r].table]
          /\ \A i \in results[r].first..results[r].last : schemas'[i] = schemas[i]]_vars

\* Convert ends, for every recursive type.
Terminates == (frames # << >>) ~> (frames = << >>)

\* schema.go: JSONSchema is the "plain, spec-only flavour - just an alias", and
\* NewJSONSchemaConverter makes a converter for it without a wrapper: conversion
\* to it does not panic.
PlainConverts == ~panicked

=============================================================================
