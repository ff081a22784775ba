------------------------------- MODULE Resolver -------------------------------
(***************************************************************************)
(* RAML.resolveShapes, resolveShape (resolve.go), the visitor of type      *)
(* expressions (rdt_visitor.go) and MakeConcreteShapeYAML (shape.go).      *)
(*                                                                         *)
(* The decoder makes a base shape for every type node.  A base whose type  *)
(* is not built in stays unknown, keeps its facet nodes and joins a work   *)
(* list.  Resolving it evaluates its type expression, which first resolves *)
(* the types it refers to, and then decodes its facets; the facets of      *)
(* objects and arrays make new bases, which join the list while it is      *)
(* being worked off.                                                       *)
(*                                                                         *)
(* A base is named by the node it is made for: a declared type, a property *)
(* or item of one, or a part of a type expression.  The recursive Go       *)
(* functions are a stack of activation records and the result of the last  *)
(* one to return.                                                          *)
(***************************************************************************)
EXTENDS Naturals, FiniteSets, SequencesExt

CONSTANTS
    Shapes,      \* the nodes a base shape may be made for
    Documents,   \* what the nodes may say (records, see DocumentType)
    StackLimit,  \* the number of nested calls at which the stack overflows
    None

Kinds   == {"object", "array", "union", "string", "any"}
Pending == {"unmade", "unknown"}

(***************************************************************************)
(* op         what the type of a node is: a type that is built in, one in  *)
(*            parentheses, a reference, T[], T?, T | U, an !include, a     *)
(*            list of types, or an expression ANTLR rejects                *)
(* kind       the built-in type, for the first two                         *)
(* to         the type referred to or included; None if there is no such   *)
(* members    the parts of an expression, or the types of a list           *)
(* facets     the node is a map: UnknownShape.facets is not nil            *)
(* nested     the nodes of its properties or items                         *)
(* malformed  decoding the facets fails                                    *)
(* height     how many levels of nodes there are below it                  *)
(* declared   the types of all fragments, in the order they are decoded    *)
(***************************************************************************)
DocumentType ==
    [ op        : [Shapes -> {"builtin", "group", "reference", "array",
                              "optional", "union", "include", "list", "syntax"}],
      kind      : [Shapes -> Kinds],
      to        : [Shapes -> Shapes \cup {None}],
      members   : [Shapes -> Seq(Shapes)],
      facets    : [Shapes -> BOOLEAN],
      nested    : [Shapes -> Seq(Shapes)],
      height    : [Shapes -> 0 .. Cardinality(Shapes)],
      malformed : SUBSET Shapes,
      declared  : Seq(Shapes) ]

Containers == {"array", "optional", "union"}

\* The nodes that hang on a node.
Below(d, s) == ToSet(d.members[s]) \cup ToSet(d.nested[s])

\* The nodes are those of the trees of the YAML parser and, for the parts of an
\* expression, of ANTLR: each has one place and the trees have an end.  What is
\* referred to or included is a declared type, a part is neither a list nor an
\* include, and only objects and arrays have properties or items to decode.
WellFormed(d) ==
    /\ \A s \in Shapes : \A t \in Below(d, s) : d.height[t] < d.height[s]
    /\ \A s \in Shapes : Below(d, s) \cap ToSet(d.declared) = {}
    /\ \A s, t \in Shapes : s # t => Below(d, s) \cap Below(d, t) = {}
    /\ \A s \in Shapes : ToSet(d.members[s]) \cap ToSet(d.nested[s]) = {}
    /\ \A s \in Shapes : \A i, j \in DOMAIN d.members[s] :
          i # j => d.members[s][i] # d.members[s][j]
    /\ \A s \in Shapes : d.op[s] \in {"reference", "include"}
          => d.to[s] \in ToSet(d.declared) \cup {None}
    /\ \A s \in Shapes : d.members[s] # << >> => d.op[s] \in Containers \cup {"list"}
    /\ \A s \in Shapes : d.op[s] \in Containers
          => \A t \in ToSet(d.members[s]) : d.op[t] \notin {"builtin", "include", "list"}
    /\ \A s \in Shapes : d.op[s] = "builtin" /\ d.nested[s] # << >>
          => d.kind[s] \in {"object", "array"}

ASSUME ConstantsAssumption ==
    /\ IsFiniteSet(Shapes)
    /\ None \notin Shapes \cup {"ok", "error"}
    /\ Documents \subseteq DocumentType
    /\ \A d \in Documents : WellFormed(d)
    /\ StackLimit \in Nat

VARIABLES
    given,       \* the document (never changes)
    kind,        \* BaseShape.Type of the bases made, "unknown" until resolved
    alias,       \* BaseShape.Alias
    inherits,    \* the references appended to BaseShape.Inherits
    anyOf,       \* UnionShape.AnyOf or ArrayShape.Items
    decoded,     \* the facet nodes of the base have been decoded
    queue,       \* RAML.unresolvedShapes
    frames,      \* activation records of resolveShape and Visit
    ret,         \* what the last call to return returned, or None
    failed,      \* an error has been collected
    crashed,     \* the stack has overflowed, or the program panicked
    made         \* auxiliary: how often a base was made concrete

vars == << given, kind, alias, inherits, anyOf, decoded, queue, frames, ret,
           failed, crashed, made >>

base == << kind, alias, inherits, anyOf, decoded, queue, made >>

Top     == frames[Len(frames)]
S       == Top.shape
Callers == SubSeq(frames, 1, Len(frames) - 1)

\* The top frame at another place.
Goto(place) == Append(Callers, [Top EXCEPT !.at = place])

-----------------------------------------------------------------------------

\* The bases makeNewShapeYAML makes for a node, in the order they are done:
\* those of its properties if its type is built in, or of its list of types.
DecodedBy ==
    LET D[s \in Shapes] ==
            LET parts == CASE given.op[s] = "builtin" -> given.nested[s]
                           [] given.op[s] = "list"    -> given.members[s]
                           [] OTHER                   -> << >>
            IN  FlattenSeq([i \in DOMAIN parts |-> D[parts[i]]]) \o << s >>
    IN  D

DecodedFrom(nodes) == FlattenSeq([i \in DOMAIN nodes |-> DecodedBy[nodes[i]]])

FirstKind(s) == IF given.op[s] = "builtin" THEN given.kind[s] ELSE "unknown"

\* The bases of a sequence that are not built in.
Unresolved(nodes) ==
    FlattenSeq([i \in DOMAIN nodes |->
                   IF given.op[nodes[i]] = "builtin" THEN << >> ELSE << nodes[i] >>])

Init ==
    /\ given \in Documents
    /\ LET first == DecodedFrom(given.declared)
       IN  /\ kind = [s \in Shapes |-> IF s \in ToSet(first) THEN FirstKind(s) ELSE "unmade"]
           /\ queue = Unresolved(first)
    /\ alias = [s \in Shapes |-> None]
    /\ inherits = [s \in Shapes |-> << >>]
    /\ anyOf = [s \in Shapes |-> << >>]
    /\ decoded = [s \in Shapes |-> FALSE]
    /\ frames = << >>
    /\ ret = None
    /\ failed = FALSE
    /\ crashed = FALSE
    /\ made = [s \in Shapes |-> 0]

\* resolveShape(s) is called; a shape that is resolved is skipped.
Resolve(fs, s) ==
    \/ /\ kind[s] # "unknown"
       /\ ret' = "ok"
       /\ frames' = fs
    \/ /\ kind[s] = "unknown"
       /\ frames' = Append(fs, [shape |-> s, at |-> "start", next |-> 1])
       /\ ret' = None

\* The call of the top record returns r.
Returns(r) == frames' = Callers /\ ret' = r

\* Decoding the facets of s as those of a type k fails; a union does not look
\* at them.
Fails(s, k) == given.facets[s] /\ s \in given.malformed /\ k # "union"

\* MakeConcreteShapeYAML(s, k, facet nodes of s).  The type is set even if the
\* decoding of the facets fails.
Make(s, k) ==
    LET new == IF k \in {"object", "array"} /\ ~Fails(s, k)
               THEN DecodedFrom(given.nested[s]) ELSE << >>
    IN  /\ kind' = [t \in Shapes |-> CASE t = s -> k
                                       [] t # s /\ t \in ToSet(new) -> FirstKind(t)
                                       [] OTHER -> kind[t]]
        /\ queue' = queue \o Unresolved(new)
        /\ decoded' = [decoded EXCEPT ![s] = given.facets[s]]
        /\ made' = [made EXCEPT ![s] = @ + 1]

At(place)    == frames # << >> /\ Top.at = place
Starts(ops)  == At("start") /\ ret = None /\ given.op[S] \in ops
Unchanged    == UNCHANGED << given, failed, crashed >>

\* resolveShapes takes the first shape of the list.
CallNext ==
    /\ frames = << >> /\ ret = None /\ queue # << >>
    /\ Resolve(<< >>, Head(queue))
    /\ UNCHANGED base
    /\ Unchanged

\* Mutant of ShapeReturns: the shape at the back of the list is removed.
RemovesBack ==
    /\ frames = << >> /\ ret # None
    /\ queue' = Front(queue)
    /\ failed' = (failed \/ ret = "error")
    /\ ret' = None
    /\ UNCHANGED << given, kind, alias, inherits, anyOf, decoded, frames, crashed, made >>

\* Its error is collected and the shape removed.
ShapeReturns ==
    /\ frames = << >> /\ ret # None
    /\ queue' = Tail(queue)
    /\ failed' = (failed \/ ret = "error")
    /\ ret' = None
    /\ UNCHANGED << given, kind, alias, inherits, anyOf, decoded, frames, crashed, made >>

\* ANTLR reports a syntax error, the fragment has no such type, or a type is
\* declared to be itself.
Rejects ==
    /\ \/ Starts({"syntax"})
       \/ Starts({"reference"}) /\ given.to[S] \in {None, S}
    /\ Returns("error")
    /\ UNCHANGED base
    /\ Unchanged

\* VisitPrimitive: a built-in type in parentheses gets no facets.
VisitPrimitive ==
    /\ Starts({"group"})
    /\ kind' = [kind EXCEPT ![S] = given.kind[S]]
    /\ made' = [made EXCEPT ![S] = @ + 1]
    /\ Returns("ok")
    /\ UNCHANGED << alias, inherits, anyOf, decoded, queue >>
    /\ Unchanged

\* VisitReference and resolveLink resolve what they refer to.
CallReferenced ==
    /\ Starts({"reference", "include"}) /\ given.to[S] \notin {None, S}
    /\ Resolve(Goto("referenced"), given.to[S])
    /\ UNCHANGED base
    /\ Unchanged

\* Mutant of MakeReferenced: every reference is recorded as a parent.
MakeInheriting ==
    /\ At("referenced") /\ ret = "ok"
    /\ LET k  == kind[given.to[S]]
           ok == ~Fails(S, k)
       IN  /\ Make(S, k)
           /\ Returns(IF ok THEN "ok" ELSE "error")
           /\ inherits' = IF ok /\ given.op[S] = "reference"
                          THEN [inherits EXCEPT ![S] = Append(@, given.to[S])]
                          ELSE inherits
    /\ UNCHANGED << alias, anyOf >>
    /\ Unchanged

\* The shape gets the type of what it refers to; without facets of its own a
\* reference is an alias.
MakeReferenced ==
    /\ At("referenced") /\ ret = "ok"
    /\ LET k  == kind[given.to[S]]
           ok == ~Fails(S, k)
       IN  /\ Make(S, k)
           /\ Returns(IF ok THEN "ok" ELSE "error")
           /\ inherits' = IF ok /\ given.op[S] = "reference" /\ given.facets[S]
                          THEN [inherits EXCEPT ![S] = Append(@, given.to[S])]
                          ELSE inherits
    /\ alias' = IF given.op[S] = "reference" /\ ~given.facets[S]
                THEN [alias EXCEPT ![S] = given.to[S]] ELSE alias
    /\ UNCHANGED anyOf
    /\ Unchanged

\* Mutant of MakeContainer: the shape is left unknown while its parts are visited.
EnterContainer ==
    /\ Starts({"array", "optional", "union"})
    /\ frames' = Goto("members")
    /\ UNCHANGED << base, ret >>
    /\ Unchanged

\* VisitArray, VisitOptional and VisitUnion make the shape before its parts.
MakeContainer ==
    /\ Starts({"array", "optional", "union"})
    /\ LET k == IF given.op[S] = "array" THEN "array" ELSE "union"
       IN  /\ Make(S, k)
           /\ IF Fails(S, k) THEN Returns("error")
                             ELSE frames' = Goto("members") /\ UNCHANGED ret
    /\ UNCHANGED << alias, inherits, anyOf >>
    /\ Unchanged

\* resolveMultipleInheritance begins with the list of types.
EnterList ==
    /\ Starts({"list"})
    /\ frames' = Goto("members")
    /\ UNCHANGED << base, ret >>
    /\ Unchanged

InMembers == At("members") /\ ret = None /\ Top.next <= Len(given.members[S])

\* Mutant of VisitMember: the anonymous shape of the first part is used again.
VisitFirstMember ==
    /\ InMembers /\ given.op[S] # "list"
    /\ LET part == given.members[S][1]
       IN  /\ kind' = [kind EXCEPT ![part] = "unknown"]
           /\ frames' = Append(frames, [shape |-> part, at |-> "start", next |-> 1])
    /\ UNCHANGED << alias, inherits, anyOf, decoded, queue, made, ret >>
    /\ Unchanged

\* A part of an expression is visited with an anonymous shape made for it.
VisitMember ==
    /\ InMembers /\ given.op[S] # "list"
    /\ LET part == given.members[S][Top.next]
       IN  /\ kind' = [kind EXCEPT ![part] = "unknown"]
           /\ frames' = Append(frames, [shape |-> part, at |-> "start", next |-> 1])
    /\ UNCHANGED << alias, inherits, anyOf, decoded, queue, made, ret >>
    /\ Unchanged

CallListed ==
    /\ InMembers /\ given.op[S] = "list"
    /\ Resolve(frames, given.members[S][Top.next])
    /\ UNCHANGED base
    /\ Unchanged

MemberReturns ==
    /\ At("members") /\ ret = "ok"
    /\ frames' = Append(Callers, [Top EXCEPT !.next = @ + 1])
    /\ ret' = None
    /\ UNCHANGED base
    /\ Unchanged

MembersDone == At("members") /\ ret = None /\ Top.next > Len(given.members[S])

\* The parts are stored in the shape.
StoreMembers ==
    /\ MembersDone /\ given.op[S] # "list"
    /\ anyOf' = [anyOf EXCEPT ![S] = given.members[S]]
    /\ Returns("ok")
    /\ UNCHANGED << kind, alias, inherits, decoded, queue, made >>
    /\ Unchanged

\* The shape of a list of types gets the type of the first.
MakeListed ==
    /\ MembersDone /\ given.op[S] = "list" /\ given.members[S] # << >>
    /\ LET k == kind[given.members[S][1]]
       IN  Make(S, k) /\ Returns(IF Fails(S, k) THEN "error" ELSE "ok")
    /\ UNCHANGED << alias, inherits, anyOf >>
    /\ Unchanged

\* resolveMultipleInheritance does not look whether there is a first.
ListPanics ==
    /\ MembersDone /\ given.op[S] = "list" /\ given.members[S] = << >>
    /\ crashed' = TRUE
    /\ UNCHANGED << given, base, frames, ret, failed >>

\* Mutant of PassError: the error of a part or parent is ignored.
IgnoreError ==
    /\ frames # << >> /\ ret = "error"
    /\ ret' = "ok"
    /\ UNCHANGED << base, frames >>
    /\ Unchanged

\* Every caller returns the error it gets.
PassError ==
    /\ frames # << >> /\ ret = "error"
    /\ frames' = Callers
    /\ UNCHANGED << base, ret >>
    /\ Unchanged

\* A call too many ends the program.
Overflow ==
    /\ Len(frames) = StackLimit /\ ~crashed
    /\ crashed' = TRUE
    /\ UNCHANGED << given, base, frames, ret, failed >>

Done == frames = << >> /\ ret = None /\ queue = << >>

\* All shapes are resolved, or the program has ended; lets TLC tell the end
\* from a deadlock.
Over == (Done \/ crashed) /\ UNCHANGED vars

Step ==
    \/ CallNext \/ ShapeReturns \/ Rejects \/ VisitPrimitive
    \/ CallReferenced \/ MakeReferenced \/ MakeContainer \/ EnterList
    \/ VisitMember \/ CallListed \/ MemberReturns \/ StoreMembers \/ MakeListed
    \/ ListPanics \/ PassError

Next == (Len(frames) < StackLimit /\ ~crashed /\ Step) \/ Overflow \/ Over

\* The pass is a plain loop of one goroutine: it runs until it returns.
Spec == Init /\ [][Next]_vars /\ WF_vars(Next)

-----------------------------------------------------------------------------

Record == [shape : Shapes, at : {"start", "referenced", "members"}, next : Nat \ {0}]

\* Every variable has its type.
TypeOK ==
    /\ given \in DocumentType
    /\ kind \in [Shapes -> Kinds \cup Pending]
    /\ alias \in [Shapes -> Shapes \cup {None}]
    /\ inherits \in [Shapes -> Seq(Shapes)]
    /\ anyOf \in [Shapes -> Seq(Shapes)]
    /\ decoded \in [Shapes -> BOOLEAN]
    /\ queue \in Seq(Shapes)
    /\ frames \in Seq(Record)
    /\ ret \in {"ok", "error", None}
    /\ failed \in BOOLEAN
    /\ crashed \in BOOLEAN
    /\ made \in [Shapes -> Nat]

-----------------------------------------------------------------------------
(***************************************************************************)
(* What the document says, without any walk.                               *)
(***************************************************************************)

\* The shapes reached from those of a set in any number of steps; step is a
\* function.
Closure(step, T) ==
    LET within[k \in 0 .. Cardinality(Shapes)] ==
            IF k = 0 THEN T
            ELSE LET U == within[k - 1] IN U \cup UNION {step[s] : s \in U}
    IN  within[Cardinality(Shapes)]

\* What must be resolved before a shape is.
Needs(s) ==
    CASE given.op[s] \in {"reference", "include"} -> {given.to[s]} \ {None}
      [] given.op[s] = "list" -> ToSet(given.members[s])
      [] OTHER -> {}

\* Every type that leads to itself through references, includes and lists of
\* types only; a type declared to be itself is not one, it is rejected.
Endless ==
    {s \in Shapes : s \in Closure([t \in Shapes |-> Needs(t)], Needs(s)) /\ given.to[s] # s}

\* The type a shape has in the end, where resolving it ends.
Meaning ==
    LET source(s) == CASE given.op[s] # "list"        -> given.to[s]
                       [] given.members[s] # << >>   -> given.members[s][1]
                       [] OTHER                      -> None
        at[k \in 0 .. Cardinality(Shapes)] ==
            [s \in Shapes |->
                CASE given.op[s] \in {"builtin", "group"} -> given.kind[s]
                  [] given.op[s] = "array" -> "array"
                  [] given.op[s] \in {"optional", "union"} -> "union"
                  [] OTHER -> IF k = 0 \/ source(s) = None THEN "unknown"
                              ELSE LET below == at[k - 1] IN below[source(s)]]
    IN  at[Cardinality(Shapes)]

\* The declared types, their parts, and the properties of objects and arrays.
Occurring ==
    LET mean == Meaning
        parts(s) == ToSet(given.members[s])
                      \cup (IF mean[s] \in {"object", "array"} /\ given.op[s] # "group"
                            THEN ToSet(given.nested[s]) ELSE {})
    IN  Closure([s \in Shapes |-> parts(s)], ToSet(given.declared))

\* A node that cannot be resolved by itself.
Wrong(s) ==
    \/ given.op[s] = "syntax"
    \/ given.op[s] = "reference" /\ given.to[s] \in {None, s}
    \/ given.op[s] \notin {"builtin", "group"} /\ Fails(s, Meaning[s])

\* Some type refers to one that is being resolved.
Recursive ==
    LET refers(s) == Needs(s) \cup ToSet(given.members[s])
    IN  \E s \in Shapes : s \in Closure([t \in Shapes |-> refers(t)], refers(s))

\* When the list is empty and no error was met, every declared type, every
\* part of an expression and every property has been resolved, to the type
\* its declaration says, although most are resolved on the way of another and
\* new ones keep joining the list; and its facets are not lost.  (Those of a
\* primitive type in parentheses are: VisitPrimitive passes none on.)
Complete ==
    Done /\ ~failed =>
        LET mean == Meaning
        IN  \A s \in Occurring :
               /\ kind[s] \notin Pending /\ kind[s] = mean[s]
               /\ given.facets[s] /\ given.op[s] \notin {"builtin", "group"} => decoded[s]

\* The pass reports an error if and only if some node is wrong: an error deep
\* in an expression is never lost, and a type that is referred to while it is
\* being resolved is not an error.
FailsIfWrong == Done => (failed <=> \E s \in Occurring : Wrong(s))

\* A type, once resolved, keeps its type, even if it is resolved again.
KindStays ==
    [][\A s \in Shapes : kind[s] \notin Pending => kind'[s] = kind[s]]_vars

\* References become aliases or parents, of exactly the type referred to, and
\* each type is made concrete at most once, unless types are recursive.
LinkedOnce ==
    Done /\ ~failed /\ ~Recursive =>
        \A s \in Occurring :
            /\ made[s] <= 1
            /\ alias[s] = IF given.op[s] = "reference" /\ ~given.facets[s]
                          THEN given.to[s] ELSE None
            /\ inherits[s] = IF given.op[s] = "reference" /\ given.facets[s]
                             THEN << given.to[s] >> ELSE << >>

\* The pass returns unless types are declared to be each other, or to be
\* nothing at all (an empty list).
Terminates ==
    Endless = {} /\ (\A s \in Shapes : given.op[s] = "list" => given.members[s] # << >>)
        => <>Done

=============================================================================
