---------------------------- MODULE RecursionMark ----------------------------
(***************************************************************************)
(* RAML.markShapeRecursions and RAML.FindAndMarkRecursion (unwrap.go).     *)
(*                                                                         *)
(* After unwrapping, the model is a graph of shapes: an array points to    *)
(* its items, an object to its (pattern) properties, a union to its        *)
(* members, and every shape to its custom facet definitions.  The pass     *)
(* walks that graph depth first from every declared type and puts a        *)
(* RecursiveShape in every reference that leads back to a shape still      *)
(* being walked, so that later passes (check, validateShapeCommons, the    *)
(* JSON Schema converter, a client's own visitor) can recurse safely.      *)
(*                                                                         *)
(* A reference is a slot: the Items field, one entry of AnyOf, or one      *)
(* entry of an ordered map.  Two shapes may own the same slot, because     *)
(* inheritance and aliasing hand the parent's map to the child by pointer. *)
(* The recursive Go function is a stack of activation records.             *)
(***************************************************************************)
EXTENDS Naturals, Sequences

CONSTANTS
    Shapes,      \* the concrete shapes the unwrapper produced
    Markers,     \* addresses for the RecursiveShapes the pass allocates
    Slots,       \* the references held by shapes
    Graphs,      \* the models the pass may be given (records, see GraphType)
    None

Node == Shapes \cup Markers

\* An activation record: the shape walked and the slot its loop is at.
Frame == [node : Node, next : Nat \ {0}]

(***************************************************************************)
(* children    the slots of items, properties and pattern properties, or   *)
(*             union members of a shape, in the order they are walked      *)
(* facetDefs   the slots of its custom facet definitions                   *)
(* target      the shape each slot points to                               *)
(* unwrapped   the shapes UnwrapShape has processed                        *)
(* rejected    the shapes for which a registered hook returns an error     *)
(* stale       the shapes whose ShapeVisited flag is already set           *)
(* roots       the declared types, in the order the pass is called with    *)
(*             them (fragments are kept in a Go map: any order of them)    *)
(***************************************************************************)
GraphType ==
    [ children  : [Shapes -> Seq(Slots)],
      facetDefs : [Shapes -> Seq(Slots)],
      target    : [Slots -> Shapes],
      unwrapped : SUBSET Shapes,
      rejected  : SUBSET Shapes,
      stale     : SUBSET Shapes,
      roots     : Seq(Shapes) ]

ASSUME ConstantsAssumption ==
    /\ Shapes \cap Markers = {}
    /\ None \notin Node
    /\ Graphs \subseteq GraphType

VARIABLES
    given,       \* the model as the unwrapper left it (never changes)
    target,      \* what every slot points to now
    facetDefs,   \* the facet definition slots of every node
    head,        \* RecursiveShape.Head of every allocated marker
    unwrapped,   \* BaseShape.unwrapped
    visited,     \* BaseShape.ShapeVisited
    frames,      \* activation records of FindAndMarkRecursion
    todo,        \* the types markShapeRecursions has yet to call with
    status,      \* "running", "done" or "failed"
    origin,      \* auxiliary: the shape a node stands for
    rank,        \* auxiliary: when a node's walk first ended, 0 before
    clock        \* auxiliary: the highest rank given out

vars == << given, target, facetDefs, head, unwrapped, visited, frames, todo,
           status, origin, rank, clock >>

-----------------------------------------------------------------------------

Allocated == {m \in Markers : head[m] # None}
Fresh     == CHOOSE m \in Markers : head[m] = None

\* The slots walked by one call: a RecursiveShape is neither an array, an
\* object nor a union, so only the facet definitions of a marker are walked.
Refs(n) == (IF n \in Shapes THEN given.children[n] ELSE << >>) \o facetDefs[n]

Top     == frames[Len(frames)]
Pending == Refs(Top.node)[Top.next]
Callee  == target[Pending]
InLoop  == frames # << >> /\ Top.next <= Len(Refs(Top.node))

\* The checks a call makes before it touches the shape.
Refused(n) == n \in given.rejected \/ ~unwrapped[n]

Advance(fs) == [fs EXCEPT ![Len(fs)].next = @ + 1]

\* FindAndMarkRecursion(n) on a shape that is not on the current path.
Push(n) ==
    /\ visited' = [visited EXCEPT ![n] = TRUE]
    /\ frames'  = Append(frames, [node |-> n, next |-> 1])
    /\ UNCHANGED << target, facetDefs, head, unwrapped, origin, rank, clock >>

\* Mutant of Allocate: the new shape is not marked as unwrapped.
AllocateWrapped(m, h) ==
    /\ Allocated # Markers
    /\ head'      = [head EXCEPT ![m] = h]
    /\ facetDefs' = [facetDefs EXCEPT ![m] = facetDefs[h]]
    /\ origin'    = [origin EXCEPT ![m] = origin[h]]
    /\ UNCHANGED unwrapped

\* MakeRecursiveShape(h); the new shape shares h's map of facet definitions.
Allocate(m, h) ==
    /\ Allocated # Markers
    /\ head'      = [head EXCEPT ![m] = h]
    /\ facetDefs' = [facetDefs EXCEPT ![m] = facetDefs[h]]
    /\ unwrapped' = [unwrapped EXCEPT ![m] = TRUE]
    /\ origin'    = [origin EXCEPT ![m] = origin[h]]

Init ==
    /\ given \in Graphs
    /\ target = given.target
    /\ facetDefs = [n \in Node |->
                       IF n \in Shapes THEN given.facetDefs[n] ELSE << >>]
    /\ head = [m \in Markers |-> None]
    /\ unwrapped = [n \in Node |-> n \in given.unwrapped]
    /\ visited = [n \in Node |-> n \in given.stale]
    /\ frames = << >>
    /\ todo = given.roots
    /\ status = "running"
    /\ origin = [n \in Node |-> IF n \in Shapes THEN n ELSE None]
    /\ rank = [n \in Node |-> 0]
    /\ clock = 0

\* The loop of markShapeRecursions calls with the next declared type.
CallRoot ==
    /\ frames = << >> /\ todo # << >>
    /\ ~Refused(Head(todo))
    /\ ~visited[Head(todo)]
    /\ Push(Head(todo))
    /\ todo' = Tail(todo)
    /\ UNCHANGED << given, status >>

\* The call returns a marker and the loop drops it: types are not replaced.
DiscardMarker ==
    /\ frames = << >> /\ todo # << >>
    /\ ~Refused(Head(todo))
    /\ visited[Head(todo)]
    /\ Allocate(Fresh, Head(todo))
    /\ todo' = Tail(todo)
    /\ UNCHANGED << given, target, visited, frames, status, rank, clock >>

\* The walk descends through the pending slot.
CallReference ==
    /\ InLoop
    /\ ~Refused(Callee)
    /\ ~visited[Callee]
    /\ Push(Callee)
    /\ UNCHANGED << given, todo, status >>

\* Mutant of MarkReference: the marker is not stored.
DropReference ==
    /\ InLoop
    /\ ~Refused(Callee)
    /\ visited[Callee]
    /\ Allocate(Fresh, Callee)
    /\ frames' = Advance(frames)
    /\ UNCHANGED << given, target, visited, todo, status, rank, clock >>

\* Mutant of MarkReference: the marker is stored in the first slot.
MarkFirstReference ==
    /\ InLoop
    /\ ~Refused(Callee)
    /\ visited[Callee]
    /\ Allocate(Fresh, Callee)
    /\ target' = [target EXCEPT ![Refs(Top.node)[1]] = Fresh]
    /\ frames' = Advance(frames)
    /\ UNCHANGED << given, visited, todo, status, rank, clock >>

\* The pending slot leads to a visited shape: the callee returns a marker,
\* and the loop of the caller stores it in the slot.
MarkReference ==
    /\ InLoop
    /\ ~Refused(Callee)
    /\ visited[Callee]
    /\ Allocate(Fresh, Callee)
    /\ target' = [target EXCEPT ![Pending] = Fresh]
    /\ frames' = Advance(frames)
    /\ UNCHANGED << given, visited, todo, status, rank, clock >>

\* Mutant of Return: the flag is not cleared.
ReturnVisited ==
    /\ frames # << >> /\ Top.next > Len(Refs(Top.node))
    /\ LET callers == SubSeq(frames, 1, Len(frames) - 1)
       IN  frames' = IF callers = << >> THEN << >> ELSE Advance(callers)
    /\ IF rank[Top.node] = 0
       THEN /\ clock' = clock + 1
            /\ rank' = [rank EXCEPT ![Top.node] = clock + 1]
       ELSE UNCHANGED << rank, clock >>
    /\ UNCHANGED << given, target, facetDefs, head, unwrapped, visited, todo,
                    status, origin >>

\* Mutant of Return: the caller does not go on to its next slot.
ReturnToSameSlot ==
    /\ frames # << >> /\ Top.next > Len(Refs(Top.node))
    /\ visited' = [visited EXCEPT ![Top.node] = FALSE]
    /\ frames' = SubSeq(frames, 1, Len(frames) - 1)
    /\ IF rank[Top.node] = 0
       THEN /\ clock' = clock + 1
            /\ rank' = [rank EXCEPT ![Top.node] = clock + 1]
       ELSE UNCHANGED << rank, clock >>
    /\ UNCHANGED << given, target, facetDefs, head, unwrapped, todo, status,
                    origin >>

\* The walk of the top node ends: its flag is cleared, and the caller, which
\* got no marker, goes on to its next slot.
Return ==
    /\ frames # << >> /\ Top.next > Len(Refs(Top.node))
    /\ visited' = [visited EXCEPT ![Top.node] = FALSE]
    /\ LET callers == SubSeq(frames, 1, Len(frames) - 1)
       IN  frames' = IF callers = << >> THEN << >> ELSE Advance(callers)
    /\ IF rank[Top.node] = 0
       THEN /\ clock' = clock + 1
            /\ rank' = [rank EXCEPT ![Top.node] = clock + 1]
       ELSE UNCHANGED << rank, clock >>
    /\ UNCHANGED << given, target, facetDefs, head, unwrapped, todo, status,
                    origin >>

\* A call fails and every caller returns its error, with the flags of the
\* current path still set.
Fail ==
    /\ \/ InLoop /\ Refused(Callee)
       \/ frames = << >> /\ todo # << >> /\ Refused(Head(todo))
    /\ status' = "failed"
    /\ frames' = << >>
    /\ todo' = << >>
    /\ UNCHANGED << given, target, facetDefs, head, unwrapped, visited, origin,
                    rank, clock >>

Finish ==
    /\ status = "running" /\ frames = << >> /\ todo = << >>
    /\ status' = "done"
    /\ UNCHANGED << given, target, facetDefs, head, unwrapped, visited, frames,
                    todo, origin, rank, clock >>

\* The pass is over; lets TLC tell the end from a deadlock.
Over == status # "running" /\ UNCHANGED vars

Next ==
    \/ CallRoot
    \/ DiscardMarker
    \/ CallReference
    \/ MarkReference
    \/ Return
    \/ Fail
    \/ Finish
    \/ Over

\* The pass is a plain loop of one goroutine: it runs until it returns.
Spec == Init /\ [][Next]_vars /\ WF_vars(Next)

-----------------------------------------------------------------------------

\* Every variable has its type.
TypeOK ==
    /\ given \in GraphType
    /\ target \in [Slots -> Node]
    /\ facetDefs \in [Node -> Seq(Slots)]
    /\ head \in [Markers -> Node \cup {None}]
    /\ unwrapped \in [Node -> BOOLEAN]
    /\ visited \in [Node -> BOOLEAN]
    /\ frames \in Seq(Frame)
    /\ todo \in Seq(Shapes)
    /\ status \in {"running", "done", "failed"}
    /\ origin \in [Node -> Shapes \cup {None}]
    /\ rank \in [Node -> Nat]
    /\ clock \in Nat

OnPath == {frames[i].node : i \in DOMAIN frames}

\* ShapeVisited marks exactly the shapes on the path being walked (besides
\* those whose flag was set before the pass): a shape that is merely shared
\* by two references is never taken for a recursion, and a successful pass
\* leaves no flag behind for the next user of the field.
FlagIsPath ==
    status # "failed" =>
        /\ \A n \in Node : visited[n] <=> n \in OnPath \/ n \in given.stale
        /\ OnPath \cap given.stale = {}

\* Whatever a finished walk left in the slots of a concrete shape is a marker
\* or a shape whose own walk ended earlier, although walks are restarted from
\* every type and slots are shared and rewritten under active callers.  A
\* visitor that stops at markers therefore never comes back to where it was.
WalkedIsCut ==
    \A n \in Shapes : rank[n] # 0 =>
        \A i \in DOMAIN Refs(n) :
            LET t == target[Refs(n)[i]]
            IN  t \in Markers \/ (rank[t] # 0 /\ rank[t] < rank[n])

\* Marking changes what a slot holds but never which shape it stands for: a
\* marker stands for the shape the slot pointed to.
SameShape == \A k \in Slots : origin[target[k]] = given.target[k]

-----------------------------------------------------------------------------
(***************************************************************************)
(* What the pass promises, stated on the graph itself.                     *)
(***************************************************************************)

\* The shapes reached from n in one or more steps of the relation edge.
Reach(edge(_, _), n) ==
    LET closed(S) == \A a \in S \cup {n} : \A b \in Shapes : edge(a, b) => b \in S
    IN  {m \in Shapes : \A S \in SUBSET Shapes : closed(S) => m \in S}

GivenRefs(n) == given.children[n] \o given.facetDefs[n]

GivenEdge(a, b) == \E i \in DOMAIN GivenRefs(a) : given.target[GivenRefs(a)[i]] = b

\* The references a visitor follows: it stops at markers.
LiveEdge(a, b) == \E i \in DOMAIN Refs(a) : target[Refs(a)[i]] = b

Declared == {given.roots[i] : i \in DOMAIN given.roots}

\* After a successful pass no shape reachable from a declared type reaches
\* itself again, other than through a marker.
NoCycleLeft ==
    status = "done" /\ given.stale = {} =>
        \A r \in Declared : \A n \in {r} \cup Reach(LiveEdge, r) :
            n \notin Reach(LiveEdge, n)

\* Only recursion is marked: a slot is replaced only if it closes a cycle of
\* the model the unwrapper produced.
OnlyCyclesMarked ==
    given.stale = {} =>
        \A k \in Slots : target[k] \in Markers =>
            \E n \in Shapes :
                /\ \E i \in DOMAIN GivenRefs(n) : GivenRefs(n)[i] = k
                /\ n \in {given.target[k]} \cup Reach(GivenEdge, given.target[k])

\* The pass fails only if a hook rejects a shape or a shape was not unwrapped:
\* walking the markers it created itself is never an error.
OnlyInputFails ==
    status = "failed" => given.rejected # {} \/ given.unwrapped # Shapes

\* The pass ends, on cyclic and on shared graphs.
Terminates == <>(status # "running")

=============================================================================
