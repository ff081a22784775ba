-------------------------------- MODULE Cloning -------------------------------
(***************************************************************************)
(* Clone, CloneDetached and CloneShallow of BaseShape (shape.go), with the *)
(* methods clone and cloneShallow of the shapes (scalars.go, complex.go).  *)
(*                                                                         *)
(* A shape is an object that refers to others through its custom facet     *)
(* definitions, through its line (alias, parents, linked fragment) and     *)
(* through its parts (items, properties, pattern properties, union         *)
(* members).  The slices and maps that hold these references are objects   *)
(* of their own, which two shapes can share.  A recursive shape also has a *)
(* head.  Graphs of shapes have cycles.  clone is a recursive function; it *)
(* puts a copy into the map before it goes on, and the map, which is keyed *)
(* by the identity of shapes, ends the recursion.                          *)
(*                                                                         *)
(* An identity need not belong to one shape: a copy of either kind keeps   *)
(* the one of its original, and the parts of a copied union member keep    *)
(* theirs (only its top gets a new one).  The three operations take any    *)
(* shape, such copies included, and the graphs at first may hold several   *)
(* shapes of one identity.                                                 *)
(*                                                                         *)
(* Objects and containers are named by their positions in heap and         *)
(* containers; 0 is none.  What a clone shares on purpose ("not mutated    *)
(* anyway": nodes, annotations, examples, the JSON Schema) is left out.    *)
(***************************************************************************)
EXTENDS Naturals, Sequences

CONSTANTS
    IDs,       \* the identities of shapes
    Original, Shallow,  \* who made a shape (see Shape)
    Graphs,    \* the graphs there may be at first (see GraphType)
    MaxCalls   \* how many calls are made

\* The references of the shapes 1..n, in the order clone takes them.
Links(n) == [defs : Seq(1..n), line : Seq(1..n), parts : Seq(1..n), head : 0..n, id : IDs]

GraphType == UNION {[1..n -> Links(n)] : n \in Nat}

ASSUME ConstantsAssumption ==
    /\ MaxCalls \in Nat
    /\ Original \notin Nat /\ Shallow \notin Nat /\ Original # Shallow
    /\ \A g \in Graphs : g \in Seq(Links(Len(g)))

VARIABLES
    heap,         \* the shapes
    containers,   \* what their containers hold
    map,          \* the map of the call under way: what an identity is cloned to
    shared,       \* the map the caller passes to Clone
    frames,       \* activation records of clone
    call,         \* the number of the call under way; 0 is Clone with shared
    calls,        \* how many calls were made
    copies        \* what the calls of CloneDetached returned, and from what

vars == << heap, containers, map, shared, frames, call, calls, copies >>

\* A shape: its identity, three containers and a head.  source is the shape it
\* is a copy of (auxiliary), and owner the call that made it: a number, Original
\* for the shapes there were at first, Shallow for shallow copies.
Shape == [ id : IDs, defs : Nat, line : Nat, parts : Nat, head : Nat,
           source : Nat, owner : Nat \cup {Original, Shallow} ]
Frame == [ src : Nat, dst : Nat, next : Nat ]

Empty == [i \in IDs |-> 0]

DefsOf(s)  == containers[heap[s].defs]
LineOf(s)  == containers[heap[s].line]
PartsOf(s) == containers[heap[s].parts]
Refs(s)    == DefsOf(s) \o LineOf(s) \o PartsOf(s)

\* The container that holds the k-th reference of s.
Holder(s, k, of) ==
    IF k <= Len(DefsOf(s)) THEN of.defs
    ELSE IF k <= Len(DefsOf(s)) + Len(LineOf(s)) THEN of.line ELSE of.parts

Top   == frames[Len(frames)]
Below == SubSeq(frames, 1, Len(frames) - 1)
Idle  == frames = << >>

-----------------------------------------------------------------------------

Init ==
    \E g \in Graphs :
        /\ heap = [s \in DOMAIN g |->
                     [ id |-> g[s].id, defs |-> 3 * s - 2, line |-> 3 * s - 1, parts |-> 3 * s,
                       head |-> g[s].head, source |-> 0, owner |-> Original ]]
        /\ containers = [c \in 1..(3 * Len(g)) |->
                           LET s == (c + 2) \div 3
                           IN  IF c = 3 * s - 2 THEN g[s].defs
                               ELSE IF c = 3 * s - 1 THEN g[s].line ELSE g[s].parts]
        /\ map = Empty
        /\ shared = Empty
        /\ frames = << >>
        /\ call = 0
        /\ calls = 0
        /\ copies = << >>

\* Mutant of Enter: the copy is not entered into the map, and the stack overflows.
EnterForgets(m, n, s) ==
    IF Len(frames) > 5 THEN UNCHANGED << heap, containers, map, frames >>
    ELSE /\ heap' = Append(heap, [heap[s] EXCEPT !.defs = Len(containers) + 1,
                                                 !.line = Len(containers) + 2,
                                                 !.parts = Len(containers) + 3,
                                                 !.source = s, !.owner = n])
         /\ containers' = containers \o << << >>, << >>, << >> >>
         /\ map' = m
         /\ frames' = Append(frames, [src |-> s, dst |-> Len(heap) + 1, next |-> 1])

\* clone(s) finds no copy in the map m: it makes one, with new containers, and
\* enters it.  The head of a recursive shape is kept.
Enter(m, n, s) ==
    /\ heap' = Append(heap, [ id     |-> heap[s].id,
                              defs   |-> Len(containers) + 1,
                              line   |-> Len(containers) + 2,
                              parts  |-> Len(containers) + 3,
                              head   |-> heap[s].head,
                              source |-> s,
                              owner  |-> n ])
    /\ containers' = containers \o << << >>, << >>, << >> >>
    /\ map' = [m EXCEPT ![heap[s].id] = Len(heap) + 1]
    /\ frames' = Append(frames, [src |-> s, dst |-> Len(heap) + 1, next |-> 1])

\* A call with a map of its own.
CloneDetached(s) ==
    /\ Idle /\ calls < MaxCalls
    /\ calls' = calls + 1
    /\ call' = calls + 1
    /\ Enter(Empty, calls + 1, s)
    /\ UNCHANGED << shared, copies >>

\* A call with the map of earlier calls: what they cloned of this identity is
\* returned as it is.
Clone(s) ==
    /\ Idle /\ calls < MaxCalls
    /\ calls' = calls + 1
    /\ call' = 0
    /\ IF shared[heap[s].id] = 0
       THEN Enter(shared, 0, s)
       ELSE UNCHANGED << heap, containers, map, frames >>
    /\ UNCHANGED << shared, copies >>

\* The maps of custom facets are copied, everything else is shared.
CloneShallow(s) ==
    /\ Idle /\ calls < MaxCalls
    /\ calls' = calls + 1
    /\ heap' = Append(heap, [heap[s] EXCEPT !.defs = Len(containers) + 1, !.source = s, !.owner = Shallow])
    /\ containers' = Append(containers, DefsOf(s))
    /\ UNCHANGED << map, shared, frames, call, copies >>

Working == ~Idle /\ Top.next <= Len(Refs(Top.src))

\* The reference clone is at.
Pending == Refs(Top.src)[Top.next]

\* Mutant of Put: a slice of the copy is the one of its source.
PutInSource(f, d) ==
    [containers EXCEPT ![Holder(f.src, f.next, heap[f.src])] =
        [k \in DOMAIN @ |-> IF @[k] = Refs(f.src)[f.next] THEN d ELSE @[k]]]

\* The copy d of what frame f is at is put where it belongs.
Put(f, d) == [containers EXCEPT ![Holder(f.src, f.next, heap[f.dst])] = Append(@, d)]

\* Mutant of ReuseCopy: a reference that was met before is kept.
ReuseOriginal ==
    /\ Working /\ map[heap[Pending].id] # 0
    /\ containers' = Put(Top, Pending)
    /\ frames' = [frames EXCEPT ![Len(frames)].next = @ + 1]
    /\ UNCHANGED << heap, map, shared, call, calls, copies >>

\* The reference is in the map.
ReuseCopy ==
    /\ Working /\ map[heap[Pending].id] # 0
    /\ containers' = Put(Top, map[heap[Pending].id])
    /\ frames' = [frames EXCEPT ![Len(frames)].next = @ + 1]
    /\ UNCHANGED << heap, map, shared, call, calls, copies >>

\* The reference is not in the map and is cloned first.
CloneRef ==
    /\ Working /\ map[heap[Pending].id] = 0
    /\ Enter(map, call, Pending)
    /\ UNCHANGED << shared, call, calls, copies >>

Finished == ~Idle /\ Top.next > Len(Refs(Top.src))

\* clone returns the copy to clone.
CloneReturns ==
    /\ Finished /\ Below # << >>
    /\ containers' = Put(Below[Len(Below)], Top.dst)
    /\ frames' = [Below EXCEPT ![Len(Below)].next = @ + 1]
    /\ UNCHANGED << heap, map, shared, call, calls, copies >>

\* clone returns to Clone or CloneDetached.
CallReturns ==
    /\ Finished /\ Below = << >>
    /\ frames' = << >>
    /\ IF call = 0
       THEN shared' = map /\ UNCHANGED copies
       ELSE copies' = Append(copies, [source |-> Top.src, copy |-> Top.dst]) /\ UNCHANGED shared
    /\ UNCHANGED << heap, containers, map, call, calls >>

Work == ReuseCopy \/ CloneRef \/ CloneReturns \/ CallReturns

\* All calls are made; lets TLC tell the end from a deadlock.
Over == Idle /\ calls = MaxCalls /\ UNCHANGED vars

Next ==
    \/ \E s \in DOMAIN heap : CloneDetached(s) \/ Clone(s) \/ CloneShallow(s)
    \/ Work
    \/ Over

Spec == Init /\ [][Next]_vars

\* A call goes on while there is something to do.
FairSpec == Spec /\ WF_vars(Work)

-----------------------------------------------------------------------------
(* Properties *)

Frames == {frames[k] : k \in DOMAIN frames}

\* The deep copies that are made, and those of them that are finished.
Cloned == {c \in DOMAIN heap : heap[c].owner \in Nat}
Whole  == {c \in Cloned : \A f \in Frames : f.dst # c}

\* Every variable has its type, and all that is referred to exists.
TypeOK ==
    /\ heap \in Seq(Shape)
    /\ containers \in Seq(Seq(DOMAIN heap))
    /\ \A s \in DOMAIN heap :
          /\ {heap[s].defs, heap[s].line, heap[s].parts} \subseteq DOMAIN containers
          /\ heap[s].head \in {0} \cup DOMAIN heap
          /\ heap[s].owner = Original \/ heap[s].source \in DOMAIN heap
    /\ map \in [IDs -> {0} \cup DOMAIN heap]
    /\ shared \in [IDs -> {0} \cup DOMAIN heap]
    /\ frames \in Seq(Frame)
    /\ \A f \in Frames : {f.src, f.dst} \subseteq DOMAIN heap /\ f.next > 0
    /\ call \in Nat /\ calls \in Nat
    /\ copies \in Seq([source : DOMAIN heap, copy : DOMAIN heap])

\* The shapes that owner n met: those it copied and what they refer to.
Met(n) ==
    LET S == {heap[c].source : c \in {d \in Cloned : heap[d].owner = n}}
    IN  S \cup UNION {{Refs(s)[k] : k \in DOMAIN Refs(s)} : s \in S}

\* No two of them have one identity.
Distinct(n) == \A s, t \in Met(n) : heap[s].id = heap[t].id => s = t

\* The references in a container of c are copies, of the owner of c, of those in
\* a container of its source, one for one: of shapes of the same identity, and
\* of the very shapes where the identity tells them apart.
Images(c, mine, theirs) ==
    /\ Len(containers[mine]) = Len(containers[theirs])
    /\ \A k \in DOMAIN containers[mine] :
          LET r == containers[mine][k]
              t == containers[theirs][k]
          IN  /\ heap[r].owner = heap[c].owner /\ heap[r].id = heap[t].id
              /\ Distinct(heap[c].owner) => heap[r].source = t

\* A finished deep copy is the image of its source up to identity, whatever
\* shape was cloned: it keeps identity and head, each of its references leads to
\* the copy its owner made of the identity the source's leads to, and there is
\* one copy of an identity, so what the source reaches in two ways the copy
\* reaches in two ways (Clone: "preserving the relationships between shapes";
\* calls with one map have one owner).  Where no two shapes the owner met have
\* one identity, it is the image outright.  Where two do, as when a shallow copy
\* is cloned whose original can be reached from it, clone takes the second for
\* the first and its own contents are not in the copy: the map has no more than
\* the identity to go by.
Faithful ==
    /\ \A c \in Whole :
          LET s == heap[c].source
          IN  /\ heap[c].id = heap[s].id /\ heap[c].head = heap[s].head
              /\ Images(c, heap[c].defs, heap[s].defs)
              /\ Images(c, heap[c].line, heap[s].line)
              /\ Images(c, heap[c].parts, heap[s].parts)
    /\ \A c, d \in Cloned :
          heap[c].owner = heap[d].owner /\ heap[c].id = heap[d].id => c = d

\* The shapes one can get to from s, heads not followed.
Reached(s) ==
    LET Step(R) == R \cup UNION {{Refs(r)[k] : k \in DOMAIN Refs(r)} : r \in R}
        within[d \in 0..Len(heap)] == IF d = 0 THEN {s} ELSE Step(within[d - 1])
    IN  within[Len(heap)]

Holders(s) == {heap[s].defs, heap[s].line, heap[s].parts}

\* What CloneDetached returns shares neither a shape nor a slice or map with
\* anything else, shallow copies of it excepted: both can be changed in place
\* without the other noticing (CloneDetached: "completely independent").
Detached ==
    \A i \in DOMAIN copies :
        LET mine == Reached(copies[i].copy)
        IN  \A s \in mine : \A t \in DOMAIN heap \ mine :
               heap[t].owner # Shallow =>
                  /\ Holders(s) \cap Holders(t) = {}
                  /\ s \notin {Refs(t)[k] : k \in DOMAIN Refs(t)}

\* Cloning changes nothing that was there: only the copies a call is working on
\* are written to.
Untouched ==
    [][\A s \in DOMAIN heap : (\A f \in Frames : f.dst # s) =>
          /\ heap'[s] = heap[s]
          /\ \A c \in Holders(s) : containers'[c] = containers[c]]_vars

\* Every call returns, for every cyclic graph.
Terminates == ~Idle ~> Idle

=============================================================================
