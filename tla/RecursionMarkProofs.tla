------------------------- MODULE RecursionMarkProofs -------------------------
(***************************************************************************)
(* Proofs about RecursionMark, for every set of shapes and slots and every *)
(* graph: the types, the meaning of the ShapeVisited flag, and that a walk *)
(* leaves no cycle behind it.                                              *)
(***************************************************************************)
EXTENDS RecursionMark, SequenceTheorems, TLAPS

-----------------------------------------------------------------------------
(***************************************************************************)
(* What the operators return in a well-typed state.                        *)
(***************************************************************************)

LEMMA RefsType ==
    ASSUME TypeOK, NEW n \in Node
    PROVE  /\ Refs(n) \in Seq(Slots)
           /\ Len(Refs(n)) \in Nat
           /\ DOMAIN Refs(n) = 1..Len(Refs(n))
<1>1. (IF n \in Shapes THEN given.children[n] ELSE << >>) \in Seq(Slots)
  BY EmptySeq DEF TypeOK, GraphType
<1>2. facetDefs[n] \in Seq(Slots)
  BY DEF TypeOK
<1>3. Refs(n) \in Seq(Slots)
  BY <1>1, <1>2, ConcatProperties DEF Refs
<1> QED
  BY <1>3, LenProperties

LEMMA TopType ==
    ASSUME TypeOK, frames # << >>
    PROVE  /\ Len(frames) \in Nat \ {0}
           /\ Len(frames) \in DOMAIN frames
           /\ Top = frames[Len(frames)]
           /\ Top \in Frame
           /\ Top.node \in Node
           /\ Top.next \in Nat \ {0}
<1>1. frames \in Seq(Frame)
  BY DEF TypeOK
<1>2. /\ Len(frames) \in Nat
      /\ frames \in [1..Len(frames) -> Frame]
      /\ DOMAIN frames = 1..Len(frames)
  BY <1>1, LenProperties
<1>3. Len(frames) # 0
  BY <1>1, EmptySeq
<1>4. Len(frames) \in DOMAIN frames
  BY <1>2, <1>3
<1>5. Top \in Frame
  BY <1>2, <1>4 DEF Top
<1> QED
  BY <1>2, <1>3, <1>4, <1>5 DEF Top, Frame

LEMMA PendingType ==
    ASSUME TypeOK, InLoop
    PROVE  /\ Top.next \in DOMAIN Refs(Top.node)
           /\ Pending \in Slots
           /\ Callee \in Node
<1>1. frames # << >> /\ Top.next <= Len(Refs(Top.node))
  BY DEF InLoop
<1>2. Top.node \in Node /\ Top.next \in Nat \ {0}
  BY <1>1, TopType
<1>3. Top.next \in 1..Len(Refs(Top.node))
  BY <1>1, <1>2, RefsType
<1>4. Pending \in Slots
  BY <1>2, <1>3, RefsType, ElementOfSeq DEF Pending
<1> QED
  BY <1>2, <1>3, <1>4, RefsType DEF Callee, TypeOK

LEMMA FrameTypes ==
    ASSUME TypeOK
    PROVE  \A i \in 1..Len(frames) :
              frames[i].node \in Node /\ frames[i].next \in Nat \ {0}
<1> SUFFICES ASSUME NEW i \in 1..Len(frames)
             PROVE  frames[i].node \in Node /\ frames[i].next \in Nat \ {0}
  OBVIOUS
<1>1. frames \in Seq(Frame)
  BY DEF TypeOK
<1>2. frames[i] \in Frame
  BY <1>1, ElementOfSeq
<1> QED
  BY <1>2 DEF Frame

LEMMA FreshType ==
    ASSUME TypeOK, Allocated # Markers
    PROVE  Fresh \in Markers /\ head[Fresh] = None /\ Fresh \notin Shapes
<1>1. \E m \in Markers : head[m] = None
  BY DEF Allocated
<1> QED
  BY <1>1, ConstantsAssumption DEF Fresh

LEMMA RootType ==
    ASSUME TypeOK, todo # << >>
    PROVE  /\ Head(todo) \in Shapes
           /\ Head(todo) \in Node
           /\ Tail(todo) \in Seq(Shapes)
           /\ Len(todo) \in Nat \ {0}
           /\ Head(todo) = todo[1]
           /\ Len(Tail(todo)) = Len(todo) - 1
           /\ \A i \in 1..Len(Tail(todo)) : Tail(todo)[i] = todo[i + 1]
<1>1. todo \in Seq(Shapes)
  BY DEF TypeOK
<1>2. Len(todo) \in Nat /\ Len(todo) # 0
  BY <1>1, EmptySeq, LenProperties
<1> QED
  BY <1>1, <1>2, HeadTailProperties DEF Node

-----------------------------------------------------------------------------
(***************************************************************************)
(* What each kind of step does to the stack of activation records.         *)
(***************************************************************************)

LEMMA PushFrames ==
    ASSUME TypeOK, NEW n \in Node, Push(n)
    PROVE  /\ frames' \in Seq(Frame)
           /\ Len(frames') = Len(frames) + 1
           /\ \A i \in 1..Len(frames) : frames'[i] = frames[i]
           /\ frames'[Len(frames) + 1] = [node |-> n, next |-> 1]
<1>1. [node |-> n, next |-> 1] \in Frame
  BY DEF Frame
<1> QED
  BY <1>1, AppendProperties DEF TypeOK, Push

LEMMA AdvanceFrames ==
    ASSUME NEW fs \in Seq(Frame), fs # << >>
    PROVE  /\ Advance(fs) \in Seq(Frame)
           /\ Len(Advance(fs)) = Len(fs)
           /\ \A i \in 1..Len(fs) :
                 /\ Advance(fs)[i].node = fs[i].node
                 /\ Advance(fs)[i].next =
                       IF i = Len(fs) THEN fs[i].next + 1 ELSE fs[i].next
<1>1. /\ Len(fs) \in Nat
      /\ fs \in [1..Len(fs) -> Frame]
      /\ Len(fs) # 0
  BY LenProperties, EmptySeq
<1>2. Len(fs) \in 1..Len(fs)
  BY <1>1
<1>3. fs[Len(fs)] \in Frame
  BY <1>1, <1>2
<1> DEFINE e == [fs[Len(fs)] EXCEPT !.next = @ + 1]
<1>4. e \in Frame /\ e.node = fs[Len(fs)].node /\ e.next = fs[Len(fs)].next + 1
  BY <1>3 DEF Frame
<1>5. Advance(fs) = [fs EXCEPT ![Len(fs)] = e]
  BY DEF Advance
<1> HIDE DEF e
<1>6. /\ [fs EXCEPT ![Len(fs)] = e] \in Seq(Frame)
      /\ Len([fs EXCEPT ![Len(fs)] = e]) = Len(fs)
      /\ \A j \in 1..Len(fs) :
            [fs EXCEPT ![Len(fs)] = e][j] = IF j = Len(fs) THEN e ELSE fs[j]
  BY <1>2, <1>4, ExceptSeq
<1>7. ASSUME NEW i \in 1..Len(fs)
      PROVE  /\ Advance(fs)[i].node = fs[i].node
             /\ Advance(fs)[i].next =
                   IF i = Len(fs) THEN fs[i].next + 1 ELSE fs[i].next
  <2>1. CASE i = Len(fs)
    BY <1>4, <1>5, <1>6, <2>1
  <2>2. CASE i # Len(fs)
    BY <1>5, <1>6, <2>2
  <2> QED
    BY <2>1, <2>2
<1> QED
  BY <1>5, <1>6, <1>7

LEMMA ReturnFrames ==
    ASSUME TypeOK, Return
    PROVE  /\ frames' \in Seq(Frame)
           /\ Len(frames') = Len(frames) - 1
           /\ \A i \in 1..(Len(frames) - 1) :
                 /\ frames'[i].node = frames[i].node
                 /\ frames'[i].next = IF i = Len(frames) - 1
                                      THEN frames[i].next + 1
                                      ELSE frames[i].next
<1>1. frames # << >> /\ frames \in Seq(Frame)
  BY DEF Return, TypeOK
<1>2. Len(frames) \in Nat \ {0} /\ frames \in [1..Len(frames) -> Frame]
  BY <1>1, TopType, LenProperties
<1> DEFINE callers == SubSeq(frames, 1, Len(frames) - 1)
<1>3. \A i \in 1..(Len(frames) - 1) : frames[i] \in Frame
  BY <1>2
<1>4. /\ callers \in Seq(Frame)
      /\ Len(callers) = Len(frames) - 1
      /\ \A i \in 1..(Len(frames) - 1) : callers[i] = frames[i]
  <2>1. /\ callers \in Seq(Frame)
        /\ Len(callers) = IF 1 <= Len(frames) - 1 THEN Len(frames) - 1 - 1 + 1 ELSE 0
        /\ \A i \in 1..(Len(frames) - 1 - 1 + 1) : callers[i] = frames[1 + i - 1]
    BY <1>2, <1>3, SubSeqProperties
  <2> QED
    BY <1>2, <2>1
<1>5. frames' = IF callers = << >> THEN << >> ELSE Advance(callers)
  BY DEF Return
<1> HIDE DEF callers
<1>6. CASE callers = << >>
  <2>1. frames' = << >>
    BY <1>5, <1>6
  <2>2. frames' \in Seq(Frame) /\ Len(frames') = 0
    BY <2>1, EmptySeq
  <2>3. Len(frames) = 1
    <3>1. Len(callers) = 0
      BY <1>6, EmptySeq
    <3>2. Len(callers) = Len(frames) - 1
      BY <1>4
    <3>3. Len(frames) \in Nat
      BY <1>2
    <3> QED
      BY <3>1, <3>2, <3>3
  <2>4. \A i \in 1..(Len(frames) - 1) : FALSE
    BY <2>3
  <2> QED
    BY <2>2, <2>3, <2>4
<1>7. CASE callers # << >>
  <2>1. frames' = Advance(callers)
    BY <1>5, <1>7
  <2>2. /\ Advance(callers) \in Seq(Frame)
        /\ Len(Advance(callers)) = Len(callers)
        /\ \A i \in 1..Len(callers) :
              /\ Advance(callers)[i].node = callers[i].node
              /\ Advance(callers)[i].next =
                    IF i = Len(callers) THEN callers[i].next + 1
                    ELSE callers[i].next
    BY <1>4, <1>7, AdvanceFrames
  <2> QED
    BY <1>4, <2>1, <2>2
<1> QED
  BY <1>6, <1>7

-----------------------------------------------------------------------------
(***************************************************************************)
(* Type correctness.                                                       *)
(***************************************************************************)

LEMMA GraphFacts ==
    ASSUME NEW g \in Graphs
    PROVE  /\ g \in GraphType
           /\ g.children \in [Shapes -> Seq(Slots)]
           /\ g.facetDefs \in [Shapes -> Seq(Slots)]
           /\ g.target \in [Slots -> Shapes]
           /\ g.stale \subseteq Shapes
           /\ g.roots \in Seq(Shapes)
<1>1. g \in GraphType
  BY ConstantsAssumption
<1> QED
  BY <1>1 DEF GraphType

LEMMA InitType == Init => TypeOK
<1> SUFFICES ASSUME Init PROVE TypeOK
  OBVIOUS
<1>1. given \in Graphs
  BY DEF Init
<1>2. given \in GraphType /\ target \in [Slots -> Node] /\ todo \in Seq(Shapes)
  BY <1>1, GraphFacts DEF Init, Node
<1>3. facetDefs \in [Node -> Seq(Slots)]
  BY <1>1, GraphFacts, EmptySeq DEF Init, Node
<1>4. frames \in Seq(Frame)
  BY EmptySeq DEF Init
<1>5. /\ head \in [Markers -> Node \cup {None}]
      /\ unwrapped \in [Node -> BOOLEAN]
      /\ visited \in [Node -> BOOLEAN]
  BY DEF Init
<1>6. /\ origin \in [Node -> Shapes \cup {None}]
      /\ rank \in [Node -> Nat]
      /\ clock \in Nat
      /\ status \in {"running", "done", "failed"}
  BY DEF Init
<1> QED
  BY <1>2, <1>3, <1>4, <1>5, <1>6 DEF TypeOK

LEMMA AllocateType ==
    ASSUME TypeOK, NEW h \in Node, Allocate(Fresh, h)
    PROVE  /\ Fresh \in Markers /\ Fresh \in Node /\ head[Fresh] = None
           /\ head' \in [Markers -> Node \cup {None}]
           /\ facetDefs' \in [Node -> Seq(Slots)]
           /\ unwrapped' \in [Node -> BOOLEAN]
           /\ origin' \in [Node -> Shapes \cup {None}]
<1>1. Fresh \in Markers /\ head[Fresh] = None
  BY FreshType DEF Allocate
<1>2. Fresh \in Node
  BY <1>1 DEF Node
<1> QED
  BY <1>1, <1>2 DEF TypeOK, Allocate

LEMMA NextType == TypeOK /\ [Next]_vars => TypeOK'
<1> SUFFICES ASSUME TypeOK, [Next]_vars PROVE TypeOK'
  OBVIOUS
<1>1. CASE CallRoot
  <2>1. Head(todo) \in Node /\ Push(Head(todo)) /\ todo' \in Seq(Shapes)
    BY <1>1, RootType DEF CallRoot
  <2>2. frames' \in Seq(Frame)
    BY <2>1, PushFrames
  <2>3. visited' \in [Node -> BOOLEAN]
    BY <2>1 DEF Push, TypeOK
  <2> QED
    BY <1>1, <2>1, <2>2, <2>3 DEF CallRoot, Push, TypeOK
<1>2. CASE DiscardMarker
  <2>1. Head(todo) \in Node /\ Allocate(Fresh, Head(todo)) /\ todo' \in Seq(Shapes)
    BY <1>2, RootType DEF DiscardMarker
  <2> QED
    BY <1>2, <2>1, AllocateType DEF DiscardMarker, TypeOK
<1>3. CASE CallReference
  <2>1. Callee \in Node /\ Push(Callee)
    BY <1>3, PendingType DEF CallReference
  <2>2. frames' \in Seq(Frame)
    BY <2>1, PushFrames
  <2>3. visited' \in [Node -> BOOLEAN]
    BY <2>1 DEF Push, TypeOK
  <2> QED
    BY <1>3, <2>1, <2>2, <2>3 DEF CallReference, Push, TypeOK
<1>4. CASE MarkReference
  <2>1. Callee \in Node /\ Pending \in Slots /\ Allocate(Fresh, Callee)
    BY <1>4, PendingType DEF MarkReference
  <2>2. frames' \in Seq(Frame)
    BY <1>4, AdvanceFrames DEF MarkReference, InLoop, TypeOK
  <2>3. target' \in [Slots -> Node]
    BY <1>4, <2>1, AllocateType DEF MarkReference, TypeOK
  <2> QED
    BY <1>4, <2>1, <2>2, <2>3, AllocateType DEF MarkReference, TypeOK
<1>5. CASE Return
  <2>1. frames' \in Seq(Frame)
    BY <1>5, ReturnFrames
  <2>2. Top.node \in Node
    BY <1>5, TopType DEF Return
  <2>3. visited' \in [Node -> BOOLEAN]
    BY <1>5, <2>2 DEF Return, TypeOK
  <2>4. rank' \in [Node -> Nat] /\ clock' \in Nat
    BY <1>5, <2>2 DEF Return, TypeOK
  <2> QED
    BY <1>5, <2>1, <2>3, <2>4 DEF Return, TypeOK
<1>6. CASE Fail
  BY <1>6, EmptySeq DEF Fail, TypeOK
<1>7. CASE Finish
  BY <1>7 DEF Finish, TypeOK
<1>8. CASE UNCHANGED vars
  BY <1>8 DEF vars, TypeOK
<1> QED
  BY <1>1, <1>2, <1>3, <1>4, <1>5, <1>6, <1>7, <1>8 DEF Next, Over

\* Every variable keeps its type on every behaviour of the pass.
THEOREM TypeCorrect == Spec => []TypeOK
<1>1. Init => TypeOK
  BY InitType
<1>2. TypeOK /\ [Next]_vars => TypeOK'
  BY NextType
<1> QED
  BY <1>1, <1>2, PTL DEF Spec

-----------------------------------------------------------------------------
(***************************************************************************)
(* The ShapeVisited flag.  The property says which flags are set; it is    *)
(* inductive once no shape is on the path twice and a pass that is over    *)
(* has no activation record left.                                          *)
(***************************************************************************)

Idle == status # "running" => frames = << >> /\ todo = << >>

PathDistinct ==
    \A i, j \in 1..Len(frames) : frames[i].node = frames[j].node => i = j

FlagInv == TypeOK /\ Idle /\ PathDistinct /\ FlagIsPath

LEMMA OnPathEq ==
    ASSUME TypeOK
    PROVE  \A n : n \in OnPath <=> \E i \in 1..Len(frames) : frames[i].node = n
BY LenProperties DEF TypeOK, OnPath

LEMMA OnPathEqNext ==
    ASSUME frames' \in Seq(Frame)
    PROVE  \A n : n \in OnPath' <=> \E i \in 1..Len(frames') : frames'[i].node = n
BY LenProperties DEF OnPath

LEMMA PushFlag ==
    ASSUME FlagInv, status = "running", NEW n \in Node, ~visited[n], Push(n),
           given' = given
    PROVE  PathDistinct' /\ FlagIsPath'
<1>1. /\ TypeOK
      /\ \A m \in Node : visited[m] <=> m \in OnPath \/ m \in given.stale
      /\ OnPath \cap given.stale = {}
  BY DEF FlagInv, FlagIsPath
<1>2. /\ frames' \in Seq(Frame)
      /\ Len(frames') = Len(frames) + 1
      /\ \A i \in 1..Len(frames) : frames'[i] = frames[i]
      /\ frames'[Len(frames) + 1] = [node |-> n, next |-> 1]
  BY <1>1, PushFrames
<1>3. n \notin OnPath /\ n \notin given.stale
  BY <1>1
<1>4. Len(frames) \in Nat
  BY <1>1, LenProperties DEF TypeOK
<1>5. \A i \in 1..Len(frames) : frames[i].node # n
  BY <1>1, <1>3, OnPathEq
<1>6. PathDistinct'
  <2> SUFFICES ASSUME NEW i \in 1..(Len(frames) + 1), NEW j \in 1..(Len(frames) + 1),
                      frames'[i].node = frames'[j].node
               PROVE  i = j
    BY <1>2 DEF PathDistinct
  <2>1. CASE i \in 1..Len(frames) /\ j \in 1..Len(frames)
    BY <1>2, <2>1 DEF FlagInv, PathDistinct
  <2>2. CASE i = Len(frames) + 1 /\ j \in 1..Len(frames)
    BY <1>2, <1>5, <2>2
  <2>3. CASE i \in 1..Len(frames) /\ j = Len(frames) + 1
    BY <1>2, <1>5, <2>3
  <2> QED
    BY <1>4, <2>1, <2>2, <2>3
<1>7. \A m : m \in OnPath' <=> m \in OnPath \/ m = n
  <2>1. \A m : m \in OnPath' <=>
            \E i \in 1..(Len(frames) + 1) : frames'[i].node = m
    BY <1>2, OnPathEqNext
  <2>2. \A m : (\E i \in 1..(Len(frames) + 1) : frames'[i].node = m) <=>
            (\E i \in 1..Len(frames) : frames[i].node = m) \/ m = n
    BY <1>2, <1>4
  <2> QED
    BY <1>1, <2>1, <2>2, OnPathEq
<1>8. \A m \in Node : visited'[m] <=> visited[m] \/ m = n
  BY <1>1 DEF Push, TypeOK
<1> QED
  BY <1>1, <1>3, <1>6, <1>7, <1>8 DEF FlagIsPath

\* A step that keeps the shapes on the path keeps the meaning of the flags.
LEMMA SamePathFlag ==
    ASSUME FlagInv, frames' \in Seq(Frame), Len(frames') = Len(frames),
           \A i \in 1..Len(frames) : frames'[i].node = frames[i].node,
           given' = given, visited' = visited, status # "failed"
    PROVE  PathDistinct' /\ FlagIsPath'
<1>1. TypeOK /\ PathDistinct /\ FlagIsPath
  BY DEF FlagInv
<1>2. PathDistinct'
  BY <1>1 DEF PathDistinct
<1>3. \A m : m \in OnPath' <=> m \in OnPath
  BY <1>1, OnPathEq, OnPathEqNext
<1> QED
  BY <1>1, <1>2, <1>3 DEF FlagIsPath

LEMMA ReturnFlag ==
    ASSUME FlagInv, Return
    PROVE  PathDistinct' /\ FlagIsPath'
<1>1. TypeOK /\ frames # << >> /\ status = "running"
  BY DEF FlagInv, Idle, Return
<1>2. /\ \A m \in Node : visited[m] <=> m \in OnPath \/ m \in given.stale
      /\ OnPath \cap given.stale = {}
  BY <1>1 DEF FlagInv, FlagIsPath
<1>3. /\ Len(frames) \in Nat \ {0}
      /\ Top = frames[Len(frames)]
      /\ Top.node \in Node
  BY <1>1, TopType
<1>4. /\ frames' \in Seq(Frame)
      /\ Len(frames') = Len(frames) - 1
      /\ \A i \in 1..(Len(frames) - 1) : frames'[i].node = frames[i].node
  BY <1>1, ReturnFrames
<1>5. PathDistinct
  BY DEF FlagInv
<1>6. PathDistinct'
  BY <1>3, <1>4, <1>5 DEF PathDistinct
<1>7. \A m : m \in OnPath' <=> m \in OnPath /\ m # Top.node
  <2>1. \A m : m \in OnPath' <=>
            \E i \in 1..(Len(frames) - 1) : frames'[i].node = m
    BY <1>4, OnPathEqNext
  <2>2. \A m : (\E i \in 1..(Len(frames) - 1) : frames'[i].node = m) <=>
            (\E i \in 1..Len(frames) : frames[i].node = m) /\ m # Top.node
    <3>1. \A i \in 1..(Len(frames) - 1) : i \in 1..Len(frames) /\ frames[i].node # Top.node
      BY <1>3, <1>5 DEF PathDistinct
    <3>2. \A i \in 1..Len(frames) : frames[i].node # Top.node => i \in 1..(Len(frames) - 1)
      BY <1>3
    <3> QED
      BY <1>4, <3>1, <3>2
  <2> QED
    BY <1>1, <2>1, <2>2, OnPathEq
<1>8. Top.node \in OnPath
  BY <1>1, <1>3, OnPathEq
<1>9. \A m \in Node : visited'[m] <=> visited[m] /\ m # Top.node
  BY <1>1, <1>3 DEF Return, TypeOK
<1>10. given' = given
  BY DEF Return
<1> QED
  BY <1>2, <1>6, <1>7, <1>8, <1>9, <1>10 DEF FlagIsPath

LEMMA InitFlag == Init => FlagInv
<1> SUFFICES ASSUME Init PROVE FlagInv
  OBVIOUS
<1>1. TypeOK
  BY InitType
<1>2. frames = << >> /\ Len(frames) = 0 /\ status = "running"
  BY EmptySeq DEF Init
<1>3. PathDistinct
  BY <1>2 DEF PathDistinct
<1>4. \A n : n \notin OnPath
  BY <1>1, <1>2, OnPathEq
<1>5. \A n \in Node : visited[n] <=> n \in given.stale
  BY DEF Init
<1> QED
  BY <1>1, <1>2, <1>3, <1>4, <1>5 DEF FlagInv, Idle, FlagIsPath

LEMMA NextFlag == FlagInv /\ [Next]_vars => FlagInv'
<1> SUFFICES ASSUME FlagInv, [Next]_vars PROVE Idle' /\ PathDistinct' /\ FlagIsPath'
  BY NextType DEF FlagInv
<1>0. TypeOK /\ Idle
  BY DEF FlagInv
<1>1. CASE CallRoot
  <2>1. /\ status = "running" /\ status' = status /\ given' = given
        /\ ~visited[Head(todo)] /\ Push(Head(todo))
    BY <1>0, <1>1 DEF CallRoot, Idle
  <2>2. Head(todo) \in Node
    BY <1>0, <1>1, RootType DEF CallRoot
  <2> QED
    BY <2>1, <2>2, PushFlag DEF Idle
<1>2. CASE DiscardMarker
  <2>1. /\ status = "running" /\ status' = status
        /\ frames' = frames /\ visited' = visited /\ given' = given
    BY <1>0, <1>2 DEF DiscardMarker, Idle
  <2> QED
    BY <1>0, <2>1, SamePathFlag DEF Idle, TypeOK
<1>3. CASE CallReference
  <2>1. /\ status = "running" /\ status' = status /\ given' = given
        /\ ~visited[Callee] /\ Push(Callee)
    BY <1>0, <1>3 DEF CallReference, InLoop, Idle
  <2>2. Callee \in Node
    BY <1>0, <1>3, PendingType DEF CallReference
  <2> QED
    BY <2>1, <2>2, PushFlag DEF Idle
<1>4. CASE MarkReference
  <2>1. /\ status = "running" /\ status' = status /\ frames # << >>
        /\ frames' = Advance(frames) /\ visited' = visited /\ given' = given
    BY <1>0, <1>4 DEF MarkReference, InLoop, Idle
  <2>2. /\ frames' \in Seq(Frame)
        /\ Len(frames') = Len(frames)
        /\ \A i \in 1..Len(frames) : frames'[i].node = frames[i].node
    BY <1>0, <2>1, AdvanceFrames DEF TypeOK
  <2> QED
    BY <2>1, <2>2, SamePathFlag DEF Idle
<1>5. CASE Return
  <2>1. status = "running" /\ status' = status
    BY <1>0, <1>5 DEF Return, Idle
  <2> QED
    BY <1>5, <2>1, ReturnFlag DEF Idle
<1>6. CASE Fail
  <2>1. status' = "failed" /\ frames' = << >> /\ todo' = << >>
    BY <1>6 DEF Fail
  <2>2. Len(frames') = 0
    BY <2>1, EmptySeq
  <2>3. PathDistinct'
    BY <2>2 DEF PathDistinct
  <2> QED
    BY <2>1, <2>3 DEF Idle, FlagIsPath
<1>7. CASE Finish
  <2>1. /\ status = "running" /\ status' = "done" /\ todo' = todo
        /\ frames' = frames /\ visited' = visited /\ given' = given
        /\ frames = << >> /\ todo = << >>
    BY <1>7 DEF Finish
  <2>2. PathDistinct' /\ FlagIsPath'
    BY <1>0, <2>1, SamePathFlag DEF TypeOK
  <2> QED
    BY <2>1, <2>2 DEF Idle
<1>8. CASE UNCHANGED vars
  BY <1>8 DEF FlagInv, vars, Idle, PathDistinct, FlagIsPath, OnPath
<1> QED
  BY <1>1, <1>2, <1>3, <1>4, <1>5, <1>6, <1>7, <1>8 DEF Next, Over

\* At every step, a shape's flag is set exactly while the walk is inside it
\* (or it was set before the pass): a revisit means recursion, not sharing.
THEOREM FlagCorrect == Spec => []FlagIsPath
<1>1. Init => FlagInv
  BY InitFlag
<1>2. FlagInv /\ [Next]_vars => FlagInv'
  BY NextFlag
<1>3. FlagInv => FlagIsPath
  BY DEF FlagInv
<1> QED
  BY <1>1, <1>2, <1>3, PTL DEF Spec

-----------------------------------------------------------------------------
(***************************************************************************)
(* Cycles are cut.  A slot is settled once it holds a marker or a shape    *)
(* whose walk has ended.  Slots behind the position of an active caller    *)
(* are settled, and the slot it waits on holds the callee, unless a call   *)
(* further down that shares the slot has put a marker there meanwhile.     *)
(***************************************************************************)

Settled(t) == t \in Markers \/ rank[t] # 0

RankBound == \A n \in Node : rank[n] <= clock

PassedSettled ==
    \A i \in 1..Len(frames) : \A n \in Shapes : frames[i].node = n =>
        \A j \in 1..Len(Refs(n)) : j < frames[i].next => Settled(target[Refs(n)[j]])

WaitsOnCallee ==
    \A i \in 1..(Len(frames) - 1) : \A n \in Shapes : frames[i].node = n =>
        /\ frames[i].next \in 1..Len(Refs(n))
        /\ \/ target[Refs(n)[frames[i].next]] \in Markers
           \/ target[Refs(n)[frames[i].next]] = frames[i + 1].node

CutInv == FlagInv /\ RankBound /\ PassedSettled /\ WaitsOnCallee /\ WalkedIsCut

\* The slots of a concrete shape never change, whatever is allocated.
LEMMA RefsKept ==
    ASSUME TypeOK, [Next]_vars, NEW n \in Shapes
    PROVE  Refs(n)' = Refs(n)
<1>1. n \in Node
  BY DEF Node
<1>2. given' = given
  BY DEF Next, vars, CallRoot, DiscardMarker, CallReference, MarkReference,
         Return, Fail, Finish, Over
<1>3. facetDefs'[n] = facetDefs[n]
  <2>1. ASSUME NEW h \in Node, Allocate(Fresh, h)
        PROVE  facetDefs'[n] = facetDefs[n]
    <3>1. Fresh # n
      BY <2>1, FreshType DEF Allocate
    <3> QED
      BY <1>1, <2>1, <3>1 DEF Allocate, TypeOK
  <2>2. CASE DiscardMarker
    BY <2>1, <2>2, RootType DEF DiscardMarker
  <2>3. CASE MarkReference
    BY <2>1, <2>3, PendingType DEF MarkReference
  <2>4. CASE ~DiscardMarker /\ ~MarkReference
    BY <2>4 DEF Next, vars, CallRoot, CallReference, Push, Return, Fail, Finish, Over
  <2> QED
    BY <2>2, <2>3, <2>4
<1> QED
  BY <1>2, <1>3 DEF Refs

LEMMA PushCut ==
    ASSUME CutInv, NEW n \in Node, Push(n), \A m \in Shapes : Refs(m)' = Refs(m),
           frames # << >> => InLoop /\ n = Callee
    PROVE  PassedSettled' /\ WaitsOnCallee' /\ RankBound' /\ WalkedIsCut'
<1>1. /\ TypeOK /\ RankBound /\ PassedSettled /\ WaitsOnCallee /\ WalkedIsCut
  BY DEF CutInv, FlagInv
<1>2. /\ frames' \in Seq(Frame)
      /\ Len(frames') = Len(frames) + 1
      /\ \A i \in 1..Len(frames) : frames'[i] = frames[i]
      /\ frames'[Len(frames) + 1] = [node |-> n, next |-> 1]
  BY <1>1, PushFrames
<1>3. target' = target /\ rank' = rank /\ clock' = clock
  BY DEF Push
<1>4. Len(frames) \in Nat
  BY <1>1, LenProperties DEF TypeOK
<1>5. PassedSettled'
  <2> SUFFICES ASSUME NEW i \in 1..(Len(frames) + 1), NEW m \in Shapes,
                      frames'[i].node = m,
                      NEW j \in 1..Len(Refs(m)), j < frames'[i].next
               PROVE  Settled(target[Refs(m)[j]])
    BY <1>2, <1>3 DEF PassedSettled, Settled
  <2>1. CASE i \in 1..Len(frames)
    BY <1>1, <1>2, <2>1 DEF PassedSettled
  <2>2. CASE i = Len(frames) + 1
    <3>1. frames'[i].next = 1
      BY <1>2, <2>2
    <3>2. Len(Refs(m)) \in Nat
      BY <1>1, RefsType DEF Node
    <3> QED
      BY <3>1, <3>2
  <2> QED
    BY <1>4, <2>1, <2>2
<1>6. WaitsOnCallee'
  <2> SUFFICES ASSUME NEW i \in 1..Len(frames), NEW m \in Shapes, frames'[i].node = m
               PROVE  /\ frames'[i].next \in 1..Len(Refs(m))
                      /\ \/ target[Refs(m)[frames'[i].next]] \in Markers
                         \/ target[Refs(m)[frames'[i].next]] = frames'[i + 1].node
    BY <1>2, <1>3, <1>4 DEF WaitsOnCallee
  <2>1. CASE i \in 1..(Len(frames) - 1)
    <3>1. i + 1 \in 1..Len(frames) /\ i \in 1..Len(frames)
      BY <1>4, <2>1
    <3> QED
      BY <1>1, <1>2, <2>1, <3>1 DEF WaitsOnCallee
  <2>2. CASE i = Len(frames)
    <3>1. frames # << >>
      BY <1>4, <2>2, EmptySeq
    <3>2. frames'[i + 1].node = Callee /\ InLoop
      BY <1>2, <2>2, <3>1
    <3>3. frames'[i] = Top /\ Top.node = m
      BY <1>2, <2>2 DEF Top
    <3>4. Top.next \in 1..Len(Refs(m))
      BY <1>1, <3>2, <3>3, PendingType, RefsType DEF Node
    <3> QED
      BY <3>2, <3>3, <3>4 DEF Callee, Pending
  <2> QED
    BY <1>4, <2>1, <2>2
<1> QED
  BY <1>1, <1>3, <1>5, <1>6 DEF RankBound, WalkedIsCut

LEMMA MarkCut ==
    ASSUME CutInv, MarkReference, \A m \in Shapes : Refs(m)' = Refs(m)
    PROVE  PassedSettled' /\ WaitsOnCallee' /\ RankBound' /\ WalkedIsCut'
<1>1. /\ TypeOK /\ RankBound /\ PassedSettled /\ WaitsOnCallee /\ WalkedIsCut
  BY DEF CutInv, FlagInv
<1>2. /\ frames # << >> /\ frames' = Advance(frames)
      /\ target' = [target EXCEPT ![Pending] = Fresh]
      /\ rank' = rank /\ clock' = clock
  BY DEF MarkReference, InLoop
<1>3. Pending \in Slots /\ Callee \in Node /\ Fresh \in Markers
  BY <1>1, PendingType, FreshType DEF MarkReference, Allocate
<1>4. /\ target'[Pending] = Fresh
      /\ \A k \in Slots : target'[k] = target[k] \/ target'[k] \in Markers
  BY <1>1, <1>2, <1>3 DEF TypeOK
<1>5. /\ Len(frames') = Len(frames)
      /\ \A i \in 1..Len(frames) :
            /\ frames'[i].node = frames[i].node
            /\ frames'[i].next = IF i = Len(frames) THEN frames[i].next + 1
                                 ELSE frames[i].next
  BY <1>1, <1>2, AdvanceFrames DEF TypeOK
<1>6. Len(frames) \in Nat
  BY <1>1, LenProperties DEF TypeOK
<1>7. \A i \in 1..Len(frames) : frames[i].next \in Nat \ {0}
  BY <1>1, FrameTypes
<1>8. \A m \in Shapes : /\ Len(Refs(m)) \in Nat
                       /\ DOMAIN Refs(m) = 1..Len(Refs(m))
                       /\ \A j \in 1..Len(Refs(m)) : Refs(m)[j] \in Slots
  BY <1>1, RefsType, ElementOfSeq DEF Node
<1>9. \A k \in Slots : Settled(target[k]) => target'[k] \in Markers \/ rank[target'[k]] # 0
  BY <1>4 DEF Settled
<1>10. PassedSettled'
  <2> SUFFICES ASSUME NEW i \in 1..Len(frames), NEW m \in Shapes, frames[i].node = m,
                      NEW j \in 1..Len(Refs(m)), j < frames'[i].next
               PROVE  target'[Refs(m)[j]] \in Markers \/ rank[target'[Refs(m)[j]]] # 0
    BY <1>2, <1>5 DEF PassedSettled, Settled
  <2>1. CASE j < frames[i].next
    <3>1. Settled(target[Refs(m)[j]])
      BY <1>1, <2>1 DEF PassedSettled
    <3> QED
      BY <1>8, <1>9, <3>1
  <2>2. CASE ~(j < frames[i].next)
    <3>1. j \in Nat /\ frames[i].next \in Nat
      BY <1>7, <1>8
    <3>2. i = Len(frames) /\ j = frames[i].next
      BY <1>5, <2>2, <3>1
    <3>3. Refs(m)[j] = Pending
      BY <3>2 DEF Pending, Top
    <3> QED
      BY <1>3, <1>4, <3>3
  <2> QED
    BY <2>1, <2>2
<1>11. WaitsOnCallee'
  <2>1. \A i \in 1..(Len(frames) - 1) :
            i + 1 \in 1..Len(frames) /\ i \in 1..Len(frames) /\ i # Len(frames)
    BY <1>6
  <2> SUFFICES ASSUME NEW i \in 1..(Len(frames) - 1), NEW m \in Shapes,
                      frames[i].node = m
               PROVE  /\ frames[i].next \in 1..Len(Refs(m))
                      /\ \/ target'[Refs(m)[frames[i].next]] \in Markers
                         \/ target'[Refs(m)[frames[i].next]] = frames[i + 1].node
    BY ZenonT(40), <1>5, <2>1 DEF WaitsOnCallee
  <2>2. /\ frames[i].next \in 1..Len(Refs(m))
        /\ \/ target[Refs(m)[frames[i].next]] \in Markers
           \/ target[Refs(m)[frames[i].next]] = frames[i + 1].node
    BY <1>1 DEF WaitsOnCallee
  <2>3. Refs(m)[frames[i].next] \in Slots
    BY <1>8, <2>2
  <2> QED
    BY <1>4, <2>2, <2>3
<1>12. WalkedIsCut'
  <2> SUFFICES ASSUME NEW n \in Shapes, rank[n] # 0, NEW i \in DOMAIN Refs(n)
               PROVE  \/ target'[Refs(n)[i]] \in Markers
                      \/ /\ rank[target'[Refs(n)[i]]] # 0
                         /\ rank[target'[Refs(n)[i]]] < rank[n]
    BY <1>2 DEF WalkedIsCut
  <2>1. Refs(n)[i] \in Slots
    BY <1>8
  <2> QED
    BY <1>1, <1>4, <2>1 DEF WalkedIsCut
<1> QED
  BY <1>1, <1>2, <1>10, <1>11, <1>12 DEF RankBound

LEMMA ReturnCut ==
    ASSUME CutInv, Return, \A m \in Shapes : Refs(m)' = Refs(m)
    PROVE  PassedSettled' /\ WaitsOnCallee' /\ RankBound' /\ WalkedIsCut'
<1>1. /\ TypeOK /\ RankBound /\ PassedSettled /\ WaitsOnCallee /\ WalkedIsCut
  BY DEF CutInv, FlagInv
<1>2. /\ frames # << >> /\ Top.next > Len(Refs(Top.node)) /\ target' = target
  BY DEF Return
<1>3. /\ Len(frames) \in Nat \ {0}
      /\ Top = frames[Len(frames)]
      /\ Top.node \in Node
      /\ Top.next \in Nat \ {0}
  BY <1>1, <1>2, TopType
<1>4. /\ Len(frames') = Len(frames) - 1
      /\ \A i \in 1..(Len(frames) - 1) :
            /\ frames'[i].node = frames[i].node
            /\ frames'[i].next = IF i = Len(frames) - 1 THEN frames[i].next + 1
                                 ELSE frames[i].next
  BY <1>1, ReturnFrames
<1>5. \A i \in 1..Len(frames) : frames[i].next \in Nat \ {0}
  BY <1>1, FrameTypes
<1>6. \A m \in Shapes : /\ Len(Refs(m)) \in Nat
                       /\ DOMAIN Refs(m) = 1..Len(Refs(m))
                       /\ \A j \in 1..Len(Refs(m)) : target[Refs(m)[j]] \in Node
  BY <1>1, RefsType, ElementOfSeq DEF Node, TypeOK
\* The ranks after the step.
<1>7. /\ clock \in Nat /\ clock' \in Nat /\ clock <= clock'
      /\ rank'[Top.node] # 0
      /\ rank'[Top.node] <= clock'
      /\ rank[Top.node] = 0 => rank'[Top.node] = clock + 1
  <2>1. CASE rank[Top.node] = 0
    <3>1. clock' = clock + 1 /\ rank' = [rank EXCEPT ![Top.node] = clock + 1]
      BY <2>1 DEF Return
    <3> QED
      BY <1>1, <1>3, <2>1, <3>1 DEF TypeOK
  <2>2. CASE rank[Top.node] # 0
    <3>1. clock' = clock /\ rank' = rank
      BY <2>2 DEF Return
    <3> QED
      BY <1>1, <1>3, <2>2, <3>1 DEF TypeOK, RankBound
  <2> QED
    BY <2>1, <2>2
<1>r. \A m \in Node : m # Top.node => rank'[m] = rank[m]
  BY <1>1, <1>3 DEF Return, TypeOK
<1>s. \A m \in Node : rank[m] # 0 => rank'[m] = rank[m]
  BY <1>1, <1>3 DEF Return, TypeOK
<1>t. \A m \in Node : rank[m] \in Nat /\ rank[m] <= clock
  BY <1>1 DEF RankBound, TypeOK
<1>8. ASSUME NEW t \in Node, Settled(t) \/ t = Top.node
      PROVE  t \in Markers \/ rank'[t] # 0
  <2>1. CASE t = Top.node
    BY <1>7, <2>1
  <2>2. CASE t # Top.node
    BY <1>8, <1>r, <2>2 DEF Settled
  <2> QED
    BY <2>1, <2>2
<1>9. PassedSettled'
  <2> SUFFICES ASSUME NEW i \in 1..(Len(frames) - 1), NEW m \in Shapes,
                      frames[i].node = m,
                      NEW j \in 1..Len(Refs(m)), j < frames'[i].next
               PROVE  target[Refs(m)[j]] \in Markers \/ rank'[target[Refs(m)[j]]] # 0
    BY <1>2, <1>4 DEF PassedSettled, Settled
  <2>1. i \in 1..Len(frames) /\ j \in Nat /\ frames[i].next \in Nat
    BY <1>3, <1>5, <1>6
  <2>2. CASE j < frames[i].next
    <3>1. Settled(target[Refs(m)[j]])
      BY <1>1, <2>1, <2>2 DEF PassedSettled
    <3> QED
      BY <1>6, <1>8, <3>1
  <2>3. CASE ~(j < frames[i].next)
    <3>1. i = Len(frames) - 1 /\ j = frames[i].next
      BY <1>4, <2>1, <2>3
    <3>2. i + 1 = Len(frames)
      BY <1>3, <3>1
    <3>3. target[Refs(m)[j]] \in Markers \/ target[Refs(m)[j]] = Top.node
      BY <1>1, <1>3, <3>1, <3>2 DEF WaitsOnCallee
    <3> QED
      BY <1>6, <1>8, <3>3
  <2> QED
    BY <2>2, <2>3
<1>10. WaitsOnCallee'
  <2>1. \A i \in 1..(Len(frames) - 1 - 1) :
            /\ i \in 1..(Len(frames) - 1) /\ i + 1 \in 1..(Len(frames) - 1)
            /\ i # Len(frames) - 1
    BY <1>3
  <2> QED
    BY ZenonT(40), <1>1, <1>2, <1>4, <2>1 DEF WaitsOnCallee
<1>11. WalkedIsCut'
  <2> SUFFICES ASSUME NEW n \in Shapes, rank'[n] # 0, NEW j \in 1..Len(Refs(n)),
                      target[Refs(n)[j]] \notin Markers
               PROVE  /\ rank'[target[Refs(n)[j]]] # 0
                      /\ rank'[target[Refs(n)[j]]] < rank'[n]
    BY <1>2, <1>6 DEF WalkedIsCut
  <2> DEFINE t == target[Refs(n)[j]]
  <2>1. n \in Node /\ t \in Node
    BY <1>6 DEF Node
  <2>2. CASE rank[n] # 0
    <3>1. rank[t] # 0 /\ rank[t] < rank[n]
      BY <1>1, <1>6, <2>2 DEF WalkedIsCut
    <3>2. rank'[t] = rank[t] /\ rank'[n] = rank[n]
      BY <1>s, <2>1, <2>2, <3>1
    <3> QED
      BY <3>1, <3>2
  <2>3. CASE rank[n] = 0
    <3>1. n = Top.node
      BY <1>r, <2>1, <2>3
    <3>2. rank'[n] = clock + 1
      BY <1>7, <2>3, <3>1
    <3>3. frames[Len(frames)].node = n /\ j < frames[Len(frames)].next
      BY <1>2, <1>3, <1>6, <3>1
    <3>4. Len(frames) \in 1..Len(frames)
      BY <1>3
    <3>5. Settled(t)
      BY <1>1, <3>3, <3>4 DEF PassedSettled
    <3>6. rank[t] # 0
      BY <3>5 DEF Settled
    <3>7. rank'[t] = rank[t]
      BY <1>s, <2>1, <3>6
    <3>8. rank[t] \in Nat /\ rank[t] <= clock
      BY <1>t, <2>1
    <3>9. clock \in Nat
      BY <1>7
    <3> QED
      BY <3>2, <3>6, <3>7, <3>8, <3>9
  <2> QED
    BY <2>2, <2>3
<1>12. RankBound'
  <2> SUFFICES ASSUME NEW m \in Node PROVE rank'[m] <= clock'
    BY DEF RankBound
  <2>1. CASE m = Top.node
    BY <1>7, <2>1
  <2>2. CASE m # Top.node
    <3>1. rank'[m] = rank[m] /\ rank[m] \in Nat /\ rank[m] <= clock
      BY <1>r, <1>t, <2>2
    <3>2. clock \in Nat /\ clock' \in Nat /\ clock <= clock'
      BY <1>7
    <3> QED
      BY <3>1, <3>2
  <2> QED
    BY <2>1, <2>2
<1> QED
  BY <1>9, <1>10, <1>11, <1>12

LEMMA InitCut == Init => CutInv
<1> SUFFICES ASSUME Init PROVE CutInv
  OBVIOUS
<1>1. FlagInv
  BY InitFlag
<1>2. Len(frames) = 0
  BY EmptySeq DEF Init
<1>3. \A n \in Node : rank[n] = 0 /\ clock = 0
  BY DEF Init
<1>4. PassedSettled /\ WaitsOnCallee
  BY <1>2 DEF PassedSettled, WaitsOnCallee
<1>5. RankBound /\ WalkedIsCut
  BY <1>3 DEF RankBound, WalkedIsCut, Node
<1> QED
  BY <1>1, <1>4, <1>5 DEF CutInv

LEMMA NextCut == CutInv /\ [Next]_vars => CutInv'
<1> SUFFICES ASSUME CutInv, [Next]_vars
             PROVE  PassedSettled' /\ WaitsOnCallee' /\ RankBound' /\ WalkedIsCut'
  BY NextFlag DEF CutInv
<1>0. TypeOK /\ FlagInv /\ RankBound /\ PassedSettled /\ WaitsOnCallee /\ WalkedIsCut
  BY DEF CutInv, FlagInv
<1>a. \A m \in Shapes : Refs(m)' = Refs(m)
  BY <1>0, RefsKept
<1>1. CASE CallRoot
  <2>1. Head(todo) \in Node /\ Push(Head(todo)) /\ frames = << >>
    BY <1>0, <1>1, RootType DEF CallRoot
  <2> QED
    BY <1>a, <2>1, PushCut
<1>2. CASE DiscardMarker
  <2>1. target' = target /\ rank' = rank /\ clock' = clock /\ frames' = frames
    BY <1>2 DEF DiscardMarker
  <2> QED
    BY <1>0, <1>a, <2>1
       DEF PassedSettled, WaitsOnCallee, RankBound, WalkedIsCut, Settled
<1>3. CASE CallReference
  <2>1. Callee \in Node /\ Push(Callee) /\ InLoop
    BY <1>0, <1>3, PendingType DEF CallReference
  <2> QED
    BY <1>a, <2>1, PushCut
<1>4. CASE MarkReference
  BY <1>a, <1>4, MarkCut
<1>5. CASE Return
  BY <1>a, <1>5, ReturnCut
<1>6. CASE Fail
  <2>1. target' = target /\ rank' = rank /\ clock' = clock /\ frames' = << >>
    BY <1>6 DEF Fail
  <2>2. Len(frames') = 0
    BY <2>1, EmptySeq
  <2>3. PassedSettled' /\ WaitsOnCallee'
    BY <2>2 DEF PassedSettled, WaitsOnCallee
  <2> QED
    BY <1>0, <1>a, <2>1, <2>3 DEF RankBound, WalkedIsCut
<1>7. CASE Finish
  <2>1. target' = target /\ rank' = rank /\ clock' = clock /\ frames' = frames
    BY <1>7 DEF Finish
  <2> QED
    BY <1>0, <1>a, <2>1
       DEF PassedSettled, WaitsOnCallee, RankBound, WalkedIsCut, Settled
<1>8. CASE UNCHANGED vars
  <2>1. target' = target /\ rank' = rank /\ clock' = clock /\ frames' = frames
    BY <1>8 DEF vars
  <2> QED
    BY <1>0, <1>a, <2>1
       DEF PassedSettled, WaitsOnCallee, RankBound, WalkedIsCut, Settled
<1> QED
  BY <1>1, <1>2, <1>3, <1>4, <1>5, <1>6, <1>7, <1>8 DEF Next, Over

\* Whatever a finished walk left in a slot is a marker or a shape that was
\* finished before, on every graph and in the face of shared slots.
THEOREM CutCorrect == Spec => []WalkedIsCut
<1>1. Init => CutInv
  BY InitCut
<1>2. CutInv /\ [Next]_vars => CutInv'
  BY NextCut
<1>3. CutInv => WalkedIsCut
  BY DEF CutInv
<1> QED
  BY <1>1, <1>2, <1>3, PTL DEF Spec

-----------------------------------------------------------------------------
(***************************************************************************)
(* No declared type reaches a cycle once the pass has succeeded.  Every    *)
(* declared type is still to be called with, on the path, or walked; then  *)
(* the ranks of WalkedIsCut fall along every reference a visitor follows.  *)
(***************************************************************************)

RootsSeen ==
    given.stale = {} /\ status # "failed" =>
        \A r \in Declared :
            \/ \E i \in 1..Len(todo) : todo[i] = r
            \/ r \in OnPath
            \/ rank[r] # 0

RootInv == CutInv /\ RootsSeen

LEMMA DeclaredType == ASSUME TypeOK PROVE Declared \subseteq Shapes
<1>1. given.roots \in Seq(Shapes)
  BY DEF TypeOK, GraphType
<1> QED
  BY <1>1, LenProperties DEF Declared

LEMMA InitRoots == Init => RootInv
<1> SUFFICES ASSUME Init PROVE RootsSeen
  BY InitCut DEF RootInv
<1>1. todo = given.roots /\ given.roots \in Seq(Shapes)
  BY GraphFacts DEF Init
<1> QED
  BY <1>1, LenProperties DEF RootsSeen, Declared

\* What a call with the next root does to the roots still to be called with.
LEMMA RootTaken ==
    ASSUME TypeOK, todo # << >>, todo' = Tail(todo),
           NEW r, \E i \in 1..Len(todo) : todo[i] = r
    PROVE  r = Head(todo) \/ \E i \in 1..Len(todo') : todo'[i] = r
<1>1. PICK i \in 1..Len(todo) : todo[i] = r
  OBVIOUS
<1>2. /\ Len(todo) \in Nat \ {0}
      /\ Head(todo) = todo[1]
      /\ Len(Tail(todo)) = Len(todo) - 1
      /\ \A k \in 1..Len(Tail(todo)) : Tail(todo)[k] = todo[k + 1]
  BY RootType
<1>3. CASE i = 1
  BY <1>1, <1>2, <1>3
<1>4. CASE i # 1
  <2>1. i - 1 \in 1..Len(Tail(todo)) /\ (i - 1) + 1 = i
    BY <1>1, <1>2, <1>4
  <2>2. Tail(todo)[i - 1] = r
    BY <1>1, <1>2, <2>1
  <2> QED
    BY <2>1, <2>2
<1> QED
  BY <1>3, <1>4

LEMMA PushPath ==
    ASSUME TypeOK, NEW n \in Node, Push(n)
    PROVE  OnPath \subseteq OnPath' /\ n \in OnPath'
<1>1. /\ frames' \in Seq(Frame)
      /\ Len(frames') = Len(frames) + 1
      /\ \A i \in 1..Len(frames) : frames'[i] = frames[i]
      /\ frames'[Len(frames) + 1] = [node |-> n, next |-> 1]
  BY PushFrames
<1>2. Len(frames) \in Nat
  BY LenProperties DEF TypeOK
<1>3. Len(frames) + 1 \in 1..Len(frames') /\ frames'[Len(frames) + 1].node = n
  BY <1>1, <1>2
<1>4. \A i \in 1..Len(frames) : i \in 1..Len(frames') /\ frames'[i].node = frames[i].node
  BY <1>1, <1>2
<1> QED
  BY <1>1, <1>3, <1>4, OnPathEq, OnPathEqNext

LEMMA SamePath ==
    ASSUME TypeOK, frames' \in Seq(Frame), Len(frames') = Len(frames),
           \A i \in 1..Len(frames) : frames'[i].node = frames[i].node
    PROVE  OnPath' = OnPath
BY OnPathEq, OnPathEqNext

LEMMA ReturnPath ==
    ASSUME TypeOK, Return, NEW r, r \in OnPath
    PROVE  r = Top.node \/ r \in OnPath'
<1>1. PICK i \in 1..Len(frames) : frames[i].node = r
  BY OnPathEq
<1>2. /\ frames' \in Seq(Frame)
      /\ Len(frames') = Len(frames) - 1
      /\ \A k \in 1..(Len(frames) - 1) : frames'[k].node = frames[k].node
  BY ReturnFrames
<1>3. Len(frames) \in Nat
  BY LenProperties DEF TypeOK
<1>4. CASE i = Len(frames)
  BY <1>1, <1>4 DEF Top
<1>5. CASE i # Len(frames)
  <2>1. i \in 1..(Len(frames) - 1)
    BY <1>3, <1>5
  <2> QED
    BY <1>1, <1>2, <2>1, OnPathEqNext
<1> QED
  BY <1>4, <1>5

LEMMA NextRoots == RootInv /\ [Next]_vars => RootInv'
<1> SUFFICES ASSUME RootInv, [Next]_vars, given'.stale = {}, status' # "failed",
                    NEW r \in Declared'
             PROVE  \/ \E i \in 1..Len(todo') : todo'[i] = r
                    \/ r \in OnPath'
                    \/ rank'[r] # 0
  BY NextCut DEF RootInv, RootsSeen
<1>0. TypeOK /\ FlagInv /\ Idle /\ FlagIsPath
  BY DEF RootInv, CutInv, FlagInv
<1>a. given' = given
  BY DEF Next, vars, CallRoot, DiscardMarker, CallReference, MarkReference,
         Return, Fail, Finish, Over
<1>b. given.stale = {} /\ r \in Declared /\ r \in Node
  BY <1>0, <1>a, DeclaredType DEF Declared, Node
<1>c. status # "failed" =>
          (\E i \in 1..Len(todo) : todo[i] = r) \/ r \in OnPath \/ rank[r] # 0
  BY <1>b DEF RootInv, RootsSeen
<1>1. CASE CallRoot
  <2>1. /\ todo # << >> /\ todo' = Tail(todo) /\ status' = status
        /\ Head(todo) \in Node /\ Push(Head(todo)) /\ rank' = rank
    BY <1>0, <1>1, RootType DEF CallRoot, Push
  <2>2. OnPath \subseteq OnPath' /\ Head(todo) \in OnPath'
    BY <1>0, <2>1, PushPath
  <2> QED
    BY <1>0, <1>c, <2>1, <2>2, RootTaken
<1>2. CASE DiscardMarker
  <2>1. /\ todo # << >> /\ frames = << >> /\ visited[Head(todo)]
        /\ Head(todo) \in Node /\ status' = status
    BY <1>0, <1>2, RootType DEF DiscardMarker
  <2>2. Head(todo) \in OnPath
    BY <1>0, <1>b, <2>1 DEF FlagIsPath
  <2>3. Len(frames) = 0
    BY <2>1, EmptySeq
  <2> QED
    BY <1>0, <2>2, <2>3, OnPathEq
<1>3. CASE CallReference
  <2>1. Callee \in Node /\ Push(Callee) /\ todo' = todo /\ rank' = rank
        /\ status' = status
    BY <1>0, <1>3, PendingType DEF CallReference, Push
  <2>2. OnPath \subseteq OnPath'
    BY <1>0, <2>1, PushPath
  <2> QED
    BY <1>c, <2>1, <2>2
<1>4. CASE MarkReference
  <2>1. /\ frames # << >> /\ frames' = Advance(frames)
        /\ todo' = todo /\ rank' = rank /\ status' = status
    BY <1>4 DEF MarkReference, InLoop
  <2>2. /\ frames' \in Seq(Frame)
        /\ Len(frames') = Len(frames)
        /\ \A i \in 1..Len(frames) : frames'[i].node = frames[i].node
    BY <1>0, <2>1, AdvanceFrames DEF TypeOK
  <2>3. OnPath' = OnPath
    BY <1>0, <2>2, SamePath
  <2> QED
    BY <1>c, <2>1, <2>3
<1>5. CASE Return
  <2>1. todo' = todo /\ status' = status /\ frames # << >>
    BY <1>5 DEF Return
  <2>2. Top.node \in Node
    BY <1>0, <2>1, TopType
  <2>3. r # Top.node => rank'[r] = rank[r]
    BY <1>0, <1>5, <1>b, <2>2 DEF Return, TypeOK
  <2>4. rank'[Top.node] # 0
    <3>1. CASE rank[Top.node] = 0
      <4>1. rank'[Top.node] = clock + 1 /\ clock \in Nat
        BY <1>0, <1>5, <2>2, <3>1 DEF Return, TypeOK
      <4> QED
        BY <4>1
    <3>2. CASE rank[Top.node] # 0
      BY <1>5, <3>2 DEF Return
    <3> QED
      BY <3>1, <3>2
  <2> QED
    BY <1>0, <1>5, <1>c, <2>1, <2>3, <2>4, ReturnPath
<1>6. CASE Fail
  BY <1>6 DEF Fail
<1>7. CASE Finish
  <2>1. todo' = todo /\ rank' = rank /\ frames' = frames /\ status # "failed"
    BY <1>7 DEF Finish
  <2> QED
    BY <1>c, <2>1 DEF OnPath
<1>8. CASE UNCHANGED vars
  <2>1. todo' = todo /\ rank' = rank /\ frames' = frames /\ status' = status
    BY <1>8 DEF vars
  <2> QED
    BY <1>c, <2>1 DEF OnPath
<1> QED
  BY <1>1, <1>2, <1>3, <1>4, <1>5, <1>6, <1>7, <1>8 DEF Next, Over

\* The ranks fall along live references, so a closed set of lower-ranked
\* shapes keeps every walked shape out of its own reach.
LEMMA RootsAcyclic == RootInv => NoCycleLeft
<1> SUFFICES ASSUME RootInv, status = "done", given.stale = {}, NEW r \in Declared,
                    NEW n \in {r} \cup Reach(LiveEdge, r), n \in Reach(LiveEdge, n)
             PROVE  FALSE
  BY DEF NoCycleLeft
<1>1. /\ TypeOK /\ WalkedIsCut /\ frames = << >> /\ todo = << >>
  BY DEF RootInv, CutInv, FlagInv, Idle
<1>2. Len(frames) = 0 /\ Len(todo) = 0
  BY <1>1, EmptySeq
<1>3. r \in Shapes /\ rank[r] # 0
  BY <1>1, <1>2, OnPathEq, DeclaredType DEF RootInv, RootsSeen
<1>4. ASSUME NEW x \in Shapes, NEW y \in Shapes, rank[x] # 0, LiveEdge(x, y)
      PROVE  rank[y] # 0 /\ rank[y] < rank[x]
  <2>1. PICK i \in DOMAIN Refs(x) : target[Refs(x)[i]] = y
    BY <1>4 DEF LiveEdge
  <2>2. y \notin Markers
    BY ConstantsAssumption
  <2> QED
    BY <1>1, <1>4, <2>1, <2>2 DEF WalkedIsCut
<1>5. n \in Shapes /\ rank[n] # 0
  <2>1. CASE n = r
    BY <1>3, <2>1
  <2>2. CASE n \in Reach(LiveEdge, r)
    <3> DEFINE W == {m \in Shapes : rank[m] # 0}
    <3>1. \A x \in W \cup {r} : \A y \in Shapes : LiveEdge(x, y) => y \in W
      BY <1>3, <1>4
    <3>2. W \in SUBSET Shapes
      OBVIOUS
    <3> HIDE DEF W
    <3>3. n \in Shapes /\ n \in W
      BY <2>2, <3>1, <3>2 DEF Reach
    <3> QED
      BY <3>3 DEF W
  <2> QED
    BY <2>1, <2>2
<1> DEFINE L == {m \in Shapes : rank[m] # 0 /\ rank[m] < rank[n]}
<1>6. \A m \in Shapes : rank[m] \in Nat
  BY <1>1 DEF TypeOK, Node
<1>7. \A x \in L \cup {n} : \A y \in Shapes : LiveEdge(x, y) => y \in L
  <2> SUFFICES ASSUME NEW x \in L \cup {n}, NEW y \in Shapes, LiveEdge(x, y)
               PROVE  rank[y] # 0 /\ rank[y] < rank[n]
    OBVIOUS
  <2>1. x \in Shapes /\ rank[x] # 0 /\ (x = n \/ rank[x] < rank[n])
    BY <1>5
  <2>2. rank[y] # 0 /\ rank[y] < rank[x]
    BY <1>4, <2>1
  <2>3. rank[x] \in Nat /\ rank[y] \in Nat /\ rank[n] \in Nat
    BY <1>5, <1>6, <2>1
  <2> QED
    BY <2>1, <2>2, <2>3
<1>8. L \in SUBSET Shapes
  OBVIOUS
<1>9. n \notin L
  <2>1. rank[n] \in Nat
    BY <1>5, <1>6
  <2> QED
    BY <2>1
<1> HIDE DEF L
<1>10. n \in L
  BY <1>7, <1>8 DEF Reach
<1> QED
  BY <1>9, <1>10

\* After a successful pass a visitor that stops at markers cannot loop, from
\* whatever declared type it starts.
THEOREM CyclesCut == Spec => []NoCycleLeft
<1>1. Init => RootInv
  BY InitRoots
<1>2. RootInv /\ [Next]_vars => RootInv'
  BY NextRoots
<1>3. RootInv => NoCycleLeft
  BY RootsAcyclic
<1> QED
  BY <1>1, <1>2, <1>3, PTL DEF Spec

-----------------------------------------------------------------------------
(***************************************************************************)
(* Markers stand for what they replace, and are themselves fit to be       *)
(* walked.  A marker not yet allocated stands for nothing, so no slot can  *)
(* hold it before MakeRecursiveShape returns it.                           *)
(***************************************************************************)

FreshStandsForNothing == \A m \in Markers : head[m] = None => origin[m] = None

AllUnwrapped ==
    given.rejected = {} /\ given.unwrapped = Shapes =>
        /\ \A n \in Shapes : unwrapped[n]
        /\ \A k \in Slots : unwrapped[target[k]]

ShapeInv ==
    TypeOK /\ SameShape /\ FreshStandsForNothing /\ AllUnwrapped /\ OnlyInputFails

LEMMA AllocateShape ==
    ASSUME ShapeInv, NEW h \in Node, Allocate(Fresh, h)
    PROVE  /\ FreshStandsForNothing'
           /\ origin'[Fresh] = origin[h] /\ unwrapped'[Fresh]
           /\ \A k \in Slots : origin'[target[k]] = given.target[k]
           /\ \A k \in Slots : unwrapped[target[k]] => unwrapped'[target[k]]
           /\ \A n \in Shapes : unwrapped[n] => unwrapped'[n]
<1>1. /\ TypeOK /\ SameShape /\ FreshStandsForNothing
      /\ Fresh \in Markers /\ Fresh \in Node /\ head[Fresh] = None /\ Fresh \notin Shapes
  BY AllocateType, FreshType DEF ShapeInv, Allocate
<1>2. /\ \A n \in Node : n # Fresh => origin'[n] = origin[n] /\ unwrapped'[n] = unwrapped[n]
      /\ origin'[Fresh] = origin[h] /\ unwrapped'[Fresh]
      /\ \A m \in Markers : m # Fresh => head'[m] = head[m]
      /\ head'[Fresh] = h
  BY <1>1 DEF Allocate, TypeOK
<1>3. FreshStandsForNothing'
  <2> SUFFICES ASSUME NEW m \in Markers, head'[m] = None PROVE origin'[m] = None
    BY DEF FreshStandsForNothing
  <2>1. m # Fresh
    BY <1>2, ConstantsAssumption
  <2>2. m \in Node
    BY DEF Node
  <2> QED
    BY <1>1, <1>2, <2>1, <2>2 DEF FreshStandsForNothing
<1>4. ASSUME NEW k \in Slots
      PROVE  target[k] \in Node /\ target[k] # Fresh
  <2>1. target[k] \in Node /\ given.target[k] \in Shapes
    BY <1>1 DEF TypeOK, GraphType
  <2>2. given.target[k] # None
    BY <2>1, ConstantsAssumption DEF Node
  <2>3. origin[Fresh] = None
    BY <1>1 DEF FreshStandsForNothing
  <2> QED
    BY <1>1, <2>1, <2>2, <2>3 DEF SameShape
<1>5. \A k \in Slots : origin'[target[k]] = given.target[k]
  BY <1>1, <1>2, <1>4 DEF SameShape
<1>6. \A k \in Slots : unwrapped[target[k]] => unwrapped'[target[k]]
  BY <1>2, <1>4
<1>7. \A n \in Shapes : unwrapped[n] => unwrapped'[n]
  BY <1>1, <1>2 DEF Node
<1> QED
  BY <1>2, <1>3, <1>5, <1>6, <1>7

LEMMA InitShape == Init => ShapeInv
<1> SUFFICES ASSUME Init PROVE ShapeInv
  OBVIOUS
<1>1. TypeOK
  BY InitType
<1>2. \A k \in Slots : target[k] \in Shapes /\ target[k] = given.target[k]
  BY GraphFacts DEF Init
<1>3. \A n \in Shapes : origin[n] = n /\ (unwrapped[n] <=> n \in given.unwrapped)
  BY DEF Init, Node
<1>4. FreshStandsForNothing
  BY ConstantsAssumption DEF Init, FreshStandsForNothing, Node
<1>5. SameShape
  BY <1>2, <1>3 DEF SameShape
<1>6. AllUnwrapped /\ OnlyInputFails
  BY <1>2, <1>3 DEF AllUnwrapped, OnlyInputFails, Init
<1> QED
  BY <1>1, <1>4, <1>5, <1>6 DEF ShapeInv

LEMMA NextShape == ShapeInv /\ [Next]_vars => ShapeInv'
<1> SUFFICES ASSUME ShapeInv, [Next]_vars
             PROVE  SameShape' /\ FreshStandsForNothing' /\ AllUnwrapped' /\ OnlyInputFails'
  BY NextType DEF ShapeInv
<1>0. TypeOK /\ SameShape /\ FreshStandsForNothing /\ AllUnwrapped /\ OnlyInputFails
  BY DEF ShapeInv
<1>1. CASE DiscardMarker
  <2>1. /\ Head(todo) \in Node /\ Allocate(Fresh, Head(todo))
        /\ given' = given /\ target' = target /\ status' = status
    BY <1>0, <1>1, RootType DEF DiscardMarker
  <2> QED
    BY <1>0, <2>1, AllocateShape DEF SameShape, AllUnwrapped, OnlyInputFails
<1>2. CASE MarkReference
  <2>1. /\ Callee \in Node /\ Pending \in Slots /\ Allocate(Fresh, Callee)
        /\ target' = [target EXCEPT ![Pending] = Fresh]
        /\ given' = given /\ status' = status
    BY <1>0, <1>2, PendingType DEF MarkReference
  <2>2. /\ target'[Pending] = Fresh
        /\ \A k \in Slots : k # Pending => target'[k] = target[k]
    BY <1>0, <2>1 DEF TypeOK
  <2>3. origin[Callee] = given.target[Pending]
    BY <1>0, <2>1 DEF SameShape, Callee
  <2>4. SameShape'
    BY <2>1, <2>2, <2>3, AllocateShape DEF SameShape
  <2>5. AllUnwrapped'
    BY <1>0, <2>1, <2>2, AllocateShape DEF AllUnwrapped
  <2> QED
    BY <1>0, <2>1, <2>4, <2>5, AllocateShape DEF OnlyInputFails
<1>3. CASE Fail
  <2>1. given.rejected # {} \/ given.unwrapped # Shapes
    <3> SUFFICES ASSUME given.rejected = {}, given.unwrapped = Shapes PROVE FALSE
      OBVIOUS
    <3>1. CASE InLoop /\ Refused(Callee)
      <4>1. Pending \in Slots
        BY <1>0, <3>1, PendingType
      <4> QED
        BY <1>0, <3>1, <4>1 DEF Refused, AllUnwrapped, Callee
    <3>2. CASE todo # << >> /\ Refused(Head(todo))
      <4>1. Head(todo) \in Shapes
        BY <1>0, <3>2, RootType
      <4> QED
        BY <1>0, <3>2, <4>1 DEF Refused, AllUnwrapped
    <3> QED
      BY <1>3, <3>1, <3>2 DEF Fail
  <2> QED
    BY <1>0, <1>3, <2>1
       DEF Fail, SameShape, FreshStandsForNothing, AllUnwrapped, OnlyInputFails
<1>4. CASE ~DiscardMarker /\ ~MarkReference /\ ~Fail
  <2>1. /\ given' = given /\ target' = target /\ head' = head /\ origin' = origin
        /\ unwrapped' = unwrapped
        /\ status' = status \/ status' = "done"
    BY <1>4 DEF Next, vars, CallRoot, CallReference, Push, Return, Finish, Over
  <2> QED
    BY <1>0, <2>1
       DEF SameShape, FreshStandsForNothing, AllUnwrapped, OnlyInputFails
<1> QED
  BY <1>1, <1>2, <1>3, <1>4

\* Marking never changes which shape a reference stands for.
THEOREM SameShapeCorrect == Spec => []SameShape
<1>1. Init => ShapeInv
  BY InitShape
<1>2. ShapeInv /\ [Next]_vars => ShapeInv'
  BY NextShape
<1>3. ShapeInv => SameShape
  BY DEF ShapeInv
<1> QED
  BY <1>1, <1>2, <1>3, PTL DEF Spec

\* On an unwrapped model and with no hook error the pass never fails: the
\* markers it meets again are unwrapped too.
THEOREM OnlyInputFailsCorrect == Spec => []OnlyInputFails
<1>1. Init => ShapeInv
  BY InitShape
<1>2. ShapeInv /\ [Next]_vars => ShapeInv'
  BY NextShape
<1>3. ShapeInv => OnlyInputFails
  BY DEF ShapeInv
<1> QED
  BY <1>1, <1>2, <1>3, PTL DEF Spec

-----------------------------------------------------------------------------
(***************************************************************************)
(* Only recursion is marked.  Each node on the path stands for a shape     *)
(* reached in the given graph from what those below it stand for, a marker *)
(* that is walked for the sake of the facet definitions of its head        *)
(* included.  So a reference from the top to a node of the path closes a   *)
(* cycle of the given graph, and a flag is set on nodes of the path only.  *)
(***************************************************************************)

Leads(a, b) == b = a \/ b \in Reach(GivenEdge, a)

\* A node has the facet definitions of the shape it stands for.
StandsFor ==
    /\ \A n \in Shapes : origin[n] = n
    /\ \A n \in Node : origin[n] # None => facetDefs[n] = given.facetDefs[origin[n]]

PathLeads ==
    \A i, j \in 1..Len(frames) :
        i <= j => /\ origin[frames[i].node] # None
                  /\ Leads(origin[frames[i].node], origin[frames[j].node])

CycleInv == FlagInv /\ ShapeInv /\ StandsFor /\ PathLeads /\ OnlyCyclesMarked

LEMMA LeadsOn ==
    ASSUME NEW a \in Shapes, NEW b \in Shapes, NEW c \in Shapes,
           Leads(a, b), GivenEdge(b, c)
    PROVE  c \in Reach(GivenEdge, a)
<1> SUFFICES ASSUME NEW W \in SUBSET Shapes,
                    \A x \in W \cup {a} : \A y \in Shapes : GivenEdge(x, y) => y \in W
             PROVE  c \in W
  BY DEF Reach
<1>1. b \in W \cup {a}
  BY DEF Leads, Reach
<1> QED
  BY <1>1

\* The given graph stays as it is.
LEMMA LeadsKept ==
    ASSUME given' = given, NEW a, NEW b
    PROVE  Leads(a, b)' <=> Leads(a, b)
BY DEF Leads, Reach, GivenEdge, GivenRefs

\* A slot of a node is one of the shape it stands for.
LEMMA RefsStandFor ==
    ASSUME TypeOK, StandsFor, NEW n \in Node, origin[n] # None, NEW j \in DOMAIN Refs(n)
    PROVE  /\ origin[n] \in Shapes
           /\ \E i \in DOMAIN GivenRefs(origin[n]) : GivenRefs(origin[n])[i] = Refs(n)[j]
<1>1. origin[n] \in Shapes
  BY DEF TypeOK
<1> DEFINE cs == given.children[origin[n]]
           ds == given.facetDefs[origin[n]]
<1>2. /\ cs \in Seq(Slots) /\ ds \in Seq(Slots)
      /\ Len(cs) \in Nat /\ Len(ds) \in Nat
  BY <1>1, LenProperties DEF TypeOK, GraphType
<1>3. GivenRefs(origin[n]) = cs \o ds /\ facetDefs[n] = ds
  BY DEF GivenRefs, StandsFor
<1> HIDE DEF cs, ds
<1>4. /\ cs \o ds \in Seq(Slots)
      /\ Len(cs \o ds) = Len(cs) + Len(ds)
      /\ DOMAIN (cs \o ds) = 1..(Len(cs) + Len(ds))
      /\ \A i \in 1..(Len(cs) + Len(ds)) :
            (cs \o ds)[i] = IF i <= Len(cs) THEN cs[i] ELSE ds[i - Len(cs)]
  BY <1>2, ConcatProperties, LenProperties
<1>5. CASE n \in Shapes
  <2>1. Refs(n) = cs \o ds
    BY <1>3, <1>5 DEF Refs, StandsFor, cs
  <2> QED
    BY <1>1, <1>3, <2>1
<1>6. CASE n \notin Shapes
  <2>1. Refs(n) = << >> \o ds
    BY <1>3, <1>6 DEF Refs
  <2>2. Refs(n) = ds
    BY <1>2, <2>1, ConcatEmptySeq
  <2>3. j \in 1..Len(ds)
    BY <1>2, <2>2, LenProperties
  <2>4. /\ Len(cs) + j \in 1..(Len(cs) + Len(ds))
        /\ (cs \o ds)[Len(cs) + j] = ds[j]
    BY <1>2, <1>4, <2>3
  <2> QED
    BY <1>1, <1>3, <1>4, <2>2, <2>4
<1> QED
  BY <1>5, <1>6

\* The callee stands for what the shape of the top node refers to by the
\* pending slot.
LEMMA CalleeStandsFor ==
    ASSUME TypeOK, SameShape, StandsFor, PathLeads, InLoop
    PROVE  /\ origin[Top.node] \in Shapes /\ origin[Callee] \in Shapes
           /\ origin[Callee] = given.target[Pending]
           /\ \E i \in DOMAIN GivenRefs(origin[Top.node]) :
                 GivenRefs(origin[Top.node])[i] = Pending
           /\ GivenEdge(origin[Top.node], origin[Callee])
<1>1. /\ frames # << >>
      /\ Top.next \in DOMAIN Refs(Top.node) /\ Pending \in Slots /\ Callee \in Node
      /\ Top.node \in Node /\ Len(frames) \in Nat \ {0} /\ Top = frames[Len(frames)]
  BY PendingType, TopType DEF InLoop
<1>2. origin[Top.node] # None
  BY <1>1 DEF PathLeads
<1>3. /\ origin[Top.node] \in Shapes
      /\ \E i \in DOMAIN GivenRefs(origin[Top.node]) :
            GivenRefs(origin[Top.node])[i] = Pending
  BY <1>1, <1>2, RefsStandFor DEF Pending
<1>4. origin[Callee] = given.target[Pending]
  BY <1>1 DEF SameShape, Callee
<1>5. given.target[Pending] \in Shapes
  BY <1>1 DEF TypeOK, GraphType
<1> QED
  BY <1>3, <1>4, <1>5 DEF GivenEdge

LEMMA PushLeads ==
    ASSUME CycleInv, NEW n \in Node, Push(n), given' = given, origin[n] \in Shapes,
           frames # << >> => InLoop /\ n = Callee
    PROVE  PathLeads'
<1>1. TypeOK /\ SameShape /\ StandsFor /\ PathLeads
  BY DEF CycleInv, FlagInv, ShapeInv
<1>2. /\ frames' \in Seq(Frame)
      /\ Len(frames') = Len(frames) + 1
      /\ \A i \in 1..Len(frames) : frames'[i] = frames[i]
      /\ frames'[Len(frames) + 1] = [node |-> n, next |-> 1]
  BY <1>1, PushFrames
<1>3. Len(frames) \in Nat /\ frames'[Len(frames) + 1].node = n
  BY <1>1, <1>2, LenProperties DEF TypeOK
<1>4. origin' = origin
  BY DEF Push
<1>5. \A i \in 1..Len(frames) : origin[frames[i].node] \in Shapes
  BY <1>1, <1>3, FrameTypes DEF PathLeads, TypeOK
<1>6. ASSUME NEW i \in 1..Len(frames)
      PROVE  Leads(origin[frames[i].node], origin[n])
  <2>1. frames # << >> /\ InLoop /\ n = Callee
    BY <1>3, EmptySeq
  <2>2. Leads(origin[frames[i].node], origin[Top.node])
    BY <1>1, <1>3, <2>1, TopType DEF PathLeads
  <2>3. origin[Top.node] \in Shapes /\ GivenEdge(origin[Top.node], origin[n])
    BY <1>1, <2>1, CalleeStandsFor
  <2>4. origin[n] \in Reach(GivenEdge, origin[frames[i].node])
    BY <1>5, <2>2, <2>3, LeadsOn
  <2> QED
    BY <2>4 DEF Leads
<1>7. ASSUME NEW i \in 1..(Len(frames) + 1), NEW j \in 1..(Len(frames) + 1), i <= j
      PROVE  /\ origin[frames'[i].node] # None
             /\ Leads(origin[frames'[i].node], origin[frames'[j].node])
  <2>1. CASE j \in 1..Len(frames)
    <3>1. i \in 1..Len(frames)
      BY <1>3, <1>7, <2>1
    <3> QED
      BY <1>1, <1>2, <1>7, <2>1, <3>1 DEF PathLeads
  <2>2. CASE j = Len(frames) + 1 /\ i \in 1..Len(frames)
    BY <1>2, <1>5, <1>6, <2>2, ConstantsAssumption DEF Node
  <2>3. CASE j = Len(frames) + 1 /\ i = Len(frames) + 1
    BY <1>2, <2>3, ConstantsAssumption DEF Leads, Node
  <2> QED
    BY <1>3, <2>1, <2>2, <2>3
<1> QED
  BY <1>2, <1>4, <1>7, LeadsKept DEF PathLeads

\* A step that takes records from the path or only moves them on, and gives no
\* other meaning to their nodes.
LEMMA SamePathLeads ==
    ASSUME TypeOK, PathLeads, given' = given, Len(frames') \in 0..Len(frames),
           \A i \in 1..Len(frames') : frames'[i].node = frames[i].node,
           \A i \in 1..Len(frames) : origin'[frames[i].node] = origin[frames[i].node]
    PROVE  PathLeads'
<1>1. Len(frames) \in Nat
  BY LenProperties DEF TypeOK
<1>2. \A i \in 1..Len(frames') : i \in 1..Len(frames)
  BY <1>1
<1>3. \A i \in 1..Len(frames') : origin'[frames'[i].node] = origin[frames[i].node]
  BY <1>2
<1> QED
  BY <1>2, <1>3, LeadsKept DEF PathLeads

\* A new marker stands for its head, and what nodes of the path stand for stays.
LEMMA AllocateStandsFor ==
    ASSUME CycleInv, NEW h \in Node, Allocate(Fresh, h), given' = given
    PROVE  /\ StandsFor'
           /\ \A i \in 1..Len(frames) : origin'[frames[i].node] = origin[frames[i].node]
<1>1. TypeOK /\ FreshStandsForNothing /\ StandsFor /\ PathLeads
  BY DEF CycleInv, FlagInv, ShapeInv
<1>2. /\ Fresh \in Markers /\ Fresh \in Node /\ Fresh \notin Shapes
      /\ origin[Fresh] = None
  BY <1>1, FreshType DEF Allocate, FreshStandsForNothing, Node
<1>3. /\ origin'[Fresh] = origin[h] /\ facetDefs'[Fresh] = facetDefs[h]
      /\ \A n \in Node : n # Fresh => origin'[n] = origin[n] /\ facetDefs'[n] = facetDefs[n]
  BY <1>1, <1>2 DEF Allocate, TypeOK
<1>4. StandsFor'
  <2>1. \A n \in Shapes : origin'[n] = n
    BY <1>1, <1>2, <1>3 DEF StandsFor, Node
  <2>2. \A n \in Node : origin'[n] # None => facetDefs'[n] = given.facetDefs[origin'[n]]
    BY <1>1, <1>3 DEF StandsFor
  <2> QED
    BY <2>1, <2>2 DEF StandsFor
<1>5. ASSUME NEW i \in 1..Len(frames)
      PROVE  origin'[frames[i].node] = origin[frames[i].node]
  <2>1. frames[i].node \in Node
    BY <1>1, FrameTypes
  <2>2. Len(frames) \in Nat
    BY <1>1, LenProperties DEF TypeOK
  <2>3. origin[frames[i].node] # None
    BY <1>1, <2>2 DEF PathLeads
  <2> QED
    BY <1>2, <1>3, <2>1, <2>3
<1> QED
  BY <1>4, <1>5

LEMMA InitCycle == Init => CycleInv
<1> SUFFICES ASSUME Init PROVE CycleInv
  OBVIOUS
<1>1. FlagInv /\ ShapeInv
  BY InitFlag, InitShape
<1>2. StandsFor
  BY ConstantsAssumption DEF Init, StandsFor, Node
<1>3. PathLeads
  BY DEF Init, PathLeads
<1>4. \A k \in Slots : target[k] \in Shapes
  BY GraphFacts DEF Init
<1>5. OnlyCyclesMarked
  BY <1>4, ConstantsAssumption DEF OnlyCyclesMarked
<1> QED
  BY <1>1, <1>2, <1>3, <1>5 DEF CycleInv

\* The witness of a marked slot is there for good, as the given graph is.
ClosesCycle(k) ==
    \E n \in Shapes :
        /\ \E i \in DOMAIN GivenRefs(n) : GivenRefs(n)[i] = k
        /\ Leads(given.target[k], n)

LEMMA CycleWitness ==
    OnlyCyclesMarked <=>
        (given.stale = {} => \A k \in Slots : target[k] \in Markers => ClosesCycle(k))
BY DEF OnlyCyclesMarked, ClosesCycle, Leads

LEMMA CycleWitnessKept ==
    ASSUME given' = given, NEW k
    PROVE  ClosesCycle(k)' <=> ClosesCycle(k)
BY LeadsKept DEF ClosesCycle, GivenRefs

LEMMA CyclesKept ==
    ASSUME given' = given,
           \A k \in Slots : given.stale = {} /\ target'[k] \in Markers => ClosesCycle(k)
    PROVE  OnlyCyclesMarked'
<1>1. \A k \in Slots : ClosesCycle(k) => ClosesCycle(k)'
  BY CycleWitnessKept
<1> QED
  BY <1>1 DEF OnlyCyclesMarked, ClosesCycle, Leads

LEMMA NextCycle == CycleInv /\ [Next]_vars => CycleInv'
<1> SUFFICES ASSUME CycleInv, [Next]_vars
             PROVE  StandsFor' /\ PathLeads' /\ OnlyCyclesMarked'
  BY NextFlag, NextShape DEF CycleInv
<1>1. /\ TypeOK /\ FlagInv /\ ShapeInv /\ SameShape /\ StandsFor /\ PathLeads
      /\ OnlyCyclesMarked
  BY DEF CycleInv, FlagInv, ShapeInv
<1>2. given' = given
  BY DEF Next, vars, CallRoot, DiscardMarker, CallReference, MarkReference,
         Return, Fail, Finish, Over
<1>3. Len(frames) \in Nat
  BY <1>1, LenProperties DEF TypeOK
<1>4. ASSUME target' = target PROVE OnlyCyclesMarked'
  BY <1>1, <1>2, <1>4, CycleWitness, CyclesKept
<1>5. ASSUME origin' = origin, facetDefs' = facetDefs PROVE StandsFor'
  BY <1>1, <1>2, <1>5 DEF StandsFor
<1>6. CASE CallRoot
  <2>1. Head(todo) \in Shapes /\ Head(todo) \in Node /\ Push(Head(todo)) /\ frames = << >>
    BY <1>1, <1>6, RootType DEF CallRoot
  <2>2. origin[Head(todo)] \in Shapes
    BY <1>1, <2>1 DEF StandsFor
  <2> QED
    BY <1>2, <1>4, <1>5, <2>1, <2>2, PushLeads DEF Push
<1>7. CASE CallReference
  <2>1. InLoop /\ Callee \in Node /\ Push(Callee)
    BY <1>1, <1>7, PendingType DEF CallReference
  <2>2. origin[Callee] \in Shapes
    BY <1>1, <2>1, CalleeStandsFor
  <2> QED
    BY <1>2, <1>4, <1>5, <2>1, <2>2, PushLeads DEF Push
<1>8. CASE DiscardMarker
  <2>1. Head(todo) \in Node /\ Allocate(Fresh, Head(todo)) /\ target' = target /\ frames' = frames
    BY <1>1, <1>8, RootType DEF DiscardMarker
  <2> QED
    BY <1>1, <1>2, <1>3, <1>4, <2>1, AllocateStandsFor, SamePathLeads
<1>9. CASE MarkReference
  <2>1. /\ InLoop /\ frames # << >> /\ visited[Callee] /\ frames' = Advance(frames)
        /\ Callee \in Node /\ Pending \in Slots /\ Allocate(Fresh, Callee)
        /\ target' = [target EXCEPT ![Pending] = Fresh]
    BY <1>1, <1>9, PendingType DEF MarkReference, InLoop
  <2>2. /\ Len(frames') = Len(frames)
        /\ \A i \in 1..Len(frames) : frames'[i].node = frames[i].node
    BY <1>1, <2>1, AdvanceFrames DEF TypeOK
  <2>3. StandsFor' /\ PathLeads'
    BY <1>1, <1>2, <1>3, <2>1, <2>2, AllocateStandsFor, SamePathLeads
  <2>4. ASSUME given.stale = {} PROVE ClosesCycle(Pending)
    <3>1. status # "failed"
      BY <1>1, <2>1 DEF FlagInv, Idle
    <3>2. PICK i \in 1..Len(frames) : frames[i].node = Callee
      BY <1>1, <2>1, <2>4, <3>1, OnPathEq DEF FlagInv, FlagIsPath
    <3>3. Leads(origin[Callee], origin[Top.node])
      BY <1>1, <1>3, <2>1, <3>2, TopType DEF PathLeads
    <3> QED
      BY <1>1, <2>1, <3>3, CalleeStandsFor DEF ClosesCycle
  <2>5. \A k \in Slots : target'[k] \in Markers => k = Pending \/ target[k] \in Markers
    BY <1>1, <2>1 DEF TypeOK
  <2>6. OnlyCyclesMarked'
    <3>1. \A k \in Slots : given.stale = {} /\ target'[k] \in Markers => ClosesCycle(k)
      BY <1>1, <2>4, <2>5, CycleWitness
    <3> QED
      BY <1>2, <3>1, CyclesKept
  <2> QED
    BY <2>3, <2>6
<1>10. CASE Return
  <2>1. /\ Len(frames') = Len(frames) - 1
        /\ \A i \in 1..(Len(frames) - 1) : frames'[i].node = frames[i].node
        /\ Len(frames) # 0
        /\ target' = target /\ origin' = origin /\ facetDefs' = facetDefs
    BY <1>1, <1>10, ReturnFrames, TopType DEF Return
  <2>2. Len(frames') \in 0..Len(frames)
    BY <1>3, <2>1
  <2>3. \A i \in 1..Len(frames') : frames'[i].node = frames[i].node
    BY <2>1
  <2> QED
    BY <1>1, <1>2, <1>4, <1>5, <2>1, <2>2, <2>3, SamePathLeads
<1>11. CASE Fail
  <2>1. frames' = << >> /\ target' = target /\ origin' = origin /\ facetDefs' = facetDefs
    BY <1>11 DEF Fail
  <2> QED
    BY <1>4, <1>5, <2>1 DEF PathLeads
<1>12. CASE Finish \/ Over \/ UNCHANGED vars
  <2>1. frames' = frames /\ target' = target /\ origin' = origin /\ facetDefs' = facetDefs
    BY <1>12 DEF Finish, Over, vars
  <2> QED
    BY <1>1, <1>2, <1>3, <1>4, <1>5, <2>1, SamePathLeads
<1> QED
  BY <1>6, <1>7, <1>8, <1>9, <1>10, <1>11, <1>12 DEF Next

\* Sharing is not taken for recursion: on clear flags a reference is replaced
\* only if it closes a cycle of the graph the unwrapper produced.
THEOREM OnlyCyclesMarkedCorrect == Spec => []OnlyCyclesMarked
<1>1. Init => CycleInv
  BY InitCycle
<1>2. CycleInv /\ [Next]_vars => CycleInv'
  BY NextCycle
<1>3. CycleInv => OnlyCyclesMarked
  BY DEF CycleInv
<1> QED
  BY <1>1, <1>2, <1>3, PTL DEF Spec

=============================================================================
