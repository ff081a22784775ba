----------------------------- MODULE CloningProofs ----------------------------
(***************************************************************************)
(* Theorems about Cloning, for graphs of every size: cloning writes to     *)
(* nothing that was there, a finished copy is the image of its source as   *)
(* far as identities tell shapes apart, and what CloneDetached returns is  *)
(* independent of everything else.                                         *)
(***************************************************************************)
EXTENDS Cloning, WellFoundedInduction, TLAPS

\* A shape there was at first, or a deep copy.
Deep(s) == heap[s].owner # Shallow

\* What a frame writes to belongs to its copy alone.
Private ==
    \A f \in Frames :
        /\ heap[f.dst].defs # heap[f.dst].line
        /\ heap[f.dst].defs # heap[f.dst].parts
        /\ heap[f.dst].line # heap[f.dst].parts
        /\ \A s \in DOMAIN heap \ {f.dst} : Holders(s) \cap Holders(f.dst) = {}

\* Owners are calls that were made, and references stay with one owner.
Owned ==
    /\ call <= calls
    /\ \A s \in DOMAIN heap : heap[s].owner \in Nat => heap[s].owner <= calls
    /\ \A s \in DOMAIN heap : Deep(s) =>
          \A c \in Holders(s) : \A k \in DOMAIN containers[c] :
             heap[containers[c][k]].owner = heap[s].owner

\* An owner makes one copy of an identity.
Unique ==
    \A c, d \in Cloned : heap[c].owner = heap[d].owner /\ heap[c].id = heap[d].id => c = d

\* A copy keeps what its source has, and is not made of a copy under way.
Sourced ==
    \A c \in Cloned :
        /\ heap[c].id = heap[heap[c].source].id
        /\ heap[c].head = heap[heap[c].source].head
        /\ \A f \in Frames : heap[c].source # f.dst

\* Map m leads from the identities met to the copies call n made.
Maps(m, n) ==
    /\ \A i \in IDs : m[i] # 0 => heap[m[i]].owner = n /\ heap[m[i]].id = i
    /\ \A c \in DOMAIN heap : heap[c].owner = n => m[heap[c].id] = c

MapsOK ==
    /\ ~Idle => Maps(map, call)
    /\ Idle \/ call # 0 => Maps(shared, 0)

\* The frames nest, and each has a copy of its own.
Nested ==
    \A k \in DOMAIN frames, f \in Frames : f = frames[k] =>
        /\ heap[f.dst].owner = call
        /\ heap[f.dst].source = f.src
        /\ heap[f.src].owner # call
        /\ f.next <= Len(Refs(f.src)) + 1
        /\ k # Len(frames) =>
              /\ f.next <= Len(Refs(f.src))
              /\ frames[k + 1].src = Refs(f.src)[f.next]
        /\ \A j \in DOMAIN frames : frames[j].dst = f.dst => j = k

\* How many references of a container of len are done, when n are done in all
\* and those of other containers, skip many, come first.
Part(n, skip, len) ==
    IF n <= skip THEN 0 ELSE IF n <= skip + len THEN n - skip ELSE len

\* The first n references in container mine are copies owner made of shapes with
\* the identities of those in container theirs.
Prefix(mine, theirs, n, owner) ==
    /\ Len(containers[mine]) = n
    /\ \A k \in 1..n : /\ heap[containers[mine][k]].id = heap[containers[theirs][k]].id
                       /\ containers[theirs][k] \in DOMAIN heap
                       /\ heap[containers[mine][k]].owner = owner

\* Frame f has copied the references before next.
Copied(f) ==
    LET c == heap[f.dst]
        s == heap[f.src]
        d == Len(containers[s.defs])
        l == Len(containers[s.line])
        p == Len(containers[s.parts])
    IN  /\ Prefix(c.defs, s.defs, Part(f.next - 1, 0, d), c.owner)
        /\ Prefix(c.line, s.line, Part(f.next - 1, d, l), c.owner)
        /\ Prefix(c.parts, s.parts, Part(f.next - 1, d + l, p), c.owner)

Progress == \A f \in Frames : Copied(f)

\* Container mine of c has copies of the same owner, of shapes with the
\* identities of those in container theirs.
Alike(c, mine, theirs) ==
    /\ Len(containers[mine]) = Len(containers[theirs])
    /\ \A k \in DOMAIN containers[mine] :
          /\ heap[containers[mine][k]].id = heap[containers[theirs][k]].id
          /\ containers[theirs][k] \in DOMAIN heap
          /\ heap[containers[mine][k]].owner = heap[c].owner

\* The references of c are the images, up to identity, of those of its source.
Image(c) ==
    LET s == heap[c].source
    IN  /\ Alike(c, heap[c].defs, heap[s].defs)
        /\ Alike(c, heap[c].line, heap[s].line)
        /\ Alike(c, heap[c].parts, heap[s].parts)

WholeIsImage == \A c \in Whole : Image(c)

IInv == TypeOK /\ Private /\ Owned /\ Unique /\ Sourced /\ MapsOK /\ Nested /\ Progress /\ WholeIsImage

-----------------------------------------------------------------------------
(* The containers of a shape *)

LEMMA ShapeType ==
    ASSUME TypeOK, NEW s \in DOMAIN heap
    PROVE  /\ heap[s] \in Shape
           /\ heap[s].defs \in DOMAIN containers
           /\ heap[s].line \in DOMAIN containers
           /\ heap[s].parts \in DOMAIN containers
           /\ DefsOf(s) \in Seq(DOMAIN heap)
           /\ LineOf(s) \in Seq(DOMAIN heap)
           /\ PartsOf(s) \in Seq(DOMAIN heap)
           /\ heap[s].id \in IDs
<1>1. heap[s] \in Shape
  BY DEF TypeOK
<1>2. /\ heap[s].defs \in DOMAIN containers
      /\ heap[s].line \in DOMAIN containers
      /\ heap[s].parts \in DOMAIN containers
  BY DEF TypeOK
<1>3. \A c \in DOMAIN containers : containers[c] \in Seq(DOMAIN heap)
  BY DEF TypeOK
<1>4. heap[s].id \in IDs
  BY <1>1 DEF Shape
<1> QED
  BY <1>1, <1>2, <1>3, <1>4 DEF DefsOf, LineOf, PartsOf

LEMMA FrameType ==
    ASSUME TypeOK, NEW f \in Frames
    PROVE  /\ f \in Frame
           /\ f.src \in DOMAIN heap
           /\ f.dst \in DOMAIN heap
           /\ f.next \in Nat /\ f.next > 0
<1>1. PICK k \in DOMAIN frames : f = frames[k]
  BY DEF Frames
<1>2. frames \in Seq(Frame)
  BY DEF TypeOK
<1>3. f \in Frame
  BY <1>1, <1>2
<1>4. f.src \in DOMAIN heap /\ f.dst \in DOMAIN heap /\ f.next > 0
  BY DEF TypeOK
<1> QED
  BY <1>3, <1>4 DEF Frame

LEMMA Appended ==
    ASSUME NEW S, NEW D \in Seq(S), NEW L \in Seq(S)
    PROVE  /\ D \o L \in Seq(S)
           /\ Len(D \o L) = Len(D) + Len(L)
           /\ \A k \in 1..Len(D) : (D \o L)[k] = D[k]
           /\ \A k \in 1..Len(L) : (D \o L)[Len(D) + k] = L[k]
OBVIOUS

LEMMA Concatenated ==
    ASSUME NEW S, NEW D \in Seq(S), NEW L \in Seq(S), NEW P \in Seq(S)
    PROVE  /\ D \o L \o P \in Seq(S)
           /\ Len(D \o L \o P) = Len(D) + Len(L) + Len(P)
           /\ \A k \in 1..Len(D) : (D \o L \o P)[k] = D[k]
           /\ \A k \in 1..Len(L) : (D \o L \o P)[Len(D) + k] = L[k]
           /\ \A k \in 1..Len(P) : (D \o L \o P)[Len(D) + Len(L) + k] = P[k]
<1> DEFINE DL == D \o L
<1>1. /\ DL \in Seq(S)
      /\ Len(DL) = Len(D) + Len(L)
      /\ \A k \in 1..Len(D) : DL[k] = D[k]
      /\ \A k \in 1..Len(L) : DL[Len(D) + k] = L[k]
  BY Appended
<1> DEFINE R == DL \o P
<1> HIDE DEF DL
<1>2. /\ R \in Seq(S)
      /\ Len(R) = Len(DL) + Len(P)
      /\ \A k \in 1..Len(DL) : R[k] = DL[k]
      /\ \A k \in 1..Len(P) : R[Len(DL) + k] = P[k]
  <2>1. DL \in Seq(S) /\ P \in Seq(S)
    BY <1>1
  <2> QED
    BY <2>1, Appended
<1> HIDE DEF R
<1>3. Len(D) \in Nat /\ Len(L) \in Nat /\ Len(P) \in Nat
  OBVIOUS
<1>4. Len(R) = Len(D) + Len(L) + Len(P)
  BY <1>1, <1>2
<1>5. \A k \in 1..Len(D) : R[k] = D[k]
  BY <1>1, <1>2, <1>3
<1>6. \A k \in 1..Len(L) : R[Len(D) + k] = L[k]
  BY <1>1, <1>2, <1>3
<1>7. \A k \in 1..Len(P) : R[Len(D) + Len(L) + k] = P[k]
  BY <1>1, <1>2, <1>3
<1> QED
  BY <1>2, <1>4, <1>5, <1>6, <1>7 DEF R, DL

LEMMA RefsType ==
    ASSUME TypeOK, NEW s \in DOMAIN heap
    PROVE  /\ Refs(s) \in Seq(DOMAIN heap)
           /\ Len(Refs(s)) = Len(DefsOf(s)) + Len(LineOf(s)) + Len(PartsOf(s))
           /\ \A k \in 1..Len(DefsOf(s)) : Refs(s)[k] = DefsOf(s)[k]
           /\ \A k \in 1..Len(LineOf(s)) : Refs(s)[Len(DefsOf(s)) + k] = LineOf(s)[k]
           /\ \A k \in 1..Len(PartsOf(s)) :
                 Refs(s)[Len(DefsOf(s)) + Len(LineOf(s)) + k] = PartsOf(s)[k]
<1>1. /\ DefsOf(s) \in Seq(DOMAIN heap)
      /\ LineOf(s) \in Seq(DOMAIN heap)
      /\ PartsOf(s) \in Seq(DOMAIN heap)
  BY ShapeType
<1>2. Refs(s) = DefsOf(s) \o LineOf(s) \o PartsOf(s)
  BY DEF Refs
<1> QED
  BY <1>1, <1>2, Concatenated

\* Every reference is in a container.
LEMMA RefsHeld ==
    ASSUME TypeOK, NEW s \in DOMAIN heap, NEW k \in 1..Len(Refs(s))
    PROVE  \E c \in Holders(s) : \E j \in DOMAIN containers[c] : Refs(s)[k] = containers[c][j]
<1> DEFINE d == Len(DefsOf(s))
           l == Len(LineOf(s))
           p == Len(PartsOf(s))
<1>1. /\ d \in Nat /\ DOMAIN DefsOf(s) = 1..d
      /\ l \in Nat /\ DOMAIN LineOf(s) = 1..l
      /\ p \in Nat /\ DOMAIN PartsOf(s) = 1..p
  BY ShapeType
<1>2. /\ Len(Refs(s)) = d + l + p
      /\ \A j \in 1..d : Refs(s)[j] = DefsOf(s)[j]
      /\ \A j \in 1..l : Refs(s)[d + j] = LineOf(s)[j]
      /\ \A j \in 1..p : Refs(s)[d + l + j] = PartsOf(s)[j]
  BY RefsType
<1> HIDE DEF d, l, p
<1>3. CASE k <= d
  <2>1. k \in DOMAIN DefsOf(s) /\ Refs(s)[k] = DefsOf(s)[k]
    BY <1>2, <1>1, <1>3
  <2> QED
    BY <2>1 DEF DefsOf, Holders
<1>4. CASE d < k /\ k <= d + l
  <2>1. k - d \in 1..l /\ d + (k - d) = k
    BY <1>1, <1>4
  <2>2. k - d \in DOMAIN LineOf(s) /\ Refs(s)[k] = LineOf(s)[k - d]
    BY <1>2, <1>1, <2>1
  <2> QED
    BY <2>2 DEF LineOf, Holders
<1>5. CASE d + l < k
  <2>1. k - (d + l) \in 1..Len(PartsOf(s)) /\ d + l + (k - (d + l)) = k
    BY <1>2, <1>1, <1>5
  <2>2. k - (d + l) \in DOMAIN PartsOf(s) /\ Refs(s)[k] = PartsOf(s)[k - (d + l)]
    BY <1>2, <1>1, <2>1
  <2> QED
    BY <2>2 DEF PartsOf, Holders
<1> QED
  BY <1>2, <1>1, <1>3, <1>4, <1>5

\* References stay with one owner.
LEMMA RefsOwned ==
    ASSUME TypeOK, Owned, NEW s \in DOMAIN heap, Deep(s), NEW k \in 1..Len(Refs(s))
    PROVE  /\ Refs(s)[k] \in DOMAIN heap
           /\ heap[Refs(s)[k]].owner = heap[s].owner
<1>1. Refs(s)[k] \in DOMAIN heap
  BY RefsType
<1>2. PICK c \in Holders(s) : \E j \in DOMAIN containers[c] : Refs(s)[k] = containers[c][j]
  BY RefsHeld
<1> QED
  BY <1>1, <1>2 DEF Owned

-----------------------------------------------------------------------------
(* Initial states *)

LEMMA InitInv ==
    Init => IInv
<1> SUFFICES ASSUME Init PROVE IInv
  OBVIOUS
<1>1. PICK g \in Graphs :
        /\ heap = [s \in DOMAIN g |->
                     [ id |-> g[s].id, defs |-> 3 * s - 2, line |-> 3 * s - 1, parts |-> 3 * s,
                       head |-> g[s].head, source |-> 0, owner |-> Original ]]
        /\ containers = [c \in 1..(3 * Len(g)) |->
                           LET s == (c + 2) \div 3
                           IN  IF c = 3 * s - 2 THEN g[s].defs
                               ELSE IF c = 3 * s - 1 THEN g[s].line ELSE g[s].parts]
  BY DEF Init
<1>2. /\ map = Empty /\ shared = Empty /\ frames = << >>
      /\ call = 0 /\ calls = 0 /\ copies = << >>
  BY DEF Init
<1>3. g \in Seq(Links(Len(g)))
  BY ConstantsAssumption
<1> DEFINE n == Len(g)
<1>4. n \in Nat /\ DOMAIN g = 1..n /\ DOMAIN heap = 1..n /\ DOMAIN containers = 1..(3 * n)
  BY <1>1, <1>3
<1>5. \A s \in 1..n : g[s] \in Links(n)
  BY <1>3, <1>4
<1> HIDE DEF n
<1>6. \A s \in 1..n : /\ g[s].defs \in Seq(1..n) /\ g[s].line \in Seq(1..n) /\ g[s].parts \in Seq(1..n)
                      /\ g[s].head \in 0..n /\ g[s].id \in IDs
  BY <1>5 DEF Links
<1>7. \A c \in 1..(3 * n) : (c + 2) \div 3 \in 1..n
  BY <1>4
<1>8. \A c \in 1..(3 * n) : containers[c] \in Seq(1..n)
  <2> TAKE c \in 1..(3 * n)
  <2> DEFINE s == (c + 2) \div 3
  <2>1. s \in 1..n
    BY <1>7
  <2>2. containers[c] = IF c = 3 * s - 2 THEN g[s].defs
                        ELSE IF c = 3 * s - 1 THEN g[s].line ELSE g[s].parts
    BY <1>1 DEF n
  <2> HIDE DEF s
  <2> QED
    BY <1>6, <2>1, <2>2
<1>9. containers \in Seq(Seq(1..n))
  <2> DEFINE F(c) == LET s == (c + 2) \div 3
                     IN  IF c = 3 * s - 2 THEN g[s].defs
                         ELSE IF c = 3 * s - 1 THEN g[s].line ELSE g[s].parts
             m == 3 * n
  <2>1. containers = [c \in 1..m |-> F(c)]
    BY <1>1 DEF n
  <2>2. m \in Nat /\ \A c \in 1..m : containers[c] \in Seq(1..n)
    BY <1>4, <1>8
  <2> HIDE DEF F, m
  <2> QED
    BY <2>1, <2>2
<1>10. \A s \in 1..n : /\ heap[s] = [ id |-> g[s].id, defs |-> 3 * s - 2, line |-> 3 * s - 1,
                                      parts |-> 3 * s, head |-> g[s].head, source |-> 0,
                                      owner |-> Original ]
  BY <1>1, <1>4
<1>11. \A s \in 1..n : /\ heap[s].defs = 3 * s - 2 /\ heap[s].line = 3 * s - 1
                      /\ heap[s].parts = 3 * s /\ heap[s].head = g[s].head
                      /\ heap[s].owner = Original /\ heap[s].id = g[s].id
  <2> TAKE s \in 1..n
  <2> DEFINE d == 3 * s - 2
             l == 3 * s - 1
             p == 3 * s
  <2>1. heap[s] = [ id |-> g[s].id, defs |-> d, line |-> l, parts |-> p, head |-> g[s].head,
                    source |-> 0, owner |-> Original ]
    BY <1>10
  <2> HIDE DEF d, l, p
  <2>2. /\ heap[s].defs = d /\ heap[s].line = l
        /\ heap[s].parts = p /\ heap[s].head = g[s].head
        /\ heap[s].owner = Original /\ heap[s].id = g[s].id
    BY <2>1
  <2> QED
    BY <2>2 DEF d, l, p
<1>12. \A s \in 1..n : /\ 3 * s - 2 \in 1..(3 * n)
                      /\ 3 * s - 1 \in 1..(3 * n)
                      /\ 3 * s \in 1..(3 * n)
  BY <1>4
<1>13. \A s \in 1..n : heap[s] \in Shape
  <2> TAKE s \in 1..n
  <2>1. /\ 3 * s - 2 \in Nat /\ 3 * s - 1 \in Nat /\ 3 * s \in Nat
        /\ g[s].head \in Nat /\ g[s].id \in IDs
    BY <1>4, <1>6
  <2> QED
    <3> DEFINE d == 3 * s - 2
               l == 3 * s - 1
               p == 3 * s
    <3>1. heap[s] = [ id |-> g[s].id, defs |-> d, line |-> l, parts |-> p, head |-> g[s].head,
                      source |-> 0, owner |-> Original ]
      BY <1>10
    <3> HIDE DEF d, l, p
    <3>2. d \in Nat /\ l \in Nat /\ p \in Nat
      BY <2>1 DEF d, l, p
    <3> QED
      BY <2>1, <3>1, <3>2 DEF Shape
<1>14. heap \in Seq(Shape)
  BY <1>1, <1>4, <1>13
<1>15. TypeOK
  <2>1. \A s \in DOMAIN heap :
          /\ {heap[s].defs, heap[s].line, heap[s].parts} \subseteq DOMAIN containers
          /\ heap[s].head \in {0} \cup DOMAIN heap
          /\ heap[s].owner = Original \/ heap[s].source \in DOMAIN heap
    <3> TAKE s \in DOMAIN heap
    <3>1. s \in 1..n /\ {0} \cup DOMAIN heap = 0..n
      BY <1>4
    <3>2. /\ heap[s].defs = 3 * s - 2 /\ heap[s].line = 3 * s - 1 /\ heap[s].parts = 3 * s
          /\ heap[s].head = g[s].head /\ heap[s].owner = Original
      BY <1>11, <3>1
    <3>3. {heap[s].defs, heap[s].line, heap[s].parts} \subseteq DOMAIN containers
      BY <1>4, <1>12, <3>1, <3>2
    <3> QED
      BY <1>6, <3>1, <3>2, <3>3
  <2>2. /\ map \in [IDs -> {0} \cup DOMAIN heap]
        /\ shared \in [IDs -> {0} \cup DOMAIN heap]
        /\ frames \in Seq(Frame) /\ Frames = {}
        /\ call \in Nat /\ calls \in Nat
        /\ copies \in Seq([source : DOMAIN heap, copy : DOMAIN heap])
    BY <1>2 DEF Empty, Frames
  <2> QED
    BY <1>4, <1>9, <1>14, <2>1, <2>2 DEF TypeOK
<1>16. \A s \in DOMAIN heap : heap[s].owner = Original /\ Original \notin Nat
  BY <1>4, <1>11, ConstantsAssumption
<1>17. Frames = {} /\ Cloned = {} /\ Whole = {} /\ Idle
  BY <1>2, <1>16 DEF Frames, Cloned, Whole, Idle
<1>18. Owned
  <2>1. \A s \in DOMAIN heap : \A c \in Holders(s) : \A k \in DOMAIN containers[c] :
           containers[c][k] \in DOMAIN heap
    <3> TAKE s \in DOMAIN heap
    <3> TAKE c \in Holders(s)
    <3>1. c \in 1..(3 * n) /\ containers[c] \in Seq(1..n)
      BY <1>4, <1>8, <1>15 DEF TypeOK, Holders
    <3> QED
      BY <1>4, <3>1
  <2> QED
    BY <1>2, <1>16, <2>1 DEF Owned
<1>19. Unique
  BY <1>17 DEF Unique
<1>20. MapsOK
  BY <1>2, <1>16, <1>17 DEF MapsOK, Maps, Empty
<1>21. Private /\ Sourced /\ Nested /\ Progress /\ WholeIsImage
  BY <1>2, <1>17 DEF Private, Sourced, Nested, Progress, WholeIsImage
<1> QED
  BY <1>15, <1>18, <1>19, <1>20, <1>21 DEF IInv

-----------------------------------------------------------------------------
(* What a step that only adds shapes, and writes to other containers, keeps *)

LEMMA PrefixKept ==
    ASSUME TypeOK, DOMAIN heap \subseteq DOMAIN heap', \A t \in DOMAIN heap : heap'[t] = heap[t]
    PROVE  \A mine \in DOMAIN containers : \A theirs, o : \A n \in Nat :
              /\ containers'[mine] = containers[mine]
              /\ containers'[theirs] = containers[theirs]
              /\ Prefix(mine, theirs, n, o)
              => /\ Len(containers'[mine]) = n
                 /\ \A k \in 1..n : /\ heap'[containers'[mine][k]].id = heap'[containers'[theirs][k]].id
                                    /\ containers'[theirs][k] \in DOMAIN heap'
                                    /\ heap'[containers'[mine][k]].owner = o
<1> SUFFICES ASSUME NEW mine \in DOMAIN containers, NEW theirs, NEW o, NEW n \in Nat,
                    containers'[mine] = containers[mine], containers'[theirs] = containers[theirs],
                    Prefix(mine, theirs, n, o)
             PROVE  /\ Len(containers'[mine]) = n
                    /\ \A k \in 1..n : /\ heap'[containers'[mine][k]].id = heap'[containers'[theirs][k]].id
                                       /\ containers'[theirs][k] \in DOMAIN heap'
                                       /\ heap'[containers'[mine][k]].owner = o
  OBVIOUS
<1>1. containers[mine] \in Seq(DOMAIN heap)
  BY DEF TypeOK
<1>2. Len(containers[mine]) = n /\ \A k \in 1..n : containers[mine][k] \in DOMAIN heap
  BY <1>1 DEF Prefix
<1> QED
  BY <1>2 DEF Prefix

LEMMA PartType ==
    ASSUME NEW n \in Nat, NEW skip \in Nat, NEW len \in Nat
    PROVE  Part(n, skip, len) \in 0..len
BY DEF Part

LEMMA CopiedKept ==
    ASSUME TypeOK, NEW f \in Frames, DOMAIN heap \subseteq DOMAIN heap',
           \A t \in DOMAIN heap : heap'[t] = heap[t],
           \A c \in Holders(f.src) \cup Holders(f.dst) : containers'[c] = containers[c],
           Copied(f)
    PROVE  Copied(f)'
<1> DEFINE c == heap[f.dst]
           s == heap[f.src]
           d == Len(containers[s.defs])
           l == Len(containers[s.line])
           p == Len(containers[s.parts])
           n == f.next - 1
<1>1. /\ f.src \in DOMAIN heap /\ f.dst \in DOMAIN heap
      /\ heap'[f.src] = s /\ heap'[f.dst] = c
      /\ n \in Nat
  BY FrameType
<1>2. /\ s.defs \in Holders(f.src) /\ s.line \in Holders(f.src) /\ s.parts \in Holders(f.src)
      /\ c.defs \in Holders(f.dst) /\ c.line \in Holders(f.dst) /\ c.parts \in Holders(f.dst)
  BY DEF Holders
<1>3. /\ c.defs \in DOMAIN containers /\ c.line \in DOMAIN containers /\ c.parts \in DOMAIN containers
      /\ d \in Nat /\ l \in Nat /\ p \in Nat
  <2>1. DefsOf(f.src) \in Seq(DOMAIN heap) /\ LineOf(f.src) \in Seq(DOMAIN heap)
        /\ PartsOf(f.src) \in Seq(DOMAIN heap)
    BY <1>1, ShapeType
  <2>2. d \in Nat /\ l \in Nat /\ p \in Nat
    BY <2>1 DEF DefsOf, LineOf, PartsOf
  <2> QED
    BY <1>1, <2>2, ShapeType
<1>4. /\ Prefix(c.defs, s.defs, Part(n, 0, d), c.owner)
      /\ Prefix(c.line, s.line, Part(n, d, l), c.owner)
      /\ Prefix(c.parts, s.parts, Part(n, d + l, p), c.owner)
  BY DEF Copied
<1>5. /\ containers'[s.defs] = containers[s.defs]
      /\ containers'[s.line] = containers[s.line]
      /\ containers'[s.parts] = containers[s.parts]
      /\ containers'[c.defs] = containers[c.defs]
      /\ containers'[c.line] = containers[c.line]
      /\ containers'[c.parts] = containers[c.parts]
  BY <1>2
<1> HIDE DEF c, s, d, l, p, n
<1>6. Part(n, 0, d) \in Nat /\ Part(n, d, l) \in Nat /\ Part(n, d + l, p) \in Nat
  <2>1. \A k \in Nat : 0..k \subseteq Nat
    OBVIOUS
  <2>2. d + l \in Nat /\ 0 \in Nat
    BY <1>3
  <2>3. Part(n, 0, d) \in 0..d /\ Part(n, d, l) \in 0..l /\ Part(n, d + l, p) \in 0..p
    BY <1>1, <1>3, <2>2, PartType
  <2> QED
    BY <1>3, <2>1, <2>3
<1>7. /\ Len(containers'[c.defs]) = Part(n, 0, d)
      /\ \A k \in 1..Part(n, 0, d) : /\ heap'[containers'[c.defs][k]].id = heap'[containers'[s.defs][k]].id
                                     /\ containers'[s.defs][k] \in DOMAIN heap'
                                     /\ heap'[containers'[c.defs][k]].owner = c.owner
  BY <1>3, <1>4, <1>5, <1>6, PrefixKept, SMTT(60)
<1>8. /\ Len(containers'[c.line]) = Part(n, d, l)
      /\ \A k \in 1..Part(n, d, l) : /\ heap'[containers'[c.line][k]].id = heap'[containers'[s.line][k]].id
                                     /\ containers'[s.line][k] \in DOMAIN heap'
                                     /\ heap'[containers'[c.line][k]].owner = c.owner
  BY <1>3, <1>4, <1>5, <1>6, PrefixKept, SMTT(60)
<1>9. /\ Len(containers'[c.parts]) = Part(n, d + l, p)
      /\ \A k \in 1..Part(n, d + l, p) :
            /\ heap'[containers'[c.parts][k]].id = heap'[containers'[s.parts][k]].id
            /\ containers'[s.parts][k] \in DOMAIN heap'
            /\ heap'[containers'[c.parts][k]].owner = c.owner
  BY <1>3, <1>4, <1>5, <1>6, PrefixKept, SMTT(60)
<1>10. /\ d = Len(containers'[s.defs]) /\ l = Len(containers'[s.line]) /\ p = Len(containers'[s.parts])
       /\ n = f.next - 1
  BY <1>5 DEF d, l, p, n
<1>11. /\ Part(n, 0, d) = Part(f.next - 1, 0, Len(containers'[heap'[f.src].defs]))
       /\ Part(n, d, l) = Part(f.next - 1, Len(containers'[heap'[f.src].defs]),
                               Len(containers'[heap'[f.src].line]))
       /\ Part(n, d + l, p) = Part(f.next - 1, Len(containers'[heap'[f.src].defs])
                                               + Len(containers'[heap'[f.src].line]),
                                   Len(containers'[heap'[f.src].parts]))
  BY <1>1, <1>10
<1>12. /\ heap'[f.dst].defs = c.defs /\ heap'[f.dst].line = c.line /\ heap'[f.dst].parts = c.parts
       /\ heap'[f.src].defs = s.defs /\ heap'[f.src].line = s.line /\ heap'[f.src].parts = s.parts
       /\ heap'[f.dst].owner = c.owner
  BY <1>1
<1>13. PICK pd, pl, pp : pd = Part(n, 0, d) /\ pl = Part(n, d, l) /\ pp = Part(n, d + l, p)
  OBVIOUS
<1>14. Prefix(heap[f.dst].defs, heap[f.src].defs, pd, heap[f.dst].owner)'
  BY <1>7, <1>12, <1>13 DEF Prefix
<1>15. Prefix(heap[f.dst].line, heap[f.src].line, pl, heap[f.dst].owner)'
  BY <1>8, <1>12, <1>13 DEF Prefix
<1>16. Prefix(heap[f.dst].parts, heap[f.src].parts, pp, heap[f.dst].owner)'
  BY <1>9, <1>12, <1>13 DEF Prefix
<1> QED
  BY <1>11, <1>13, <1>14, <1>15, <1>16 DEF Copied

LEMMA ImageKept ==
    ASSUME TypeOK, NEW c \in DOMAIN heap, heap[c].source \in DOMAIN heap,
           DOMAIN heap \subseteq DOMAIN heap', \A t \in DOMAIN heap : heap'[t] = heap[t],
           \A h \in Holders(c) \cup Holders(heap[c].source) : containers'[h] = containers[h],
           Image(c)
    PROVE  Image(c)'
<1> DEFINE s == heap[c].source
<1>1. /\ heap'[c] = heap[c] /\ heap'[s] = heap[s]
      /\ containers'[heap[c].defs] = containers[heap[c].defs]
      /\ containers'[heap[c].line] = containers[heap[c].line]
      /\ containers'[heap[c].parts] = containers[heap[c].parts]
      /\ containers'[heap[s].defs] = containers[heap[s].defs]
      /\ containers'[heap[s].line] = containers[heap[s].line]
      /\ containers'[heap[s].parts] = containers[heap[s].parts]
  BY DEF Holders
<1>2. /\ \A k \in DOMAIN containers[heap[c].defs] : containers[heap[c].defs][k] \in DOMAIN heap
      /\ \A k \in DOMAIN containers[heap[c].line] : containers[heap[c].line][k] \in DOMAIN heap
      /\ \A k \in DOMAIN containers[heap[c].parts] : containers[heap[c].parts][k] \in DOMAIN heap
  BY ShapeType DEF DefsOf, LineOf, PartsOf
<1>3. ASSUME NEW mine, NEW theirs,
             containers'[mine] = containers[mine], containers'[theirs] = containers[theirs],
             \A k \in DOMAIN containers[mine] : containers[mine][k] \in DOMAIN heap,
             Alike(c, mine, theirs)
      PROVE  Alike(c, mine, theirs)'
  <2>1. containers'[mine] = containers[mine] /\ containers'[theirs] = containers[theirs]
    BY <1>3
  <2>2. \A k \in DOMAIN containers[mine] : heap'[containers[mine][k]] = heap[containers[mine][k]]
    BY <1>3
  <2> QED
    BY <1>1, <1>3, <2>1, <2>2 DEF Alike
<1>4. /\ Alike(c, heap[c].defs, heap[s].defs)'
      /\ Alike(c, heap[c].line, heap[s].line)'
      /\ Alike(c, heap[c].parts, heap[s].parts)'
  BY <1>1, <1>2, <1>3 DEF Image
<1> QED
  BY <1>4 DEF Image

-----------------------------------------------------------------------------
(* A copy is made *)

LEMMA Widened ==
    ASSUME NEW S, NEW T, S \subseteq T, NEW q \in Seq(S)
    PROVE  q \in Seq(T)
OBVIOUS

\* What Enter leaves in heap and containers.
LEMMA EnterFacts ==
    ASSUME TypeOK, NEW m, NEW n \in Nat, NEW s \in DOMAIN heap, Enter(m, n, s)
    PROVE  /\ heap' \in Seq(Shape)
           /\ Len(heap) \in Nat /\ Len(heap) + 1 \notin DOMAIN heap
           /\ DOMAIN heap' = DOMAIN heap \cup {Len(heap) + 1}
           /\ \A t \in DOMAIN heap : heap'[t] = heap[t]
           /\ heap'[Len(heap) + 1] = [ id     |-> heap[s].id,
                                       defs   |-> Len(containers) + 1,
                                       line   |-> Len(containers) + 2,
                                       parts  |-> Len(containers) + 3,
                                       head   |-> heap[s].head,
                                       source |-> s,
                                       owner  |-> n ]
           /\ containers' \in Seq(Seq(DOMAIN heap'))
           /\ Len(containers) \in Nat
           /\ DOMAIN containers = 1..Len(containers)
           /\ DOMAIN containers' = 1..(Len(containers) + 3)
           /\ \A c \in DOMAIN containers : containers'[c] = containers[c]
           /\ containers'[Len(containers) + 1] = << >>
           /\ containers'[Len(containers) + 2] = << >>
           /\ containers'[Len(containers) + 3] = << >>
<1> DEFINE c1 == Len(containers) + 1
           c2 == Len(containers) + 2
           c3 == Len(containers) + 3
           r == [ id |-> heap[s].id, defs |-> c1, line |-> c2, parts |-> c3,
                  head |-> heap[s].head, source |-> s, owner |-> n ]
           e == << << >>, << >>, << >> >>
<1>1. heap' = Append(heap, r) /\ containers' = containers \o e
  BY DEF Enter
<1>2. /\ heap \in Seq(Shape) /\ heap[s] \in Shape
      /\ Len(heap) \in Nat /\ DOMAIN heap = 1..Len(heap)
      /\ containers \in Seq(Seq(DOMAIN heap))
      /\ Len(containers) \in Nat /\ DOMAIN containers = 1..Len(containers)
  <2>1. heap \in Seq(Shape) /\ containers \in Seq(Seq(DOMAIN heap))
    BY DEF TypeOK
  <2>2. heap[s] \in Shape
    BY ShapeType
  <2> HIDE DEF c1, c2, c3, r, e
  <2> QED
    BY <2>1, <2>2
<1>3. r \in Shape
  <2>1. c1 \in Nat /\ c2 \in Nat /\ c3 \in Nat /\ s \in Nat
    BY <1>2
  <2>2. heap[s].id \in IDs /\ heap[s].head \in Nat
    BY <1>2 DEF Shape
  <2> HIDE DEF c1, c2, c3
  <2> QED
    BY <2>1, <2>2 DEF Shape
<1> HIDE DEF r
<1>4. /\ heap' \in Seq(Shape)
      /\ DOMAIN heap' = 1..(Len(heap) + 1)
      /\ \A t \in DOMAIN heap : heap'[t] = heap[t]
      /\ heap'[Len(heap) + 1] = r
  BY <1>1, <1>2, <1>3
<1>5. DOMAIN heap' = DOMAIN heap \cup {Len(heap) + 1} /\ Len(heap) + 1 \notin DOMAIN heap
  BY <1>2, <1>4
<1>6. containers \in Seq(Seq(DOMAIN heap'))
  <2>1. Seq(DOMAIN heap) \subseteq Seq(DOMAIN heap')
    BY <1>5, Widened
  <2> QED
    BY <1>2, <2>1, Widened
<1>7. e \in Seq(Seq(DOMAIN heap')) /\ Len(e) = 3 /\ e[1] = << >> /\ e[2] = << >> /\ e[3] = << >>
  OBVIOUS
<1> HIDE DEF e
<1>8. /\ containers' \in Seq(Seq(DOMAIN heap'))
      /\ Len(containers') = Len(containers) + 3
      /\ \A c \in 1..Len(containers) : containers'[c] = containers[c]
      /\ \A c \in 1..3 : containers'[Len(containers) + c] = e[c]
  <2> DEFINE S == Seq(DOMAIN heap')
  <2>1. containers \in Seq(S) /\ e \in Seq(S)
    BY <1>6, <1>7
  <2> HIDE DEF S
  <2>2. /\ containers \o e \in Seq(S)
        /\ Len(containers \o e) = Len(containers) + Len(e)
        /\ \A c \in 1..Len(containers) : (containers \o e)[c] = containers[c]
        /\ \A c \in 1..Len(e) : (containers \o e)[Len(containers) + c] = e[c]
    BY <2>1, Appended
  <2> QED
    BY <1>1, <1>7, <2>2 DEF S
<1>9. DOMAIN containers' = 1..(Len(containers) + 3)
  BY <1>8
<1>10. /\ containers'[Len(containers) + 1] = << >>
       /\ containers'[Len(containers) + 2] = << >>
       /\ containers'[Len(containers) + 3] = << >>
  BY <1>7, <1>8
<1>11. r = [ id |-> heap[s].id, defs |-> Len(containers) + 1, line |-> Len(containers) + 2,
             parts |-> Len(containers) + 3, head |-> heap[s].head, source |-> s, owner |-> n ]
  BY DEF r
<1> QED
  BY <1>2, <1>4, <1>5, <1>8, <1>9, <1>10, <1>11

\* When clone makes a copy of s for call n.
MayEnter(m, n, s) ==
    /\ m \in [IDs -> {0} \cup DOMAIN heap] /\ n \in Nat /\ s \in DOMAIN heap
    /\ Maps(m, n)
    /\ m[heap[s].id] = 0
    /\ heap[s].owner # n
    /\ n # 0 => Maps(shared, 0)
    /\ \A f \in Frames : f.dst # s
    /\ frames # << >> => call = n /\ Top.next <= Len(Refs(Top.src)) /\ Pending = s

LEMMA EnterInv ==
    ASSUME IInv, NEW m, NEW n, NEW s, MayEnter(m, n, s), Enter(m, n, s),
           call' = n, calls' \in Nat, calls <= calls', n <= calls',
           shared' = shared, copies' = copies
    PROVE  IInv'
<1>1. TypeOK /\ m \in [IDs -> {0} \cup DOMAIN heap] /\ n \in Nat /\ s \in DOMAIN heap
  BY DEF IInv, MayEnter
<1>2. PICK N, C : N = Len(heap) + 1 /\ C = Len(containers)
  OBVIOUS
<1>3. PICK new : new = [src |-> s, dst |-> N, next |-> 1]
  OBVIOUS
<1>4. /\ heap' \in Seq(Shape)
      /\ N \in Nat /\ N \notin DOMAIN heap
      /\ DOMAIN heap' = DOMAIN heap \cup {N}
      /\ \A t \in DOMAIN heap : heap'[t] = heap[t]
  <2>1. Len(heap) + 1 \in Nat
    BY <1>1, EnterFacts
  <2> QED
    BY <1>1, <1>2, <2>1, EnterFacts
<1>5. /\ heap'[N].id = heap[s].id /\ heap'[N].head = heap[s].head
      /\ heap'[N].defs = C + 1 /\ heap'[N].line = C + 2 /\ heap'[N].parts = C + 3
      /\ heap'[N].source = s /\ heap'[N].owner = n
  <2>1. heap'[N] = [ id |-> heap[s].id, defs |-> C + 1, line |-> C + 2, parts |-> C + 3,
                     head |-> heap[s].head, source |-> s, owner |-> n ]
    BY <1>1, <1>2, EnterFacts
  <2> DEFINE c1 == C + 1
             c2 == C + 2
             c3 == C + 3
  <2>2. heap'[N] = [ id |-> heap[s].id, defs |-> c1, line |-> c2, parts |-> c3,
                     head |-> heap[s].head, source |-> s, owner |-> n ]
    BY <2>1
  <2> HIDE DEF c1, c2, c3
  <2>3. /\ heap'[N].id = heap[s].id /\ heap'[N].head = heap[s].head
        /\ heap'[N].defs = c1 /\ heap'[N].line = c2 /\ heap'[N].parts = c3
        /\ heap'[N].source = s /\ heap'[N].owner = n
    BY <2>2
  <2> QED
    BY <2>3 DEF c1, c2, c3
<1>6. /\ containers' \in Seq(Seq(DOMAIN heap'))
      /\ C \in Nat /\ DOMAIN containers = 1..C /\ DOMAIN containers' = 1..(C + 3)
      /\ \A c \in DOMAIN containers : containers'[c] = containers[c]
      /\ containers'[C + 1] = << >> /\ containers'[C + 2] = << >> /\ containers'[C + 3] = << >>
  BY <1>1, <1>2, EnterFacts
<1>7. /\ frames \in Seq(Frame) /\ Len(frames) \in Nat /\ DOMAIN frames = 1..Len(frames)
      /\ frames' = Append(frames, new)
      /\ map' = [m EXCEPT ![heap[s].id] = N]
  BY <1>1, <1>2, <1>3 DEF TypeOK, Enter
<1>8. new \in Frame /\ new.src = s /\ new.dst = N /\ new.next = 1
  <2>1. s \in Nat
    BY <1>1 DEF TypeOK
  <2> QED
    BY <1>4, <1>3, <2>1 DEF Frame
<1>9. /\ frames' \in Seq(Frame) /\ Len(frames') = Len(frames) + 1
      /\ DOMAIN frames' = 1..(Len(frames) + 1)
      /\ \A k \in DOMAIN frames : frames'[k] = frames[k]
      /\ frames'[Len(frames) + 1] = new
  BY <1>7, <1>8
<1>10. Frames' = Frames \cup {new}
  BY <1>7, <1>9 DEF Frames
<1>11. \A f \in Frames : /\ f \in Frame /\ f.src \in DOMAIN heap /\ f.dst \in DOMAIN heap
                        /\ f.next \in Nat /\ f.next > 0
  BY <1>1, FrameType
<1>12. \A t \in DOMAIN heap :
          /\ heap[t].id \in IDs
          /\ heap[t].defs \in 1..C /\ heap[t].line \in 1..C /\ heap[t].parts \in 1..C
          /\ heap[t].head \in {0} \cup DOMAIN heap
          /\ heap[t].owner \in Nat => heap[t].source \in DOMAIN heap
  BY <1>1, <1>6, ShapeType, ConstantsAssumption DEF TypeOK
<1>13. \A t \in DOMAIN heap :
          /\ Holders(t)' = Holders(t) /\ Holders(t) \subseteq DOMAIN containers
          /\ \A c \in Holders(t) : containers'[c] = containers[c]
          /\ DefsOf(t)' = DefsOf(t) /\ LineOf(t)' = LineOf(t) /\ PartsOf(t)' = PartsOf(t)
          /\ Refs(t)' = Refs(t) /\ Deep(t)' = Deep(t)
  BY <1>4, <1>6, <1>12 DEF Holders, DefsOf, LineOf, PartsOf, Refs, Deep
<1>14. /\ Holders(N)' = {C + 1, C + 2, C + 3}
       /\ \A t \in DOMAIN heap : Holders(t)' \cap Holders(N)' = {}
  <2>1. Holders(N)' = {C + 1, C + 2, C + 3}
    BY <1>5 DEF Holders
  <2> QED
    <3>1. \A t \in DOMAIN heap : Holders(t)' \subseteq 1..C
      BY <1>6, <1>13
    <3>2. C + 1 \notin 1..C /\ C + 2 \notin 1..C /\ C + 3 \notin 1..C
      BY <1>6
    <3> QED
      BY <2>1, <3>1, <3>2
<1>15. TypeOK'
  <2>1. \A t \in DOMAIN heap' :
          /\ {heap'[t].defs, heap'[t].line, heap'[t].parts} \subseteq DOMAIN containers'
          /\ heap'[t].head \in {0} \cup DOMAIN heap'
          /\ heap'[t].owner = Original \/ heap'[t].source \in DOMAIN heap'
    <3> TAKE t \in DOMAIN heap'
    <3>1. CASE t = N
      <4>1. {C + 1, C + 2, C + 3} \subseteq 1..(C + 3)
        BY <1>6, SMTT(60)
      <4> QED
        BY <1>1, <1>4, <1>5, <1>6, <1>12, <3>1, <4>1
    <3>2. CASE t \in DOMAIN heap
      <4>1. heap[t].owner = Original \/ heap[t].source \in DOMAIN heap
        BY <1>1, <3>2 DEF TypeOK
      <4>2. 1..C \subseteq 1..(C + 3)
        BY <1>6
      <4> QED
        BY <1>4, <1>6, <1>12, <3>2, <4>1, <4>2
    <3> QED
      BY <1>4, <3>1, <3>2
  <2>2. map' \in [IDs -> {0} \cup DOMAIN heap'] /\ shared' \in [IDs -> {0} \cup DOMAIN heap']
    BY <1>1, <1>4, <1>7, <1>12 DEF TypeOK
  <2>3. \A f \in Frames' : {f.src, f.dst} \subseteq DOMAIN heap' /\ f.next > 0
    BY <1>1, <1>4, <1>8, <1>10, <1>11
  <2>4. copies' \in Seq([source : DOMAIN heap', copy : DOMAIN heap'])
    <3>1. copies \in Seq([source : DOMAIN heap, copy : DOMAIN heap])
      BY <1>1 DEF TypeOK
    <3>2. [source : DOMAIN heap, copy : DOMAIN heap] \subseteq [source : DOMAIN heap', copy : DOMAIN heap']
      BY <1>4
    <3> QED
      BY <3>1, <3>2, Widened
  <2>5. call' \in Nat /\ calls' \in Nat
    BY <1>1
  <2> QED
    BY <1>4, <1>6, <1>9, <2>1, <2>2, <2>3, <2>4, <2>5 DEF TypeOK
<1>16. Private'
  <2> SUFFICES ASSUME NEW f \in Frames'
               PROVE  /\ heap'[f.dst].defs # heap'[f.dst].line
                      /\ heap'[f.dst].defs # heap'[f.dst].parts
                      /\ heap'[f.dst].line # heap'[f.dst].parts
                      /\ \A t \in DOMAIN heap' \ {f.dst} : Holders(t)' \cap Holders(f.dst)' = {}
    BY DEF Private
  <2>1. CASE f = new
    <3>1. C + 1 # C + 2 /\ C + 1 # C + 3 /\ C + 2 # C + 3
      BY <1>6
    <3> QED
      BY <1>4, <1>5, <1>8, <1>14, <2>1, <3>1
  <2>2. CASE f \in Frames
    <3>1. f.dst \in DOMAIN heap /\ f.dst # N
      BY <1>4, <1>11, <2>2
    <3>2. /\ heap[f.dst].defs # heap[f.dst].line
          /\ heap[f.dst].defs # heap[f.dst].parts
          /\ heap[f.dst].line # heap[f.dst].parts
          /\ \A t \in DOMAIN heap \ {f.dst} : Holders(t) \cap Holders(f.dst) = {}
      BY <2>2 DEF IInv, Private
    <3> QED
      BY <1>4, <1>13, <1>14, <3>1, <3>2
  <2> QED
    BY <1>10, <2>1, <2>2
<1>17. \A t \in DOMAIN heap' : t = N \/ (t \in DOMAIN heap /\ t # N)
  BY <1>4
<1>18. \A c : c \in Cloned' <=> c = N \/ c \in Cloned
  BY <1>1, <1>4, <1>5 DEF Cloned
<1>19. Owned'
  <2>1. call' <= calls'
    OBVIOUS
  <2>2. \A t \in DOMAIN heap' : heap'[t].owner \in Nat => heap'[t].owner <= calls'
    <3> SUFFICES ASSUME NEW t \in DOMAIN heap', heap'[t].owner \in Nat
                 PROVE  heap'[t].owner <= calls'
      OBVIOUS
    <3>1. CASE t \in DOMAIN heap
      <4>1. heap[t].owner <= calls /\ heap'[t].owner = heap[t].owner /\ calls \in Nat
        BY <1>1, <1>4, <3>1 DEF IInv, Owned, TypeOK
      <4> QED
        BY <4>1
    <3> QED
      BY <1>5, <1>17, <3>1
  <2>3. \A t \in DOMAIN heap' : Deep(t)' =>
          \A c \in Holders(t)' : \A k \in DOMAIN containers'[c] :
             heap'[containers'[c][k]].owner = heap'[t].owner
    <3> SUFFICES ASSUME NEW t \in DOMAIN heap', Deep(t)',
                        NEW c \in Holders(t)', NEW k \in DOMAIN containers'[c]
                 PROVE  heap'[containers'[c][k]].owner = heap'[t].owner
      OBVIOUS
    <3>1. t # N
      BY <1>6, <1>14, SMTT(60)
    <3>2. t \in DOMAIN heap /\ Deep(t) /\ c \in Holders(t) /\ containers'[c] = containers[c]
      BY <1>13, <1>17, <3>1
    <3>3. heap[containers[c][k]].owner = heap[t].owner
      BY <3>2 DEF IInv, Owned
    <3>4. containers[c][k] \in DOMAIN heap
      BY <1>1, <1>13, <3>2 DEF TypeOK
    <3> QED
      BY <1>4, <3>2, <3>3, <3>4
  <2> QED
    BY <2>1, <2>2, <2>3 DEF Owned
<1>20. Unique'
  <2>1. \A t \in DOMAIN heap : ~(heap[t].owner = n /\ heap[t].id = heap[s].id)
    <3> SUFFICES ASSUME NEW t \in DOMAIN heap, heap[t].owner = n, heap[t].id = heap[s].id
                 PROVE  FALSE
      OBVIOUS
    <3>1. m[heap[s].id] = t
      BY DEF MayEnter, Maps
    <3>2. t # 0
      BY <1>1 DEF TypeOK
    <3> QED
      BY <3>1, <3>2 DEF MayEnter
  <2> SUFFICES ASSUME NEW t \in DOMAIN heap', NEW u \in DOMAIN heap',
                      heap'[t].owner \in Nat, heap'[t].owner = heap'[u].owner, heap'[t].id = heap'[u].id
               PROVE  t = u
    BY DEF Unique, Cloned
  <2>2. CASE t \in DOMAIN heap /\ u \in DOMAIN heap
    BY <1>4, <2>2 DEF IInv, Unique, Cloned
  <2> QED
    BY <1>4, <1>5, <1>17, <2>1, <2>2
<1>21. Sourced'
  <2> SUFFICES ASSUME NEW c \in Cloned'
               PROVE  /\ heap'[c].id = heap'[heap'[c].source].id
                      /\ heap'[c].head = heap'[heap'[c].source].head
                      /\ \A f \in Frames' : heap'[c].source # f.dst
    BY DEF Sourced
  <2>1. \A d \in Cloned : d \in DOMAIN heap /\ heap'[d] = heap[d] /\ heap[d].source \in DOMAIN heap
    BY <1>4, <1>12 DEF Cloned
  <2>2. heap'[c].source \in DOMAIN heap
    BY <1>1, <1>5, <1>18, <2>1
  <2>3. \A f \in Frames' : heap'[c].source # f.dst
    <3> SUFFICES ASSUME NEW f \in Frames' PROVE heap'[c].source # f.dst
      OBVIOUS
    <3>1. CASE f = new
      BY <1>4, <1>8, <2>2, <3>1
    <3>2. CASE f \in Frames
      BY <1>5, <1>18, <2>1, <3>2 DEF IInv, Sourced, MayEnter
    <3> QED
      BY <1>10, <3>1, <3>2
  <2>4. CASE c = N
    BY <1>1, <1>4, <1>5, <2>3, <2>4
  <2>5. CASE c \in Cloned
    <3>1. heap[c].id = heap[heap[c].source].id /\ heap[c].head = heap[heap[c].source].head
      BY <2>5 DEF IInv, Sourced
    <3> QED
      BY <1>4, <2>1, <2>3, <2>5, <3>1
  <2> QED
    BY <1>18, <2>4, <2>5
<1>22. MapsOK'
  <2>1. Maps(map, call)'
    <3>1. \A i \in IDs : map'[i] # 0 => heap'[map'[i]].owner = n /\ heap'[map'[i]].id = i
      <4> SUFFICES ASSUME NEW i \in IDs, map'[i] # 0
                   PROVE  heap'[map'[i]].owner = n /\ heap'[map'[i]].id = i
        OBVIOUS
      <4>1. CASE i = heap[s].id
        BY <1>1, <1>5, <1>7, <4>1
      <4>2. CASE i # heap[s].id
        <5>1. map'[i] = m[i] /\ m[i] \in DOMAIN heap
          BY <1>1, <1>7, <4>2
        <5> QED
          BY <1>4, <5>1 DEF MayEnter, Maps
      <4> QED
        BY <4>1, <4>2
    <3>2. \A c \in DOMAIN heap' : heap'[c].owner = n => map'[heap'[c].id] = c
      <4> SUFFICES ASSUME NEW c \in DOMAIN heap', heap'[c].owner = n
                   PROVE  map'[heap'[c].id] = c
        OBVIOUS
      <4>1. CASE c = N
        BY <1>1, <1>5, <1>7, <1>12, <4>1
      <4>2. CASE c \in DOMAIN heap
        <5>1. m[heap[c].id] = c /\ heap'[c] = heap[c] /\ c # 0
          <6>1. c # 0
            BY <1>1, <4>2 DEF TypeOK
          <6> QED
            BY <1>4, <4>2, <6>1 DEF MayEnter, Maps
        <5>2. heap[c].id # heap[s].id
          BY <5>1 DEF MayEnter
        <5> QED
          BY <1>1, <1>7, <1>12, <4>2, <5>1, <5>2
      <4> QED
        BY <1>4, <4>1, <4>2
    <3> QED
      BY <3>1, <3>2 DEF Maps
  <2>2. n # 0 => Maps(shared, 0)'
    <3> SUFFICES ASSUME n # 0 PROVE Maps(shared, 0)'
      OBVIOUS
    <3>1. Maps(shared, 0) /\ shared \in [IDs -> {0} \cup DOMAIN heap]
      BY <1>1 DEF MayEnter, TypeOK
    <3>2. \A i \in IDs : shared'[i] # 0 => heap'[shared'[i]].owner = 0 /\ heap'[shared'[i]].id = i
      BY <1>4, <3>1 DEF Maps
    <3>3. \A c \in DOMAIN heap' : heap'[c].owner = 0 => shared'[heap'[c].id] = c
      BY <1>4, <1>5, <3>1 DEF Maps
    <3> QED
      BY <3>2, <3>3 DEF Maps
  <2>3. ~Idle'
    BY <1>7, <1>9 DEF Idle
  <2> QED
    BY <2>1, <2>2, <2>3 DEF MapsOK
<1>23. Nested'
  <2> SUFFICES ASSUME NEW k \in DOMAIN frames', NEW f \in Frames', f = frames'[k]
               PROVE  /\ heap'[f.dst].owner = n
                      /\ heap'[f.dst].source = f.src
                      /\ heap'[f.src].owner # n
                      /\ f.next <= Len(Refs(f.src)') + 1
                      /\ k # Len(frames') =>
                            /\ f.next <= Len(Refs(f.src)')
                            /\ frames'[k + 1].src = Refs(f.src)'[f.next]
                      /\ \A j \in DOMAIN frames' : frames'[j].dst = f.dst => j = k
    BY DEF Nested
  <2>1. \A j \in DOMAIN frames : frames[j] \in Frames
    BY DEF Frames
  <2>2. CASE k = Len(frames) + 1
    <3>1. f = new /\ heap'[s] = heap[s] /\ Len(Refs(s)) \in Nat /\ Refs(s)' = Refs(s)
      BY <1>1, <1>4, <1>9, <1>13, <2>2, RefsType
    <3>2. \A j \in DOMAIN frames' : frames'[j].dst = f.dst => j = k
      <4> SUFFICES ASSUME NEW j \in DOMAIN frames', frames'[j].dst = N, j # k
                   PROVE  FALSE
        BY <1>8, <3>1
      <4>1. j \in DOMAIN frames
        BY <1>7, <1>9, <2>2
      <4> QED
        BY <1>4, <1>9, <1>11, <2>1, <4>1
    <3>3. f.next <= Len(Refs(f.src)') + 1
      BY <1>8, <3>1
    <3>4. heap'[f.dst].owner = n /\ heap'[f.dst].source = f.src /\ heap'[f.src].owner # n
      BY <1>5, <1>8, <3>1 DEF MayEnter
    <3> QED
      BY <1>9, <2>2, <3>2, <3>3, <3>4
  <2>3. CASE k \in DOMAIN frames
    <3>1. f \in Frames /\ f = frames[k] /\ f.src \in DOMAIN heap /\ f.dst \in DOMAIN heap /\ call = n
      <4>1. frames # << >>
        BY <2>3
      <4> QED
        BY <1>9, <1>11, <2>1, <2>3, <4>1 DEF MayEnter
    <3>2. /\ heap[f.dst].owner = call
          /\ heap[f.dst].source = f.src
          /\ heap[f.src].owner # call
          /\ f.next <= Len(Refs(f.src)) + 1
          /\ k # Len(frames) =>
                /\ f.next <= Len(Refs(f.src))
                /\ frames[k + 1].src = Refs(f.src)[f.next]
          /\ \A j \in DOMAIN frames : frames[j].dst = f.dst => j = k
      BY <2>3, <3>1 DEF IInv, Nested
    <3>3. \A j \in DOMAIN frames' : frames'[j].dst = f.dst => j = k
      <4> SUFFICES ASSUME NEW j \in DOMAIN frames', frames'[j].dst = f.dst
                   PROVE  j = k
        OBVIOUS
      <4>1. CASE j = Len(frames) + 1
        BY <1>4, <1>8, <1>9, <3>1, <4>1
      <4>2. CASE j \in DOMAIN frames
        BY <1>9, <3>2, <4>2
      <4> QED
        BY <1>7, <1>9, <4>1, <4>2
    <3>4. /\ f.next <= Len(Refs(f.src))
          /\ frames'[k + 1].src = Refs(f.src)[f.next]
      <4>1. CASE k = Len(frames)
        <5>1. frames # << >> /\ f = Top
          BY <1>7, <2>3, <3>1, <4>1 DEF Top
        <5> QED
          BY <1>8, <1>9, <4>1, <5>1 DEF MayEnter, Pending
      <4>2. CASE k # Len(frames)
        <5>1. k + 1 \in DOMAIN frames
          BY <1>7, <2>3, <4>2
        <5> QED
          BY <1>9, <3>2, <4>2, <5>1
      <4> QED
        BY <4>1, <4>2
    <3>5. Refs(f.src)' = Refs(f.src) /\ heap'[f.dst] = heap[f.dst] /\ heap'[f.src] = heap[f.src]
      BY <1>4, <1>13, <3>1
    <3> QED
      BY <3>1, <3>2, <3>3, <3>4, <3>5
  <2> QED
    BY <1>7, <1>9, <2>2, <2>3
<1>24. Progress'
  <2> SUFFICES ASSUME NEW f \in Frames' PROVE Copied(f)'
    BY DEF Progress
  <2>1. CASE f \in Frames
    <3>1. Copied(f) /\ f.src \in DOMAIN heap /\ f.dst \in DOMAIN heap
      BY <1>11, <2>1 DEF IInv, Progress
    <3>2. \A c \in Holders(f.src) \cup Holders(f.dst) : containers'[c] = containers[c]
      BY <1>13, <3>1
    <3> QED
      BY <1>1, <1>4, <2>1, <3>1, <3>2, CopiedKept
  <2>2. CASE f = new
    <3>1. heap'[f.dst] = heap'[N] /\ heap'[f.src] = heap[s] /\ f.next - 1 = 0
      BY <1>1, <1>4, <1>8, <2>2
    <3>2. \A k, l \in Nat : Part(0, k, l) = 0
      BY DEF Part
    <3>3. Len(DefsOf(s)) \in Nat /\ Len(LineOf(s)) \in Nat /\ Len(PartsOf(s)) \in Nat
      BY <1>1, ShapeType
    <3>4. /\ containers'[heap[s].defs] = DefsOf(s)
          /\ containers'[heap[s].line] = LineOf(s)
          /\ containers'[heap[s].parts] = PartsOf(s)
      BY <1>1, <1>13 DEF Holders, DefsOf, LineOf, PartsOf
    <3>5. /\ Part(0, 0, Len(DefsOf(s))) = 0
          /\ Part(0, Len(DefsOf(s)), Len(LineOf(s))) = 0
          /\ Part(0, Len(DefsOf(s)) + Len(LineOf(s)), Len(PartsOf(s))) = 0
      BY <3>2, <3>3
    <3>6. /\ Len(containers'[C + 1]) = 0 /\ Len(containers'[C + 2]) = 0
          /\ Len(containers'[C + 3]) = 0
          /\ 1..0 = {}
      BY <1>6
    <3>7. /\ Part(f.next - 1, 0, Len(containers'[heap'[f.src].defs])) = 0
          /\ Part(f.next - 1, Len(containers'[heap'[f.src].defs]), Len(containers'[heap'[f.src].line])) = 0
          /\ Part(f.next - 1, Len(containers'[heap'[f.src].defs]) + Len(containers'[heap'[f.src].line]),
                  Len(containers'[heap'[f.src].parts])) = 0
      BY <3>1, <3>4, <3>5
    <3>8. /\ heap'[f.dst].defs = C + 1 /\ heap'[f.dst].line = C + 2 /\ heap'[f.dst].parts = C + 3
      BY <1>5, <3>1
    <3> QED
      BY <3>6, <3>7, <3>8 DEF Copied, Part, Prefix
  <2> QED
    BY <1>10, <2>1, <2>2
<1>25. WholeIsImage'
  <2> SUFFICES ASSUME NEW c \in Whole' PROVE Image(c)'
    BY DEF WholeIsImage
  <2>1. c # N
    BY <1>8, <1>10 DEF Whole
  <2>2. c \in Whole /\ c \in Cloned
    BY <1>10, <1>18, <2>1 DEF Whole
  <2>3. Image(c) /\ c \in DOMAIN heap /\ heap[c].source \in DOMAIN heap
    BY <1>12, <2>2 DEF IInv, WholeIsImage, Cloned
  <2>4. \A h \in Holders(c) \cup Holders(heap[c].source) : containers'[h] = containers[h]
    BY <1>13, <2>3
  <2> QED
    BY <1>1, <1>4, <2>3, <2>4, ImageKept
<1> QED
  BY <1>15, <1>16, <1>19, <1>20, <1>21, <1>22, <1>23, <1>24, <1>25 DEF IInv

-----------------------------------------------------------------------------
(* A copy is put where it belongs *)

\* A frame that is done has made the image of its source.
LEMMA FinishedImage ==
    ASSUME TypeOK, NEW f \in Frames, Copied(f), heap[f.dst].source = f.src,
           f.next = Len(Refs(f.src)) + 1
    PROVE  Image(f.dst)
<1> DEFINE d == Len(DefsOf(f.src))
           l == Len(LineOf(f.src))
           p == Len(PartsOf(f.src))
<1>1. f.src \in DOMAIN heap /\ f.dst \in DOMAIN heap
  BY FrameType
<1>2. /\ d \in Nat /\ DOMAIN DefsOf(f.src) = 1..d
      /\ l \in Nat /\ DOMAIN LineOf(f.src) = 1..l
      /\ p \in Nat /\ DOMAIN PartsOf(f.src) = 1..p
  <2>1. DefsOf(f.src) \in Seq(DOMAIN heap) /\ LineOf(f.src) \in Seq(DOMAIN heap)
        /\ PartsOf(f.src) \in Seq(DOMAIN heap)
    BY <1>1, ShapeType
  <2> QED
    BY <2>1
<1>3. f.next - 1 = d + l + p
  <2>1. Len(Refs(f.src)) = d + l + p
    BY <1>1, RefsType
  <2> QED
    BY <1>2, <2>1
<1>4. /\ Part(f.next - 1, 0, d) = d
      /\ Part(f.next - 1, d, l) = l
      /\ Part(f.next - 1, d + l, p) = p
  <2>1. d \in Nat /\ l \in Nat /\ p \in Nat
    BY <1>2
  <2> HIDE DEF d, l, p
  <2>2. Part(d + l + p, 0, d) = d
    BY <2>1 DEF Part
  <2>3. Part(d + l + p, d, l) = l
    BY <2>1 DEF Part
  <2>4. Part(d + l + p, d + l, p) = p
    BY <2>1 DEF Part
  <2> QED
    BY <1>3, <2>2, <2>3, <2>4
<1>5. /\ Prefix(heap[f.dst].defs, heap[f.src].defs, d, heap[f.dst].owner)
      /\ Prefix(heap[f.dst].line, heap[f.src].line, l, heap[f.dst].owner)
      /\ Prefix(heap[f.dst].parts, heap[f.src].parts, p, heap[f.dst].owner)
  BY <1>4 DEF Copied, DefsOf, LineOf, PartsOf
<1>6. /\ DOMAIN DefsOf(f.dst) = 1..Len(DefsOf(f.dst))
      /\ DOMAIN LineOf(f.dst) = 1..Len(LineOf(f.dst))
      /\ DOMAIN PartsOf(f.dst) = 1..Len(PartsOf(f.dst))
  BY <1>1, ShapeType
<1>7. Alike(f.dst, heap[f.dst].defs, heap[f.src].defs)
  BY <1>2, <1>5, <1>6 DEF Alike, Prefix, DefsOf
<1>8. Alike(f.dst, heap[f.dst].line, heap[f.src].line)
  BY <1>2, <1>5, <1>6 DEF Alike, Prefix, LineOf
<1>9. Alike(f.dst, heap[f.dst].parts, heap[f.src].parts)
  BY <1>2, <1>5, <1>6 DEF Alike, Prefix, PartsOf
<1> QED
  BY <1>7, <1>8, <1>9 DEF Image

LEMMA PrefixAppended ==
    ASSUME TypeOK, NEW mine \in DOMAIN containers, NEW theirs, NEW o, NEW d \in DOMAIN heap,
           containers'[mine] = Append(containers[mine], d),
           containers'[theirs] = containers[theirs],
           Prefix(mine, theirs, Len(containers[mine]), o),
           heap[d].id = heap[containers[theirs][Len(containers'[mine])]].id,
           containers[theirs][Len(containers'[mine])] \in DOMAIN heap, heap[d].owner = o
    PROVE  \A k \in 1..Len(containers'[mine]) :
              /\ heap[containers'[mine][k]].id = heap[containers'[theirs][k]].id
              /\ containers'[theirs][k] \in DOMAIN heap
              /\ heap[containers'[mine][k]].owner = o
<1> TAKE k \in 1..Len(containers'[mine])
<1>1. containers[mine] \in Seq(DOMAIN heap)
  BY DEF TypeOK
<1>2. k \in 1..Len(containers[mine]) \/ k = Len(containers'[mine])
  BY <1>1
<1>3. CASE k \in 1..Len(containers[mine])
  <2>1. containers'[mine][k] = containers[mine][k]
    BY <1>1, <1>3
  <2> QED
    BY <1>3, <2>1 DEF Prefix
<1>4. CASE k = Len(containers'[mine])
  <2>1. containers'[mine][k] = d
    BY <1>1, <1>4
  <2> QED
    BY <1>4, <2>1
<1> QED
  BY <1>2, <1>3, <1>4

\* Put appends d to one container of the copy, the one that follows.
LEMMA PutFacts ==
    ASSUME TypeOK, NEW f \in Frames, NEW d \in DOMAIN heap, heap' = heap, containers' = Put(f, d)
    PROVE  LET h == Holder(f.src, f.next, heap[f.dst])
           IN  /\ h \in Holders(f.dst) /\ h \in DOMAIN containers
               /\ DOMAIN containers' = DOMAIN containers
               /\ containers' \in Seq(Seq(DOMAIN heap))
               /\ containers'[h] = Append(containers[h], d)
               /\ \A c \in DOMAIN containers \ {h} : containers'[c] = containers[c]
<1> DEFINE h == Holder(f.src, f.next, heap[f.dst])
<1>1. f.dst \in DOMAIN heap
  BY FrameType
<1>2. h \in Holders(f.dst)
  BY DEF Holder, Holders
<1>3. h \in DOMAIN containers
  BY <1>1, <1>2, ShapeType DEF Holders
<1>4. containers' = [containers EXCEPT ![h] = Append(containers[h], d)]
  BY DEF Put
<1> HIDE DEF h
<1>5. containers \in Seq(Seq(DOMAIN heap))
  BY DEF TypeOK
<1>6. Append(containers[h], d) \in Seq(DOMAIN heap)
  BY <1>3, <1>5
<1> DEFINE S == Seq(DOMAIN heap)
           a == Append(containers[h], d)
<1>7. containers \in Seq(S) /\ a \in S /\ containers' = [containers EXCEPT ![h] = a]
  BY <1>4, <1>5, <1>6
<1> HIDE DEF S, a
<1>8. containers' \in Seq(S)
  BY <1>3, <1>7
<1>9. /\ DOMAIN containers' = DOMAIN containers /\ containers'[h] = a
      /\ \A c \in DOMAIN containers \ {h} : containers'[c] = containers[c]
  BY <1>3, <1>7
<1> QED
  BY <1>2, <1>3, <1>8, <1>9 DEF S, a, h

\* After Put, the frame has copied one reference more.
LEMMA CopiedNext ==
    ASSUME TypeOK, NEW f \in Frames, NEW d \in DOMAIN heap, heap' = heap, containers' = Put(f, d),
           f.next <= Len(Refs(f.src)), Copied(f),
           heap[d].owner = heap[f.dst].owner, heap[d].id = heap[Refs(f.src)[f.next]].id,
           Holders(f.src) \cap Holders(f.dst) = {},
           heap[f.dst].defs # heap[f.dst].line, heap[f.dst].defs # heap[f.dst].parts,
           heap[f.dst].line # heap[f.dst].parts,
           NEW g, g.src = f.src, g.dst = f.dst, g.next = f.next + 1
    PROVE  Copied(g)'
<1>1. PICK c, s, o : c = heap[f.dst] /\ s = heap[f.src] /\ o = heap[f.dst].owner
  OBVIOUS
<1>2. PICK dn, ln, pn, n : /\ dn = Len(containers[s.defs]) /\ ln = Len(containers[s.line])
                           /\ pn = Len(containers[s.parts]) /\ n = f.next - 1
  OBVIOUS
<1>3. /\ f.src \in DOMAIN heap /\ f.dst \in DOMAIN heap
      /\ n \in Nat /\ f.next = n + 1 /\ f.next \in Nat
  BY <1>2, FrameType
<1>4. /\ dn \in Nat /\ ln \in Nat /\ pn \in Nat
      /\ dn = Len(DefsOf(f.src)) /\ ln = Len(LineOf(f.src)) /\ pn = Len(PartsOf(f.src))
  <2>1. DefsOf(f.src) = containers[s.defs] /\ LineOf(f.src) = containers[s.line]
        /\ PartsOf(f.src) = containers[s.parts]
    BY <1>1 DEF DefsOf, LineOf, PartsOf
  <2>2. DefsOf(f.src) \in Seq(DOMAIN heap) /\ LineOf(f.src) \in Seq(DOMAIN heap)
        /\ PartsOf(f.src) \in Seq(DOMAIN heap)
    BY <1>3, ShapeType
  <2> QED
    BY <1>2, <2>1, <2>2
<1>5. /\ Len(Refs(f.src)) = dn + ln + pn
      /\ \A k \in 1..dn : Refs(f.src)[k] = containers[s.defs][k]
      /\ \A k \in 1..ln : Refs(f.src)[dn + k] = containers[s.line][k]
      /\ \A k \in 1..pn : Refs(f.src)[dn + ln + k] = containers[s.parts][k]
  BY <1>1, <1>3, <1>4, RefsType DEF DefsOf, LineOf, PartsOf
<1>20. Refs(f.src)[n + 1] \in DOMAIN heap /\ heap[d].id = heap[Refs(f.src)[n + 1]].id
  <2>1. Refs(f.src) \in Seq(DOMAIN heap) /\ n + 1 \in 1..Len(Refs(f.src))
    BY <1>3, <1>4, <1>5, RefsType
  <2> QED
    BY <1>3, <2>1
<1>6. /\ Prefix(c.defs, s.defs, Part(n, 0, dn), o)
      /\ Prefix(c.line, s.line, Part(n, dn, ln), o)
      /\ Prefix(c.parts, s.parts, Part(n, dn + ln, pn), o)
  BY <1>1, <1>2 DEF Copied
<1>7. /\ c.defs \in DOMAIN containers /\ c.line \in DOMAIN containers /\ c.parts \in DOMAIN containers
      /\ s.defs \in DOMAIN containers /\ s.line \in DOMAIN containers /\ s.parts \in DOMAIN containers
      /\ {s.defs, s.line, s.parts} \cap {c.defs, c.line, c.parts} = {}
      /\ c.defs # c.line /\ c.defs # c.parts /\ c.line # c.parts
  BY <1>1, <1>3, ShapeType DEF Holders
<1>8. \A i \in DOMAIN containers : containers[i] \in Seq(DOMAIN heap)
  BY DEF TypeOK
<1>9. PICK h : /\ h = Holder(f.src, f.next, heap[f.dst])
               /\ h \in {c.defs, c.line, c.parts}
               /\ containers'[h] = Append(containers[h], d)
               /\ \A i \in DOMAIN containers \ {h} : containers'[i] = containers[i]
  BY <1>1, PutFacts DEF Holders
<1>10. /\ containers'[s.defs] = containers[s.defs]
      /\ containers'[s.line] = containers[s.line]
      /\ containers'[s.parts] = containers[s.parts]
  BY <1>7, <1>9
<1>11. DOMAIN heap \subseteq DOMAIN heap' /\ \A t \in DOMAIN heap : heap'[t] = heap[t]
  OBVIOUS
<1>12. PICK pd, pl, pp : /\ pd = Part(n + 1, 0, dn) /\ pl = Part(n + 1, dn, ln)
                         /\ pp = Part(n + 1, dn + ln, pn)
  OBVIOUS
<1> DEFINE Done(mine, theirs, k) ==
              /\ Len(containers'[mine]) = k
              /\ \A i \in 1..k : /\ heap'[containers'[mine][i]].id = heap'[containers'[theirs][i]].id
                                 /\ containers'[theirs][i] \in DOMAIN heap'
                                 /\ heap'[containers'[mine][i]].owner = o
<1>13. /\ Done(c.defs, s.defs, pd)
       /\ Done(c.line, s.line, pl)
       /\ Done(c.parts, s.parts, pp)
  <2>1. CASE n + 1 <= dn
    <3>1. h = c.defs
      BY <1>1, <1>3, <1>4, <1>9, <2>1 DEF Holder
    <3>2. /\ Prefix(c.defs, s.defs, n, o) /\ Prefix(c.line, s.line, 0, o) /\ Prefix(c.parts, s.parts, 0, o)
          /\ pd = n + 1 /\ pl = 0 /\ pp = 0
      <4>1. /\ Part(n, 0, dn) = n /\ Part(n + 1, 0, dn) = n + 1
            /\ Part(n, dn, ln) = 0 /\ Part(n + 1, dn, ln) = 0
            /\ Part(n, dn + ln, pn) = 0 /\ Part(n + 1, dn + ln, pn) = 0
        BY <1>3, <1>4, <2>1 DEF Part
      <4> QED
        BY <1>6, <1>12, <4>1
    <3>3. heap[d].id = heap[containers[s.defs][n + 1]].id /\ containers[s.defs][n + 1] \in DOMAIN heap
      BY <1>3, <1>4, <1>5, <1>20, <2>1
    <3>4. Done(c.defs, s.defs, pd)
      <4>1. /\ containers'[c.defs] = Append(containers[c.defs], d)
            /\ containers'[s.defs] = containers[s.defs]
            /\ heap[d].owner = o /\ c.defs \in DOMAIN containers
        BY <1>1, <1>7, <1>9, <1>10, <3>1
      <4>2. Len(containers[c.defs]) = n
        BY <3>2 DEF Prefix
      <4>3. Len(containers'[c.defs]) = n + 1
        <5>1. containers[c.defs] \in Seq(DOMAIN heap)
          BY <1>7, <1>8
        <5> QED
          BY <4>1, <4>2, <5>1
      <4>4. /\ Prefix(c.defs, s.defs, Len(containers[c.defs]), o)
            /\ heap[d].id = heap[containers[s.defs][Len(containers'[c.defs])]].id
            /\ containers[s.defs][Len(containers'[c.defs])] \in DOMAIN heap
        BY <3>2, <3>3, <4>2, <4>3
      <4>5. \A k \in 1..Len(containers'[c.defs]) :
               /\ heap[containers'[c.defs][k]].id = heap[containers'[s.defs][k]].id
               /\ containers'[s.defs][k] \in DOMAIN heap
               /\ heap[containers'[c.defs][k]].owner = o
        <5>1. PICK mine, theirs : mine = c.defs /\ theirs = s.defs
          OBVIOUS
        <5>2. /\ mine \in DOMAIN containers
              /\ containers'[mine] = Append(containers[mine], d)
              /\ containers'[theirs] = containers[theirs]
              /\ Prefix(mine, theirs, Len(containers[mine]), o)
              /\ heap[d].id = heap[containers[theirs][Len(containers'[mine])]].id
              /\ containers[theirs][Len(containers'[mine])] \in DOMAIN heap
              /\ heap[d].owner = o
          BY <4>1, <4>4, <5>1
        <5>3. \A k \in 1..Len(containers'[mine]) :
                 /\ heap[containers'[mine][k]].id = heap[containers'[theirs][k]].id
                 /\ containers'[theirs][k] \in DOMAIN heap
                 /\ heap[containers'[mine][k]].owner = o
          BY <5>2, PrefixAppended, SMTT(60)
        <5> QED
          BY <5>1, <5>3
      <4> QED
        BY <3>2, <4>3, <4>5
    <3>5. Done(c.line, s.line, pl) /\ Done(c.parts, s.parts, pp)
      BY <1>7, <1>9, <1>10, <1>11, <3>1, <3>2, PrefixKept
    <3> QED
      BY <3>4, <3>5
  <2>2. CASE dn < n + 1 /\ n + 1 <= dn + ln
    <3>1. h = c.line
      BY <1>1, <1>3, <1>4, <1>9, <2>2 DEF Holder
    <3>2. /\ Prefix(c.defs, s.defs, dn, o) /\ Prefix(c.line, s.line, n - dn, o)
          /\ Prefix(c.parts, s.parts, 0, o)
          /\ pd = dn /\ pl = n - dn + 1 /\ pp = 0
      <4>1. n \in Nat /\ dn \in Nat /\ ln \in Nat /\ pn \in Nat
        BY <1>3, <1>4
      <4>2. /\ Part(n, 0, dn) = dn /\ Part(n + 1, 0, dn) = dn
            /\ Part(n, dn, ln) = n - dn /\ Part(n + 1, dn, ln) = n - dn + 1
            /\ Part(n, dn + ln, pn) = 0 /\ Part(n + 1, dn + ln, pn) = 0
        <5>1. Part(n, 0, dn) = dn /\ Part(n + 1, 0, dn) = dn
          BY <4>1, <2>2 DEF Part
        <5>2. Part(n, dn, ln) = n - dn
          BY <4>1, <2>2 DEF Part
        <5>3. Part(n + 1, dn, ln) = n - dn + 1
          BY <4>1, <2>2 DEF Part
        <5>4. Part(n, dn + ln, pn) = 0 /\ Part(n + 1, dn + ln, pn) = 0
          BY <4>1, <2>2 DEF Part
        <5> QED
          BY <5>1, <5>2, <5>3, <5>4
      <4> QED
        BY <1>6, <1>12, <4>2
    <3>3. heap[d].id = heap[containers[s.line][n - dn + 1]].id /\ containers[s.line][n - dn + 1] \in DOMAIN heap /\ n - dn \in Nat
      <4>1. n - dn + 1 \in 1..ln /\ dn + (n - dn + 1) = n + 1 /\ n - dn \in Nat
        BY <1>3, <1>4, <2>2
      <4> QED
        BY <1>3, <1>5, <1>20, <4>1
    <3>4. Done(c.line, s.line, pl)
      <4>1. /\ containers'[c.line] = Append(containers[c.line], d)
            /\ containers'[s.line] = containers[s.line]
            /\ heap[d].owner = o /\ c.line \in DOMAIN containers
        BY <1>1, <1>7, <1>9, <1>10, <3>1
      <4>2. Len(containers[c.line]) = n - dn
        BY <3>2 DEF Prefix
      <4>3. Len(containers'[c.line]) = n - dn + 1
        <5>1. containers[c.line] \in Seq(DOMAIN heap)
          BY <1>7, <1>8
        <5> QED
          BY <4>1, <4>2, <5>1
      <4>4. /\ Prefix(c.line, s.line, Len(containers[c.line]), o)
            /\ heap[d].id = heap[containers[s.line][Len(containers'[c.line])]].id
            /\ containers[s.line][Len(containers'[c.line])] \in DOMAIN heap
        BY <3>2, <3>3, <4>2, <4>3
      <4>5. \A k \in 1..Len(containers'[c.line]) :
               /\ heap[containers'[c.line][k]].id = heap[containers'[s.line][k]].id
               /\ containers'[s.line][k] \in DOMAIN heap
               /\ heap[containers'[c.line][k]].owner = o
        <5>1. PICK mine, theirs : mine = c.line /\ theirs = s.line
          OBVIOUS
        <5>2. /\ mine \in DOMAIN containers
              /\ containers'[mine] = Append(containers[mine], d)
              /\ containers'[theirs] = containers[theirs]
              /\ Prefix(mine, theirs, Len(containers[mine]), o)
              /\ heap[d].id = heap[containers[theirs][Len(containers'[mine])]].id
              /\ containers[theirs][Len(containers'[mine])] \in DOMAIN heap
              /\ heap[d].owner = o
          BY <4>1, <4>4, <5>1
        <5>3. \A k \in 1..Len(containers'[mine]) :
                 /\ heap[containers'[mine][k]].id = heap[containers'[theirs][k]].id
                 /\ containers'[theirs][k] \in DOMAIN heap
                 /\ heap[containers'[mine][k]].owner = o
          BY <5>2, PrefixAppended, SMTT(60)
        <5> QED
          BY <5>1, <5>3
      <4> QED
        BY <3>2, <4>3, <4>5
    <3>5. Done(c.defs, s.defs, pd) /\ Done(c.parts, s.parts, pp)
      BY <1>4, <1>7, <1>9, <1>10, <1>11, <3>1, <3>2, PrefixKept, SMTT(60)
    <3> QED
      BY <3>4, <3>5
  <2>3. CASE dn + ln < n + 1
    <3>1. h = c.parts
      BY <1>1, <1>3, <1>4, <1>9, <2>3 DEF Holder
    <3>2. /\ Prefix(c.defs, s.defs, dn, o) /\ Prefix(c.line, s.line, ln, o)
          /\ Prefix(c.parts, s.parts, n - (dn + ln), o)
          /\ pd = dn /\ pl = ln /\ pp = n - (dn + ln) + 1
      <4>1. n \in Nat /\ dn \in Nat /\ ln \in Nat /\ pn \in Nat
        BY <1>3, <1>4
      <4>2. /\ Part(n, 0, dn) = dn /\ Part(n + 1, 0, dn) = dn
            /\ Part(n, dn, ln) = ln /\ Part(n + 1, dn, ln) = ln
            /\ Part(n, dn + ln, pn) = n - (dn + ln) /\ Part(n + 1, dn + ln, pn) = n - (dn + ln) + 1
        <5>1. n + 1 <= dn + ln + pn
          BY <1>3, <1>5
        <5>2. Part(n, 0, dn) = dn /\ Part(n + 1, 0, dn) = dn
          BY <4>1, <2>3 DEF Part
        <5>3. Part(n, dn, ln) = ln /\ Part(n + 1, dn, ln) = ln
          BY <4>1, <2>3 DEF Part
        <5>4. Part(n, dn + ln, pn) = n - (dn + ln)
          BY <4>1, <2>3, <5>1 DEF Part
        <5>5. Part(n + 1, dn + ln, pn) = n - (dn + ln) + 1
          BY <4>1, <2>3, <5>1 DEF Part
        <5> QED
          BY <5>2, <5>3, <5>4, <5>5
      <4> QED
        BY <1>6, <1>12, <4>2
    <3>3. heap[d].id = heap[containers[s.parts][n - (dn + ln) + 1]].id /\ containers[s.parts][n - (dn + ln) + 1] \in DOMAIN heap /\ n - (dn + ln) \in Nat
      <4>1. /\ n - (dn + ln) + 1 \in 1..pn
            /\ dn + ln + (n - (dn + ln) + 1) = n + 1
            /\ n - (dn + ln) \in Nat
        BY <1>3, <1>4, <1>5, <2>3
      <4> QED
        BY <1>3, <1>5, <1>20, <4>1
    <3>4. Done(c.parts, s.parts, pp)
      <4>1. /\ containers'[c.parts] = Append(containers[c.parts], d)
            /\ containers'[s.parts] = containers[s.parts]
            /\ heap[d].owner = o /\ c.parts \in DOMAIN containers
        BY <1>1, <1>7, <1>9, <1>10, <3>1
      <4>2. Len(containers[c.parts]) = n - (dn + ln)
        BY <3>2 DEF Prefix
      <4>3. Len(containers'[c.parts]) = n - (dn + ln) + 1
        <5>1. containers[c.parts] \in Seq(DOMAIN heap)
          BY <1>7, <1>8
        <5> QED
          BY <4>1, <4>2, <5>1
      <4>4. /\ Prefix(c.parts, s.parts, Len(containers[c.parts]), o)
            /\ heap[d].id = heap[containers[s.parts][Len(containers'[c.parts])]].id
            /\ containers[s.parts][Len(containers'[c.parts])] \in DOMAIN heap
        BY <3>2, <3>3, <4>2, <4>3
      <4>5. \A k \in 1..Len(containers'[c.parts]) :
               /\ heap[containers'[c.parts][k]].id = heap[containers'[s.parts][k]].id
               /\ containers'[s.parts][k] \in DOMAIN heap
               /\ heap[containers'[c.parts][k]].owner = o
        <5>1. PICK mine, theirs : mine = c.parts /\ theirs = s.parts
          OBVIOUS
        <5>2. /\ mine \in DOMAIN containers
              /\ containers'[mine] = Append(containers[mine], d)
              /\ containers'[theirs] = containers[theirs]
              /\ Prefix(mine, theirs, Len(containers[mine]), o)
              /\ heap[d].id = heap[containers[theirs][Len(containers'[mine])]].id
              /\ containers[theirs][Len(containers'[mine])] \in DOMAIN heap
              /\ heap[d].owner = o
          BY <4>1, <4>4, <5>1
        <5>3. \A k \in 1..Len(containers'[mine]) :
                 /\ heap[containers'[mine][k]].id = heap[containers'[theirs][k]].id
                 /\ containers'[theirs][k] \in DOMAIN heap
                 /\ heap[containers'[mine][k]].owner = o
          BY <5>2, PrefixAppended, SMTT(60)
        <5> QED
          BY <5>1, <5>3
      <4> QED
        BY <3>2, <4>3, <4>5
    <3>5. /\ containers'[c.defs] = containers[c.defs]
          /\ containers'[c.line] = containers[c.line]
      BY <1>7, <1>9, <3>1
    <3>6. Done(c.defs, s.defs, pd)
      BY <1>4, <1>7, <1>10, <1>11, <3>2, <3>5, PrefixKept, SMTT(60)
    <3>7. Done(c.line, s.line, pl)
      BY <1>4, <1>7, <1>10, <1>11, <3>2, <3>5, PrefixKept
    <3> QED
      BY <3>4, <3>6, <3>7
  <2>4. n + 1 <= dn \/ (dn < n + 1 /\ n + 1 <= dn + ln) \/ dn + ln < n + 1
    BY <1>3, <1>4
  <2> HIDE DEF Done
  <2> QED
    BY <2>1, <2>2, <2>3, <2>4
<1>14. /\ heap'[g.dst] = c /\ heap'[g.src] = s /\ o = c.owner
       /\ g.next - 1 = n + 1
       /\ dn = Len(containers'[s.defs]) /\ ln = Len(containers'[s.line]) /\ pn = Len(containers'[s.parts])
  BY <1>1, <1>2, <1>3, <1>10
<1>15. /\ pd = Part(g.next - 1, 0, Len(containers'[heap'[g.src].defs]))
       /\ pl = Part(g.next - 1, Len(containers'[heap'[g.src].defs]), Len(containers'[heap'[g.src].line]))
       /\ pp = Part(g.next - 1, Len(containers'[heap'[g.src].defs]) + Len(containers'[heap'[g.src].line]),
                    Len(containers'[heap'[g.src].parts]))
  BY <1>12, <1>14
<1>16. /\ heap'[g.dst].defs = c.defs /\ heap'[g.dst].line = c.line /\ heap'[g.dst].parts = c.parts
       /\ heap'[g.src].defs = s.defs /\ heap'[g.src].line = s.line /\ heap'[g.src].parts = s.parts
       /\ heap'[g.dst].owner = o
  BY <1>14
<1>17. Prefix(heap[g.dst].defs, heap[g.src].defs, pd, heap[g.dst].owner)'
  BY <1>13, <1>16 DEF Prefix
<1>18. Prefix(heap[g.dst].line, heap[g.src].line, pl, heap[g.dst].owner)'
  BY <1>13, <1>16 DEF Prefix
<1>19. Prefix(heap[g.dst].parts, heap[g.src].parts, pp, heap[g.dst].owner)'
  BY <1>13, <1>16 DEF Prefix
<1> QED
  BY <1>15, <1>17, <1>18, <1>19 DEF Copied

\* The step of frame j that puts d, its copy of the reference it is at, after
\* the frames above it have returned.
LEMMA PutInv ==
    ASSUME IInv, NEW j \in DOMAIN frames, NEW f \in Frames, f = frames[j], NEW d \in DOMAIN heap,
           f.next <= Len(Refs(f.src)),
           heap[d].owner = call, heap[d].id = heap[Refs(f.src)[f.next]].id,
           \A i \in DOMAIN frames : i > j => frames[i].next = Len(Refs(frames[i].src)) + 1,
           heap' = heap, containers' = Put(f, d), map' = map, shared' = shared,
           call' = call, calls' = calls, copies' = copies,
           NEW g \in Frame, g.src = f.src, g.dst = f.dst, g.next = f.next + 1,
           frames' \in Seq(Frame), Len(frames') = j, frames'[j] = g,
           \A i \in 1..(j - 1) : frames'[i] = frames[i]
    PROVE  IInv'
<1>1. TypeOK
  BY DEF IInv
<1>2. /\ f.src \in DOMAIN heap /\ f.dst \in DOMAIN heap /\ f.next \in Nat
      /\ frames \in Seq(Frame) /\ Len(frames) \in Nat /\ DOMAIN frames = 1..Len(frames)
      /\ j \in 1..Len(frames) /\ DOMAIN frames' = 1..j
  <2>1. f.src \in DOMAIN heap /\ f.dst \in DOMAIN heap /\ f.next \in Nat
    BY <1>1, FrameType
  <2>2. frames \in Seq(Frame)
    BY <1>1 DEF TypeOK
  <2> QED
    BY <2>1, <2>2
<1>3. /\ heap[f.dst].owner = call
      /\ heap[f.dst].source = f.src
      /\ heap[f.src].owner # call
      /\ \A i \in DOMAIN frames : frames[i].dst = f.dst => i = j
  BY DEF IInv, Nested
<1>4. /\ heap[f.dst].defs # heap[f.dst].line
      /\ heap[f.dst].defs # heap[f.dst].parts
      /\ heap[f.dst].line # heap[f.dst].parts
      /\ \A s \in DOMAIN heap \ {f.dst} : Holders(s) \cap Holders(f.dst) = {}
  BY DEF IInv, Private
<1>5. PICK h : /\ h \in Holders(f.dst) /\ h \in DOMAIN containers
               /\ DOMAIN containers' = DOMAIN containers
               /\ containers' \in Seq(Seq(DOMAIN heap))
               /\ containers'[h] = Append(containers[h], d)
               /\ \A c \in DOMAIN containers \ {h} : containers'[c] = containers[c]
  <2> DEFINE x == Holder(f.src, f.next, heap[f.dst])
  <2>1. /\ x \in Holders(f.dst) /\ x \in DOMAIN containers
        /\ DOMAIN containers' = DOMAIN containers
        /\ containers' \in Seq(Seq(DOMAIN heap))
        /\ containers'[x] = Append(containers[x], d)
        /\ \A c \in DOMAIN containers \ {x} : containers'[c] = containers[c]
    BY <1>1, PutFacts
  <2> HIDE DEF x
  <2> QED
    BY <2>1
<1>6. \A s \in DOMAIN heap : Holders(s) \subseteq DOMAIN containers /\ Holders(s)' = Holders(s)
  BY <1>1, ShapeType DEF Holders
<1>7. \A s \in DOMAIN heap \ {f.dst} : \A c \in Holders(s) : containers'[c] = containers[c]
  BY <1>4, <1>5, <1>6
<1>8. \A s \in DOMAIN heap \ {f.dst} : Refs(s)' = Refs(s)
  BY <1>7 DEF Holders, Refs, DefsOf, LineOf, PartsOf
<1>9. \A i \in DOMAIN frames : frames[i] \in Frames
  BY DEF Frames
<1>10. \A e \in Frames' : \/ e = g
                          \/ \E i \in 1..(j - 1) : e = frames[i] /\ e \in Frames
  <2> SUFFICES ASSUME NEW i \in DOMAIN frames', NEW e, e = frames'[i]
               PROVE  e = g \/ \E k \in 1..(j - 1) : e = frames[k] /\ e \in Frames
    BY DEF Frames
  <2>1. i = j \/ i \in 1..(j - 1)
    BY <1>2
  <2>2. ASSUME i \in 1..(j - 1) PROVE e = frames[i] /\ e \in Frames
    BY <1>2, <1>9, <2>2
  <2> QED
    BY <2>1, <2>2
<1>11. \A i \in 1..(j - 1) : i \in DOMAIN frames /\ frames[i].dst # f.dst
  <2> SUFFICES ASSUME NEW i \in 1..(j - 1)
               PROVE  i \in DOMAIN frames /\ frames[i].dst # f.dst
    OBVIOUS
  <2>1. i \in DOMAIN frames /\ i # j
    BY <1>2
  <2> QED
    BY <1>3, <2>1
<1>12. \A e \in Frames' : e.dst \in DOMAIN heap /\ e.src \in DOMAIN heap /\ \E b \in Frames : b.dst = e.dst
  BY <1>1, <1>2, <1>10, FrameType
<1>13. \A c \in Cloned : heap[c].source # f.dst /\ heap[c].source \in DOMAIN heap /\ c \in DOMAIN heap
  <2>1. \A c \in Cloned : heap[c].source # f.dst
    BY DEF IInv, Sourced
  <2> QED
    BY <1>1, <2>1, ConstantsAssumption DEF TypeOK, Cloned
<1>14. TypeOK'
  <2>1. \A e \in Frames' : {e.src, e.dst} \subseteq DOMAIN heap' /\ e.next > 0
    <3>1. \A e \in Frames : e.next > 0
      BY <1>1, FrameType
    <3>2. g.next > 0
      BY <1>2
    <3> QED
      BY <1>10, <1>12, <3>1, <3>2
  <2>2. \A s \in DOMAIN heap' :
          /\ {heap'[s].defs, heap'[s].line, heap'[s].parts} \subseteq DOMAIN containers'
          /\ heap'[s].head \in {0} \cup DOMAIN heap'
          /\ heap'[s].owner = Original \/ heap'[s].source \in DOMAIN heap'
    <3>1. \A s \in DOMAIN heap :
            /\ {heap[s].defs, heap[s].line, heap[s].parts} \subseteq DOMAIN containers
            /\ heap[s].head \in {0} \cup DOMAIN heap
            /\ heap[s].owner = Original \/ heap[s].source \in DOMAIN heap
      BY <1>1 DEF TypeOK
    <3>2. DOMAIN containers' = DOMAIN containers
      BY <1>5
    <3> QED
      BY <3>1, <3>2
  <2> QED
    BY <1>1, <1>5, <2>1, <2>2 DEF TypeOK
<1>15. Private'
  <2> SUFFICES ASSUME NEW e \in Frames'
               PROVE  /\ heap'[e.dst].defs # heap'[e.dst].line
                      /\ heap'[e.dst].defs # heap'[e.dst].parts
                      /\ heap'[e.dst].line # heap'[e.dst].parts
                      /\ \A s \in DOMAIN heap' \ {e.dst} : Holders(s)' \cap Holders(e.dst)' = {}
    BY DEF Private
  <2>1. PICK b \in Frames : b.dst = e.dst
    BY <1>12
  <2>2. e.dst \in DOMAIN heap /\ Holders(e.dst)' = Holders(e.dst)
    BY <1>6, <1>12
  <2> QED
    BY <1>6, <2>1, <2>2 DEF IInv, Private
<1>16. Owned'
  <2> SUFFICES ASSUME NEW s \in DOMAIN heap, heap[s].owner # Shallow, NEW c \in Holders(s),
                      NEW k \in DOMAIN containers'[c]
               PROVE  heap[containers'[c][k]].owner = heap[s].owner
    BY <1>6 DEF IInv, Owned, Deep
  <2>1. c \in DOMAIN containers /\ containers[c] \in Seq(DOMAIN heap)
    BY <1>1, <1>6 DEF TypeOK
  <2>2. \A i \in DOMAIN containers[c] : heap[containers[c][i]].owner = heap[s].owner
    BY DEF IInv, Owned, Deep
  <2>3. CASE c # h
    BY <1>5, <2>1, <2>2, <2>3, SMTT(60)
  <2>4. CASE c = h
    <3>1. s = f.dst
      BY <1>4, <1>5, <2>4
    <3>2. containers'[c] = Append(containers[c], d) /\ d \in DOMAIN heap
      BY <1>5, <2>4
    <3>3. \/ k \in DOMAIN containers[c] /\ containers'[c][k] = containers[c][k]
          \/ containers'[c][k] = d
      BY <2>1, <3>2
    <3> QED
      BY <1>3, <2>2, <3>1, <3>3
  <2> QED
    BY <2>3, <2>4
<1>18. Cloned' = Cloned
  BY DEF Cloned
<1>17. Unique'
  BY <1>18 DEF IInv, Unique
<1>19. Sourced'
  <2> SUFFICES ASSUME NEW c \in Cloned
               PROVE  /\ heap[c].id = heap[heap[c].source].id
                      /\ heap[c].head = heap[heap[c].source].head
                      /\ \A e \in Frames' : heap[c].source # e.dst
    BY <1>18 DEF Sourced
  <2>1. \A e \in Frames' : heap[c].source # e.dst
    BY <1>12 DEF IInv, Sourced
  <2> QED
    BY <2>1 DEF IInv, Sourced
<1>20. MapsOK'
  <2>1. ~Idle /\ ~Idle'
    BY <1>2 DEF Idle
  <2> QED
    BY <2>1 DEF IInv, MapsOK, Maps
<1>21. Nested'
  <2> SUFFICES ASSUME NEW k \in DOMAIN frames', NEW e \in Frames', e = frames'[k]
               PROVE  /\ heap[e.dst].owner = call
                      /\ heap[e.dst].source = e.src
                      /\ heap[e.src].owner # call
                      /\ e.next <= Len(Refs(e.src)') + 1
                      /\ k # Len(frames') =>
                            /\ e.next <= Len(Refs(e.src)')
                            /\ frames'[k + 1].src = Refs(e.src)'[e.next]
                      /\ \A i \in DOMAIN frames' : frames'[i].dst = e.dst => i = k
    BY DEF Nested
  <2>1. \A i \in DOMAIN frames' : /\ i \in DOMAIN frames
                                  /\ frames'[i].dst = frames[i].dst
                                  /\ frames'[i].src = frames[i].src
    <3> TAKE i \in DOMAIN frames'
    <3>1. i = j \/ i \in 1..(j - 1)
      BY <1>2
    <3> QED
      BY <1>2, <3>1
  <2>2. PICK b \in Frames : b = frames[k]
    BY <1>9, <2>1
  <2>3. /\ heap[b.dst].owner = call
        /\ heap[b.dst].source = b.src
        /\ heap[b.src].owner # call
        /\ b.next <= Len(Refs(b.src)) + 1
        /\ k # Len(frames) =>
              /\ b.next <= Len(Refs(b.src))
              /\ frames[k + 1].src = Refs(b.src)[b.next]
        /\ \A i \in DOMAIN frames : frames[i].dst = b.dst => i = k
    BY <2>1, <2>2 DEF IInv, Nested
  <2>4. e.dst = b.dst /\ e.src = b.src /\ b.src \in DOMAIN heap /\ b.src # f.dst /\ Refs(b.src)' = Refs(b.src)
    <3>1. e.dst = b.dst /\ e.src = b.src
      BY <2>1, <2>2
    <3>2. b.src \in DOMAIN heap /\ b.src # f.dst
      BY <1>1, <1>3, <2>3, FrameType
    <3> QED
      BY <1>8, <3>1, <3>2
  <2>5. \A i \in DOMAIN frames' : frames'[i].dst = e.dst => i = k
    BY <2>1, <2>3, <2>4
  <2>6. CASE k = j
    <3>1. e.next = f.next + 1 /\ b = f
      BY <2>2, <2>6
    <3>2. Len(Refs(f.src)) \in Nat
      BY <1>1, <1>2, RefsType
    <3>3. e.next <= Len(Refs(e.src)') + 1
      BY <1>2, <2>4, <3>1, <3>2
    <3> QED
      BY <2>3, <2>4, <2>5, <2>6, <3>3
  <2>7. CASE k \in 1..(j - 1)
    <3>1. e = b /\ k # Len(frames) /\ k + 1 \in DOMAIN frames'
      BY <1>2, <2>2, <2>7
    <3>2. frames'[k + 1].src = frames[k + 1].src
      BY <2>1, <3>1
    <3> QED
      BY <2>3, <2>4, <2>5, <3>1, <3>2
  <2> QED
    BY <1>2, <2>6, <2>7
<1>22. Progress'
  <2> SUFFICES ASSUME NEW e \in Frames' PROVE Copied(e)'
    BY DEF Progress
  <2>1. CASE e = g
    <3>1. Copied(f) /\ f.src # f.dst
      BY <1>3 DEF IInv, Progress
    <3>2. Holders(f.src) \cap Holders(f.dst) = {}
      BY <1>2, <1>4, <3>1
    <3>3. heap[d].owner = heap[f.dst].owner
      BY <1>3
    <3> QED
      BY <1>1, <1>4, <2>1, <3>1, <3>2, <3>3, CopiedNext
  <2>2. CASE \E i \in 1..(j - 1) : e = frames[i] /\ e \in Frames
    <3>1. PICK i \in 1..(j - 1) : e = frames[i] /\ e \in Frames
      BY <2>2
    <3>2. e.dst # f.dst /\ e.dst \in DOMAIN heap /\ e.src \in DOMAIN heap
      BY <1>11, <1>12, <3>1
    <3>3. e.src # f.dst
      BY <1>3, <1>11, <3>1 DEF IInv, Nested
    <3>4. \A c \in Holders(e.src) \cup Holders(e.dst) : containers'[c] = containers[c]
      BY <1>7, <3>2, <3>3
    <3>5. Copied(e)
      BY <3>1 DEF IInv, Progress
    <3> QED
      BY <1>1, <3>1, <3>4, <3>5, CopiedKept
  <2> QED
    BY <1>10, <2>1, <2>2
<1>23. WholeIsImage'
  <2> SUFFICES ASSUME NEW c \in Whole' PROVE Image(c)'
    BY DEF WholeIsImage
  <2>1. c \in Cloned /\ c \in DOMAIN heap /\ heap[c].source \in DOMAIN heap /\ heap[c].source # f.dst
    BY <1>13, <1>18 DEF Whole
  <2>2. c # f.dst
    <3>1. g \in Frames'
      BY <1>2 DEF Frames
    <3> QED
      BY <3>1 DEF Whole
  <2>3. Image(c)
    <3>1. CASE c \in Whole
      BY <3>1 DEF IInv, WholeIsImage
    <3>2. CASE c \notin Whole
      <4>1. PICK e \in Frames : e.dst = c
        BY <2>1, <3>2 DEF Whole
      <4>2. PICK i \in DOMAIN frames : e = frames[i]
        BY DEF Frames
      <4>3. i > j
        <5>1. i # j
          BY <2>2, <4>1, <4>2
        <5>2. ~(i \in 1..(j - 1))
          <6> SUFFICES ASSUME i \in 1..(j - 1) PROVE FALSE
            OBVIOUS
          <6>1. i \in DOMAIN frames' /\ frames'[i] = e
            BY <1>2, <4>2
          <6>2. e \in Frames'
            BY <6>1 DEF Frames
          <6> QED
            BY <4>1, <6>2 DEF Whole
        <5> QED
          BY <1>2, <5>1, <5>2
      <4>4. e.next = Len(Refs(e.src)) + 1 /\ heap[e.dst].source = e.src /\ Copied(e)
        BY <4>2, <4>3 DEF IInv, Nested, Progress
      <4> QED
        BY <1>1, <4>1, <4>4, FinishedImage
    <3> QED
      BY <3>1, <3>2
  <2>4. \A i \in Holders(c) \cup Holders(heap[c].source) : containers'[i] = containers[i]
    BY <1>7, <2>1, <2>2
  <2> QED
    BY <1>1, <2>1, <2>3, <2>4, ImageKept
<1> QED
  BY <1>14, <1>15, <1>16, <1>17, <1>19, <1>20, <1>21, <1>22, <1>23 DEF IInv

-----------------------------------------------------------------------------
(* Every action keeps the invariant *)

\* What is known of the frame on top, which is at a reference.
LEMMA WorkingFacts ==
    ASSUME IInv, Working
    PROVE  /\ frames # << >> /\ Len(frames) \in DOMAIN frames
           /\ Top \in Frames /\ Top = frames[Len(frames)]
           /\ Top.next <= Len(Refs(Top.src))
           /\ Pending \in DOMAIN heap
           /\ heap[Pending].id \in IDs
           /\ Top.dst \in Cloned /\ heap[Top.dst].owner = call /\ heap[Top.dst].source = Top.src
           /\ Maps(map, call) /\ map \in [IDs -> {0} \cup DOMAIN heap]
<1>1. TypeOK /\ frames # << >>
  BY DEF IInv, Working, Idle
<1>2. frames \in Seq(Frame)
  BY <1>1 DEF TypeOK
<1>3. Len(frames) \in DOMAIN frames
  BY <1>1, <1>2
<1>4. Top = frames[Len(frames)] /\ Top \in Frames
  BY <1>3 DEF Top, Frames
<1>5. Top.src \in DOMAIN heap /\ Top.dst \in DOMAIN heap /\ Top.next \in Nat /\ Top.next > 0
  BY <1>1, <1>4, FrameType
<1>6. Top.next \in 1..Len(Refs(Top.src))
  <2>1. Len(Refs(Top.src)) \in Nat
    BY <1>1, <1>5, RefsType
  <2> QED
    BY <1>5, <2>1 DEF Working
<1>7. heap[Top.dst].owner = call /\ heap[Top.dst].source = Top.src /\ heap[Top.src].owner # call
  BY <1>3, <1>4 DEF IInv, Nested
<1>8. Top.dst \in Cloned
  BY <1>1, <1>5, <1>7 DEF Cloned, TypeOK
<1>9. Pending \in DOMAIN heap
  BY <1>1, <1>5, <1>6, RefsType DEF Pending
<1>10. heap[Pending].id \in IDs
  BY <1>1, <1>9, ShapeType
<1>11. Maps(map, call) /\ map \in [IDs -> {0} \cup DOMAIN heap]
  BY <1>1 DEF IInv, MapsOK, Idle, TypeOK
<1> QED
  BY <1>1, <1>3, <1>4, <1>6, <1>7, <1>8, <1>9, <1>10, <1>11 DEF Working

LEMMA ReuseCopyInv ==
    IInv /\ ReuseCopy => IInv'
<1> SUFFICES ASSUME IInv, ReuseCopy PROVE IInv'
  OBVIOUS
<1>1. Working /\ map[heap[Pending].id] # 0
  BY DEF ReuseCopy
<1>2. TypeOK /\ frames \in Seq(Frame)
  BY DEF IInv, TypeOK
<1>3. PICK f, j, d : f = Top /\ j = Len(frames) /\ d = map[heap[Pending].id]
  OBVIOUS
<1>4. /\ j \in DOMAIN frames /\ f \in Frames /\ f = frames[j] /\ f.next <= Len(Refs(f.src))
      /\ f \in Frame
  BY <1>1, <1>2, <1>3, WorkingFacts, FrameType
<1>5. d \in DOMAIN heap /\ heap[d].owner = call /\ heap[d].id = heap[Pending].id
  BY <1>1, <1>3, WorkingFacts DEF Maps
<1>6. heap[d].id = heap[Refs(f.src)[f.next]].id
  BY <1>3, <1>5 DEF Pending
<1>7. PICK g : g = [f EXCEPT !.next = @ + 1]
  OBVIOUS
<1>8. g \in Frame /\ g.src = f.src /\ g.dst = f.dst /\ g.next = f.next + 1
  BY <1>4, <1>7 DEF Frame
<1>9. /\ frames' = [frames EXCEPT ![j] = g]
      /\ heap' = heap /\ containers' = Put(f, d) /\ map' = map /\ shared' = shared
      /\ call' = call /\ calls' = calls /\ copies' = copies
  <2>1. frames' = [frames EXCEPT ![Len(frames)].next = @ + 1]
    BY DEF ReuseCopy
  <2> QED
    BY <1>3, <1>4, <1>7, <2>1 DEF ReuseCopy
<1>10. /\ frames' \in Seq(Frame) /\ Len(frames') = j /\ frames'[j] = g
       /\ \A i \in 1..(j - 1) : frames'[i] = frames[i]
  BY <1>2, <1>3, <1>4, <1>8, <1>9
<1>11. \A i \in DOMAIN frames : i > j => frames[i].next = Len(Refs(frames[i].src)) + 1
  BY <1>2, <1>3
<1> QED
  BY <1>4, <1>5, <1>6, <1>8, <1>9, <1>10, <1>11, PutInv

LEMMA CloneRefInv ==
    IInv /\ CloneRef => IInv'
<1> SUFFICES ASSUME IInv, CloneRef PROVE IInv'
  OBVIOUS
<1>1. Working /\ map[heap[Pending].id] = 0 /\ Enter(map, call, Pending)
  BY DEF CloneRef
<1>2. TypeOK
  BY DEF IInv
<1>3. call \in Nat /\ calls \in Nat /\ call <= calls
  BY DEF IInv, TypeOK, Owned
<1>4. \A f \in Frames : heap[f.dst].owner = call
  BY DEF IInv, Nested, Frames
<1>5. heap[Pending].owner # call
  <2>1. Pending \in DOMAIN heap /\ Pending # 0 /\ Maps(map, call)
    BY <1>1, <1>2, WorkingFacts DEF TypeOK
  <2> QED
    BY <1>1, <2>1 DEF Maps
<1>6. \A f \in Frames : f.dst # Pending
  BY <1>4, <1>5
<1>7. call # 0 => Maps(shared, 0)
  BY DEF IInv, MapsOK
<1>8. MayEnter(map, call, Pending)
  BY <1>1, <1>3, <1>5, <1>6, <1>7, WorkingFacts DEF MayEnter
<1>9. call' = call /\ calls' = calls /\ shared' = shared /\ copies' = copies
  BY DEF CloneRef
<1> QED
  BY <1>1, <1>3, <1>8, <1>9, EnterInv

\* What is known of a frame on top that is done.
LEMMA FinishedFacts ==
    ASSUME IInv, Finished
    PROVE  /\ Len(frames) \in DOMAIN frames /\ frames \in Seq(Frame)
           /\ Top \in Frames /\ Top = frames[Len(frames)]
           /\ Top.next = Len(Refs(Top.src)) + 1
           /\ Top.src \in DOMAIN heap /\ Top.dst \in DOMAIN heap
           /\ heap[Top.dst].owner = call /\ heap[Top.dst].source = Top.src
           /\ Image(Top.dst)
<1>1. TypeOK /\ frames # << >>
  BY DEF IInv, Finished, Idle
<1>2. frames \in Seq(Frame)
  BY <1>1 DEF TypeOK
<1>3. Len(frames) \in DOMAIN frames
  BY <1>1, <1>2
<1>4. Top = frames[Len(frames)] /\ Top \in Frames
  BY <1>3 DEF Top, Frames
<1>5. Top.src \in DOMAIN heap /\ Top.dst \in DOMAIN heap /\ Top.next \in Nat
  BY <1>1, <1>4, FrameType
<1>6. /\ heap[Top.dst].owner = call /\ heap[Top.dst].source = Top.src
      /\ Top.next <= Len(Refs(Top.src)) + 1
  BY <1>3, <1>4 DEF IInv, Nested
<1>7. Top.next = Len(Refs(Top.src)) + 1
  <2>1. Len(Refs(Top.src)) \in Nat
    BY <1>1, <1>5, RefsType
  <2> QED
    BY <1>5, <1>6, <2>1 DEF Finished
<1>8. Image(Top.dst)
  BY <1>1, <1>4, <1>6, <1>7, FinishedImage DEF IInv, Progress
<1> QED
  BY <1>2, <1>3, <1>4, <1>5, <1>6, <1>7, <1>8

LEMMA CloneReturnsInv ==
    IInv /\ CloneReturns => IInv'
<1> SUFFICES ASSUME IInv, CloneReturns PROVE IInv'
  OBVIOUS
<1>1. Finished /\ Below # << >>
  BY DEF CloneReturns
<1>2. TypeOK /\ frames \in Seq(Frame) /\ Len(frames) \in Nat /\ Len(frames) \in DOMAIN frames
  BY <1>1, FinishedFacts DEF IInv
<1>3. PICK n, j : n = Len(frames) /\ j = Len(frames) - 1
  OBVIOUS
<1>4. /\ j \in 1..(n - 1) /\ j \in DOMAIN frames /\ j + 1 = n
      /\ Below \in Seq(Frame) /\ Len(Below) = j
      /\ \A i \in 1..j : Below[i] = frames[i]
  <2>1. Below = SubSeq(frames, 1, j) /\ j \in Nat
    BY <1>2, <1>3 DEF Below
  <2>2. Below \in Seq(Frame) /\ Len(Below) = j /\ \A i \in 1..j : Below[i] = frames[i]
    BY <1>2, <1>3, <2>1
  <2>3. j # 0
    BY <1>1, <2>2
  <2> QED
    BY <1>2, <1>3, <2>1, <2>2, <2>3
<1>5. PICK f, d : f = frames[j] /\ d = Top.dst
  OBVIOUS
<1>6. f \in Frames /\ f \in Frame /\ d \in DOMAIN heap /\ heap[d].owner = call
  BY <1>1, <1>2, <1>4, <1>5, FinishedFacts, FrameType DEF Frames
<1>7. /\ f.next <= Len(Refs(f.src)) /\ frames[j + 1].src = Refs(f.src)[f.next]
  <2>1. j # Len(frames)
    BY <1>2, <1>3, <1>4
  <2> QED
    BY <1>4, <1>5, <1>6, <2>1 DEF IInv, Nested
<1>8. heap[d].id = heap[Refs(f.src)[f.next]].id
  <2>1. d \in Cloned
    BY <1>2, <1>6 DEF TypeOK, Cloned
  <2>2. heap[d].source = Refs(f.src)[f.next]
    BY <1>1, <1>3, <1>4, <1>5, <1>7, FinishedFacts
  <2> QED
    BY <2>1, <2>2 DEF IInv, Sourced
<1>9. PICK g : g = [f EXCEPT !.next = @ + 1]
  OBVIOUS
<1>10. g \in Frame /\ g.src = f.src /\ g.dst = f.dst /\ g.next = f.next + 1
  BY <1>6, <1>9 DEF Frame
<1>11. /\ frames' = [Below EXCEPT ![j] = g]
       /\ heap' = heap /\ containers' = Put(f, d) /\ map' = map /\ shared' = shared
       /\ call' = call /\ calls' = calls /\ copies' = copies
  <2>1. /\ frames' = [Below EXCEPT ![Len(Below)].next = @ + 1]
        /\ containers' = Put(Below[Len(Below)], Top.dst)
    BY DEF CloneReturns
  <2>2. Below[Len(Below)] = f /\ j \in DOMAIN Below
    BY <1>4, <1>5
  <2> QED
    BY <1>4, <1>5, <1>9, <2>1, <2>2 DEF CloneReturns
<1>12. /\ frames' \in Seq(Frame) /\ Len(frames') = j /\ frames'[j] = g
       /\ \A i \in 1..(j - 1) : frames'[i] = frames[i]
  BY <1>4, <1>10, <1>11
<1>13. \A i \in DOMAIN frames : i > j => frames[i].next = Len(Refs(frames[i].src)) + 1
  <2>1. \A i \in DOMAIN frames : i > j => i = n
    BY <1>2, <1>3, <1>4
  <2> QED
    BY <1>1, <1>3, <2>1, FinishedFacts
<1> QED
  BY <1>4, <1>5, <1>6, <1>7, <1>8, <1>10, <1>11, <1>12, <1>13, PutInv

LEMMA CallReturnsInv ==
    IInv /\ CallReturns => IInv'
<1> SUFFICES ASSUME IInv, CallReturns PROVE IInv'
  OBVIOUS
<1>1. /\ Finished /\ Below = << >> /\ frames' = << >>
      /\ heap' = heap /\ containers' = containers /\ map' = map /\ call' = call /\ calls' = calls
  BY DEF CallReturns
<1>2. TypeOK /\ frames \in Seq(Frame) /\ Len(frames) \in DOMAIN frames
  BY <1>1, FinishedFacts DEF IInv
<1>3. Len(frames) = 1
  <2>1. Len(frames) \in Nat /\ Len(frames) # 0
    BY <1>2
  <2>2. PICK n : n = Len(frames) - 1
    OBVIOUS
  <2>3. n \in Nat /\ n <= Len(frames) /\ Below = SubSeq(frames, 1, n)
    BY <2>1, <2>2 DEF Below
  <2>4. Len(Below) = n
    BY <1>2, <2>1, <2>3
  <2>5. n = 0
    BY <1>1, <2>4
  <2> QED
    BY <2>1, <2>2, <2>5
<1>4. Frames' = {} /\ Frames = {Top} /\ Idle' /\ ~Idle
  <2>1. DOMAIN frames = {1} /\ Top = frames[1] /\ frames # << >>
    BY <1>2, <1>3 DEF Top
  <2> QED
    BY <1>1, <2>1 DEF Frames, Idle
<1>5. TypeOK'
  <2>1. shared' \in [IDs -> {0} \cup DOMAIN heap']
    BY <1>1, <1>2 DEF CallReturns, TypeOK
  <2>2. copies' \in Seq([source : DOMAIN heap', copy : DOMAIN heap'])
    <3>1. /\ copies \in Seq([source : DOMAIN heap, copy : DOMAIN heap])
          /\ [source |-> Top.src, copy |-> Top.dst] \in [source : DOMAIN heap, copy : DOMAIN heap]
      BY <1>1, <1>2, FinishedFacts DEF TypeOK
    <3>2. copies' = copies \/ copies' = Append(copies, [source |-> Top.src, copy |-> Top.dst])
      BY DEF CallReturns
    <3>3. PICK S, r : /\ S = [source : DOMAIN heap, copy : DOMAIN heap]
                      /\ r = [source |-> Top.src, copy |-> Top.dst]
      OBVIOUS
    <3>4. copies \in Seq(S) /\ r \in S /\ (copies' = copies \/ copies' = Append(copies, r))
      BY <3>1, <3>2, <3>3
    <3>5. copies' \in Seq(S)
      BY <3>4
    <3> QED
      BY <1>1, <3>3, <3>5
  <2>3. frames' \in Seq(Frame)
    BY <1>1
  <2> QED
    BY <1>1, <1>2, <1>4, <2>1, <2>2, <2>3 DEF TypeOK
<1>6. Private' /\ Nested' /\ Progress'
  BY <1>1, <1>4 DEF Private, Nested, Progress
<1>8. Cloned' = Cloned
  BY <1>1 DEF Cloned
<1>7. Owned' /\ Unique'
  BY <1>1, <1>8 DEF IInv, Owned, Unique, Deep, Holders
<1>9. Sourced'
  BY <1>1, <1>4, <1>8 DEF IInv, Sourced
<1>10. MapsOK'
  <2>1. Maps(map, call) /\ (call # 0 => Maps(shared, 0))
    BY <1>4 DEF IInv, MapsOK
  <2>2. Maps(shared, 0)'
    <3>1. CASE call = 0
      BY <1>1, <2>1, <3>1 DEF CallReturns, Maps
    <3>2. CASE call # 0
      BY <1>1, <2>1, <3>2 DEF CallReturns, Maps
    <3> QED
      BY <3>1, <3>2
  <2> QED
    BY <1>4, <2>2 DEF MapsOK
<1>11. WholeIsImage'
  <2> SUFFICES ASSUME NEW c \in Cloned PROVE Image(c)'
    BY <1>8 DEF WholeIsImage, Whole
  <2>1. Image(c)
    <3>1. CASE c \in Whole
      BY <3>1 DEF IInv, WholeIsImage
    <3>2. CASE c = Top.dst
      BY <1>1, <3>2, FinishedFacts
    <3> QED
      BY <1>4, <3>1, <3>2 DEF Whole
  <2> QED
    BY <1>1, <2>1 DEF Image, Alike
<1> QED
  BY <1>5, <1>6, <1>7, <1>9, <1>10, <1>11 DEF IInv

LEMMA CloneDetachedInv ==
    ASSUME IInv, NEW s \in DOMAIN heap, CloneDetached(s)
    PROVE  IInv'
<1>1. /\ Idle /\ calls' = calls + 1 /\ call' = calls + 1
      /\ Enter(Empty, calls + 1, s) /\ shared' = shared /\ copies' = copies
  BY DEF CloneDetached
<1>2. TypeOK /\ calls \in Nat
  BY DEF IInv, TypeOK
<1>3. PICK n : n = calls + 1
  OBVIOUS
<1>4. /\ n \in Nat /\ n # 0 /\ calls <= n /\ n <= n
      /\ \A t \in DOMAIN heap : heap[t].owner # n
  <2>1. n \in Nat /\ n # 0 /\ calls <= n /\ n <= n /\ ~(n <= calls)
    BY <1>2, <1>3
  <2> QED
    BY <2>1 DEF IInv, Owned
<1>5. Empty \in [IDs -> {0} \cup DOMAIN heap] /\ \A i \in IDs : Empty[i] = 0
  BY DEF Empty
<1>6. Maps(Empty, n)
  BY <1>4, <1>5 DEF Maps
<1>7. Empty[heap[s].id] = 0
  BY <1>2, <1>5, ShapeType
<1>8. Frames = {} /\ frames = << >>
  BY <1>1 DEF Idle, Frames
<1>9. Maps(shared, 0)
  BY <1>1 DEF IInv, MapsOK
<1>10. MayEnter(Empty, n, s)
  BY <1>1, <1>4, <1>5, <1>6, <1>7, <1>8, <1>9 DEF MayEnter
<1>11. Enter(Empty, n, s) /\ call' = n /\ calls' = n
  BY <1>1, <1>3
<1> QED
  BY <1>1, <1>4, <1>10, <1>11, EnterInv

LEMMA CloneInv ==
    ASSUME IInv, NEW s \in DOMAIN heap, Clone(s)
    PROVE  IInv'
<1>1. /\ Idle /\ calls' = calls + 1 /\ call' = 0
      /\ shared' = shared /\ copies' = copies
  BY DEF Clone
<1>2. TypeOK /\ calls \in Nat /\ calls + 1 \in Nat /\ 0 <= calls + 1 /\ calls <= calls + 1
  <2>1. TypeOK /\ calls \in Nat
    BY DEF IInv, TypeOK
  <2> QED
    BY <2>1
<1>3. Frames = {} /\ frames = << >> /\ Maps(shared, 0)
  BY <1>1 DEF Idle, Frames, IInv, MapsOK
<1>4. CASE shared[heap[s].id] = 0
  <2>1. Enter(shared, 0, s)
    BY <1>4 DEF Clone
  <2>2. heap[s].owner # 0
    <3>1. s # 0
      BY <1>2 DEF TypeOK
    <3> QED
      BY <1>3, <1>4, <3>1 DEF Maps
  <2>3. MayEnter(shared, 0, s)
    BY <1>1, <1>2, <1>3, <1>4, <2>2 DEF MayEnter, TypeOK
  <2>4. calls' \in Nat /\ calls <= calls' /\ 0 <= calls'
    BY <1>1, <1>2
  <2> QED
    BY <1>1, <2>1, <2>3, <2>4, EnterInv
<1>5. CASE shared[heap[s].id] # 0
  <2>1. heap' = heap /\ containers' = containers /\ map' = map /\ frames' = frames
    BY <1>5 DEF Clone
  <2>2. Frames' = {} /\ Cloned' = Cloned /\ Whole' = Whole /\ Idle'
    BY <1>1, <1>3, <2>1 DEF Frames, Cloned, Whole, Idle
  <2>3. TypeOK'
    BY <1>1, <1>2, <2>1, <2>2 DEF TypeOK
  <2>4. Owned'
    <3>1. \A t \in DOMAIN heap : heap[t].owner \in Nat => heap[t].owner <= calls'
      <4> SUFFICES ASSUME NEW t \in DOMAIN heap, heap[t].owner \in Nat PROVE heap[t].owner <= calls'
        OBVIOUS
      <4>1. heap[t].owner <= calls
        BY DEF IInv, Owned
      <4> QED
        BY <1>1, <1>2, <4>1
    <3>2. call' <= calls'
      BY <1>1, <1>2
    <3> QED
      BY <2>1, <3>1, <3>2 DEF IInv, Owned, Deep, Holders
  <2>5. Unique' /\ Sourced'
    BY <2>1, <2>2 DEF IInv, Unique, Sourced, Deep
  <2>6. MapsOK'
    BY <1>1, <1>3, <2>1, <2>2 DEF MapsOK, Maps
  <2>7. Private' /\ Nested' /\ Progress'
    BY <1>3, <2>1, <2>2 DEF Private, Nested, Progress
  <2>8. WholeIsImage'
    <3> SUFFICES ASSUME NEW c \in Whole PROVE Image(c)'
      BY <2>2 DEF WholeIsImage
    <3>1. /\ c \in DOMAIN heap /\ heap[c].source \in DOMAIN heap /\ Image(c)
          /\ DOMAIN heap \subseteq DOMAIN heap' /\ \A t \in DOMAIN heap : heap'[t] = heap[t]
      BY <1>2, <2>1, ConstantsAssumption DEF IInv, WholeIsImage, TypeOK, Whole, Cloned
    <3> QED
      BY <1>2, <2>1, <3>1, ImageKept
  <2> QED
    BY <2>3, <2>4, <2>5, <2>6, <2>7, <2>8 DEF IInv
<1> QED
  BY <1>4, <1>5

LEMMA CloneShallowInv ==
    ASSUME IInv, NEW s \in DOMAIN heap, CloneShallow(s)
    PROVE  IInv'
<1>1. /\ Idle /\ calls' = calls + 1
      /\ heap' = Append(heap, [heap[s] EXCEPT !.defs = Len(containers) + 1, !.source = s, !.owner = Shallow])
      /\ containers' = Append(containers, DefsOf(s))
      /\ map' = map /\ shared' = shared /\ frames' = frames /\ call' = call /\ copies' = copies
  BY DEF CloneShallow
<1>2. TypeOK /\ calls \in Nat /\ heap \in Seq(Shape) /\ heap[s] \in Shape
      /\ containers \in Seq(Seq(DOMAIN heap)) /\ Len(containers) \in Nat /\ Len(heap) \in Nat
      /\ DOMAIN containers = 1..Len(containers) /\ DOMAIN heap = 1..Len(heap)
      /\ DefsOf(s) \in Seq(DOMAIN heap)
  <2>1. TypeOK /\ calls \in Nat /\ heap \in Seq(Shape) /\ containers \in Seq(Seq(DOMAIN heap))
    BY DEF IInv, TypeOK
  <2>2. heap[s] \in Shape /\ DefsOf(s) \in Seq(DOMAIN heap)
    BY <2>1, ShapeType
  <2> QED
    BY <2>1, <2>2
<1>3. PICK N, C : N = Len(heap) + 1 /\ C = Len(containers) + 1
  OBVIOUS
<1>4. PICK r : r = [heap[s] EXCEPT !.defs = C, !.source = s, !.owner = Shallow]
  OBVIOUS
<1>5. /\ r \in Shape /\ r.defs = C /\ r.line = heap[s].line /\ r.parts = heap[s].parts
      /\ r.head = heap[s].head /\ r.source = s /\ r.owner = Shallow /\ r.id = heap[s].id
  <2>1. C \in Nat /\ s \in Nat
    BY <1>2, <1>3
  <2> QED
    BY <1>2, <1>4, <2>1 DEF Shape
<1>6. /\ heap' \in Seq(Shape) /\ heap'[N] = r /\ N \notin DOMAIN heap
      /\ DOMAIN heap' = DOMAIN heap \cup {N}
      /\ \A t \in DOMAIN heap : heap'[t] = heap[t]
  <2>1. heap' = Append(heap, r)
    BY <1>1, <1>3, <1>4
  <2>2. /\ heap' \in Seq(Shape) /\ heap'[N] = r /\ DOMAIN heap' = 1..N
        /\ \A t \in DOMAIN heap : heap'[t] = heap[t]
    BY <1>2, <1>3, <1>5, <2>1
  <2>3. 1..N = 1..Len(heap) \cup {N} /\ N \notin 1..Len(heap)
    BY <1>2, <1>3
  <2> QED
    BY <1>2, <2>2, <2>3
<1>7. /\ containers' \in Seq(Seq(DOMAIN heap')) /\ containers'[C] = DefsOf(s)
      /\ C \notin DOMAIN containers
      /\ DOMAIN containers' = DOMAIN containers \cup {C}
      /\ \A c \in DOMAIN containers : containers'[c] = containers[c]
  <2>1. PICK S : S = Seq(DOMAIN heap')
    OBVIOUS
  <2>2. Seq(DOMAIN heap) \subseteq S
    BY <1>6, <2>1, Widened
  <2>3. containers \in Seq(S) /\ DefsOf(s) \in S
    BY <1>2, <2>2, Widened
  <2>4. /\ containers' \in Seq(S) /\ containers'[C] = DefsOf(s) /\ DOMAIN containers' = 1..C
        /\ \A c \in DOMAIN containers : containers'[c] = containers[c]
    BY <1>1, <1>2, <1>3, <2>3
  <2>5. 1..C = 1..Len(containers) \cup {C} /\ C \notin 1..Len(containers)
    BY <1>2, <1>3
  <2> QED
    BY <1>2, <2>1, <2>4, <2>5
<1>8. Frames = {} /\ Frames' = {} /\ frames' = << >> /\ Idle' /\ Maps(shared, 0)
  BY <1>1 DEF Idle, Frames, IInv, MapsOK
<1>9. \A t \in DOMAIN heap :
         /\ Holders(t)' = Holders(t) /\ Holders(t) \subseteq DOMAIN containers
         /\ heap[t].head \in {0} \cup DOMAIN heap
         /\ heap[t].owner = Original \/ heap[t].source \in DOMAIN heap
         /\ heap[t].id \in IDs
  BY <1>2, <1>6, ShapeType DEF TypeOK, Holders
<1>10. Shallow \notin Nat /\ Shallow # Original /\ Original \notin Nat
  BY ConstantsAssumption
<1>11. TypeOK'
  <2>1. \A t \in DOMAIN heap' :
          /\ {heap'[t].defs, heap'[t].line, heap'[t].parts} \subseteq DOMAIN containers'
          /\ heap'[t].head \in {0} \cup DOMAIN heap'
          /\ heap'[t].owner = Original \/ heap'[t].source \in DOMAIN heap'
    <3> TAKE t \in DOMAIN heap'
    <3>1. CASE t = N
      <4>1. heap[s].line \in DOMAIN containers /\ heap[s].parts \in DOMAIN containers
        BY <1>2, ShapeType
      <4> QED
        BY <1>5, <1>6, <1>7, <1>9, <3>1, <4>1
    <3>2. CASE t \in DOMAIN heap
      BY <1>6, <1>7, <1>9, <3>2 DEF Holders
    <3> QED
      BY <1>6, <3>1, <3>2
  <2>2. map' \in [IDs -> {0} \cup DOMAIN heap'] /\ shared' \in [IDs -> {0} \cup DOMAIN heap']
    BY <1>1, <1>2, <1>6 DEF TypeOK
  <2>3. copies' \in Seq([source : DOMAIN heap', copy : DOMAIN heap'])
    <3>1. copies \in Seq([source : DOMAIN heap, copy : DOMAIN heap])
      BY <1>2 DEF TypeOK
    <3>2. [source : DOMAIN heap, copy : DOMAIN heap] \subseteq [source : DOMAIN heap', copy : DOMAIN heap']
      BY <1>6
    <3>3. PICK S, T : /\ S = [source : DOMAIN heap, copy : DOMAIN heap]
                      /\ T = [source : DOMAIN heap', copy : DOMAIN heap']
      OBVIOUS
    <3>4. copies \in Seq(S) /\ S \subseteq T
      BY <3>1, <3>2, <3>3
    <3>5. copies \in Seq(T)
      BY <3>4, Widened
    <3> QED
      BY <1>1, <3>3, <3>5
  <2>4. call' \in Nat /\ calls' \in Nat /\ frames' \in Seq(Frame)
    BY <1>1, <1>2 DEF TypeOK
  <2> QED
    BY <1>6, <1>7, <1>8, <2>1, <2>2, <2>3, <2>4 DEF TypeOK
<1>12. Private' /\ Nested' /\ Progress'
  BY <1>8 DEF Private, Nested, Progress
<1>13. Owned'
  <2>1. call' <= calls'
    <3>1. call <= calls /\ call \in Nat
      BY <1>2 DEF IInv, Owned, TypeOK
    <3> QED
      BY <1>1, <1>2, <3>1
  <2>2. \A t \in DOMAIN heap' : heap'[t].owner \in Nat => heap'[t].owner <= calls'
    <3> SUFFICES ASSUME NEW t \in DOMAIN heap', heap'[t].owner \in Nat PROVE heap'[t].owner <= calls'
      OBVIOUS
    <3>1. t \in DOMAIN heap /\ heap'[t] = heap[t]
      BY <1>5, <1>6, <1>10
    <3>2. heap[t].owner <= calls
      BY <3>1 DEF IInv, Owned
    <3> QED
      BY <1>1, <1>2, <3>1, <3>2
  <2>3. \A t \in DOMAIN heap' : Deep(t)' =>
          \A c \in Holders(t)' : \A k \in DOMAIN containers'[c] :
             heap'[containers'[c][k]].owner = heap'[t].owner
    <3> SUFFICES ASSUME NEW t \in DOMAIN heap', Deep(t)',
                        NEW c \in Holders(t)', NEW k \in DOMAIN containers'[c]
                 PROVE  heap'[containers'[c][k]].owner = heap'[t].owner
      OBVIOUS
    <3>1. t \in DOMAIN heap /\ heap'[t] = heap[t] /\ Deep(t)
      BY <1>5, <1>6 DEF Deep
    <3>2. c \in Holders(t) /\ c \in DOMAIN containers /\ containers'[c] = containers[c]
      BY <1>7, <1>9, <3>1
    <3>3. heap[containers[c][k]].owner = heap[t].owner
      BY <3>1, <3>2 DEF IInv, Owned
    <3>4. containers[c][k] \in DOMAIN heap
      BY <1>2, <3>2 DEF TypeOK
    <3> QED
      BY <1>6, <3>1, <3>2, <3>3, <3>4
  <2> QED
    BY <2>1, <2>2, <2>3 DEF Owned
<1>15. Cloned' = Cloned
  BY <1>5, <1>6, <1>10 DEF Cloned
<1>14. Unique'
  <2>1. \A c \in Cloned : heap'[c] = heap[c]
    BY <1>6 DEF Cloned
  <2> QED
    BY <1>15, <2>1 DEF IInv, Unique
<1>16. \A c \in Cloned : /\ c \in DOMAIN heap /\ heap'[c] = heap[c]
                         /\ heap[c].source \in DOMAIN heap
                         /\ heap'[heap[c].source] = heap[heap[c].source]
  BY <1>6, <1>9, <1>10 DEF Cloned
<1>17. Sourced'
  BY <1>8, <1>15, <1>16 DEF IInv, Sourced
<1>18. MapsOK'
  <2>1. shared \in [IDs -> {0} \cup DOMAIN heap]
    BY <1>2 DEF TypeOK
  <2>2. \A i \in IDs : shared'[i] # 0 => heap'[shared'[i]].owner = 0 /\ heap'[shared'[i]].id = i
    BY <1>1, <1>6, <1>8, <2>1 DEF Maps
  <2>3. \A c \in DOMAIN heap' : heap'[c].owner = 0 => shared'[heap'[c].id] = c
    BY <1>1, <1>5, <1>6, <1>8, <1>10 DEF Maps
  <2> QED
    BY <1>8, <2>2, <2>3 DEF MapsOK, Maps
<1>19. WholeIsImage'
  <2> SUFFICES ASSUME NEW c \in Whole PROVE Image(c)'
    BY <1>8, <1>15 DEF WholeIsImage, Whole
  <2>1. c \in Cloned /\ Image(c)
    BY DEF IInv, WholeIsImage, Whole
  <2>2. \A h \in Holders(c) \cup Holders(heap[c].source) : containers'[h] = containers[h]
    BY <1>7, <1>9, <1>16, <2>1
  <2> QED
    BY <1>2, <1>6, <1>16, <2>1, <2>2, ImageKept
<1> QED
  BY <1>11, <1>12, <1>13, <1>14, <1>17, <1>18, <1>19 DEF IInv

LEMMA NextInv ==
    IInv /\ [Next]_vars => IInv'
<1> SUFFICES ASSUME IInv, [Next]_vars PROVE IInv'
  OBVIOUS
<1>1. CASE \E s \in DOMAIN heap : CloneDetached(s) \/ Clone(s) \/ CloneShallow(s)
  BY <1>1, CloneDetachedInv, CloneInv, CloneShallowInv
<1>2. CASE Work
  BY <1>2, ReuseCopyInv, CloneRefInv, CloneReturnsInv, CallReturnsInv DEF Work
<1>3. CASE UNCHANGED vars
  <2>1. /\ heap' = heap /\ containers' = containers /\ map' = map /\ shared' = shared
        /\ frames' = frames /\ call' = call /\ calls' = calls /\ copies' = copies
    BY <1>3 DEF vars
  <2>2. Frames' = Frames
    BY <2>1 DEF Frames
  <2>3. Cloned' = Cloned /\ Whole' = Whole
    BY <2>1, <2>2 DEF Cloned, Whole
  <2>4. TypeOK'
    BY <2>1, <2>2 DEF IInv, TypeOK
  <2>5. Private'
    BY <2>1, <2>2 DEF IInv, Private, Holders
  <2>6. Owned' /\ Unique'
    BY <2>1, <2>3 DEF IInv, Owned, Unique, Deep, Holders
  <2>7. Sourced'
    BY <2>1, <2>2, <2>3 DEF IInv, Sourced
  <2>8. MapsOK'
    BY <2>1 DEF IInv, MapsOK, Maps, Idle
  <2>9. Nested'
    <3>1. \A s : Refs(s)' = Refs(s)
      BY <2>1 DEF Refs, DefsOf, LineOf, PartsOf
    <3> QED
      BY <2>1, <2>2, <3>1 DEF IInv, Nested
  <2>10. Progress'
    <3> SUFFICES ASSUME NEW f \in Frames PROVE Copied(f)'
      BY <2>2 DEF Progress
    <3>1. TypeOK /\ Copied(f)
      BY DEF IInv, Progress
    <3> QED
      BY <2>1, <3>1, CopiedKept
  <2>11. WholeIsImage'
    <3> SUFFICES ASSUME NEW c \in Whole PROVE Image(c)'
      BY <2>3 DEF WholeIsImage
    <3>1. TypeOK
      BY DEF IInv
    <3>2. /\ c \in DOMAIN heap /\ heap[c].source \in DOMAIN heap /\ Image(c)
          /\ DOMAIN heap \subseteq DOMAIN heap' /\ \A t \in DOMAIN heap : heap'[t] = heap[t]
      BY <2>1, <3>1, ConstantsAssumption DEF IInv, WholeIsImage, TypeOK, Whole, Cloned
    <3> QED
      BY <2>1, <3>1, <3>2, ImageKept
  <2> QED
    BY <2>4, <2>5, <2>6, <2>7, <2>8, <2>9, <2>10, <2>11 DEF IInv
<1>4. CASE Over
  BY <1>3, <1>4 DEF Over
<1> QED
  BY <1>1, <1>2, <1>3, <1>4 DEF Next

LEMMA Invariance ==
    Spec => []IInv
<1>1. Init => IInv
  BY InitInv
<1>2. IInv /\ [Next]_vars => IInv'
  BY NextInv
<1> QED
  BY <1>1, <1>2, PTL DEF Spec

-----------------------------------------------------------------------------
(***************************************************************************)
(* Independence.  Containers are never shared by deep shapes, and the      *)
(* copies of a call can all be reached from the one it returns: each is    *)
(* put into a copy that is older, so going back along the oldest reference *)
(* ends at the first.                                                      *)
(***************************************************************************)

\* Two deep shapes have no slice or map in common.
Apart ==
    \A s, t \in DOMAIN heap : s # t /\ Deep(s) /\ Deep(t) => Holders(s) \cap Holders(t) = {}

\* t is among the references of s.
Mentions(s, t) == \E h \in Holders(s) : \E k \in DOMAIN containers[h] : containers[h][k] = t

\* A copy is made after the copies it is made for.
Climbing == \A j, k \in DOMAIN frames : j < k => frames[j].dst < frames[k].dst

\* An earlier copy of the same call refers to c.
Mentioned(c) == \E d \in DOMAIN heap : d < c /\ heap[d].owner = heap[c].owner /\ Mentions(d, c)

\* A copy is mentioned, or in the making, or what the call returned.
Grounded ==
    \A c \in Cloned : heap[c].owner # 0 =>
        \/ Mentioned(c)
        \/ \E f \in Frames : f.dst = c
        \/ \E i \in DOMAIN copies : copies[i].copy = c

\* One copy is returned of each call, when the call is over.
Returned ==
    \A i \in DOMAIN copies :
        /\ heap[copies[i].copy].owner \in Nat \ {0}
        /\ Idle \/ heap[copies[i].copy].owner # call
        /\ \A j \in DOMAIN copies : heap[copies[j].copy].owner = heap[copies[i].copy].owner => j = i

Rooted == Apart /\ Climbing /\ Grounded /\ Returned

LEMMA HoldersExist ==
    ASSUME TypeOK, NEW s \in DOMAIN heap
    PROVE  Holders(s) \subseteq DOMAIN containers
BY ShapeType DEF Holders

LEMMA CopiesExist ==
    ASSUME TypeOK, NEW i \in DOMAIN copies
    PROVE  copies[i].copy \in DOMAIN heap
<1>1. copies \in Seq([source : DOMAIN heap, copy : DOMAIN heap])
  BY DEF TypeOK
<1>2. PICK S : S = [source : DOMAIN heap, copy : DOMAIN heap]
  OBVIOUS
<1>3. copies \in Seq(S)
  BY <1>1, <1>2
<1>4. copies[i] \in S
  BY <1>3
<1> QED
  BY <1>2, <1>4

LEMMA DomainsType ==
    ASSUME TypeOK
    PROVE  /\ DOMAIN heap = 1..Len(heap) /\ Len(heap) \in Nat
           /\ DOMAIN frames = 1..Len(frames) /\ Len(frames) \in Nat
           /\ DOMAIN copies = 1..Len(copies) /\ Len(copies) \in Nat
           /\ DOMAIN containers = 1..Len(containers) /\ Len(containers) \in Nat
<1>1. heap \in Seq(Shape)                        BY DEF TypeOK
<1>2. frames \in Seq(Frame)                      BY DEF TypeOK
<1>3. containers \in Seq(Seq(DOMAIN heap))       BY DEF TypeOK
<1>4. copies \in Seq([source : DOMAIN heap, copy : DOMAIN heap])  BY DEF TypeOK
<1>5. Len(copies) \in Nat /\ DOMAIN copies = 1..Len(copies)  BY <1>4
<1> QED
  BY <1>1, <1>2, <1>3, <1>5

\* What is mentioned stays mentioned while containers grow.
LEMMA MentionedKept ==
    ASSUME TypeOK, NEW c \in DOMAIN heap, Mentioned(c),
           DOMAIN heap \subseteq DOMAIN heap',
           \A t \in DOMAIN heap : heap'[t] = heap[t],
           \A h \in DOMAIN containers : \A k \in DOMAIN containers[h] :
              k \in DOMAIN containers'[h] /\ containers'[h][k] = containers[h][k]
    PROVE  Mentioned(c)'
<1>1. PICK d \in DOMAIN heap : d < c /\ heap[d].owner = heap[c].owner /\ Mentions(d, c)
  BY DEF Mentioned
<1>2. PICK h \in Holders(d) : \E k \in DOMAIN containers[h] : containers[h][k] = c
  BY <1>1 DEF Mentions
<1>3. h \in DOMAIN containers
  BY <1>2, HoldersExist
<1>4. h \in Holders(d)' /\ \E k \in DOMAIN containers'[h] : containers'[h][k] = c
  BY <1>2, <1>3 DEF Holders
<1>5. Mentions(d, c)'
  BY <1>4 DEF Mentions
<1> QED
  BY <1>1, <1>5 DEF Mentioned

LEMMA InitRooted ==
    Init => Rooted
<1> SUFFICES ASSUME Init PROVE Rooted
  OBVIOUS
<1>1. PICK g \in Graphs :
        /\ heap = [s \in DOMAIN g |->
                     [ id |-> g[s].id, defs |-> 3 * s - 2, line |-> 3 * s - 1, parts |-> 3 * s,
                       head |-> g[s].head, source |-> 0, owner |-> Original ]]
  BY DEF Init
<1>2. frames = << >> /\ copies = << >>
  BY DEF Init
<1>3. DOMAIN heap \subseteq Nat
  BY <1>1, ConstantsAssumption
<1>4. \A s \in DOMAIN heap : heap[s].owner = Original /\ Holders(s) = {3 * s - 2, 3 * s - 1, 3 * s}
  <2> TAKE s \in DOMAIN heap
  <2> DEFINE d == 3 * s - 2
             l == 3 * s - 1
             p == 3 * s
  <2>1. heap[s] = [ id |-> g[s].id, defs |-> d, line |-> l, parts |-> p, head |-> g[s].head,
                    source |-> 0, owner |-> Original ]
    BY <1>1
  <2> HIDE DEF d, l, p
  <2>2. /\ heap[s].defs = d /\ heap[s].line = l
        /\ heap[s].parts = p /\ heap[s].owner = Original
    BY <2>1
  <2> QED
    BY <2>2 DEF d, l, p, Holders
<1>5. Apart
  <2> SUFFICES ASSUME NEW s \in DOMAIN heap, NEW t \in DOMAIN heap, s # t
               PROVE  Holders(s) \cap Holders(t) = {}
    BY DEF Apart
  <2>1. s \in Nat /\ t \in Nat
    BY <1>3
  <2>2. \A x \in {3 * s - 2, 3 * s - 1, 3 * s}, y \in {3 * t - 2, 3 * t - 1, 3 * t} : x # y
    BY <2>1
  <2> QED
    BY <1>4, <2>2
<1>6. Cloned = {}
  BY <1>4, ConstantsAssumption DEF Cloned
<1>7. DOMAIN frames = {} /\ DOMAIN copies = {}
  BY <1>2
<1> QED
  BY <1>5, <1>6, <1>7 DEF Rooted, Climbing, Grounded, Returned

LEMMA EnterRooted ==
    ASSUME IInv, Rooted, NEW m, NEW n \in Nat, NEW s \in DOMAIN heap, Enter(m, n, s),
           call' = n, copies' = copies,
           \A i \in DOMAIN copies : heap[copies[i].copy].owner # n
    PROVE  Rooted'
<1>0. PICK N : N = Len(heap) + 1
  OBVIOUS
<1>1. TypeOK
  BY DEF IInv
<1>2. /\ N \notin DOMAIN heap /\ DOMAIN heap' = DOMAIN heap \cup {N}
      /\ \A t \in DOMAIN heap : heap'[t] = heap[t]
      /\ heap'[N] = [ id     |-> heap[s].id,
                      defs   |-> Len(containers) + 1,
                      line   |-> Len(containers) + 2,
                      parts  |-> Len(containers) + 3,
                      head   |-> heap[s].head,
                      source |-> s,
                      owner  |-> n ]
      /\ Len(containers) \in Nat
      /\ DOMAIN containers = 1..Len(containers)
      /\ \A c \in DOMAIN containers : containers'[c] = containers[c]
  BY <1>0, <1>1, EnterFacts
<1>3. heap'[N].owner = n /\ \A h \in Holders(N)' : h \notin DOMAIN containers
  <2> DEFINE d == Len(containers) + 1
             l == Len(containers) + 2
             p == Len(containers) + 3
  <2>1. d \notin DOMAIN containers /\ l \notin DOMAIN containers /\ p \notin DOMAIN containers
    BY <1>2
  <2>2. heap'[N] = [ id |-> heap[s].id, defs |-> d, line |-> l, parts |-> p, head |-> heap[s].head,
                     source |-> s, owner |-> n ]
    BY <1>2
  <2> HIDE DEF d, l, p
  <2>3. heap'[N].defs = d /\ heap'[N].line = l /\ heap'[N].parts = p /\ heap'[N].owner = n
    BY <2>2
  <2>4. Holders(N)' = {d, l, p}
    BY <2>3 DEF Holders
  <2> QED
    BY <2>1, <2>3, <2>4
<1>4. \A t \in DOMAIN heap : Holders(t)' = Holders(t) /\ Holders(t) \subseteq DOMAIN containers
  BY <1>1, <1>2, HoldersExist DEF Holders
<1>5. /\ DOMAIN heap = 1..Len(heap) /\ Len(heap) \in Nat
      /\ DOMAIN frames = 1..Len(frames) /\ Len(frames) \in Nat
      /\ frames \in Seq(Frame)
  BY <1>1, DomainsType DEF TypeOK
<1>6. PICK r : r = [src |-> s, dst |-> N, next |-> 1]
  OBVIOUS
<1>7. frames' = Append(frames, r) /\ r.dst = N
  BY <1>0, <1>6 DEF Enter
<1>8. /\ DOMAIN frames' = DOMAIN frames \cup {Len(frames) + 1}
      /\ Len(frames) + 1 \notin DOMAIN frames
      /\ frames'[Len(frames) + 1] = r
      /\ \A k \in DOMAIN frames : frames'[k] = frames[k]
  <2>1. r \in Frame
    BY <1>0, <1>5, <1>6 DEF Frame
  <2> QED
    BY <1>5, <1>7, <2>1
<1>9. Apart'
  <2> SUFFICES ASSUME NEW t \in DOMAIN heap', NEW u \in DOMAIN heap', t # u, Deep(t)', Deep(u)'
               PROVE  Holders(t)' \cap Holders(u)' = {}
    BY DEF Apart
  <2>1. CASE t = N
    <3>1. u \in DOMAIN heap
      BY <1>2, <2>1
    <3> QED
      BY <1>3, <1>4, <2>1, <3>1
  <2>3. CASE u = N
    <3>1. t \in DOMAIN heap
      BY <1>2, <2>3
    <3> QED
      BY <1>3, <1>4, <2>3, <3>1
  <2>2. CASE t # N /\ u # N
    <3>1. t \in DOMAIN heap /\ u \in DOMAIN heap /\ Deep(t) /\ Deep(u)
      BY <1>2, <2>2 DEF Deep
    <3> QED
      BY <1>4, <3>1 DEF Rooted, Apart
  <2> QED
    BY <2>1, <2>2, <2>3
<1>10. \A k \in DOMAIN frames : frames[k].dst \in DOMAIN heap
  BY <1>1, FrameType DEF Frames
<1>11. Climbing'
  <2> SUFFICES ASSUME NEW j \in DOMAIN frames', NEW k \in DOMAIN frames', j < k
               PROVE  frames'[j].dst < frames'[k].dst
    BY DEF Climbing
  <2>1. j \in DOMAIN frames
    BY <1>5, <1>8
  <2>2. CASE k \in DOMAIN frames
    BY <1>8, <2>1, <2>2 DEF Rooted, Climbing
  <2>3. CASE k = Len(frames) + 1
    <3>1. frames[j].dst \in 1..Len(heap) /\ frames'[k].dst = N
      BY <1>5, <1>7, <1>8, <1>10, <2>1, <2>3
    <3> QED
      BY <1>0, <1>5, <1>8, <2>1, <3>1
  <2> QED
    BY <1>8, <2>2, <2>3
<1>12. Grounded'
  <2> SUFFICES ASSUME NEW c \in Cloned', heap'[c].owner # 0
               PROVE  \/ Mentioned(c)'
                      \/ \E f \in Frames' : f.dst = c
                      \/ \E i \in DOMAIN copies : copies[i].copy = c
    BY DEF Grounded
  <2>1. CASE c = N
    BY <1>7, <1>8, <2>1 DEF Frames
  <2>2. CASE c # N
    <3>1. c \in DOMAIN heap /\ c \in Cloned /\ heap[c].owner # 0
      BY <1>2, <2>2 DEF Cloned
    <3>2. CASE Mentioned(c)
      <4>1. \A h \in DOMAIN containers : containers'[h] = containers[h]
        BY <1>2
      <4> QED
        BY <1>1, <1>2, <3>1, <3>2, <4>1, MentionedKept
    <3>3. CASE \E f \in Frames : f.dst = c
      BY <1>8, <3>3 DEF Frames
    <3> QED
      BY <3>1, <3>2, <3>3 DEF Rooted, Grounded
  <2> QED
    BY <2>1, <2>2
<1>13. Returned'
  <2>1. \A i \in DOMAIN copies : copies[i].copy \in DOMAIN heap
    BY <1>1, CopiesExist
  <2>2. \A i \in DOMAIN copies : heap'[copies[i].copy] = heap[copies[i].copy]
    BY <1>2, <2>1
  <2> QED
    BY <2>2 DEF Rooted, Returned
<1> QED
  BY <1>9, <1>11, <1>12, <1>13 DEF Rooted

\* Frame j has put d where it belongs; the frames above it are gone.
LEMMA PutRooted ==
    ASSUME IInv, Rooted, NEW j \in DOMAIN frames, NEW f \in Frames, f = frames[j],
           NEW d \in DOMAIN heap, heap[d].owner = call,
           heap' = heap, containers' = Put(f, d), call' = call, copies' = copies,
           Len(frames') = j, frames' \in Seq(Frame),
           \A i \in 1..j : frames'[i].dst = frames[i].dst,
           \A i \in DOMAIN frames : i > j => frames[i].dst = d
    PROVE  Rooted'
<1>1. TypeOK
  BY DEF IInv
<1> DEFINE h == Holder(f.src, f.next, heap[f.dst])
<1>2. /\ h \in Holders(f.dst) /\ h \in DOMAIN containers
      /\ containers'[h] = Append(containers[h], d)
      /\ \A c \in DOMAIN containers \ {h} : containers'[c] = containers[c]
  BY <1>1, PutFacts
<1> HIDE DEF h
<1>3. containers \in Seq(Seq(DOMAIN heap))
  BY <1>1 DEF TypeOK
<1>4. containers[h] \in Seq(DOMAIN heap)
  BY <1>2, <1>3
<1>5. \A c \in DOMAIN containers : \A k \in DOMAIN containers[c] :
         k \in DOMAIN containers'[c] /\ containers'[c][k] = containers[c][k]
  <2>1. \A k \in DOMAIN containers[h] :
           k \in DOMAIN containers'[h] /\ containers'[h][k] = containers[h][k]
    BY <1>2, <1>4
  <2> QED
    BY <1>2, <2>1
<1>6. \E k \in DOMAIN containers'[h] : containers'[h][k] = d
  BY <1>2, <1>4
<1>7. DOMAIN frames = 1..Len(frames) /\ Len(frames) \in Nat /\ DOMAIN frames' = 1..j /\ j \in 1..Len(frames)
  BY <1>1, DomainsType
<1>8. Apart'
  BY DEF Rooted, Apart, Holders, Deep
<1>9. Climbing'
  BY <1>7 DEF Rooted, Climbing
<1>10. Grounded'
  <2> SUFFICES ASSUME NEW c \in Cloned, heap[c].owner # 0
               PROVE  \/ Mentioned(c)'
                      \/ \E g \in Frames' : g.dst = c
                      \/ \E i \in DOMAIN copies : copies[i].copy = c
    BY DEF Grounded, Cloned
  <2>1. CASE Mentioned(c)
    <3>1. c \in DOMAIN heap
      BY DEF Cloned
    <3> QED
      BY <1>1, <1>5, <2>1, <3>1, MentionedKept
  <2>2. CASE \E g \in Frames : g.dst = c
    <3>1. PICK i \in DOMAIN frames : frames[i].dst = c
      BY <2>2 DEF Frames
    <3>2. CASE i <= j
      <4>1. i \in DOMAIN frames' /\ frames'[i].dst = c
        BY <1>7, <3>1, <3>2
      <4> QED
        BY <4>1 DEF Frames
    <3>3. CASE i > j
      <4>1. c = d /\ f.dst < d
        BY <3>1, <3>3 DEF Rooted, Climbing
      <4>2. f.dst \in DOMAIN heap /\ heap[f.dst].owner = call
        BY <1>1, FrameType DEF IInv, Nested
      <4>3. Mentions(f.dst, c)'
        <5>1. h \in Holders(f.dst)'
          BY <1>2 DEF Holders
        <5> QED
          BY <1>6, <4>1, <5>1 DEF Mentions
      <4>4. Mentioned(c)'
        BY <4>1, <4>2, <4>3 DEF Mentioned
      <4> QED
        BY <4>4
    <3> QED
      BY <1>7, <3>1, <3>2, <3>3
  <2> QED
    BY <2>1, <2>2 DEF Rooted, Grounded
<1>11. Returned'
  <2>1. ~Idle
    BY <1>7 DEF Idle
  <2> QED
    BY <2>1 DEF Rooted, Returned
<1> QED
  BY <1>8, <1>9, <1>10, <1>11 DEF Rooted

LEMMA ReuseCopyRooted ==
    IInv /\ Rooted /\ ReuseCopy => Rooted'
<1> SUFFICES ASSUME IInv, Rooted, ReuseCopy PROVE Rooted'
  OBVIOUS
<1>1. Working /\ map[heap[Pending].id] # 0
  BY DEF ReuseCopy
<1>2. TypeOK /\ frames \in Seq(Frame)
  BY DEF IInv, TypeOK
<1>3. PICK f, j, d : f = Top /\ j = Len(frames) /\ d = map[heap[Pending].id]
  OBVIOUS
<1>4. j \in DOMAIN frames /\ f \in Frames /\ f = frames[j] /\ f \in Frame
  BY <1>1, <1>2, <1>3, WorkingFacts, FrameType
<1>5. d \in DOMAIN heap /\ heap[d].owner = call
  BY <1>1, <1>3, WorkingFacts DEF Maps
<1>6. PICK g : g = [f EXCEPT !.next = @ + 1]
  OBVIOUS
<1>7. g \in Frame /\ g.dst = f.dst
  BY <1>4, <1>6 DEF Frame
<1>8. /\ frames' = [frames EXCEPT ![j] = g]
      /\ heap' = heap /\ containers' = Put(f, d) /\ call' = call /\ copies' = copies
  <2>1. frames' = [frames EXCEPT ![Len(frames)].next = @ + 1]
    BY DEF ReuseCopy
  <2> QED
    BY <1>3, <1>4, <1>6, <2>1 DEF ReuseCopy
<1>9. /\ frames' \in Seq(Frame) /\ Len(frames') = j
      /\ \A i \in 1..j : frames'[i].dst = frames[i].dst
  BY <1>2, <1>3, <1>4, <1>7, <1>8
<1>10. \A i \in DOMAIN frames : i > j => frames[i].dst = d
  BY <1>2, <1>3
<1> QED
  BY <1>4, <1>5, <1>8, <1>9, <1>10, PutRooted

LEMMA CloneReturnsRooted ==
    IInv /\ Rooted /\ CloneReturns => Rooted'
<1> SUFFICES ASSUME IInv, Rooted, CloneReturns PROVE Rooted'
  OBVIOUS
<1>1. Finished /\ Below # << >>
  BY DEF CloneReturns
<1>2. TypeOK /\ frames \in Seq(Frame) /\ Len(frames) \in Nat /\ Len(frames) \in DOMAIN frames
  BY <1>1, FinishedFacts DEF IInv
<1>3. PICK n, j : n = Len(frames) /\ j = Len(frames) - 1
  OBVIOUS
<1>4. /\ j \in 1..(n - 1) /\ j \in DOMAIN frames
      /\ Below \in Seq(Frame) /\ Len(Below) = j
      /\ \A i \in 1..j : Below[i] = frames[i]
  <2>1. Below = SubSeq(frames, 1, j) /\ j \in Nat
    BY <1>2, <1>3 DEF Below
  <2>2. Below \in Seq(Frame) /\ Len(Below) = j /\ \A i \in 1..j : Below[i] = frames[i]
    BY <1>2, <1>3, <2>1
  <2>3. j # 0
    BY <1>1, <2>2
  <2> QED
    BY <1>2, <1>3, <2>1, <2>2, <2>3
<1>5. PICK f, d : f = frames[j] /\ d = Top.dst
  OBVIOUS
<1>6. f \in Frames /\ f \in Frame /\ d \in DOMAIN heap /\ heap[d].owner = call
  BY <1>1, <1>2, <1>4, <1>5, FinishedFacts, FrameType DEF Frames
<1>7. PICK g : g = [f EXCEPT !.next = @ + 1]
  OBVIOUS
<1>8. g \in Frame /\ g.dst = f.dst
  BY <1>6, <1>7 DEF Frame
<1>9. /\ frames' = [Below EXCEPT ![j] = g]
      /\ heap' = heap /\ containers' = Put(f, d) /\ call' = call /\ copies' = copies
  <2>1. /\ frames' = [Below EXCEPT ![Len(Below)].next = @ + 1]
        /\ containers' = Put(Below[Len(Below)], Top.dst)
    BY DEF CloneReturns
  <2>2. Below[Len(Below)] = f /\ j \in DOMAIN Below
    BY <1>4, <1>5
  <2> QED
    BY <1>4, <1>5, <1>7, <2>1, <2>2 DEF CloneReturns
<1>10. /\ frames' \in Seq(Frame) /\ Len(frames') = j
       /\ \A i \in 1..j : frames'[i].dst = frames[i].dst
  BY <1>4, <1>5, <1>8, <1>9
<1>11. \A i \in DOMAIN frames : i > j => frames[i].dst = d
  <2>1. \A i \in DOMAIN frames : i > j => i = n
    BY <1>2, <1>3, <1>4
  <2> QED
    BY <1>1, <1>3, <1>5, <2>1, FinishedFacts
<1> QED
  BY <1>4, <1>5, <1>6, <1>9, <1>10, <1>11, PutRooted

LEMMA CallReturnsRooted ==
    IInv /\ Rooted /\ CallReturns => Rooted'
<1> SUFFICES ASSUME IInv, Rooted, CallReturns PROVE Rooted'
  OBVIOUS
<1>1. /\ Finished /\ Below = << >> /\ frames' = << >>
      /\ heap' = heap /\ containers' = containers /\ call' = call
  BY DEF CallReturns
<1>2. TypeOK /\ frames \in Seq(Frame) /\ Len(frames) \in DOMAIN frames
  BY <1>1, FinishedFacts DEF IInv
<1>3. /\ Top.dst \in DOMAIN heap /\ heap[Top.dst].owner = call /\ call \in Nat
      /\ Top = frames[Len(frames)]
  BY <1>1, <1>2, FinishedFacts DEF TypeOK
<1>4. Len(frames) = 1
  <2>1. Len(frames) \in Nat /\ Len(frames) # 0
    BY <1>2
  <2>2. PICK n : n = Len(frames) - 1
    OBVIOUS
  <2>3. n \in Nat /\ n <= Len(frames) /\ Below = SubSeq(frames, 1, n)
    BY <2>1, <2>2 DEF Below
  <2>4. Len(Below) = n
    BY <1>2, <2>1, <2>3
  <2>5. n = 0
    BY <1>1, <2>4
  <2> QED
    BY <2>1, <2>2, <2>5
<1>5. Frames' = {} /\ Frames = {Top} /\ Idle' /\ ~Idle
  <2>1. DOMAIN frames = {1} /\ Top = frames[1] /\ frames # << >>
    <3>1. DOMAIN frames = {1}
      BY <1>2, <1>4
    <3>2. frames # << >>
      BY <3>1
    <3> QED
      BY <1>3, <1>4, <3>1, <3>2
  <2> QED
    BY <1>1, <2>1 DEF Frames, Idle
<1>6. Apart' /\ Climbing'
  BY <1>1 DEF Rooted, Apart, Holders, Deep, Climbing
<1>7. PICK r : r = [source |-> Top.src, copy |-> Top.dst]
  OBVIOUS
<1>8. CASE call = 0
  <2>1. copies' = copies
    BY <1>8 DEF CallReturns
  <2>2. Grounded'
    <3> SUFFICES ASSUME NEW c \in Cloned, heap[c].owner # 0
                 PROVE  Mentioned(c) \/ \E i \in DOMAIN copies : copies[i].copy = c
      BY SMTT(40), <1>1, <2>1 DEF Grounded, Cloned, Mentioned, Mentions, Holders
    <3>1. \A f \in Frames : f.dst # c
      BY <1>3, <1>5, <1>8
    <3> QED
      BY <3>1 DEF Rooted, Grounded
  <2>3. Returned'
    BY <1>1, <1>5, <2>1 DEF Rooted, Returned
  <2> QED
    BY <1>6, <2>2, <2>3 DEF Rooted
<1>9. CASE call # 0
  <2>1. copies' = Append(copies, r)
    BY <1>7, <1>9 DEF CallReturns
  <2>2. /\ DOMAIN copies' = DOMAIN copies \cup {Len(copies) + 1}
        /\ Len(copies) + 1 \notin DOMAIN copies
        /\ copies'[Len(copies) + 1] = r
        /\ \A i \in DOMAIN copies : copies'[i] = copies[i]
    <3>1. PICK S : S = [source : DOMAIN heap, copy : DOMAIN heap]
      OBVIOUS
    <3>2. copies \in Seq(S)
      BY <1>2, <3>1 DEF TypeOK
    <3> QED
      BY <2>1, <3>2
  <2>3. r.copy = Top.dst
    BY <1>7
  <2>4. Grounded'
    <3> SUFFICES ASSUME NEW c \in Cloned, heap[c].owner # 0
                 PROVE  Mentioned(c) \/ \E i \in DOMAIN copies' : copies'[i].copy = c
      BY <1>1 DEF Grounded, Cloned, Mentioned, Mentions, Holders
    <3>1. CASE c = Top.dst
      BY <2>2, <2>3, <3>1
    <3>2. CASE c # Top.dst
      <4>1. \A f \in Frames : f.dst # c
        BY <1>5, <3>2
      <4> QED
        BY <2>2, <4>1 DEF Rooted, Grounded
    <3> QED
      BY <3>1, <3>2
  <2>5. Returned'
    <3>1. \A i \in DOMAIN copies : /\ heap[copies[i].copy].owner \in Nat \ {0}
                                   /\ heap[copies[i].copy].owner # call
      BY <1>5 DEF Rooted, Returned
    <3>2. \A i \in DOMAIN copies' : heap[copies'[i].copy].owner \in Nat \ {0}
      BY <1>3, <1>9, <2>2, <2>3, <3>1
    <3>3. \A i, j \in DOMAIN copies' :
             heap[copies'[j].copy].owner = heap[copies'[i].copy].owner => j = i
      <4>1. \A i, j \in DOMAIN copies :
               heap[copies[j].copy].owner = heap[copies[i].copy].owner => j = i
        BY DEF Rooted, Returned
      <4> QED
        BY <1>3, <2>2, <2>3, <3>1, <4>1
    <3> QED
      BY <1>1, <1>5, <3>2, <3>3 DEF Returned
  <2> QED
    BY <1>6, <2>4, <2>5 DEF Rooted
<1> QED
  BY <1>8, <1>9

LEMMA CloneShallowRooted ==
    ASSUME IInv, Rooted, NEW s \in DOMAIN heap, CloneShallow(s)
    PROVE  Rooted'
<1>1. TypeOK /\ Idle /\ frames' = frames /\ call' = call /\ copies' = copies
  BY DEF CloneShallow, IInv
<1>2. PICK r, N : /\ r = [heap[s] EXCEPT !.defs = Len(containers) + 1, !.source = s, !.owner = Shallow]
                  /\ N = Len(heap) + 1
  OBVIOUS
<1>3. heap' = Append(heap, r) /\ r.owner = Shallow
  <2>1. heap[s] \in Shape
    BY <1>1, ShapeType
  <2> QED
    BY <1>2, <2>1 DEF CloneShallow, Shape
<1>4. heap \in Seq(Shape) /\ containers \in Seq(Seq(DOMAIN heap))
  BY <1>1 DEF TypeOK
<1>5. /\ DOMAIN heap' = DOMAIN heap \cup {N} /\ heap'[N].owner = Shallow
      /\ \A t \in DOMAIN heap : heap'[t] = heap[t]
  BY <1>2, <1>3, <1>4
<1>6. \A c \in DOMAIN containers : containers'[c] = containers[c]
  BY <1>4 DEF CloneShallow
<1>7. \A t \in DOMAIN heap' : Deep(t)' => t \in DOMAIN heap /\ Deep(t) /\ Holders(t)' = Holders(t)
  BY <1>5 DEF Deep, Holders
<1>8. Apart'
  BY <1>7 DEF Rooted, Apart
<1>9. Frames = {} /\ Frames' = {} /\ Idle'
  BY <1>1 DEF Frames, Idle
<1>10. Climbing'
  BY <1>1, <1>9 DEF Climbing, Frames
<1>11. Grounded'
  <2> SUFFICES ASSUME NEW c \in Cloned', heap'[c].owner # 0
               PROVE  Mentioned(c)' \/ \E i \in DOMAIN copies : copies[i].copy = c
    BY <1>1 DEF Grounded
  <2>1. c \in Cloned /\ c \in DOMAIN heap /\ heap[c].owner # 0
    BY <1>5, ConstantsAssumption DEF Cloned
  <2>2. Mentioned(c) \/ \E i \in DOMAIN copies : copies[i].copy = c
    BY <1>9, <2>1 DEF Rooted, Grounded
  <2> QED
    BY <1>1, <1>5, <1>6, <2>1, <2>2, MentionedKept
<1>12. Returned'
  <2>1. \A i \in DOMAIN copies : heap'[copies[i].copy] = heap[copies[i].copy]
    BY <1>1, <1>5, CopiesExist
  <2> QED
    BY <1>1, <1>9, <2>1 DEF Rooted, Returned
<1> QED
  BY <1>8, <1>10, <1>11, <1>12 DEF Rooted

LEMMA NextRooted ==
    IInv /\ Rooted /\ [Next]_vars => Rooted'
<1> SUFFICES ASSUME IInv, Rooted, [Next]_vars PROVE Rooted'
  OBVIOUS
<1>1. TypeOK /\ calls \in Nat /\ call \in Nat
  BY DEF IInv, TypeOK
<1>2. CASE \E s \in DOMAIN heap : CloneDetached(s)
  <2>1. PICK s \in DOMAIN heap : CloneDetached(s)
    BY <1>2
  <2>2. PICK n : n = calls + 1
    OBVIOUS
  <2>3. Enter(Empty, n, s) /\ call' = n /\ copies' = copies /\ n \in Nat
    BY <1>1, <2>1, <2>2 DEF CloneDetached
  <2>4. \A i \in DOMAIN copies : heap[copies[i].copy].owner # n
    <3> TAKE i \in DOMAIN copies
    <3>1. copies[i].copy \in DOMAIN heap /\ heap[copies[i].copy].owner \in Nat
      BY <1>1, CopiesExist DEF Rooted, Returned
    <3>2. heap[copies[i].copy].owner <= calls
      BY <3>1 DEF IInv, Owned
    <3> QED
      BY <1>1, <2>2, <3>1, <3>2
  <2> QED
    BY <2>3, <2>4, EnterRooted
<1>3. CASE \E s \in DOMAIN heap : Clone(s)
  <2>1. PICK s \in DOMAIN heap : Clone(s)
    BY <1>3
  <2>2. \A i \in DOMAIN copies : heap[copies[i].copy].owner # 0
    BY DEF Rooted, Returned
  <2>3. Idle /\ call' = 0 /\ copies' = copies
    BY <2>1 DEF Clone
  <2>4. CASE Enter(shared, 0, s)
    BY <2>2, <2>3, <2>4, EnterRooted
  <2>5. CASE UNCHANGED << heap, containers, map, frames >>
    <3>1. heap' = heap /\ containers' = containers /\ frames' = frames
      BY <2>5
    <3> QED
      BY <2>3, <3>1 DEF Rooted, Apart, Climbing, Grounded, Returned, Frames, Cloned, Mentioned,
                        Mentions, Holders, Deep, Idle
  <2> QED
    BY <2>1, <2>4, <2>5 DEF Clone
<1>4. CASE \E s \in DOMAIN heap : CloneShallow(s)
  BY <1>4, CloneShallowRooted
<1>5. CASE CloneRef
  <2>1. Working /\ Enter(map, call, Pending) /\ call' = call /\ copies' = copies
    BY <1>5 DEF CloneRef
  <2>2. Pending \in DOMAIN heap /\ ~Idle
    BY <2>1, WorkingFacts DEF Working
  <2>3. \A i \in DOMAIN copies : heap[copies[i].copy].owner # call
    BY <2>2 DEF Rooted, Returned
  <2> QED
    BY <1>1, <2>1, <2>2, <2>3, EnterRooted
<1>6. CASE UNCHANGED vars
  <2>1. heap' = heap /\ containers' = containers /\ frames' = frames /\ call' = call /\ copies' = copies
    BY <1>6 DEF vars
  <2> QED
    BY <2>1 DEF Rooted, Apart, Climbing, Grounded, Returned, Frames, Cloned, Mentioned,
                Mentions, Holders, Deep, Idle
<1>7. CASE Over
  BY <1>6, <1>7 DEF Over
<1> QED
  BY <1>2, <1>3, <1>4, <1>5, <1>6, <1>7, ReuseCopyRooted, CloneReturnsRooted, CallReturnsRooted
     DEF Next, Work

-----------------------------------------------------------------------------
(* The shapes reached from a copy *)

LEMMA Least ==
    ASSUME NEW T, T \subseteq Nat, T # {}
    PROVE  \E x \in T : \A y \in T : ~(y < x)
<1> DEFINE R == OpToRel(<, Nat)
<1>1. IsWellFoundedOn(R, Nat)
  BY NatLessThanWellFounded
<1>2. \A x, y \in Nat : y < x => << y, x >> \in R
  BY DEF OpToRel
<1> HIDE DEF R
<1>3. \E x \in T : \A y \in T : << y, x >> \notin R
  BY <1>1, WFMin
<1> QED
  BY <1>2, <1>3

\* The shapes of R and those they refer to.
Onward(R) == R \cup UNION {{Refs(r)[k] : k \in DOMAIN Refs(r)} : r \in R}

\* f says which shapes are within d references of s, for d up to n.
Within(f, s, n) == f = [d \in 0..n |-> IF d = 0 THEN {s} ELSE Onward(f[d - 1])]

LEMMA WithinAt ==
    ASSUME NEW f, NEW s, NEW n \in Nat, Within(f, s, n)
    PROVE  /\ f[0] = {s}
           /\ \A d \in 1..n : f[d] = Onward(f[d - 1])
BY DEF Within

\* There is such a function: for the least n without one, that of n - 1 could be
\* extended.
LEMMA WithinExists ==
    ASSUME NEW s, NEW n \in Nat
    PROVE  \E f : Within(f, s, n)
<1> DEFINE T == {k \in Nat : ~\E f : Within(f, s, k)}
<1>1. SUFFICES ASSUME T # {} PROVE FALSE
  OBVIOUS
<1>2. PICK k \in T : \A j \in T : ~(j < k)
  <2>1. T \subseteq Nat
    OBVIOUS
  <2> HIDE DEF T
  <2> QED
    BY <1>1, <2>1, Least
<1>3. k \in Nat /\ ~\E f : Within(f, s, k)
  OBVIOUS
<1>4. k # 0
  <2>1. Within([d \in 0..0 |-> {s}], s, 0)
    BY DEF Within
  <2> QED
    BY <1>3, <2>1
<1>5. k - 1 \in Nat /\ k - 1 < k
  BY <1>3, <1>4
<1>6. \E f : Within(f, s, k - 1)
  BY <1>2, <1>5
<1>7. PICK f : Within(f, s, k - 1)
  BY <1>6
<1> DEFINE g == [d \in 0..k |-> IF d = k THEN Onward(f[k - 1]) ELSE f[d]]
<1>8. \A d \in 0..k : g[d] = IF d = 0 THEN {s} ELSE Onward(g[d - 1])
  <2> TAKE d \in 0..k
  <2>1. CASE d = k
    <3>1. k - 1 \in 0..k /\ k - 1 # k /\ k \in 0..k
      BY <1>3, <1>5
    <3>2. g[k - 1] = f[k - 1] /\ g[k] = Onward(f[k - 1])
      BY <3>1
    <3> QED
      BY <1>4, <2>1, <3>2
  <2>2. CASE d # k
    <3>1. d \in 0..(k - 1) /\ g[d] = f[d]
      BY <1>3, <2>2
    <3>2. CASE d = 0
      BY <1>5, <1>7, <3>1, <3>2, WithinAt
    <3>3. CASE d # 0
      <4>1. d \in 1..(k - 1) /\ d - 1 \in 0..k /\ d - 1 # k
        BY <1>3, <3>1, <3>3
      <4>2. g[d - 1] = f[d - 1]
        BY <4>1
      <4>3. f[d] = Onward(f[d - 1])
        BY <1>5, <1>7, <4>1, WithinAt
      <4> QED
        BY <3>1, <3>3, <4>2, <4>3
    <3> QED
      BY <3>2, <3>3
  <2> QED
    BY <2>1, <2>2
<1>9. Within(g, s, k)
  <2>1. g = [d \in 0..k |-> g[d]]
    OBVIOUS
  <2> HIDE DEF g
  <2> QED
    BY <1>8, <2>1 DEF Within
<1> QED
  BY <1>3, <1>9

LEMMA ReachedIs ==
    ASSUME NEW s, Len(heap) \in Nat
    PROVE  \E f : Within(f, s, Len(heap)) /\ Reached(s) = f[Len(heap)]
<1> DEFINE w == CHOOSE f : Within(f, s, Len(heap))
<1>1. Within(w, s, Len(heap))
  BY WithinExists
<1>2. Reached(s) = w[Len(heap)]
  BY DEF Reached, Within, Onward
<1> QED
  BY <1>1, <1>2

LEMMA HeldInRefs ==
    ASSUME TypeOK, NEW s \in DOMAIN heap, NEW t, Mentions(s, t)
    PROVE  \E k \in DOMAIN Refs(s) : Refs(s)[k] = t
<1> DEFINE d == Len(DefsOf(s))
           l == Len(LineOf(s))
           p == Len(PartsOf(s))
<1>1. /\ d \in Nat /\ DOMAIN DefsOf(s) = 1..d
      /\ l \in Nat /\ DOMAIN LineOf(s) = 1..l
      /\ p \in Nat /\ DOMAIN PartsOf(s) = 1..p
  BY ShapeType
<1>2. /\ Refs(s) \in Seq(DOMAIN heap)
      /\ Len(Refs(s)) = d + l + p
      /\ \A j \in 1..d : Refs(s)[j] = DefsOf(s)[j]
      /\ \A j \in 1..l : Refs(s)[d + j] = LineOf(s)[j]
      /\ \A j \in 1..p : Refs(s)[d + l + j] = PartsOf(s)[j]
  BY RefsType
<1> HIDE DEF d, l, p
<1>3. DOMAIN Refs(s) = 1..(d + l + p)
  BY <1>2
<1>4. CASE \E j \in DOMAIN DefsOf(s) : DefsOf(s)[j] = t
  <2>1. PICK j \in 1..d : DefsOf(s)[j] = t
    BY <1>1, <1>4
  <2>2. j \in DOMAIN Refs(s) /\ Refs(s)[j] = t
    BY <1>1, <1>2, <1>3, <2>1
  <2> QED
    BY <2>2
<1>5. CASE \E j \in DOMAIN LineOf(s) : LineOf(s)[j] = t
  <2>1. PICK j \in 1..l : LineOf(s)[j] = t
    BY <1>1, <1>5
  <2>2. d + j \in DOMAIN Refs(s) /\ Refs(s)[d + j] = t
    BY <1>1, <1>2, <1>3, <2>1
  <2> QED
    BY <2>2
<1>6. CASE \E j \in DOMAIN PartsOf(s) : PartsOf(s)[j] = t
  <2>1. PICK j \in 1..p : PartsOf(s)[j] = t
    BY <1>1, <1>6
  <2>2. d + l + j \in DOMAIN Refs(s) /\ Refs(s)[d + l + j] = t
    BY <1>1, <1>2, <1>3, <2>1
  <2> QED
    BY <2>2
<1> QED
  BY <1>4, <1>5, <1>6 DEF Mentions, Holders, DefsOf, LineOf, PartsOf

\* What can be reached from the copy that was returned is what its call made.
LEMMA ReachedIsOwned ==
    ASSUME IInv, Rooted, NEW i \in DOMAIN copies
    PROVE  Reached(copies[i].copy) =
              {c \in DOMAIN heap : heap[c].owner = heap[copies[i].copy].owner}
<1>1. PICK s, n, N : s = copies[i].copy /\ n = heap[s].owner /\ N = Len(heap)
  OBVIOUS
<1>2. TypeOK /\ N \in Nat /\ DOMAIN heap = 1..N
  BY <1>1, DomainsType DEF IInv
<1>3. s \in DOMAIN heap /\ n \in Nat /\ n # 0 /\ n # Shallow
  BY <1>1, <1>2, CopiesExist, ConstantsAssumption DEF Rooted, Returned
<1>4. PICK f : Within(f, s, N) /\ Reached(s) = f[N]
  BY <1>1, <1>2, ReachedIs
<1>5. f[0] = {s} /\ \A d \in 1..N : f[d] = Onward(f[d - 1])
  BY <1>2, <1>4, WithinAt
<1> DEFINE Own == {c \in DOMAIN heap : heap[c].owner = n}
<1>6. s \in Own
  BY <1>1, <1>3
<1>7. f[N] \subseteq Own
  <2> DEFINE T == {d \in 0..N : ~(f[d] \subseteq Own)}
  <2>1. SUFFICES ASSUME T # {} PROVE FALSE
    BY <1>2
  <2>2. PICK d \in T : \A e \in T : ~(e < d)
    <3>1. T \subseteq Nat
      OBVIOUS
    <3> HIDE DEF T
    <3> QED
      BY <2>1, <3>1, Least
  <2>3. d # 0
    BY <1>5, <1>6
  <2>4. d \in 1..N /\ d - 1 \in 0..N /\ d - 1 < d
    BY <1>2, <2>3
  <2>5. f[d - 1] \subseteq Own
    BY <2>2, <2>4
  <2>6. \A r \in Own : \A k \in DOMAIN Refs(r) : Refs(r)[k] \in Own
    <3> SUFFICES ASSUME NEW r \in Own, NEW k \in DOMAIN Refs(r) PROVE Refs(r)[k] \in Own
      OBVIOUS
    <3>1. r \in DOMAIN heap /\ Deep(r) /\ heap[r].owner = n
      BY <1>3 DEF Deep
    <3>2. k \in 1..Len(Refs(r))
      BY <1>2, <3>1, RefsType
    <3> QED
      BY <1>2, <3>1, <3>2, RefsOwned DEF IInv
  <2> HIDE DEF Own
  <2>7. Onward(f[d - 1]) \subseteq Own
    BY <2>5, <2>6 DEF Onward
  <2> QED
    BY <1>5, <2>4, <2>7
<1>8. Own \subseteq f[N]
  <2>1. \A c \in Own : c = s \/ Mentioned(c)
    <3> SUFFICES ASSUME NEW c \in Own PROVE c = s \/ Mentioned(c)
      OBVIOUS
    <3>1. c \in Cloned /\ heap[c].owner = n
      BY <1>3 DEF Cloned
    <3>2. ASSUME NEW g \in Frames, g.dst = c PROVE FALSE
      <4>1. heap[g.dst].owner = call
        BY DEF IInv, Nested, Frames
      <4>2. ~Idle
        BY DEF Idle, Frames
      <4> QED
        BY <1>1, <3>1, <3>2, <4>1, <4>2 DEF Rooted, Returned
    <3>3. ASSUME NEW j \in DOMAIN copies, copies[j].copy = c PROVE c = s
      BY <1>1, <3>1, <3>3 DEF Rooted, Returned
    <3> QED
      BY <1>3, <3>1, <3>2, <3>3 DEF Rooted, Grounded
  <2> DEFINE T == {c \in Own : \E k \in c..N : c \notin f[k]}
  <2>2. SUFFICES ASSUME T # {} PROVE FALSE
    <3> SUFFICES ASSUME NEW c \in Own PROVE c \in f[N]
      OBVIOUS
    <3>1. c \notin T /\ c \in 1..N
      BY <1>2, <2>2
    <3> QED
      BY <1>2, <3>1
  <2>3. PICK c \in T : \A d \in T : ~(d < c)
    <3>1. T \subseteq Nat
      BY <1>2
    <3> HIDE DEF T
    <3> QED
      BY <2>2, <3>1, Least
  <2>4. PICK k \in c..N : c \notin f[k]
    OBVIOUS
  <2>5. c \in 1..N /\ k \in 1..N /\ c \in Own /\ c <= k
    BY <1>2
  <2>6. c # s
    <3> DEFINE U == {d \in 0..N : s \notin f[d]}
    <3>1. U = {}
      <4>1. SUFFICES ASSUME U # {} PROVE FALSE
        OBVIOUS
      <4>2. PICK d \in U : \A e \in U : ~(e < d)
        <5>1. U \subseteq Nat
          OBVIOUS
        <5> HIDE DEF U
        <5> QED
          BY <4>1, <5>1, Least
      <4>3. d # 0
        BY <1>5
      <4>4. d \in 1..N /\ d - 1 \in 0..N /\ d - 1 < d
        BY <1>2, <4>3
      <4>5. s \in f[d - 1]
        BY <4>2, <4>4
      <4> QED
        BY <1>5, <4>4, <4>5 DEF Onward
    <3> QED
      BY <1>2, <2>4, <2>5, <3>1
  <2>7. PICK d \in DOMAIN heap : d < c /\ heap[d].owner = heap[c].owner /\ Mentions(d, c)
    BY <2>1, <2>5, <2>6 DEF Mentioned
  <2>8. d \in Own /\ d \notin T
    BY <2>3, <2>5, <2>7
  <2>9. k - 1 \in d..N
    BY <1>2, <2>5, <2>7
  <2>10. d \in f[k - 1]
    BY <2>8, <2>9
  <2>11. \E j \in DOMAIN Refs(d) : Refs(d)[j] = c
    BY <1>2, <2>7, HeldInRefs
  <2>12. c \in Onward(f[k - 1])
    BY <2>10, <2>11 DEF Onward
  <2> QED
    BY <1>5, <2>4, <2>5, <2>12
<1> QED
  BY <1>1, <1>4, <1>7, <1>8

-----------------------------------------------------------------------------
(* Theorems *)

\* Every variable has its type and all that is referred to exists: no reference
\* of a copy that is made in the middle of a cycle dangles (clone, shape.go).
THEOREM TypeCorrect ==
    Spec => []TypeOK
<1>1. IInv => TypeOK
  BY DEF IInv
<1> QED
  BY <1>1, Invariance, PTL

\* Every finished copy is the image of its source, up to identity, for every
\* graph, every number of calls and every mix of Clone, CloneDetached and
\* CloneShallow, of copies and of copies of copies; and it is the image outright
\* where its owner met no two shapes of one identity (clone, shape.go).
THEOREM FaithfulCorrect ==
    Spec => []Faithful
<1>1. IInv => Faithful
  <2> SUFFICES ASSUME IInv PROVE Faithful
    OBVIOUS
  <2>1. TypeOK
    BY DEF IInv
  <2>2. \A c \in Cloned : /\ c \in DOMAIN heap /\ heap[c].source \in DOMAIN heap
                          /\ heap[c].owner \in Nat /\ heap[c].id = heap[heap[c].source].id
    BY <2>1, ConstantsAssumption DEF TypeOK, Cloned, IInv, Sourced
  <2>3. ASSUME NEW c \in Whole, NEW mine \in Holders(c), NEW theirs \in Holders(heap[c].source),
               Alike(c, mine, theirs)
        PROVE  Images(c, mine, theirs)
    <3> SUFFICES ASSUME NEW k \in DOMAIN containers[mine], Distinct(heap[c].owner)
                 PROVE  heap[containers[mine][k]].source = containers[theirs][k]
      BY <2>3 DEF Alike, Images
    <3>1. PICK s, r, t : s = heap[c].source /\ r = containers[mine][k] /\ t = containers[theirs][k]
      OBVIOUS
    <3>2. c \in Cloned /\ s \in DOMAIN heap
      BY <2>2, <3>1 DEF Whole
    <3>3. heap[r].id = heap[t].id /\ heap[r].owner = heap[c].owner /\ r \in DOMAIN heap
      <4>1. containers[mine] \in Seq(DOMAIN heap)
        BY <2>1, <2>2, <3>2, ShapeType DEF Holders, DefsOf, LineOf, PartsOf
      <4> QED
        BY <2>3, <3>1, <4>1 DEF Alike
    <3>4. r \in Cloned /\ heap[r].id = heap[heap[r].source].id
      BY <2>2, <3>2, <3>3 DEF Cloned
    <3>5. heap[r].source \in Met(heap[c].owner)
      BY <3>3, <3>4 DEF Met
    <3>6. t \in Met(heap[c].owner)
      <4>1. k \in DOMAIN containers[theirs]
        <5>1. /\ containers[mine] \in Seq(DOMAIN heap) /\ containers[theirs] \in Seq(DOMAIN heap)
              /\ Len(containers[mine]) = Len(containers[theirs])
          BY <2>1, <2>2, <2>3, <3>1, <3>2, ShapeType DEF Holders, DefsOf, LineOf, PartsOf, Alike
        <5> QED
          BY <5>1
      <4>2. Mentions(s, t)
        BY <3>1, <4>1 DEF Mentions
      <4>3. PICK i \in DOMAIN Refs(s) : Refs(s)[i] = t
        BY <2>1, <3>2, <4>2, HeldInRefs
      <4> QED
        BY <3>1, <3>2, <4>3 DEF Met
    <3> QED
      BY <3>1, <3>3, <3>4, <3>5, <3>6 DEF Distinct
  <2>4. \A c \in Whole :
          LET s == heap[c].source
          IN  /\ heap[c].id = heap[s].id /\ heap[c].head = heap[s].head
              /\ Images(c, heap[c].defs, heap[s].defs)
              /\ Images(c, heap[c].line, heap[s].line)
              /\ Images(c, heap[c].parts, heap[s].parts)
    <3> SUFFICES ASSUME NEW c \in Whole
                 PROVE  LET s == heap[c].source
                        IN  /\ heap[c].id = heap[s].id /\ heap[c].head = heap[s].head
                            /\ Images(c, heap[c].defs, heap[s].defs)
                            /\ Images(c, heap[c].line, heap[s].line)
                            /\ Images(c, heap[c].parts, heap[s].parts)
      OBVIOUS
    <3>1. PICK s : s = heap[c].source
      OBVIOUS
    <3>2. heap[c].id = heap[s].id /\ heap[c].head = heap[s].head
      BY <3>1 DEF IInv, Sourced, Whole
    <3>3. /\ Alike(c, heap[c].defs, heap[s].defs)
          /\ Alike(c, heap[c].line, heap[s].line)
          /\ Alike(c, heap[c].parts, heap[s].parts)
      BY <3>1 DEF IInv, WholeIsImage, Image
    <3>4. /\ heap[c].defs \in Holders(c) /\ heap[c].line \in Holders(c) /\ heap[c].parts \in Holders(c)
          /\ heap[s].defs \in Holders(s) /\ heap[s].line \in Holders(s) /\ heap[s].parts \in Holders(s)
      BY DEF Holders
    <3> QED
      BY <2>3, <3>1, <3>2, <3>3, <3>4
  <2>5. \A c, d \in Cloned :
          heap[c].owner = heap[d].owner /\ heap[c].id = heap[d].id => c = d
    BY DEF IInv, Unique
  <2> QED
    BY <2>4, <2>5 DEF Faithful
<1> QED
  BY <1>1, Invariance, PTL

\* Untouched, for every graph: no step of a call writes to a shape that was there
\* before the call, or to one of its slices and maps.
THEOREM UntouchedCorrect ==
    Spec => Untouched
<1>1. IInv /\ [Next]_vars =>
        [\A s \in DOMAIN heap : (\A f \in Frames : f.dst # s) =>
              /\ heap'[s] = heap[s]
              /\ \A c \in Holders(s) : containers'[c] = containers[c]]_vars
  <2> SUFFICES ASSUME IInv, Next, NEW s \in DOMAIN heap, \A f \in Frames : f.dst # s
               PROVE  /\ heap'[s] = heap[s]
                      /\ \A c \in Holders(s) : containers'[c] = containers[c]
    OBVIOUS
  <2>1. TypeOK /\ Holders(s) \subseteq DOMAIN containers
    BY ShapeType DEF IInv, Holders
  <2>2. ASSUME NEW m, NEW n \in Nat, NEW t \in DOMAIN heap, Enter(m, n, t)
        PROVE  /\ heap'[s] = heap[s]
               /\ \A c \in Holders(s) : containers'[c] = containers[c]
    BY <2>1, <2>2, EnterFacts
  <2>3. ASSUME NEW f \in Frames, NEW d \in DOMAIN heap, heap' = heap, containers' = Put(f, d)
        PROVE  /\ heap'[s] = heap[s]
               /\ \A c \in Holders(s) : containers'[c] = containers[c]
    <3>1. PICK h : /\ h \in Holders(f.dst)
                   /\ \A c \in DOMAIN containers \ {h} : containers'[c] = containers[c]
      <4> DEFINE x == Holder(f.src, f.next, heap[f.dst])
      <4>1. /\ x \in Holders(f.dst)
            /\ \A c \in DOMAIN containers \ {x} : containers'[c] = containers[c]
        BY <2>1, <2>3, PutFacts
      <4> HIDE DEF x
      <4> QED
        BY <4>1
    <3>2. Holders(s) \cap Holders(f.dst) = {}
      BY DEF IInv, Private
    <3> QED
      BY <2>1, <2>3, <3>1, <3>2
  <2>4. calls \in Nat /\ call \in Nat
    BY <2>1 DEF TypeOK
  <2>5. CASE \E t \in DOMAIN heap : CloneDetached(t)
    <3>1. calls + 1 \in Nat
      BY <2>4
    <3> QED
      BY <2>2, <2>5, <3>1 DEF CloneDetached
  <2>6. CASE \E t \in DOMAIN heap : Clone(t)
    BY <2>2, <2>6 DEF Clone
  <2>7. CASE \E t \in DOMAIN heap : CloneShallow(t)
    <3>1. PICK t \in DOMAIN heap : CloneShallow(t)
      BY <2>7
    <3>2. /\ \E r : heap' = Append(heap, r)
          /\ containers' = Append(containers, DefsOf(t))
      BY <3>1 DEF CloneShallow
    <3>3. heap \in Seq(Shape) /\ containers \in Seq(Seq(DOMAIN heap))
      BY <2>1 DEF TypeOK
    <3>4. heap'[s] = heap[s]
      BY <3>2, <3>3
    <3>5. \A c \in DOMAIN containers : containers'[c] = containers[c]
      BY <3>2, <3>3
    <3> QED
      BY <2>1, <3>4, <3>5
  <2>8. CASE ReuseCopy
    <3>1. Working /\ map[heap[Pending].id] # 0
      BY <2>8 DEF ReuseCopy
    <3>2. Top \in Frames /\ map[heap[Pending].id] \in DOMAIN heap
      BY <3>1, WorkingFacts
    <3> QED
      BY <2>3, <2>8, <3>2 DEF ReuseCopy
  <2>9. CASE CloneRef
    <3>1. Working /\ Enter(map, call, Pending)
      BY <2>9 DEF CloneRef
    <3> QED
      BY <2>2, <2>4, <3>1, WorkingFacts
  <2>10. CASE CloneReturns
    <3>1. Finished /\ Below # << >>
      BY <2>10 DEF CloneReturns
    <3>2. frames \in Seq(Frame) /\ Len(frames) \in DOMAIN frames /\ Top.dst \in DOMAIN heap
      BY <3>1, FinishedFacts
    <3>3. PICK j : j = Len(frames) - 1
      OBVIOUS
    <3>4. j \in Nat /\ j <= Len(frames) /\ Below = SubSeq(frames, 1, j)
      BY <3>2, <3>3 DEF Below
    <3>5. Len(Below) = j /\ \A i \in 1..j : Below[i] = frames[i]
      BY <3>2, <3>4
    <3>6. j \in DOMAIN frames /\ j \in 1..j
      <4>1. j # 0
        BY <3>1, <3>2, <3>4, <3>5
      <4> QED
        BY <3>2, <3>4, <4>1
    <3>7. Below[Len(Below)] \in Frames
      BY <3>5, <3>6 DEF Frames
    <3> QED
      BY <2>3, <2>10, <3>2, <3>7 DEF CloneReturns
  <2>11. CASE CallReturns
    BY <2>11 DEF CallReturns
  <2>12. CASE Over
    BY <2>12 DEF Over, vars
  <2> QED
    BY <2>5, <2>6, <2>7, <2>8, <2>9, <2>10, <2>11, <2>12 DEF Next, Work
<1> QED
  BY <1>1, Invariance, PTL DEF Spec, Untouched

\* What CloneDetached returns is independent of everything else, for every graph,
\* whatever else is cloned before and after, shallowly or not.
THEOREM DetachedCorrect ==
    Spec => []Detached
<1>1. IInv /\ Rooted => Detached
  <2> SUFFICES ASSUME IInv, Rooted, NEW i \in DOMAIN copies,
                      NEW s \in Reached(copies[i].copy),
                      NEW t \in DOMAIN heap \ Reached(copies[i].copy), heap[t].owner # Shallow
               PROVE  /\ Holders(s) \cap Holders(t) = {}
                      /\ s \notin {Refs(t)[k] : k \in DOMAIN Refs(t)}
    BY DEF Detached
  <2>1. s \in DOMAIN heap /\ heap[s].owner = heap[copies[i].copy].owner
    BY ReachedIsOwned
  <2>2. heap[t].owner # heap[s].owner
    BY <2>1, ReachedIsOwned
  <2>3. Deep(s) /\ Deep(t) /\ s # t
    BY <2>1, <2>2, ConstantsAssumption DEF Deep, Rooted, Returned
  <2>4. Holders(s) \cap Holders(t) = {}
    BY <2>1, <2>3 DEF Rooted, Apart
  <2>5. ASSUME NEW k \in DOMAIN Refs(t), s = Refs(t)[k] PROVE FALSE
    <3>1. TypeOK /\ Owned
      BY DEF IInv
    <3>2. k \in 1..Len(Refs(t))
      BY <3>1, RefsType
    <3> QED
      BY <2>2, <2>3, <2>5, <3>1, <3>2, RefsOwned
  <2> QED
    BY <2>4, <2>5
<1>2. Init => IInv /\ Rooted
  BY InitInv, InitRooted
<1>3. IInv /\ Rooted /\ [Next]_vars => (IInv /\ Rooted)'
  BY NextInv, NextRooted
<1> QED
  BY <1>1, <1>2, <1>3, PTL DEF Spec

===============================================================================
