----------------------------- MODULE LoaderProofs -----------------------------
(***************************************************************************)
(* Theorems about Loader, for every set of paths, every contents of the    *)
(* files and any number of parses: what is linked after a parse, that no   *)
(* file is loaded twice, and that errors are neither lost nor invented.    *)
(***************************************************************************)
EXTENDS Loader, SequenceTheorems, TLAPS

-----------------------------------------------------------------------------
(* The inductive invariant *)

\* What a frame that loads the contents s into the fragment o does next.
Waits(s, o, phase) ==
    IF phase = "decode" THEN Len(o.includes) < Len(s.includes)
                        ELSE Len(o.uses) < Len(s.uses)

NextPath(s, o, phase) ==
    IF phase = "decode" THEN s.includes[Len(o.includes) + 1].path
                        ELSE s.uses[Len(o.uses) + 1]

NextKind(s, o, phase) ==
    IF phase = "decode" THEN s.includes[Len(o.includes) + 1].kind ELSE "Library"

\* Admits, for a file of contents s.
Admitted(s, kind) == s.kind = kind \/ (s.kind = "JSON" /\ kind = "DataType")

\* The graph of the files: what a path leads to, itself included, and what is bad.
Onward   == [q \in Path |-> {q} \cup Reach(Refers, q)]
Culprits == {q \in Path : Bad(q)}

\* Object o of heap h is a fragment of path p and of the kind asked for.
Is(h, o, p, kind) == o \in DOMAIN h /\ h[o].path = p /\ h[o].kind = kind

\* An error is on its way to the caller of ParseFromPath.
Failing ==
    \/ ret # None /\ ~ret.ok
    \/ \E k \in DOMAIN frames : frames[k].failed

\* Only a parse has frames, and it has one until it has a result.
Control ==
    /\ status \in {"idle", "loaded", "failed"} => frames = << >> /\ ret = None
    /\ status = "idle" => parses = 0
    /\ parses = 0 => heap = << >> /\ status = "idle" /\ ~tainted
    /\ parses = 1 /\ tainted => status = "failed"
    /\ status = "failed" => tainted
    /\ status \in {"parsing", "loaded", "panicked"} => heap # << >>
    /\ status = "parsing" /\ ret = None => frames # << >>
    /\ ret # None /\ ret.ok => ret.obj \in Object

\* The links o has lead to fragments of the files and kinds that its contents
\* s name, in their order.
Links(h, o, s) ==
    /\ Len(h[o].includes) <= Len(s.includes)
    /\ Len(h[o].uses) <= Len(s.uses)
    /\ \A i \in 1..Len(h[o].includes) :
          Is(h, h[o].includes[i], s.includes[i].path, s.includes[i].kind)
    /\ \A i \in 1..Len(h[o].uses) :
          h[o].uses[i] # None => Is(h, h[o].uses[i], s.uses[i], "Library")

Linked ==
    \A o \in Object : /\ Admitted(file[heap[o].path], heap[o].kind)
                      /\ Links(heap, o, file[heap[o].path])

\* Every frame has an object of its own, of which it has done its phases so
\* far, and waits for the frame above it or for the result.
Stack ==
    \A k \in DOMAIN frames :
        LET o     == heap[frames[k].obj]
            s     == file[o.path]
            phase == frames[k].phase
        IN  /\ \A j \in DOMAIN frames : frames[j].obj = frames[k].obj => j = k
            /\ phase = "decode" => o.uses = << >> /\ ~frames[k].failed
            /\ phase = "uses" => ~s.malformed /\ Len(o.includes) = Len(s.includes)
            /\ k < Len(frames) =>
                  /\ Waits(s, o, phase)
                  /\ Is(heap, frames[k + 1].obj, NextPath(s, o, phase), NextKind(s, o, phase))
            /\ k = Len(frames) /\ ret # None =>
                  /\ Waits(s, o, phase)
                  /\ ret.ok => Is(heap, ret.obj, NextPath(s, o, phase), NextKind(s, o, phase))

CachedByPath == \A p \in Path : cache[p] # None => heap[cache[p]].path = p

\* While nothing has failed, every object that has no frame is done.
OffStack(o) == \A k \in DOMAIN frames : frames[k].obj # o

Done(o, s) ==
    /\ ~s.malformed
    /\ Len(o.includes) = Len(s.includes)
    /\ Len(o.uses) = Len(s.uses)

Loaded ==
    ~tainted /\ ~Failing => \A o \in Object :
        /\ OffStack(o) => Done(heap[o], file[heap[o].path])
        /\ \A i \in 1..Len(heap[o].uses) : heap[o].uses[i] # None

\* A parse loads only what the first file depends on, and fails for it only.
Within == parses = 1 => \A o \in Object : heap[o].path \in Onward[heap[1].path]

Blamed ==
    parses = 1 /\ heap # << >> /\ (Failing \/ status \in {"failed", "panicked"}) =>
        Onward[heap[1].path] \cap Culprits # {}

\* Whatever is above a frame that is decoding was reached through its !include.
Above ==
    \A i, j \in DOMAIN frames :
        i < j /\ frames[i].phase = "decode" =>
            LET o == heap[frames[i].obj]
                q == NextPath(file[o.path], o, "decode")
            IN  heap[frames[j].obj].path \in Onward[q]

\* While nothing has failed, a path has one object, which is decoding or cached.
Decoding(o) == \E k \in DOMAIN frames : frames[k].obj = o /\ frames[k].phase = "decode"

Single ==
    parses = 1 /\ ~tainted /\ ~Failing /\ ~IncludeOnCycle =>
        /\ \A o \in Object : IF Decoding(o) THEN cache[heap[o].path] = None
                                            ELSE cache[heap[o].path] = o
        /\ \A o, t \in Object : Decoding(o) /\ Decoding(t) /\ heap[o].path = heap[t].path => o = t

IInv ==
    /\ TypeOK /\ Control /\ Linked /\ Stack /\ CachedByPath
    /\ Loaded /\ Within /\ Blamed /\ Above /\ Single

-----------------------------------------------------------------------------
(* Types *)

LEMMA ContentsType ==
    ASSUME TypeOK, NEW p \in Path
    PROVE  /\ file[p].kind \in Loadable \cup {"JSON", "Unknown", "Missing"}
           /\ file[p].malformed \in BOOLEAN
           /\ Len(file[p].includes) \in Nat
           /\ DOMAIN file[p].includes = 1..Len(file[p].includes)
           /\ \A i \in 1..Len(file[p].includes) :
                 /\ file[p].includes[i].path \in Path
                 /\ file[p].includes[i].kind \in {"DataType", "NamedExample"}
           /\ Len(file[p].uses) \in Nat
           /\ DOMAIN file[p].uses = 1..Len(file[p].uses)
           /\ \A i \in 1..Len(file[p].uses) : file[p].uses[i] \in Path
           /\ file[p].kind \in {"NamedExample", "JSON"} => Len(file[p].uses) = 0
<1>1. file[p] \in FileType
  BY ConstantsAssumption DEF TypeOK
<1>2. /\ file[p].kind \in Loadable \cup {"JSON", "Unknown", "Missing"}
      /\ file[p].malformed \in BOOLEAN
      /\ file[p].includes \in Seq([kind : {"DataType", "NamedExample"}, path : Path])
      /\ file[p].uses \in Seq(Path)
  BY <1>1 DEF FileType
<1>3. \A i \in 1..Len(file[p].includes) :
         file[p].includes[i] \in [kind : {"DataType", "NamedExample"}, path : Path]
  BY <1>2, ElementOfSeq
<1>4. file[p].kind \in {"NamedExample", "JSON"} => file[p].uses = << >>
  BY ConstantsAssumption DEF TypeOK
<1> QED
  BY <1>2, <1>3, <1>4

LEMMA HeapType ==
    ASSUME TypeOK
    PROVE  /\ Len(heap) \in Nat /\ Object = 1..Len(heap)
           /\ \A o \in Object :
                 /\ heap[o] \in FragmentObject
                 /\ heap[o].path \in Path /\ heap[o].kind \in Loadable
                 /\ heap[o].includes \in Seq(Nat) /\ Len(heap[o].includes) \in Nat
                 /\ DOMAIN heap[o].includes = 1..Len(heap[o].includes)
                 /\ heap[o].uses \in Seq(Nat \cup {None}) /\ Len(heap[o].uses) \in Nat
                 /\ DOMAIN heap[o].uses = 1..Len(heap[o].uses)
<1>1. heap \in Seq(FragmentObject)
  BY DEF TypeOK
<1>2. Len(heap) \in Nat /\ Object = 1..Len(heap) /\ \A o \in Object : heap[o] \in FragmentObject
  BY <1>1 DEF Object
<1>3. ASSUME NEW o \in Object
      PROVE  /\ heap[o].path \in Path /\ heap[o].kind \in Loadable
             /\ heap[o].includes \in Seq(Nat) /\ heap[o].uses \in Seq(Nat \cup {None})
  BY <1>2 DEF FragmentObject
<1> QED
  BY <1>2, <1>3

Frame(O) == [obj : O, phase : {"decode", "uses"}, failed : BOOLEAN]

LEMMA FrameType ==
    ASSUME TypeOK
    PROVE  /\ Len(frames) \in Nat /\ DOMAIN frames = 1..Len(frames)
           /\ frames # << >> <=> Len(frames) # 0
           /\ frames # << >> => Len(frames) \in DOMAIN frames
           /\ \A k \in DOMAIN frames :
                 /\ frames[k] \in Frame(Object)
                 /\ frames[k].obj \in Object /\ frames[k].phase \in {"decode", "uses"}
                 /\ frames[k].failed \in BOOLEAN
<1>1. frames \in Seq(Frame(Object))
  BY DEF TypeOK, Frame
<1>2. /\ Len(frames) \in Nat /\ DOMAIN frames = 1..Len(frames)
      /\ frames # << >> <=> Len(frames) # 0
  BY <1>1
<1>3. \A k \in DOMAIN frames : frames[k] \in Frame(Object)
  BY <1>1
<1> QED
  BY <1>2, <1>3 DEF Frame

\* What the top frame is.
LEMMA TopType ==
    ASSUME TypeOK, frames # << >>
    PROVE  /\ Top \in Frame(Object) /\ Top = frames[Len(frames)]
           /\ Top.obj \in Object /\ Top.phase \in {"decode", "uses"} /\ Top.failed \in BOOLEAN
           /\ Frag = heap[Top.obj] /\ Frag.path \in Path /\ Source = file[heap[Top.obj].path]
BY FrameType, HeapType DEF Top, Frag, Source

-----------------------------------------------------------------------------
(* What the parts of the actions do *)

\* Object c is new, and frame n decodes it.
Entered(c, n, p, kind) ==
    /\ c = Len(heap) + 1 /\ c \in Nat /\ c \notin Object /\ Object' = Object \cup {c}
    /\ \A o \in Object : heap'[o] = heap[o]
    /\ heap'[c].path = p /\ heap'[c].kind = kind
    /\ heap'[c].includes = << >> /\ heap'[c].uses = << >>
    /\ Len(heap'[c].includes) = 0 /\ Len(heap'[c].uses) = 0
    /\ n \in Nat /\ n \notin DOMAIN frames /\ DOMAIN frames' = DOMAIN frames \cup {n}
    /\ Len(frames') = n
    /\ \A k \in DOMAIN frames : /\ frames'[k] = frames[k] /\ k \in Nat /\ k < n
                                /\ k # Len(frames) => k < Len(frames) /\ k + 1 \in DOMAIN frames
                                /\ k = Len(frames) => k + 1 = n /\ frames[k] = Top
    /\ frames'[n].obj = c /\ frames'[n].phase = "decode" /\ frames'[n].failed = FALSE

LEMMA OneMore ==
    ASSUME NEW n \in Nat \ {0}
    PROVE  1..n = 1..(n - 1) \cup {n} /\ n \notin 1..(n - 1)
OBVIOUS

LEMMA DecodeEffect ==
    ASSUME TypeOK, NEW p, NEW kind, Decode(p, kind)
    PROVE  \E c, n : Entered(c, n, p, kind)
<1>1. PICK c, n, o, f :
         /\ c = Len(heap) + 1 /\ n = Len(frames) + 1
         /\ o = [path |-> p, kind |-> kind, includes |-> << >>, uses |-> << >>]
         /\ f = [obj |-> Len(heap) + 1, phase |-> "decode", failed |-> FALSE]
  OBVIOUS
<1>2. heap' = Append(heap, o) /\ frames' = Append(frames, f)
  BY <1>1 DEF Decode
<1>3. heap \in Seq(FragmentObject) /\ frames \in Seq(Frame(Object))
  BY DEF TypeOK, Frame
<1>4. /\ DOMAIN heap' = 1..c /\ c \in Nat /\ Object = 1..(c - 1)
      /\ \A i \in 1..(c - 1) : heap'[i] = heap[i]
      /\ heap'[c] = o
  BY <1>1, <1>2, <1>3, HeapType
<1>5. /\ Len(frames') = n /\ DOMAIN frames' = 1..n /\ DOMAIN frames = 1..(n - 1) /\ n \in Nat
      /\ \A i \in 1..(n - 1) : frames'[i] = frames[i]
      /\ frames'[n] = f
  BY <1>1, <1>2, <1>3, FrameType
<1>6. Object' = Object \cup {c} /\ c \notin Object
  <2>1. c \in Nat \ {0}
    BY <1>1, HeapType
  <2> QED
    BY <1>4, <2>1, OneMore DEF Object
<1>7. DOMAIN frames' = DOMAIN frames \cup {n} /\ n \notin DOMAIN frames
  <2>1. n \in Nat \ {0}
    BY <1>1, FrameType
  <2> QED
    BY <1>5, <2>1, OneMore
<1>8. \A k \in DOMAIN frames : /\ k \in Nat /\ k < n
                               /\ k # Len(frames) => k < Len(frames) /\ k + 1 \in DOMAIN frames
                               /\ k = Len(frames) => k + 1 = n /\ frames[k] = Top
  BY <1>1, <1>5, FrameType DEF Top
<1>9. /\ o.path = p /\ o.kind = kind /\ o.includes = << >> /\ o.uses = << >>
      /\ f.obj = c /\ f.phase = "decode" /\ f.failed = FALSE
  BY <1>1
<1>10. Len(o.includes) = 0 /\ Len(o.uses) = 0
  BY <1>9
<1> QED
  BY <1>1, <1>4, <1>5, <1>6, <1>7, <1>8, <1>9, <1>10 DEF Entered

\* The top frame goes.
LEMMA PopEffect ==
    ASSUME TypeOK, frames # << >>, Pop
    PROVE  /\ Len(frames') = Len(frames) - 1 /\ Len(frames) - 1 \in Nat
           /\ frames' \in Seq(Frame(Object))
           /\ DOMAIN frames' = DOMAIN frames \ {Len(frames)}
           /\ \A k \in DOMAIN frames' : k < Len(frames) /\ frames'[k] = frames[k]
           /\ frames' # << >> => Len(frames) - 1 \in DOMAIN frames
<1>1. frames \in Seq(Frame(Object)) /\ Len(frames) \in Nat \ {0}
  BY FrameType DEF TypeOK, Frame
<1>2. /\ frames' \in Seq(Frame(Object)) /\ Len(frames') = Len(frames) - 1
      /\ \A k \in 1..(Len(frames) - 1) : frames'[k] = frames[k]
      /\ DOMAIN frames' = 1..(Len(frames) - 1)
  <2>1. PICK n \in Int : n = Len(frames) - 1
    BY <1>1
  <2>2. \A i \in 1..n : frames[i] \in Frame(Object)
    BY <1>1, <2>1, FrameType
  <2>3. frames' = SubSeq(frames, 1, n)
    BY <2>1 DEF Pop
  <2>4. /\ SubSeq(frames, 1, n) \in Seq(Frame(Object))
        /\ Len(SubSeq(frames, 1, n)) = IF 1 <= n THEN n - 1 + 1 ELSE 0
        /\ \A i \in 1..(n - 1 + 1) : SubSeq(frames, 1, n)[i] = frames[1 + i - 1]
    BY <2>1, <2>2, SubSeqProperties
  <2>5. /\ frames' \in Seq(Frame(Object)) /\ Len(frames') = n
        /\ \A i \in 1..n : frames'[i] = frames[i]
    BY <1>1, <2>1, <2>3, <2>4
  <2> QED
    BY <2>1, <2>5
<1>3. frames' # << >> => Len(frames') # 0
  BY <1>2
<1> QED
  BY <1>1, <1>2, <1>3

\* The top fragment gets a link to an included fragment.
LEMMA IncludeEffect ==
    ASSUME TypeOK, NEW t \in Object, NEW x \in Object,
           heap' = [heap EXCEPT ![t].includes = Append(@, x)]
    PROVE  /\ heap' \in Seq(FragmentObject) /\ Object' = Object
           /\ \A o \in Object \ {t} : heap'[o] = heap[o]
           /\ \A o \in Object : heap'[o].path = heap[o].path /\ heap'[o].kind = heap[o].kind
                                /\ heap'[o].uses = heap[o].uses
           /\ Len(heap'[t].includes) = Len(heap[t].includes) + 1
           /\ \A i \in 1..Len(heap[t].includes) : heap'[t].includes[i] = heap[t].includes[i]
           /\ heap'[t].includes[Len(heap[t].includes) + 1] = x
<1> DEFINE l == heap[t].includes
<1>1. l \in Seq(Nat) /\ heap \in Seq(FragmentObject) /\ x \in Nat /\ heap[t] \in FragmentObject
  BY HeapType DEF TypeOK
<1>2. /\ Append(l, x) \in Seq(Nat) /\ Len(Append(l, x)) = Len(l) + 1
      /\ \A i \in 1..Len(l) : Append(l, x)[i] = l[i]
      /\ Append(l, x)[Len(l) + 1] = x
  <2> HIDE DEF l
  <2> QED
    BY <1>1
<1>3. PICK m : m = [heap[t] EXCEPT !.includes = Append(l, x)]
  OBVIOUS
<1>4. heap' = [heap EXCEPT ![t] = m]
  BY <1>3
<1>5. /\ m \in FragmentObject /\ m.includes = Append(l, x)
      /\ m.path = heap[t].path /\ m.kind = heap[t].kind /\ m.uses = heap[t].uses
  BY <1>1, <1>2, <1>3 DEF FragmentObject
<1>6. /\ DOMAIN heap' = DOMAIN heap /\ heap'[t] = m
      /\ \A o \in DOMAIN heap \ {t} : heap'[o] = heap[o]
  BY <1>4 DEF Object
<1>7. heap' \in Seq(FragmentObject)
  <2>1. t \in 1..Len(heap)
    BY HeapType
  <2>2. m \in FragmentObject /\ heap \in Seq(FragmentObject)
    BY <1>1, <1>5
  <2>3. [heap EXCEPT ![t] = m] \in Seq(FragmentObject)
    BY <2>1, <2>2, ExceptSeq
  <2> QED
    BY <1>4, <2>3
<1>8. Object' = Object
  BY <1>6 DEF Object
<1> QED
  BY <1>2, <1>5, <1>6, <1>7, <1>8 DEF Object

\* The top fragment gets a link to a used library, or none.
LEMMA UseEffect ==
    ASSUME TypeOK, NEW t \in Object, NEW x \in Object \cup {None},
           heap' = [heap EXCEPT ![t].uses = Append(@, x)]
    PROVE  /\ heap' \in Seq(FragmentObject) /\ Object' = Object
           /\ \A o \in Object \ {t} : heap'[o] = heap[o]
           /\ \A o \in Object : heap'[o].path = heap[o].path /\ heap'[o].kind = heap[o].kind
                                /\ heap'[o].includes = heap[o].includes
           /\ Len(heap'[t].uses) = Len(heap[t].uses) + 1
           /\ \A i \in 1..Len(heap[t].uses) : heap'[t].uses[i] = heap[t].uses[i]
           /\ heap'[t].uses[Len(heap[t].uses) + 1] = x
<1> DEFINE l == heap[t].uses
<1>1. /\ l \in Seq(Nat \cup {None}) /\ heap \in Seq(FragmentObject) /\ x \in Nat \cup {None}
      /\ heap[t] \in FragmentObject
  BY HeapType DEF TypeOK
<1>2. /\ Append(l, x) \in Seq(Nat \cup {None}) /\ Len(Append(l, x)) = Len(l) + 1
      /\ \A i \in 1..Len(l) : Append(l, x)[i] = l[i]
      /\ Append(l, x)[Len(l) + 1] = x
  <2> HIDE DEF l
  <2> QED
    BY <1>1
<1>3. PICK m : m = [heap[t] EXCEPT !.uses = Append(l, x)]
  OBVIOUS
<1>4. heap' = [heap EXCEPT ![t] = m]
  BY <1>3
<1>5. /\ m \in FragmentObject /\ m.uses = Append(l, x)
      /\ m.path = heap[t].path /\ m.kind = heap[t].kind /\ m.includes = heap[t].includes
  BY <1>1, <1>2, <1>3 DEF FragmentObject
<1>6. /\ DOMAIN heap' = DOMAIN heap /\ heap'[t] = m
      /\ \A o \in DOMAIN heap \ {t} : heap'[o] = heap[o]
  BY <1>4 DEF Object
<1>7. heap' \in Seq(FragmentObject)
  <2>1. t \in 1..Len(heap)
    BY HeapType
  <2>2. m \in FragmentObject /\ heap \in Seq(FragmentObject)
    BY <1>1, <1>5
  <2>3. [heap EXCEPT ![t] = m] \in Seq(FragmentObject)
    BY <2>1, <2>2, ExceptSeq
  <2> QED
    BY <1>4, <2>3
<1>8. Object' = Object
  BY <1>6 DEF Object
<1> QED
  BY <1>2, <1>5, <1>6, <1>7, <1>8 DEF Object

-----------------------------------------------------------------------------
(* The graph of the files *)

LEMMA RefersType ==
    ASSUME TypeOK, NEW p \in Path
    PROVE  Included(p) \subseteq Path /\ Used(p) \subseteq Path /\ Refers(p) \subseteq Path
BY ContentsType DEF Included, Used, Refers

\* Reachability goes on along a reference, and stays in every closed set.
LEMMA OnwardStep ==
    ASSUME TypeOK, NEW p \in Path, NEW q \in Onward[p], NEW r \in Refers(q)
    PROVE  q \in Path /\ r \in Onward[p]
<1>1. Onward[p] = {p} \cup Reach(Refers, p)
  BY DEF Onward
<1>2. q \in Path
  BY <1>1 DEF Reach
<1>3. r \in Path
  BY <1>2, RefersType
<1>4. ASSUME NEW S \in SUBSET Path, \A x \in S \cup {p} : Refers(x) \subseteq S
      PROVE  r \in S
  <2>1. q \in S \cup {p}
    BY <1>1, <1>4 DEF Reach
  <2> QED
    BY <1>4, <2>1
<1>5. r \in Reach(Refers, p)
  BY <1>3, <1>4 DEF Reach
<1> QED
  BY <1>1, <1>2, <1>5

LEMMA OnwardLeast ==
    ASSUME NEW p \in Path, NEW S \in SUBSET Path, p \in S, \A q \in S : Refers(q) \subseteq S
    PROVE  Onward[p] \subseteq S
<1>1. \A x \in S \cup {p} : Refers(x) \subseteq S
  OBVIOUS
<1>2. Reach(Refers, p) \subseteq S
  BY <1>1 DEF Reach
<1> QED
  BY <1>2 DEF Onward

LEMMA OnwardSelf == \A p \in Path : p \in Onward[p]
BY DEF Onward

\* The graph does not change.
LEMMA GraphKept ==
    ASSUME TypeOK, file' = file
    PROVE  Onward' = Onward /\ Culprits' = Culprits /\ (IncludeOnCycle' <=> IncludeOnCycle)
<1>1. \A q \in Path : Included(q)' = Included(q) /\ Used(q)' = Used(q)
  BY DEF Included, Used
<1>2. \A q \in Path : Refers(q)' = Refers(q)
  BY <1>1 DEF Refers
<1>3. \A q \in Path : Reach(Refers, q)' = Reach(Refers, q)
  <2> SUFFICES ASSUME NEW p \in Path
               PROVE  Reach(Refers, p)' = Reach(Refers, p)
    OBVIOUS
  <2>1. \A S \in SUBSET Path : (\A x \in S \cup {p} : Refers(x)' \subseteq S)
                               <=> (\A x \in S \cup {p} : Refers(x) \subseteq S)
    BY <1>2
  <2> QED
    BY <2>1 DEF Reach
<1>4. Onward' = Onward
  BY <1>3 DEF Onward
<1>5. Culprits' = Culprits
  <2>1. \A q \in Path : Bad(q)' <=> Bad(q)
    BY <1>1 DEF Bad, Admits
  <2> QED
    BY <2>1 DEF Culprits
<1>6. IncludeOnCycle' <=> IncludeOnCycle
  <2>1. \A q \in Path : ({q} \cup Reach(Refers, q))' = {q} \cup Reach(Refers, q)
    BY <1>3
  <2>2. \A p \in Path : Included(p) \subseteq Path
    BY RefersType
  <2> QED
    BY <1>1, <2>1, <2>2 DEF IncludeOnCycle
<1> QED
  BY <1>4, <1>5, <1>6

\* What a frame waits for is a reference of its file, and if it is not of the
\* kind that is asked for, the file is bad.
LEMMA NextRefers ==
    ASSUME TypeOK, NEW o \in Object, NEW phase \in {"decode", "uses"},
           Waits(file[heap[o].path], heap[o], phase)
    PROVE  LET q    == NextPath(file[heap[o].path], heap[o], phase)
               kind == NextKind(file[heap[o].path], heap[o], phase)
           IN  /\ q \in Path /\ q \in Refers(heap[o].path) /\ kind \in Loadable
               /\ phase = "decode" => q \in Included(heap[o].path)
               /\ ~Admitted(file[q], kind) => heap[o].path \in Culprits
<1> DEFINE s == file[heap[o].path]
<1>1. heap[o].path \in Path /\ Len(heap[o].includes) \in Nat /\ Len(heap[o].uses) \in Nat
  BY HeapType
<1>2. CASE phase = "decode"
  <2> DEFINE i == Len(heap[o].includes) + 1
  <2>1. i \in 1..Len(s.includes) /\ i \in DOMAIN s.includes
    <3>1. Len(heap[o].includes) < Len(s.includes)
      BY <1>2 DEF Waits
    <3>2. Len(s.includes) \in Nat /\ DOMAIN s.includes = 1..Len(s.includes)
      BY <1>1, ContentsType
    <3> HIDE DEF s
    <3> QED
      BY <1>1, <3>1, <3>2
  <2>2. s.includes[i].path \in Path /\ s.includes[i].kind \in Loadable
    BY <1>1, <2>1, ContentsType DEF Loadable
  <2>3. s.includes[i].path \in Included(heap[o].path)
    BY <2>1 DEF Included
  <2>4. ~Admitted(file[s.includes[i].path], s.includes[i].kind) => Bad(heap[o].path)
    BY <2>1 DEF Bad, Admits, Admitted
  <2> QED
    BY <1>1, <1>2, <2>2, <2>3, <2>4 DEF NextPath, NextKind, Refers, Culprits
<1>3. CASE phase = "uses"
  <2> DEFINE i == Len(heap[o].uses) + 1
  <2>1. i \in 1..Len(s.uses) /\ i \in DOMAIN s.uses
    <3>1. Len(heap[o].uses) < Len(s.uses)
      BY <1>3 DEF Waits
    <3>2. Len(s.uses) \in Nat /\ DOMAIN s.uses = 1..Len(s.uses)
      BY <1>1, ContentsType
    <3> HIDE DEF s
    <3> QED
      BY <1>1, <3>1, <3>2
  <2>2. s.uses[i] \in Path
    BY <1>1, <2>1, ContentsType
  <2>3. s.uses[i] \in Used(heap[o].path)
    BY <2>1 DEF Used
  <2>4. ~Admitted(file[s.uses[i]], "Library") => Bad(heap[o].path)
    BY <2>3 DEF Bad, Admits, Admitted
  <2> QED
    BY <1>1, <1>3, <2>2, <2>3, <2>4 DEF NextPath, NextKind, Refers, Culprits, Loadable
<1> QED
  BY <1>2, <1>3

-----------------------------------------------------------------------------
(* What every step keeps of the invariant *)

\* Objects only get more, and keep their file and their kind.
Grows ==
    /\ Object \subseteq Object'
    /\ \A o \in Object : heap'[o].path = heap[o].path /\ heap'[o].kind = heap[o].kind

LEMMA IsKept ==
    ASSUME Grows, NEW o, NEW p, NEW kind, Is(heap, o, p, kind)
    PROVE  Is(heap', o, p, kind)
BY DEF Grows, Is, Object

\* The links of an object that is not written to.
LEMMA LinksKept ==
    ASSUME Grows, NEW o \in Object, NEW s, Links(heap, o, s), heap'[o] = heap[o]
    PROVE  Links(heap', o, s)
<1>1. \A x, p, kind : Is(heap, x, p, kind) => Is(heap', x, p, kind)
  BY IsKept
<1> QED
  BY <1>1 DEF Links

\* A new object that is being decoded.
LEMMA DecodeGrows ==
    ASSUME TypeOK, NEW c, NEW n, NEW p, NEW kind, Entered(c, n, p, kind)
    PROVE  Grows
BY DEF Entered, Grows

LEMMA DecodeLinked ==
    ASSUME TypeOK, Linked, file' = file, NEW p \in Path, NEW kind \in Loadable,
           NEW c, NEW n, Entered(c, n, p, kind), Admitted(file[p], kind)
    PROVE  Linked'
<1>1. Grows
  BY DecodeGrows
<1>2. ASSUME NEW o \in Object'
      PROVE  Admitted(file[heap'[o].path], heap'[o].kind) /\ Links(heap', o, file[heap'[o].path])
  <2>1. CASE o \in Object
    <3>1. heap'[o] = heap[o]
      BY <2>1 DEF Entered
    <3>2. Admitted(file[heap[o].path], heap[o].kind) /\ Links(heap, o, file[heap[o].path])
      BY <2>1 DEF Linked
    <3> QED
      BY <1>1, <2>1, <3>1, <3>2, LinksKept
  <2>2. CASE o = c
    <3>1. /\ heap'[c].path = p /\ heap'[c].kind = kind
          /\ Len(heap'[c].includes) = 0 /\ Len(heap'[c].uses) = 0
      BY DEF Entered
    <3>2. Len(file[p].includes) \in Nat /\ Len(file[p].uses) \in Nat
      BY ContentsType
    <3> QED
      BY <2>2, <3>1, <3>2 DEF Links
  <2> QED
    BY <2>1, <2>2 DEF Entered
<1> QED
  BY <1>2 DEF Linked

LEMMA DecodeStack ==
    ASSUME TypeOK, Stack, file' = file, ret' = None, NEW p, NEW kind,
           NEW c, NEW n, Entered(c, n, p, kind),
           frames # << >> =>
              LET s == file[heap[Top.obj].path]
              IN  /\ Waits(s, heap[Top.obj], Top.phase)
                  /\ NextPath(s, heap[Top.obj], Top.phase) = p
                  /\ NextKind(s, heap[Top.obj], Top.phase) = kind
    PROVE  Stack'
<1>1. Is(heap', c, p, kind)
  BY DEF Entered, Is, Object
<1>2. ASSUME NEW k \in DOMAIN frames
      PROVE  /\ frames'[k] = frames[k] /\ heap'[frames[k].obj] = heap[frames[k].obj]
             /\ frames[k].obj \in Object /\ frames[k].obj # c
  BY FrameType DEF Entered
<1>3. ASSUME NEW k \in DOMAIN frames'
      PROVE  LET o     == heap'[frames'[k].obj]
                 s     == file[o.path]
                 phase == frames'[k].phase
             IN  /\ \A j \in DOMAIN frames' : frames'[j].obj = frames'[k].obj => j = k
                 /\ phase = "decode" => o.uses = << >> /\ ~frames'[k].failed
                 /\ phase = "uses" => ~s.malformed /\ Len(o.includes) = Len(s.includes)
                 /\ k < Len(frames') =>
                       /\ Waits(s, o, phase)
                       /\ Is(heap', frames'[k + 1].obj, NextPath(s, o, phase), NextKind(s, o, phase))
  <2>1. CASE k = n
    <3>1. /\ frames'[k].phase = "decode" /\ frames'[k].failed = FALSE /\ frames'[k].obj = c
          /\ heap'[frames'[k].obj].uses = << >> /\ ~(k < Len(frames'))
      BY <2>1 DEF Entered
    <3>2. \A j \in DOMAIN frames' : frames'[j].obj = frames'[k].obj => j = k
      BY <1>2, <2>1, <3>1 DEF Entered
    <3> QED
      BY <3>1, <3>2
  <2>2. CASE k \in DOMAIN frames
    <3> DEFINE o == heap[frames[k].obj]
               s == file[o.path]
               phase == frames[k].phase
    <3>1. /\ \A j \in DOMAIN frames : frames[j].obj = frames[k].obj => j = k
          /\ phase = "decode" => o.uses = << >> /\ ~frames[k].failed
          /\ phase = "uses" => ~s.malformed /\ Len(o.includes) = Len(s.includes)
          /\ k < Len(frames) =>
                /\ Waits(s, o, phase)
                /\ Is(heap, frames[k + 1].obj, NextPath(s, o, phase), NextKind(s, o, phase))
      BY <2>2 DEF Stack
    <3>2. frames'[k] = frames[k] /\ heap'[frames'[k].obj] = o /\ frames'[k].obj = frames[k].obj
          /\ frames[k].obj # c
      BY <1>2, <2>2
    <3>3. \A j \in DOMAIN frames' : frames'[j].obj = frames'[k].obj => j = k
      BY <1>2, <2>2, <3>1, <3>2 DEF Entered
    <3>4. /\ Waits(s, o, phase)
          /\ Is(heap', frames'[k + 1].obj, NextPath(s, o, phase), NextKind(s, o, phase))
      <4>1. CASE k # Len(frames)
        <5>1. k + 1 \in DOMAIN frames /\ k < Len(frames)
          BY <2>2, <4>1 DEF Entered
        <5>2. frames'[k + 1] = frames[k + 1]
          BY <5>1, <1>2
        <5> HIDE DEF o, s, phase
        <5> QED
          BY <3>1, <5>1, <5>2, DecodeGrows, IsKept
      <4>2. CASE k = Len(frames)
        <5>1. frames[k] = Top /\ k + 1 = n /\ frames # << >> /\ frames'[n].obj = c
          BY <2>2, <4>2 DEF Entered
        <5>2. Waits(s, o, phase) /\ NextPath(s, o, phase) = p /\ NextKind(s, o, phase) = kind
          BY <5>1
        <5> HIDE DEF o, s, phase
        <5> QED
          BY <1>1, <5>1, <5>2
      <4> QED
        BY <4>1, <4>2
    <3> HIDE DEF o
    <3> QED
      BY <3>1, <3>2, <3>3, <3>4
  <2> QED
    BY <2>1, <2>2 DEF Entered
<1> QED
  BY <1>3 DEF Stack

\* Seq(Frame(Object)) after objects were added.
LEMMA FramesKept ==
    ASSUME TypeOK, Object \subseteq Object', frames' = frames
    PROVE  frames' \in Seq(Frame(Object'))
<1>1. frames \in Seq(Frame(Object))
  BY DEF TypeOK, Frame
<1>2. \A k \in 1..Len(frames) : frames[k] \in Frame(Object')
  <2>1. \A k \in 1..Len(frames) : frames[k] \in Frame(Object)
    BY <1>1, ElementOfSeq
  <2>2. Frame(Object) \subseteq Frame(Object')
    BY DEF Frame
  <2> QED
    BY <2>1, <2>2
<1>3. frames \in Seq(Frame(Object'))
  BY <1>1, <1>2
<1> QED
  BY <1>3

LEMMA TypeKept ==
    ASSUME TypeOK, file' = file, heap' \in Seq(FragmentObject), Object \subseteq Object',
           frames' \in Seq(Frame(Object')),
           cache' \in [Path -> Object \cup {None}],
           ret' \in [ok : BOOLEAN, obj : Object \cup {None}] \cup {None},
           entryPoint' \in Object \cup {None},
           status' \in {"idle", "parsing", "loaded", "failed", "panicked"},
           parses' \in 0..MaxParses, tainted' \in BOOLEAN
    PROVE  TypeOK'
<1>1. cache' \in [Path -> Object' \cup {None}]
  OBVIOUS
<1>2. ret' \in [ok : BOOLEAN, obj : Object' \cup {None}] \cup {None}
  OBVIOUS
<1> QED
  BY <1>1, <1>2 DEF TypeOK, Frame

LEMMA DecodeType ==
    ASSUME TypeOK, NEW p \in Path, NEW kind \in Loadable, Decode(p, kind),
           UNCHANGED << file, cache, ret, entryPoint >>,
           status' \in {"idle", "parsing", "loaded", "failed", "panicked"},
           parses' \in 0..MaxParses, tainted' \in BOOLEAN
    PROVE  TypeOK'
<1>1. PICK c, n : Entered(c, n, p, kind)
  BY DecodeEffect
<1>2. PICK o, f : /\ o = [path |-> p, kind |-> kind, includes |-> << >>, uses |-> << >>]
                  /\ f = [obj |-> Len(heap) + 1, phase |-> "decode", failed |-> FALSE]
  OBVIOUS
<1>3. heap' = Append(heap, o) /\ frames' = Append(frames, f)
  BY <1>2 DEF Decode
<1>4. o \in FragmentObject
  BY <1>2 DEF FragmentObject
<1>5. heap' \in Seq(FragmentObject)
  BY <1>3, <1>4 DEF TypeOK
<1>6. Object \subseteq Object' /\ Len(heap) + 1 \in Object'
  BY <1>1 DEF Entered
<1>7. f \in Frame(Object')
  BY <1>2, <1>6 DEF Frame
<1>8. frames' \in Seq(Frame(Object'))
  <2>1. frames \in Seq(Frame(Object'))
    <3>1. frames \in Seq(Frame(Object))
      BY DEF TypeOK, Frame
    <3>2. \A k \in 1..Len(frames) : frames[k] \in Frame(Object')
      <4>1. \A k \in 1..Len(frames) : frames[k] \in Frame(Object)
        BY <3>1, ElementOfSeq
      <4> QED
        BY <1>6, <4>1 DEF Frame
    <3> QED
      BY <3>1, <3>2
  <2> QED
    BY <1>3, <1>7, <2>1
<1>9. /\ cache' \in [Path -> Object \cup {None}]
      /\ ret' \in [ok : BOOLEAN, obj : Object \cup {None}] \cup {None}
      /\ entryPoint' \in Object \cup {None}
  BY DEF TypeOK
<1> QED
  BY <1>5, <1>6, <1>8, <1>9, TypeKept

\* A new object is reached from wherever the top frame is.
LEMMA DecodeAbove ==
    ASSUME TypeOK, Stack, Above, file' = file, NEW p, NEW kind,
           NEW c, NEW n, Entered(c, n, p, kind),
           frames # << >> =>
              LET s == file[heap[Top.obj].path]
              IN  /\ Waits(s, heap[Top.obj], Top.phase)
                  /\ NextPath(s, heap[Top.obj], Top.phase) = p
    PROVE  /\ Above'
           /\ \A i \in DOMAIN frames : frames[i].phase = "decode" =>
                 LET o == heap[frames[i].obj]
                     q == NextPath(file[o.path], o, "decode")
                 IN  q \in Included(o.path) /\ q \in Path /\ p \in Onward[q]
<1>1. ASSUME NEW i \in DOMAIN frames, frames[i].phase = "decode",
             NEW o, o = heap[frames[i].obj], NEW q, q = NextPath(file[o.path], o, "decode")
      PROVE  q \in Included(o.path) /\ q \in Path /\ p \in Onward[q]
  <2>1. frames[i].obj \in Object /\ frames # << >>
    BY FrameType
  <2>2. Waits(file[o.path], o, "decode")
    <3>1. i # Len(frames) => i < Len(frames)
      BY DEF Entered
    <3>2. i = Len(frames) => frames[i] = Top
      BY DEF Entered
    <3> QED
      BY <1>1, <2>1, <3>1, <3>2 DEF Stack
  <2>3. q \in Included(o.path) /\ q \in Path
    BY <1>1, <2>1, <2>2, NextRefers
  <2>4. p \in Onward[q]
    <3>1. CASE i = Len(frames)
      <4>1. frames[i] = Top
        BY <3>1 DEF Entered
      <4>2. p = q
        BY <1>1, <2>1, <4>1
      <4> QED
        BY <2>3, <4>2, OnwardSelf
    <3>2. CASE i # Len(frames)
      <4>1. i < Len(frames) /\ Len(frames) \in DOMAIN frames /\ Top = frames[Len(frames)]
        BY <2>1, <3>2, FrameType DEF Entered, Top
      <4>2. heap[Top.obj].path \in Onward[q]
        BY <1>1, <4>1 DEF Above
      <4>3. p \in Refers(heap[Top.obj].path)
        BY <2>1, TopType, NextRefers
      <4> QED
        BY <2>3, <4>2, <4>3, OnwardStep
    <3> QED
      BY <3>1, <3>2
  <2> QED
    BY <2>3, <2>4
<1>2. ASSUME NEW i \in DOMAIN frames', NEW j \in DOMAIN frames', i < j, frames'[i].phase = "decode",
             NEW o, o = heap'[frames'[i].obj], NEW q, q = NextPath(file[o.path], o, "decode")
      PROVE  heap'[frames'[j].obj].path \in Onward[q]
  <2>1. i \in DOMAIN frames
    <3>1. n \in Nat /\ DOMAIN frames' = DOMAIN frames \cup {n}
      BY DEF Entered
    <3>2. \A k \in DOMAIN frames : k \in Nat /\ k < n
      BY DEF Entered
    <3> QED
      BY <1>2, <3>1, <3>2
  <2>2. frames'[i] = frames[i] /\ frames[i].obj \in Object /\ heap'[frames[i].obj] = heap[frames[i].obj]
    BY <2>1, FrameType DEF Entered
  <2>3. o = heap[frames[i].obj] /\ frames[i].phase = "decode"
    BY <1>2, <2>2
  <2>4. CASE j = n
    <3>1. heap'[frames'[j].obj].path = p
      BY <2>4 DEF Entered
    <3> QED
      BY <1>1, <1>2, <2>1, <2>3, <3>1
  <2>5. CASE j \in DOMAIN frames
    <3>1. frames'[j] = frames[j] /\ frames[j].obj \in Object /\ heap'[frames[j].obj] = heap[frames[j].obj]
      BY <2>5, FrameType DEF Entered
    <3> QED
      BY <1>2, <2>1, <2>3, <2>5, <3>1 DEF Above
  <2> QED
    BY <2>4, <2>5 DEF Entered
<1>3. Above'
  BY <1>2, GraphKept DEF Above
<1> QED
  BY <1>1, <1>3

-----------------------------------------------------------------------------
(* Loading a reference *)

\* The top frame asks for a fragment of path p.
Asked(p, kind) ==
    LET s == file[heap[Top.obj].path]
    IN  /\ Running
        /\ Waits(s, heap[Top.obj], Top.phase)
        /\ p = NextPath(s, heap[Top.obj], Top.phase)
        /\ kind = NextKind(s, heap[Top.obj], Top.phase)

LEMMA AskedType ==
    ASSUME TypeOK, NEW p, NEW kind, Asked(p, kind)
    PROVE  /\ p \in Path /\ kind \in Loadable /\ frames # << >> /\ ret = None /\ status = "parsing"
           /\ Top.obj \in Object
           /\ ~Admitted(file[p], kind) => heap[Top.obj].path \in Culprits
<1>1. frames # << >> /\ ret = None /\ status = "parsing"
  BY DEF Asked, Running
<1>2. Top.obj \in Object /\ Top.phase \in {"decode", "uses"}
  BY <1>1, TopType
<1> QED
  BY <1>1, <1>2, NextRefers DEF Asked

\* What is not of the kind it is asked for is to blame on the file that asks.
LEMMA AskedBlame ==
    ASSUME IInv, NEW p, NEW kind, Asked(p, kind), ~Admitted(file[p], kind), parses = 1
    PROVE  Onward[heap[1].path] \cap Culprits # {}
BY AskedType DEF IInv, Within

\* A cached fragment of another kind was admitted as such, so that the file is
\* not of the kind asked for.
LEMMA OtherKind ==
    ASSUME NEW s, NEW kind \in Loadable, NEW other \in Loadable,
           Admitted(s, kind), Admitted(s, other)
    PROVE  kind = other
BY DEF Admitted, Loadable

\* Nothing but ret and status changes.
LEMMA StillKept ==
    ASSUME IInv, UNCHANGED << file, heap, cache, frames, parses >>
    PROVE  Linked' /\ CachedByPath' /\ Within' /\ Above'
<1>1. Onward' = Onward
  BY GraphKept DEF IInv
<1>2. Linked'
  BY DEF IInv, Linked, Object
<1>3. CachedByPath'
  BY DEF IInv, CachedByPath
<1>4. Within'
  BY <1>1 DEF IInv, Within, Object
<1>5. Above'
  BY <1>1 DEF IInv, Above
<1> QED
  BY <1>2, <1>3, <1>4, <1>5

LEMMA StillStack ==
    ASSUME Stack, UNCHANGED << file, heap, frames >>,
           frames # << >> /\ ret' # None =>
              LET s == file[heap[Top.obj].path]
              IN  /\ Waits(s, heap[Top.obj], Top.phase)
                  /\ ret'.ok => Is(heap, ret'.obj, NextPath(s, heap[Top.obj], Top.phase),
                                   NextKind(s, heap[Top.obj], Top.phase))
    PROVE  Stack'
<1> SUFFICES ASSUME NEW k \in DOMAIN frames
             PROVE  LET o     == heap[frames[k].obj]
                        s     == file[o.path]
                        phase == frames[k].phase
                    IN  k = Len(frames) /\ ret' # None =>
                           /\ Waits(s, o, phase)
                           /\ ret'.ok => Is(heap, ret'.obj, NextPath(s, o, phase), NextKind(s, o, phase))
  BY DEF Stack
<1>1. frames # << >>
  OBVIOUS
<1>2. k = Len(frames) => frames[k] = Top
  BY DEF Top
<1> QED
  BY <1>1, <1>2

LEMMA OkNotNone == \A o \in Nat : Ok(o) # None
<1>1. \A o \in Nat : Ok(o) \in [ok : BOOLEAN, obj : Nat \cup {None}]
  BY DEF Ok
<1> QED
  BY <1>1, ConstantsAssumption

LEMMA ErrorNotNone == Error # None
<1>1. Error \in [ok : BOOLEAN, obj : Nat \cup {None}]
  BY DEF Error
<1> QED
  BY <1>1, ConstantsAssumption

LEMMA LoadHitKeeps ==
    ASSUME IInv, NEW p, NEW kind, Asked(p, kind),
           cache[p] # None, heap[cache[p]].kind = kind, ret' = Ok(cache[p]),
           UNCHANGED << file, heap, cache, frames, entryPoint, status, parses, tainted >>
    PROVE  IInv'
<1>1. /\ p \in Path /\ frames # << >> /\ ret = None /\ status = "parsing"
      /\ cache[p] \in Object /\ heap[cache[p]].path = p
  BY AskedType DEF IInv, TypeOK, CachedByPath
<1>2. ret' \in [ok : BOOLEAN, obj : Object \cup {None}] /\ ret'.ok /\ ret'.obj = cache[p] /\ ret' # None
  <2>1. Ok(cache[p]) # None
    BY <1>1, HeapType, OkNotNone DEF IInv
  <2> QED
    BY <1>1, <2>1 DEF Ok
<1>3. TypeOK'
  <2>1. frames' \in Seq(Frame(Object'))
    BY FramesKept DEF IInv, Object
  <2> QED
    BY <1>2, <2>1, TypeKept DEF IInv, TypeOK, Object
<1>4. Control'
  BY <1>1, <1>2 DEF IInv, Control, Object
<1>5. Linked' /\ CachedByPath' /\ Within' /\ Above'
  BY StillKept
<1>6. Stack'
  <2>1. Is(heap, ret'.obj, p, kind)
    BY <1>1, <1>2 DEF Is, Object
  <2> QED
    BY <2>1, StillStack DEF IInv, Asked
<1>7. Failing' <=> Failing
  BY <1>1, <1>2 DEF Failing
<1>8. Loaded'
  BY <1>7 DEF IInv, Loaded, OffStack, Object
<1>9. Blamed'
  BY <1>7, GraphKept DEF IInv, Blamed
<1>10. Single'
  BY <1>7, GraphKept DEF IInv, Single, Decoding, Object
<1> QED
  BY <1>3, <1>4, <1>5, <1>6, <1>8, <1>9, <1>10 DEF IInv

LEMMA LoadPanicKeeps ==
    ASSUME IInv, NEW p, NEW kind, Asked(p, kind),
           cache[p] # None, heap[cache[p]].kind # kind, status' = "panicked",
           UNCHANGED << file, heap, cache, frames, ret, entryPoint, parses, tainted >>
    PROVE  IInv'
<1>1. /\ p \in Path /\ frames # << >> /\ ret = None /\ status = "parsing" /\ kind \in Loadable
      /\ cache[p] \in Object /\ heap[cache[p]].path = p
  BY AskedType DEF IInv, TypeOK, CachedByPath
<1>2. ~Admitted(file[p], kind)
  <2>1. Admitted(file[p], heap[cache[p]].kind) /\ heap[cache[p]].kind \in Loadable
    BY <1>1, HeapType DEF IInv, Linked
  <2> QED
    BY <1>1, <2>1, OtherKind
<1>3. TypeOK'
  <2>1. frames' \in Seq(Frame(Object'))
    BY FramesKept DEF IInv, Object
  <2> QED
    BY <2>1, TypeKept DEF IInv, TypeOK, Object
<1>4. Control'
  BY <1>1 DEF IInv, Control, Object
<1>5. Linked' /\ CachedByPath' /\ Within' /\ Above'
  BY StillKept
<1>6. Stack'
  BY <1>1, StillStack DEF IInv
<1>7. Failing' <=> Failing
  BY DEF Failing
<1>8. Loaded'
  BY <1>7 DEF IInv, Loaded, OffStack, Object
<1>9. Blamed'
  BY <1>2, AskedBlame, GraphKept DEF IInv, Blamed
<1>10. Single'
  BY <1>7, GraphKept DEF IInv, Single, Decoding, Object
<1> QED
  BY <1>3, <1>4, <1>5, <1>6, <1>8, <1>9, <1>10 DEF IInv

LEMMA LoadErrorKeeps ==
    ASSUME IInv, NEW p, NEW kind, Asked(p, kind),
           ~Admitted(file[p], kind), ret' = Error,
           UNCHANGED << file, heap, cache, frames, entryPoint, status, parses, tainted >>
    PROVE  IInv'
<1>1. p \in Path /\ frames # << >> /\ ret = None /\ status = "parsing"
  BY AskedType DEF IInv
<1>2. ret' \in [ok : BOOLEAN, obj : Object \cup {None}] /\ ~ret'.ok /\ ret' # None
  BY ErrorNotNone DEF Error
<1>3. TypeOK'
  <2>1. frames' \in Seq(Frame(Object'))
    BY FramesKept DEF IInv, Object
  <2> QED
    BY <1>2, <2>1, TypeKept DEF IInv, TypeOK, Object
<1>4. Control'
  BY <1>1, <1>2 DEF IInv, Control, Object
<1>5. Linked' /\ CachedByPath' /\ Within' /\ Above'
  BY StillKept
<1>6. Stack'
  BY <1>2, StillStack DEF IInv, Asked
<1>7. Failing'
  BY <1>2 DEF Failing
<1>8. Loaded' /\ Single'
  BY <1>7 DEF Loaded, Single
<1>9. Blamed'
  BY AskedBlame, GraphKept DEF IInv, Blamed
<1> QED
  BY <1>3, <1>4, <1>5, <1>6, <1>8, <1>9 DEF IInv

\* What DecodeStack and the like leave: the new object is cached under no path.
LEMMA DecodeRest ==
    ASSUME IInv, file' = file, cache' = cache, ret' = ret, tainted' = tainted,
           NEW c, NEW n, NEW p \in Path, NEW kind, Entered(c, n, p, kind)
    PROVE  /\ CachedByPath'
           /\ Failing' <=> Failing
           /\ Loaded'
<1>1. CachedByPath'
  <2>1. \A q \in Path : cache[q] # None => cache[q] \in Object
    BY DEF IInv, TypeOK
  <2> QED
    BY <2>1 DEF IInv, CachedByPath, Entered
<1>2. Failing' <=> Failing
  BY DEF Failing, Entered
<1>3. ASSUME ~tainted, ~Failing, NEW o \in Object'
      PROVE  /\ OffStack(o)' => Done(heap'[o], file[heap'[o].path])
             /\ \A i \in 1..Len(heap'[o].uses) : heap'[o].uses[i] # None
  <2>1. CASE o = c
    <3>1. ~OffStack(o)'
      BY <2>1 DEF Entered, OffStack
    <3>2. Len(heap'[o].uses) = 0
      BY <2>1 DEF Entered
    <3> QED
      BY <3>1, <3>2
  <2>2. CASE o \in Object
    <3>1. heap'[o] = heap[o]
      BY <2>2 DEF Entered
    <3>2. OffStack(o)' => OffStack(o)
      BY DEF Entered, OffStack
    <3> QED
      BY <1>3, <2>2, <3>1, <3>2 DEF IInv, Loaded
  <2> QED
    BY <2>1, <2>2 DEF Entered
<1>4. Loaded'
  BY <1>2, <1>3 DEF Loaded
<1> QED
  BY <1>1, <1>2, <1>4

LEMMA LoadDecodeKeeps ==
    ASSUME IInv, NEW p, NEW kind, Asked(p, kind),
           cache[p] = None, Admitted(file[p], kind), Decode(p, kind),
           UNCHANGED << file, cache, ret, entryPoint, status, parses, tainted >>
    PROVE  IInv'
<1>1. /\ p \in Path /\ kind \in Loadable /\ frames # << >> /\ ret = None /\ status = "parsing"
      /\ Top.obj \in Object
  BY AskedType DEF IInv
<1>2. PICK c, n : Entered(c, n, p, kind)
  BY DecodeEffect DEF IInv
<1>3. /\ 1 \in Object /\ heap'[1] = heap[1] /\ heap # << >>
  BY <1>1, <1>2, HeapType DEF IInv, Control, Entered
<1>4. TypeOK'
  BY <1>1, DecodeType DEF IInv, TypeOK
<1>5. Linked'
  BY <1>1, <1>2, DecodeLinked DEF IInv
<1>6. Stack'
  BY <1>1, <1>2, DecodeStack DEF IInv, Asked
<1>7. /\ Above'
      /\ \A i \in DOMAIN frames : frames[i].phase = "decode" =>
            LET o == heap[frames[i].obj]
                q == NextPath(file[o.path], o, "decode")
            IN  q \in Included(o.path) /\ q \in Path /\ p \in Onward[q]
  BY <1>1, <1>2, DecodeAbove DEF IInv, Asked
<1>8. CachedByPath' /\ (Failing' <=> Failing) /\ Loaded'
  BY <1>1, <1>2, DecodeRest
<1>9. heap' # << >> /\ frames' # << >> /\ ret' = None
  <2>1. c \in DOMAIN heap' /\ n \in DOMAIN frames'
    BY <1>2 DEF Entered, Object
  <2>2. DOMAIN << >> = {}
    OBVIOUS
  <2> QED
    BY <1>1, <2>1, <2>2
<1>10. Control'
  BY <1>1, <1>3, <1>9 DEF IInv, Control
<1>11. Within'
  <2>1. parses = 1 => p \in Onward[heap[1].path]
    <3>1. p \in Refers(heap[Top.obj].path)
      BY <1>1, TopType, NextRefers DEF IInv, Asked
    <3> QED
      BY <1>1, <1>3, <3>1, OnwardStep, HeapType DEF IInv, Within
  <2> QED
    BY <1>2, <1>3, <2>1, GraphKept DEF IInv, Within, Entered
<1>12. Blamed'
  BY <1>1, <1>3, <1>8, GraphKept DEF IInv, Blamed
<1>13. Single'
  <2> SUFFICES ASSUME parses = 1, ~tainted, ~Failing, ~IncludeOnCycle
               PROVE  /\ \A o \in Object' : IF Decoding(o)' THEN cache[heap'[o].path] = None
                                                            ELSE cache[heap'[o].path] = o
                      /\ \A o, t \in Object' :
                            Decoding(o)' /\ Decoding(t)' /\ heap'[o].path = heap'[t].path => o = t
    BY <1>8, GraphKept DEF IInv, Single
  <2>1. \A o \in Object : heap'[o] = heap[o] /\ (Decoding(o)' <=> Decoding(o))
    BY <1>2 DEF Entered, Decoding
  <2>2. Decoding(c)' /\ heap'[c].path = p /\ Object' = Object \cup {c}
    BY <1>2 DEF Entered, Decoding
  <2>3. /\ \A o \in Object : IF Decoding(o) THEN cache[heap[o].path] = None
                                            ELSE cache[heap[o].path] = o
        /\ \A o, t \in Object : Decoding(o) /\ Decoding(t) /\ heap[o].path = heap[t].path => o = t
    BY DEF IInv, Single
  <2>4. ASSUME NEW o \in Object, Decoding(o), heap[o].path = p
        PROVE  FALSE
    <3>1. PICK i \in DOMAIN frames : frames[i].obj = o /\ frames[i].phase = "decode"
      BY <2>4 DEF Decoding
    <3>2. PICK q : q \in Included(p) /\ q \in Path /\ p \in Onward[q]
      BY <1>7, <2>4, <3>1
    <3>3. p \in {q} \cup Reach(Refers, q)
      BY <3>2 DEF Onward
    <3> QED
      BY <1>1, <3>2, <3>3 DEF IncludeOnCycle
  <2> QED
    BY <2>1, <2>2, <2>3, <2>4
<1> QED
  BY <1>4, <1>5, <1>6, <1>7, <1>8, <1>10, <1>11, <1>12, <1>13 DEF IInv

LEMMA LoadKeeps ==
    ASSUME IInv, NEW p, NEW kind, Asked(p, kind), Load(p, kind),
           UNCHANGED << file, cache, entryPoint, parses, tainted >>
    PROVE  IInv'
<1>1. Admits(p, kind) <=> Admitted(file[p], kind)
  BY DEF Admits, Admitted
<1>2. CASE cache[p] # None /\ heap[cache[p]].kind = kind
  BY <1>2, LoadHitKeeps DEF Load
<1>3. CASE cache[p] # None /\ heap[cache[p]].kind # kind
  BY <1>3, LoadPanicKeeps DEF Load
<1>4. CASE cache[p] = None /\ Admits(p, kind)
  BY <1>1, <1>4, LoadDecodeKeeps DEF Load
<1>5. CASE cache[p] = None /\ ~Admits(p, kind)
  BY <1>1, <1>5, LoadErrorKeeps DEF Load
<1> QED
  BY <1>2, <1>3, <1>4, <1>5

LEMMA IncludeKeeps ==
    ASSUME IInv, Include
    PROVE  IInv'
<1> DEFINE i == Source.includes[Len(Frag.includes) + 1]
<1>1. Top.phase = "decode" /\ Frag = heap[Top.obj] /\ Source = file[heap[Top.obj].path]
  BY TopType DEF IInv, Include, Running
<1>2. Asked(i.path, i.kind)
  BY <1>1 DEF Include, Asked, Waits, NextPath, NextKind
<1>3. Load(i.path, i.kind) /\ UNCHANGED << file, cache, entryPoint, parses, tainted >>
  BY DEF Include
<1> QED
  BY <1>2, <1>3, LoadKeeps

LEMMA UseKeeps ==
    ASSUME IInv, Use
    PROVE  IInv'
<1> DEFINE p == Source.uses[Len(Frag.uses) + 1]
<1>1. Top.phase = "uses" /\ Frag = heap[Top.obj] /\ Source = file[heap[Top.obj].path]
  BY TopType DEF IInv, Use, Running
<1>2. Asked(p, "Library")
  BY <1>1 DEF Use, Asked, Waits, NextPath, NextKind
<1>3. Load(p, "Library") /\ UNCHANGED << file, cache, entryPoint, parses, tainted >>
  BY DEF Use
<1> QED
  BY <1>2, <1>3, LoadKeeps

-----------------------------------------------------------------------------
(* The start and the end of a parse *)

LEMMA EmptyHeap ==
    ASSUME IInv, parses = 0
    PROVE  Object = {} /\ \A q \in Path : cache[q] = None
<1>1. heap = << >>
  BY DEF IInv, Control
<1>2. Object = {}
  BY <1>1 DEF Object
<1> QED
  BY <1>2 DEF IInv, TypeOK

LEMMA ParseKeeps ==
    ASSUME IInv, NEW p \in Path, Parse(p)
    PROVE  IInv'
<1>1. /\ status \in {"idle", "loaded", "failed"} /\ frames = << >> /\ ret = None
      /\ UNCHANGED << file, cache, ret, entryPoint >>
      /\ parses \in Nat /\ parses' = parses + 1 /\ parses' \in 0..MaxParses
  BY ConstantsAssumption DEF IInv, TypeOK, Control, Parse
<1>2. ~Failing
  BY <1>1 DEF Failing
<1>3. parses' = 1 => parses = 0 /\ ~tainted /\ heap = << >>
  BY <1>1 DEF IInv, Control
<1>4. CASE file[p].kind \in Loadable
  <2> DEFINE kind == file[p].kind
  <2>1. Decode(p, kind) /\ status' = "parsing" /\ tainted' = tainted
    BY <1>4 DEF Parse
  <2>2. PICK c, n : Entered(c, n, p, kind)
    BY <2>1, DecodeEffect DEF IInv
  <2>3. TypeOK'
    BY <1>1, <1>4, <2>1, DecodeType DEF IInv, TypeOK
  <2>4. Linked'
    BY <1>1, <1>4, <2>2, DecodeLinked DEF IInv, Admitted
  <2>5. Stack'
    BY <1>1, <2>2, DecodeStack DEF IInv
  <2>6. Above'
    BY <1>1, <2>2, DecodeAbove DEF IInv
  <2>7. CachedByPath' /\ ~Failing' /\ Loaded'
    BY <1>1, <1>2, <2>1, <2>2, DecodeRest
  <2>8. heap' # << >> /\ frames' # << >> /\ ret' = None
    <3>1. c \in DOMAIN heap' /\ n \in DOMAIN frames'
      BY <2>2 DEF Entered, Object
    <3>2. DOMAIN << >> = {}
      OBVIOUS
    <3> QED
      BY <1>1, <3>1, <3>2
  <2>9. Control'
    BY <1>1, <1>3, <2>1, <2>8 DEF Control
  <2>10. parses' = 1 => /\ Object' = {c} /\ c = 1 /\ heap'[c].path = p
                        /\ cache'[p] = None /\ Decoding(c)'
    BY <1>1, <1>3, <2>2, EmptyHeap DEF Entered, Decoding
  <2>11. Within'
    BY <1>1, <2>10, OnwardSelf, GraphKept DEF IInv, Within
  <2>12. Blamed'
    BY <2>1, <2>7 DEF Blamed
  <2>13. Single'
    BY <2>10 DEF Single
  <2> QED
    BY <2>3, <2>4, <2>5, <2>6, <2>7, <2>9, <2>11, <2>12, <2>13 DEF IInv
<1>5. CASE file[p].kind \notin Loadable
  <2>1. /\ status' = "failed" /\ tainted' = TRUE
        /\ UNCHANGED << heap, frames >>
    BY <1>5 DEF Parse
  <2>2. TypeOK'
    <3>1. frames' \in Seq(Frame(Object'))
      BY <2>1, FramesKept DEF IInv, Object
    <3> QED
      BY <1>1, <2>1, <3>1, TypeKept DEF IInv, TypeOK, Object
  <2>3. Control'
    BY <1>1, <2>1 DEF IInv, Control
  <2>4. Linked'
    BY <1>1, <2>1 DEF IInv, Linked, Object
  <2>5. Stack' /\ Above'
    BY <1>1, <2>1 DEF Stack, Above
  <2>6. CachedByPath'
    BY <1>1, <2>1 DEF IInv, CachedByPath
  <2>7. Loaded' /\ Single'
    BY <2>1 DEF Loaded, Single
  <2>8. Within' /\ Blamed'
    BY <1>3, <2>1, EmptyHeap DEF Within, Blamed, Object
  <2> QED
    BY <2>2, <2>3, <2>4, <2>5, <2>6, <2>7, <2>8 DEF IInv
<1> QED
  BY <1>4, <1>5

LEMMA ParseReturnsKeeps ==
    ASSUME IInv, ParseReturns
    PROVE  IInv'
<1>1. /\ status = "parsing" /\ ret # None /\ frames = << >> /\ ret' = None
      /\ UNCHANGED << file, heap, cache, frames, parses >>
      /\ ret \in [ok : BOOLEAN, obj : Object \cup {None}]
  BY DEF IInv, TypeOK, ParseReturns, Returned
<1>2. \/ ret.ok /\ status' = "loaded" /\ tainted' = tainted /\ entryPoint' = ret.obj
      \/ ~ret.ok /\ status' = "failed" /\ tainted' = TRUE /\ entryPoint' = entryPoint
  <2>1. CASE ret.ok
    BY <2>1 DEF ParseReturns
  <2>2. CASE ~ret.ok
    BY <2>2 DEF ParseReturns
  <2> QED
    BY <2>1, <2>2
<1>3. TypeOK'
  <2>1. frames' \in Seq(Frame(Object'))
    BY <1>1, FramesKept DEF IInv, Object
  <2>2. ret.obj \in Object \cup {None}
    BY <1>1
  <2>3. /\ entryPoint' \in Object \cup {None} /\ tainted' \in BOOLEAN
        /\ status' \in {"idle", "parsing", "loaded", "failed", "panicked"}
    BY <1>2, <2>2 DEF IInv, TypeOK
  <2> QED
    BY <1>1, <2>1, <2>3, TypeKept DEF IInv, TypeOK, Object
<1>4. Control'
  BY <1>1, <1>2 DEF IInv, Control, Object
<1>5. Linked' /\ CachedByPath' /\ Within' /\ Above'
  BY <1>1, StillKept
<1>6. Stack'
  BY <1>1, StillStack DEF IInv
<1>7. ~Failing' /\ (Failing <=> ~ret.ok)
  BY <1>1 DEF Failing
<1>8. Loaded'
  BY <1>1, <1>2, <1>7 DEF IInv, Loaded, OffStack, Object
<1>9. Blamed'
  BY <1>1, <1>2, <1>7, GraphKept DEF IInv, Blamed
<1>10. Single'
  BY <1>1, <1>2, <1>7, GraphKept DEF IInv, Single, Decoding, Object
<1> QED
  BY <1>3, <1>4, <1>5, <1>6, <1>8, <1>9, <1>10 DEF IInv

-----------------------------------------------------------------------------
(* The top frame returns *)

LEMMA PopStack ==
    ASSUME TypeOK, Stack, frames # << >>, Pop, UNCHANGED << file, heap >>,
           ret' # None /\ ret'.ok => ret'.obj = Top.obj
    PROVE  Stack'
<1>1. ASSUME NEW k \in DOMAIN frames'
      PROVE  LET o     == heap[frames[k].obj]
                 s     == file[o.path]
                 phase == frames[k].phase
             IN  /\ \A j \in DOMAIN frames' : frames'[j].obj = frames[k].obj => j = k
                 /\ phase = "decode" => o.uses = << >> /\ ~frames[k].failed
                 /\ phase = "uses" => ~s.malformed /\ Len(o.includes) = Len(s.includes)
                 /\ k < Len(frames') =>
                       /\ Waits(s, o, phase)
                       /\ Is(heap, frames'[k + 1].obj, NextPath(s, o, phase), NextKind(s, o, phase))
                 /\ k = Len(frames') /\ ret' # None =>
                       /\ Waits(s, o, phase)
                       /\ ret'.ok => Is(heap, ret'.obj, NextPath(s, o, phase), NextKind(s, o, phase))
  <2> DEFINE o == heap[frames[k].obj]
             s == file[o.path]
             phase == frames[k].phase
  <2>1. k \in DOMAIN frames /\ k < Len(frames) /\ frames'[k] = frames[k] /\ k + 1 \in DOMAIN frames
    BY PopEffect, FrameType
  <2>2. /\ \A j \in DOMAIN frames : frames[j].obj = frames[k].obj => j = k
        /\ phase = "decode" => o.uses = << >> /\ ~frames[k].failed
        /\ phase = "uses" => ~s.malformed /\ Len(o.includes) = Len(s.includes)
        /\ Waits(s, o, phase)
        /\ Is(heap, frames[k + 1].obj, NextPath(s, o, phase), NextKind(s, o, phase))
    BY <2>1 DEF Stack
  <2>3. \A j \in DOMAIN frames' : frames'[j].obj = frames[k].obj => j = k
    BY <2>1, <2>2, PopEffect
  <2>4. k < Len(frames') => frames'[k + 1] = frames[k + 1]
    <3>1. k < Len(frames') => k + 1 \in DOMAIN frames /\ k + 1 # Len(frames)
      BY <2>1, PopEffect, FrameType
    <3> QED
      BY <3>1, PopEffect
  <2>5. k = Len(frames') => frames[k + 1] = Top
    BY <2>1, PopEffect, FrameType DEF Top
  <2> QED
    BY <2>2, <2>3, <2>4, <2>5
<1>2. \A k \in DOMAIN frames' : frames'[k] = frames[k]
  BY PopEffect
<1> QED
  BY <1>1, <1>2 DEF Stack

LEMMA PopAbove ==
    ASSUME TypeOK, Above, frames # << >>, Pop, UNCHANGED << file, heap >>
    PROVE  Above'
<1>1. \A k \in DOMAIN frames' : k \in DOMAIN frames /\ frames'[k] = frames[k]
  BY PopEffect
<1> QED
  BY <1>1, GraphKept DEF Above

\* Types, and what only depends on the heap.
LEMMA PopKept ==
    ASSUME IInv, frames # << >>, Pop,
           UNCHANGED << file, heap, entryPoint, status, parses, tainted >>,
           cache' \in [Path -> Object \cup {None}],
           ret' \in [ok : BOOLEAN, obj : Object \cup {None}]
    PROVE  TypeOK' /\ Linked' /\ Within' /\ Above'
<1>1. frames' \in Seq(Frame(Object'))
  BY PopEffect DEF IInv, Object
<1>2. TypeOK'
  BY <1>1, TypeKept DEF IInv, TypeOK, Object
<1>3. Linked'
  BY DEF IInv, Linked, Object
<1>4. Within'
  BY GraphKept DEF IInv, Within, Object
<1>5. Above'
  BY PopAbove DEF IInv
<1> QED
  BY <1>2, <1>3, <1>4, <1>5

LEMMA DecodeFailsKeeps ==
    ASSUME IInv, DecodeFails
    PROVE  IInv'
<1>1. /\ status = "parsing" /\ frames # << >> /\ ret = None /\ Pop /\ ret' = Error
      /\ UNCHANGED << file, heap, cache, entryPoint, status, parses, tainted >>
  BY DEF DecodeFails, Running
<1>2. ret' \in [ok : BOOLEAN, obj : Object \cup {None}] /\ ~ret'.ok /\ ret' # None
  BY <1>1, ErrorNotNone DEF Error
<1>3. TypeOK' /\ Linked' /\ Within' /\ Above'
  BY <1>1, <1>2, PopKept DEF IInv, TypeOK
<1>4. Control'
  BY <1>1, <1>2 DEF IInv, Control, Object
<1>5. Stack'
  BY <1>1, <1>2, PopStack DEF IInv
<1>6. CachedByPath'
  BY <1>1 DEF IInv, CachedByPath
<1>7. Failing'
  BY <1>2 DEF Failing
<1>8. Loaded' /\ Single'
  BY <1>7 DEF Loaded, Single
<1>9. Blamed'
  <2>1. Top.obj \in Object /\ Source.malformed /\ Source = file[heap[Top.obj].path]
    BY <1>1, TopType DEF IInv, DecodeFails
  <2>2. heap[Top.obj].path \in Culprits
    BY <2>1, HeapType DEF IInv, Culprits, Bad
  <2> QED
    BY <1>1, <2>1, <2>2, GraphKept DEF IInv, Within, Blamed
<1> QED
  BY <1>3, <1>4, <1>5, <1>6, <1>8, <1>9 DEF IInv

LEMMA PassErrorKeeps ==
    ASSUME IInv, PassError
    PROVE  IInv'
<1>1. /\ status = "parsing" /\ frames # << >> /\ ret # None /\ ~ret.ok /\ Pop /\ ret' = ret
      /\ UNCHANGED << file, heap, cache, entryPoint, status, parses, tainted >>
      /\ ret' \in [ok : BOOLEAN, obj : Object \cup {None}]
  BY DEF IInv, TypeOK, PassError, Returned
<1>2. TypeOK' /\ Linked' /\ Within' /\ Above'
  BY <1>1, PopKept DEF IInv, TypeOK
<1>3. Control'
  BY <1>1 DEF IInv, Control, Object
<1>4. Stack'
  BY <1>1, PopStack DEF IInv
<1>5. CachedByPath'
  BY <1>1 DEF IInv, CachedByPath
<1>6. Failing /\ Failing'
  BY <1>1 DEF Failing
<1>7. Loaded' /\ Single'
  BY <1>6 DEF Loaded, Single
<1>8. Blamed'
  BY <1>1, <1>6, GraphKept DEF IInv, Blamed
<1> QED
  BY <1>2, <1>3, <1>4, <1>5, <1>7, <1>8 DEF IInv

-----------------------------------------------------------------------------
(* A fragment is decoded *)

\* The top frame goes on, in another phase or after an error.
LEMMA TopEffect ==
    ASSUME TypeOK, frames # << >>, NEW f \in Frame(Object), f.obj = Top.obj,
           frames' = [frames EXCEPT ![Len(frames)] = f]
    PROVE  /\ frames' \in Seq(Frame(Object)) /\ Len(frames') = Len(frames)
           /\ DOMAIN frames' = DOMAIN frames /\ Len(frames) \in DOMAIN frames
           /\ \A k \in DOMAIN frames : k # Len(frames) => frames'[k] = frames[k]
           /\ \A k \in DOMAIN frames : frames'[k].obj = frames[k].obj
           /\ frames'[Len(frames)] = f
<1>1. frames \in Seq(Frame(Object)) /\ Len(frames) \in 1..Len(frames)
  BY FrameType DEF TypeOK, Frame
<1>2. /\ [frames EXCEPT ![Len(frames)] = f] \in Seq(Frame(Object))
      /\ Len([frames EXCEPT ![Len(frames)] = f]) = Len(frames)
  BY <1>1, ExceptSeq
<1>3. DOMAIN frames' = DOMAIN frames /\ Len(frames) \in DOMAIN frames
  BY FrameType
<1>4. \A k \in DOMAIN frames : k # Len(frames) => frames'[k] = frames[k]
  OBVIOUS
<1>5. frames'[Len(frames)] = f
  BY <1>3
<1>6. \A k \in DOMAIN frames : frames'[k].obj = frames[k].obj
  BY <1>4, <1>5 DEF Top
<1> QED
  BY <1>2, <1>3, <1>4, <1>5, <1>6

\* What Decoded finds, and what it puts into the cache.
LEMMA DecodedFinds ==
    ASSUME IInv, Decoded
    PROVE  /\ status = "parsing" /\ frames # << >> /\ ret = None
           /\ UNCHANGED << file, heap, entryPoint, status, parses, tainted >>
           /\ Top.obj \in Object /\ Top.phase = "decode" /\ ~Top.failed
           /\ heap[Top.obj].uses = << >> /\ Len(heap[Top.obj].uses) = 0
           /\ heap[Top.obj].path \in Path
           /\ ~file[heap[Top.obj].path].malformed
           /\ Len(heap[Top.obj].includes) = Len(file[heap[Top.obj].path].includes)
           /\ cache' \in [Path -> Object \cup {None}]
           /\ cache'[heap[Top.obj].path] = IF cache[heap[Top.obj].path] = None
                                           THEN Top.obj ELSE cache[heap[Top.obj].path]
           /\ \A q \in Path : q # heap[Top.obj].path => cache'[q] = cache[q]
<1>1. /\ status = "parsing" /\ frames # << >> /\ ret = None
      /\ UNCHANGED << file, heap, entryPoint, status, parses, tainted >>
      /\ Top.phase = "decode"
  BY DEF Decoded, Running
<1>2. /\ Top.obj \in Object /\ Frag = heap[Top.obj] /\ Frag.path \in Path
      /\ Source = file[heap[Top.obj].path] /\ Len(frames) \in DOMAIN frames /\ Top = frames[Len(frames)]
  BY <1>1, TopType, FrameType DEF IInv
<1>3. heap[Top.obj].uses = << >> /\ ~Top.failed
  BY <1>1, <1>2 DEF IInv, Stack
<1>4. /\ ~file[heap[Top.obj].path].malformed
      /\ Len(heap[Top.obj].includes) = Len(file[heap[Top.obj].path].includes)
  BY <1>2 DEF Decoded
<1>5. /\ cache' = [cache EXCEPT ![heap[Top.obj].path] = IF @ = None THEN Top.obj ELSE @]
      /\ cache \in [Path -> Object \cup {None}]
  BY <1>2 DEF Decoded, IInv, TypeOK
<1>6. /\ cache' \in [Path -> Object \cup {None}]
      /\ cache'[heap[Top.obj].path] = IF cache[heap[Top.obj].path] = None
                                      THEN Top.obj ELSE cache[heap[Top.obj].path]
      /\ \A q \in Path : q # heap[Top.obj].path => cache'[q] = cache[q]
  BY <1>2, <1>5
<1> QED
  BY <1>1, <1>2, <1>3, <1>4, <1>6

\* The cache afterwards, whether the frame stays for the "uses" or goes.
LEMMA DecodedCache ==
    ASSUME IInv, Decoded, ret' = None \/ ret'.ok,
           \A o \in Object : Decoding(o)' <=> Decoding(o) /\ o # Top.obj,
           Failing' <=> Failing
    PROVE  CachedByPath' /\ Single'
<1>1. CachedByPath'
  BY DecodedFinds DEF IInv, CachedByPath
<1>2. Decoding(Top.obj)
  BY DecodedFinds, FrameType DEF IInv, Decoding, Top
<1>3. ASSUME parses = 1, ~tainted, ~Failing, ~IncludeOnCycle
      PROVE  /\ \A o \in Object : IF Decoding(o)' THEN cache'[heap[o].path] = None
                                                  ELSE cache'[heap[o].path] = o
             /\ \A o, t \in Object :
                   Decoding(o)' /\ Decoding(t)' /\ heap[o].path = heap[t].path => o = t
  <2>1. /\ \A o \in Object : IF Decoding(o) THEN cache[heap[o].path] = None
                                            ELSE cache[heap[o].path] = o
        /\ \A o, t \in Object : Decoding(o) /\ Decoding(t) /\ heap[o].path = heap[t].path => o = t
    BY <1>3 DEF IInv, Single
  <2>2. Top.obj \in Object /\ cache[heap[Top.obj].path] = None
    BY <1>2, <2>1, DecodedFinds
  <2>3. \A o \in Object : o # None /\ heap[o].path \in Path
    BY ConstantsAssumption, HeapType DEF IInv
  <2>4. \A o \in Object : o # Top.obj => heap[o].path # heap[Top.obj].path
    BY <1>2, <2>1, <2>2, <2>3
  <2> QED
    BY <1>2, <2>1, <2>2, <2>3, <2>4, DecodedFinds
<1>4. Single'
  BY <1>3, DecodedFinds, GraphKept DEF IInv, Single, Object
<1> QED
  BY <1>1, <1>4

LEMMA DecodedKeeps ==
    ASSUME IInv, Decoded
    PROVE  IInv'
<1>1. /\ status = "parsing" /\ frames # << >> /\ ret = None
      /\ UNCHANGED << file, heap, entryPoint, status, parses, tainted >>
      /\ Top.obj \in Object /\ Top.phase = "decode" /\ ~Top.failed
      /\ Len(heap[Top.obj].uses) = 0 /\ cache' \in [Path -> Object \cup {None}]
      /\ Top = frames[Len(frames)] /\ Len(frames) \in DOMAIN frames
      /\ Source = file[heap[Top.obj].path] /\ heap[Top.obj].path \in Path
  BY DecodedFinds, TopType, FrameType DEF IInv
<1>2. \A k \in DOMAIN frames : frames[k].obj = Top.obj => k = Len(frames)
  BY <1>1 DEF IInv, Stack
<1>3. CASE Source.kind \in {"Library", "DataType"}
  <2>1. frames' = [frames EXCEPT ![Len(frames)].phase = "uses"] /\ ret' = None
    BY <1>1, <1>3 DEF Decoded
  <2>2. PICK f : f = [Top EXCEPT !.phase = "uses"]
    OBVIOUS
  <2>3. f \in Frame(Object) /\ f.obj = Top.obj /\ f.phase = "uses" /\ f.failed = Top.failed
    BY <1>1, <2>2, TopType DEF IInv, Frame
  <2>4. frames' = [frames EXCEPT ![Len(frames)] = f]
    BY <1>1, <2>1, <2>2
  <2>5. /\ frames' \in Seq(Frame(Object)) /\ Len(frames') = Len(frames) /\ DOMAIN frames' = DOMAIN frames
        /\ \A k \in DOMAIN frames : k # Len(frames) => frames'[k] = frames[k]
        /\ \A k \in DOMAIN frames : frames'[k].obj = frames[k].obj
        /\ frames'[Len(frames)] = f
    BY <1>1, <2>3, <2>4, TopEffect DEF IInv
  <2>6. TypeOK'
    BY <1>1, <2>1, <2>5, TypeKept DEF IInv, TypeOK, Object
  <2>7. frames' # << >>
    BY <1>1, <2>5
  <2>8. Control'
    BY <1>1, <2>1, <2>7 DEF IInv, Control, Object
  <2>9. Linked' /\ Within'
    BY <1>1, GraphKept DEF IInv, Linked, Within, Object
  <2>10. Stack'
    <3>1. ASSUME NEW k \in DOMAIN frames
          PROVE  LET o     == heap[frames[k].obj]
                     s     == file[o.path]
                     phase == frames'[k].phase
                 IN  /\ \A j \in DOMAIN frames : frames[j].obj = frames[k].obj => j = k
                     /\ phase = "decode" => o.uses = << >> /\ ~frames'[k].failed
                     /\ phase = "uses" => ~s.malformed /\ Len(o.includes) = Len(s.includes)
                     /\ k < Len(frames) =>
                           /\ Waits(s, o, phase)
                           /\ Is(heap, frames[k + 1].obj, NextPath(s, o, phase), NextKind(s, o, phase))
      <4>1. CASE k = Len(frames)
        <5>1. /\ frames'[k].phase = "uses" /\ frames[k] = Top /\ ~(k < Len(frames))
              /\ ~file[heap[Top.obj].path].malformed
              /\ Len(heap[Top.obj].includes) = Len(file[heap[Top.obj].path].includes)
          BY <1>1, <2>3, <2>5, <4>1, DecodedFinds, FrameType DEF IInv
        <5> QED
          BY <1>2, <4>1, <5>1
      <4>2. CASE k # Len(frames)
        <5>1. frames'[k] = frames[k]
          BY <2>5, <4>2
        <5> QED
          BY <5>1 DEF IInv, Stack
      <4> QED
        BY <4>1, <4>2
    <3>2. \A k \in DOMAIN frames : k < Len(frames) => frames'[k + 1].obj = frames[k + 1].obj
      BY <2>5, FrameType DEF IInv
    <3>3. \A k \in DOMAIN frames' :
             /\ k \in DOMAIN frames /\ frames'[k].obj = frames[k].obj
             /\ \A j \in DOMAIN frames : frames'[j].obj = frames[j].obj
      BY <2>5
    <3>4. /\ DOMAIN frames' = DOMAIN frames /\ Len(frames') = Len(frames)
          /\ heap' = heap /\ file' = file /\ ret' = None
      BY <1>1, <2>1, <2>5
    <3> QED
      BY <3>1, <3>2, <3>3, <3>4 DEF Stack
  <2>11. Above'
    <3>1. \A k \in DOMAIN frames : frames'[k].phase = "decode" => frames[k].phase = "decode"
      BY <2>3, <2>5
    <3> QED
      BY <1>1, <2>5, <3>1, GraphKept DEF IInv, Above
  <2>12. Failing' <=> Failing
    BY <1>1, <2>1, <2>3, <2>5 DEF Failing
  <2>13. \A o \in Object : Decoding(o)' <=> Decoding(o) /\ o # Top.obj
    BY <1>1, <1>2, <2>3, <2>5 DEF Decoding
  <2>14. CachedByPath' /\ Single'
    BY <2>1, <2>12, <2>13, DecodedCache
  <2>15. \A o \in Object : OffStack(o)' <=> OffStack(o)
    BY <2>5 DEF OffStack
  <2>16. Loaded'
    BY <1>1, <2>12, <2>15 DEF IInv, Loaded, Object
  <2>17. Blamed'
    BY <1>1, <2>12, GraphKept DEF IInv, Blamed
  <2> QED
    BY <2>6, <2>8, <2>9, <2>10, <2>11, <2>14, <2>16, <2>17 DEF IInv
<1>4. CASE Source.kind \notin {"Library", "DataType"}
  <2>1. Pop /\ ret' = Ok(Top.obj)
    BY <1>4 DEF Decoded
  <2>2. /\ ret' \in [ok : BOOLEAN, obj : Object \cup {None}] /\ ret'.ok /\ ret'.obj = Top.obj
        /\ ret' # None
    BY <1>1, <2>1, OkNotNone, HeapType DEF IInv, Ok
  <2>3. TypeOK' /\ Linked' /\ Within' /\ Above'
    BY <1>1, <2>1, <2>2, PopKept
  <2>4. Control'
    BY <1>1, <2>2 DEF IInv, Control, Object
  <2>5. Stack'
    BY <1>1, <2>1, <2>2, PopStack DEF IInv
  <2>6. /\ DOMAIN frames' = DOMAIN frames \ {Len(frames)}
        /\ \A k \in DOMAIN frames' : frames'[k] = frames[k]
    BY <1>1, <2>1, PopEffect DEF IInv
  <2>7. Failing' <=> Failing
    BY <1>1, <2>2, <2>6 DEF Failing
  <2>8. \A o \in Object : Decoding(o)' <=> Decoding(o) /\ o # Top.obj
    BY <1>1, <1>2, <2>6 DEF Decoding
  <2>9. CachedByPath' /\ Single'
    BY <2>2, <2>7, <2>8, DecodedCache
  <2>10. \A o \in Object : o # Top.obj /\ OffStack(o)' => OffStack(o)
    BY <1>1, <2>6 DEF OffStack
  <2>11. Done(heap[Top.obj], Source)
    <3>1. Admitted(Source, heap[Top.obj].kind) /\ heap[Top.obj].kind \in Loadable
      BY <1>1, HeapType DEF IInv, Linked
    <3>2. Source.kind \in {"NamedExample", "JSON"}
      BY <1>4, <3>1 DEF Admitted, Loadable
    <3>3. Len(Source.uses) = 0
      BY <1>1, <3>2, ContentsType DEF IInv
    <3> QED
      BY <1>1, <3>3, DecodedFinds DEF Done
  <2>12. Loaded'
    BY <1>1, <2>7, <2>10, <2>11 DEF IInv, Loaded, Object
  <2>13. Blamed'
    BY <1>1, <2>7, GraphKept DEF IInv, Blamed
  <2> QED
    BY <2>3, <2>4, <2>5, <2>9, <2>12, <2>13 DEF IInv
<1> QED
  BY <1>3, <1>4

LEMMA UsesDoneKeeps ==
    ASSUME IInv, UsesDone
    PROVE  IInv'
<1>1. /\ status = "parsing" /\ frames # << >> /\ ret = None /\ Pop /\ Top.phase = "uses"
      /\ UNCHANGED << file, heap, cache, entryPoint, status, parses, tainted >>
      /\ Top.obj \in Object /\ Top.failed \in BOOLEAN
      /\ Top = frames[Len(frames)] /\ Len(frames) \in DOMAIN frames
      /\ Frag = heap[Top.obj] /\ Source = file[heap[Top.obj].path]
      /\ Len(Frag.uses) = Len(Source.uses)
  BY TopType, FrameType DEF IInv, UsesDone, Running
<1>2. ret' = IF Top.failed THEN Error ELSE Ok(Top.obj)
  BY DEF UsesDone
<1>3. /\ ret' \in [ok : BOOLEAN, obj : Object \cup {None}] /\ ret' # None
      /\ ret'.ok <=> ~Top.failed
      /\ ret'.ok => ret'.obj = Top.obj
  <2>1. CASE Top.failed
    BY <1>2, <2>1, ErrorNotNone DEF Error
  <2>2. CASE ~Top.failed
    BY <1>1, <1>2, <2>2, OkNotNone, HeapType DEF IInv, Ok
  <2> QED
    BY <2>1, <2>2
<1>4. TypeOK' /\ Linked' /\ Within' /\ Above'
  BY <1>1, <1>3, PopKept DEF IInv, TypeOK
<1>5. Control'
  BY <1>1, <1>3 DEF IInv, Control, Object
<1>6. Stack'
  BY <1>1, <1>3, PopStack DEF IInv
<1>7. CachedByPath'
  BY <1>1 DEF IInv, CachedByPath
<1>8. /\ DOMAIN frames' = DOMAIN frames \ {Len(frames)}
      /\ \A k \in DOMAIN frames' : frames'[k] = frames[k]
  BY <1>1, PopEffect DEF IInv
<1>9. Failing' <=> Failing
  BY <1>1, <1>3, <1>8 DEF Failing
<1>10. \A o \in Object : Decoding(o)' <=> Decoding(o)
  BY <1>1, <1>8 DEF Decoding
<1>11. Single'
  BY <1>1, <1>9, <1>10, GraphKept DEF IInv, Single, Object
<1>12. \A o \in Object : o # Top.obj /\ OffStack(o)' => OffStack(o)
  BY <1>1, <1>8 DEF OffStack
<1>13. Done(heap[Top.obj], Source)
  BY <1>1 DEF IInv, Stack, Done
<1>14. Loaded'
  BY <1>1, <1>9, <1>12, <1>13 DEF IInv, Loaded, Object
<1>15. Blamed'
  BY <1>1, <1>9, GraphKept DEF IInv, Blamed
<1> QED
  BY <1>4, <1>5, <1>6, <1>7, <1>11, <1>14, <1>15 DEF IInv

-----------------------------------------------------------------------------
(* The top fragment gets a link *)

\* Only object t is written to, and keeps its file and its kind.
Wrote(t) ==
    /\ heap' \in Seq(FragmentObject) /\ Object' = Object
    /\ \A o \in Object \ {t} : heap'[o] = heap[o]
    /\ \A o \in Object : heap'[o].path = heap[o].path /\ heap'[o].kind = heap[o].kind

\* The frames stay, but for the note that the top one has failed.
Stays ==
    /\ DOMAIN frames' = DOMAIN frames /\ Len(frames') = Len(frames)
    /\ \A k \in DOMAIN frames : /\ frames'[k].obj = frames[k].obj /\ frames'[k].phase = frames[k].phase
                                /\ k # Len(frames) => frames'[k] = frames[k]

LEMMA WroteGrows ==
    ASSUME NEW t, Wrote(t)
    PROVE  Grows
BY DEF Wrote, Grows

LEMMA LinkStack ==
    ASSUME TypeOK, Stack, frames # << >>, Wrote(Top.obj), Stays, file' = file, ret' = None,
           Top.phase = "decode" => /\ heap'[Top.obj].uses = heap[Top.obj].uses
                                   /\ frames'[Len(frames)] = Top,
           Top.phase = "uses" => heap'[Top.obj].includes = heap[Top.obj].includes
    PROVE  Stack'
<1>1. /\ Top = frames[Len(frames)] /\ Len(frames) \in DOMAIN frames /\ Top.obj \in Object
      /\ Top.phase \in {"decode", "uses"}
  BY TopType, FrameType
<1>2. ASSUME NEW k \in DOMAIN frames
      PROVE  LET o     == heap'[frames[k].obj]
                 s     == file[o.path]
                 phase == frames[k].phase
             IN  /\ \A j \in DOMAIN frames : frames[j].obj = frames[k].obj => j = k
                 /\ phase = "decode" => o.uses = << >> /\ ~frames'[k].failed
                 /\ phase = "uses" => ~s.malformed /\ Len(o.includes) = Len(s.includes)
                 /\ k < Len(frames) =>
                       /\ Waits(s, o, phase)
                       /\ Is(heap', frames[k + 1].obj, NextPath(s, o, phase), NextKind(s, o, phase))
  <2>1. frames[k].obj \in Object /\ heap'[frames[k].obj].path = heap[frames[k].obj].path
    BY FrameType DEF Wrote
  <2>2. CASE k = Len(frames)
    <3>1. frames[k] = Top /\ ~(k < Len(frames))
      BY <1>1, <2>2, FrameType
    <3>2. /\ \A j \in DOMAIN frames : frames[j].obj = frames[k].obj => j = k
          /\ Top.phase = "decode" => heap[Top.obj].uses = << >> /\ ~Top.failed
          /\ Top.phase = "uses" => /\ ~file[heap[Top.obj].path].malformed
                                   /\ Len(heap[Top.obj].includes) = Len(file[heap[Top.obj].path].includes)
      BY <1>1, <2>2, <3>1 DEF Stack
    <3> QED
      BY <1>1, <2>1, <2>2, <3>1, <3>2
  <2>3. CASE k # Len(frames)
    <3>1. frames[k].obj # Top.obj
      BY <1>1, <2>3 DEF Stack
    <3>2. heap'[frames[k].obj] = heap[frames[k].obj] /\ frames'[k] = frames[k]
      BY <2>1, <2>3, <3>1 DEF Wrote, Stays
    <3>3. \A x, p, kind : Is(heap, x, p, kind) => Is(heap', x, p, kind)
      BY WroteGrows, IsKept
    <3> QED
      BY <3>2, <3>3 DEF Stack
  <2> QED
    BY <2>2, <2>3
<1>3. \A k \in DOMAIN frames : k < Len(frames) => frames'[k + 1].obj = frames[k + 1].obj
  BY FrameType DEF Stays
<1> QED
  BY <1>2, <1>3 DEF Stack, Stays

LEMMA LinkAbove ==
    ASSUME TypeOK, Stack, Above, frames # << >>, Wrote(Top.obj), Stays, file' = file
    PROVE  Above'
<1>1. ASSUME NEW i \in DOMAIN frames, NEW j \in DOMAIN frames, i < j, frames[i].phase = "decode",
             NEW o, o = heap'[frames[i].obj]
      PROVE  heap'[frames[j].obj].path \in Onward[NextPath(file[o.path], o, "decode")]
  <2>1. i # Len(frames) /\ Len(frames) \in DOMAIN frames /\ Top = frames[Len(frames)]
    BY <1>1, FrameType DEF Top
  <2>2. frames[i].obj # Top.obj /\ frames[i].obj \in Object /\ frames[j].obj \in Object
    BY <2>1, FrameType DEF Stack
  <2>3. o = heap[frames[i].obj] /\ heap'[frames[j].obj].path = heap[frames[j].obj].path
    BY <1>1, <2>2 DEF Wrote
  <2> QED
    BY <1>1, <2>3 DEF Above
<1> QED
  BY <1>1, GraphKept DEF Above, Stays

\* Whatever else only depends on the paths and kinds of the heap.
LEMMA LinkKept ==
    ASSUME IInv, frames # << >>, Wrote(Top.obj), Stays,
           UNCHANGED << file, cache, parses >>
    PROVE  /\ CachedByPath' /\ Within'
           /\ \A o \in Object : /\ OffStack(o)' <=> OffStack(o)
                                /\ Decoding(o)' <=> Decoding(o)
<1>1. \A q \in Path : cache[q] # None => cache[q] \in Object
  BY DEF IInv, TypeOK
<1>2. CachedByPath'
  BY <1>1 DEF IInv, CachedByPath, Wrote
<1>3. 1 \in Object
  <2>1. Top.obj \in Object
    BY TopType DEF IInv
  <2> QED
    BY <2>1, HeapType DEF IInv
<1>4. Within'
  BY <1>3, GraphKept DEF IInv, Within, Wrote
<1>5. \A o \in Object : /\ OffStack(o)' <=> OffStack(o)
                        /\ Decoding(o)' <=> Decoding(o)
  BY DEF OffStack, Decoding, Stays
<1> QED
  BY <1>2, <1>4, <1>5

LEMMA LinkLinked ==
    ASSUME IInv, NEW t \in Object, Wrote(t), file' = file,
           Links(heap', t, file[heap[t].path])
    PROVE  Linked'
<1>1. ASSUME NEW o \in Object
      PROVE  Admitted(file[heap'[o].path], heap'[o].kind) /\ Links(heap', o, file[heap'[o].path])
  <2>1. /\ heap'[o].path = heap[o].path /\ heap'[o].kind = heap[o].kind
        /\ o # t => heap'[o] = heap[o]
    BY DEF Wrote
  <2>2. Admitted(file[heap[o].path], heap[o].kind) /\ Links(heap, o, file[heap[o].path])
    BY DEF IInv, Linked
  <2>3. o # t => Links(heap', o, file[heap[o].path])
    BY <2>1, <2>2, WroteGrows, LinksKept
  <2> QED
    BY <2>1, <2>2, <2>3
<1> QED
  BY <1>1 DEF Linked, Wrote

LEMMA LinkFragmentKeeps ==
    ASSUME IInv, LinkFragment
    PROVE  IInv'
<1> DEFINE t == Top.obj
           s == file[heap[t].path]
           x == ret.obj
<1>1. /\ status = "parsing" /\ frames # << >> /\ ret # None /\ ret.ok /\ ret' = None
      /\ UNCHANGED << file, cache, frames, entryPoint, status, parses, tainted >>
  BY DEF LinkFragment, Returned
<1>2. /\ t \in Object /\ Top.phase \in {"decode", "uses"} /\ Top = frames[Len(frames)]
      /\ Len(frames) \in DOMAIN frames /\ heap[t].path \in Path
  BY <1>1, TopType, FrameType, HeapType DEF IInv
<1>3. /\ Waits(s, heap[t], Top.phase)
      /\ Is(heap, x, NextPath(s, heap[t], Top.phase), NextKind(s, heap[t], Top.phase))
      /\ Top.phase = "uses" => Len(heap[t].includes) = Len(s.includes)
  BY <1>1, <1>2 DEF IInv, Stack
<1>4. x \in Object /\ x # None
  BY <1>3, ConstantsAssumption, HeapType DEF IInv, Is, Object
<1>5. Links(heap, t, s)
  BY <1>2 DEF IInv, Linked
<1>6. /\ Len(heap[t].includes) \in Nat /\ Len(heap[t].uses) \in Nat
      /\ Len(s.includes) \in Nat /\ Len(s.uses) \in Nat
  BY <1>2, HeapType, ContentsType DEF IInv
<1>7. /\ Wrote(t) /\ Links(heap', t, s)
      /\ Top.phase = "decode" => heap'[t].uses = heap[t].uses
      /\ Top.phase = "uses" => heap'[t].includes = heap[t].includes
      /\ \A i \in 1..Len(heap'[t].uses) :
            i \notin 1..Len(heap[t].uses) \/ heap'[t].uses[i] # heap[t].uses[i] => heap'[t].uses[i] = x
  <2>1. CASE Top.phase = "decode"
    <3>1. heap' = [heap EXCEPT ![t].includes = Append(@, x)]
      BY <2>1 DEF LinkFragment
    <3>2. /\ Wrote(t) /\ heap'[t].uses = heap[t].uses
          /\ Len(heap'[t].includes) = Len(heap[t].includes) + 1
          /\ \A i \in 1..Len(heap[t].includes) : heap'[t].includes[i] = heap[t].includes[i]
          /\ heap'[t].includes[Len(heap[t].includes) + 1] = x
      BY <1>2, <1>4, <3>1, IncludeEffect DEF IInv, Wrote
    <3>3. \A y, p, kind : Is(heap, y, p, kind) => Is(heap', y, p, kind)
      BY <3>2, WroteGrows, IsKept
    <3>4. Len(heap[t].includes) < Len(s.includes)
      BY <1>3, <2>1 DEF Waits
    <3>5. Is(heap', x, s.includes[Len(heap[t].includes) + 1].path,
             s.includes[Len(heap[t].includes) + 1].kind)
      BY <1>3, <2>1, <3>3 DEF NextPath, NextKind
    <3>6. PICK m, l : m = Len(heap[t].includes) /\ l = heap'[t].includes
      OBVIOUS
    <3>7. \A i \in 1..Len(l) : Is(heap', l[i], s.includes[i].path, s.includes[i].kind)
      <4>1. \A i \in 1..m : Is(heap', l[i], s.includes[i].path, s.includes[i].kind)
        BY <1>5, <3>2, <3>3, <3>6 DEF Links
      <4>2. l[m + 1] = x /\ Is(heap', x, s.includes[m + 1].path, s.includes[m + 1].kind)
        BY <3>2, <3>5, <3>6
      <4>3. m \in Nat /\ Len(l) = m + 1
        BY <1>6, <3>2, <3>6
      <4>4. \A i \in 1..(m + 1) : i \in 1..m \/ i = m + 1
        BY <4>3
      <4> HIDE DEF x, s, t
      <4> QED
        BY <4>1, <4>2, <4>3, <4>4
    <3>8. Len(l) <= Len(s.includes)
      <4>1. m < Len(s.includes) /\ Len(s.includes) \in Nat /\ m \in Nat /\ Len(l) = m + 1
        BY <1>6, <3>2, <3>4, <3>6
      <4> HIDE DEF s, t
      <4> QED
        BY <4>1
    <3>9. /\ Len(heap'[t].uses) <= Len(s.uses)
          /\ \A i \in 1..Len(heap'[t].uses) :
                heap'[t].uses[i] # None => Is(heap', heap'[t].uses[i], s.uses[i], "Library")
      BY <1>5, <3>2, <3>3 DEF Links
    <3>10. Links(heap', t, s)
      BY <3>6, <3>7, <3>8, <3>9 DEF Links
    <3> QED
      BY <2>1, <3>2, <3>10
  <2>2. CASE Top.phase = "uses"
    <3>1. heap' = [heap EXCEPT ![t].uses = Append(@, x)]
      BY <2>2 DEF LinkFragment
    <3>2. /\ Wrote(t) /\ heap'[t].includes = heap[t].includes
          /\ Len(heap'[t].uses) = Len(heap[t].uses) + 1
          /\ \A i \in 1..Len(heap[t].uses) : heap'[t].uses[i] = heap[t].uses[i]
          /\ heap'[t].uses[Len(heap[t].uses) + 1] = x
      BY <1>2, <1>4, <3>1, UseEffect DEF IInv, Wrote
    <3>3. \A y, p, kind : Is(heap, y, p, kind) => Is(heap', y, p, kind)
      BY <3>2, WroteGrows, IsKept
    <3>4. Len(heap[t].uses) < Len(s.uses)
      BY <1>3, <2>2 DEF Waits
    <3>5. Is(heap', x, s.uses[Len(heap[t].uses) + 1], "Library")
      BY <1>3, <2>2, <3>3 DEF NextPath, NextKind
    <3>6. PICK m, l : m = Len(heap[t].uses) /\ l = heap'[t].uses
      OBVIOUS
    <3>7. m \in Nat /\ Len(l) = m + 1
      BY <1>6, <3>2, <3>6
    <3>8. \A i \in 1..(m + 1) : i \in 1..m \/ i = m + 1
      BY <3>7
    <3>9. \A i \in 1..Len(l) : l[i] # None => Is(heap', l[i], s.uses[i], "Library")
      <4>1. \A i \in 1..m : l[i] # None => Is(heap', l[i], s.uses[i], "Library")
        BY <1>5, <3>2, <3>3, <3>6 DEF Links
      <4>2. l[m + 1] = x /\ Is(heap', x, s.uses[m + 1], "Library")
        BY <3>2, <3>5, <3>6
      <4> HIDE DEF x, s, t
      <4> QED
        BY <4>1, <4>2, <3>7, <3>8
    <3>10. Len(l) <= Len(s.uses)
      <4>1. m < Len(s.uses) /\ Len(s.uses) \in Nat
        BY <1>6, <3>4, <3>6
      <4> HIDE DEF s, t
      <4> QED
        BY <3>7, <4>1
    <3>11. /\ Len(heap'[t].includes) <= Len(s.includes)
           /\ \A i \in 1..Len(heap'[t].includes) :
                 Is(heap', heap'[t].includes[i], s.includes[i].path, s.includes[i].kind)
      BY <1>5, <3>2, <3>3 DEF Links
    <3>12. Links(heap', t, s)
      BY <3>6, <3>9, <3>10, <3>11 DEF Links
    <3>13. \A i \in 1..Len(l) : i \in 1..m \/ l[i] = x
      <4>1. l[m + 1] = x
        BY <3>2, <3>6
      <4> QED
        BY <3>7, <3>8, <4>1
    <3> QED
      BY <2>2, <3>2, <3>6, <3>12, <3>13
  <2> QED
    BY <1>2, <2>1, <2>2
<1> HIDE DEF x, s
<1>8. Stays
  BY <1>1 DEF Stays
<1>9. TypeOK'
  <2>1. Object \subseteq Object' /\ heap' \in Seq(FragmentObject)
    BY <1>7 DEF Wrote
  <2>2. frames' \in Seq(Frame(Object'))
    BY <1>1, <2>1, FramesKept DEF IInv
  <2> QED
    BY <1>1, <2>1, <2>2, TypeKept DEF IInv, TypeOK
<1>10. heap' # << >>
  <2>1. t \in DOMAIN heap'
    BY <1>2, <1>7 DEF Wrote, Object
  <2>2. DOMAIN << >> = {}
    OBVIOUS
  <2> QED
    BY <2>1, <2>2
<1>11. Control'
  BY <1>1, <1>10 DEF IInv, Control
<1>12. Linked'
  BY <1>1, <1>2, <1>7, LinkLinked DEF s
<1>13. Stack'
  BY <1>1, <1>2, <1>7, <1>8, LinkStack DEF IInv
<1>14. Above'
  BY <1>1, <1>7, <1>8, LinkAbove DEF IInv
<1>15. /\ CachedByPath' /\ Within'
       /\ \A o \in Object : /\ OffStack(o)' <=> OffStack(o)
                            /\ Decoding(o)' <=> Decoding(o)
  BY <1>1, <1>7, <1>8, LinkKept
<1>16. Failing' <=> Failing
  BY <1>1 DEF Failing
<1>17. Loaded'
  <2>1. ASSUME ~tainted, ~Failing, NEW o \in Object
        PROVE  /\ OffStack(o) => Done(heap'[o], file[heap'[o].path])
               /\ \A i \in 1..Len(heap'[o].uses) : heap'[o].uses[i] # None
    <3>1. /\ OffStack(o) => Done(heap[o], file[heap[o].path])
          /\ \A i \in 1..Len(heap[o].uses) : heap[o].uses[i] # None
      BY <2>1 DEF IInv, Loaded
    <3>2. CASE o = t
      <4>1. ~OffStack(o)
        BY <1>2, <3>2 DEF OffStack
      <4>2. \A i \in 1..Len(heap'[o].uses) : heap'[o].uses[i] # None
        BY <1>4, <1>7, <3>1, <3>2
      <4> QED
        BY <4>1, <4>2
    <3>3. CASE o # t
      BY <1>7, <3>1, <3>3 DEF Wrote
    <3> QED
      BY <3>2, <3>3
  <2> QED
    BY <1>1, <1>7, <1>15, <1>16, <2>1 DEF Loaded, Wrote
<1>18. Blamed'
  BY <1>1, <1>2, <1>7, <1>16, GraphKept, HeapType DEF IInv, Control, Blamed, Wrote
<1>19. Single'
  BY <1>1, <1>7, <1>15, <1>16, GraphKept DEF IInv, Single, Wrote
<1> QED
  BY <1>9, <1>11, <1>12, <1>13, <1>14, <1>15, <1>17, <1>18, <1>19 DEF IInv

LEMMA CollectErrorKeeps ==
    ASSUME IInv, CollectError
    PROVE  IInv'
<1> DEFINE t == Top.obj
           s == file[heap[t].path]
<1>1. /\ status = "parsing" /\ frames # << >> /\ ret # None /\ ~ret.ok /\ ret' = None
      /\ Top.phase = "uses"
      /\ heap' = [heap EXCEPT ![t].uses = Append(@, None)]
      /\ frames' = [frames EXCEPT ![Len(frames)].failed = TRUE]
      /\ UNCHANGED << file, cache, entryPoint, status, parses, tainted >>
  BY DEF CollectError, Returned
<1>2. /\ t \in Object /\ Top = frames[Len(frames)] /\ Top \in Frame(Object)
      /\ Len(frames) \in DOMAIN frames /\ heap[t].path \in Path
  BY <1>1, TopType, FrameType, HeapType DEF IInv
<1>3. Waits(s, heap[t], "uses")
  BY <1>1, <1>2 DEF IInv, Stack
<1>4. Links(heap, t, s)
  BY <1>2 DEF IInv, Linked
<1>5. /\ Wrote(t) /\ heap'[t].includes = heap[t].includes
      /\ Len(heap'[t].uses) = Len(heap[t].uses) + 1
      /\ \A i \in 1..Len(heap[t].uses) : heap'[t].uses[i] = heap[t].uses[i]
      /\ heap'[t].uses[Len(heap[t].uses) + 1] = None
  BY <1>1, <1>2, UseEffect DEF IInv, Wrote
<1>6. Links(heap', t, s)
  <2>1. \A y, p, kind : Is(heap, y, p, kind) => Is(heap', y, p, kind)
    BY <1>5, WroteGrows, IsKept
  <2>2. Len(heap[t].uses) \in Nat /\ Len(s.uses) \in Nat /\ Len(heap[t].uses) < Len(s.uses)
    BY <1>2, <1>3, HeapType, ContentsType DEF IInv, Waits
  <2>3. PICK m, l : m = Len(heap[t].uses) /\ l = heap'[t].uses
    OBVIOUS
  <2>4. m \in Nat /\ Len(l) = m + 1 /\ \A i \in 1..(m + 1) : i \in 1..m \/ i = m + 1
    BY <1>5, <2>2, <2>3
  <2>5. \A i \in 1..Len(l) : l[i] # None => Is(heap', l[i], s.uses[i], "Library")
    <3>1. \A i \in 1..m : l[i] # None => Is(heap', l[i], s.uses[i], "Library")
      BY <1>4, <1>5, <2>1, <2>3 DEF Links
    <3>2. l[m + 1] = None
      BY <1>5, <2>3
    <3> HIDE DEF s, t
    <3> QED
      BY <2>4, <3>1, <3>2
  <2>6. Len(l) <= Len(s.uses)
    <3>1. m < Len(s.uses)
      BY <2>2, <2>3
    <3> HIDE DEF s, t
    <3> QED
      BY <2>2, <2>4, <3>1
  <2>7. /\ Len(heap'[t].includes) <= Len(s.includes)
        /\ \A i \in 1..Len(heap'[t].includes) :
              Is(heap', heap'[t].includes[i], s.includes[i].path, s.includes[i].kind)
    BY <1>4, <1>5, <2>1 DEF Links
  <2> QED
    BY <2>3, <2>5, <2>6, <2>7 DEF Links
<1> HIDE DEF s
<1>7. PICK f : f = [Top EXCEPT !.failed = TRUE]
  OBVIOUS
<1>8. f \in Frame(Object) /\ f.obj = Top.obj /\ f.phase = Top.phase /\ f.failed
  BY <1>2, <1>7 DEF Frame
<1>9. frames' = [frames EXCEPT ![Len(frames)] = f]
  BY <1>1, <1>2, <1>7
<1>10. /\ frames' \in Seq(Frame(Object)) /\ Len(frames') = Len(frames) /\ DOMAIN frames' = DOMAIN frames
       /\ \A k \in DOMAIN frames : k # Len(frames) => frames'[k] = frames[k]
       /\ frames'[Len(frames)] = f
  BY <1>1, <1>8, <1>9, TopEffect DEF IInv
<1>11. Stays
  BY <1>2, <1>8, <1>10 DEF Stays
<1>12. TypeOK'
  <2>1. Object' = Object /\ heap' \in Seq(FragmentObject)
    BY <1>5 DEF Wrote
  <2> QED
    BY <1>1, <1>10, <2>1, TypeKept DEF IInv, TypeOK
<1>13. heap' # << >> /\ frames' # << >>
  <2>1. t \in DOMAIN heap' /\ Len(frames) \in DOMAIN frames'
    BY <1>2, <1>5, <1>10 DEF Wrote, Object
  <2>2. DOMAIN << >> = {}
    OBVIOUS
  <2> QED
    BY <2>1, <2>2
<1>14. Control'
  BY <1>1, <1>13 DEF IInv, Control
<1>15. Linked'
  BY <1>1, <1>2, <1>5, <1>6, LinkLinked DEF s
<1>16. Stack'
  BY <1>1, <1>2, <1>5, <1>11, LinkStack DEF IInv
<1>17. Above'
  BY <1>1, <1>5, <1>11, LinkAbove DEF IInv
<1>18. CachedByPath' /\ Within'
  BY <1>1, <1>5, <1>11, LinkKept
<1>19. Failing /\ Failing'
  BY <1>1, <1>2, <1>8, <1>10 DEF Failing
<1>20. Loaded' /\ Single'
  BY <1>19 DEF Loaded, Single
<1>21. Blamed'
  <2>1. 1 \in Object /\ heap # << >>
    BY <1>1, <1>2, HeapType DEF IInv, Control
  <2> QED
    BY <1>1, <1>5, <1>19, <2>1, GraphKept DEF IInv, Blamed, Wrote
<1> QED
  BY <1>12, <1>14, <1>15, <1>16, <1>17, <1>18, <1>20, <1>21 DEF IInv

-----------------------------------------------------------------------------
(* Theorems *)

LEMMA InitIInv == Init => IInv
<1> SUFFICES ASSUME Init
             PROVE  IInv
  OBVIOUS
<1>1. /\ file \in FileSystems /\ heap = << >> /\ cache = [p \in Path |-> None] /\ frames = << >>
      /\ ret = None /\ entryPoint = None /\ status = "idle" /\ parses = 0 /\ tainted = FALSE
  BY DEF Init
<1>2. TypeOK
  <2>1. heap \in Seq(FragmentObject)
    BY <1>1
  <2>2. frames \in Seq([obj : Object, phase : {"decode", "uses"}, failed : BOOLEAN])
    BY <1>1
  <2>3. cache \in [Path -> Object \cup {None}]
    BY <1>1
  <2>4. parses \in 0 .. MaxParses
    BY <1>1, ConstantsAssumption
  <2>5. /\ file \in FileSystems /\ entryPoint \in Object \cup {None}
        /\ ret \in [ok : BOOLEAN, obj : Object \cup {None}] \cup {None}
        /\ status \in {"idle", "parsing", "loaded", "failed", "panicked"} /\ tainted \in BOOLEAN
    BY <1>1
  <2> QED
    BY <2>1, <2>2, <2>3, <2>4, <2>5 DEF TypeOK
<1>3. Object = {} /\ DOMAIN frames = {}
  BY <1>1 DEF Object
<1>4. Control
  BY <1>1 DEF Control
<1>5. Linked /\ Stack /\ Above
  BY <1>3 DEF Linked, Stack, Above
<1>6. CachedByPath
  BY <1>1 DEF CachedByPath
<1>7. Loaded /\ Within /\ Blamed /\ Single
  BY <1>1, <1>3 DEF Loaded, Within, Blamed, Single
<1> QED
  BY <1>2, <1>4, <1>5, <1>6, <1>7 DEF IInv

LEMMA NextIInv ==
    ASSUME IInv, [Next]_vars
    PROVE  IInv'
<1>1. ASSUME NEW p \in Path, Parse(p)
      PROVE  IInv'
  BY <1>1, ParseKeeps
<1>2. CASE Step
  <2>1. CASE Include
    BY <2>1, IncludeKeeps
  <2>2. CASE DecodeFails
    BY <2>2, DecodeFailsKeeps
  <2>3. CASE Decoded
    BY <2>3, DecodedKeeps
  <2>4. CASE Use
    BY <2>4, UseKeeps
  <2>5. CASE UsesDone
    BY <2>5, UsesDoneKeeps
  <2>6. CASE LinkFragment
    BY <2>6, LinkFragmentKeeps
  <2>7. CASE CollectError
    BY <2>7, CollectErrorKeeps
  <2>8. CASE PassError
    BY <2>8, PassErrorKeeps
  <2>9. CASE ParseReturns
    BY <2>9, ParseReturnsKeeps
  <2> QED
    BY <1>2, <2>1, <2>2, <2>3, <2>4, <2>5, <2>6, <2>7, <2>8, <2>9 DEF Step
<1>3. CASE UNCHANGED vars
  <2>1. UNCHANGED << file, heap, cache, frames, ret, entryPoint, status, parses, tainted >>
    BY <1>3 DEF vars
  <2>2. TypeOK'
    BY <2>1 DEF IInv, TypeOK, Object
  <2>3. Linked' /\ CachedByPath' /\ Within' /\ Above'
    BY <2>1, StillKept
  <2>4. Stack' /\ Control'
    BY <2>1 DEF IInv, Stack, Control, Object
  <2>5. Failing' <=> Failing
    BY <2>1 DEF Failing
  <2>6. Loaded' /\ Blamed' /\ Single'
    BY <2>1, <2>5, GraphKept DEF IInv, Loaded, Blamed, Single, OffStack, Decoding, Object
  <2> QED
    BY <2>2, <2>3, <2>4, <2>6 DEF IInv
<1> QED
  BY <1>1, <1>2, <1>3 DEF Next, Over

LEMMA Invariance == Spec => []IInv
<1>1. Init /\ [][Next]_vars => []IInv
  BY InitIInv, NextIInv, PTL
<1> QED
  BY <1>1, PTL DEF Spec

\* Every variable keeps its type: no link, cache entry or frame dangles
\* (parse.go, raml.go: PutFragment).
THEOREM TypeCorrect == Spec => []TypeOK
<1>1. IInv => TypeOK
  BY DEF IInv
<1> QED
  BY <1>1, Invariance, PTL

\* What a parse that succeeded leaves: everything is done, nothing is failing.
LEMMA AllDone ==
    ASSUME IInv, status = "loaded", ~tainted, NEW o \in Object
    PROVE  /\ Done(heap[o], file[heap[o].path])
           /\ Links(heap, o, file[heap[o].path])
           /\ \A i \in 1..Len(heap[o].uses) : heap[o].uses[i] # None
<1>1. frames = << >> /\ ret = None
  BY DEF IInv, Control
<1>2. ~Failing /\ OffStack(o)
  BY <1>1 DEF Failing, OffStack
<1> QED
  BY <1>2 DEF IInv, Loaded, Linked

\* CompleteOnSuccess, for every system of files and every number of parses: a
\* successful parse leaves no half-linked fragment (decodeLibrary, decodeDataType).
THEOREM CompleteCorrect == Spec => []CompleteOnSuccess
<1>1. ASSUME IInv
      PROVE  CompleteOnSuccess
  <2> SUFFICES ASSUME status = "loaded", ~tainted, NEW o \in Object
               PROVE  Complete(o)
    BY DEF CompleteOnSuccess
  <2>1. /\ Done(heap[o], file[heap[o].path])
        /\ Links(heap, o, file[heap[o].path])
        /\ \A i \in 1..Len(heap[o].uses) : heap[o].uses[i] # None
    BY <1>1, AllDone
  <2>2. /\ DOMAIN heap[o].includes = 1..Len(heap[o].includes)
        /\ DOMAIN heap[o].uses = 1..Len(heap[o].uses)
    BY <1>1, HeapType DEF IInv
  <2> QED
    BY <2>1, <2>2 DEF Complete, Done, Links, Is
<1> QED
  BY <1>1, Invariance, PTL

\* OneCopy, for every system of files: whatever the cycles of "uses", no file is
\* decoded twice (parseLibrary, GetFragment, PutFragment).
THEOREM OneCopyCorrect == Spec => []OneCopy
<1>1. ASSUME IInv
      PROVE  OneCopy
  <2> SUFFICES ASSUME status = "loaded", parses = 1, ~IncludeOnCycle, NEW o \in Object
               PROVE  cache[heap[o].path] = o
    BY DEF OneCopy
  <2>1. frames = << >> /\ ret = None /\ ~tainted
    BY <1>1 DEF IInv, Control
  <2>2. ~Failing /\ ~Decoding(o)
    BY <2>1 DEF Failing, Decoding
  <2> QED
    BY <1>1, <2>1, <2>2 DEF IInv, Single
<1> QED
  BY <1>1, Invariance, PTL

\* The first file leads to the same paths in both words.
LEMMA DependenciesOnward ==
    ASSUME TypeOK, heap # << >>
    PROVE  Dependencies = Onward[heap[1].path] /\ Dependencies \subseteq Path
<1>1. 1 \in Object
  BY HeapType
<1>2. heap[1].path \in Path
  BY <1>1, HeapType
<1> QED
  BY <1>2 DEF Dependencies, Onward, Reach

\* NoErrorLost, for every system of files: a parse that succeeds has found
\* nothing wrong with any file it depends on (decodeLibrary's error).
THEOREM NoErrorLostCorrect == Spec => []NoErrorLost
<1>1. ASSUME IInv
      PROVE  NoErrorLost
  <2> SUFFICES ASSUME status = "loaded", parses = 1
               PROVE  \A p \in Dependencies : ~Bad(p)
    BY DEF NoErrorLost
  <2>1. ~tainted /\ heap # << >> /\ TypeOK
    BY <1>1 DEF IInv, Control
  <2>2. 1 \in Object /\ heap[1].path \in Path
    BY <2>1, HeapType
  <2> DEFINE S == {heap[o].path : o \in Object}
  <2>3. S \subseteq Path
    BY <2>1, HeapType
  <2>4. ASSUME NEW o \in Object
        PROVE  /\ Refers(heap[o].path) \subseteq S
               /\ ~Bad(heap[o].path)
    <3> DEFINE s == file[heap[o].path]
    <3>1. heap[o].path \in Path /\ heap[o].kind \in Loadable /\ Admitted(s, heap[o].kind)
      BY <1>1, <2>1, HeapType DEF IInv, Linked
    <3>2. /\ ~s.malformed /\ Len(heap[o].includes) = Len(s.includes) /\ Len(heap[o].uses) = Len(s.uses)
          /\ Links(heap, o, s)
          /\ \A i \in 1..Len(heap[o].uses) : heap[o].uses[i] # None
      BY <1>1, <2>1, AllDone DEF Done
    <3>3. DOMAIN s.includes = 1..Len(s.includes) /\ DOMAIN s.uses = 1..Len(s.uses)
      BY <2>1, <3>1, ContentsType
    <3>4. \A i \in DOMAIN s.includes :
             Is(heap, heap[o].includes[i], s.includes[i].path, s.includes[i].kind)
      BY <3>2, <3>3 DEF Links
    <3>5. \A i \in DOMAIN s.uses : Is(heap, heap[o].uses[i], s.uses[i], "Library")
      BY <3>2, <3>3 DEF Links
    <3>6. \A x, p, kind : Is(heap, x, p, kind) => p \in S /\ Admits(p, kind)
      BY <1>1 DEF Is, Object, IInv, Linked, Admitted, Admits
    <3>7. Refers(heap[o].path) \subseteq S
      BY <3>4, <3>5, <3>6 DEF Refers, Included, Used
    <3>8. s.kind \notin {"Missing", "Unknown"}
      BY <3>1 DEF Admitted, Loadable
    <3>9. ~Bad(heap[o].path)
      BY <3>2, <3>4, <3>5, <3>6, <3>8 DEF Bad, Used
    <3> QED
      BY <3>7, <3>9
  <2>5. Onward[heap[1].path] \subseteq S
    BY <2>2, <2>3, <2>4, OnwardLeast
  <2> QED
    BY <2>1, <2>4, <2>5, DependenciesOnward
<1> QED
  BY <1>1, Invariance, PTL

\* OnlyBadFilesFail, for every system of files: no parse fails, or panics in the
\* assertion on a cached fragment, on account of the loader (parse.go:134).
THEOREM OnlyBadFilesFailCorrect == Spec => []OnlyBadFilesFail
<1>1. ASSUME IInv
      PROVE  OnlyBadFilesFail
  <2> SUFFICES ASSUME status \in {"failed", "panicked"}, parses = 1, heap # << >>
               PROVE  \E p \in Dependencies : Bad(p)
    BY DEF OnlyBadFilesFail
  <2>1. Onward[heap[1].path] \cap Culprits # {}
    BY <1>1 DEF IInv, Blamed
  <2> QED
    BY <1>1, <2>1, DependenciesOnward DEF IInv, Culprits
<1> QED
  BY <1>1, Invariance, PTL

\* A fragment that waits for a link is not complete.
LEMMA WaitingIncomplete ==
    ASSUME IInv, frames # << >>, ret # None
    PROVE  ~Complete(Top.obj)
<1> DEFINE t == Top.obj
           s == file[heap[t].path]
<1>1. /\ t \in Object /\ Top.phase \in {"decode", "uses"} /\ Top = frames[Len(frames)]
      /\ Len(frames) \in DOMAIN frames /\ heap[t].path \in Path
  BY TopType, FrameType, HeapType DEF IInv
<1>2. Waits(s, heap[t], Top.phase)
  BY <1>1 DEF IInv, Stack
<1>3. /\ Len(heap[t].includes) \in Nat /\ Len(heap[t].uses) \in Nat
      /\ Len(s.includes) \in Nat /\ Len(s.uses) \in Nat
  BY <1>1, HeapType, ContentsType DEF IInv
<1>4. Len(heap[t].includes) # Len(s.includes) \/ Len(heap[t].uses) # Len(s.uses)
  BY <1>1, <1>2, <1>3 DEF Waits
<1> QED
  BY <1>4 DEF Complete

\* A step changes the links of no object but the one that waits for the result.
LEMMA OnlyWaitingWritten ==
    ASSUME IInv, [Next]_vars, NEW o \in Object, heap'[o] # heap[o]
    PROVE  frames # << >> /\ ret # None /\ o = Top.obj
<1>1. \A p, kind : Decode(p, kind) => heap'[o] = heap[o]
  BY DecodeEffect DEF IInv, Entered
<1>2. \A p, kind : Load(p, kind) => heap'[o] = heap[o]
  BY <1>1 DEF Load
<1>3. LinkFragment \/ CollectError
  BY <1>1, <1>2 DEF Next, vars, Parse, Step, Over, Include, DecodeFails, Decoded, Use,
     UsesDone, PassError, ParseReturns
<1>4. frames # << >> /\ ret # None /\ Top.phase \in {"decode", "uses"}
  BY <1>3, TopType DEF IInv, LinkFragment, CollectError, Returned
<1>5. PICK x : \/ heap' = [heap EXCEPT ![Top.obj].includes = Append(@, x)]
               \/ heap' = [heap EXCEPT ![Top.obj].uses = Append(@, x)]
  BY <1>3 DEF LinkFragment, CollectError
<1>6. o # Top.obj => heap'[o] = heap[o]
  BY <1>5 DEF Object
<1> QED
  BY <1>4, <1>6

\* LoadedIsStable, for every system of files and every number of parses: what a
\* parse has loaded is never replaced or relinked (PutFragment, GetFragment).
THEOREM LoadedIsStableCorrect == Spec => LoadedIsStable
<1>1. ASSUME IInv, [Next]_vars, NEW p \in Path, cache[p] # None, Complete(cache[p])
      PROVE  cache'[p] = cache[p] /\ heap'[cache[p]] = heap[cache[p]]
  <2>1. cache \in [Path -> Object \cup {None}] /\ cache[p] \in Object
    BY <1>1 DEF IInv, TypeOK
  <2>2. cache' = cache \/ Decoded
    BY <1>1 DEF Next, vars, Parse, Step, Over, Include, DecodeFails, Use,
       UsesDone, LinkFragment, CollectError, PassError, ParseReturns
  <2>3. cache'[p] = cache[p]
    BY <1>1, <2>1, <2>2 DEF Decoded
  <2>4. heap'[cache[p]] = heap[cache[p]]
    BY <1>1, <2>1, WaitingIncomplete, OnlyWaitingWritten
  <2> QED
    BY <2>3, <2>4
<1>2. IInv /\ [Next]_vars =>
         [\A p \in Path : cache[p] # None /\ Complete(cache[p]) =>
              cache'[p] = cache[p] /\ heap'[cache[p]] = heap[cache[p]]]_vars
  BY <1>1
<1> QED
  BY <1>2, Invariance, PTL DEF Spec, LoadedIsStable

===============================================================================
