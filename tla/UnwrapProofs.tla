------------------------------ MODULE UnwrapProofs ------------------------------
(***************************************************************************)
(* Theorems about Unwrap, for every model: its types, that unwrapping      *)
(* works in place, with the flags of the merges under way and no others,   *)
(* and that no shape gets what it does not narrow.                         *)
(* The predicates below take the model and the heap as arguments, so that  *)
(* the lemmas about them are about data.                                   *)
(***************************************************************************)
EXTENDS Unwrap, SequenceTheorems, FiniteSetTheorems, WellFoundedInduction, TLAPS

\* The records of Inherit; the others are of UnwrapShape.
Merging(f) == f.at \in {"merge", "merged"}

\* What a record needs to have a source or an alias.
Sound(g, f) ==
    /\ f.at \in {"joined", "source", "merge", "merged"} => f.source \in Shapes
    /\ f.at = "parents" /\ f.next > 1 => f.source \in Shapes
    /\ f.at = "alias" => g.alias[f.shape] \in Shapes

\* A result is a shape, and there is a declared type it is for.
Sane ==
    /\ \A k \in DOMAIN frames : Sound(given, frames[k])
    /\ ret # None /\ ret.ok => ret.shape \in Shapes
    /\ frames # << >> \/ ret # None => todo # << >>

TInv == TypeOK /\ Sane

\* Frame f has called something that returns s when it succeeds.
Awaits(g, ps, mp, en, f, s) ==
    /\ f.at = "alias" => s = g.alias[f.shape]
    /\ f.at = "parents" => f.next \in DOMAIN ps[f.shape] /\ s = ps[f.shape][f.next]
    /\ f.at = "props" =>
          /\ mp[f.shape] \in Shapes /\ f.next \in DOMAIN en[mp[f.shape]]
          /\ s = en[mp[f.shape]][f.next].base
    /\ f.at = "joined" => s = f.source
    /\ f.at = "source" => s = f.shape
    /\ f.at # "merged"

\* Each record awaits what the one above it was made for; Inherit calls Inherit only: its
\* records are on top.
Linked(g, ps, mp, en, fs) ==
    \A k \in DOMAIN fs : k < Len(fs) => Awaits(g, ps, mp, en, fs[k], fs[k + 1].shape)

Layered(fs) == \A j, k \in DOMAIN fs : j < k /\ Merging(fs[j]) => Merging(fs[k])

Rooted(fs, td) == fs # << >> => ~Merging(fs[1]) /\ fs[1].shape = Head(td)

\* A result is what was asked for; that of a merged property is not used.
Answered(g, ps, mp, en, fs, td, r) ==
    r # None /\ r.ok =>
        IF fs = << >> THEN r.shape = Head(td)
        ELSE Awaits(g, ps, mp, en, fs[Len(fs)], r.shape)

\* A shape is unwrapped once.
Once(un, fs) ==
    \A k \in DOMAIN fs : ~Merging(fs[k]) =>
        /\ un[fs[k].shape]
        /\ \A j \in DOMAIN fs : ~Merging(fs[j]) /\ j # k => fs[j].shape # fs[k].shape

\* The flag of a shape is set while it is the source of one merge.
Flagged(vi, fs) ==
    /\ \A s \in Shapes : vi[s] <=> \E i \in DOMAIN fs : fs[i].source = s /\ Merging(fs[i])
    /\ \A j, k \in DOMAIN fs : Merging(fs[j]) /\ Merging(fs[k]) /\ j # k => fs[j].source # fs[k].source

\* Nothing has been replaced.
Kept(g, en, re) ==
    \A s \in Shapes :
        /\ re[s] = s
        /\ \A k \in DOMAIN g.props[s] : k \in DOMAIN en[s] /\ en[s][k] = g.props[s][k]

Ordered(g, ps, mp, en, un, fs, td) ==
    /\ Linked(g, ps, mp, en, fs)
    /\ Layered(fs)
    /\ Rooted(fs, td)
    /\ Once(un, fs)

InOrder ==
    /\ Ordered(given, parents, map, entries, unwrapped, frames, todo)
    /\ Answered(given, parents, map, entries, frames, todo, ret)
    /\ ret # Error => Flagged(visited, frames)
    /\ Kept(given, entries, result)

IInv == TInv /\ (~UsesAny /\ ~failed => InOrder)

-----------------------------------------------------------------------------
(* Types *)

LEMMA RecordTyped ==
    ASSUME NEW f \in Record
    PROVE  /\ f.shape \in Shapes /\ f.next \in Nat \ {0} /\ f.source \in Shapes \cup {None}
           /\ f.at \in {"alias", "parents", "joined", "props", "source", "merge", "merged"}
BY DEF Record

\* The records that a step puts in the place of record f.
LEMMA MovedOn ==
    ASSUME NEW f \in Record, NEW n \in Nat \ {0}
    PROVE  /\ [f EXCEPT !.next = n] \in Record
           /\ [f EXCEPT !.next = n].shape = f.shape
           /\ [f EXCEPT !.next = n].at = f.at
           /\ [f EXCEPT !.next = n].next = n
           /\ [f EXCEPT !.next = n].source = f.source
BY DEF Record

LEMMA MovedTo ==
    ASSUME NEW f \in Record,
           NEW p \in {"alias", "parents", "joined", "props", "source", "merge", "merged"}
    PROVE  /\ [f EXCEPT !.at = p] \in Record
           /\ [f EXCEPT !.at = p].shape = f.shape
           /\ [f EXCEPT !.at = p].at = p
           /\ [f EXCEPT !.at = p].next = f.next
           /\ [f EXCEPT !.at = p].source = f.source
BY DEF Record

LEMMA ModelTyped ==
    ASSUME NEW g \in ModelType
    PROVE  /\ g.kind \in [Shapes -> {"object", "scalar", "any"}]
           /\ g.alias \in [Shapes -> Shapes \cup {None}]
           /\ g.parents \in [Shapes -> Seq(Shapes)]
           /\ g.props \in [Shapes -> Seq(Property)]
           /\ g.roots \in Seq(Shapes)
           /\ None \notin Shapes
BY ConstantsAssumption DEF ModelType

LEMMA NoneIsNoResult == None # Error
<1>1. Error \in [ok : BOOLEAN, shape : Shapes \cup {None}]  BY DEF Error
<1> QED  BY <1>1, ConstantsAssumption

LEMMA FramesTyped ==
    ASSUME TypeOK
    PROVE  /\ frames \in Seq(Record) /\ Len(frames) \in Nat /\ DOMAIN frames = 1..Len(frames)
           /\ \A k \in DOMAIN frames : frames[k] \in Record
           /\ given \in ModelType /\ None \notin Shapes
BY ConstantsAssumption DEF TypeOK

LEMMA TopTyped ==
    ASSUME TypeOK, frames # << >>
    PROVE  /\ Len(frames) \in DOMAIN frames /\ 1 \in DOMAIN frames
           /\ Top = frames[Len(frames)] /\ Top \in Record
           /\ S \in Shapes /\ Top.next \in Nat \ {0} /\ Top.source \in Shapes \cup {None}
           /\ Below \in Seq(Record) /\ Len(Below) = Len(frames) - 1 /\ DOMAIN Below = 1..Len(frames) - 1
           /\ \A k \in DOMAIN Below : Below[k] = frames[k] /\ k \in DOMAIN frames
<1>1. /\ Len(frames) \in DOMAIN frames /\ 1 \in DOMAIN frames /\ frames \in Seq(Record)
      /\ Len(frames) \in Nat \ {0}
  BY FramesTyped
<1>2. Top \in Record /\ Top = frames[Len(frames)]  BY <1>1 DEF Top
<1>3. S \in Shapes /\ Top.next \in Nat \ {0} /\ Top.source \in Shapes \cup {None}
  BY <1>2, RecordTyped DEF S
<1>4. /\ Below \in Seq(Record) /\ Len(Below) = Len(frames) - 1 /\ DOMAIN Below = 1..Len(frames) - 1
      /\ \A k \in DOMAIN Below : Below[k] = frames[k] /\ k \in DOMAIN frames
  <2>2. \A i \in 1..Len(frames) - 1 : frames[i] \in Record  BY <1>1
  <2>3. /\ SubSeq(frames, 1, Len(frames) - 1) \in Seq(Record)
        /\ Len(SubSeq(frames, 1, Len(frames) - 1))
               = IF 1 <= Len(frames) - 1 THEN Len(frames) - 1 - 1 + 1 ELSE 0
        /\ \A i \in 1..(Len(frames) - 1 - 1 + 1) :
              SubSeq(frames, 1, Len(frames) - 1)[i] = frames[1 + i - 1]
    <3>1. 1 \in Int /\ Len(frames) - 1 \in Int  BY <1>1
    <3> HIDE DEF Record
    <3> QED  BY <2>2, <3>1, SubSeqProperties
  <2>4. Len(Below) = Len(frames) - 1
    <3>1. \A q \in Nat \ {0} : (IF 1 <= q - 1 THEN q - 1 - 1 + 1 ELSE 0) = q - 1  OBVIOUS
    <3>2. Len(Below) = IF 1 <= Len(frames) - 1 THEN Len(frames) - 1 - 1 + 1 ELSE 0  BY <2>3 DEF Below
    <3> QED  BY <1>1, <3>1, <3>2
  <2>5. DOMAIN Below = 1..Len(frames) - 1  BY <2>3, <2>4 DEF Below
  <2> QED  BY <1>1, <2>3, <2>4, <2>5 DEF Below
<1> QED  BY <1>1, <1>2, <1>3, <1>4

\* The top record is replaced.
LEMMA BecomesTyped ==
    ASSUME TypeOK, frames # << >>, NEW f \in Record
    PROVE  /\ Becomes(f) \in Seq(Record) /\ Len(Becomes(f)) = Len(frames)
           /\ DOMAIN Becomes(f) = DOMAIN frames /\ Becomes(f) # << >>
           /\ Becomes(f)[Len(frames)] = f
           /\ \A k \in DOMAIN frames : k # Len(frames) => Becomes(f)[k] = frames[k]
<1>1. /\ Below \in Seq(Record) /\ Len(Below) = Len(frames) - 1 /\ DOMAIN Below = 1..Len(frames) - 1
      /\ \A k \in DOMAIN Below : Below[k] = frames[k]
      /\ Len(frames) \in Nat \ {0} /\ DOMAIN frames = 1..Len(frames)
  BY TopTyped, FramesTyped
<1>2. /\ Append(Below, f) \in Seq(Record) /\ Len(Append(Below, f)) = Len(Below) + 1
      /\ Append(Below, f)[Len(Below) + 1] = f
      /\ \A k \in 1..Len(Below) : Append(Below, f)[k] = Below[k]
  BY <1>1
<1>3. Len(Append(Below, f)) = Len(frames) /\ Append(Below, f)[Len(frames)] = f  BY <1>1, <1>2
<1>4. DOMAIN Append(Below, f) = DOMAIN frames  BY <1>1, <1>2, <1>3
<1>5. \A k \in DOMAIN frames : k # Len(frames) => Append(Below, f)[k] = frames[k]
  BY <1>1, <1>2
<1> QED  BY <1>1, <1>2, <1>3, <1>4, <1>5 DEF Becomes

LEMMA PropsTyped ==
    ASSUME TypeOK, NEW s \in Shapes
    PROVE  /\ PropsOf(s) \in Seq(Property) /\ Len(PropsOf(s)) \in Nat
           /\ DOMAIN PropsOf(s) = 1..Len(PropsOf(s))
           /\ \A k \in DOMAIN PropsOf(s) :
                 /\ PropsOf(s)[k] \in Property /\ PropsOf(s)[k].base \in Shapes
                 /\ map[s] \in Shapes /\ PropsOf(s) = entries[map[s]]
<1>1. map[s] # None => map[s] \in Shapes /\ entries[map[s]] \in Seq(Property)  BY DEF TypeOK
<1>2. PropsOf(s) \in Seq(Property)
  <2>1. << >> \in Seq(Property)  OBVIOUS
  <2> QED  BY <1>1, <2>1 DEF PropsOf
<1>3. \A k \in DOMAIN PropsOf(s) : PropsOf(s)[k] \in Property  BY <1>2
<1>4. \A k \in DOMAIN PropsOf(s) : PropsOf(s)[k].base \in Shapes  BY <1>3 DEF Property
<1>5. DOMAIN PropsOf(s) # {} => map[s] # None  BY DEF PropsOf
<1> QED  BY <1>1, <1>2, <1>3, <1>4, <1>5 DEF PropsOf

LEMMA ReturnsTyped ==
    ASSUME TypeOK, ret # None, ret.ok
    PROVE  ret \in [ok : BOOLEAN, shape : Shapes \cup {None}] /\ ret # Error
BY DEF TypeOK, Error

LEMMA Answers ==
    ASSUME NEW s \in Shapes \cup {None}
    PROVE  /\ Ok(s) \in [ok : BOOLEAN, shape : Shapes \cup {None}] /\ Ok(s).ok /\ Ok(s).shape = s
           /\ Error \in [ok : BOOLEAN, shape : Shapes \cup {None}] /\ ~Error.ok
           /\ Ok(s) # Error
BY DEF Ok, Error

\* Writes into the heap keep its types.
LEMMA Written ==
    ASSUME TypeOK, NEW m \in Shapes \cup {None}, NEW k \in Nat, NEW b \in Shapes
    PROVE  /\ [entries EXCEPT ![m][k].base = b] \in [Shapes -> Seq(Property)]
           /\ \A p \in Property : [entries EXCEPT ![m] = Append(@, p)] \in [Shapes -> Seq(Property)]
           /\ [parents EXCEPT ![m][k] = b] \in [Shapes -> Seq(Shapes)]
<1>1. CASE m = None
  <2>1. m \notin DOMAIN entries /\ m \notin DOMAIN parents  BY <1>1, FramesTyped DEF TypeOK
  <2>2. /\ [entries EXCEPT ![m][k].base = b] = entries
        /\ \A p \in Property : [entries EXCEPT ![m] = Append(@, p)] = entries
        /\ [parents EXCEPT ![m][k] = b] = parents
    BY <2>1 DEF TypeOK
  <2> QED  BY ZenonT(40), <2>2 DEF TypeOK
<1>2. CASE m \in Shapes
  <2>1. entries[m] \in Seq(Property) /\ parents[m] \in Seq(Shapes)  BY <1>2 DEF TypeOK
  <2>2. [entries[m] EXCEPT ![k].base = b] \in Seq(Property)
    <3>1. CASE k \in DOMAIN entries[m]
      <4>1. entries[m][k] \in Property  BY <2>1, <3>1
      <4>2. [entries[m][k] EXCEPT !.base = b] \in Property  BY <4>1 DEF Property
      <4> QED  BY <2>1, <3>1, <4>2
    <3>2. CASE k \notin DOMAIN entries[m]
      <4>1. [entries[m] EXCEPT ![k].base = b] = entries[m]  BY <2>1, <3>2
      <4> QED  BY <2>1, <4>1
    <3> QED  BY <3>1, <3>2
  <2>3. \A p \in Property : Append(entries[m], p) \in Seq(Property)  BY <2>1
  <2>4. [parents[m] EXCEPT ![k] = b] \in Seq(Shapes)
    <3>1. CASE k \in DOMAIN parents[m]  BY <2>1, <3>1
    <3>2. CASE k \notin DOMAIN parents[m]
      <4>1. [parents[m] EXCEPT ![k] = b] = parents[m]  BY <2>1, <3>2
      <4> QED  BY <2>1, <4>1
    <3> QED  BY <3>1, <3>2
  <2> QED  BY <1>2, <2>2, <2>3, <2>4 DEF TypeOK
<1> QED  BY <1>1, <1>2

LEMMA Appended ==
    ASSUME NEW fs \in Seq(Record), NEW f \in Record
    PROVE  LET h == Append(fs, f)
           IN  /\ h \in Seq(Record) /\ h # << >> /\ Len(h) = Len(fs) + 1
               /\ DOMAIN h = 1..Len(fs) + 1 /\ DOMAIN fs = 1..Len(fs) /\ Len(fs) \in Nat
               /\ h[Len(fs) + 1] = f /\ \A k \in 1..Len(fs) : h[k] = fs[k]
<1> DEFINE h == Append(fs, f)
<1>1. h \in Seq(Record) /\ Len(h) = Len(fs) + 1 /\ Len(fs) \in Nat  BY DEF h
<1>2. DOMAIN h = 1..Len(fs) + 1 /\ DOMAIN fs = 1..Len(fs) /\ h # << >>  BY <1>1
<1>3. h[Len(fs) + 1] = f /\ \A k \in 1..Len(fs) : h[k] = fs[k]
  <2> HIDE DEF Record
  <2> QED  BY AppendProperties DEF h
<1> QED  BY <1>1, <1>2, <1>3

LEMMA PushTyped ==
    ASSUME NEW fs \in Seq(Record), NEW f \in Record, NEW g,
           \A k \in DOMAIN fs : Sound(g, fs[k]), Sound(g, f)
    PROVE  /\ Append(fs, f) \in Seq(Record) /\ Append(fs, f) # << >>
           /\ \A k \in DOMAIN Append(fs, f) : Sound(g, Append(fs, f)[k])
<1> DEFINE h == Append(fs, f)
<1>1. /\ h \in Seq(Record) /\ h # << >> /\ DOMAIN h = 1..Len(fs) + 1 /\ DOMAIN fs = 1..Len(fs)
      /\ Len(fs) \in Nat /\ h[Len(fs) + 1] = f /\ \A k \in 1..Len(fs) : h[k] = fs[k]
  BY Appended
<1> HIDE DEF h
<1>2. \A k \in DOMAIN h : k = Len(fs) + 1 \/ k \in 1..Len(fs)  BY <1>1
<1>3. \A k \in DOMAIN h : Sound(g, h[k])  BY <1>1, <1>2
<1> QED  BY <1>1, <1>3 DEF h

\* UnwrapShape is called.
LEMMA UnwrapShapeTyped ==
    ASSUME TInv, NEW s \in Shapes, UnwrapShape(frames, s), Unchanged, todo # << >>
    PROVE  TInv'
<1>1. TypeOK /\ Sane  BY DEF TInv
<1>2. given' = given /\ todo' = todo /\ result' = result /\ failed' = failed  BY DEF Unchanged
<1>3. /\ parents' = parents /\ map' = map /\ entries' = entries /\ facets' = facets
      /\ visited' = visited /\ unwrapped' \in [Shapes -> BOOLEAN]
  <2>1. /\ parents' = parents /\ map' = map /\ entries' = entries /\ facets' = facets
        /\ visited' = visited
    BY DEF UnwrapShape, heap
  <2>2. unwrapped' = unwrapped \/ unwrapped' = [unwrapped EXCEPT ![s] = TRUE]
    BY DEF UnwrapShape, heap
  <2>3. unwrapped \in [Shapes -> BOOLEAN]  BY <1>1 DEF TypeOK
  <2> QED  BY <2>1, <2>2, <2>3
<1>4. ret' \in [ok : BOOLEAN, shape : Shapes \cup {None}] \cup {None}
      /\ (ret' # None /\ ret'.ok => ret'.shape \in Shapes)
  <2>1. ret' = Error \/ ret' = Ok(s) \/ ret' = None  BY DEF UnwrapShape
  <2> QED  BY <2>1, Answers
<1>5. frames' \in Seq(Record) /\ \A k \in DOMAIN frames' : Sound(given, frames'[k])
  <2>1. CASE frames' = frames  BY <1>1, <2>1, FramesTyped DEF Sane
  <2>2. CASE frames' # frames
    <3> DEFINE f == [ shape |-> s, at |-> IF given.alias[s] = None THEN "parents" ELSE "alias",
                      next |-> 1, source |-> None ]
    <3>1. frames' = Append(frames, f)  BY <2>2 DEF UnwrapShape
    <3>2. f \in Record /\ Sound(given, f)
      <4>1. given.alias[s] \in Shapes \cup {None}  BY <1>1, FramesTyped, ModelTyped
      <4> QED  BY <4>1 DEF Record, Sound
    <3> HIDE DEF f
    <3> QED  BY <1>1, <3>1, <3>2, FramesTyped, PushTyped DEF Sane
  <2> QED  BY <2>1, <2>2
<1> QED  BY <1>1, <1>2, <1>3, <1>4, <1>5 DEF TInv, TypeOK, Sane

\* Inherit is called.
LEMMA InheritTyped ==
    ASSUME TInv, NEW fs \in Seq(Record), NEW t \in Shapes, NEW s \in Shapes, Inherit(fs, t, s), Unchanged,
           \A k \in DOMAIN fs : Sound(given, fs[k]), todo # << >>
    PROVE  TInv'
<1>1. TypeOK /\ Sane  BY DEF TInv
<1>2. given' = given /\ todo' = todo /\ result' = result /\ failed' = failed  BY DEF Unchanged
<1>3. parents' = parents /\ entries' = entries /\ unwrapped' = unwrapped  BY DEF Inherit, heap
<1>4. visited' \in [Shapes -> BOOLEAN] /\ facets' \in [Shapes -> SUBSET Shapes]
  <2>1. visited' = visited \/ visited' = [visited EXCEPT ![s] = TRUE]  BY DEF Inherit, heap
  <2>2. facets' = facets \/ facets' = [facets EXCEPT ![t] = @ \cup facets[s]]  BY DEF Inherit, heap
  <2>3. visited \in [Shapes -> BOOLEAN] /\ facets \in [Shapes -> SUBSET Shapes]  BY <1>1 DEF TypeOK
  <2>4. visited' \in [Shapes -> BOOLEAN]  BY <2>1, <2>3
  <2> QED  BY <2>2, <2>3, <2>4
<1>5. map' \in [Shapes -> Shapes \cup {None}]
  <2>1. map' = map \/ map' = [map EXCEPT ![t] = IF @ = None THEN map[s] ELSE @]  BY DEF Inherit, heap
  <2>2. map \in [Shapes -> Shapes \cup {None}]  BY <1>1 DEF TypeOK
  <2> QED  BY <2>1, <2>2
<1>6. ret' \in [ok : BOOLEAN, shape : Shapes \cup {None}] \cup {None}
      /\ (ret' # None /\ ret'.ok => ret'.shape \in Shapes)
  <2>1. ret' = Ok(s) \/ ret' = Ok(t) \/ ret' = Error \/ ret' = None  BY DEF Inherit
  <2> QED  BY <2>1, Answers
<1>7. frames' \in Seq(Record) /\ \A k \in DOMAIN frames' : Sound(given, frames'[k])
  <2>1. CASE frames' = fs  BY <2>1
  <2>2. CASE frames' # fs
    <3> DEFINE f == [ shape |-> t, at |-> IF map[t] = None THEN "merged" ELSE "merge",
                      next |-> 1, source |-> s ]
    <3>1. frames' = Append(fs, f)  BY <2>2 DEF Inherit
    <3>2. f \in Record /\ Sound(given, f)  BY DEF Record, Sound
    <3> HIDE DEF f
    <3> QED  BY <3>1, <3>2, PushTyped
  <2> QED  BY <2>1, <2>2
<1> QED  BY <1>1, <1>2, <1>3, <1>4, <1>5, <1>6, <1>7 DEF TInv, TypeOK, Sane

\* The top record changes.
LEMMA BecomesSound ==
    ASSUME TInv, frames # << >>, NEW f \in Record, Sound(given, f)
    PROVE  \A k \in DOMAIN Becomes(f) : Sound(given, Becomes(f)[k])
<1>1. \A k \in DOMAIN frames : Sound(given, frames[k])  BY DEF TInv, Sane
<1>2. TypeOK  BY DEF TInv
<1> QED  BY <1>1, <1>2, BecomesTyped

\* The top record returns.
LEMMA ReturnsSound ==
    ASSUME TInv, frames # << >>
    PROVE  Below \in Seq(Record) /\ \A k \in DOMAIN Below : Sound(given, Below[k])
<1>1. \A k \in DOMAIN frames : Sound(given, frames[k])  BY DEF TInv, Sane
<1>2. TypeOK  BY DEF TInv
<1> QED  BY <1>1, <1>2, TopTyped

LEMMA TopSound ==
    ASSUME TInv, frames # << >>
    PROVE  TypeOK /\ Sound(given, Top) /\ todo # << >> /\ (ret # None /\ ret.ok => ret.shape \in Shapes)
<1>1. \A k \in DOMAIN frames : Sound(given, frames[k])  BY DEF TInv, Sane
<1>2. TypeOK  BY DEF TInv
<1> QED  BY <1>1, <1>2, TopTyped DEF TInv, Sane

\* A loop in the top record goes on.
LEMMA MovesTyped ==
    ASSUME TInv, frames # << >>, NEW f \in Record, Sound(given, f), frames' = Becomes(f),
           ret' = None, Unchanged,
           parents' \in [Shapes -> Seq(Shapes)], entries' \in [Shapes -> Seq(Property)],
           UNCHANGED << map, facets, unwrapped, visited >>
    PROVE  TInv'
<1>1. TypeOK /\ Sane /\ todo # << >>  BY TopSound DEF TInv
<1>2. given' = given /\ todo' = todo /\ result' = result /\ failed' = failed  BY DEF Unchanged
<1>3. frames' \in Seq(Record) /\ frames' # << >> /\ \A k \in DOMAIN frames' : Sound(given, frames'[k])
  BY <1>1, BecomesTyped, BecomesSound
<1> QED  BY <1>1, <1>2, <1>3 DEF TInv, TypeOK, Sane

\* The top record returns r.
LEMMA LeavesTyped ==
    ASSUME TInv, frames # << >>, NEW r \in [ok : BOOLEAN, shape : Shapes \cup {None}],
           r.ok => r.shape \in Shapes, Returns(r), Unchanged,
           parents' \in [Shapes -> Seq(Shapes)], map' \in [Shapes -> Shapes \cup {None}],
           facets' \in [Shapes -> SUBSET Shapes], visited' \in [Shapes -> BOOLEAN],
           UNCHANGED << entries, unwrapped >>
    PROVE  TInv'
<1>1. TypeOK /\ Sane /\ todo # << >>  BY TopSound DEF TInv
<1>2. given' = given /\ todo' = todo /\ result' = result /\ failed' = failed  BY DEF Unchanged
<1>3. frames' \in Seq(Record) /\ \A k \in DOMAIN frames' : Sound(given, frames'[k])
  BY ReturnsSound DEF Returns
<1>4. ret' = r  BY DEF Returns
<1> QED  BY <1>1, <1>2, <1>3, <1>4 DEF TInv, TypeOK, Sane

LEMMA HeapTyped ==
    ASSUME TypeOK
    PROVE  /\ parents \in [Shapes -> Seq(Shapes)] /\ map \in [Shapes -> Shapes \cup {None}]
           /\ entries \in [Shapes -> Seq(Property)] /\ facets \in [Shapes -> SUBSET Shapes]
           /\ unwrapped \in [Shapes -> BOOLEAN] /\ visited \in [Shapes -> BOOLEAN]
BY DEF TypeOK

LEMMA InitTyped == Init => TInv
<1> SUFFICES ASSUME Init PROVE TInv  OBVIOUS
<1>1. given \in ModelType  BY ConstantsAssumption DEF Init
<1>2. /\ given.kind \in [Shapes -> {"object", "scalar", "any"}]
      /\ given.parents \in [Shapes -> Seq(Shapes)] /\ given.props \in [Shapes -> Seq(Property)]
      /\ given.roots \in Seq(Shapes)
  BY <1>1, ModelTyped
<1>3. parents \in [Shapes -> Seq(Shapes)] /\ entries \in [Shapes -> Seq(Property)] /\ todo \in Seq(Shapes)
  BY <1>2 DEF Init
<1>4. map \in [Shapes -> Shapes \cup {None}] /\ facets \in [Shapes -> SUBSET Shapes]  BY DEF Init
<1>5. /\ unwrapped \in [Shapes -> BOOLEAN] /\ visited \in [Shapes -> BOOLEAN]
      /\ result \in [Shapes -> Shapes] /\ failed \in BOOLEAN /\ ret = None
  BY DEF Init
<1>6. frames = << >> /\ frames \in Seq(Record) /\ DOMAIN frames = {}
  <2>1. << >> \in Seq(Record) /\ DOMAIN << >> = {}
    <3> HIDE DEF Record
    <3> QED  OBVIOUS
  <2> QED  BY <2>1 DEF Init
<1> QED  BY <1>1, <1>3, <1>4, <1>5, <1>6 DEF TInv, TypeOK, Sane

LEMMA CallRootTyped == TInv /\ CallRoot => TInv'
<1> SUFFICES ASSUME TInv, CallRoot PROVE TInv'  OBVIOUS
<1>1. frames = << >> /\ todo # << >> /\ UnwrapShape(frames, Head(todo)) /\ Unchanged  BY DEF CallRoot
<1>2. todo \in Seq(Shapes)  BY DEF TInv, TypeOK
<1>3. Head(todo) \in Shapes  BY <1>1, <1>2
<1> QED  BY <1>1, <1>3, UnwrapShapeTyped

LEMMA RootReturnsTyped == TInv /\ RootReturns => TInv'
<1> SUFFICES ASSUME TInv, RootReturns PROVE TInv'  OBVIOUS
<1>1. TypeOK /\ Sane  BY DEF TInv
<1>2. frames = << >> /\ ret # None /\ ret' = None /\ frames' = frames /\ todo' = Tail(todo)
      /\ given' = given
  BY DEF RootReturns
<1>3. todo # << >> /\ todo \in Seq(Shapes)  BY <1>1, <1>2 DEF Sane, TypeOK
<1>4. Head(todo) \in Shapes /\ Tail(todo) \in Seq(Shapes)  BY <1>3
<1>5. result' \in [Shapes -> Shapes]
  <2>1. result \in [Shapes -> Shapes]  BY <1>1 DEF TypeOK
  <2>2. ret.ok => ret.shape \in Shapes  BY <1>1, <1>2 DEF Sane
  <2>3. result' = [result EXCEPT ![Head(todo)] = IF ret.ok THEN ret.shape ELSE @]  BY DEF RootReturns
  <2> QED  BY <1>4, <2>1, <2>2, <2>3
<1>6. failed' \in BOOLEAN  BY DEF RootReturns
<1>7. parents' = parents /\ map' = map /\ entries' = entries /\ facets' = facets
      /\ unwrapped' = unwrapped /\ visited' = visited
  BY DEF RootReturns, heap
<1>8. TypeOK'  BY <1>1, <1>2, <1>4, <1>5, <1>6, <1>7 DEF TypeOK
<1>9. Sane'  BY <1>1, <1>2 DEF Sane
<1> QED  BY <1>8, <1>9 DEF TInv

LEMMA CallAliasTyped == TInv /\ CallAlias => TInv'
<1> SUFFICES ASSUME TInv, CallAlias PROVE TInv'  OBVIOUS
<1>1. frames # << >> /\ Top.at = "alias" /\ UnwrapShape(frames, given.alias[S]) /\ Unchanged
  BY DEF CallAlias, Calls, At
<1>2. given.alias[S] \in Shapes  BY <1>1, TopSound DEF Sound, S
<1> QED  BY <1>1, <1>2, TopSound, UnwrapShapeTyped

LEMMA AliasToTyped == TInv /\ AliasTo => TInv'
<1> SUFFICES ASSUME TInv, AliasTo PROVE TInv'  OBVIOUS
<1>1. frames # << >> /\ ret # None /\ ret.ok /\ Unchanged /\ UNCHANGED << entries, unwrapped, visited >>
  BY DEF AliasTo, Gets, At
<1>2. TypeOK /\ ret.shape \in Shapes /\ S \in Shapes  BY <1>1, TopSound, TopTyped
<1>3. CASE given.kind[S] = given.kind[ret.shape]
  <2>1. /\ parents' = [parents EXCEPT ![S] = parents[ret.shape]]
        /\ map' = [map EXCEPT ![S] = map[ret.shape]]
        /\ facets' = [facets EXCEPT ![S] = facets[ret.shape]]
        /\ Returns(Ok(S))
    BY <1>3 DEF AliasTo
  <2>2. /\ parents' \in [Shapes -> Seq(Shapes)] /\ map' \in [Shapes -> Shapes \cup {None}]
        /\ facets' \in [Shapes -> SUBSET Shapes] /\ visited' \in [Shapes -> BOOLEAN]
    BY <1>1, <1>2, <2>1, HeapTyped
  <2>3. Ok(S) \in [ok : BOOLEAN, shape : Shapes \cup {None}] /\ Ok(S).shape \in Shapes  BY <1>2, Answers
  <2> QED  BY <1>1, <2>1, <2>2, <2>3, LeavesTyped
<1>4. CASE given.kind[S] # given.kind[ret.shape]
  <2>1. Returns(Error) /\ UNCHANGED << parents, map, facets >>  BY <1>4 DEF AliasTo
  <2>2. Error \in [ok : BOOLEAN, shape : Shapes \cup {None}] /\ ~Error.ok  BY Answers
  <2>3. /\ parents' \in [Shapes -> Seq(Shapes)] /\ map' \in [Shapes -> Shapes \cup {None}]
        /\ facets' \in [Shapes -> SUBSET Shapes] /\ visited' \in [Shapes -> BOOLEAN]
    BY <1>1, <1>2, <2>1, HeapTyped
  <2> QED  BY <1>1, <2>1, <2>2, <2>3, LeavesTyped
<1> QED  BY <1>3, <1>4

LEMMA CallParentTyped == TInv /\ CallParent => TInv'
<1> SUFFICES ASSUME TInv, CallParent PROVE TInv'  OBVIOUS
<1>1. frames # << >> /\ Top.next <= Len(parents[S]) /\ UnwrapShape(frames, parents[S][Top.next])
      /\ Unchanged
  BY DEF CallParent, Calls, At
<1>2. TypeOK /\ S \in Shapes /\ Top.next \in Nat \ {0}  BY <1>1, TopSound, TopTyped
<1>3. parents[S] \in Seq(Shapes)  BY <1>2, HeapTyped
<1>4. parents[S][Top.next] \in Shapes  BY <1>1, <1>2, <1>3
<1> QED  BY <1>1, <1>4, TopSound, UnwrapShapeTyped

LEMMA FirstParentTyped == TInv /\ FirstParent => TInv'
<1> SUFFICES ASSUME TInv, FirstParent PROVE TInv'  OBVIOUS
<1> DEFINE f == [Top EXCEPT !.next = 2, !.source = ret.shape]
<1>1. /\ frames # << >> /\ ret # None /\ ret.ok /\ Top.at = "parents" /\ Unchanged
      /\ UNCHANGED << map, entries, facets, unwrapped, visited >> /\ ret' = None
      /\ frames' = Becomes(f) /\ parents' = [parents EXCEPT ![S][1] = ret.shape]
  BY DEF FirstParent, Gets, At
<1>2. TypeOK /\ ret.shape \in Shapes /\ S \in Shapes /\ Top \in Record  BY <1>1, TopSound, TopTyped
<1>3. f \in Record /\ Sound(given, f)
  <2>1. f \in Record /\ f.at = "parents" /\ f.source = ret.shape
    <3>1. 2 \in Nat \ {0} /\ ret.shape \in Shapes \cup {None}  BY <1>2
    <3> QED  BY <1>1, <1>2, <3>1 DEF Record
  <2> HIDE DEF f
  <2> QED  BY <1>2, <2>1 DEF Sound
<1>4. parents' \in [Shapes -> Seq(Shapes)]  BY <1>1, <1>2, Written
<1> HIDE DEF f
<1> QED  BY <1>1, <1>2, <1>3, <1>4, HeapTyped, MovesTyped

LEMMA OtherParentTyped == TInv /\ OtherParent => TInv'
<1> SUFFICES ASSUME TInv, OtherParent PROVE TInv'  OBVIOUS
<1> DEFINE f == [Top EXCEPT !.at = "joined"]
<1>1. /\ frames # << >> /\ ret # None /\ ret.ok /\ Top.at = "parents" /\ Top.next > 1 /\ Unchanged
      /\ Inherit(Becomes(f), Top.source, ret.shape)
  BY DEF OtherParent, Gets, At
<1>2. TypeOK /\ ret.shape \in Shapes /\ Top \in Record /\ todo # << >> /\ Top.source \in Shapes
  BY <1>1, TopSound, TopTyped DEF Sound
<1>3. f \in Record /\ f.at = "joined" /\ f.source \in Shapes
  <2>1. "joined" \in {"alias", "parents", "joined", "props", "source", "merge", "merged"}  OBVIOUS
  <2> QED  BY <1>2, <2>1, MovedTo
<1> HIDE DEF f
<1>4. Sound(given, f)  BY <1>3 DEF Sound
<1>5. Becomes(f) \in Seq(Record) /\ \A k \in DOMAIN Becomes(f) : Sound(given, Becomes(f)[k])
  BY <1>1, <1>2, <1>3, <1>4, BecomesTyped, BecomesSound
<1> QED  BY <1>1, <1>2, <1>5, InheritTyped

LEMMA ParentJoinedTyped == TInv /\ ParentJoined => TInv'
<1> SUFFICES ASSUME TInv, ParentJoined PROVE TInv'  OBVIOUS
<1> DEFINE f == [Top EXCEPT !.at = "parents", !.next = @ + 1]
<1>1. /\ frames # << >> /\ ret # None /\ ret.ok /\ Top.at = "joined" /\ Unchanged
      /\ UNCHANGED << map, entries, facets, unwrapped, visited >> /\ ret' = None
      /\ frames' = Becomes(f) /\ parents' = [parents EXCEPT ![S][Top.next] = ret.shape]
  BY DEF ParentJoined, Gets, At
<1>2. /\ TypeOK /\ ret.shape \in Shapes /\ S \in Shapes /\ Top \in Record /\ Top.next \in Nat \ {0}
      /\ Top.source \in Shapes
  BY <1>1, TopSound, TopTyped DEF Sound
<1>3. f \in Record /\ f.at = "parents" /\ f.source \in Shapes
  <2>1. "parents" \in {"alias", "parents", "joined", "props", "source", "merge", "merged"}  OBVIOUS
  <2>2. Top.next + 1 \in Nat \ {0}  BY <1>2
  <2> QED  BY <1>2, <2>1, <2>2 DEF Record
<1> HIDE DEF f
<1>4. Sound(given, f)  BY <1>3 DEF Sound
<1>5. parents' \in [Shapes -> Seq(Shapes)]  BY <1>1, <1>2, Written
<1> QED  BY <1>1, <1>2, <1>3, <1>4, <1>5, HeapTyped, MovesTyped

LEMMA ParentsDoneTyped == TInv /\ ParentsDone => TInv'
<1> SUFFICES ASSUME TInv, ParentsDone PROVE TInv'  OBVIOUS
<1> DEFINE f == [Top EXCEPT !.at = "props", !.next = 1]
<1>1. /\ frames # << >> /\ ret = None /\ Unchanged /\ frames' = Becomes(f)
      /\ UNCHANGED << parents, map, entries, facets, unwrapped, visited, ret >>
  BY DEF ParentsDone, Calls, At, heap
<1>2. TypeOK /\ Top \in Record  BY <1>1, TopSound, TopTyped
<1>3. f \in Record /\ f.at = "props"
  <2>1. "props" \in {"alias", "parents", "joined", "props", "source", "merge", "merged"}  OBVIOUS
  <2>2. 1 \in Nat \ {0}  OBVIOUS
  <2> QED  BY <1>2, <2>1, <2>2 DEF Record
<1> HIDE DEF f
<1>4. Sound(given, f)  BY <1>3 DEF Sound
<1> QED  BY <1>1, <1>2, <1>3, <1>4, HeapTyped, MovesTyped

LEMMA CallPropertyTyped == TInv /\ CallProperty => TInv'
<1> SUFFICES ASSUME TInv, CallProperty PROVE TInv'  OBVIOUS
<1>1. frames # << >> /\ Top.next <= Len(PropsOf(S)) /\ UnwrapShape(frames, PropsOf(S)[Top.next].base)
      /\ Unchanged
  BY DEF CallProperty, Calls, At
<1>2. TypeOK /\ S \in Shapes /\ Top.next \in Nat \ {0}  BY <1>1, TopSound, TopTyped
<1>3. Top.next \in DOMAIN PropsOf(S)  BY <1>1, <1>2, PropsTyped
<1>4. PropsOf(S)[Top.next].base \in Shapes  BY <1>2, <1>3, PropsTyped
<1> QED  BY <1>1, <1>4, TopSound, UnwrapShapeTyped

LEMMA PropertyReturnsTyped == TInv /\ PropertyReturns => TInv'
<1> SUFFICES ASSUME TInv, PropertyReturns PROVE TInv'  OBVIOUS
<1> DEFINE f == [Top EXCEPT !.next = @ + 1]
<1>1. /\ frames # << >> /\ ret # None /\ ret.ok /\ Top.at = "props" /\ Unchanged
      /\ UNCHANGED << parents, map, facets, unwrapped, visited >> /\ ret' = None
      /\ frames' = Becomes(f) /\ entries' = [entries EXCEPT ![map[S]][Top.next].base = ret.shape]
  BY DEF PropertyReturns, Gets, At
<1>2. /\ TypeOK /\ ret.shape \in Shapes /\ S \in Shapes /\ Top \in Record /\ Top.next \in Nat \ {0}
      /\ map[S] \in Shapes \cup {None}
  BY <1>1, TopSound, TopTyped, HeapTyped
<1>3. f \in Record /\ f.at = "props"
  <2>1. Top.next + 1 \in Nat \ {0}  BY <1>2
  <2> QED  BY <1>1, <1>2, <2>1, MovedOn
<1> HIDE DEF f
<1>4. Sound(given, f)  BY <1>3 DEF Sound
<1>5. entries' \in [Shapes -> Seq(Property)]  BY <1>1, <1>2, Written
<1> QED  BY <1>1, <1>2, <1>3, <1>4, <1>5, HeapTyped, MovesTyped

LEMMA MergeSourceTyped == TInv /\ MergeSource => TInv'
<1> SUFFICES ASSUME TInv, MergeSource PROVE TInv'  OBVIOUS
<1>1. frames # << >> /\ ret = None /\ Unchanged  BY DEF MergeSource, Calls, At
<1>2. TypeOK /\ S \in Shapes /\ Top \in Record /\ todo # << >> /\ Top.source \in Shapes \cup {None}
  BY <1>1, TopSound, TopTyped
<1>3. CASE Top.source = None
  <2>1. Returns(Ok(S)) /\ UNCHANGED << parents, map, entries, facets, unwrapped, visited >>
    BY <1>3 DEF MergeSource, heap
  <2>2. Ok(S) \in [ok : BOOLEAN, shape : Shapes \cup {None}] /\ Ok(S).shape \in Shapes  BY <1>2, Answers
  <2>3. /\ parents' \in [Shapes -> Seq(Shapes)] /\ map' \in [Shapes -> Shapes \cup {None}]
        /\ facets' \in [Shapes -> SUBSET Shapes] /\ visited' \in [Shapes -> BOOLEAN]
    BY <1>2, <2>1, HeapTyped
  <2> QED  BY <1>1, <2>1, <2>2, <2>3, LeavesTyped
<1>4. CASE Top.source # None
  <2> DEFINE f == [Top EXCEPT !.at = "source"]
  <2>1. Inherit(Becomes(f), S, Top.source) /\ Top.source \in Shapes  BY <1>2, <1>4 DEF MergeSource
  <2>2. f \in Record /\ f.at = "source" /\ f.source \in Shapes
    <3>1. "source" \in {"alias", "parents", "joined", "props", "source", "merge", "merged"}  OBVIOUS
    <3> QED  BY <1>2, <2>1, <3>1, MovedTo
  <2> HIDE DEF f
  <2>3. Sound(given, f)  BY <2>2 DEF Sound
  <2>4. Becomes(f) \in Seq(Record) /\ \A k \in DOMAIN Becomes(f) : Sound(given, Becomes(f)[k])
    BY <1>1, <1>2, <2>2, <2>3, BecomesTyped, BecomesSound
  <2> QED  BY <1>1, <1>2, <2>1, <2>4, InheritTyped
<1> QED  BY <1>3, <1>4

LEMMA SourceMergedTyped == TInv /\ SourceMerged => TInv'
<1> SUFFICES ASSUME TInv, SourceMerged PROVE TInv'  OBVIOUS
<1>1. /\ frames # << >> /\ ret # None /\ ret.ok /\ Unchanged /\ Returns(ret)
      /\ UNCHANGED << parents, map, entries, facets, unwrapped, visited >>
  BY DEF SourceMerged, Gets, At, heap
<1>2. TypeOK /\ ret.shape \in Shapes /\ ret \in [ok : BOOLEAN, shape : Shapes \cup {None}]
  BY <1>1, TopSound, ReturnsTyped
<1>3. /\ parents' \in [Shapes -> Seq(Shapes)] /\ map' \in [Shapes -> Shapes \cup {None}]
      /\ facets' \in [Shapes -> SUBSET Shapes] /\ visited' \in [Shapes -> BOOLEAN]
  BY <1>1, <1>2, HeapTyped
<1> QED  BY <1>1, <1>2, <1>3, LeavesTyped

LEMMA MergePropertyTyped == TInv /\ MergeProperty => TInv'
<1> SUFFICES ASSUME TInv, MergeProperty PROVE TInv'  OBVIOUS
<1> DEFINE theirs == PropsOf(Top.source)[Top.next]
           Ours   == {i \in DOMAIN PropsOf(S) : PropsOf(S)[i].name = theirs.name}
           f      == [Top EXCEPT !.next = @ + 1]
<1>1. frames # << >> /\ ret = None /\ Top.at = "merge" /\ Unchanged /\ Top.next <= Len(PropsOf(Top.source))
  BY DEF MergeProperty, Calls, At
<1>2. /\ TypeOK /\ Sane /\ S \in Shapes /\ Top \in Record /\ todo # << >> /\ Top.source \in Shapes
      /\ Top.next \in Nat \ {0} /\ map[S] \in Shapes \cup {None}
  BY <1>1, TopSound, TopTyped, HeapTyped DEF Sound, TInv
<1>3. theirs \in Property /\ theirs.base \in Shapes
  <2>1. Top.next \in DOMAIN PropsOf(Top.source)  BY <1>1, <1>2, PropsTyped
  <2> QED  BY <1>2, <2>1, PropsTyped
<1>4. CASE Ours = {}
  <2>1. /\ entries' = [entries EXCEPT ![map[S]] = Append(@, theirs)] /\ frames' = Becomes(f)
        /\ UNCHANGED << parents, map, facets, unwrapped, visited, ret >>
    BY <1>4 DEF MergeProperty
  <2>2. f \in Record /\ f.at = "merge" /\ f.source = Top.source
    <3>1. Top.next + 1 \in Nat \ {0}  BY <1>2
    <3> QED  BY <1>1, <1>2, <3>1, MovedOn
  <2> HIDE DEF f, Ours, theirs
  <2>3. Sound(given, f)  BY <1>2, <2>2 DEF Sound
  <2>4. entries' \in [Shapes -> Seq(Property)]
    <3>1. \A p \in Property : [entries EXCEPT ![map[S]] = Append(@, p)] \in [Shapes -> Seq(Property)]
      BY <1>2, Written
    <3> QED  BY <1>3, <2>1, <3>1
  <2> QED  BY <1>1, <1>2, <2>1, <2>2, <2>3, <2>4, HeapTyped, MovesTyped
<1>5. CASE Ours # {}
  <2>1. PICK i \in Ours : Inherit(frames, PropsOf(S)[i].base, theirs.base)  BY <1>5 DEF MergeProperty
  <2>2. PropsOf(S)[i].base \in Shapes  BY <1>2, <2>1, PropsTyped
  <2> HIDE DEF f, Ours, theirs
  <2> QED  BY <1>1, <1>2, <1>3, <2>1, <2>2, FramesTyped, InheritTyped DEF Sane
<1> QED  BY <1>4, <1>5

LEMMA PropertyMergedTyped == TInv /\ PropertyMerged => TInv'
<1> SUFFICES ASSUME TInv, PropertyMerged PROVE TInv'  OBVIOUS
<1> DEFINE f == [Top EXCEPT !.next = @ + 1]
<1>1. /\ frames # << >> /\ ret # None /\ ret.ok /\ Top.at = "merge" /\ Unchanged /\ frames' = Becomes(f)
      /\ UNCHANGED << parents, map, entries, facets, unwrapped, visited >> /\ ret' = None
  BY DEF PropertyMerged, Gets, At, heap
<1>2. TypeOK /\ Top \in Record /\ Top.source \in Shapes /\ Top.next \in Nat \ {0}
  BY <1>1, TopSound, TopTyped DEF Sound
<1>3. f \in Record /\ f.at = "merge" /\ f.source = Top.source
  <2>1. Top.next + 1 \in Nat \ {0}  BY <1>2
  <2> QED  BY <1>1, <1>2, <2>1, MovedOn
<1> HIDE DEF f
<1>4. Sound(given, f)  BY <1>2, <1>3 DEF Sound
<1> QED  BY <1>1, <1>2, <1>3, <1>4, HeapTyped, MovesTyped

LEMMA InheritReturnsTyped == TInv /\ InheritReturns => TInv'
<1> SUFFICES ASSUME TInv, InheritReturns PROVE TInv'  OBVIOUS
<1>1. /\ frames # << >> /\ Unchanged /\ Returns(Ok(S)) /\ visited' = [visited EXCEPT ![Top.source] = FALSE]
      /\ UNCHANGED << parents, map, entries, facets, unwrapped >>
  BY DEF InheritReturns, Calls, At
<1>2. TypeOK /\ S \in Shapes  BY <1>1, TopSound, TopTyped
<1>3. /\ parents' \in [Shapes -> Seq(Shapes)] /\ map' \in [Shapes -> Shapes \cup {None}]
      /\ facets' \in [Shapes -> SUBSET Shapes] /\ visited' \in [Shapes -> BOOLEAN]
  BY <1>1, <1>2, HeapTyped
<1>4. Ok(S) \in [ok : BOOLEAN, shape : Shapes \cup {None}] /\ Ok(S).shape \in Shapes  BY <1>2, Answers
<1> QED  BY <1>1, <1>3, <1>4, LeavesTyped

LEMMA PassErrorTyped == TInv /\ PassError => TInv'
<1> SUFFICES ASSUME TInv, PassError PROVE TInv'  OBVIOUS
<1>1. /\ frames # << >> /\ Unchanged /\ Returns(Error)
      /\ UNCHANGED << parents, map, entries, facets, unwrapped, visited >>
  BY DEF PassError, Returns, heap
<1>2. TypeOK  BY <1>1, TopSound
<1>3. /\ parents' \in [Shapes -> Seq(Shapes)] /\ map' \in [Shapes -> Shapes \cup {None}]
      /\ facets' \in [Shapes -> SUBSET Shapes] /\ visited' \in [Shapes -> BOOLEAN]
  BY <1>1, <1>2, HeapTyped
<1>4. Error \in [ok : BOOLEAN, shape : Shapes \cup {None}] /\ ~Error.ok  BY Answers
<1> QED  BY <1>1, <1>3, <1>4, LeavesTyped

LEMMA StutterTyped == TInv /\ UNCHANGED vars => TInv'
BY DEF TInv, TypeOK, Sane, vars

LEMMA NextTyped == TInv /\ [Next]_vars => TInv'
<1> SUFFICES ASSUME TInv, [Next]_vars PROVE TInv'  OBVIOUS
<1>1. \/ CallRoot \/ RootReturns \/ CallAlias \/ AliasTo \/ CallParent \/ FirstParent \/ OtherParent
      \/ ParentJoined \/ ParentsDone \/ CallProperty \/ PropertyReturns \/ MergeSource \/ SourceMerged
      \/ MergeProperty \/ PropertyMerged \/ InheritReturns \/ PassError \/ UNCHANGED vars
  BY DEF Next, Over
<1> QED
  BY <1>1, CallRootTyped, RootReturnsTyped, CallAliasTyped, AliasToTyped, CallParentTyped,
     FirstParentTyped, OtherParentTyped, ParentJoinedTyped, ParentsDoneTyped, CallPropertyTyped,
     PropertyReturnsTyped, MergeSourceTyped, SourceMergedTyped, MergePropertyTyped,
     PropertyMergedTyped, InheritReturnsTyped, PassErrorTyped, StutterTyped

\* Every variable keeps its type, and a record that goes on has the source or
\* the alias it needs (UnwrapShape and Inherit dereference no nil pointer).
THEOREM TypeCorrect == Spec => []TypeOK
<1>1. TInv => TypeOK  BY DEF TInv
<1> QED  BY InitTyped, NextTyped, <1>1, PTL DEF Spec

-----------------------------------------------------------------------------
(* The records and the heap.  What a step changes under the records below  *)
(* the top one is nothing they look at again, and properties are only      *)
(* added.                                                                  *)

Undisturbed(ps, mp, ps2, mp2, f) ==
    /\ f.at = "parents" => ps2[f.shape] = ps[f.shape]
    /\ f.at = "props" /\ mp[f.shape] \in Shapes => mp2[f.shape] = mp[f.shape]

Grown(en, en2) ==
    \A m \in Shapes : \A k \in DOMAIN en[m] : k \in DOMAIN en2[m] /\ en2[m][k] = en[m][k]

LEMMA AwaitsKept ==
    ASSUME NEW g, NEW ps, NEW mp, NEW en, NEW ps2, NEW mp2, NEW en2, NEW f, NEW s,
           Undisturbed(ps, mp, ps2, mp2, f), Grown(en, en2), Awaits(g, ps, mp, en, f, s)
    PROVE  Awaits(g, ps2, mp2, en2, f, s)
<1>1. f.at = "parents" => f.next \in DOMAIN ps2[f.shape] /\ s = ps2[f.shape][f.next]
  BY DEF Undisturbed, Awaits
<1>2. ASSUME f.at = "props"
      PROVE  /\ mp2[f.shape] \in Shapes /\ f.next \in DOMAIN en2[mp2[f.shape]]
             /\ s = en2[mp2[f.shape]][f.next].base
  <2>1. mp[f.shape] \in Shapes /\ mp2[f.shape] = mp[f.shape] /\ f.next \in DOMAIN en[mp[f.shape]]
        /\ s = en[mp[f.shape]][f.next].base
    BY <1>2 DEF Undisturbed, Awaits
  <2>2. f.next \in DOMAIN en2[mp[f.shape]] /\ en2[mp[f.shape]][f.next] = en[mp[f.shape]][f.next]
    BY <2>1 DEF Grown
  <2> QED  BY <2>1, <2>2
<1> QED  BY <1>1, <1>2 DEF Awaits

\* fs2 are the records fs, the top one changed or gone.
Trimmed(fs, fs2) ==
    /\ Len(fs2) <= Len(fs)
    /\ \A k \in DOMAIN fs2 :
          /\ k \in DOMAIN fs
          /\ fs2[k].shape = fs[k].shape
          /\ Merging(fs2[k]) <=> Merging(fs[k])
          /\ k < Len(fs2) => fs2[k] = fs[k]

LEMMA StillOrdered ==
    ASSUME NEW fs \in Seq(Record), NEW fs2 \in Seq(Record), Trimmed(fs, fs2), NEW g, NEW td, NEW un,
           NEW ps, NEW mp, NEW en, NEW ps2, NEW mp2, NEW en2, Grown(en, en2),
           \A k \in DOMAIN fs : k < Len(fs) => Undisturbed(ps, mp, ps2, mp2, fs[k]),
           Ordered(g, ps, mp, en, un, fs, td)
    PROVE  Ordered(g, ps2, mp2, en2, un, fs2, td)
<1>0. /\ Len(fs) \in Nat /\ DOMAIN fs = 1..Len(fs) /\ (fs = << >> <=> Len(fs) = 0)
      /\ Len(fs2) \in Nat /\ DOMAIN fs2 = 1..Len(fs2) /\ (fs2 = << >> <=> Len(fs2) = 0)
  OBVIOUS
<1>1. Linked(g, ps2, mp2, en2, fs2)
  <2> SUFFICES ASSUME NEW k \in DOMAIN fs2, k < Len(fs2)
               PROVE  Awaits(g, ps2, mp2, en2, fs2[k], fs2[k + 1].shape)
    BY DEF Linked
  <2>1. k \in DOMAIN fs /\ k < Len(fs) /\ k + 1 \in DOMAIN fs2  BY <1>0 DEF Trimmed
  <2>2. Awaits(g, ps, mp, en, fs[k], fs[k + 1].shape)  BY <2>1 DEF Ordered, Linked
  <2>3. Awaits(g, ps2, mp2, en2, fs[k], fs[k + 1].shape)  BY <2>1, <2>2, AwaitsKept
  <2>4. fs2[k] = fs[k] /\ fs2[k + 1].shape = fs[k + 1].shape  BY <2>1 DEF Trimmed
  <2> QED  BY <2>3, <2>4
<1>2. Layered(fs2)  BY DEF Trimmed, Ordered, Layered
<1>3. Rooted(fs2, td)
  <2> SUFFICES ASSUME fs2 # << >> PROVE ~Merging(fs2[1]) /\ fs2[1].shape = Head(td)  BY DEF Rooted
  <2>1. 1 \in DOMAIN fs2 /\ fs # << >>  BY <1>0 DEF Trimmed
  <2> QED  BY <2>1 DEF Trimmed, Ordered, Rooted
<1>4. Once(un, fs2)  BY DEF Trimmed, Ordered, Once
<1> QED  BY <1>1, <1>2, <1>3, <1>4 DEF Ordered

\* Once the top record is gone, its shape is what the one below awaits.
LEMMA BelowAwaits ==
    ASSUME NEW fs \in Seq(Record), fs # << >>, NEW g, NEW td, NEW un,
           NEW ps, NEW mp, NEW en, NEW ps2, NEW mp2, NEW en2, Grown(en, en2),
           \A k \in DOMAIN fs : k < Len(fs) => Undisturbed(ps, mp, ps2, mp2, fs[k]),
           Ordered(g, ps, mp, en, un, fs, td)
    PROVE  IF Len(fs) = 1 THEN fs[Len(fs)].shape = Head(td)
           ELSE Awaits(g, ps2, mp2, en2, fs[Len(fs) - 1], fs[Len(fs)].shape)
<1>0. Len(fs) \in Nat \ {0} /\ DOMAIN fs = 1..Len(fs)  OBVIOUS
<1>1. CASE Len(fs) = 1  BY <1>1 DEF Ordered, Rooted
<1>2. CASE Len(fs) # 1
  <2>1. Len(fs) - 1 \in DOMAIN fs /\ Len(fs) - 1 < Len(fs) /\ Len(fs) - 1 + 1 = Len(fs)  BY <1>0, <1>2
  <2>2. Awaits(g, ps, mp, en, fs[Len(fs) - 1], fs[Len(fs)].shape)
    <3>1. \A k \in DOMAIN fs : k < Len(fs) => Awaits(g, ps, mp, en, fs[k], fs[k + 1].shape)
      BY DEF Ordered, Linked
    <3> QED  BY <2>1, <3>1
  <2>3. Awaits(g, ps2, mp2, en2, fs[Len(fs) - 1], fs[Len(fs)].shape)  BY <2>1, <2>2, AwaitsKept
  <2> QED  BY <1>2, <2>3
<1> QED  BY <1>1, <1>2

LEMMA PushOrdered ==
    ASSUME NEW fs \in Seq(Record), NEW f \in Record, NEW g, NEW td, NEW un, NEW un2,
           NEW ps, NEW mp, NEW en, Ordered(g, ps, mp, en, un, fs, td),
           \A s \in Shapes : un[s] => un2[s],
           fs = << >> => ~Merging(f) /\ f.shape = Head(td),
           fs # << >> => /\ Awaits(g, ps, mp, en, fs[Len(fs)], f.shape)
                         /\ Merging(fs[Len(fs)]) => Merging(f),
           ~Merging(f) => un2[f.shape] /\ ~un[f.shape]
    PROVE  Ordered(g, ps, mp, en, un2, Append(fs, f), td)
<1> DEFINE h == Append(fs, f)
           n == Len(fs)
<1>0. /\ Len(h) = n + 1 /\ n \in Nat /\ DOMAIN h = 1..n + 1 /\ DOMAIN fs = 1..n
      /\ h[n + 1] = f /\ \A k \in 1..n : h[k] = fs[k] /\ h[k] \in Record
      /\ (fs = << >> <=> n = 0)
  BY Appended
<1> HIDE DEF h, n
<1>a. \A k \in DOMAIN h : k = n + 1 \/ k \in 1..n  BY <1>0
<1>1. Linked(g, ps, mp, en, h)
  <2> SUFFICES ASSUME NEW k \in DOMAIN h, k < Len(h) PROVE Awaits(g, ps, mp, en, h[k], h[k + 1].shape)
    BY DEF Linked
  <2>1. CASE k = n
    <3>1. k \in 1..n /\ fs # << >> /\ h[k] = fs[n] /\ h[k + 1] = f  BY <1>0, <2>1
    <3>2. Awaits(g, ps, mp, en, fs[n], f.shape)  BY <3>1 DEF n
    <3> QED  BY <3>1, <3>2
  <2>2. CASE k # n
    <3>1. k \in 1..n /\ k + 1 \in 1..n /\ k < n  BY <1>0, <2>2
    <3>2. Awaits(g, ps, mp, en, fs[k], fs[k + 1].shape)  BY <1>0, <3>1 DEF Ordered, Linked, n
    <3> QED  BY <1>0, <3>1, <3>2
  <2> QED  BY <2>1, <2>2
<1>2. Layered(h)
  <2> SUFFICES ASSUME NEW j \in DOMAIN h, NEW k \in DOMAIN h, j < k, Merging(h[j]) PROVE Merging(h[k])
    BY DEF Layered
  <2>1. j \in 1..n /\ n \in 1..n /\ fs # << >>  BY <1>0
  <2>2. \A i \in 1..n : j < i => Merging(fs[i])  BY <1>0, <2>1 DEF Ordered, Layered
  <2>3. Merging(fs[n])  BY <1>0, <2>1, <2>2
  <2>4. Merging(f)  BY <2>1, <2>3 DEF n
  <2> QED  BY <1>0, <1>a, <2>2, <2>4
<1>3. Rooted(h, td)
  <2>1. CASE n = 0  BY <1>0, <2>1 DEF Rooted
  <2>2. CASE n # 0
    <3>1. h[1] = fs[1] /\ fs # << >>  BY <1>0, <2>2
    <3> QED  BY <3>1 DEF Ordered, Rooted
  <2> QED  BY <2>1, <2>2
<1>4. Once(un2, h)
  <2>1. \A k \in 1..n : ~Merging(fs[k]) =>
            /\ un[fs[k].shape]
            /\ \A j \in 1..n : ~Merging(fs[j]) /\ j # k => fs[j].shape # fs[k].shape
    BY <1>0 DEF Ordered, Once
  <2>2. \A k \in 1..n : fs[k].shape \in Shapes  BY <1>0, RecordTyped
  <2>3. \A k \in DOMAIN h : ~Merging(h[k]) => un2[h[k].shape]  BY <1>0, <1>a, <2>1, <2>2
  <2>4. \A k \in 1..n : ~Merging(f) /\ ~Merging(fs[k]) => fs[k].shape # f.shape  BY <2>1
  <2>5. \A j, k \in DOMAIN h : ~Merging(h[j]) /\ ~Merging(h[k]) /\ j # k => h[j].shape # h[k].shape
    BY <1>0, <1>a, <2>1, <2>4
  <2> QED  BY <2>3, <2>5 DEF Once
<1> QED  BY <1>1, <1>2, <1>3, <1>4 DEF Ordered, h

-----------------------------------------------------------------------------
(* The flags *)

LEMMA StillFlagged ==
    ASSUME NEW vi, NEW fs, NEW fs2, Flagged(vi, fs),
           \A k \in DOMAIN fs2 : /\ k \in DOMAIN fs
                                 /\ Merging(fs2[k]) <=> Merging(fs[k])
                                 /\ Merging(fs[k]) => fs2[k].source = fs[k].source,
           \A k \in DOMAIN fs : Merging(fs[k]) => k \in DOMAIN fs2
    PROVE  Flagged(vi, fs2)
BY DEF Flagged

\* UnwrapShape is no merge.
LEMMA PushUnflagged ==
    ASSUME NEW fs \in Seq(Record), NEW f \in Record, ~Merging(f), NEW vi, Flagged(vi, fs)
    PROVE  Flagged(vi, Append(fs, f))
<1> DEFINE h == Append(fs, f)
           n == Len(fs)
<1>0. /\ n \in Nat /\ DOMAIN h = 1..n + 1 /\ DOMAIN fs = 1..n
      /\ h[n + 1] = f /\ \A k \in 1..n : h[k] = fs[k]
  BY Appended
<1> HIDE DEF h, n
<1>1. \A k \in DOMAIN h : Merging(h[k]) => k \in 1..n /\ h[k] = fs[k]
  <2>1. \A k \in DOMAIN h : k = n + 1 \/ k \in 1..n  BY <1>0
  <2> QED  BY <1>0, <2>1
<1>2. \A k \in 1..n : k \in DOMAIN h /\ h[k] = fs[k]  BY <1>0
<1>3. Flagged(vi, h)  BY <1>0, <1>1, <1>2 DEF Flagged
<1> QED  BY <1>3 DEF h

\* Inherit sets the flag of its source.
LEMMA PushFlagged ==
    ASSUME NEW fs \in Seq(Record), NEW f \in Record, Merging(f), NEW vi \in [Shapes -> BOOLEAN],
           f.source \in Shapes, ~vi[f.source], Flagged(vi, fs)
    PROVE  Flagged([vi EXCEPT ![f.source] = TRUE], Append(fs, f))
<1> DEFINE h == Append(fs, f)
           n == Len(fs)
           vi2 == [vi EXCEPT ![f.source] = TRUE]
<1>0. /\ n \in Nat /\ DOMAIN h = 1..n + 1 /\ DOMAIN fs = 1..n
      /\ h[n + 1] = f /\ \A k \in 1..n : h[k] = fs[k]
  BY Appended
<1>b. \A s \in Shapes : vi2[s] = IF s = f.source THEN TRUE ELSE vi[s]  OBVIOUS
<1> HIDE DEF h, n, vi2
<1>a. n + 1 \in DOMAIN h /\ \A k \in DOMAIN h : k = n + 1 \/ k \in 1..n  BY <1>0
<1>c. \A k \in 1..n : k \in DOMAIN h /\ h[k] = fs[k] /\ k # n + 1  BY <1>0
<1>1. \A k \in 1..n : Merging(fs[k]) => fs[k].source # f.source  BY <1>0 DEF Flagged
<1>2. \A s \in Shapes : vi2[s] <=> \E i \in DOMAIN h : h[i].source = s /\ Merging(h[i])
  <2> SUFFICES ASSUME NEW s \in Shapes
               PROVE  vi2[s] <=> \E i \in DOMAIN h : h[i].source = s /\ Merging(h[i])
    OBVIOUS
  <2>1. CASE s = f.source  BY <1>0, <1>a, <1>b, <2>1
  <2>2. CASE s # f.source
    <3>1. vi[s] <=> \E i \in 1..n : fs[i].source = s /\ Merging(fs[i])  BY <1>0 DEF Flagged
    <3> QED  BY <1>0, <1>a, <1>b, <1>c, <2>2, <3>1
  <2> QED  BY <2>1, <2>2
<1>3. \A j, k \in DOMAIN h : Merging(h[j]) /\ Merging(h[k]) /\ j # k => h[j].source # h[k].source
  <2>1. \A j, k \in 1..n : Merging(fs[j]) /\ Merging(fs[k]) /\ j # k => fs[j].source # fs[k].source
    BY <1>0 DEF Flagged
  <2> QED  BY <1>0, <1>a, <1>1, <2>1
<1>4. Flagged(vi2, h)  BY <1>2, <1>3 DEF Flagged
<1> QED  BY <1>4 DEF h, vi2

\* Inherit clears the flag when it returns.
LEMMA PopFlagged ==
    ASSUME TypeOK, frames # << >>, Merging(Top), Top.source \in Shapes, Flagged(visited, frames)
    PROVE  Flagged([visited EXCEPT ![Top.source] = FALSE], Below)
<1> DEFINE n == Len(frames)
           vi2 == [visited EXCEPT ![Top.source] = FALSE]
<1>0. /\ n \in DOMAIN frames /\ DOMAIN frames = 1..n /\ n \in Nat \ {0} /\ DOMAIN Below = 1..n - 1
      /\ Top = frames[n] /\ \A k \in DOMAIN Below : Below[k] = frames[k] /\ k \in DOMAIN frames
  BY TopTyped, FramesTyped
<1>b. \A s \in Shapes : vi2[s] = IF s = Top.source THEN FALSE ELSE visited[s]  BY HeapTyped
<1> HIDE DEF n, vi2
<1>a. /\ \A k \in DOMAIN Below : k # n
      /\ \A k \in DOMAIN frames : k = n \/ k \in DOMAIN Below
  BY <1>0
<1>1. \A k \in DOMAIN Below : Merging(Below[k]) => Below[k].source # Top.source
  BY <1>0, <1>a DEF Flagged
<1>2. \A s \in Shapes : vi2[s] <=> \E i \in DOMAIN Below : Below[i].source = s /\ Merging(Below[i])
  <2> SUFFICES ASSUME NEW s \in Shapes
               PROVE  vi2[s] <=> \E i \in DOMAIN Below : Below[i].source = s /\ Merging(Below[i])
    OBVIOUS
  <2>1. CASE s = Top.source  BY <1>1, <1>b, <2>1
  <2>2. CASE s # Top.source
    <3>1. visited[s] <=> \E i \in DOMAIN frames : frames[i].source = s /\ Merging(frames[i])
      BY DEF Flagged
    <3> QED  BY <1>0, <1>a, <1>b, <2>2, <3>1
  <2> QED  BY <2>1, <2>2
<1>3. \A j, k \in DOMAIN Below : Merging(Below[j]) /\ Merging(Below[k]) /\ j # k
          => Below[j].source # Below[k].source
  BY <1>0 DEF Flagged
<1>4. Flagged(vi2, Below)  BY <1>2, <1>3 DEF Flagged
<1> QED  BY <1>4 DEF vi2

\* Nothing is merging under a record of UnwrapShape: no flag is set.
LEMMA NoFlag ==
    ASSUME NEW fs \in Seq(Record), fs # << >>, ~Merging(fs[Len(fs)]), Layered(fs), NEW vi, Flagged(vi, fs)
    PROVE  \A s \in Shapes : ~vi[s]
<1>1. Len(fs) \in Nat \ {0} /\ DOMAIN fs = 1..Len(fs)  OBVIOUS
<1>2. \A k \in DOMAIN fs : k < Len(fs) \/ k = Len(fs)  BY <1>1
<1>3. \A k \in DOMAIN fs : ~Merging(fs[k])  BY <1>1, <1>2 DEF Layered
<1> QED  BY <1>3 DEF Flagged

LEMMA StillKept ==
    ASSUME NEW g \in ModelType, NEW en, NEW en2, NEW re, Kept(g, en, re), Grown(en, en2)
    PROVE  Kept(g, en2, re)
BY DEF Kept, Grown

-----------------------------------------------------------------------------
(* Steps that keep the order *)

Now(fs)  == Ordered(given, parents, map, entries, unwrapped, fs, todo)
Waits(f, s) == Awaits(given, parents, map, entries, f, s)

LEMMA InOrderSays ==
    ASSUME InOrder
    PROVE  /\ Now(frames) /\ (ret # Error => Flagged(visited, frames)) /\ Kept(given, entries, result)
           /\ ret # None /\ ret.ok => IF frames = << >> THEN ret.shape = Head(todo)
                                      ELSE Waits(frames[Len(frames)], ret.shape)
BY DEF InOrder, Now, Waits, Answered

\* The records that stay do not see what changes under the top one.
LEMMA OthersUndisturbed ==
    ASSUME TypeOK, frames # << >>, Now(frames), NEW ps2, NEW mp2,
           \A x \in Shapes : x # S => ps2[x] = parents[x] /\ mp2[x] = map[x],
           Merging(Top) => ps2 = parents /\ mp2 = map
    PROVE  \A k \in DOMAIN frames : k < Len(frames) => Undisturbed(parents, map, ps2, mp2, frames[k])
<1> SUFFICES ASSUME NEW k \in DOMAIN frames, k < Len(frames)
             PROVE  Undisturbed(parents, map, ps2, mp2, frames[k])
  OBVIOUS
<1>1. Len(frames) \in DOMAIN frames /\ Top = frames[Len(frames)] /\ Len(frames) # k /\ frames[k].shape \in Shapes
  BY TopTyped, FramesTyped, RecordTyped
<1>2. CASE Merging(Top)  BY <1>2 DEF Undisturbed
<1>3. CASE ~Merging(Top)
  <2>1. CASE Merging(frames[k])  BY <2>1 DEF Undisturbed, Merging
  <2>2. CASE ~Merging(frames[k])
    <3>1. frames[k].shape # S  BY <1>1, <1>3, <2>2 DEF Now, Ordered, Once, S
    <3> QED  BY <1>1, <3>1 DEF Undisturbed
  <2> QED  BY <2>1, <2>2
<1> QED  BY <1>2, <1>3

LEMMA BecomesTrimmed ==
    ASSUME TypeOK, frames # << >>, NEW f \in Record, f.shape = S, Merging(f) <=> Merging(Top)
    PROVE  Trimmed(frames, Becomes(f))
<1>1. /\ Len(Becomes(f)) = Len(frames) /\ DOMAIN Becomes(f) = DOMAIN frames
      /\ Becomes(f)[Len(frames)] = f
      /\ \A k \in DOMAIN frames : k # Len(frames) => Becomes(f)[k] = frames[k]
  BY BecomesTyped
<1>2. Len(frames) \in Nat /\ Top = frames[Len(frames)] /\ DOMAIN frames = 1..Len(frames)
  BY FramesTyped, TopTyped
<1> QED  BY <1>1, <1>2 DEF Trimmed, S

LEMMA BelowTrimmed ==
    ASSUME TypeOK, frames # << >>
    PROVE  Trimmed(frames, Below)
<1>1. /\ Len(Below) = Len(frames) - 1 /\ Len(frames) \in Nat
      /\ \A k \in DOMAIN Below : Below[k] = frames[k] /\ k \in DOMAIN frames
  BY TopTyped, FramesTyped
<1> QED  BY <1>1 DEF Trimmed

LEMMA BecomesFlagged ==
    ASSUME TypeOK, frames # << >>, NEW f \in Record, Merging(f) <=> Merging(Top),
           Merging(Top) => f.source = Top.source, Flagged(visited, frames)
    PROVE  Flagged(visited, Becomes(f))
<1>1. /\ DOMAIN Becomes(f) = DOMAIN frames /\ Becomes(f)[Len(frames)] = f /\ Top = frames[Len(frames)]
      /\ \A k \in DOMAIN frames : k # Len(frames) => Becomes(f)[k] = frames[k]
  BY BecomesTyped, TopTyped
<1> DEFINE h == Becomes(f)
<1> HIDE DEF h
<1>2. \A k \in DOMAIN h : /\ k \in DOMAIN frames
                          /\ Merging(h[k]) <=> Merging(frames[k])
                          /\ Merging(frames[k]) => h[k].source = frames[k].source
  BY <1>1 DEF h
<1>3. \A k \in DOMAIN frames : Merging(frames[k]) => k \in DOMAIN h  BY <1>1 DEF h
<1>4. Flagged(visited, h)  BY <1>2, <1>3, StillFlagged
<1> QED  BY <1>4 DEF h

LEMMA GrownSame == \A en : Grown(en, en)
BY DEF Grown

LEMMA UnwrapShapeInOrder ==
    ASSUME TInv, InOrder, NEW s \in Shapes, UnwrapShape(frames, s), Unchanged, ret = None,
           frames = << >> => s = Head(todo),
           frames # << >> => ~Merging(frames[Len(frames)]) /\ Waits(frames[Len(frames)], s)
    PROVE  InOrder'
<1>1. TypeOK /\ frames \in Seq(Record)  BY FramesTyped DEF TInv
<1>2. Now(frames) /\ Flagged(visited, frames) /\ Kept(given, entries, result)
  BY InOrderSays, NoneIsNoResult
<1>3. /\ given' = given /\ todo' = todo /\ result' = result /\ parents' = parents /\ map' = map
      /\ entries' = entries /\ visited' = visited
  BY DEF Unchanged, UnwrapShape, heap
<1>4. CASE frames' = frames /\ unwrapped' = unwrapped /\ (ret' = Error \/ ret' = Ok(s))
  <2>1. Answered(given', parents', map', entries', frames', todo', ret')
    <3>1. ret'.ok => ret'.shape = s  BY <1>4 DEF Ok, Error
    <3> QED  BY <1>3, <1>4, <3>1 DEF Answered, Waits
  <2> QED  BY <1>2, <1>3, <1>4, <2>1 DEF InOrder, Now
<1>5. CASE ~(frames' = frames /\ unwrapped' = unwrapped /\ (ret' = Error \/ ret' = Ok(s)))
  <2> DEFINE f == [ shape |-> s, at |-> IF given.alias[s] = None THEN "parents" ELSE "alias",
                    next |-> 1, source |-> None ]
  <2>1. /\ ~unwrapped[s] /\ unwrapped' = [unwrapped EXCEPT ![s] = TRUE]
        /\ frames' = Append(frames, f) /\ ret' = None
    BY <1>5 DEF UnwrapShape, heap
  <2>2. f \in Record /\ f.shape = s /\ ~Merging(f)  BY DEF Record, Merging
  <2> HIDE DEF f
  <2>3. unwrapped'[s] /\ \A x \in Shapes : unwrapped[x] => unwrapped'[x]  BY <1>1, <2>1, HeapTyped
  <2>4. Ordered(given, parents, map, entries, unwrapped', Append(frames, f), todo)
    BY <1>1, <1>2, <2>1, <2>2, <2>3, PushOrdered DEF Now, Waits
  <2>5. Flagged(visited, Append(frames, f))  BY <1>1, <1>2, <2>2, PushUnflagged
  <2>6. Answered(given', parents', map', entries', frames', todo', ret')  BY <2>1 DEF Answered
  <2> QED  BY <1>2, <1>3, <2>1, <2>4, <2>5, <2>6 DEF InOrder
<1> QED  BY <1>4, <1>5

LEMMA InheritInOrder ==
    ASSUME TInv, ~UsesAny, NEW fs \in Seq(Record), NEW t \in Shapes, NEW s \in Shapes, Inherit(fs, t, s),
           Unchanged, fs # << >>, Now(fs), Flagged(visited, fs), Kept(given, entries, result),
           Waits(fs[Len(fs)], t), visited[s] => Waits(fs[Len(fs)], s)
    PROVE  InOrder'
<1>1. TypeOK  BY DEF TInv
<1>2. /\ given' = given /\ todo' = todo /\ result' = result /\ parents' = parents
      /\ entries' = entries /\ unwrapped' = unwrapped
  BY DEF Unchanged, Inherit, heap
<1>3. given.kind[s] # "any"  BY DEF UsesAny
<1>4. CASE visited[s]
  <2>1. ret' = Ok(s) /\ frames' = fs /\ map' = map /\ visited' = visited  BY <1>4 DEF Inherit, heap
  <2>2. Answered(given', parents', map', entries', frames', todo', ret')
    BY <1>2, <1>4, <2>1 DEF Answered, Waits, Ok
  <2> QED  BY <1>2, <2>1, <2>2 DEF InOrder, Now
<1>5. CASE ~visited[s] /\ given.kind[s] # given.kind[t]
  <2>1. ret' = Error /\ frames' = fs /\ map' = map  BY <1>3, <1>5 DEF Inherit
  <2>2. Answered(given', parents', map', entries', frames', todo', ret')
    BY <2>1 DEF Answered, Error
  <2> QED  BY <1>2, <2>1, <2>2 DEF InOrder, Now
<1>6. CASE ~visited[s] /\ given.kind[s] = given.kind[t]
  <2> DEFINE f == [ shape |-> t, at |-> IF map[t] = None THEN "merged" ELSE "merge",
                    next |-> 1, source |-> s ]
  <2>1. /\ visited' = [visited EXCEPT ![s] = TRUE] /\ frames' = Append(fs, f) /\ ret' = None
        /\ map' = [map EXCEPT ![t] = IF @ = None THEN map[s] ELSE @]
    BY <1>3, <1>6 DEF Inherit
  <2>2. f \in Record /\ f.shape = t /\ f.source = s /\ Merging(f)  BY DEF Record, Merging
  <2> HIDE DEF f
  <2>3. \A x \in Shapes : map[x] \in Shapes => map'[x] = map[x]
    BY <1>1, <2>1, HeapTyped, ConstantsAssumption
  <2>4. \A k \in DOMAIN fs : Undisturbed(parents, map, parents, map', fs[k])
    <3>1. \A k \in DOMAIN fs : fs[k].shape \in Shapes
      <4>1. \A k \in DOMAIN fs : fs[k] \in Record  OBVIOUS
      <4> QED  BY <4>1, RecordTyped
    <3> QED  BY <2>3, <3>1 DEF Undisturbed
  <2>5. Ordered(given, parents, map', entries, unwrapped, fs, todo)
    <3>1. Trimmed(fs, fs)
      <4>1. Len(fs) \in Nat  OBVIOUS
      <4> QED  BY <4>1 DEF Trimmed
    <3>2. Grown(entries, entries)  BY GrownSame
    <3>3. Ordered(given, parents, map, entries, unwrapped, fs, todo)  BY DEF Now
    <3>4. \A k \in DOMAIN fs : k < Len(fs) => Undisturbed(parents, map, parents, map', fs[k])  BY <2>4
    <3> QED  BY <3>1, <3>2, <3>3, <3>4, StillOrdered
  <2>6. Awaits(given, parents, map', entries, fs[Len(fs)], t)
    <3>1. Len(fs) \in DOMAIN fs  OBVIOUS
    <3>2. Undisturbed(parents, map, parents, map', fs[Len(fs)])  BY <2>4, <3>1
    <3> QED  BY <3>2, GrownSame, AwaitsKept DEF Waits
  <2>7. Ordered(given, parents, map', entries, unwrapped, Append(fs, f), todo)
    BY <2>2, <2>5, <2>6, PushOrdered
  <2>8. Flagged(visited', Append(fs, f))
    <3>1. visited \in [Shapes -> BOOLEAN]  BY <1>1, HeapTyped
    <3> QED  BY <1>6, <2>1, <2>2, <3>1, PushFlagged
  <2>9. Answered(given', parents', map', entries', frames', todo', ret')  BY <2>1 DEF Answered
  <2> QED  BY <1>2, <2>1, <2>7, <2>8, <2>9 DEF InOrder
<1> QED  BY <1>4, <1>5, <1>6

LEMMA MovesInOrder ==
    ASSUME TInv, InOrder, frames # << >>, NEW f \in Record, f.shape = S, Merging(f) <=> Merging(Top),
           Merging(Top) => f.source = Top.source, frames' = Becomes(f), ret' = None, ret # Error, Unchanged,
           UNCHANGED << map, unwrapped, visited >>, Grown(entries, entries'),
           \A x \in Shapes : x # S => parents'[x] = parents[x],
           Merging(Top) => parents' = parents
    PROVE  InOrder'
<1>1. TypeOK /\ frames \in Seq(Record) /\ Becomes(f) \in Seq(Record)  BY FramesTyped, BecomesTyped DEF TInv
<1>2. Now(frames) /\ Flagged(visited, frames) /\ Kept(given, entries, result)  BY InOrderSays
<1>3. given' = given /\ todo' = todo /\ result' = result  BY DEF Unchanged
<1>4. \A k \in DOMAIN frames : k < Len(frames) => Undisturbed(parents, map, parents', map, frames[k])
  BY <1>1, <1>2, OthersUndisturbed
<1>5. Ordered(given, parents', map, entries', unwrapped, Becomes(f), todo)
  <2>1. Trimmed(frames, Becomes(f))  BY <1>1, BecomesTrimmed
  <2>2. Ordered(given, parents, map, entries, unwrapped, frames, todo)  BY <1>2 DEF Now
  <2> QED  BY <1>1, <1>4, <2>1, <2>2, StillOrdered
<1>6. Flagged(visited, Becomes(f))  BY <1>1, <1>2, BecomesFlagged
<1>7. Answered(given', parents', map', entries', frames', todo', ret')  BY DEF Answered
<1>8. Kept(given, entries', result)  BY <1>1, <1>2, FramesTyped, StillKept
<1> QED  BY <1>3, <1>5, <1>6, <1>7, <1>8 DEF InOrder

LEMMA LeavesInOrder ==
    ASSUME TInv, InOrder, frames # << >>, NEW r, Returns(r), Unchanged, r.ok => r.shape = S,
           UNCHANGED << entries, unwrapped >>,
           \A x \in Shapes : x # S => parents'[x] = parents[x] /\ map'[x] = map[x],
           Merging(Top) => parents' = parents /\ map' = map,
           r # Error => Flagged(visited', Below)
    PROVE  InOrder'
<1>1. TypeOK /\ frames \in Seq(Record)  BY FramesTyped DEF TInv
<1>2. Now(frames) /\ Kept(given, entries, result)  BY InOrderSays
<1>3. given' = given /\ todo' = todo /\ result' = result /\ frames' = Below /\ ret' = r
  BY DEF Unchanged, Returns
<1>4. \A k \in DOMAIN frames : k < Len(frames) => Undisturbed(parents, map, parents', map', frames[k])
  BY <1>1, <1>2, OthersUndisturbed
<1>5. Ordered(given, parents, map, entries, unwrapped, frames, todo)  BY <1>2 DEF Now
<1>6. Ordered(given, parents', map', entries, unwrapped, Below, todo)
  <2>1. Trimmed(frames, Below) /\ Below \in Seq(Record)  BY <1>1, BelowTrimmed, TopTyped
  <2> QED  BY <1>1, <1>4, <1>5, <2>1, GrownSame, StillOrdered
<1>7. Answered(given, parents', map', entries, Below, todo, r)
  <2>1. IF Len(frames) = 1 THEN frames[Len(frames)].shape = Head(todo)
        ELSE Awaits(given, parents', map', entries, frames[Len(frames) - 1], frames[Len(frames)].shape)
    BY <1>1, <1>4, <1>5, GrownSame, BelowAwaits
  <2>2. /\ Top = frames[Len(frames)] /\ Len(Below) = Len(frames) - 1 /\ DOMAIN Below = 1..Len(frames) - 1
        /\ Len(frames) \in Nat \ {0} /\ Below \in Seq(Record)
        /\ \A k \in DOMAIN Below : Below[k] = frames[k]
    BY <1>1, TopTyped, FramesTyped
  <2>3. CASE Len(frames) = 1
    <3>1. Below = << >>  BY <2>2, <2>3
    <3> QED  BY <2>1, <2>2, <2>3, <3>1 DEF Answered, S
  <2>4. CASE Len(frames) # 1
    <3>1. Below # << >> /\ Len(Below) \in DOMAIN Below /\ Below[Len(Below)] = frames[Len(frames) - 1]
      BY <2>2, <2>4
    <3> QED  BY <2>1, <2>2, <2>4, <3>1 DEF Answered, S
  <2> QED  BY <2>3, <2>4
<1> QED  BY <1>2, <1>3, <1>6, <1>7 DEF InOrder

-----------------------------------------------------------------------------
(* One lemma per action *)

\* What holds when the top record gets a result.
LEMMA GetsSays ==
    ASSUME TInv, InOrder, frames # << >>, ret # None, ret.ok
    PROVE  /\ TypeOK /\ Now(frames) /\ Flagged(visited, frames) /\ Kept(given, entries, result)
           /\ ret # Error /\ Waits(Top, ret.shape) /\ ret.shape \in Shapes
           /\ Top \in Record /\ S \in Shapes /\ Top.shape = S /\ Top = frames[Len(frames)]
           /\ Top.next \in Nat \ {0} /\ Sound(given, Top)
<1>1. TypeOK /\ ret.shape \in Shapes /\ Sound(given, Top)  BY TopSound
<1>2. ret # Error  BY <1>1, ReturnsTyped
<1> QED  BY <1>1, <1>2, InOrderSays, TopTyped DEF S

\* What holds when the top record goes on.
LEMMA CallsSays ==
    ASSUME TInv, InOrder, frames # << >>, ret = None
    PROVE  /\ TypeOK /\ Now(frames) /\ Flagged(visited, frames) /\ Kept(given, entries, result)
           /\ ret # Error
           /\ Top \in Record /\ S \in Shapes /\ Top.shape = S /\ Top = frames[Len(frames)]
           /\ Top.next \in Nat \ {0} /\ Sound(given, Top)
<1>1. TypeOK /\ Sound(given, Top)  BY TopSound
<1>2. ret # Error  BY NoneIsNoResult
<1> QED  BY <1>1, <1>2, InOrderSays, TopTyped DEF S

LEMMA InitInOrder == Init => InOrder
<1> SUFFICES ASSUME Init PROVE InOrder  OBVIOUS
<1>1. frames = << >> /\ DOMAIN frames = {} /\ ret = None  BY DEF Init
<1>2. Linked(given, parents, map, entries, frames) /\ Layered(frames) /\ Rooted(frames, todo)
      /\ Once(unwrapped, frames)
  BY <1>1 DEF Linked, Layered, Rooted, Once
<1>3. Answered(given, parents, map, entries, frames, todo, ret)  BY <1>1 DEF Answered
<1>4. Flagged(visited, frames)
  <2>1. \A s \in Shapes : ~visited[s]  BY DEF Init
  <2> QED  BY <1>1, <2>1 DEF Flagged
<1>5. Kept(given, entries, result)  BY DEF Init, Kept
<1> QED  BY <1>2, <1>3, <1>4, <1>5 DEF InOrder, Ordered

LEMMA CallRootInOrder == TInv /\ InOrder /\ CallRoot => InOrder'
<1> SUFFICES ASSUME TInv, InOrder, CallRoot PROVE InOrder'  OBVIOUS
<1>1. frames = << >> /\ ret = None /\ todo # << >> /\ UnwrapShape(frames, Head(todo)) /\ Unchanged
  BY DEF CallRoot
<1>2. todo \in Seq(Shapes)  BY DEF TInv, TypeOK
<1>3. Head(todo) \in Shapes  BY <1>1, <1>2
<1> QED  BY <1>1, <1>3, UnwrapShapeInOrder

\* The declared type is replaced by itself, or the error is collected.
LEMMA RootReturnsInOrder == TInv /\ InOrder /\ RootReturns /\ ~failed' => InOrder'
<1> SUFFICES ASSUME TInv, InOrder, RootReturns, ~failed' PROVE InOrder'  OBVIOUS
<1>1. /\ frames = << >> /\ ret # None /\ ret' = None /\ frames' = << >> /\ given' = given
      /\ parents' = parents /\ map' = map /\ entries' = entries /\ visited' = visited /\ ret.ok
      /\ unwrapped' = unwrapped /\ result' = [result EXCEPT ![Head(todo)] = ret.shape]
  BY DEF RootReturns, heap
<1>2. ret.shape = Head(todo) /\ Flagged(visited, frames) /\ Kept(given, entries, result)
  <2>1. ret # Error  BY <1>1, ReturnsTyped DEF TInv
  <2> QED  BY <1>1, <2>1, InOrderSays
<1>3. DOMAIN frames' = {}  BY <1>1
<1>4. Linked(given, parents, map, entries, frames') /\ Layered(frames') /\ Rooted(frames', todo')
      /\ Once(unwrapped, frames')
  BY <1>1, <1>3 DEF Linked, Layered, Rooted, Once
<1>5. Answered(given, parents, map, entries, frames', todo', ret')  BY <1>1 DEF Answered
<1>6. result' = result
  <2>1. result \in [Shapes -> Shapes]  BY DEF TInv, TypeOK
  <2>2. \A s \in Shapes : result[s] = s  BY <1>2 DEF Kept
  <2> QED  BY <1>1, <1>2, <2>1, <2>2
<1> QED  BY <1>1, <1>2, <1>4, <1>5, <1>6 DEF InOrder, Ordered

LEMMA CallAliasInOrder == TInv /\ InOrder /\ CallAlias => InOrder'
<1> SUFFICES ASSUME TInv, InOrder, CallAlias PROVE InOrder'  OBVIOUS
<1>1. frames # << >> /\ ret = None /\ Top.at = "alias" /\ UnwrapShape(frames, given.alias[S]) /\ Unchanged
  BY DEF CallAlias, Calls, At
<1>2. given.alias[S] \in Shapes /\ Top = frames[Len(frames)]  BY <1>1, CallsSays DEF Sound
<1>3. ~Merging(Top) /\ Waits(Top, given.alias[S])  BY <1>1 DEF Merging, Waits, Awaits, S
<1> QED  BY <1>1, <1>2, <1>3, UnwrapShapeInOrder

LEMMA AliasToInOrder == TInv /\ InOrder /\ AliasTo => InOrder'
<1> SUFFICES ASSUME TInv, InOrder, AliasTo PROVE InOrder'  OBVIOUS
<1>1. /\ frames # << >> /\ ret # None /\ ret.ok /\ Top.at = "alias" /\ Unchanged
      /\ UNCHANGED << entries, unwrapped, visited >>
  BY DEF AliasTo, Gets, At
<1>2. TypeOK /\ Flagged(visited, frames) /\ S \in Shapes  BY <1>1, GetsSays
<1>3. ~Merging(Top)  BY <1>1 DEF Merging
<1>4. Flagged(visited', Below)
  <2>1. \A k \in DOMAIN Below : Below[k] = frames[k] /\ k \in DOMAIN frames  BY <1>1, <1>2, TopTyped
  <2>2. \A k \in DOMAIN frames : Merging(frames[k]) => k \in DOMAIN Below
    <3>1. /\ DOMAIN frames = 1..Len(frames) /\ Len(frames) \in Nat /\ DOMAIN Below = 1..Len(frames) - 1
          /\ Top = frames[Len(frames)]
      BY <1>1, <1>2, TopTyped, FramesTyped
    <3>2. \A k \in DOMAIN frames : k = Len(frames) \/ k \in DOMAIN Below  BY <3>1
    <3> QED  BY <1>3, <3>1, <3>2
  <2> QED  BY <1>1, <1>2, <2>1, <2>2, StillFlagged
<1>5. CASE given.kind[S] = given.kind[ret.shape]
  <2>1. /\ parents' = [parents EXCEPT ![S] = parents[ret.shape]]
        /\ map' = [map EXCEPT ![S] = map[ret.shape]]
        /\ Returns(Ok(S))
    BY <1>5 DEF AliasTo
  <2>2. \A x \in Shapes : x # S => parents'[x] = parents[x] /\ map'[x] = map[x]  BY <1>2, <2>1, HeapTyped
  <2>3. Ok(S).shape = S  BY DEF Ok
  <2> QED  BY <1>1, <1>3, <1>4, <2>1, <2>2, <2>3, LeavesInOrder
<1>6. CASE given.kind[S] # given.kind[ret.shape]
  <2>1. Returns(Error) /\ parents' = parents /\ map' = map  BY <1>6 DEF AliasTo
  <2>2. ~Error.ok  BY DEF Error
  <2> QED  BY <1>1, <1>3, <1>4, <2>1, <2>2, LeavesInOrder
<1> QED  BY <1>5, <1>6

LEMMA CallParentInOrder == TInv /\ InOrder /\ CallParent => InOrder'
<1> SUFFICES ASSUME TInv, InOrder, CallParent PROVE InOrder'  OBVIOUS
<1>1. /\ frames # << >> /\ ret = None /\ Top.at = "parents" /\ Top.next <= Len(parents[S])
      /\ UnwrapShape(frames, parents[S][Top.next]) /\ Unchanged
  BY DEF CallParent, Calls, At
<1>2. TypeOK /\ S \in Shapes /\ Top.next \in Nat \ {0} /\ Top = frames[Len(frames)] /\ Top.shape = S
  BY <1>1, CallsSays
<1>3. parents[S] \in Seq(Shapes)  BY <1>2, HeapTyped
<1>4. Top.next \in DOMAIN parents[S] /\ parents[S][Top.next] \in Shapes  BY <1>1, <1>2, <1>3
<1>5. ~Merging(Top) /\ Waits(Top, parents[S][Top.next])  BY <1>1, <1>2, <1>4 DEF Merging, Waits, Awaits
<1> QED  BY <1>1, <1>2, <1>4, <1>5, UnwrapShapeInOrder

LEMMA FirstParentInOrder == TInv /\ InOrder /\ FirstParent => InOrder'
<1> SUFFICES ASSUME TInv, InOrder, FirstParent PROVE InOrder'  OBVIOUS
<1> DEFINE f == [Top EXCEPT !.next = 2, !.source = ret.shape]
<1>1. /\ frames # << >> /\ ret # None /\ ret.ok /\ Top.at = "parents" /\ Unchanged
      /\ UNCHANGED << map, unwrapped, visited >> /\ entries' = entries /\ ret' = None
      /\ frames' = Becomes(f) /\ parents' = [parents EXCEPT ![S][1] = ret.shape]
  BY DEF FirstParent, Gets, At
<1>2. TypeOK /\ ret.shape \in Shapes /\ Top \in Record /\ ret # Error /\ Top.shape = S  BY <1>1, GetsSays
<1>3. f \in Record /\ f.at = "parents" /\ f.shape = S
  <2>1. f.shape = Top.shape  BY <1>2 DEF Record
  <2>2. 2 \in Nat \ {0} /\ ret.shape \in Shapes \cup {None}  BY <1>2
  <2>3. f \in Record /\ f.at = "parents"  BY <1>1, <1>2, <2>2 DEF Record
  <2> QED  BY <1>2, <2>1, <2>3
<1> HIDE DEF f
<1>4. ~Merging(Top) /\ ~Merging(f)  BY <1>1, <1>3 DEF Merging
<1>5. \A x \in Shapes : x # S => parents'[x] = parents[x]  BY <1>1, <1>2, HeapTyped
<1> QED  BY <1>1, <1>2, <1>3, <1>4, <1>5, GrownSame, MovesInOrder

LEMMA ParentJoinedInOrder == TInv /\ InOrder /\ ParentJoined => InOrder'
<1> SUFFICES ASSUME TInv, InOrder, ParentJoined PROVE InOrder'  OBVIOUS
<1> DEFINE f == [Top EXCEPT !.at = "parents", !.next = @ + 1]
<1>1. /\ frames # << >> /\ ret # None /\ ret.ok /\ Top.at = "joined" /\ Unchanged
      /\ UNCHANGED << map, unwrapped, visited >> /\ entries' = entries /\ ret' = None
      /\ frames' = Becomes(f) /\ parents' = [parents EXCEPT ![S][Top.next] = ret.shape]
  BY DEF ParentJoined, Gets, At
<1>2. TypeOK /\ Top \in Record /\ ret # Error /\ Top.shape = S /\ Top.next \in Nat \ {0}  BY <1>1, GetsSays
<1>3. f \in Record /\ f.at = "parents" /\ f.shape = S
  <2>1. f.shape = Top.shape  BY <1>2 DEF Record
  <2>2. Top.next + 1 \in Nat \ {0}  BY <1>2
  <2>3. f \in Record /\ f.at = "parents"  BY <1>2, <2>2 DEF Record
  <2> QED  BY <1>2, <2>1, <2>3
<1> HIDE DEF f
<1>4. ~Merging(Top) /\ ~Merging(f)  BY <1>1, <1>3 DEF Merging
<1>5. \A x \in Shapes : x # S => parents'[x] = parents[x]  BY <1>1, <1>2, HeapTyped
<1> QED  BY <1>1, <1>2, <1>3, <1>4, <1>5, GrownSame, MovesInOrder

LEMMA ParentsDoneInOrder == TInv /\ InOrder /\ ParentsDone => InOrder'
<1> SUFFICES ASSUME TInv, InOrder, ParentsDone PROVE InOrder'  OBVIOUS
<1> DEFINE f == [Top EXCEPT !.at = "props", !.next = 1]
<1>1. /\ frames # << >> /\ ret = None /\ ret' = None /\ Top.at = "parents" /\ Unchanged
      /\ UNCHANGED << map, unwrapped, visited >> /\ entries' = entries /\ parents' = parents
      /\ frames' = Becomes(f)
  BY DEF ParentsDone, Calls, At, heap
<1>2. TypeOK /\ Top \in Record /\ ret # Error /\ Top.shape = S  BY <1>1, CallsSays
<1>3. f \in Record /\ f.at = "props" /\ f.shape = S
  <2>1. f.shape = Top.shape  BY <1>2 DEF Record
  <2>2. 1 \in Nat \ {0}  OBVIOUS
  <2>3. f \in Record /\ f.at = "props"  BY <1>2, <2>2 DEF Record
  <2> QED  BY <1>2, <2>1, <2>3
<1> HIDE DEF f
<1>4. ~Merging(Top) /\ ~Merging(f)  BY <1>1, <1>3 DEF Merging
<1> QED  BY <1>1, <1>2, <1>3, <1>4, GrownSame, MovesInOrder

LEMMA CallPropertyInOrder == TInv /\ InOrder /\ CallProperty => InOrder'
<1> SUFFICES ASSUME TInv, InOrder, CallProperty PROVE InOrder'  OBVIOUS
<1>1. /\ frames # << >> /\ ret = None /\ Top.at = "props" /\ Top.next <= Len(PropsOf(S))
      /\ UnwrapShape(frames, PropsOf(S)[Top.next].base) /\ Unchanged
  BY DEF CallProperty, Calls, At
<1>2. TypeOK /\ S \in Shapes /\ Top.next \in Nat \ {0} /\ Top = frames[Len(frames)] /\ Top.shape = S
  BY <1>1, CallsSays
<1>3. Top.next \in DOMAIN PropsOf(S)  BY <1>1, <1>2, PropsTyped
<1>4. PropsOf(S)[Top.next].base \in Shapes /\ map[S] \in Shapes /\ PropsOf(S) = entries[map[S]]
  BY <1>2, <1>3, PropsTyped
<1>5. ~Merging(Top) /\ Waits(Top, PropsOf(S)[Top.next].base)
  BY <1>1, <1>2, <1>3, <1>4 DEF Merging, Waits, Awaits
<1> QED  BY <1>1, <1>2, <1>4, <1>5, UnwrapShapeInOrder

\* The property's shape is put back where it was taken.
LEMMA PutBack ==
    ASSUME TInv, InOrder, PropertyReturns
    PROVE  entries' = entries
<1>1. /\ frames # << >> /\ ret # None /\ ret.ok /\ Top.at = "props"
      /\ entries' = [entries EXCEPT ![map[S]][Top.next].base = ret.shape]
  BY DEF PropertyReturns, Gets, At
<1>2. TypeOK /\ Top.shape = S /\ Waits(Top, ret.shape)  BY <1>1, GetsSays
<1>3. /\ map[S] \in Shapes /\ Top.next \in DOMAIN entries[map[S]]
      /\ ret.shape = entries[map[S]][Top.next].base
  BY <1>1, <1>2 DEF Waits, Awaits
<1>4. entries[map[S]] \in Seq(Property) /\ entries \in [Shapes -> Seq(Property)]  BY <1>2, <1>3, HeapTyped
<1>5. entries[map[S]][Top.next] \in Property  BY <1>3, <1>4
<1>6. [entries[map[S]][Top.next] EXCEPT !.base = ret.shape] = entries[map[S]][Top.next]
  BY <1>3, <1>5 DEF Property
<1>7. [entries[map[S]] EXCEPT ![Top.next] = entries[map[S]][Top.next]] = entries[map[S]]
  BY SMTT(40), <1>3, <1>4
<1>8. [entries[map[S]] EXCEPT ![Top.next].base = ret.shape] = entries[map[S]]
  BY <1>6, <1>7
<1> QED  BY <1>1, <1>3, <1>4, <1>8

LEMMA PropertyReturnsInOrder == TInv /\ InOrder /\ PropertyReturns => InOrder'
<1> SUFFICES ASSUME TInv, InOrder, PropertyReturns PROVE InOrder'  OBVIOUS
<1> DEFINE f == [Top EXCEPT !.next = @ + 1]
<1>1. /\ frames # << >> /\ ret # None /\ ret.ok /\ Top.at = "props" /\ Unchanged
      /\ UNCHANGED << map, unwrapped, visited >> /\ parents' = parents /\ ret' = None
      /\ frames' = Becomes(f) /\ entries' = [entries EXCEPT ![map[S]][Top.next].base = ret.shape]
  BY DEF PropertyReturns, Gets, At
<1>2. /\ TypeOK /\ Top \in Record /\ ret # Error /\ Top.shape = S /\ Top.next \in Nat \ {0}
      /\ Waits(Top, ret.shape)
  BY <1>1, GetsSays
<1>3. f \in Record /\ f.at = "props" /\ f.shape = S
  <2>1. Top.next + 1 \in Nat \ {0}  BY <1>2
  <2> QED  BY <1>1, <1>2, <2>1, MovedOn
<1> HIDE DEF f
<1>4. ~Merging(Top) /\ ~Merging(f)  BY <1>1, <1>3 DEF Merging
<1>5. entries' = entries  BY PutBack
<1> QED  BY <1>1, <1>2, <1>3, <1>4, <1>5, GrownSame, MovesInOrder

LEMMA BecomesNow ==
    ASSUME TypeOK, frames # << >>, NEW f \in Record, f.shape = S, Merging(f) <=> Merging(Top), Now(frames)
    PROVE  Now(Becomes(f))
<1>1. frames \in Seq(Record) /\ Becomes(f) \in Seq(Record)  BY FramesTyped, BecomesTyped
<1>2. Trimmed(frames, Becomes(f))  BY BecomesTrimmed
<1>3. \A k \in DOMAIN frames : k < Len(frames) => Undisturbed(parents, map, parents, map, frames[k])
  BY DEF Undisturbed
<1>4. Ordered(given, parents, map, entries, unwrapped, frames, todo)  BY DEF Now
<1>5. Ordered(given, parents, map, entries, unwrapped, Becomes(f), todo)
  BY <1>1, <1>2, <1>3, <1>4, GrownSame, StillOrdered
<1> QED  BY <1>5 DEF Now

\* UnwrapShape calls Inherit: no flag is set, so the source is merged.
LEMMA SourceInOrder ==
    ASSUME TInv, InOrder, ~UsesAny, frames # << >>, ret # Error, ~Merging(Top), NEW f \in Record, f.shape = S,
           ~Merging(f), NEW t \in Shapes, NEW s \in Shapes, Inherit(Becomes(f), t, s), Unchanged, Waits(f, t)
    PROVE  InOrder'
<1>1. TypeOK /\ frames \in Seq(Record) /\ Top = frames[Len(frames)]  BY TopTyped, FramesTyped DEF TInv
<1>2. Now(frames) /\ Flagged(visited, frames) /\ Kept(given, entries, result)  BY InOrderSays
<1>3. Now(Becomes(f))  BY <1>1, <1>2, BecomesNow
<1>4. Flagged(visited, Becomes(f))  BY <1>1, <1>2, BecomesFlagged
<1>5. ~visited[s]
  <2>1. Layered(frames)  BY <1>2 DEF Now, Ordered
  <2> QED  BY <1>1, <1>2, <2>1, NoFlag
<1>6. /\ Becomes(f) \in Seq(Record) /\ Becomes(f) # << >> /\ Len(Becomes(f)) = Len(frames)
      /\ Becomes(f)[Len(frames)] = f
  BY <1>1, BecomesTyped
<1>7. Waits(Becomes(f)[Len(Becomes(f))], t)  BY <1>6
<1> QED  BY <1>2, <1>3, <1>4, <1>5, <1>6, <1>7, InheritInOrder

LEMMA OtherParentInOrder == TInv /\ InOrder /\ ~UsesAny /\ OtherParent => InOrder'
<1> SUFFICES ASSUME TInv, InOrder, ~UsesAny, OtherParent PROVE InOrder'  OBVIOUS
<1> DEFINE f == [Top EXCEPT !.at = "joined"]
<1>1. /\ frames # << >> /\ ret # None /\ ret.ok /\ Top.at = "parents" /\ Top.next > 1 /\ Unchanged
      /\ Inherit(Becomes(f), Top.source, ret.shape)
  BY DEF OtherParent, Gets, At
<1>2. ret.shape \in Shapes /\ Top \in Record /\ Top.source \in Shapes /\ ret # Error /\ Top.shape = S
  BY <1>1, GetsSays DEF Sound
<1>3. f \in Record /\ f.at = "joined" /\ f.source = Top.source /\ f.shape = S
  <2>1. "joined" \in {"alias", "parents", "joined", "props", "source", "merge", "merged"}  OBVIOUS
  <2> QED  BY <1>2, <2>1, MovedTo
<1> HIDE DEF f
<1>4. ~Merging(Top) /\ ~Merging(f) /\ Waits(f, Top.source)  BY <1>1, <1>3 DEF Merging, Waits, Awaits
<1> QED  BY <1>1, <1>2, <1>3, <1>4, SourceInOrder

\* A record of UnwrapShape returns its own shape: the flags stay.
LEMMA ShapeReturnsInOrder ==
    ASSUME TInv, InOrder, frames # << >>, ret # Error, ~Merging(Top), NEW r, Returns(r), r.ok => r.shape = S,
           UNCHANGED << parents, map, entries, facets, unwrapped, visited >>, Unchanged
    PROVE  InOrder'
<1>1. TypeOK /\ Flagged(visited, frames)  BY InOrderSays DEF TInv
<1>2. /\ DOMAIN frames = 1..Len(frames) /\ Len(frames) \in Nat /\ DOMAIN Below = 1..Len(frames) - 1
      /\ Top = frames[Len(frames)] /\ \A k \in DOMAIN Below : Below[k] = frames[k] /\ k \in DOMAIN frames
  BY <1>1, TopTyped, FramesTyped
<1>3. \A k \in DOMAIN frames : k = Len(frames) \/ k \in DOMAIN Below  BY <1>2
<1>4. \A k \in DOMAIN frames : Merging(frames[k]) => k \in DOMAIN Below  BY <1>2, <1>3
<1>5. Flagged(visited, Below)  BY <1>1, <1>2, <1>4, StillFlagged
<1> QED  BY <1>5, LeavesInOrder

LEMMA MergeSourceInOrder == TInv /\ InOrder /\ ~UsesAny /\ MergeSource => InOrder'
<1> SUFFICES ASSUME TInv, InOrder, ~UsesAny, MergeSource PROVE InOrder'  OBVIOUS
<1>1. frames # << >> /\ ret = None /\ Top.at = "props" /\ Unchanged  BY DEF MergeSource, Calls, At
<1>2. S \in Shapes /\ Top \in Record /\ Top.source \in Shapes \cup {None} /\ ret # Error /\ Top.shape = S
  BY <1>1, CallsSays, RecordTyped
<1>3. ~Merging(Top)  BY <1>1 DEF Merging
<1>4. CASE Top.source = None
  <2>1. Returns(Ok(S)) /\ UNCHANGED << parents, map, entries, facets, unwrapped, visited >>
    BY <1>4 DEF MergeSource, heap
  <2>2. Ok(S).shape = S  BY DEF Ok
  <2> QED  BY <1>1, <1>2, <1>3, <2>1, <2>2, ShapeReturnsInOrder
<1>5. CASE Top.source # None
  <2> DEFINE f == [Top EXCEPT !.at = "source"]
  <2>1. Inherit(Becomes(f), S, Top.source) /\ Top.source \in Shapes  BY <1>2, <1>5 DEF MergeSource
  <2>2. f \in Record /\ f.at = "source" /\ f.shape = S
    <3>1. "source" \in {"alias", "parents", "joined", "props", "source", "merge", "merged"}  OBVIOUS
    <3> QED  BY <1>2, <3>1, MovedTo
  <2> HIDE DEF f
  <2>3. ~Merging(f) /\ Waits(f, S)  BY <2>2 DEF Merging, Waits, Awaits
  <2> QED  BY <1>1, <1>2, <1>3, <2>1, <2>2, <2>3, SourceInOrder
<1> QED  BY <1>4, <1>5

LEMMA SourceMergedInOrder == TInv /\ InOrder /\ SourceMerged => InOrder'
<1> SUFFICES ASSUME TInv, InOrder, SourceMerged PROVE InOrder'  OBVIOUS
<1>1. /\ frames # << >> /\ ret # None /\ ret.ok /\ Unchanged /\ Returns(ret) /\ Top.at = "source"
      /\ UNCHANGED << parents, map, entries, facets, unwrapped, visited >>
  BY DEF SourceMerged, Gets, At, heap
<1>2. Waits(Top, ret.shape) /\ ret # Error /\ Top.shape = S  BY <1>1, GetsSays
<1>3. ~Merging(Top) /\ ret.shape = S  BY <1>1, <1>2 DEF Merging, Waits, Awaits
<1> QED  BY <1>1, <1>2, <1>3, ShapeReturnsInOrder

\* A property is added behind those the map has, or merged.
LEMMA MergePropertyInOrder == TInv /\ InOrder /\ ~UsesAny /\ MergeProperty => InOrder'
<1> SUFFICES ASSUME TInv, InOrder, ~UsesAny, MergeProperty PROVE InOrder'  OBVIOUS
<1> DEFINE theirs == PropsOf(Top.source)[Top.next]
           Ours   == {i \in DOMAIN PropsOf(S) : PropsOf(S)[i].name = theirs.name}
           f      == [Top EXCEPT !.next = @ + 1]
<1>1. /\ frames # << >> /\ ret = None /\ Top.at = "merge" /\ Unchanged
      /\ Top.next <= Len(PropsOf(Top.source))
  BY DEF MergeProperty, Calls, At
<1>2. /\ TypeOK /\ S \in Shapes /\ Top \in Record /\ Top.source \in Shapes /\ ret # Error
      /\ Top.next \in Nat \ {0} /\ map[S] \in Shapes \cup {None} /\ Top.shape = S /\ frames \in Seq(Record)
      /\ Now(frames) /\ Flagged(visited, frames) /\ Kept(given, entries, result) /\ Top = frames[Len(frames)]
  BY <1>1, CallsSays, HeapTyped, FramesTyped DEF Sound
<1>3. theirs \in Property /\ theirs.base \in Shapes
  <2>1. Top.next \in DOMAIN PropsOf(Top.source)  BY <1>1, <1>2, PropsTyped
  <2> QED  BY <1>2, <2>1, PropsTyped
<1>4. CASE Ours = {}
  <2>1. /\ entries' = [entries EXCEPT ![map[S]] = Append(@, theirs)] /\ frames' = Becomes(f)
        /\ UNCHANGED << map, unwrapped, visited >> /\ parents' = parents /\ ret' = None
    BY <1>1, <1>4 DEF MergeProperty
  <2>2. f \in Record /\ f.at = "merge" /\ f.source = Top.source /\ f.shape = S
    <3>1. Top.next + 1 \in Nat \ {0}  BY <1>2
    <3> QED  BY <1>1, <1>2, <3>1, MovedOn
  <2> HIDE DEF f, Ours, theirs
  <2>3. Merging(f) /\ Merging(Top)  BY <1>1, <2>2 DEF Merging
  <2>4. Grown(entries, entries')
    <3>1. entries \in [Shapes -> Seq(Property)]  BY <1>2, HeapTyped
    <3>2. \A x \in Shapes : entries'[x] = IF x = map[S] THEN Append(entries[x], theirs) ELSE entries[x]
      BY <2>1, <3>1
    <3>3. ASSUME NEW x \in Shapes, NEW k \in DOMAIN entries[x]
          PROVE  k \in DOMAIN entries'[x] /\ entries'[x][k] = entries[x][k]
      <4>1. entries[x] \in Seq(Property)  BY <3>1
      <4> HIDE DEF Property
      <4>2. k \in DOMAIN Append(entries[x], theirs) /\ Append(entries[x], theirs)[k] = entries[x][k]
        BY <1>3, <4>1
      <4> QED  BY <3>2, <4>2
    <3> QED  BY <3>3 DEF Grown
  <2> QED  BY <1>1, <1>2, <2>1, <2>2, <2>3, <2>4, MovesInOrder
<1>5. CASE Ours # {}
  <2>1. PICK i \in Ours : Inherit(frames, PropsOf(S)[i].base, theirs.base)  BY <1>5 DEF MergeProperty
  <2>2. PropsOf(S)[i].base \in Shapes  BY <1>2, <2>1, PropsTyped
  <2> HIDE DEF f, Ours, theirs
  <2>3. \A x : Waits(frames[Len(frames)], x)  BY <1>1, <1>2 DEF Waits, Awaits
  <2> QED  BY <1>1, <1>2, <1>3, <2>1, <2>2, <2>3, InheritInOrder
<1> QED  BY <1>4, <1>5

LEMMA PropertyMergedInOrder == TInv /\ InOrder /\ PropertyMerged => InOrder'
<1> SUFFICES ASSUME TInv, InOrder, PropertyMerged PROVE InOrder'  OBVIOUS
<1> DEFINE f == [Top EXCEPT !.next = @ + 1]
<1>1. /\ frames # << >> /\ ret # None /\ ret.ok /\ Top.at = "merge" /\ Unchanged /\ frames' = Becomes(f)
      /\ UNCHANGED << map, unwrapped, visited >> /\ parents' = parents /\ entries' = entries /\ ret' = None
  BY DEF PropertyMerged, Gets, At, heap
<1>2. Top \in Record /\ Top.next \in Nat \ {0} /\ ret # Error /\ Top.shape = S  BY <1>1, GetsSays
<1>3. f \in Record /\ f.at = "merge" /\ f.source = Top.source /\ f.shape = S
  <2>1. Top.next + 1 \in Nat \ {0}  BY <1>2
  <2> QED  BY <1>1, <1>2, <2>1, MovedOn
<1> HIDE DEF f
<1>4. Merging(f) /\ Merging(Top)  BY <1>1, <1>3 DEF Merging
<1> QED  BY <1>1, <1>2, <1>3, <1>4, GrownSame, MovesInOrder

\* Inherit returns its target with the flag of the source cleared.
LEMMA InheritReturnsInOrder == TInv /\ InOrder /\ InheritReturns => InOrder'
<1> SUFFICES ASSUME TInv, InOrder, InheritReturns PROVE InOrder'  OBVIOUS
<1>1. /\ frames # << >> /\ ret = None /\ Top.at \in {"merge", "merged"} /\ Unchanged /\ Returns(Ok(S))
      /\ visited' = [visited EXCEPT ![Top.source] = FALSE]
      /\ parents' = parents /\ map' = map /\ UNCHANGED << entries, unwrapped >>
  BY DEF InheritReturns, Calls, At
<1>2. TypeOK /\ Top.source \in Shapes /\ Flagged(visited, frames)  BY <1>1, CallsSays DEF Sound
<1>3. Merging(Top)  BY <1>1 DEF Merging
<1>4. Flagged(visited', Below)  BY <1>1, <1>2, <1>3, PopFlagged
<1>5. Ok(S).shape = S  BY DEF Ok
<1> QED  BY <1>1, <1>4, <1>5, LeavesInOrder

LEMMA PassErrorInOrder == TInv /\ InOrder /\ PassError => InOrder'
<1> SUFFICES ASSUME TInv, InOrder, PassError PROVE InOrder'  OBVIOUS
<1>1. /\ frames # << >> /\ Unchanged /\ Returns(Error)
      /\ parents' = parents /\ map' = map /\ UNCHANGED << entries, unwrapped >>
  BY DEF PassError, Returns, heap
<1>2. ~Error.ok  BY DEF Error
<1> QED  BY <1>1, <1>2, LeavesInOrder

LEMMA StutterInOrder == InOrder /\ UNCHANGED vars => InOrder'
BY DEF InOrder, vars

LEMMA InitInv == Init => IInv
BY InitTyped, InitInOrder DEF IInv

LEMMA ModelKept ==
    ASSUME TInv, [Next]_vars
    PROVE  given' = given /\ (failed => failed')
<1>1. CallRoot \/ CallAlias \/ AliasTo \/ CallParent \/ FirstParent \/ OtherParent \/ ParentJoined => Unchanged
  BY DEF CallRoot, CallAlias, AliasTo, CallParent, FirstParent, OtherParent, ParentJoined
<1>2. ParentsDone \/ CallProperty \/ PropertyReturns \/ MergeSource \/ SourceMerged => Unchanged
  BY DEF ParentsDone, CallProperty, PropertyReturns, MergeSource, SourceMerged
<1>3. MergeProperty \/ PropertyMerged \/ InheritReturns \/ PassError => Unchanged
  BY DEF MergeProperty, PropertyMerged, InheritReturns, PassError
<1>4. Unchanged => given' = given /\ (failed => failed')  BY DEF Unchanged
<1>5. RootReturns => given' = given /\ (failed => failed')
  <2>1. failed \in BOOLEAN  BY DEF TInv, TypeOK
  <2> QED  BY <2>1 DEF RootReturns
<1>6. UNCHANGED vars => given' = given /\ (failed => failed')  BY DEF vars
<1> QED  BY <1>1, <1>2, <1>3, <1>4, <1>5, <1>6 DEF Next, Over

LEMMA NextInv == IInv /\ [Next]_vars => IInv'
<1> SUFFICES ASSUME IInv, [Next]_vars, (~UsesAny /\ ~failed)' PROVE InOrder'
  BY NextTyped DEF IInv
<1>1. given' = given /\ (failed => failed')  BY ModelKept DEF IInv
<1>2. ~UsesAny /\ ~failed  BY <1>1 DEF UsesAny
<1>3. TInv /\ InOrder  BY <1>2 DEF IInv
<1>4. \/ CallRoot \/ RootReturns \/ CallAlias \/ AliasTo \/ CallParent \/ FirstParent \/ OtherParent
      \/ ParentJoined \/ ParentsDone \/ CallProperty \/ PropertyReturns \/ MergeSource \/ SourceMerged
      \/ MergeProperty \/ PropertyMerged \/ InheritReturns \/ PassError \/ UNCHANGED vars
  BY DEF Next, Over
<1> QED
  BY <1>2, <1>3, <1>4, CallRootInOrder, RootReturnsInOrder, CallAliasInOrder, AliasToInOrder,
     CallParentInOrder, FirstParentInOrder, OtherParentInOrder, ParentJoinedInOrder,
     ParentsDoneInOrder, CallPropertyInOrder, PropertyReturnsInOrder, MergeSourceInOrder,
     SourceMergedInOrder, MergePropertyInOrder, PropertyMergedInOrder, InheritReturnsInOrder,
     PassErrorInOrder, StutterInOrder

\* Until there is an error UnwrapShape gives back the shape it is given, so no
\* declared type and no property is replaced by another shape.
THEOREM InPlaceCorrect == Spec => []InPlace
<1>1. IInv => InPlace
  <2> SUFFICES ASSUME IInv, ~UsesAny /\ ~failed, NEW s \in Shapes
               PROVE  /\ result[s] = s
                      /\ SubSeq(entries[s], 1, Len(given.props[s])) = given.props[s]
    BY DEF InPlace
  <2>1. TypeOK /\ Kept(given, entries, result)  BY DEF IInv, TInv, InOrder
  <2>2. entries[s] \in Seq(Property) /\ given.props[s] \in Seq(Property)
    BY <2>1, HeapTyped, FramesTyped, ModelTyped
  <2>3. /\ result[s] = s
        /\ \A k \in DOMAIN given.props[s] : k \in DOMAIN entries[s] /\ entries[s][k] = given.props[s][k]
    BY <2>1 DEF Kept
  <2> DEFINE e == entries[s]
             o == given.props[s]
  <2>4. e \in Seq(Property) /\ o \in Seq(Property) /\ \A k \in DOMAIN o : k \in DOMAIN e /\ e[k] = o[k]
    BY <2>2, <2>3
  <2> HIDE DEF e, o
  <2>5. Len(o) \in Nat /\ DOMAIN o = 1..Len(o) /\ DOMAIN e = 1..Len(e) /\ Len(e) \in Nat  BY <2>4
  <2>6. \A k \in 1..Len(o) : e[k] \in Property /\ e[k] = o[k]  BY <2>4, <2>5
  <2>7. /\ SubSeq(e, 1, Len(o)) \in Seq(Property)
        /\ Len(SubSeq(e, 1, Len(o))) = Len(o)
        /\ \A k \in 1..Len(o) : SubSeq(e, 1, Len(o))[k] = e[k]
    <3> HIDE DEF Property
    <3> QED  BY <2>4, <2>5, <2>6
  <2>8. SubSeq(e, 1, Len(o)) = o  BY <2>4, <2>5, <2>6, <2>7
  <2> QED  BY <2>3, <2>8 DEF e, o
<1> QED  BY InitInv, NextInv, <1>1, PTL DEF Spec

\* ShapeVisited is set for the sources of the merges under way and for no other
\* shape, so no merge is skipped because of a flag that an earlier one left.
THEOREM FlagIsSourceCorrect == Spec => []FlagIsSource
<1>1. IInv => FlagIsSource  BY DEF IInv, InOrder, FlagIsSource, Flagged, Merging
<1> QED  BY InitInv, NextInv, <1>1, PTL DEF Spec

-----------------------------------------------------------------------------
(* What narrows what: the relation is closed under what it is made by. *)

LEMMA Least ==
    ASSUME NEW T, T \subseteq Nat, T # {}
    PROVE  \E x \in T : \A y \in T : ~(y < x)
<1> DEFINE W == OpToRel(<, Nat)
<1>1. IsWellFoundedOn(W, Nat)  BY NatLessThanWellFounded
<1>2. \A x, y \in Nat : y < x => << y, x >> \in W  BY DEF OpToRel
<1> HIDE DEF W
<1>3. \E x \in T : \A y \in T : << y, x >> \notin W  BY <1>1, WFMin
<1> QED  BY <1>2, <1>3

Iterates(w, V, first, F, n) ==
    w \in [0..n -> V] /\ w[0] = first /\ \A k \in 1..n : w[k] = F[w[k - 1]]

\* A function can be iterated: for the least n for which it cannot, what there is for
\* n - 1 could be extended.
LEMMA Iterated ==
    ASSUME NEW V, NEW first \in V, NEW F \in [V -> V], NEW n \in Nat
    PROVE  \E w : Iterates(w, V, first, F, n)
<1> DEFINE T == {k \in Nat : ~\E w : Iterates(w, V, first, F, k)}
<1>1. SUFFICES ASSUME T # {} PROVE FALSE  OBVIOUS
<1>2. PICK k \in T : \A j \in T : ~(j < k)
  <2>1. T \subseteq Nat  OBVIOUS
  <2> HIDE DEF T
  <2> QED  BY <1>1, <2>1, Least
<1>3. k \in Nat /\ ~\E w : Iterates(w, V, first, F, k)  OBVIOUS
<1>4. k # 0
  <2> DEFINE w == [j \in 0..0 |-> first]
  <2>1. w \in [0..0 -> V] /\ w[0] = first  OBVIOUS
  <2>2. \A j : j \notin 1..0  OBVIOUS
  <2> HIDE DEF w
  <2>3. Iterates(w, V, first, F, 0)  BY <2>1, <2>2 DEF Iterates
  <2> QED  BY <1>3, <2>3
<1>5. k - 1 \in Nat /\ k - 1 < k  BY <1>3, <1>4
<1>6. PICK w : Iterates(w, V, first, F, k - 1)
  <2>1. k - 1 \notin T  BY <1>2, <1>5
  <2> QED  BY <1>5, <2>1
<1>7. w \in [0..(k - 1) -> V] /\ w[0] = first /\ \A j \in 1..(k - 1) : w[j] = F[w[j - 1]]
  BY <1>6 DEF Iterates
<1> DEFINE g == [j \in 0..k |-> IF j = k THEN F[w[k - 1]] ELSE w[j]]
<1>8. k - 1 \in 0..(k - 1) /\ w[k - 1] \in V  BY <1>5, <1>7
<1>9. \A j \in 0..k : j # k => j \in 0..(k - 1)  BY <1>3
<1>10. g \in [0..k -> V]  BY <1>7, <1>8, <1>9
<1>11. g[0] = first  BY <1>3, <1>4, <1>7
<1>12. ASSUME NEW j \in 1..k PROVE g[j] = F[g[j - 1]]
  <2>1. j - 1 \in 0..k /\ j - 1 # k /\ j \in 0..k  BY <1>3
  <2>2. g[j - 1] = w[j - 1]  BY <2>1
  <2>3. CASE j = k  BY <2>1, <2>2, <2>3
  <2>4. CASE j # k
    <3>1. j \in 1..(k - 1) /\ g[j] = w[j]  BY <1>3, <2>1, <2>4
    <3> QED  BY <1>7, <2>2, <3>1
  <2> QED  BY <2>3, <2>4
<1> HIDE DEF g
<1>13. Iterates(g, V, first, F, k)  BY <1>10, <1>11, <1>12 DEF Iterates
<1> QED  BY <1>3, <1>13

Pairs == Shapes \X Shapes

LEMMA PairsCounted ==
    /\ IsFiniteSet(Pairs) /\ Cardinality(Shapes) \in Nat
    /\ Cardinality(Pairs) = Cardinality(Shapes) * Cardinality(Shapes)
<1>1. IsFiniteSet(Shapes)  BY ConstantsAssumption
<1> QED  BY <1>1, FS_Product, FS_CardinalityType DEF Pairs

\* The steps of Narrowing.
WiderPairs(R) == R \cup Redeclares(R) \cup {<< r[1][1], r[2][2] >> : r \in {r \in R \X R : r[1][2] = r[2][1]}}

AbovePairs == {r \in Shapes \X Shapes : r[2] \in Above(r[1])}

Round(r) == IF r.grows THEN [pairs |-> WiderPairs(r.pairs), grows |-> WiderPairs(r.pairs) # r.pairs] ELSE r

Rounds(w) ==
    w = [k \in 0 .. Cardinality(Shapes) * Cardinality(Shapes) + 1 |->
            IF k = 0 THEN [pairs |-> AbovePairs, grows |-> TRUE] ELSE Round(w[k - 1])]

LEMMA OwnTyped ==
    ASSUME TypeOK, NEW s \in Shapes
    PROVE  /\ given.props[s] \in Seq(Property)
           /\ \A k \in DOMAIN given.props[s] : given.props[s][k] \in Property
           /\ \A p \in Own(s) : p.base \in Shapes /\ p.name \in Names
           /\ \A p : p \in Own(s) <=> \E k \in DOMAIN given.props[s] : given.props[s][k] = p
<1>1. given.props[s] \in Seq(Property)  BY FramesTyped, ModelTyped
<1>2. \A k \in DOMAIN given.props[s] : given.props[s][k] \in Property  BY <1>1
<1> QED  BY <1>1, <1>2 DEF Own, Property

LEMMA WiderTyped ==
    ASSUME TypeOK, NEW R \in SUBSET Pairs
    PROVE  Redeclares(R) \in SUBSET Pairs /\ WiderPairs(R) \in SUBSET Pairs /\ R \subseteq WiderPairs(R)
<1>1. Redeclares(R) \subseteq Pairs
  <2> SUFFICES ASSUME NEW r \in R, NEW e \in Own(r[1]) \X Own(r[2])
               PROVE  << e[1].base, e[2].base >> \in Pairs
    BY DEF Redeclares
  <2>1. r[1] \in Shapes /\ r[2] \in Shapes  BY DEF Pairs
  <2>2. e[1] \in Own(r[1]) /\ e[2] \in Own(r[2])  OBVIOUS
  <2>3. e[1].base \in Shapes /\ e[2].base \in Shapes  BY <2>1, <2>2, OwnTyped
  <2> QED  BY <2>3 DEF Pairs
<1>2. {<< r[1][1], r[2][2] >> : r \in {r \in R \X R : r[1][2] = r[2][1]}} \subseteq Pairs  BY DEF Pairs
<1> QED  BY <1>1, <1>2 DEF WiderPairs

LEMMA NarrowingIs ==
    ASSUME TypeOK
    PROVE  LET last == Cardinality(Shapes) * Cardinality(Shapes) + 1
           IN  \E w : /\ w \in [0..last -> [pairs : SUBSET Pairs, grows : BOOLEAN]]
                      /\ w[0] = [pairs |-> AbovePairs, grows |-> TRUE]
                      /\ \A k \in 1..last : w[k] = Round(w[k - 1])
                      /\ Narrowing = w[last].pairs
<1> DEFINE last == Cardinality(Shapes) * Cardinality(Shapes) + 1
           V == [pairs : SUBSET Pairs, grows : BOOLEAN]
           G == [r \in V |-> Round(r)]
           first == [pairs |-> AbovePairs, grows |-> TRUE]
<1>1. last \in Nat  BY PairsCounted
<1>2. G \in [V -> V] /\ \A r \in V : G[r] = Round(r)
  <2>1. ASSUME NEW r \in V PROVE Round(r) \in V
    <3>1. r.pairs \in SUBSET Pairs /\ r.grows \in BOOLEAN  OBVIOUS
    <3>2. WiderPairs(r.pairs) \in SUBSET Pairs  BY <3>1, WiderTyped
    <3> QED  BY <3>2 DEF Round
  <2> HIDE DEF V
  <2> QED  BY <2>1
<1>3. first \in V  BY DEF AbovePairs, Pairs
<1> HIDE DEF V, G, last, first
<1>4. PICK w : Iterates(w, V, first, G, last)  BY <1>1, <1>2, <1>3, Iterated
<1>5. w \in [0..last -> V] /\ w[0] = first /\ \A k \in 1..last : w[k] = G[w[k - 1]]  BY <1>4 DEF Iterates
<1>6. \A k \in 0..last : k # 0 => k \in 1..last /\ k - 1 \in 0..last  BY <1>1
<1>7. \A k \in 0..last : w[k] = IF k = 0 THEN first ELSE Round(w[k - 1])  BY <1>2, <1>5, <1>6
<1>8. Rounds(w)
  <2>1. w = [k \in 0..last |-> w[k]]  BY <1>5
  <2> QED  BY <1>7, <2>1 DEF Rounds, last, first
<1> DEFINE v == CHOOSE f : Rounds(f)
<1>9. Rounds(v)  BY <1>8
<1>10. Narrowing = v[last].pairs  BY DEF Narrowing, Rounds, Round, WiderPairs, AbovePairs, last
<1> HIDE DEF v
<1>11. \A k \in 0..last : v[k] = IF k = 0 THEN first ELSE Round(v[k - 1])
  BY <1>9 DEF Rounds, last, first
<1>12. DOMAIN v = 0..last  BY <1>9 DEF Rounds, last
<1>13. \A k \in 0..last : v[k] \in V
  <2> DEFINE B == {k \in Nat : k \in 0..last /\ v[k] \notin V}
  <2>1. SUFFICES ASSUME B # {} PROVE FALSE  BY <1>1
  <2>2. PICK k \in B : \A j \in B : ~(j < k)
    <3>1. B \subseteq Nat  OBVIOUS
    <3> HIDE DEF B
    <3> QED  BY <2>1, <3>1, Least
  <2>3. k \in 0..last /\ v[k] \notin V  OBVIOUS
  <2>4. k # 0  BY <1>3, <1>11, <2>3
  <2>5. k - 1 \in 0..last /\ k - 1 \in Nat /\ k - 1 < k  BY <1>1, <2>3, <2>4
  <2>6. v[k - 1] \in V  BY <2>2, <2>5
  <2>7. v[k] = Round(v[k - 1])  BY <1>11, <2>3, <2>4
  <2> QED  BY <1>2, <2>3, <2>6, <2>7
<1>14. v \in [0..last -> V]
  <2>1. v = [k \in 0..last |-> v[k]]  BY <1>9, <1>12 DEF Rounds
  <2> QED  BY <1>13, <2>1
<1>15. v[0] = first /\ \A k \in 1..last : v[k] = Round(v[k - 1])
  <2>1. 0 \in 0..last /\ \A k \in 1..last : k \in 0..last /\ k # 0  BY <1>1
  <2> QED  BY <1>11, <2>1
<1> QED  BY <1>10, <1>14, <1>15 DEF V, last, first

\* While the relation grows it has a pair for each round; there are not as many pairs
\* as there are rounds.
LEMMA NarrowingClosed ==
    ASSUME TypeOK
    PROVE  /\ Narrowing \subseteq Pairs /\ AbovePairs \subseteq Narrowing
           /\ WiderPairs(Narrowing) = Narrowing
<1> DEFINE last == Cardinality(Shapes) * Cardinality(Shapes) + 1
           V == [pairs : SUBSET Pairs, grows : BOOLEAN]
<1>1. PICK w : /\ w \in [0..last -> V]
               /\ w[0] = [pairs |-> AbovePairs, grows |-> TRUE]
               /\ \A k \in 1..last : w[k] = Round(w[k - 1])
               /\ Narrowing = w[last].pairs
  BY NarrowingIs
<1>2. last \in Nat /\ last = Cardinality(Pairs) + 1 /\ IsFiniteSet(Pairs)  BY PairsCounted
<1>3. \A k \in 0..last : w[k] \in V  BY <1>1
<1>4. \A k \in 0..last : w[k].pairs \in SUBSET Pairs /\ w[k].grows \in BOOLEAN
  <2> HIDE DEF last
  <2> QED  BY <1>3
<1> DEFINE P(k) == /\ AbovePairs \subseteq w[k].pairs
                   /\ w[k].grows => Cardinality(w[k].pairs) >= k
                   /\ ~w[k].grows => WiderPairs(w[k].pairs) = w[k].pairs
<1> HIDE DEF last, V
<1>5. \A U \in SUBSET Pairs : IsFiniteSet(U) /\ Cardinality(U) \in Nat /\ Cardinality(U) <= Cardinality(Pairs)
  BY <1>2, FS_Subset, FS_CardinalityType
<1>6. \A k \in 0..last : P(k)
  <2> DEFINE B == {k \in Nat : k \in 0..last /\ ~P(k)}
  <2>1. SUFFICES ASSUME B # {} PROVE FALSE  BY <1>2
  <2>2. PICK k \in B : \A j \in B : ~(j < k)
    <3>1. B \subseteq Nat  OBVIOUS
    <3> HIDE DEF B
    <3> QED  BY <2>1, <3>1, Least
  <2>3. k \in 0..last /\ ~P(k) /\ k \in Nat  OBVIOUS
  <2>4. k # 0
    <3>1. 0 \in 0..last  BY <1>2
    <3>2. w[0].pairs = AbovePairs /\ w[0].grows = TRUE  BY <1>1
    <3>3. Cardinality(w[0].pairs) >= 0  BY <1>4, <1>5, <3>1
    <3>4. P(0)  BY <3>2, <3>3
    <3> QED  BY <2>3, <3>4
  <2>5. k - 1 \in 0..last /\ k - 1 \in Nat /\ k - 1 < k /\ k \in 1..last  BY <1>2, <2>3, <2>4
  <2>6. P(k - 1)  BY <2>2, <2>5
  <2> DEFINE U == w[k - 1].pairs
  <2>7. U \in SUBSET Pairs /\ w[k] = Round(w[k - 1])  BY <1>1, <1>4, <2>5
  <2>8. CASE ~w[k - 1].grows
    <3>1. w[k] = w[k - 1]  BY <2>7, <2>8 DEF Round
    <3> QED  BY <2>3, <2>6, <2>8, <3>1
  <2>9. CASE w[k - 1].grows
    <3>1. w[k].pairs = WiderPairs(U) /\ w[k].grows = (WiderPairs(U) # U)  BY <2>7, <2>9 DEF Round
    <3>2. WiderPairs(U) \in SUBSET Pairs /\ U \subseteq WiderPairs(U)  BY <2>7, WiderTyped
    <3>3. AbovePairs \subseteq w[k].pairs  BY <2>6, <3>1, <3>2
    <3>4. CASE WiderPairs(U) = U
      <4>1. w[k].pairs = U /\ ~w[k].grows  BY <3>1, <3>4
      <4> HIDE DEF U
      <4> QED  BY <2>3, <3>3, <3>4, <4>1
    <3>5. CASE WiderPairs(U) # U
      <4>1. Cardinality(U) >= k - 1  BY <2>6, <2>9
      <4>2. Cardinality(U) < Cardinality(WiderPairs(U))  BY <1>5, <3>2, <3>5, FS_Subset
      <4>3. Cardinality(U) \in Nat /\ Cardinality(WiderPairs(U)) \in Nat  BY <1>5, <2>7, <3>2
      <4>4. Cardinality(w[k].pairs) >= k  BY <2>3, <3>1, <4>1, <4>2, <4>3
      <4> QED  BY <2>3, <3>1, <3>3, <3>5, <4>4
    <3> QED  BY <3>4, <3>5
  <2> QED  BY <2>8, <2>9
<1>7. last \in 0..last  BY <1>2
<1>8. P(last)  BY <1>6, <1>7
<1>9. Cardinality(w[last].pairs) \in Nat /\ Cardinality(w[last].pairs) < last /\ Cardinality(Pairs) \in Nat
  BY <1>2, <1>4, <1>5, <1>7, FS_CardinalityType
<1>10. ~w[last].grows  BY <1>2, <1>8, <1>9
<1> QED  BY <1>1, <1>4, <1>7, <1>8, <1>10

-----------------------------------------------------------------------------
(* Nothing extra.  R is what narrows what, D the properties that redeclare *)
(* another, F the shapes into which nothing has been merged yet.           *)

Within(R, s, t) == s = t \/ << s, t >> \in R
HasSource(g, s) == g.alias[s] # None \/ g.parents[s] # << >>
Declares(g, t, e) == \E k \in DOMAIN g.props[t] : g.props[t][k] = e
Redeclaring(R)  == {r[1] : r \in Redeclares(R)}

\* What the model says, when no shape has more than one source.
Told(g, R, D) ==
    /\ R \subseteq Pairs
    /\ \A s \in Shapes : g.alias[s] # None => << s, g.alias[s] >> \in R
    /\ \A s \in Shapes : \A k \in DOMAIN g.parents[s] : k = 1 /\ << s, g.parents[s][k] >> \in R
    /\ \A r, s, t \in Shapes : << r, s >> \in R /\ << s, t >> \in R => << r, t >> \in R
    /\ \A s, t \in Shapes : << s, t >> \in R =>
          \A k \in DOMAIN g.props[s] : \A l \in DOMAIN g.props[t] :
              g.props[s][k].name = g.props[t][l].name =>
                  << g.props[s][k].base, g.props[t][l].base >> \in R /\ g.props[s][k].base \in D
    /\ \A b \in D : b \in Shapes /\ ~HasSource(g, b)
    /\ WellFormed(g)

\* What a shape carries, and what its map has, is declared by a shape it narrows.
Covered(g, R, mp, en, fa) ==
    /\ \A s \in Shapes : \A t \in fa[s] : Within(R, s, t)
    /\ \A s \in Shapes : mp[s] # None => Within(R, s, mp[s])
    /\ \A m \in Shapes : \A k \in DOMAIN en[m] : \E t \in Shapes : Within(R, m, t) /\ Declares(g, t, en[m][k])
    /\ \A m \in Shapes : \A k, l \in DOMAIN en[m] : en[m][k].name = en[m][l].name => k = l

Fresh(g, F, mp, en) ==
    \A s \in F : en[s] = g.props[s] /\ mp[s] = IF g.props[s] = << >> THEN None ELSE s

\* What has a source, and the properties that redeclare another, are merged into once: in
\* the record that unwraps them, and in the one that merges their owner.
Untouched(g, D, F, un, fs) ==
    /\ \A s \in Shapes : HasSource(g, s) /\ ~un[s] => s \in F
    /\ \A k \in DOMAIN fs : ~Merging(fs[k]) /\ fs[k].at # "source" /\ HasSource(g, fs[k].shape)
                                => fs[k].shape \in F
    /\ \A o \in F : \A i \in DOMAIN g.props[o] : g.props[o][i].base \in D => g.props[o][i].base \in F

\* Records of UnwrapShape have the parent for their source.
Sourced(g, R, ps, fs) ==
    /\ \A s \in Shapes : g.alias[s] = None => ps[s] = g.parents[s]
    /\ \A k \in DOMAIN fs : ~Merging(fs[k]) =>
          /\ fs[k].at # "joined"
          /\ fs[k].at # "alias" => g.alias[fs[k].shape] = None
          /\ fs[k].source # None => HasSource(g, fs[k].shape) /\ << fs[k].shape, fs[k].source >> \in R

Theirs(mp, en, s) == IF mp[s] = None THEN << >> ELSE en[mp[s]]

\* A merge into a map of the target's own: it has what it declares and what the merge
\* has added, and the properties still to be merged, those after the first n of the
\* source, are untouched.
Adding(g, D, F, mp, en, f, n) ==
    /\ mp[f.shape] = f.shape
    /\ \A i \in DOMAIN en[f.shape] : i > Len(g.props[f.shape]) =>
          \E j \in DOMAIN Theirs(mp, en, f.source) :
              j < f.next /\ Theirs(mp, en, f.source)[j] = en[f.shape][i]
    /\ \A i \in DOMAIN g.props[f.shape] : g.props[f.shape][i].base \in D =>
          \/ g.props[f.shape][i].base \in F
          \/ \E j \in DOMAIN Theirs(mp, en, f.source) :
                j <= n /\ Theirs(mp, en, f.source)[j].name = g.props[f.shape][i].name

\* Whether the property a record is at is still to be merged.
Past(fs, r, k) == IF k = Len(fs) /\ r = None THEN fs[k].next - 1 ELSE fs[k].next

Merges(g, R, D, F, mp, en, fs, r) ==
    /\ \A k \in DOMAIN fs : Merging(fs[k]) =>
          /\ << fs[k].shape, fs[k].source >> \in R
          /\ fs[k].shape \notin F
          /\ fs[k].at = "merge" => Adding(g, D, F, mp, en, fs[k], Past(fs, r, k))
    /\ \A j, k \in DOMAIN fs : Merging(fs[j]) /\ Merging(fs[k]) /\ j # k => fs[j].shape # fs[k].shape

Extra(g, R, D, F, ps, mp, en, fa, un, fs, r) ==
    /\ Covered(g, R, mp, en, fa)
    /\ Fresh(g, F, mp, en)
    /\ Untouched(g, D, F, un, fs)
    /\ Sourced(g, R, ps, fs)
    /\ Merges(g, R, D, F, mp, en, fs, r)

ExtraNow(R, D, F) ==
    Extra(given, R, D, F, parents, map, entries, facets, unwrapped, frames, ret)

NoMore(R, D) == \E F \in SUBSET Shapes : ExtraNow(R, D, F)

ToldNow(R, D) == Told(given, R, D)

LEMMA WithinKept ==
    ASSUME NEW g, NEW R, NEW D, Told(g, R, D), NEW r \in Shapes, NEW s \in Shapes, NEW t \in Shapes,
           Within(R, r, s), Within(R, s, t)
    PROVE  Within(R, r, t)
BY DEF Told, Within

\* No merge is under way.
LEMMA NoMerges ==
    ASSUME NEW fs, \A k \in DOMAIN fs : ~Merging(fs[k])
    PROVE  \A g, R, D, F, mp, en, r : Merges(g, R, D, F, mp, en, fs, r)
BY DEF Merges

LEMMA FreshFewer ==
    ASSUME NEW g, NEW F, NEW G, G \subseteq F, NEW mp, NEW en, Fresh(g, F, mp, en)
    PROVE  Fresh(g, G, mp, en)
BY DEF Fresh

\* Records change or go: the shapes and sources of those that stay do not.
LEMMA StillUntouched ==
    ASSUME NEW g, NEW D, NEW F, NEW un, NEW fs, NEW fs2, Untouched(g, D, F, un, fs),
           \A k \in DOMAIN fs2 : ~Merging(fs2[k]) /\ fs2[k].at # "source" =>
               /\ k \in DOMAIN fs /\ ~Merging(fs[k]) /\ fs[k].at # "source" /\ fs2[k].shape = fs[k].shape
    PROVE  Untouched(g, D, F, un, fs2)
<1>1. \A k \in DOMAIN fs2 : ~Merging(fs2[k]) /\ fs2[k].at # "source" /\ HasSource(g, fs2[k].shape)
          => fs2[k].shape \in F
  <2> SUFFICES ASSUME NEW k \in DOMAIN fs2, ~Merging(fs2[k]), fs2[k].at # "source", HasSource(g, fs2[k].shape)
               PROVE  fs2[k].shape \in F
    OBVIOUS
  <2>1. k \in DOMAIN fs /\ ~Merging(fs[k]) /\ fs[k].at # "source" /\ fs2[k].shape = fs[k].shape  OBVIOUS
  <2> QED  BY <2>1 DEF Untouched
<1> QED  BY <1>1 DEF Untouched

LEMMA StillSourced ==
    ASSUME NEW g, NEW R, NEW ps, NEW fs, NEW fs2, Sourced(g, R, ps, fs),
           \A k \in DOMAIN fs2 : ~Merging(fs2[k]) =>
               /\ k \in DOMAIN fs /\ ~Merging(fs[k]) /\ fs2[k].shape = fs[k].shape
               /\ fs2[k].source = fs[k].source /\ fs2[k].at # "joined"
               /\ fs2[k].at # "alias" => fs[k].at # "alias"
    PROVE  Sourced(g, R, ps, fs2)
<1>1. ASSUME NEW k \in DOMAIN fs2, ~Merging(fs2[k])
      PROVE  /\ fs2[k].at # "joined"
             /\ fs2[k].at # "alias" => g.alias[fs2[k].shape] = None
             /\ fs2[k].source # None => HasSource(g, fs2[k].shape) /\ << fs2[k].shape, fs2[k].source >> \in R
  <2>1. /\ k \in DOMAIN fs /\ ~Merging(fs[k]) /\ fs2[k].shape = fs[k].shape
        /\ fs2[k].source = fs[k].source /\ fs2[k].at # "joined"
        /\ fs2[k].at # "alias" => fs[k].at # "alias"
    BY <1>1
  <2> QED  BY <2>1 DEF Sourced
<1> QED  BY <1>1 DEF Sourced

LEMMA ToldSo ==
    ASSUME TypeOK, WellFormed(given), ~Borrows(Narrowing)
    PROVE  ToldNow(Narrowing, Redeclaring(Narrowing))
<1> DEFINE R == Narrowing
           D == Redeclaring(Narrowing)
<1>1. R \subseteq Pairs /\ AbovePairs \subseteq R /\ WiderPairs(R) = R  BY NarrowingClosed
<1>2. /\ given.alias \in [Shapes -> Shapes \cup {None}] /\ given.parents \in [Shapes -> Seq(Shapes)]
      /\ None \notin Shapes
  BY FramesTyped, ModelTyped
<1>3. \A s \in Shapes : \A t \in Above(s) : t \in Shapes => << s, t >> \in R  BY <1>1 DEF AbovePairs
<1> HIDE DEF R
<1>4. \A s \in Shapes : given.alias[s] # None => << s, given.alias[s] >> \in R  BY <1>2, <1>3 DEF Above
<1>5. ASSUME NEW s \in Shapes, NEW k \in DOMAIN given.parents[s]
      PROVE  k = 1 /\ << s, given.parents[s][k] >> \in R
  <2>1. given.parents[s] \in Seq(Shapes) /\ ~(Len(given.parents[s]) > 1)  BY <1>2 DEF Borrows
  <2>2. k \in Nat /\ 1 <= k /\ k <= Len(given.parents[s]) /\ given.parents[s][k] \in Shapes /\ Len(given.parents[s]) \in Nat
    BY <2>1
  <2>3. given.parents[s][k] \in Above(s)  BY DEF Above
  <2> QED  BY <1>3, <2>1, <2>2, <2>3
<1>6. \A r, s, t \in Shapes : << r, s >> \in R /\ << s, t >> \in R => << r, t >> \in R
  <2> SUFFICES ASSUME NEW r \in Shapes, NEW s \in Shapes, NEW t \in Shapes, << r, s >> \in R, << s, t >> \in R
               PROVE  << r, t >> \in R
    OBVIOUS
  <2> DEFINE e == << << r, s >>, << s, t >> >>
  <2>1. e \in R \X R /\ e[1][2] = e[2][1] /\ << e[1][1], e[2][2] >> = << r, t >>  OBVIOUS
  <2> HIDE DEF e
  <2>2. << e[1][1], e[2][2] >> \in WiderPairs(R)  BY <2>1 DEF WiderPairs
  <2> QED  BY <1>1, <2>1, <2>2
<1>7. Redeclares(R) \subseteq R  BY <1>1 DEF WiderPairs
<1>8. ASSUME NEW s \in Shapes, NEW t \in Shapes, << s, t >> \in R,
             NEW k \in DOMAIN given.props[s], NEW l \in DOMAIN given.props[t],
             given.props[s][k].name = given.props[t][l].name
      PROVE  << given.props[s][k].base, given.props[t][l].base >> \in Redeclares(R)
  <2> DEFINE r == << s, t >>
             e == << given.props[s][k], given.props[t][l] >>
  <2>1. given.props[s][k] \in Own(s) /\ given.props[t][l] \in Own(t)  BY DEF Own
  <2>2. /\ r \in R /\ e \in Own(r[1]) \X Own(r[2]) /\ e[1].name = e[2].name
        /\ << e[1].base, e[2].base >> = << given.props[s][k].base, given.props[t][l].base >>
    BY <1>8, <2>1
  <2> HIDE DEF r, e
  <2>3. << e[1].base, e[2].base >> \in Redeclares(R)  BY <2>2 DEF Redeclares
  <2> QED  BY <2>2, <2>3
<1>9. \A b \in Redeclaring(R) : b \in Shapes /\ ~HasSource(given, b)
  <2> SUFFICES ASSUME NEW r \in Redeclares(R) PROVE r[1] \in Shapes /\ ~HasSource(given, r[1])
    BY DEF Redeclaring
  <2>1. r[1] \in Shapes  BY <1>1, <1>7 DEF Pairs
  <2>2. Above(r[1]) = {}  BY DEF Borrows, R
  <2>3. given.alias[r[1]] = None  BY <2>2 DEF Above
  <2> DEFINE p == given.parents[r[1]]
  <2>4. p \in Seq(Shapes)  BY <1>2, <2>1
  <2>6. \A i \in DOMAIN p : p[i] \in Above(r[1])  BY DEF Above
  <2> HIDE DEF p
  <2>7. DOMAIN p = {}  BY <2>2, <2>6
  <2>5. p = << >>
    <3>1. Len(p) \in Nat /\ DOMAIN p = 1..Len(p)  BY <2>4
    <3>2. 1 \notin 1..Len(p)  BY <2>7, <3>1
    <3>3. Len(p) = 0  BY <3>1, <3>2
    <3> QED  BY <2>4, <3>3
  <2> QED  BY <2>1, <2>3, <2>5 DEF HasSource, p
<1>10. \A s, t \in Shapes : << s, t >> \in R =>
          \A k \in DOMAIN given.props[s] : \A l \in DOMAIN given.props[t] :
              given.props[s][k].name = given.props[t][l].name =>
                  /\ << given.props[s][k].base, given.props[t][l].base >> \in R
                  /\ given.props[s][k].base \in Redeclaring(R)
  <2>1. \A a, b : << a, b >> \in Redeclares(R) => a \in Redeclaring(R)
    <3> SUFFICES ASSUME NEW a, NEW b, << a, b >> \in Redeclares(R) PROVE a \in Redeclaring(R)  OBVIOUS
    <3>1. << a, b >>[1] = a  OBVIOUS
    <3> QED  BY <3>1 DEF Redeclaring
  <2> QED  BY <1>7, <1>8, <2>1
<1>11. D = Redeclaring(R)  BY DEF R
<1> HIDE DEF D
<1>12. ToldNow(R, D)  BY <1>1, <1>4, <1>5, <1>6, <1>9, <1>10, <1>11 DEF ToldNow, Told
<1> QED  BY <1>12 DEF R, D

\* UnwrapShape is called: nothing is being merged.
LEMMA UnwrapShapeExtra ==
    ASSUME TInv, NEW R, NEW D, NEW F, ExtraNow(R, D, F), ToldNow(R, D), NEW s \in Shapes,
           UnwrapShape(frames, s), Unchanged, \A k \in DOMAIN frames : ~Merging(frames[k])
    PROVE  ExtraNow(R, D, F)'
<1>1. TypeOK /\ frames \in Seq(Record)  BY FramesTyped DEF TInv
<1>2. given' = given /\ parents' = parents /\ map' = map /\ entries' = entries /\ facets' = facets
  BY DEF Unchanged, UnwrapShape, heap
<1>3. /\ Covered(given, R, map, entries, facets) /\ Fresh(given, F, map, entries)
      /\ Untouched(given, D, F, unwrapped, frames) /\ Sourced(given, R, parents, frames)
  BY DEF ExtraNow, Extra
<1>4. CASE frames' = frames /\ unwrapped' = unwrapped
  BY <1>2, <1>3, <1>4, NoMerges DEF ExtraNow, Extra
<1>5. CASE ~(frames' = frames /\ unwrapped' = unwrapped)
  <2> DEFINE f == [ shape |-> s, at |-> IF given.alias[s] = None THEN "parents" ELSE "alias",
                    next |-> 1, source |-> None ]
             n == Len(frames)
             h == Append(frames, f)
  <2>1. ~unwrapped[s] /\ unwrapped' = [unwrapped EXCEPT ![s] = TRUE] /\ frames' = h
    BY <1>5 DEF UnwrapShape, heap
  <2>2. f \in Record /\ f.shape = s /\ ~Merging(f) /\ f.source = None /\ f.at # "joined"
        /\ (f.at # "alias" => given.alias[s] = None)
    BY DEF Record, Merging
  <2> HIDE DEF f
  <2>3. DOMAIN h = 1..n + 1 /\ DOMAIN frames = 1..n /\ h[n + 1] = f /\ \A k \in 1..n : h[k] = frames[k]
    BY <1>1, <2>2, Appended
  <2>4. n \in Nat  BY <1>1, FramesTyped
  <2> HIDE DEF h, n
  <2>5. \A k \in DOMAIN h : k = n + 1 \/ k \in 1..n  BY <2>3, <2>4
  <2>6. \A k \in DOMAIN h : ~Merging(h[k])  BY <2>2, <2>3, <2>5
  <2>7. Untouched(given, D, F, unwrapped', h)
    <3>1. \A x \in Shapes : ~unwrapped'[x] => ~unwrapped[x]  BY <1>1, <2>1, HeapTyped
    <3>2. HasSource(given, s) => s \in F  BY <1>3, <2>1 DEF Untouched
    <3> QED  BY <1>3, <2>2, <2>3, <2>5, <3>1, <3>2 DEF Untouched
  <2>8. Sourced(given, R, parents, h)  BY <1>3, <2>2, <2>3, <2>5 DEF Sourced
  <2> QED  BY <1>2, <1>3, <2>1, <2>6, <2>7, <2>8, NoMerges DEF ExtraNow, Extra
<1> QED  BY <1>4, <1>5

\* The top record changes or goes, and nothing is being merged.
LEMMA WalkExtra ==
    ASSUME NEW R, NEW D, NEW F, ExtraNow(R, D, F), given' = given, parents' = parents,
           map' = map, entries' = entries, facets' = facets, unwrapped' = unwrapped,
           \A k \in DOMAIN frames' : /\ k \in DOMAIN frames /\ ~Merging(frames'[k]) /\ ~Merging(frames[k])
                                     /\ frames'[k].shape = frames[k].shape
                                     /\ frames'[k].at # "source" => frames[k].at # "source"
                                     /\ frames'[k].at # "joined"
                                     /\ frames'[k].at # "alias" => frames[k].at # "alias"
                                     /\ \/ frames'[k].source = frames[k].source
                                        \/ /\ HasSource(given, frames[k].shape)
                                           /\ << frames[k].shape, frames'[k].source >> \in R
    PROVE  ExtraNow(R, D, F)'
<1>1. /\ Covered(given, R, map, entries, facets) /\ Fresh(given, F, map, entries)
      /\ Untouched(given, D, F, unwrapped, frames) /\ Sourced(given, R, parents, frames)
  BY DEF ExtraNow, Extra
<1> DEFINE fs2 == frames'
<1>a. \A k \in DOMAIN fs2 : /\ k \in DOMAIN frames /\ ~Merging(fs2[k]) /\ ~Merging(frames[k])
                            /\ fs2[k].shape = frames[k].shape
                            /\ fs2[k].at # "source" => frames[k].at # "source"
                            /\ fs2[k].at # "joined"
                            /\ fs2[k].at # "alias" => frames[k].at # "alias"
                            /\ \/ fs2[k].source = frames[k].source
                               \/ /\ HasSource(given, frames[k].shape)
                                  /\ << frames[k].shape, fs2[k].source >> \in R
  OBVIOUS
<1> HIDE DEF fs2
<1>2. Untouched(given, D, F, unwrapped, fs2)  BY <1>1, <1>a, StillUntouched
<1>3. Sourced(given, R, parents, fs2)
  <2> SUFFICES ASSUME NEW k \in DOMAIN fs2
               PROVE  /\ fs2[k].at # "joined"
                      /\ fs2[k].at # "alias" => given.alias[fs2[k].shape] = None
                      /\ fs2[k].source # None => /\ HasSource(given, fs2[k].shape)
                                                 /\ << fs2[k].shape, fs2[k].source >> \in R
    BY <1>1 DEF Sourced
  <2>1. /\ frames[k].at # "alias" => given.alias[frames[k].shape] = None
        /\ frames[k].source # None => HasSource(given, frames[k].shape) /\ << frames[k].shape, frames[k].source >> \in R
    BY <1>1, <1>a DEF Sourced
  <2> QED  BY <1>a, <2>1
<1>4. \A k \in DOMAIN fs2 : ~Merging(fs2[k])  BY <1>a
<1>5. Extra(given, R, D, F, parents, map, entries, facets, unwrapped, fs2, ret')
  BY <1>1, <1>2, <1>3, <1>4, NoMerges DEF Extra
<1> QED  BY <1>5 DEF ExtraNow, fs2

\* UnwrapShape does not run above Inherit.
LEMMA NotMerging ==
    ASSUME TypeOK, InOrder, frames = << >> \/ ~Merging(Top)
    PROVE  \A k \in DOMAIN frames : ~Merging(frames[k])
<1>1. Layered(frames)  BY DEF InOrder, Ordered
<1>2. CASE frames = << >>  BY <1>2
<1>3. CASE frames # << >> /\ ~Merging(Top)
  <2>1. Len(frames) \in DOMAIN frames /\ Top = frames[Len(frames)]  BY <1>3, TopTyped
  <2>2. \A k \in DOMAIN frames : k = Len(frames) \/ k < Len(frames)  BY FramesTyped
  <2> QED  BY <1>1, <1>3, <2>1, <2>2 DEF Layered
<1> QED  BY <1>2, <1>3

\* UnwrapShape goes on.
LEMMA GoesOnExtra ==
    ASSUME TInv, InOrder, NEW R, NEW D, NEW F, ExtraNow(R, D, F), frames # << >>, ~Merging(Top), NEW f \in Record,
           frames' = Becomes(f), given' = given, parents' = parents, map' = map, entries' = entries,
           facets' = facets, unwrapped' = unwrapped,
           f.shape = S, ~Merging(f), f.at # "joined", f.at # "source" => Top.at # "source",
           f.at # "alias" => Top.at # "alias",
           f.source = Top.source \/ (HasSource(given, S) /\ << S, f.source >> \in R)
    PROVE  ExtraNow(R, D, F)'
<1>1. TypeOK /\ Len(frames) \in DOMAIN frames /\ Top = frames[Len(frames)]  BY TopTyped DEF TInv
<1>2. /\ DOMAIN Becomes(f) = DOMAIN frames /\ Becomes(f)[Len(frames)] = f
      /\ \A k \in DOMAIN frames : k # Len(frames) => Becomes(f)[k] = frames[k]
  BY <1>1, BecomesTyped
<1>3. \A k \in DOMAIN frames : ~Merging(frames[k])  BY <1>1, NotMerging
<1>4. Sourced(given, R, parents, frames)  BY DEF ExtraNow, Extra
<1>5. \A k \in DOMAIN frames' : /\ k \in DOMAIN frames /\ ~Merging(frames'[k]) /\ ~Merging(frames[k])
                                /\ frames'[k].shape = frames[k].shape
                                /\ frames'[k].at # "source" => frames[k].at # "source"
                                /\ frames'[k].at # "joined"
                                /\ frames'[k].at # "alias" => frames[k].at # "alias"
                                /\ \/ frames'[k].source = frames[k].source
                                   \/ /\ HasSource(given, frames[k].shape)
                                      /\ << frames[k].shape, frames'[k].source >> \in R
  <2> SUFFICES ASSUME NEW k \in DOMAIN frames
               PROVE  /\ ~Merging(Becomes(f)[k]) /\ ~Merging(frames[k])
                      /\ Becomes(f)[k].shape = frames[k].shape
                      /\ Becomes(f)[k].at # "source" => frames[k].at # "source"
                      /\ Becomes(f)[k].at # "joined"
                      /\ Becomes(f)[k].at # "alias" => frames[k].at # "alias"
                      /\ \/ Becomes(f)[k].source = frames[k].source
                         \/ /\ HasSource(given, frames[k].shape)
                            /\ << frames[k].shape, Becomes(f)[k].source >> \in R
    BY <1>2
  <2>1. CASE k = Len(frames)  BY <1>1, <1>2, <1>3, <2>1 DEF S
  <2>2. CASE k # Len(frames)
    <3>1. Becomes(f)[k] = frames[k]  BY <1>2, <2>2
    <3>2. frames[k].at # "joined"  BY <1>3, <1>4 DEF Sourced
    <3> QED  BY <1>3, <3>1, <3>2
  <2> QED  BY <2>1, <2>2
<1> QED  BY <1>5, WalkExtra

\* A call returns.
LEMMA LeavesExtra ==
    ASSUME TInv, NEW R, NEW D, NEW F, ExtraNow(R, D, F), frames # << >>, frames' = Below, ret' # None,
           given' = given, parents' = parents, map' = map, entries' = entries, facets' = facets, unwrapped' = unwrapped
    PROVE  ExtraNow(R, D, F)'
<1>1. /\ TypeOK /\ Len(Below) = Len(frames) - 1 /\ DOMAIN Below = 1..Len(frames) - 1
      /\ \A k \in DOMAIN Below : Below[k] = frames[k] /\ k \in DOMAIN frames
  BY TopTyped DEF TInv
<1>2. Len(frames) \in Nat  BY <1>1, FramesTyped
<1>3. \A k \in DOMAIN Below : k # Len(frames)  BY <1>1, <1>2
<1>4. /\ Covered(given, R, map, entries, facets) /\ Fresh(given, F, map, entries)
      /\ Untouched(given, D, F, unwrapped, frames) /\ Sourced(given, R, parents, frames)
      /\ Merges(given, R, D, F, map, entries, frames, ret)
  BY DEF ExtraNow, Extra
<1>5. Untouched(given, D, F, unwrapped, Below)  BY <1>1, <1>4, StillUntouched
<1>6. Sourced(given, R, parents, Below)  BY <1>1, <1>4 DEF Sourced
<1>7. \A k \in DOMAIN Below : Past(Below, ret', k) = Past(frames, ret, k)  BY <1>1, <1>3 DEF Past
<1>8. Merges(given, R, D, F, map, entries, Below, ret')  BY <1>1, <1>4, <1>7 DEF Merges
<1> QED  BY <1>4, <1>5, <1>6, <1>8 DEF ExtraNow, Extra

LEMMA RootReturnsExtra ==
    ASSUME NEW R, NEW D, NEW F, ExtraNow(R, D, F), RootReturns
    PROVE  ExtraNow(R, D, F)'
<1>1. /\ frames = << >> /\ frames' = << >> /\ given' = given /\ parents' = parents /\ map' = map
      /\ entries' = entries /\ facets' = facets /\ unwrapped' = unwrapped
  BY DEF RootReturns, heap
<1>2. DOMAIN frames' = {}  BY <1>1
<1> QED  BY <1>1, <1>2, WalkExtra

\* The steps that call UnwrapShape.
LEMMA CallsExtra ==
    ASSUME TInv, InOrder, NEW R, NEW D, NEW F, ExtraNow(R, D, F), ToldNow(R, D),
           CallRoot \/ CallAlias \/ CallParent \/ CallProperty
    PROVE  ExtraNow(R, D, F)'
<1>0. TypeOK  BY DEF TInv
<1>1. CASE CallRoot
  <2>1. frames = << >> /\ todo # << >> /\ UnwrapShape(frames, Head(todo)) /\ Unchanged  BY <1>1 DEF CallRoot
  <2>2. todo \in Seq(Shapes)  BY <1>0 DEF TypeOK
  <2>3. Head(todo) \in Shapes  BY <2>1, <2>2
  <2>4. \A k \in DOMAIN frames : ~Merging(frames[k])  BY <1>0, <2>1, NotMerging
  <2> QED  BY <2>1, <2>3, <2>4, UnwrapShapeExtra
<1>2. CASE CallAlias
  <2>1. frames # << >> /\ ret = None /\ Top.at = "alias" /\ UnwrapShape(frames, given.alias[S]) /\ Unchanged
    BY <1>2 DEF CallAlias, Calls, At
  <2>2. given.alias[S] \in Shapes  BY <2>1, CallsSays DEF Sound
  <2>3. \A k \in DOMAIN frames : ~Merging(frames[k])  BY <1>0, <2>1, NotMerging DEF Merging
  <2> QED  BY <2>1, <2>2, <2>3, UnwrapShapeExtra
<1>3. CASE CallParent
  <2>1. /\ frames # << >> /\ ret = None /\ Top.at = "parents" /\ Top.next <= Len(parents[S])
        /\ UnwrapShape(frames, parents[S][Top.next]) /\ Unchanged
    BY <1>3 DEF CallParent, Calls, At
  <2>2. S \in Shapes /\ Top.next \in Nat \ {0}  BY <2>1, CallsSays
  <2>3. parents[S] \in Seq(Shapes)  BY <1>0, <2>2, HeapTyped
  <2>4. parents[S][Top.next] \in Shapes  BY <2>1, <2>2, <2>3
  <2>5. \A k \in DOMAIN frames : ~Merging(frames[k])  BY <1>0, <2>1, NotMerging DEF Merging
  <2> QED  BY <2>1, <2>4, <2>5, UnwrapShapeExtra
<1>4. CASE CallProperty
  <2>1. /\ frames # << >> /\ ret = None /\ Top.at = "props" /\ Top.next <= Len(PropsOf(S))
        /\ UnwrapShape(frames, PropsOf(S)[Top.next].base) /\ Unchanged
    BY <1>4 DEF CallProperty, Calls, At
  <2>2. S \in Shapes /\ Top.next \in Nat \ {0}  BY <2>1, CallsSays
  <2>3. Top.next \in DOMAIN PropsOf(S)  BY <1>0, <2>1, <2>2, PropsTyped
  <2>4. PropsOf(S)[Top.next].base \in Shapes  BY <1>0, <2>2, <2>3, PropsTyped
  <2>5. \A k \in DOMAIN frames : ~Merging(frames[k])  BY <1>0, <2>1, NotMerging DEF Merging
  <2> QED  BY <2>1, <2>4, <2>5, UnwrapShapeExtra
<1> QED  BY <1>1, <1>2, <1>3, <1>4

\* An alias takes what its shape has, and has no other source.
LEMMA AliasToExtra ==
    ASSUME TInv, InOrder, NEW R, NEW D, NEW F \in SUBSET Shapes, ExtraNow(R, D, F), ToldNow(R, D), AliasTo
    PROVE  \E G \in SUBSET Shapes : ExtraNow(R, D, G)'
<1> DEFINE x == ret.shape
<1> PICK G : G = F \ {S}  OBVIOUS
<1>1. /\ frames # << >> /\ ret # None /\ ret.ok /\ Top.at = "alias" /\ given' = given /\ frames' = Below
      /\ entries' = entries /\ unwrapped' = unwrapped
  BY DEF AliasTo, Gets, At, Unchanged, Returns
<1>2. /\ TypeOK /\ S \in Shapes /\ Top.shape = S /\ Waits(Top, x) /\ Top = frames[Len(frames)] /\ x \in Shapes
      /\ Now(frames)
  BY <1>1, GetsSays
<1>3. x = given.alias[S] /\ ~Merging(Top)  BY <1>1, <1>2 DEF Waits, Awaits, Merging
<1>4. \A k \in DOMAIN frames : ~Merging(frames[k])  BY <1>2, <1>3, NotMerging
<1>5. ret' # None  BY <1>2, Answers, ConstantsAssumption DEF AliasTo, Returns
<1>6. CASE given.kind[S] # given.kind[x]
  <2>1. parents' = parents /\ map' = map /\ facets' = facets  BY <1>6 DEF AliasTo
  <2> QED  BY <1>1, <1>5, <2>1, LeavesExtra
<1>7. CASE given.kind[S] = given.kind[x]
  <2>1. /\ parents' = [parents EXCEPT ![S] = parents[x]] /\ map' = [map EXCEPT ![S] = map[x]]
        /\ facets' = [facets EXCEPT ![S] = facets[x]]
    BY <1>7 DEF AliasTo
  <2>2. /\ Covered(given, R, map, entries, facets) /\ Fresh(given, F, map, entries)
        /\ Untouched(given, D, F, unwrapped, frames) /\ Sourced(given, R, parents, frames)
    BY DEF ExtraNow, Extra
  <2>3. \A s \in Shapes : /\ parents'[s] = IF s = S THEN parents[x] ELSE parents[s]
                          /\ map'[s] = IF s = S THEN map[x] ELSE map[s]
                          /\ facets'[s] = IF s = S THEN facets[x] ELSE facets[s]
    BY <1>2, <2>1, HeapTyped
  <2>4. x # None /\ given.alias[S] # None  BY <1>2, <1>3, FramesTyped
  <2>5. << S, x >> \in R  BY <1>2, <1>3, <2>4 DEF ToldNow, Told
  <2>6. Told(given, R, D) /\ Within(R, S, x)  BY <2>5 DEF ToldNow, Within
  <2>7. map \in [Shapes -> Shapes \cup {None}] /\ facets \in [Shapes -> SUBSET Shapes]  BY <1>2, HeapTyped
  <2>8. Covered(given, R, map', entries, facets')
    <3>1. \A t \in facets[x] : Within(R, S, t)
      <4> SUFFICES ASSUME NEW t \in facets[x] PROVE Within(R, S, t)  OBVIOUS
      <4>1. t \in Shapes /\ Within(R, x, t)  BY <1>2, <2>2, <2>7 DEF Covered
      <4> QED  BY <1>2, <2>6, <4>1, WithinKept
    <3>2. map[x] # None => Within(R, S, map[x])
      <4> SUFFICES ASSUME map[x] # None PROVE Within(R, S, map[x])  OBVIOUS
      <4>1. map[x] \in Shapes /\ Within(R, x, map[x])  BY <1>2, <2>2, <2>7 DEF Covered
      <4> QED  BY <1>2, <2>6, <4>1, WithinKept
    <3>3. \A s \in Shapes : \A t \in facets'[s] : Within(R, s, t)  BY <2>2, <2>3, <3>1 DEF Covered
    <3>4. \A s \in Shapes : map'[s] # None => Within(R, s, map'[s])  BY <2>2, <2>3, <3>2 DEF Covered
    <3> QED  BY <2>2, <3>3, <3>4 DEF Covered
  <2>9. Fresh(given, G, map', entries)  BY <2>2, <2>3 DEF Fresh
  <2>10. HasSource(given, S) /\ S \notin D  BY <2>4, <2>6 DEF HasSource, Told
  <2>11. /\ Len(frames) \in DOMAIN frames /\ DOMAIN Below = 1..Len(frames) - 1 /\ Len(frames) \in Nat
         /\ \A k \in DOMAIN Below : Below[k] = frames[k] /\ k \in DOMAIN frames
    BY <1>1, <1>2, TopTyped, FramesTyped
  <2>12. \A k \in DOMAIN Below : Below[k].shape # S /\ ~Merging(Below[k])
    <3>1. \A k \in DOMAIN Below : k # Len(frames)  BY <2>11
    <3> QED  BY <1>2, <1>4, <2>11, <3>1 DEF Now, Ordered, Once
  <2>13. unwrapped[S]  BY <1>2, <1>4, <2>11 DEF Now, Ordered, Once
  <2>14. Untouched(given, D, G, unwrapped, Below)
    <3>1. \A s \in Shapes : HasSource(given, s) /\ ~unwrapped[s] => s \in G  BY <2>2, <2>13 DEF Untouched
    <3>2. \A k \in DOMAIN Below : ~Merging(Below[k]) /\ Below[k].at # "source" /\ HasSource(given, Below[k].shape)
                                     => Below[k].shape \in G
      BY <2>2, <2>11, <2>12 DEF Untouched
    <3>3. \A o \in G : \A i \in DOMAIN given.props[o] :
              given.props[o][i].base \in D => given.props[o][i].base \in G
      BY <2>2, <2>10 DEF Untouched
    <3> QED  BY <3>1, <3>2, <3>3 DEF Untouched
  <2>15. Sourced(given, R, parents', Below)  BY <2>2, <2>3, <2>4, <2>11 DEF Sourced
  <2>16. \A k \in DOMAIN Below : ~Merging(Below[k])  BY <2>12
  <2>17. ExtraNow(R, D, G)'  BY <1>1, <2>8, <2>9, <2>14, <2>15, <2>16, NoMerges DEF ExtraNow, Extra
  <2>18. G \in SUBSET Shapes  OBVIOUS
  <2> QED  BY <2>17, <2>18
<1> QED  BY <1>6, <1>7

LEMMA FirstParentExtra ==
    ASSUME TInv, InOrder, NEW R, NEW D, NEW F, ExtraNow(R, D, F), ToldNow(R, D), FirstParent
    PROVE  ExtraNow(R, D, F)'
<1> DEFINE f == [Top EXCEPT !.next = 2, !.source = ret.shape]
<1>1. /\ frames # << >> /\ ret # None /\ ret.ok /\ Top.at = "parents" /\ Top.next = 1
      /\ given' = given /\ frames' = Becomes(f) /\ parents' = [parents EXCEPT ![S][1] = ret.shape]
      /\ map' = map /\ entries' = entries /\ facets' = facets /\ unwrapped' = unwrapped
  BY DEF FirstParent, Gets, At, Unchanged
<1>2. /\ TypeOK /\ S \in Shapes /\ Top.shape = S /\ Waits(Top, ret.shape) /\ Top = frames[Len(frames)]
      /\ ret.shape \in Shapes /\ Top \in Record
  BY <1>1, GetsSays
<1>3. 1 \in DOMAIN parents[S] /\ ret.shape = parents[S][1]  BY <1>1, <1>2 DEF Waits, Awaits
<1>4. parents \in [Shapes -> Seq(Shapes)] /\ parents[S] \in Seq(Shapes)  BY <1>2, HeapTyped
<1>5. parents' = parents
  <2> DEFINE p == parents[S]
  <2>1. 1 \in DOMAIN p /\ ret.shape = p[1] /\ p \in Seq(Shapes)  BY <1>3, <1>4
  <2> HIDE DEF p
  <2>2. [p EXCEPT ![1] = ret.shape] = p  BY <2>1
  <2>3. [parents EXCEPT ![S] = p] = parents  BY <1>2, <1>4 DEF p
  <2> QED  BY <1>1, <2>2, <2>3 DEF p
<1>6. ~Merging(Top)  BY <1>1 DEF Merging
<1>7. parents[S] = given.parents[S]
  <2>1. Sourced(given, R, parents, frames)  BY DEF ExtraNow, Extra
  <2>2. Len(frames) \in DOMAIN frames  BY <1>1, <1>2, TopTyped
  <2>3. given.alias[S] = None  BY <1>1, <1>2, <1>6, <2>1, <2>2 DEF Sourced
  <2> QED  BY <1>2, <2>1, <2>3 DEF Sourced
<1>8. HasSource(given, S) /\ << S, ret.shape >> \in R
  <2>1. given.parents[S] # << >>  BY <1>3, <1>7
  <2> QED  BY <1>2, <1>3, <1>7, <2>1 DEF HasSource, ToldNow, Told
<1>9. f \in Record /\ f.shape = S /\ f.at = "parents" /\ f.source = ret.shape
  <2>1. f.shape = Top.shape  BY <1>2 DEF Record
  <2>2. 2 \in Nat \ {0} /\ ret.shape \in Shapes \cup {None}  BY <1>2
  <2>3. f \in Record /\ f.at = "parents" /\ f.source = ret.shape  BY <1>1, <1>2, <2>2 DEF Record
  <2> QED  BY <1>2, <2>1, <2>3
<1> HIDE DEF f
<1>10. ~Merging(f)  BY <1>9 DEF Merging
<1> QED  BY <1>1, <1>2, <1>5, <1>6, <1>8, <1>9, <1>10, GoesOnExtra

\* There are no other parents.
LEMMA OneParent ==
    ASSUME TInv, InOrder, NEW R, NEW D, NEW F, ExtraNow(R, D, F), ToldNow(R, D)
    PROVE  ~OtherParent /\ ~ParentJoined
<1>1. Sourced(given, R, parents, frames)  BY DEF ExtraNow, Extra
<1>2. ASSUME frames # << >>, ret # None, ret.ok, ~Merging(Top)
      PROVE  /\ Top.at # "joined"
             /\ Top.at = "parents" => Top.next = 1
  <2>1. /\ TypeOK /\ S \in Shapes /\ Top.shape = S /\ Waits(Top, ret.shape) /\ Top = frames[Len(frames)]
    BY <1>2, GetsSays
  <2>2. Len(frames) \in DOMAIN frames  BY <1>2, <2>1, TopTyped
  <2>3. Top.at # "joined" /\ (Top.at # "alias" => given.alias[S] = None)  BY <1>1, <1>2, <2>1, <2>2 DEF Sourced
  <2>4. Top.at = "parents" => Top.next \in DOMAIN given.parents[S]  BY <1>1, <2>1, <2>3 DEF Waits, Awaits, Sourced
  <2> QED  BY <2>1, <2>3, <2>4 DEF ToldNow, Told
<1>3. OtherParent => frames # << >> /\ ret # None /\ ret.ok /\ ~Merging(Top) /\ Top.at = "parents" /\ Top.next > 1
  BY DEF OtherParent, Gets, At, Merging
<1>4. ParentJoined => frames # << >> /\ ret # None /\ ret.ok /\ ~Merging(Top) /\ Top.at = "joined"
  BY DEF ParentJoined, Gets, At, Merging
<1> QED  BY <1>2, <1>3, <1>4

LEMMA ParentsDoneExtra ==
    ASSUME TInv, InOrder, NEW R, NEW D, NEW F, ExtraNow(R, D, F), ParentsDone
    PROVE  ExtraNow(R, D, F)'
<1> DEFINE f == [Top EXCEPT !.at = "props", !.next = 1]
<1>1. /\ frames # << >> /\ ret = None /\ Top.at = "parents" /\ given' = given /\ frames' = Becomes(f)
      /\ parents' = parents /\ map' = map /\ entries' = entries /\ facets' = facets /\ unwrapped' = unwrapped
  BY DEF ParentsDone, Calls, At, Unchanged, heap
<1>2. Top \in Record /\ Top.shape = S  BY <1>1, CallsSays
<1>3. f \in Record /\ f.shape = S /\ f.at = "props" /\ f.source = Top.source
  <2>1. f.shape = Top.shape /\ f.source = Top.source  BY <1>2 DEF Record
  <2>2. 1 \in Nat \ {0}  OBVIOUS
  <2>3. f \in Record /\ f.at = "props"  BY <1>2, <2>2 DEF Record
  <2> QED  BY <1>2, <2>1, <2>3
<1> HIDE DEF f
<1>4. ~Merging(f) /\ ~Merging(Top)  BY <1>1, <1>3 DEF Merging
<1> QED  BY <1>1, <1>3, <1>4, GoesOnExtra

LEMMA PropertyReturnsExtra ==
    ASSUME TInv, InOrder, NEW R, NEW D, NEW F, ExtraNow(R, D, F), PropertyReturns
    PROVE  ExtraNow(R, D, F)'
<1> DEFINE f == [Top EXCEPT !.next = @ + 1]
<1>1. /\ frames # << >> /\ ret # None /\ ret.ok /\ Top.at = "props" /\ given' = given /\ frames' = Becomes(f)
      /\ parents' = parents /\ map' = map /\ facets' = facets /\ unwrapped' = unwrapped
  BY DEF PropertyReturns, Gets, At, Unchanged
<1>2. Top \in Record /\ Top.shape = S /\ Top.next \in Nat \ {0}  BY <1>1, GetsSays
<1>3. f \in Record /\ f.shape = S /\ f.at = "props" /\ f.source = Top.source
  <2>1. Top.next + 1 \in Nat \ {0}  BY <1>2
  <2> QED  BY <1>1, <1>2, <2>1, MovedOn
<1> HIDE DEF f
<1>4. ~Merging(f) /\ ~Merging(Top)  BY <1>1, <1>3 DEF Merging
<1> QED  BY <1>1, <1>3, <1>4, PutBack, GoesOnExtra

\* The steps that only return.
LEMMA ReturnsExtra ==
    ASSUME TInv, NEW R, NEW D, NEW F, ExtraNow(R, D, F), SourceMerged \/ InheritReturns \/ PassError
    PROVE  ExtraNow(R, D, F)'
<1>1. /\ frames # << >> /\ given' = given /\ frames' = Below
      /\ parents' = parents /\ map' = map /\ entries' = entries /\ facets' = facets /\ unwrapped' = unwrapped
  BY DEF SourceMerged, InheritReturns, PassError, Gets, Calls, At, Unchanged, heap, Returns
<1>2. TypeOK /\ S \in Shapes  BY <1>1, TopTyped DEF TInv
<1>3. InheritReturns => ret' = Ok(S)  BY DEF InheritReturns, Returns
<1>4. SourceMerged => ret # None /\ ret' = ret  BY DEF SourceMerged, Gets, Returns
<1>5. PassError => ret' = Error  BY DEF PassError
<1>6. ret' # None  BY <1>2, <1>3, <1>4, <1>5, Answers, NoneIsNoResult, ConstantsAssumption
<1> QED  BY <1>1, <1>6, LeavesExtra

\* A list that gets longer still has what a merge has added.
LEMMA StillAdding ==
    ASSUME NEW g, NEW D, NEW F, NEW mp, NEW en, NEW mp2, NEW en2, NEW f, NEW n,
           Adding(g, D, F, mp, en, f, n),
           mp2[f.shape] = mp[f.shape], en2[f.shape] = en[f.shape],
           \A j \in DOMAIN Theirs(mp, en, f.source) :
              /\ j \in DOMAIN Theirs(mp2, en2, f.source)
              /\ Theirs(mp2, en2, f.source)[j] = Theirs(mp, en, f.source)[j]
    PROVE  Adding(g, D, F, mp2, en2, f, n)
<1> DEFINE T  == Theirs(mp, en, f.source)
           T2 == Theirs(mp2, en2, f.source)
<1>1. \A j \in DOMAIN T : j \in DOMAIN T2 /\ T2[j] = T[j]  OBVIOUS
<1>2. /\ mp[f.shape] = f.shape
      /\ \A i \in DOMAIN en[f.shape] : i > Len(g.props[f.shape]) =>
            \E j \in DOMAIN T : j < f.next /\ T[j] = en[f.shape][i]
      /\ \A i \in DOMAIN g.props[f.shape] : g.props[f.shape][i].base \in D =>
            \/ g.props[f.shape][i].base \in F
            \/ \E j \in DOMAIN T : j <= n /\ T[j].name = g.props[f.shape][i].name
  BY DEF Adding
<1> HIDE DEF T, T2
<1>3. \A i \in DOMAIN en2[f.shape] : i > Len(g.props[f.shape]) =>
          \E j \in DOMAIN T2 : j < f.next /\ T2[j] = en2[f.shape][i]
  BY <1>1, <1>2
<1>4. \A i \in DOMAIN g.props[f.shape] : g.props[f.shape][i].base \in D =>
          \/ g.props[f.shape][i].base \in F
          \/ \E j \in DOMAIN T2 : j <= n /\ T2[j].name = g.props[f.shape][i].name
  BY <1>1, <1>2
<1> QED  BY <1>2, <1>3, <1>4 DEF Adding, T2

\* Something is merged into t for the first time.
LEMMA InheritExtra ==
    ASSUME TypeOK, NEW R, NEW D, NEW F \in SUBSET Shapes, NEW G, ToldNow(R, D),
           Covered(given, R, map, entries, facets), Fresh(given, F, map, entries),
           NEW t \in Shapes, NEW s \in Shapes, t \in F, G = F \ {t}, << t, s >> \in R,
           \A i \in DOMAIN given.props[t] : given.props[t][i].base \in D => given.props[t][i].base \in G,
           NEW fs \in Seq(Record), Untouched(given, D, G, unwrapped, fs), Sourced(given, R, parents, fs),
           NEW r, r # None, Merges(given, R, D, G, map, entries, fs, r),
           \A k \in DOMAIN fs : Merging(fs[k]) => fs[k].shape # t,
           Inherit(fs, t, s), given' = given
    PROVE  ExtraNow(R, D, G)'
<1>1. /\ map \in [Shapes -> Shapes \cup {None}] /\ facets \in [Shapes -> SUBSET Shapes]
      /\ entries \in [Shapes -> Seq(Property)] /\ None \notin Shapes
  BY HeapTyped, FramesTyped
<1>2. Fresh(given, G, map, entries)  BY FreshFewer
<1>3. CASE frames' = fs /\ ret' \in {Ok(s), Ok(t), Error}
  <2>1. /\ parents' = parents /\ map' = map /\ entries' = entries /\ facets' = facets /\ unwrapped' = unwrapped
    <3>1. Append(fs, [ shape |-> t, at |-> IF map[t] = None THEN "merged" ELSE "merge",
                       next |-> 1, source |-> s ]) # fs
      <4> DEFINE f == [ shape |-> t, at |-> IF map[t] = None THEN "merged" ELSE "merge",
                        next |-> 1, source |-> s ]
      <4>1. f \in Record  BY DEF Record
      <4> HIDE DEF f
      <4>2. Len(Append(fs, f)) = Len(fs) + 1 /\ Len(fs) \in Nat  BY <4>1, Appended
      <4>3. Append(fs, f) # fs  BY <4>2
      <4> QED  BY <4>3 DEF f
    <3> QED  BY <1>3, <3>1 DEF Inherit, heap
  <2>2. ret' # None
    <3>1. Ok(s) # None /\ Ok(t) # None  BY Answers, ConstantsAssumption
    <3> QED  BY <1>3, <3>1, NoneIsNoResult
  <2>3. \A k : Past(fs, ret', k) = Past(fs, r, k)  BY <2>2 DEF Past
  <2>4. Merges(given, R, D, G, map, entries, fs, ret')  BY <2>3 DEF Merges
  <2> QED  BY <1>2, <1>3, <2>1, <2>4 DEF ExtraNow, Extra
<1>4. CASE ~(frames' = fs /\ ret' \in {Ok(s), Ok(t), Error})
  <2> DEFINE f == [ shape |-> t, at |-> IF map[t] = None THEN "merged" ELSE "merge",
                    next |-> 1, source |-> s ]
             n == Len(fs)
             h == Append(fs, f)
  <2>1. /\ facets' = [facets EXCEPT ![t] = @ \cup facets[s]]
        /\ map' = [map EXCEPT ![t] = IF @ = None THEN map[s] ELSE @]
        /\ frames' = h /\ ret' = None /\ parents' = parents /\ entries' = entries /\ unwrapped' = unwrapped
    BY <1>4 DEF Inherit
  <2>2. /\ f \in Record /\ f.shape = t /\ f.source = s /\ f.next = 1 /\ Merging(f)
        /\ f.at = "merge" => map[t] # None
    BY DEF Record, Merging
  <2> HIDE DEF f
  <2>3. DOMAIN h = 1..n + 1 /\ DOMAIN fs = 1..n /\ h[n + 1] = f /\ (\A k \in 1..n : h[k] = fs[k]) /\ Len(h) = n + 1
    BY <2>2, Appended
  <2>4. n \in Nat  OBVIOUS
  <2> HIDE DEF h, n
  <2>5. \A k \in DOMAIN h : (k = n + 1 /\ h[k] = f) \/ (k \in DOMAIN fs /\ k # n + 1 /\ h[k] = fs[k])
    <3>1. \A k \in 1..n + 1 : k = n + 1 \/ k \in 1..n  BY <2>4
    <3>2. \A k \in 1..n : k # n + 1  BY <2>4
    <3> QED  BY <2>3, <3>1, <3>2
  <2>6. \A x \in Shapes :
            /\ facets'[x] = IF x = t THEN facets[t] \cup facets[s] ELSE facets[x]
            /\ map'[x] = IF x = t /\ map[t] = None THEN map[s] ELSE map[x]
    BY <1>1, <2>1
  <2>7. Told(given, R, D) /\ Within(R, t, s)  BY DEF ToldNow, Within
  <2>8. Covered(given, R, map', entries, facets')
    <3>1. \A x \in facets[s] : Within(R, t, x)
      <4> SUFFICES ASSUME NEW x \in facets[s] PROVE Within(R, t, x)  OBVIOUS
      <4>1. x \in Shapes /\ Within(R, s, x)  BY <1>1 DEF Covered
      <4> QED  BY <2>7, <4>1, WithinKept
    <3>2. map[s] # None => Within(R, t, map[s])
      <4> SUFFICES ASSUME map[s] # None PROVE Within(R, t, map[s])  OBVIOUS
      <4>1. map[s] \in Shapes /\ Within(R, s, map[s])  BY <1>1 DEF Covered
      <4> QED  BY <2>7, <4>1, WithinKept
    <3>3. \A x \in Shapes : \A y \in facets'[x] : Within(R, x, y)  BY <2>6, <3>1 DEF Covered
    <3>4. \A x \in Shapes : map'[x] # None => Within(R, x, map'[x])  BY <2>6, <3>2 DEF Covered
    <3> QED  BY <3>3, <3>4 DEF Covered
  <2>9. Fresh(given, G, map', entries)  BY <1>2, <2>6 DEF Fresh
  <2>10. Untouched(given, D, G, unwrapped, h)
    <3>1. \A k \in DOMAIN h : ~Merging(h[k]) /\ h[k].at # "source" =>
              /\ k \in DOMAIN fs /\ ~Merging(fs[k]) /\ fs[k].at # "source" /\ h[k].shape = fs[k].shape
      BY <2>2, <2>5
    <3> QED  BY <3>1, StillUntouched
  <2>11. Sourced(given, R, parents, h)  BY <2>2, <2>5 DEF Sourced
  <2>12. Past(h, None, n + 1) = 0 /\ \A k \in DOMAIN h : k # n + 1 => Past(h, None, k) = Past(fs, r, k)
    <3>1. Past(h, None, n + 1) = 0  BY <2>2, <2>3, <2>4 DEF Past
    <3>2. \A k \in DOMAIN h : k # n + 1 => Past(h, None, k) = Past(fs, r, k)  BY <2>3, <2>5 DEF Past
    <3> QED  BY <3>1, <3>2
  <2>13. ASSUME f.at = "merge" PROVE Adding(given, D, G, map', entries, f, 0)
    <3>1. map[t] # None /\ map[t] = t /\ entries[t] = given.props[t]  BY <2>2, <2>13 DEF Fresh
    <3>2. map'[t] = t  BY <2>6, <3>1
    <3>3. \A i \in DOMAIN entries[t] : ~(i > Len(given.props[t]))
      <4>1. entries[t] \in Seq(Property)  BY <1>1
      <4> HIDE DEF Property
      <4>2. DOMAIN entries[t] = 1..Len(entries[t]) /\ Len(entries[t]) \in Nat  BY <4>1
      <4> QED  BY <3>1, <4>2
    <3> QED  BY <2>2, <3>2, <3>3 DEF Adding
  <2>14. ASSUME NEW k \in DOMAIN fs, fs[k].at = "merge" PROVE Adding(given, D, G, map', entries, fs[k], Past(fs, r, k))
    <3>1. Merging(fs[k])  BY <2>14 DEF Merging
    <3>2. Adding(given, D, G, map, entries, fs[k], Past(fs, r, k)) /\ fs[k].shape # t /\ fs[k].shape \in Shapes
      <4>1. fs[k] \in Record  OBVIOUS
      <4>2. fs[k].shape \in Shapes  BY <4>1, RecordTyped
      <4> QED  BY <2>14, <3>1, <4>2 DEF Merges
    <3>3. << fs[k].shape, fs[k].source >> \in R  BY <3>1 DEF Merges
    <3>4. fs[k].source \in Shapes  BY <3>3 DEF ToldNow, Told, Pairs
    <3>5. map'[fs[k].shape] = map[fs[k].shape]  BY <2>6, <3>2
    <3> DEFINE T == Theirs(map, entries, fs[k].source)
               T2 == Theirs(map', entries, fs[k].source)
    <3>6. map[fs[k].source] = None \/ map'[fs[k].source] = map[fs[k].source]  BY <2>6, <3>4
    <3>7. \A j \in DOMAIN T : j \in DOMAIN T2 /\ T2[j] = T[j]
      <4>1. CASE map[fs[k].source] = None
        <5>1. T = << >>  BY <4>1 DEF Theirs
        <5> QED  BY <5>1
      <4>2. CASE map'[fs[k].source] = map[fs[k].source]  BY <4>2 DEF Theirs
      <4> QED  BY <3>6, <4>1, <4>2
    <3> QED  BY <3>2, <3>5, <3>7, StillAdding
  <2>15. Merges(given, R, D, G, map', entries, h, None)
    <3>1. ASSUME NEW k \in DOMAIN h, Merging(h[k])
          PROVE  /\ << h[k].shape, h[k].source >> \in R
                 /\ h[k].shape \notin G
                 /\ h[k].at = "merge" => Adding(given, D, G, map', entries, h[k], Past(h, None, k))
      <4>1. CASE k = n + 1  BY <2>2, <2>3, <2>12, <2>13, <4>1
      <4>2. CASE k # n + 1
        <5>1. k \in DOMAIN fs /\ h[k] = fs[k] /\ Past(h, None, k) = Past(fs, r, k)  BY <2>5, <2>12, <4>2
        <5> QED  BY <2>14, <3>1, <5>1 DEF Merges
      <4> QED  BY <4>1, <4>2
    <3>2. \A j, k \in DOMAIN h : Merging(h[j]) /\ Merging(h[k]) /\ j # k => h[j].shape # h[k].shape
      BY <2>2, <2>5 DEF Merges
    <3> QED  BY <3>1, <3>2 DEF Merges
  <2> QED  BY <2>1, <2>8, <2>9, <2>10, <2>11, <2>15 DEF ExtraNow, Extra
<1> QED  BY <1>3, <1>4

\* A type is merged with what its parent gave.
LEMMA MergeSourceExtra ==
    ASSUME TInv, InOrder, NEW R, NEW D, NEW F \in SUBSET Shapes, ExtraNow(R, D, F), ToldNow(R, D), MergeSource
    PROVE  \E G \in SUBSET Shapes : ExtraNow(R, D, G)'
<1>1. frames # << >> /\ ret = None /\ Top.at = "props" /\ given' = given
  BY DEF MergeSource, Calls, At, Unchanged
<1>2. /\ TypeOK /\ S \in Shapes /\ Top.shape = S /\ Top = frames[Len(frames)] /\ Top \in Record /\ Now(frames)
      /\ Len(frames) \in DOMAIN frames /\ Top.source \in Shapes \cup {None}
  BY <1>1, CallsSays, TopTyped
<1>3. ~Merging(Top)  BY <1>1 DEF Merging
<1>4. \A k \in DOMAIN frames : ~Merging(frames[k])  BY <1>2, <1>3, NotMerging
<1>5. /\ Covered(given, R, map, entries, facets) /\ Fresh(given, F, map, entries)
      /\ Untouched(given, D, F, unwrapped, frames) /\ Sourced(given, R, parents, frames)
  BY DEF ExtraNow, Extra
<1>6. CASE Top.source = None
  <2>1. /\ frames' = Below /\ ret' = Ok(S) /\ parents' = parents /\ map' = map /\ entries' = entries
        /\ facets' = facets /\ unwrapped' = unwrapped
    BY <1>6 DEF MergeSource, Returns, heap
  <2>2. ret' # None  BY <1>2, <2>1, Answers, ConstantsAssumption
  <2> QED  BY <1>1, <2>1, <2>2, LeavesExtra
<1>7. CASE Top.source # None
  <2> DEFINE f == [Top EXCEPT !.at = "source"]
             t == S
             s == Top.source
  <2>0. s \in Shapes /\ t \in Shapes  BY <1>2, <1>7
  <2> PICK G : G = F \ {S}  OBVIOUS
  <2>1. Inherit(Becomes(f), t, s)  BY <1>7 DEF MergeSource
  <2>2. f \in Record /\ f.shape = S /\ f.at = "source" /\ f.source = Top.source  BY <1>2, MovedTo
  <2> HIDE DEF f
  <2>3. HasSource(given, t) /\ << t, s >> \in R  BY <1>2, <1>3, <1>5, <1>7 DEF Sourced
  <2>4. t \in F  BY <1>1, <1>2, <1>3, <1>5, <2>3 DEF Untouched
  <2>5. t \notin D  BY <2>3 DEF ToldNow, Told
  <2>6. \A o \in F : \A i \in DOMAIN given.props[o] : given.props[o][i].base \in D => given.props[o][i].base \in G
    BY <1>5, <2>5 DEF Untouched
  <2> DEFINE fs == Becomes(f)
  <2>7. /\ fs \in Seq(Record) /\ DOMAIN fs = DOMAIN frames /\ fs[Len(frames)] = f
        /\ \A k \in DOMAIN frames : k # Len(frames) => fs[k] = frames[k]
    BY <1>1, <1>2, <2>2, BecomesTyped
  <2> HIDE DEF fs
  <2>8. /\ ~Merging(f)
        /\ \A k \in DOMAIN fs : ~Merging(fs[k]) /\ fs[k].shape = frames[k].shape /\ fs[k].source = frames[k].source
    BY <1>2, <1>4, <2>2, <2>7 DEF Merging
  <2>9. unwrapped[t] /\ \A k \in DOMAIN frames : k # Len(frames) => frames[k].shape # t
    BY <1>2, <1>4 DEF Now, Ordered, Once
  <2>10. Untouched(given, D, G, unwrapped, fs)
    <3>1. \A x \in Shapes : HasSource(given, x) /\ ~unwrapped[x] => x \in G  BY <1>5, <2>9 DEF Untouched
    <3>2. \A k \in DOMAIN fs : ~Merging(fs[k]) /\ fs[k].at # "source" /\ HasSource(given, fs[k].shape)
                                  => fs[k].shape \in G
      <4> SUFFICES ASSUME NEW k \in DOMAIN fs, fs[k].at # "source", HasSource(given, fs[k].shape)
                   PROVE  fs[k].shape \in G
        OBVIOUS
      <4>1. k # Len(frames)  BY <2>2, <2>7
      <4>2. k \in DOMAIN frames /\ fs[k] = frames[k]  BY <2>7, <4>1
      <4>3. frames[k].shape \in F  BY <1>4, <1>5, <4>2 DEF Untouched
      <4> QED  BY <2>9, <4>1, <4>2, <4>3
    <3> QED  BY <2>6, <3>1, <3>2 DEF Untouched
  <2>11. Sourced(given, R, parents, fs)
    <3>1. \A k \in DOMAIN fs : ~Merging(fs[k]) =>
              /\ k \in DOMAIN frames /\ ~Merging(frames[k]) /\ fs[k].shape = frames[k].shape
              /\ fs[k].source = frames[k].source /\ fs[k].at # "joined"
              /\ fs[k].at # "alias" => frames[k].at # "alias"
      <4> SUFFICES ASSUME NEW k \in DOMAIN fs
                   PROVE  fs[k].at # "joined" /\ (fs[k].at # "alias" => frames[k].at # "alias")
        BY <1>4, <2>7, <2>8
      <4>1. CASE k = Len(frames)  BY <1>1, <1>2, <2>2, <2>7, <4>1
      <4>2. CASE k # Len(frames)
        <5>1. fs[k] = frames[k] /\ k \in DOMAIN frames  BY <2>7, <4>2
        <5> QED  BY <1>4, <1>5, <5>1 DEF Sourced
      <4> QED  BY <4>1, <4>2
    <3> QED  BY <1>5, <3>1, StillSourced
  <2> DEFINE r == Ok(t)
  <2>12. r # None  BY <2>0, Answers, ConstantsAssumption
  <2> HIDE DEF r
  <2>13. Merges(given, R, D, G, map, entries, fs, r)  BY <2>8, NoMerges
  <2>14. Inherit(fs, t, s)  BY <2>1 DEF fs
  <2>15. \A i \in DOMAIN given.props[t] : given.props[t][i].base \in D => given.props[t][i].base \in G
    BY <2>4, <2>6
  <2>16. G = F \ {t} /\ << t, s >> \in R /\ \A k \in DOMAIN fs : Merging(fs[k]) => fs[k].shape # t
    BY <2>3, <2>8
  <2> HIDE DEF t, s
  <2>17. ExtraNow(R, D, G)'
    BY <1>1, <1>2, <1>5, <2>0, <2>4, <2>7, <2>10, <2>11, <2>12, <2>13, <2>14, <2>15, <2>16, InheritExtra
  <2>18. G \in SUBSET Shapes  OBVIOUS
  <2> QED  BY <2>17, <2>18
<1> QED  BY <1>6, <1>7

\* inheritProperties goes on: with a property added, or merged by now.
LEMMA NextPropertyExtra ==
    ASSUME TypeOK, NEW R, NEW D, NEW F, frames # << >>, Top.at = "merge", NEW r,
           Merges(given, R, D, F, map, entries, frames, r),
           NEW f \in Record, f.at = "merge", f.shape = S, f.source = Top.source, f.next = Top.next + 1,
           NEW en2, \A x \in Shapes : x \notin {S} => en2[x] = entries[x],
           \A x \in Shapes : \A j \in DOMAIN entries[x] : j \in DOMAIN en2[x] /\ en2[x][j] = entries[x][j],
           Adding(given, D, F, map, en2, f, Top.next), R \subseteq Pairs
    PROVE  Merges(given, R, D, F, map, en2, Becomes(f), None)
<1> DEFINE fs == Becomes(f)
           n == Len(frames)
<1>1. /\ fs \in Seq(Record) /\ DOMAIN fs = DOMAIN frames /\ fs[n] = f /\ Len(fs) = n /\ frames[n] = Top
      /\ \A k \in DOMAIN frames : k # n => fs[k] = frames[k]
      /\ n \in DOMAIN frames /\ Top.next \in Nat
  BY BecomesTyped, TopTyped
<1> HIDE DEF fs, n
<1>2. Merging(f) /\ Merging(frames[n]) /\ f.shape = frames[n].shape /\ f.source = frames[n].source
  BY <1>1 DEF Merging, S
<1>3. \A k \in DOMAIN fs : /\ Merging(fs[k]) <=> Merging(frames[k])
                           /\ fs[k].shape = frames[k].shape /\ fs[k].source = frames[k].source
  BY <1>1, <1>2
<1>4. Past(fs, None, n) = Top.next /\ \A k \in DOMAIN fs : k # n => Past(fs, None, k) = Past(frames, r, k)
  <2>1. Past(fs, None, n) = Top.next  BY <1>1 DEF Past
  <2>2. \A k \in DOMAIN fs : k # n => Past(fs, None, k) = Past(frames, r, k)  BY <1>1 DEF Past, n
  <2> QED  BY <2>1, <2>2
<1>5. ASSUME NEW k \in DOMAIN fs, fs[k].at = "merge"
      PROVE  Adding(given, D, F, map, en2, fs[k], Past(fs, None, k))
  <2>1. CASE k = n  BY <1>1, <1>4, <2>1
  <2>2. CASE k # n
    <3>1. k \in DOMAIN frames /\ fs[k] = frames[k] /\ Past(fs, None, k) = Past(frames, r, k)  BY <1>1, <1>4, <2>2
    <3>2. Merging(frames[k])  BY <1>5, <3>1 DEF Merging
    <3>3. /\ Adding(given, D, F, map, entries, fs[k], Past(fs, None, k))
          /\ fs[k].shape # frames[n].shape /\ << fs[k].shape, fs[k].source >> \in R
      BY <1>1, <1>2, <1>5, <2>2, <3>1, <3>2 DEF Merges
    <3>4. fs[k].shape # S /\ fs[k].shape \in Shapes /\ fs[k].source \in Shapes  BY <1>1, <3>3 DEF S, Pairs
    <3>5. en2[fs[k].shape] = entries[fs[k].shape]  BY <3>4
    <3>6. map[fs[k].source] = None \/ map[fs[k].source] \in Shapes  BY <3>4, HeapTyped
    <3>7. \A j \in DOMAIN Theirs(map, entries, fs[k].source) :
              /\ j \in DOMAIN Theirs(map, en2, fs[k].source)
              /\ Theirs(map, en2, fs[k].source)[j] = Theirs(map, entries, fs[k].source)[j]
      <4>1. CASE map[fs[k].source] = None  BY <4>1 DEF Theirs
      <4>2. CASE map[fs[k].source] \in Shapes /\ map[fs[k].source] # None  BY <4>2 DEF Theirs
      <4> QED  BY <3>6, <4>1, <4>2
    <3> QED  BY <3>3, <3>5, <3>7, StillAdding
  <2> QED  BY <2>1, <2>2
<1>6. Merges(given, R, D, F, map, en2, fs, None)
  <2>1. \A k \in DOMAIN fs : Merging(fs[k]) => << fs[k].shape, fs[k].source >> \in R /\ fs[k].shape \notin F
    BY <1>1, <1>3 DEF Merges
  <2>2. \A j, k \in DOMAIN fs : Merging(fs[j]) /\ Merging(fs[k]) /\ j # k => fs[j].shape # fs[k].shape
    BY <1>1, <1>3 DEF Merges
  <2> QED  BY <1>5, <2>1, <2>2 DEF Merges
<1> QED  BY <1>6 DEF fs

LEMMA PropertyMergedExtra ==
    ASSUME TInv, InOrder, NEW R, NEW D, NEW F, ExtraNow(R, D, F), ToldNow(R, D), PropertyMerged
    PROVE  ExtraNow(R, D, F)'
<1> DEFINE f == [Top EXCEPT !.next = @ + 1]
<1>1. /\ frames # << >> /\ ret # None /\ ret.ok /\ Top.at = "merge" /\ given' = given /\ frames' = Becomes(f) /\ ret' = None
      /\ parents' = parents /\ map' = map /\ entries' = entries /\ facets' = facets /\ unwrapped' = unwrapped
  BY DEF PropertyMerged, Gets, At, Unchanged, heap
<1>2. /\ TypeOK /\ Top \in Record /\ Top.shape = S /\ Top.next \in Nat \ {0} /\ Top = frames[Len(frames)]
      /\ Len(frames) \in DOMAIN frames
  BY <1>1, GetsSays, TopTyped
<1>3. f \in Record /\ f.shape = S /\ f.at = "merge" /\ f.source = Top.source /\ f.next = Top.next + 1
  <2>1. Top.next + 1 \in Nat \ {0}  BY <1>2
  <2> QED  BY <1>1, <1>2, <2>1, MovedOn
<1> HIDE DEF f
<1>4. /\ Covered(given, R, map, entries, facets) /\ Fresh(given, F, map, entries)
      /\ Untouched(given, D, F, unwrapped, frames) /\ Sourced(given, R, parents, frames)
      /\ Merges(given, R, D, F, map, entries, frames, ret)
  BY DEF ExtraNow, Extra
<1>5. Merging(Top) /\ Merging(f)  BY <1>1, <1>3 DEF Merging
<1>6. Adding(given, D, F, map, entries, Top, Top.next)
  <2>1. Past(frames, ret, Len(frames)) = Top.next  BY <1>1, <1>2 DEF Past
  <2> QED  BY <1>1, <1>2, <1>4, <1>5, <2>1 DEF Merges
<1>7. Adding(given, D, F, map, entries, f, Top.next)
  <2> DEFINE T == Theirs(map, entries, Top.source)
  <2>1. \A j \in DOMAIN T : j < Top.next => j < f.next
    <3>1. T \in Seq(Property)
      <4>1. Top.source \in Shapes  BY <1>1, CallsSays, GetsSays DEF Sound
      <4>2. T = PropsOf(Top.source)  BY DEF Theirs, PropsOf
      <4> QED  BY <1>2, <4>1, <4>2, PropsTyped
    <3>2. \A j \in DOMAIN T : j \in Nat
      <4> HIDE DEF T, Property
      <4> QED  BY <3>1
    <3> QED  BY <1>2, <1>3, <3>2
  <2> QED  BY <1>2, <1>3, <1>6, <2>1 DEF Adding
<1>8. R \subseteq Pairs  BY DEF ToldNow, Told
<1>9. Merges(given, R, D, F, map, entries, Becomes(f), None)  BY <1>1, <1>2, <1>3, <1>4, <1>7, <1>8, NextPropertyExtra
<1>10. \A k \in DOMAIN Becomes(f) : ~Merging(Becomes(f)[k]) => k \in DOMAIN frames /\ Becomes(f)[k] = frames[k]
  BY <1>1, <1>2, <1>3, <1>5, BecomesTyped
<1>11. Untouched(given, D, F, unwrapped, Becomes(f))  BY <1>4, <1>10, StillUntouched
<1>12. Sourced(given, R, parents, Becomes(f))  BY <1>4, <1>10 DEF Sourced
<1> QED  BY <1>1, <1>4, <1>9, <1>11, <1>12 DEF ExtraNow, Extra

\* A property is added, or the parent's is merged into one that redeclares it: that is
\* done once, as no other property of the parent has the same name.
LEMMA MergePropertyExtra ==
    ASSUME TInv, InOrder, WellFormed(given), NEW R, NEW D, NEW F \in SUBSET Shapes, ExtraNow(R, D, F),
           ToldNow(R, D), MergeProperty
    PROVE  \E G \in SUBSET Shapes : ExtraNow(R, D, G)'
<1> DEFINE n      == Top.next
           T      == Theirs(map, entries, Top.source)
           theirs == T[n]
           Ours   == {i \in DOMAIN PropsOf(S) : PropsOf(S)[i].name = theirs.name}
           f      == [Top EXCEPT !.next = @ + 1]
<1>1. /\ frames # << >> /\ ret = None /\ Top.at = "merge" /\ given' = given /\ n <= Len(PropsOf(Top.source))
  BY DEF MergeProperty, Calls, At, Unchanged
<1>2. /\ TypeOK /\ S \in Shapes /\ Top \in Record /\ Top.source \in Shapes /\ n \in Nat \ {0} /\ Top.shape = S
      /\ Top = frames[Len(frames)] /\ Len(frames) \in DOMAIN frames /\ Kept(given, entries, result)
      /\ frames \in Seq(Record)
  BY <1>1, CallsSays, TopTyped, FramesTyped DEF Sound
<1>3. /\ Covered(given, R, map, entries, facets) /\ Fresh(given, F, map, entries)
      /\ Untouched(given, D, F, unwrapped, frames) /\ Sourced(given, R, parents, frames)
      /\ Merges(given, R, D, F, map, entries, frames, ret)
  BY DEF ExtraNow, Extra
<1>4. Merging(Top)  BY <1>1 DEF Merging
<1>5. T = PropsOf(Top.source)  BY DEF Theirs, PropsOf
<1>6. /\ T \in Seq(Property) /\ n \in DOMAIN T /\ (\A j \in DOMAIN T : j \in Nat /\ T[j] \in Property)
      /\ map[Top.source] \in Shapes /\ T = entries[map[Top.source]] /\ map[Top.source] # None
  <2>1. T \in Seq(Property) /\ DOMAIN T = 1..Len(T) /\ n \in DOMAIN T  BY <1>1, <1>2, <1>5, PropsTyped
  <2>2. map[Top.source] \in Shapes /\ T = entries[map[Top.source]]  BY <1>2, <1>5, <2>1, PropsTyped
  <2> HIDE DEF T
  <2>3. \A j \in DOMAIN T : j \in Nat /\ T[j] \in Property
    <3> HIDE DEF Property
    <3> QED  BY <2>1
  <2> QED  BY <1>2, <2>1, <2>2, <2>3, FramesTyped
<1>7. /\ << S, Top.source >> \in R /\ S \notin F /\ Adding(given, D, F, map, entries, Top, n - 1)
  <2>1. Past(frames, ret, Len(frames)) = n - 1  BY <1>1, <1>2 DEF Past
  <2> QED  BY <1>1, <1>2, <1>3, <1>4, <2>1 DEF Merges
<1>8. map[S] = S /\ PropsOf(S) = entries[S] /\ entries[S] \in Seq(Property) /\ S # None
  <2>1. map[S] = S /\ S # None  BY <1>2, <1>7, FramesTyped DEF Adding
  <2> QED  BY <1>2, <2>1, HeapTyped DEF PropsOf
<1>9. \A j \in DOMAIN T : T[j].name = theirs.name => j = n  BY <1>3, <1>6 DEF Covered
<1>10. Told(given, R, D) /\ R \subseteq Pairs  BY DEF ToldNow, Told
\* theirs is declared by something S narrows.
<1>11. PICK t2 \in Shapes : << S, t2 >> \in R /\ Declares(given, t2, theirs)
  <2>1. PICK t2 \in Shapes : Within(R, map[Top.source], t2) /\ Declares(given, t2, theirs)
    BY <1>3, <1>6 DEF Covered
  <2>2. Within(R, Top.source, map[Top.source])  BY <1>2, <1>3, <1>6 DEF Covered
  <2>3. Within(R, Top.source, t2)  BY <1>2, <1>6, <1>10, <2>1, <2>2, WithinKept
  <2>4. << S, t2 >> \in R  BY <1>2, <1>7, <1>10, <2>3 DEF Within, Told
  <2> QED  BY <2>1, <2>4
<1>12. theirs \in Property /\ theirs.base \in Shapes  BY <1>6 DEF Property
<1>13. PropsOf(Top.source)[Top.next] = theirs  BY <1>5
<1>14. CASE Ours = {}
  <2>1. /\ entries' = [entries EXCEPT ![S] = Append(@, theirs)] /\ frames' = Becomes(f) /\ ret' = None
        /\ parents' = parents /\ map' = map /\ facets' = facets /\ unwrapped' = unwrapped
    <3>1. {i \in DOMAIN PropsOf(S) : PropsOf(S)[i].name = PropsOf(Top.source)[Top.next].name} = {}
      BY <1>13, <1>14
    <3>2. /\ entries' = [entries EXCEPT ![map[S]] = Append(@, PropsOf(Top.source)[Top.next])]
          /\ frames' = Becomes([Top EXCEPT !.next = @ + 1]) /\ ret' = None
          /\ parents' = parents /\ map' = map /\ facets' = facets /\ unwrapped' = unwrapped
      BY <1>1, <3>1 DEF MergeProperty
    <3> HIDE DEF theirs, Ours
    <3> QED  BY <1>8, <1>13, <3>2
  <2>2. f \in Record /\ f.shape = S /\ f.at = "merge" /\ f.source = Top.source /\ f.next = Top.next + 1
    <3>1. Top.next + 1 \in Nat \ {0}  BY <1>2
    <3> QED  BY <1>1, <1>2, <3>1, MovedOn
  <2> DEFINE e == entries[S]
  <2>3. entries \in [Shapes -> Seq(Property)]  BY <1>2, HeapTyped
  <2>4. \A x \in Shapes : entries'[x] = IF x = S THEN Append(e, theirs) ELSE entries[x]  BY <2>1, <2>3
  <2>5. \A i \in DOMAIN e : e[i].name # theirs.name  BY <1>8, <1>14
  <2>6. e \in Seq(Property) /\ theirs \in Property  BY <1>8, <1>12
  <2> HIDE DEF e, theirs, T, Ours, f, n
  <2>7. LET h == Append(e, theirs)
        IN  /\ DOMAIN h = 1..Len(e) + 1 /\ DOMAIN e = 1..Len(e) /\ Len(e) \in Nat /\ h[Len(e) + 1] = theirs
            /\ \A i \in DOMAIN e : i \in DOMAIN h /\ h[i] = e[i]
            /\ \A i \in DOMAIN h : i = Len(e) + 1 \/ i \in DOMAIN e
    <3> HIDE DEF Property
    <3>1. DOMAIN e = 1..Len(e) /\ Len(e) \in Nat  BY <2>6
    <3>2. /\ Append(e, theirs) \in Seq(Property) /\ Len(Append(e, theirs)) = Len(e) + 1
          /\ \A i \in 1..Len(e) : Append(e, theirs)[i] = e[i]
          /\ Append(e, theirs)[Len(e) + 1] = theirs
      BY <2>6, AppendProperties
    <3>3. DOMAIN Append(e, theirs) = 1..Len(e) + 1  BY <3>2
    <3>4. \A i \in 1..Len(e) + 1 : i = Len(e) + 1 \/ i \in 1..Len(e)  BY <3>1
    <3> QED  BY <3>1, <3>2, <3>3, <3>4
  <2>8. \A x \in Shapes : \A j \in DOMAIN entries[x] : j \in DOMAIN entries'[x] /\ entries'[x][j] = entries[x][j]
    BY <2>4, <2>7 DEF e
  <2>9. Covered(given, R, map, entries', facets)
    <3>1. ASSUME NEW x \in Shapes, NEW k \in DOMAIN entries'[x]
          PROVE  \E t \in Shapes : Within(R, x, t) /\ Declares(given, t, entries'[x][k])
      <4>1. CASE k \in DOMAIN entries[x]
        <5>1. entries'[x][k] = entries[x][k]  BY <2>8, <4>1
        <5> QED  BY <1>3, <4>1, <5>1 DEF Covered
      <4>2. CASE k \notin DOMAIN entries[x]
        <5>1. x = S /\ entries'[x][k] = theirs  BY <2>4, <2>7, <4>2 DEF e
        <5> QED  BY <1>11, <5>1 DEF Within
      <4> QED  BY <4>1, <4>2
    <3>2. ASSUME NEW x \in Shapes, NEW k \in DOMAIN entries'[x], NEW l \in DOMAIN entries'[x],
                 entries'[x][k].name = entries'[x][l].name
          PROVE  k = l
      <4>1. CASE x # S
        <5>1. entries'[x] = entries[x]  BY <2>4, <4>1
        <5>2. k \in DOMAIN entries[x] /\ l \in DOMAIN entries[x] /\ entries[x][k].name = entries[x][l].name
          BY <3>2, <5>1
        <5> QED  BY <1>3, <5>2 DEF Covered
      <4>2. CASE x = S
        <5>1. entries'[x] = Append(e, theirs)  BY <2>4, <4>2
        <5> DEFINE h == entries'[x]
        <5>2. /\ \A i \in DOMAIN h : (i = Len(e) + 1 /\ h[i] = theirs) \/ (i \in DOMAIN e /\ h[i] = e[i])
          BY <2>7, <5>1
        <5>3. k \in DOMAIN h /\ l \in DOMAIN h /\ h[k].name = h[l].name  BY <3>2
        <5> HIDE DEF h
        <5>4. (k = Len(e) + 1 /\ h[k] = theirs) \/ (k \in DOMAIN e /\ h[k] = e[k])  BY <5>2, <5>3
        <5>5. (l = Len(e) + 1 /\ h[l] = theirs) \/ (l \in DOMAIN e /\ h[l] = e[l])  BY <5>2, <5>3
        <5>6. \A i, j \in DOMAIN e : e[i].name = e[j].name => i = j  BY <1>2, <1>3 DEF Covered, e
        <5> QED  BY <2>5, <5>3, <5>4, <5>5, <5>6
      <4> QED  BY <4>1, <4>2
    <3> QED  BY <1>3, <3>1, <3>2 DEF Covered
  <2>10. Fresh(given, F, map, entries')
    <3>1. \A s \in F : entries'[s] = entries[s]  BY <1>7, <2>4
    <3> QED  BY <1>3, <3>1 DEF Fresh
  <2>11. Adding(given, D, F, map, entries', f, Top.next)
    <3> DEFINE T2 == Theirs(map, entries', Top.source)
               o  == given.props[S]
    <3>1. \A j \in DOMAIN T : j \in DOMAIN T2 /\ T2[j] = T[j]  BY <1>6, <2>8 DEF Theirs
    <3>2. /\ \A i \in DOMAIN e : i > Len(o) => \E j \in DOMAIN T : j < n /\ T[j] = e[i]
          /\ \A i \in DOMAIN o : o[i].base \in D => \/ o[i].base \in F
                                                    \/ \E j \in DOMAIN T : j <= n - 1 /\ T[j].name = o[i].name
      BY <1>2, <1>7 DEF Adding, T, e, n
    <3> HIDE DEF T2, o
    <3>3. f.next = n + 1 /\ n \in Nat /\ n \in DOMAIN T /\ T[n] = theirs /\ \A j \in DOMAIN T : j \in Nat
      BY <1>2, <1>6, <2>2 DEF n, theirs
    <3>4. ASSUME NEW i \in DOMAIN entries'[S], i > Len(o)
          PROVE  \E j \in DOMAIN T2 : j < f.next /\ T2[j] = entries'[S][i]
      <4>0. entries'[S] = Append(e, theirs)  BY <1>2, <2>4
      <4>1. CASE i = Len(e) + 1
        <5>1. entries'[S][i] = T[n]  BY <2>7, <3>3, <4>0, <4>1
        <5>2. n < f.next  BY <3>3
        <5> QED  BY <3>1, <3>3, <5>1, <5>2
      <4>2. CASE i # Len(e) + 1
        <5>1. i \in DOMAIN e /\ entries'[S][i] = e[i]  BY <2>7, <4>0, <4>2
        <5>2. PICK j \in DOMAIN T : j < n /\ T[j] = e[i]  BY <3>2, <3>4, <5>1
        <5>3. j < f.next  BY <3>3, <5>2
        <5> QED  BY <3>1, <5>1, <5>2, <5>3
      <4> QED  BY <4>1, <4>2
    <3>5. ASSUME NEW i \in DOMAIN o, o[i].base \in D, o[i].base \notin F
          PROVE  \E j \in DOMAIN T2 : j <= Top.next /\ T2[j].name = o[i].name
      <4>1. PICK j \in DOMAIN T : j <= n - 1 /\ T[j].name = o[i].name  BY <3>2, <3>5
      <4>2. j <= Top.next  BY <3>3, <4>1 DEF n
      <4> QED  BY <3>1, <4>1, <4>2
    <3> QED  BY <1>8, <2>2, <3>4, <3>5 DEF Adding, T2, o
  <2>12. Merges(given, R, D, F, map, entries', Becomes(f), None)
    <3> DEFINE en2 == entries'
    <3>1. /\ \A x \in Shapes : x \notin {S} => en2[x] = entries[x]
          /\ \A x \in Shapes : \A j \in DOMAIN entries[x] : j \in DOMAIN en2[x] /\ en2[x][j] = entries[x][j]
          /\ Adding(given, D, F, map, en2, f, Top.next)
      BY <2>4, <2>8, <2>11
    <3> HIDE DEF en2
    <3>2. Merges(given, R, D, F, map, en2, Becomes(f), None)  BY <1>1, <1>2, <1>3, <1>10, <2>2, <3>1, NextPropertyExtra
    <3> QED  BY <3>2 DEF en2
  <2>13. \A k \in DOMAIN Becomes(f) : ~Merging(Becomes(f)[k]) => k \in DOMAIN frames /\ Becomes(f)[k] = frames[k]
    <3>1. Merging(f)  BY <2>2 DEF Merging
    <3> QED  BY <1>1, <1>2, <2>2, <3>1, BecomesTyped
  <2>14. Untouched(given, D, F, unwrapped, Becomes(f))  BY <1>3, <2>13, StillUntouched
  <2>15. Sourced(given, R, parents, Becomes(f))  BY <1>3, <2>13 DEF Sourced
  <2>16. ExtraNow(R, D, F)'  BY <1>1, <2>1, <2>9, <2>10, <2>12, <2>14, <2>15 DEF ExtraNow, Extra
  <2> QED  BY <2>16
<1>15. CASE Ours # {}
  <2> DEFINE o == given.props[S]
  <2>1. PICK i \in Ours : Inherit(frames, PropsOf(S)[i].base, theirs.base)  BY <1>13, <1>15 DEF MergeProperty
  <2>2. i \in DOMAIN entries[S] /\ entries[S][i].name = theirs.name  BY <1>8, <2>1
  <2> PICK t : t = entries[S][i].base  OBVIOUS
  <2> PICK s : s = theirs.base  OBVIOUS
  <2> PICK G : G = F \ {t}  OBVIOUS
  <2>3. Inherit(frames, t, s)  BY <1>8, <2>1
  <2>4. o \in Seq(Property) /\ DOMAIN o = 1..Len(o) /\ Len(o) \in Nat /\ \A k \in DOMAIN o : o[k] \in Property
    <3>1. o \in Seq(Property)  BY <1>2, OwnTyped
    <3> HIDE DEF o, Property
    <3> QED  BY <3>1
  \* Not one that the merge has added.
  <2>5. i \in DOMAIN o /\ o[i] = entries[S][i]
    <3>1. i \in 1..Len(entries[S]) /\ Len(entries[S]) \in Nat
      <4> HIDE DEF Property
      <4> QED  BY <1>8, <2>2
    <3>2. ~(i > Len(o))
      <4> SUFFICES ASSUME i > Len(o) PROVE FALSE  OBVIOUS
      <4>1. PICK j \in DOMAIN T : j < n /\ T[j] = entries[S][i]  BY <1>2, <1>7, <2>2 DEF Adding
      <4>2. j = n  BY <1>9, <2>2, <4>1
      <4> QED  BY <1>2, <1>6, <4>1, <4>2
    <3>3. i \in DOMAIN o  BY <2>4, <3>1, <3>2
    <3> QED  BY <1>2, <3>3 DEF Kept
  <2>6. o[i].base = t /\ o[i].name = theirs.name /\ t \in Shapes /\ s \in Shapes
    <3>1. o[i] \in Property  BY <2>4, <2>5
    <3> QED  BY <1>12, <2>2, <2>5, <3>1 DEF Property
  <2>7. << t, s >> \in R /\ t \in D
    <3>1. PICK l \in DOMAIN given.props[t2] : given.props[t2][l] = theirs  BY <1>11 DEF Declares
    <3>2. o[i].name = given.props[t2][l].name /\ given.props[t2][l].base = s  BY <2>6, <3>1
    <3>3. \A k \in DOMAIN given.props[S] : \A m \in DOMAIN given.props[t2] :
              given.props[S][k].name = given.props[t2][m].name =>
                  << given.props[S][k].base, given.props[t2][m].base >> \in R /\ given.props[S][k].base \in D
      BY <1>2, <1>10, <1>11 DEF Told
    <3> HIDE DEF theirs, T
    <3>4. << o[i].base, given.props[t2][l].base >> \in R /\ o[i].base \in D  BY <2>5, <3>2, <3>3
    <3> QED  BY <2>6, <3>2, <3>4
  <2>8. t \in F
    <3> SUFFICES ASSUME t \notin F PROVE FALSE  OBVIOUS
    <3>1. PICK j \in DOMAIN T : j <= n - 1 /\ T[j].name = o[i].name  BY <1>2, <1>7, <2>5, <2>6, <2>7 DEF Adding
    <3>2. j = n  BY <1>9, <2>6, <3>1
    <3> QED  BY <1>2, <1>6, <3>1, <3>2
  <2>9. \A x \in Shapes : \A k \in DOMAIN given.props[x] : given.props[x][k].base = t => x = S /\ k = i
    BY <1>2, <2>5, <2>6 DEF WellFormed
  <2>10. \A x \in Shapes : x # S => \A k \in DOMAIN given.props[x] : given.props[x][k].base # t  BY <2>9
  <2>11. ~HasSource(given, t)  BY <1>10, <2>7 DEF Told
  <2>12. Untouched(given, D, G, unwrapped, frames)
    <3>1. \A x \in Shapes : HasSource(given, x) /\ ~unwrapped[x] => x \in G  BY <1>3, <2>11 DEF Untouched
    <3>2. \A k \in DOMAIN frames : ~Merging(frames[k]) /\ frames[k].at # "source" /\ HasSource(given, frames[k].shape)
                                      => frames[k].shape \in G
      BY <1>3, <2>11 DEF Untouched
    <3>3. \A x \in G : \A k \in DOMAIN given.props[x] : given.props[x][k].base \in D => given.props[x][k].base \in G
      BY <1>3, <1>7, <2>10 DEF Untouched
    <3> QED  BY <3>1, <3>2, <3>3 DEF Untouched
  <2>13. \A k \in DOMAIN given.props[t] : given.props[t][k].base \in D => given.props[t][k].base \in G
    <3>1. t # S  BY <1>7, <2>8
    <3> QED  BY <1>3, <2>6, <2>8, <2>10, <3>1 DEF Untouched
  <2> PICK r : r = Ok(t)  OBVIOUS
  <2>14. r # None  BY <2>6, Answers, ConstantsAssumption
  <2>15. ASSUME NEW k \in DOMAIN frames, frames[k].at = "merge"
         PROVE  Adding(given, D, G, map, entries, frames[k], Past(frames, r, k))
    <3>1. Merging(frames[k]) /\ Past(frames, r, k) = frames[k].next  BY <2>14, <2>15 DEF Merging, Past
    <3>2. frames[k] \in Record /\ frames[k].shape \in Shapes  BY <1>2, RecordTyped
    <3>3. CASE k = Len(frames)
      <4>1. frames[k] = Top /\ Past(frames, r, k) = n  BY <1>2, <3>1, <3>3
      <4>2. ASSUME NEW l \in DOMAIN o, o[l].base \in D, o[l].base \notin G
            PROVE  \E j \in DOMAIN T : j <= n /\ T[j].name = o[l].name
        <5>1. CASE o[l].base = t
          <6>1. l = i  BY <1>2, <2>9, <5>1
          <6> QED  BY <1>2, <1>6, <2>6, <6>1
        <5>2. CASE o[l].base # t
          <6>1. o[l].base \notin F  BY <4>2, <5>2
          <6>2. PICK j \in DOMAIN T : j <= n - 1 /\ T[j].name = o[l].name  BY <1>2, <1>7, <4>2, <6>1 DEF Adding
          <6>3. j <= n  BY <1>2, <1>6, <6>2
          <6> QED  BY <6>2, <6>3
        <5> QED  BY <5>1, <5>2
      <4>3. Adding(given, D, G, map, entries, Top, n)  BY <1>2, <1>7, <4>2 DEF Adding
      <4> QED  BY <4>1, <4>3
    <3>4. CASE k # Len(frames)
      <4>1. Past(frames, ret, k) = frames[k].next  BY <3>4 DEF Past
      <4>2. Adding(given, D, F, map, entries, frames[k], frames[k].next)  BY <1>3, <2>15, <3>1, <4>1 DEF Merges
      <4>3. frames[k].shape # S  BY <1>2, <1>3, <1>4, <3>1, <3>4 DEF Merges
      <4>4. \A l \in DOMAIN given.props[frames[k].shape] :
                given.props[frames[k].shape][l].base \in F => given.props[frames[k].shape][l].base \in G
        BY <2>10, <3>2, <4>3
      <4>5. Adding(given, D, G, map, entries, frames[k], frames[k].next)  BY <4>2, <4>4 DEF Adding
      <4> QED  BY <3>1, <4>5
    <3> QED  BY <3>3, <3>4
  <2>16. Merges(given, R, D, G, map, entries, frames, r)  BY <1>3, <2>15 DEF Merges
  <2>17. \A k \in DOMAIN frames : Merging(frames[k]) => frames[k].shape # t  BY <1>3, <2>8 DEF Merges
  <2> HIDE DEF o, T, theirs, Ours, f, n
  <2>18. ExtraNow(R, D, G)'
    BY <1>1, <1>2, <1>3, <2>3, <2>6, <2>7, <2>8, <2>12, <2>13, <2>14, <2>16, <2>17, InheritExtra
  <2>19. G \in SUBSET Shapes  OBVIOUS
  <2> QED  BY <2>18, <2>19
<1> QED  BY <1>14, <1>15

LEMMA InitExtra ==
    ASSUME Init, NEW R, NEW D, ToldNow(R, D)
    PROVE  ExtraNow(R, D, Shapes)
<1>1. /\ frames = << >> /\ DOMAIN frames = {} /\ parents = given.parents /\ entries = given.props
      /\ \A s \in Shapes : /\ map[s] = IF given.props[s] = << >> THEN None ELSE s
                           /\ \A t \in facets[s] : t = s
  BY DEF Init
<1>2. Told(given, R, D) /\ WellFormed(given)  BY DEF ToldNow, Told
<1>3. Covered(given, R, map, entries, facets)
  <2>1. \A s \in Shapes : \A k \in DOMAIN entries[s] : Declares(given, s, entries[s][k]) /\ Within(R, s, s)
    BY <1>1 DEF Declares, Within
  <2>2. \A s \in Shapes : map[s] # None => map[s] = s  BY <1>1
  <2>3. \A s \in Shapes : \A k, l \in DOMAIN entries[s] : entries[s][k].name = entries[s][l].name => k = l
    BY <1>1, <1>2 DEF WellFormed
  <2> QED  BY <1>1, <2>1, <2>2, <2>3 DEF Covered, Within
<1>4. Fresh(given, Shapes, map, entries)  BY <1>1 DEF Fresh
<1>5. Untouched(given, D, Shapes, unwrapped, frames)
  <2>1. \A b \in D : b \in Shapes  BY <1>2 DEF Told
  <2> QED  BY <1>1, <2>1 DEF Untouched
<1>6. Sourced(given, R, parents, frames)  BY <1>1 DEF Sourced
<1>7. Merges(given, R, D, Shapes, map, entries, frames, ret)  BY <1>1, NoMerges
<1> QED  BY <1>3, <1>4, <1>5, <1>6, <1>7 DEF ExtraNow, Extra

LEMMA NextExtra ==
    ASSUME TInv, InOrder, WellFormed(given), NEW R, NEW D, NEW F \in SUBSET Shapes, ExtraNow(R, D, F),
           ToldNow(R, D), [Next]_vars
    PROVE  \E G \in SUBSET Shapes : ExtraNow(R, D, G)'
<1>1. \/ CallRoot \/ RootReturns \/ CallAlias \/ AliasTo \/ CallParent \/ FirstParent \/ OtherParent
      \/ ParentJoined \/ ParentsDone \/ CallProperty \/ PropertyReturns \/ MergeSource \/ SourceMerged
      \/ MergeProperty \/ PropertyMerged \/ InheritReturns \/ PassError \/ UNCHANGED vars
  BY DEF Next, Over
<1>2. CASE CallRoot \/ CallAlias \/ CallParent \/ CallProperty  BY <1>2, CallsExtra
<1>3. CASE RootReturns  BY <1>3, RootReturnsExtra
<1>4. CASE AliasTo  BY <1>4, AliasToExtra
<1>5. CASE FirstParent  BY <1>5, FirstParentExtra
<1>6. CASE OtherParent \/ ParentJoined  BY <1>6, OneParent
<1>7. CASE ParentsDone  BY <1>7, ParentsDoneExtra
<1>8. CASE PropertyReturns  BY <1>8, PropertyReturnsExtra
<1>9. CASE MergeSource  BY <1>9, MergeSourceExtra
<1>10. CASE SourceMerged \/ InheritReturns \/ PassError  BY <1>10, ReturnsExtra
<1>11. CASE MergeProperty  BY <1>11, MergePropertyExtra
<1>12. CASE PropertyMerged  BY <1>12, PropertyMergedExtra
<1>13. CASE UNCHANGED vars
  <2>1. ExtraNow(R, D, F)'  BY <1>13 DEF ExtraNow, vars
  <2> QED  BY <2>1
<1> QED  BY <1>1, <1>2, <1>3, <1>4, <1>5, <1>6, <1>7, <1>8, <1>9, <1>10, <1>11, <1>12, <1>13

EInv ==
    /\ IInv
    /\ WellFormed(given)
    /\ ~UsesAny /\ ~failed /\ ~Borrows(Narrowing) => NoMore(Narrowing, Redeclaring(Narrowing))

\* The model does not change, nor does what is said of it.
LEMMA SameModel ==
    ASSUME given' = given
    PROVE  /\ Narrowing' = Narrowing /\ Borrows(Narrowing)' = Borrows(Narrowing)
           /\ Redeclaring(Narrowing)' = Redeclaring(Narrowing)
           /\ UsesAny' = UsesAny /\ WellFormed(given)' = WellFormed(given)
<1>1. Narrowing' = Narrowing  BY DEF Narrowing, Own, Above, Redeclares
<1>2. Borrows(Narrowing)' = Borrows(Narrowing)  BY <1>1 DEF Borrows, Redeclares, Own, Above
<1>3. Redeclaring(Narrowing)' = Redeclaring(Narrowing)  BY <1>1 DEF Redeclaring, Redeclares, Own
<1> QED  BY <1>1, <1>2, <1>3 DEF UsesAny, WellFormed

LEMMA InitEInv == Init => EInv
<1> SUFFICES ASSUME Init PROVE EInv  OBVIOUS
<1>1. IInv /\ TypeOK  BY InitInv DEF IInv, TInv
<1>2. WellFormed(given)  BY ConstantsAssumption DEF Init
<1>3. ASSUME ~Borrows(Narrowing) PROVE NoMore(Narrowing, Redeclaring(Narrowing))
  <2> PICK R : R = Narrowing  OBVIOUS
  <2> PICK D : D = Redeclaring(Narrowing)  OBVIOUS
  <2>1. ToldNow(R, D)  BY <1>1, <1>2, <1>3, ToldSo
  <2>2. ExtraNow(R, D, Shapes)  BY <2>1, InitExtra
  <2>3. NoMore(R, D)  BY <2>2 DEF NoMore
  <2> QED  BY <2>3
<1> QED  BY <1>1, <1>2, <1>3 DEF EInv

LEMMA NextEInv == EInv /\ [Next]_vars => EInv'
<1> SUFFICES ASSUME EInv, [Next]_vars PROVE EInv'  OBVIOUS
<1>1. IInv' /\ given' = given /\ (failed => failed')  BY NextInv, ModelKept DEF EInv, IInv
<1>2. WellFormed(given)'  BY <1>1, SameModel DEF EInv
<1>3. ASSUME (~UsesAny /\ ~failed /\ ~Borrows(Narrowing))'
      PROVE  NoMore(Narrowing, Redeclaring(Narrowing))'
  <2>1. ~UsesAny /\ ~failed /\ ~Borrows(Narrowing)  BY <1>1, <1>3, SameModel
  <2>2. TInv /\ InOrder /\ TypeOK /\ WellFormed(given) /\ NoMore(Narrowing, Redeclaring(Narrowing))
    BY <2>1 DEF EInv, IInv, TInv
  <2> PICK R : R = Narrowing  OBVIOUS
  <2> PICK D : D = Redeclaring(Narrowing)  OBVIOUS
  <2>3. ToldNow(R, D)  BY <2>1, <2>2, ToldSo
  <2>4. PICK F \in SUBSET Shapes : ExtraNow(R, D, F)  BY <2>2 DEF NoMore
  <2>5. \E G \in SUBSET Shapes : ExtraNow(R, D, G)'  BY <2>2, <2>3, <2>4, NextExtra
  <2>6. R = Narrowing' /\ D = Redeclaring(Narrowing)'  BY <1>1, SameModel
  <2>7. NoMore(R, D)'  BY <2>5 DEF NoMore
  <2> QED  BY <2>6, <2>7
<1> QED  BY <1>1, <1>2, <1>3 DEF EInv

\* Without types of kind any: whatever the order of the walk, and although maps are
\* shared and written to, a shape gets nothing from a child or a sibling, as long as
\* none is merged into twice.
THEOREM NothingExtraCorrect == Spec => [](~UsesAny => NothingExtra)
<1>1. EInv => (~UsesAny => NothingExtra)
  <2> SUFFICES ASSUME EInv, ~UsesAny, Succeeded, ~Borrows(Narrowing), NEW s \in Shapes
               PROVE  LET sources == {s} \cup {t \in Shapes : << s, t >> \in Narrowing}
                      IN  /\ facets[s] \subseteq sources
                          /\ NamesOf(s) \subseteq UNION {{p.name : p \in Own(t)} : t \in sources}
    BY DEF NothingExtra
  <2>1. TypeOK /\ WellFormed(given) /\ NoMore(Narrowing, Redeclaring(Narrowing))
    BY DEF EInv, IInv, TInv, Succeeded
  <2> PICK R : R = Narrowing  OBVIOUS
  <2> PICK D : D = Redeclaring(Narrowing)  OBVIOUS
  <2>2. PICK F \in SUBSET Shapes : ExtraNow(R, D, F)  BY <2>1 DEF NoMore
  <2>3. Covered(given, R, map, entries, facets)  BY <2>2 DEF ExtraNow, Extra
  <2>4. Told(given, R, D)  BY <2>1, ToldSo DEF ToldNow
  <2> DEFINE sources == {s} \cup {t \in Shapes : << s, t >> \in R}
  <2>5. \A t \in Shapes : Within(R, s, t) => t \in sources  BY DEF Within
  <2> HIDE DEF sources
  <2>6. facets[s] \subseteq sources
    <3>1. facets[s] \subseteq Shapes  BY <2>1, HeapTyped
    <3> QED  BY <2>3, <2>5, <3>1 DEF Covered
  <2>7. ASSUME NEW i \in DOMAIN PropsOf(s)
        PROVE  \E t \in sources : \E p \in Own(t) : p.name = PropsOf(s)[i].name
    <3>1. map[s] \in Shapes /\ map[s] # None /\ PropsOf(s) = entries[map[s]]  BY <2>1, <2>7, PropsTyped, FramesTyped
    <3>2. PICK t \in Shapes : Within(R, map[s], t) /\ Declares(given, t, entries[map[s]][i])
      BY <2>3, <2>7, <3>1 DEF Covered
    <3>3. Within(R, s, map[s])  BY <2>3, <3>1 DEF Covered
    <3>4. t \in sources  BY <2>4, <2>5, <3>1, <3>2, <3>3, WithinKept
    <3>5. PropsOf(s)[i] \in Own(t)  BY <3>1, <3>2 DEF Declares, Own
    <3> QED  BY <3>4, <3>5
  <2>8. NamesOf(s) \subseteq UNION {{p.name : p \in Own(t)} : t \in sources}
    <3> SUFFICES ASSUME NEW i \in DOMAIN PropsOf(s)
                 PROVE  PropsOf(s)[i].name \in UNION {{p.name : p \in Own(t)} : t \in sources}
      BY DEF NamesOf
    <3>1. PICK t \in sources : \E p \in Own(t) : p.name = PropsOf(s)[i].name  BY <2>7
    <3> QED  BY <3>1
  <2> QED  BY <2>6, <2>8 DEF sources
<1> QED  BY InitEInv, NextEInv, <1>1, PTL DEF Spec

================================================================================
