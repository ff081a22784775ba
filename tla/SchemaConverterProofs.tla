------------------------- MODULE SchemaConverterProofs -------------------------
(***************************************************************************)
(* Theorems about SchemaConverter, for graphs of every size and any number *)
(* of conversions: every schema that is returned describes its type, and   *)
(* stays as it is.  The predicates below take the graph, the schemas and   *)
(* the records as arguments, so that the lemmas about them are about data. *)
(***************************************************************************)
EXTENDS SchemaConverter, SequenceTheorems, TLAPS

VisitedIn(g, s) == IF g.head[s] # None THEN << >> ELSE g.facetDefs[s] \o g.parts[s]

\* Every part of a schema, and the schema of every record, exists.
PartsIn(ss) == \A i \in DOMAIN ss : \A k \in DOMAIN ss[i].parts : ss[i].parts[k] \in DOMAIN ss
SchemasIn(ss, fs) == \A k \in DOMAIN fs : fs[k].schema \in DOMAIN ss

\* Each frame has a schema of its own, made later than those of its callers.
Stacked(ss, fs) ==
    \A k \in DOMAIN fs :
        /\ ss[fs[k].schema].of = fs[k].shape
        /\ ss[fs[k].schema].ref = None
        /\ \A j \in DOMAIN fs : j < k => fs[j].schema < fs[k].schema

\* The schema of frame f has the first n parts of its shape.
Ready(g, ss, f, n) ==
    LET ps == ss[f.schema].parts
    IN  /\ Len(ps) = n /\ n <= Len(VisitedIn(g, f.shape))
        /\ \A m \in 1..n : ss[ps[m]].of = VisitedIn(g, f.shape)[m]

\* Frame f is the top one: it has what it has visited.
Runs(g, ss, f) ==
    IF g.head[f.shape] # None THEN ss[f.schema].parts = << >>
    ELSE Ready(g, ss, f, f.next - 1)

\* Frame f visits s, the next part or the head: it is counted in next, but its
\* schema is not yet there.
Calls(g, ss, f, s) ==
    IF g.head[f.shape] # None
    THEN ss[f.schema].parts = << >> /\ s = g.head[f.shape]
    ELSE /\ f.next - 1 \in DOMAIN VisitedIn(g, f.shape)
         /\ Ready(g, ss, f, f.next - 2)
         /\ s = VisitedIn(g, f.shape)[f.next - 1]

Progress(g, ss, fs) ==
    \A k \in DOMAIN fs :
        IF k = Len(fs) THEN Runs(g, ss, fs[k]) ELSE Calls(g, ss, fs[k], fs[k + 1].shape)

\* What Says demands.
Stated(g, ss, table, i, s) ==
    /\ i \in DOMAIN ss
    /\ ss[i].of = s
    /\ IF g.head[s] # None
       THEN /\ ss[i].ref = g.name[g.head[s]]
            /\ ss[i].parts = << >>
            /\ table[ss[i].ref].there
       ELSE /\ ss[i].ref = None
            /\ Len(ss[i].parts) = Len(VisitedIn(g, s))
            /\ \A k \in DOMAIN VisitedIn(g, s) : ss[ss[i].parts[k]].of = VisitedIn(g, s)[k]

\* The schemas made in this conversion are finished, except those of frames.
Settled(g, ss, table, fs) ==
    fs # << >> =>
        \A i \in DOMAIN ss :
            i >= fs[1].schema /\ (\A k \in DOMAIN fs : fs[k].schema # i)
                => Stated(g, ss, table, i, ss[i].of)

\* A definition with the name n, in a conversion of entry.
Named(g, ss, n, i, entry) ==
    /\ i \in DOMAIN ss
    /\ g.name[ss[i].of] = n
    /\ ss[i].of \in {entry} \cup {g.head[t] : t \in Shapes}

\* The frame that will fill the empty definition n: the first, or that of a
\* recursive shape whose head is being visited.
Awaited(g, fs, n) ==
    \/ n = g.name[fs[1].shape]
    \/ \E k \in DOMAIN fs :
          /\ k < Len(fs) /\ g.head[fs[k].shape] # None
          /\ n = g.name[g.head[fs[k].shape]]

Occupied(g, ss, table, fs) ==
    fs # << >> =>
        /\ table[g.name[fs[1].shape]].there
        /\ \A n \in Names : table[n].there =>
              IF table[n].schema = 0 THEN Awaited(g, fs, n)
              ELSE Named(g, ss, n, table[n].schema, fs[1].shape)

\* What Describes demands of one result, given the schemas and the map.
Described(g, ss, table, r) ==
    /\ table[g.name[r.entry]].there
    /\ \A n \in Names : table[n].there => table[n].schema # 0 /\ Named(g, ss, n, table[n].schema, r.entry)
    /\ \A i \in r.first..r.last : Stated(g, ss, table, i, ss[i].of)

\* What was returned is out of reach of the conversion under way.
Apart(ts, fs, r) == fs # << >> => r.table < Len(ts) /\ r.last < fs[1].schema

Returned(g, ss, ts, fs, rs) ==
    \A r \in DOMAIN rs : rs[r].table # 0 =>
        /\ rs[r].first \in DOMAIN ss
        /\ rs[r].last <= Len(ss)
        /\ Apart(ts, fs, rs[r])
        /\ Described(g, ss, ts[rs[r].table], rs[r])

IInv ==
    /\ TypeOK
    /\ Stacked(schemas, frames)
    /\ Progress(given, schemas, frames)
    /\ Settled(given, schemas, Definitions, frames)
    /\ Occupied(given, schemas, Definitions, frames)
    /\ Returned(given, schemas, tables, frames, results)

-----------------------------------------------------------------------------
(* Data *)

\* The fields of a graph have their types.
LEMMA GraphTyped ==
    ASSUME NEW g \in Graphs
    PROVE  /\ g.name \in [Shapes -> Names] /\ g.facetDefs \in [Shapes -> Seq(Shapes)]
           /\ g.parts \in [Shapes -> Seq(Shapes)] /\ g.head \in [Shapes -> Shapes \cup {None}]
           /\ g.unwrapped \in SUBSET Shapes /\ g.entries \in SUBSET Shapes
           /\ None \notin Shapes /\ None \notin Names
BY ConstantsAssumption DEF GraphType

\* What is visited for a shape is a sequence of shapes.
LEMMA VisitedTyped ==
    ASSUME NEW g \in Graphs, NEW s \in Shapes
    PROVE  /\ VisitedIn(g, s) \in Seq(Shapes)
           /\ Len(VisitedIn(g, s)) \in Nat /\ DOMAIN VisitedIn(g, s) = 1..Len(VisitedIn(g, s))
           /\ \A k \in DOMAIN VisitedIn(g, s) : VisitedIn(g, s)[k] \in Shapes
<1>1. g.facetDefs[s] \in Seq(Shapes) /\ g.parts[s] \in Seq(Shapes)  BY GraphTyped
<1>2. g.facetDefs[s] \o g.parts[s] \in Seq(Shapes)                 BY <1>1, ConcatProperties
<1>3. << >> \in Seq(Shapes)                                         OBVIOUS
<1>4. VisitedIn(g, s) \in Seq(Shapes)                               BY <1>2, <1>3 DEF VisitedIn
<1> QED  BY <1>4

\* The fields of schemas and records.
LEMMA SchemaTyped ==
    ASSUME NEW ss \in Seq(Schema), NEW i \in DOMAIN ss
    PROVE  /\ ss[i] \in Schema /\ ss[i].of \in Shapes /\ ss[i].ref \in Names \cup {None}
           /\ ss[i].parts \in Seq(Nat) /\ i \in Nat \ {0}
           /\ Len(ss[i].parts) \in Nat /\ DOMAIN ss[i].parts = 1..Len(ss[i].parts)
<1>1. ss[i] \in Schema /\ i \in Nat \ {0}  OBVIOUS
<1>2. ss[i].parts \in Seq(Nat)  BY <1>1 DEF Schema
<1> QED  BY <1>1, <1>2 DEF Schema

LEMMA FrameTyped ==
    ASSUME NEW fs \in Seq(Frame), NEW k \in DOMAIN fs
    PROVE  /\ fs[k] \in Frame /\ fs[k].shape \in Shapes
           /\ fs[k].schema \in Nat \ {0} /\ fs[k].next \in Nat \ {0}
           /\ k \in Nat \ {0}
<1>1. fs[k] \in Frame /\ k \in Nat \ {0}  OBVIOUS
<1> QED  BY <1>1 DEF Frame

\* What Visit adds.
Fresh(s) == [of |-> s, ref |-> None, parts |-> << >>]
Opened(ss, s) == [shape |-> s, schema |-> Len(ss) + 1, next |-> 1]

LEMMA Grown ==
    ASSUME NEW ss \in Seq(Schema), NEW s \in Shapes, NEW fs \in Seq(Frame)
    PROVE  /\ Append(ss, Fresh(s)) \in Seq(Schema)
           /\ Len(Append(ss, Fresh(s))) = Len(ss) + 1 /\ Len(ss) \in Nat
           /\ \A i \in DOMAIN ss : Append(ss, Fresh(s))[i] = ss[i]
           /\ Append(ss, Fresh(s))[Len(ss) + 1] = Fresh(s)
           /\ DOMAIN Append(ss, Fresh(s)) = DOMAIN ss \cup {Len(ss) + 1}
           /\ Append(fs, Opened(ss, s)) \in Seq(Frame)
           /\ Len(Append(fs, Opened(ss, s))) = Len(fs) + 1 /\ Len(fs) \in Nat
           /\ \A k \in DOMAIN fs : Append(fs, Opened(ss, s))[k] = fs[k]
           /\ Append(fs, Opened(ss, s))[Len(fs) + 1] = Opened(ss, s)
           /\ DOMAIN Append(fs, Opened(ss, s)) = DOMAIN fs \cup {Len(fs) + 1}
<1>1. Fresh(s) \in Schema
  <2>1. << >> \in Seq(Nat)  OBVIOUS
  <2> QED  BY <2>1 DEF Fresh, Schema
<1>2. Opened(ss, s) \in Frame  BY DEF Opened, Frame
<1> QED  BY <1>1, <1>2

\* A frame stands where it stood when its schema did not change, nor what the
\* schemas are made from.
LEMMA FrameKept ==
    ASSUME NEW g \in Graphs, NEW ss \in Seq(Schema), NEW tt \in Seq(Schema), NEW f \in Frame, NEW s,
           PartsIn(ss), f.schema \in DOMAIN ss, DOMAIN ss \subseteq DOMAIN tt,
           \A j \in DOMAIN ss : tt[j].of = ss[j].of,
           tt[f.schema].parts = ss[f.schema].parts
    PROVE  /\ Runs(g, ss, f) => Runs(g, tt, f)
           /\ Calls(g, ss, f, s) => Calls(g, tt, f, s)
<1>1. \A n \in Int : Ready(g, ss, f, n) => Ready(g, tt, f, n)
  <2> SUFFICES ASSUME NEW n \in Int, Ready(g, ss, f, n) PROVE Ready(g, tt, f, n)  OBVIOUS
  <2> DEFINE ps == ss[f.schema].parts
  <2>1. DOMAIN ps = 1..n  BY SchemaTyped DEF Ready
  <2>2. \A m \in 1..n : tt[ps[m]].of = ss[ps[m]].of  BY <2>1 DEF PartsIn
  <2> QED  BY <2>2 DEF Ready
<1>2. f.next - 1 \in Int /\ f.next - 2 \in Int  BY DEF Frame
<1> QED  BY <1>1, <1>2 DEF Runs, Calls

\* The same of a finished schema, in a map with more definitions.
LEMMA StatedKept ==
    ASSUME NEW g \in Graphs, NEW ss \in Seq(Schema), NEW tt \in Seq(Schema),
           NEW T \in [Names -> Definition], NEW U \in [Names -> Definition], NEW i, NEW s \in Shapes,
           PartsIn(ss), DOMAIN ss \subseteq DOMAIN tt,
           \A j \in DOMAIN ss : tt[j].of = ss[j].of,
           i \in DOMAIN ss => tt[i] = ss[i],
           \A n \in Names : T[n].there => U[n].there,
           Stated(g, ss, T, i, s)
    PROVE  Stated(g, tt, U, i, s)
<1>1. i \in DOMAIN ss /\ i \in DOMAIN tt /\ tt[i] = ss[i]  BY DEF Stated
<1>2. CASE g.head[s] # None
  <2>1. g.name[g.head[s]] \in Names  BY <1>2, GraphTyped
  <2> QED  BY <1>1, <1>2, <2>1 DEF Stated
<1>3. CASE g.head[s] = None
  <2>1. DOMAIN ss[i].parts = DOMAIN VisitedIn(g, s)  BY <1>1, <1>3, SchemaTyped, VisitedTyped DEF Stated
  <2>2. \A k \in DOMAIN VisitedIn(g, s) : tt[ss[i].parts[k]].of = ss[ss[i].parts[k]].of
    BY <1>1, <2>1 DEF PartsIn
  <2> QED  BY <1>1, <1>3, <2>2 DEF Stated
<1> QED  BY <1>2, <1>3

\* The same of a definition.
LEMMA NamedKept ==
    ASSUME NEW g \in Graphs, NEW ss \in Seq(Schema), NEW tt \in Seq(Schema), NEW n, NEW i, NEW e,
           DOMAIN ss \subseteq DOMAIN tt, \A j \in DOMAIN ss : tt[j].of = ss[j].of,
           Named(g, ss, n, i, e)
    PROVE  Named(g, tt, n, i, e)
BY DEF Named

-----------------------------------------------------------------------------
(* Visit makes a schema and a record *)

LEMMA PushStacked ==
    ASSUME NEW ss \in Seq(Schema), NEW fs \in Seq(Frame), NEW s \in Shapes,
           PartsIn(ss), SchemasIn(ss, fs), Stacked(ss, fs)
    PROVE  /\ PartsIn(Append(ss, Fresh(s)))
           /\ SchemasIn(Append(ss, Fresh(s)), Append(fs, Opened(ss, s)))
           /\ Stacked(Append(ss, Fresh(s)), Append(fs, Opened(ss, s)))
<1> DEFINE tt == Append(ss, Fresh(s))
           hs == Append(fs, Opened(ss, s))
           n  == Len(ss) + 1
<1>1. /\ \A i \in DOMAIN ss : tt[i] = ss[i]
      /\ tt[n] = Fresh(s) /\ DOMAIN tt = DOMAIN ss \cup {n} /\ n \in Nat
      /\ \A k \in DOMAIN fs : hs[k] = fs[k]
      /\ hs[Len(fs) + 1] = Opened(ss, s) /\ DOMAIN hs = DOMAIN fs \cup {Len(fs) + 1}
  BY Grown
<1>2. DOMAIN ss = 1..Len(ss) /\ DOMAIN fs = 1..Len(fs) /\ Len(ss) \in Nat /\ Len(fs) \in Nat  OBVIOUS
<1> HIDE DEF tt, hs
<1>3. PartsIn(tt)
  <2>1. tt[n].parts = << >>  BY <1>1 DEF Fresh
  <2> QED  BY <1>1, <2>1 DEF PartsIn
<1>4. Opened(ss, s).schema = n /\ Opened(ss, s).shape = s  BY DEF Opened
<1>5. SchemasIn(tt, hs)  BY <1>1, <1>4 DEF SchemasIn
<1>6. Stacked(tt, hs)
  <2> SUFFICES ASSUME NEW k \in DOMAIN hs
               PROVE  /\ tt[hs[k].schema].of = hs[k].shape
                      /\ tt[hs[k].schema].ref = None
                      /\ \A j \in DOMAIN hs : j < k => hs[j].schema < hs[k].schema
    BY DEF Stacked
  <2>1. CASE k \in DOMAIN fs
    <3>1. hs[k] = fs[k] /\ fs[k].schema \in DOMAIN ss /\ tt[fs[k].schema] = ss[fs[k].schema]
      BY <2>1, <1>1 DEF SchemasIn
    <3>2. \A j \in DOMAIN hs : j < k => j \in DOMAIN fs /\ hs[j] = fs[j]  BY <1>1, <1>2, <2>1
    <3> QED  BY <2>1, <3>1, <3>2 DEF Stacked
  <2>2. CASE k = Len(fs) + 1
    <3>1. \A j \in DOMAIN hs : j < k => hs[j].schema \in DOMAIN ss  BY <1>1, <1>2, <2>2 DEF SchemasIn
    <3> QED  BY <1>1, <1>2, <1>4, <2>2, <3>1 DEF Fresh
  <2> QED  BY <1>1, <2>1, <2>2
<1> QED  BY <1>3, <1>5, <1>6 DEF tt, hs

LEMMA PushProgress ==
    ASSUME NEW g \in Graphs, NEW ss \in Seq(Schema), NEW fs \in Seq(Frame), NEW s \in Shapes,
           PartsIn(ss), SchemasIn(ss, fs),
           \A k \in DOMAIN fs : Calls(g, ss, fs[k], IF k = Len(fs) THEN s ELSE fs[k + 1].shape)
    PROVE  Progress(g, Append(ss, Fresh(s)), Append(fs, Opened(ss, s)))
<1> DEFINE tt == Append(ss, Fresh(s))
           hs == Append(fs, Opened(ss, s))
           n  == Len(ss) + 1
<1>1. /\ \A i \in DOMAIN ss : tt[i] = ss[i]
      /\ tt[n] = Fresh(s) /\ DOMAIN tt = DOMAIN ss \cup {n} /\ n \in Nat /\ tt \in Seq(Schema)
      /\ \A k \in DOMAIN fs : hs[k] = fs[k]
      /\ hs[Len(fs) + 1] = Opened(ss, s) /\ DOMAIN hs = DOMAIN fs \cup {Len(fs) + 1}
      /\ Len(hs) = Len(fs) + 1
  BY Grown
<1>2. DOMAIN ss = 1..Len(ss) /\ DOMAIN fs = 1..Len(fs) /\ Len(ss) \in Nat /\ Len(fs) \in Nat  OBVIOUS
<1> HIDE DEF tt, hs
<1>3. ASSUME NEW k \in DOMAIN fs PROVE Calls(g, tt, hs[k], hs[k + 1].shape)
  <2> DEFINE t == IF k = Len(fs) THEN s ELSE fs[k + 1].shape
  <2>1. Calls(g, ss, fs[k], t)  OBVIOUS
  <2>2. hs[k + 1].shape = t  BY <1>1, <1>2 DEF Opened
  <2>3. fs[k] \in Frame /\ fs[k].schema \in DOMAIN ss  BY FrameTyped DEF SchemasIn
  <2> HIDE DEF t
  <2>5. /\ DOMAIN ss \subseteq DOMAIN tt /\ \A j \in DOMAIN ss : tt[j].of = ss[j].of
        /\ tt[fs[k].schema].parts = ss[fs[k].schema].parts /\ tt \in Seq(Schema)
    BY <1>1, <2>3
  <2>4. Calls(g, tt, fs[k], t)  BY <2>1, <2>3, <2>5, FrameKept
  <2> QED  BY <1>1, <2>2, <2>4
<1>4. Runs(g, tt, hs[Len(hs)])
  <2>1. hs[Len(hs)].schema = n /\ hs[Len(hs)].next = 1 /\ hs[Len(hs)].shape = s  BY <1>1 DEF Opened
  <2>2. tt[n].parts = << >>  BY <1>1 DEF Fresh
  <2>3. Len(VisitedIn(g, s)) \in Nat  BY VisitedTyped
  <2> QED  BY <2>1, <2>2, <2>3 DEF Runs, Ready
<1> QED  BY <1>1, <1>2, <1>3, <1>4 DEF Progress, tt, hs

LEMMA PushSettled ==
    ASSUME NEW g \in Graphs, NEW ss \in Seq(Schema), NEW fs \in Seq(Frame), NEW s \in Shapes,
           NEW T \in [Names -> Definition], NEW U \in [Names -> Definition],
           PartsIn(ss), SchemasIn(ss, fs), Settled(g, ss, T, fs),
           fs # << >> => \A m \in Names : T[m].there => U[m].there
    PROVE  Settled(g, Append(ss, Fresh(s)), U, Append(fs, Opened(ss, s)))
<1> DEFINE tt == Append(ss, Fresh(s))
           hs == Append(fs, Opened(ss, s))
           n  == Len(ss) + 1
<1>1. /\ \A i \in DOMAIN ss : tt[i] = ss[i]
      /\ tt[n] = Fresh(s) /\ DOMAIN tt = DOMAIN ss \cup {n} /\ n \in Nat /\ tt \in Seq(Schema)
      /\ \A k \in DOMAIN fs : hs[k] = fs[k]
      /\ hs[Len(fs) + 1] = Opened(ss, s) /\ DOMAIN hs = DOMAIN fs \cup {Len(fs) + 1}
  BY Grown
<1>2. DOMAIN ss = 1..Len(ss) /\ DOMAIN fs = 1..Len(fs) /\ Len(ss) \in Nat /\ Len(fs) \in Nat  OBVIOUS
<1> HIDE DEF tt, hs
<1> SUFFICES ASSUME NEW i \in DOMAIN tt, i >= hs[1].schema, \A k \in DOMAIN hs : hs[k].schema # i
             PROVE  Stated(g, tt, U, i, tt[i].of)
  BY DEF Settled, tt, hs
<1>3. i \in DOMAIN ss
  <2>1. hs[Len(fs) + 1].schema = n  BY <1>1 DEF Opened
  <2> QED  BY <1>1, <2>1
<1>4. fs # << >>
  <2>1. CASE fs = << >>
    <3>1. hs[1].schema = n  BY <1>1, <2>1 DEF Opened
    <3> QED  BY <1>2, <1>3, <3>1
  <2> QED  BY <2>1
<1>5. 1 \in DOMAIN fs /\ hs[1] = fs[1]  BY <1>1, <1>2, <1>4
<1>6. Stated(g, ss, T, i, ss[i].of)  BY <1>1, <1>3, <1>4, <1>5 DEF Settled
<1>7. tt[i].of = ss[i].of /\ ss[i].of \in Shapes  BY <1>1, <1>3, SchemaTyped
<1>8. /\ DOMAIN ss \subseteq DOMAIN tt /\ \A j \in DOMAIN ss : tt[j].of = ss[j].of
      /\ tt[i] = ss[i] /\ \A m \in Names : T[m].there => U[m].there
  BY <1>1, <1>3, <1>4
<1>9. Stated(g, tt, U, i, ss[i].of)  BY <1>1, <1>6, <1>7, <1>8, StatedKept
<1> QED  BY <1>7, <1>9

\* The names occupied by the callers stay occupied for them.
LEMMA PushOccupied ==
    ASSUME NEW g \in Graphs, NEW ss \in Seq(Schema), NEW fs \in Seq(Frame), NEW s \in Shapes,
           NEW T \in [Names -> Definition], fs # << >>, Occupied(g, ss, T, fs)
    PROVE  Occupied(g, Append(ss, Fresh(s)), T, Append(fs, Opened(ss, s)))
<1> DEFINE tt == Append(ss, Fresh(s))
           hs == Append(fs, Opened(ss, s))
<1>1. /\ \A i \in DOMAIN ss : tt[i] = ss[i]
      /\ DOMAIN ss \subseteq DOMAIN tt /\ tt \in Seq(Schema)
      /\ \A k \in DOMAIN fs : hs[k] = fs[k]
      /\ DOMAIN hs = DOMAIN fs \cup {Len(fs) + 1} /\ Len(hs) = Len(fs) + 1
  BY Grown
<1>2. DOMAIN fs = 1..Len(fs) /\ Len(fs) \in Nat /\ 1 \in DOMAIN fs  OBVIOUS
<1> HIDE DEF tt, hs
<1>3. hs[1] = fs[1]  BY <1>1, <1>2
<1>4. ASSUME NEW n \in Names, Awaited(g, fs, n) PROVE Awaited(g, hs, n)
  <2>1. \A k \in DOMAIN fs : k < Len(fs) => k \in DOMAIN hs /\ k < Len(hs) /\ hs[k] = fs[k]
    BY <1>1, <1>2
  <2> QED  BY <1>3, <1>4, <2>1 DEF Awaited
<1>5. ASSUME NEW n \in Names, NEW i, Named(g, ss, n, i, fs[1].shape)
      PROVE  Named(g, tt, n, i, hs[1].shape)
  <2>1. \A j \in DOMAIN ss : tt[j].of = ss[j].of  BY <1>1
  <2> QED  BY <1>1, <1>3, <1>5, <2>1, NamedKept
<1> QED  BY <1>3, <1>4, <1>5 DEF Occupied, tt, hs

\* What a result says stays true of the schemas and the maps that keep its own.
LEMMA DescribedKept ==
    ASSUME NEW g \in Graphs, NEW ss \in Seq(Schema), NEW tt \in Seq(Schema),
           NEW T \in [Names -> Definition], NEW r \in Result,
           PartsIn(ss), DOMAIN ss \subseteq DOMAIN tt,
           \A j \in DOMAIN ss : tt[j].of = ss[j].of,
           \A i \in r.first..r.last : i \in DOMAIN ss /\ tt[i] = ss[i],
           Described(g, ss, T, r)
    PROVE  Described(g, tt, T, r)
<1>1. ASSUME NEW i \in r.first..r.last PROVE Stated(g, tt, T, i, tt[i].of)
  <2>1. Stated(g, ss, T, i, ss[i].of) /\ i \in DOMAIN ss /\ tt[i] = ss[i]  BY DEF Described
  <2>2. ss[i].of \in Shapes  BY <2>1, SchemaTyped
  <2>3. Stated(g, tt, T, i, ss[i].of)  BY <2>1, <2>2, StatedKept
  <2> QED  BY <2>1, <2>3
<1>2. \A n \in Names : T[n].there => Named(g, tt, n, T[n].schema, r.entry)
  BY NamedKept DEF Described
<1> QED  BY <1>1, <1>2 DEF Described

\* A step that lets alone what was returned, and ends or goes on in schemas and a
\* map made later, leaves all results described.
LEMMA ReturnedKept ==
    ASSUME NEW g \in Graphs, NEW ss \in Seq(Schema), NEW tt \in Seq(Schema),
           NEW ts \in Seq([Names -> Definition]), NEW us \in Seq([Names -> Definition]),
           NEW fs, NEW hs, NEW rs \in Seq(Result),
           PartsIn(ss), Returned(g, ss, ts, fs, rs),
           \A r \in DOMAIN rs : rs[r].table \in 0..Len(ts),
           Len(ss) <= Len(tt), \A j \in DOMAIN ss : tt[j].of = ss[j].of,
           \A r \in DOMAIN rs : rs[r].table # 0 =>
               /\ us[rs[r].table] = ts[rs[r].table]
               /\ \A i \in rs[r].first..rs[r].last : tt[i] = ss[i]
               /\ Apart(us, hs, rs[r])
    PROVE  Returned(g, tt, us, hs, rs)
<1> SUFFICES ASSUME NEW r \in DOMAIN rs, rs[r].table # 0
             PROVE  /\ rs[r].first \in DOMAIN tt
                    /\ rs[r].last <= Len(tt)
                    /\ Apart(us, hs, rs[r])
                    /\ Described(g, tt, us[rs[r].table], rs[r])
  BY DEF Returned
<1>1. /\ rs[r].first \in DOMAIN ss /\ rs[r].last <= Len(ss)
      /\ Described(g, ss, ts[rs[r].table], rs[r])
  BY DEF Returned
<1>2. rs[r] \in Result  OBVIOUS
<1>3. rs[r].first \in Nat /\ rs[r].last \in Nat /\ rs[r].table \in Nat  BY <1>2 DEF Result
<1>4. DOMAIN ss = 1..Len(ss) /\ DOMAIN tt = 1..Len(tt) /\ Len(ss) \in Nat /\ Len(tt) \in Nat  OBVIOUS
<1>5. \A i \in rs[r].first..rs[r].last : i \in DOMAIN ss /\ tt[i] = ss[i]  BY <1>1, <1>3, <1>4
<1>6. ts[rs[r].table] \in [Names -> Definition] /\ us[rs[r].table] = ts[rs[r].table]  BY <1>3
<1>7. DOMAIN ss \subseteq DOMAIN tt  BY <1>4
<1>8. Described(g, tt, ts[rs[r].table], rs[r])
  BY <1>1, <1>2, <1>5, <1>6, <1>7, DescribedKept
<1>9. Apart(us, hs, rs[r])  OBVIOUS
<1>10. rs[r].first \in DOMAIN tt /\ rs[r].last <= Len(tt)  BY <1>1, <1>3, <1>4
<1> QED  BY <1>6, <1>8, <1>9, <1>10

-----------------------------------------------------------------------------
(* Steps *)

\* What ReturnedStays allows a step to do.
Untouched ==
    \A r \in DOMAIN results : results[r].table # 0 =>
        /\ tables'[results[r].table] = tables[results[r].table]
        /\ \A i \in results[r].first..results[r].last : schemas'[i] = schemas[i]

Maps == Seq([Names -> Definition])

LEMMA Typed ==
    ASSUME TypeOK
    PROVE  /\ given \in Graphs /\ schemas \in Seq(Schema) /\ tables \in Maps /\ frames \in Seq(Frame)
           /\ results \in Seq(Result) /\ Len(schemas) \in Nat /\ Len(tables) \in Nat \ {0}
           /\ Len(frames) \in Nat /\ Definitions \in [Names -> Definition]
           /\ PartsIn(schemas) /\ SchemasIn(schemas, frames)
           /\ DOMAIN schemas = 1..Len(schemas) /\ DOMAIN tables = 1..Len(tables)
           /\ DOMAIN frames = 1..Len(frames)
           /\ \A n \in Names : Definitions[n].schema \in 0..Len(schemas)
           /\ \A r \in DOMAIN results : /\ results[r].table \in 0..Len(tables)
                                        /\ results[r].first \in Nat /\ results[r].last \in Nat
<1>1. \A r \in DOMAIN results : results[r].first \in Nat /\ results[r].last \in Nat
  <2>1. \A r \in DOMAIN results : results[r] \in Result  BY DEF TypeOK
  <2> QED  BY <2>1 DEF Result
<1>2. Len(tables) \in Nat \ {0} /\ Definitions \in [Names -> Definition]  BY DEF TypeOK, Definitions
<1>3. \A n \in Names : Definitions[n].schema \in 0..Len(schemas)
  <2>1. Len(tables) \in DOMAIN tables  BY DEF TypeOK
  <2> QED  BY <2>1 DEF TypeOK, Definitions
<1> QED  BY <1>1, <1>2, <1>3 DEF TypeOK, Maps, PartsIn, SchemasIn

LEMMA TopTyped ==
    ASSUME TypeOK, frames # << >>
    PROVE  /\ Len(frames) \in DOMAIN frames /\ 1 \in DOMAIN frames
           /\ Top = frames[Len(frames)] /\ Top \in Frame
           /\ Top.shape \in Shapes /\ Top.next \in Nat \ {0} /\ Top.schema \in DOMAIN schemas
           /\ Below \in Seq(Frame) /\ Len(Below) = Len(frames) - 1 /\ DOMAIN Below = 1..Len(frames) - 1
           /\ \A k \in DOMAIN Below : Below[k] = frames[k] /\ k \in DOMAIN frames
<1>1. Len(frames) \in DOMAIN frames /\ 1 \in DOMAIN frames  BY Typed
<1>2. Top \in Frame /\ Top = frames[Len(frames)] /\ Top.schema \in DOMAIN schemas
  BY <1>1 DEF Top, TypeOK
<1>3. Top.shape \in Shapes /\ Top.next \in Nat \ {0}  BY <1>2 DEF Frame
<1>4. /\ Below \in Seq(Frame) /\ Len(Below) = Len(frames) - 1 /\ DOMAIN Below = 1..Len(frames) - 1
      /\ \A k \in DOMAIN Below : Below[k] = frames[k] /\ k \in DOMAIN frames
  <2>1. frames \in Seq(Frame) /\ Len(frames) \in Nat \ {0}  BY <1>1 DEF TypeOK
  <2>2. \A i \in 1..Len(frames) - 1 : frames[i] \in Frame  BY <2>1
  <2>3. /\ SubSeq(frames, 1, Len(frames) - 1) \in Seq(Frame)
        /\ Len(SubSeq(frames, 1, Len(frames) - 1))
               = IF 1 <= Len(frames) - 1 THEN Len(frames) - 1 - 1 + 1 ELSE 0
        /\ \A i \in 1..(Len(frames) - 1 - 1 + 1) :
              SubSeq(frames, 1, Len(frames) - 1)[i] = frames[1 + i - 1]
    <3>1. 1 \in Int /\ Len(frames) - 1 \in Int  BY <2>1
    <3> HIDE DEF Frame
    <3> QED  BY <2>2, <3>1, SubSeqProperties
  <2>4. Len(Below) = Len(frames) - 1
    <3>1. \A q \in Nat \ {0} : (IF 1 <= q - 1 THEN q - 1 - 1 + 1 ELSE 0) = q - 1  OBVIOUS
    <3>2. Len(Below) = IF 1 <= Len(frames) - 1 THEN Len(frames) - 1 - 1 + 1 ELSE 0  BY <2>3 DEF Below
    <3> QED  BY <2>1, <3>1, <3>2
  <2>5. DOMAIN Below = 1..Len(frames) - 1  BY <2>3, <2>4 DEF Below
  <2> QED  BY <2>1, <2>3, <2>4, <2>5 DEF Below
<1> QED  BY <1>1, <1>2, <1>3, <1>4

\* Visit: the records fs call s, the map has what it had, and the results are
\* out of reach of what is visited.
LEMMA VisitStep ==
    ASSUME IInv, NEW fs \in Seq(Frame), NEW s \in Shapes, NEW us \in Maps,
           Visit(fs, s), tables' = us, UNCHANGED << given, results >>, us # << >>,
           SchemasIn(schemas, fs), Stacked(schemas, fs),
           \A k \in DOMAIN fs : Calls(given, schemas, fs[k], IF k = Len(fs) THEN s ELSE fs[k + 1].shape),
           Settled(given, schemas, Definitions, fs),
           fs # << >> => \A m \in Names : Definitions[m].there => us[Len(us)][m].there,
           Occupied(given, Append(schemas, Fresh(s)), us[Len(us)], Append(fs, Opened(schemas, s))),
           Len(tables) <= Len(us),
           \A t \in DOMAIN us : \A n \in Names : us[t][n].schema \in 0..Len(schemas),
           \A r \in DOMAIN results : results[r].table # 0 =>
               /\ us[results[r].table] = tables[results[r].table]
               /\ Apart(us, Append(fs, Opened(schemas, s)), results[r])
    PROVE  IInv' /\ Untouched
<1>1. TypeOK /\ Returned(given, schemas, tables, frames, results)  BY DEF IInv
<1>2. /\ given \in Graphs /\ schemas \in Seq(Schema) /\ tables \in Maps /\ PartsIn(schemas)
      /\ Len(schemas) \in Nat /\ results \in Seq(Result) /\ DOMAIN schemas = 1..Len(schemas)
      /\ \A r \in DOMAIN results : /\ results[r].table \in 0..Len(tables)
                                   /\ results[r].first \in Nat /\ results[r].last \in Nat
      /\ Definitions \in [Names -> Definition]
  BY <1>1, Typed
<1>3. Len(us) \in Nat \ {0} /\ us[Len(us)] \in [Names -> Definition] /\ Len(tables) \in Nat
  BY <1>2 DEF Maps
<1>4. panicked' \in BOOLEAN  BY <1>1 DEF Visit, TypeOK
<1>5. given' = given /\ results' = results  OBVIOUS
<1>6. CASE Wrapped
  <2> DEFINE tt == Append(schemas, Fresh(s))
             hs == Append(fs, Opened(schemas, s))
  <2>1. schemas' = tt /\ frames' = hs  BY <1>6 DEF Visit, Fresh, Opened
  <2>2. /\ tt \in Seq(Schema) /\ Len(tt) = Len(schemas) + 1 /\ hs \in Seq(Frame)
        /\ \A i \in DOMAIN schemas : tt[i] = schemas[i]
    BY <1>2, Grown
  <2>3. PartsIn(tt) /\ SchemasIn(tt, hs) /\ Stacked(tt, hs)  BY <1>2, PushStacked
  <2>4. Progress(given, tt, hs)  BY <1>2, PushProgress
  <2>5. Settled(given, tt, us[Len(us)], hs)  BY <1>2, <1>3, PushSettled
  <2>6. \A r \in DOMAIN results : results[r].table # 0 =>
           \A i \in results[r].first..results[r].last : i \in DOMAIN schemas
    BY <1>1, <1>2 DEF Returned
  <2> HIDE DEF tt, hs
  <2>7. \A r \in DOMAIN results : results[r].table # 0 =>
           /\ us[results[r].table] = tables[results[r].table]
           /\ \A i \in results[r].first..results[r].last : tt[i] = schemas[i]
           /\ Apart(us, hs, results[r])
    BY <2>2, <2>6 DEF hs
  <2>8. Returned(given, tt, us, hs, results)
    <3>1. Len(schemas) <= Len(tt) /\ \A j \in DOMAIN schemas : tt[j].of = schemas[j].of  BY <1>2, <2>2
    <3> QED  BY <1>1, <1>2, <2>2, <2>7, <3>1, ReturnedKept DEF Maps
  <2>9. TypeOK'
    <3>1. \A t \in DOMAIN us : \A n \in Names : us[t][n].schema \in 0..Len(tt)  BY <1>2, <2>2
    <3>2. \A r \in DOMAIN results : results[r].table \in 0..Len(us)  BY <1>2, <1>3
    <3> QED  BY <1>2, <1>4, <1>5, <2>1, <2>2, <2>3, <3>1, <3>2 DEF TypeOK, PartsIn, SchemasIn, Maps
  <2>10. Untouched  BY <2>1, <2>7 DEF Untouched
  <2>11. Occupied(given, tt, us[Len(us)], hs)  BY DEF tt, hs
  <2>12. Definitions' = us[Len(us)]  BY DEF Definitions
  <2> QED  BY <1>5, <2>1, <2>3, <2>4, <2>5, <2>8, <2>9, <2>10, <2>11, <2>12 DEF IInv
<1>7. CASE ~Wrapped
  <2>1. schemas' = schemas /\ frames' = << >>  BY <1>7 DEF Visit
  <2>2. \A r \in DOMAIN results : Apart(us, << >>, results[r])  BY DEF Apart
  <2>3. Returned(given, schemas, us, << >>, results)
    <3>1. Len(schemas) <= Len(schemas)  BY <1>2
    <3> HIDE DEF Maps
    <3>2. \A r \in DOMAIN results : results[r].table # 0 =>
             /\ us[results[r].table] = tables[results[r].table]
             /\ \A i \in results[r].first..results[r].last : schemas[i] = schemas[i]
             /\ Apart(us, << >>, results[r])
      BY <2>2
    <3> QED  BY <1>1, <1>2, <3>1, <3>2, ReturnedKept DEF Maps
  <2>4. TypeOK'
    <3>1. \A r \in DOMAIN results : results[r].table \in 0..Len(us)  BY <1>2, <1>3
    <3> QED  BY <1>1, <1>4, <1>5, <2>1, <3>1 DEF TypeOK, Maps
  <2>5. Stacked(schemas, << >>) /\ Progress(given, schemas, << >>)  BY DEF Stacked, Progress
  <2>6. Settled(given, schemas, us[Len(us)], << >>) /\ Occupied(given, schemas, us[Len(us)], << >>)
    BY DEF Settled, Occupied
  <2>7. Definitions' = us[Len(us)]  BY DEF Definitions
  <2>8. Untouched  BY <2>1 DEF Untouched
  <2> QED  BY <1>5, <2>1, <2>3, <2>4, <2>5, <2>6, <2>7, <2>8 DEF IInv
<1> QED  BY <1>6, <1>7

\* The schema of f, finished: Complete without the state.
Finish(g, ss, f) ==
    IF g.head[f.shape] # None THEN [ss EXCEPT ![f.schema].ref = g.name[g.head[f.shape]]] ELSE ss

LEMMA Finishing ==
    ASSUME NEW g \in Graphs, NEW ss \in Seq(Schema), NEW f \in Frame, f.schema \in DOMAIN ss
    PROVE  /\ Finish(g, ss, f) \in Seq(Schema) /\ Len(Finish(g, ss, f)) = Len(ss)
           /\ DOMAIN Finish(g, ss, f) = DOMAIN ss
           /\ \A j \in DOMAIN ss : /\ Finish(g, ss, f)[j].of = ss[j].of
                                   /\ Finish(g, ss, f)[j].parts = ss[j].parts
                                   /\ j # f.schema => Finish(g, ss, f)[j] = ss[j]
           /\ Finish(g, ss, f)[f.schema].ref
                = IF g.head[f.shape] # None THEN g.name[g.head[f.shape]] ELSE ss[f.schema].ref
<1>1. f.shape \in Shapes  BY DEF Frame
<1>2. CASE g.head[f.shape] = None  BY <1>2 DEF Finish
<1>3. CASE g.head[f.shape] # None
  <2> DEFINE n  == g.name[g.head[f.shape]]
             tt == [ss EXCEPT ![f.schema].ref = n]
  <2>1. n \in Names  BY <1>1, <1>3, GraphTyped
  <2> HIDE DEF n
  <2>2. \A j \in DOMAIN ss : ss[j] \in Schema  OBVIOUS
  <2>3. \A j \in DOMAIN ss : tt[j] = IF j = f.schema THEN [ss[j] EXCEPT !.ref = n] ELSE ss[j]  OBVIOUS
  <2>4. \A j \in DOMAIN ss : [ss[j] EXCEPT !.ref = n] \in Schema  BY <2>1, <2>2 DEF Schema
  <2>5. tt \in Seq(Schema) /\ Len(tt) = Len(ss) /\ DOMAIN tt = DOMAIN ss
    <3>1. Len(ss) \in Nat /\ DOMAIN ss = 1..Len(ss)  OBVIOUS
    <3>2. [ss[f.schema] EXCEPT !.ref = n] \in Schema  BY <2>4
    <3> QED  BY <3>1, <3>2
  <2>6. \A j \in DOMAIN ss : /\ tt[j].of = ss[j].of /\ tt[j].parts = ss[j].parts
                             /\ j # f.schema => tt[j] = ss[j]
    BY <2>2, <2>3 DEF Schema
  <2>7. tt[f.schema].ref = n  BY <2>2, <2>3 DEF Schema
  <2>8. Finish(g, ss, f) = tt  BY <1>3 DEF Finish, n
  <2> HIDE DEF tt
  <2> QED  BY <1>3, <2>5, <2>6, <2>7, <2>8 DEF n
<1> QED  BY <1>2, <1>3

\* A frame that has visited everything leaves a schema that says what its shape is.
LEMMA FinishedStated ==
    ASSUME NEW g \in Graphs, NEW ss \in Seq(Schema), NEW f \in Frame, NEW T \in [Names -> Definition],
           PartsIn(ss), f.schema \in DOMAIN ss, Runs(g, ss, f),
           ss[f.schema].of = f.shape, ss[f.schema].ref = None,
           IF g.head[f.shape] # None THEN T[g.name[g.head[f.shape]]].there
                                     ELSE f.next > Len(VisitedIn(g, f.shape))
    PROVE  Stated(g, Finish(g, ss, f), T, f.schema, f.shape)
<1> DEFINE tt == Finish(g, ss, f)
<1>1. /\ DOMAIN tt = DOMAIN ss
      /\ \A j \in DOMAIN ss : tt[j].of = ss[j].of /\ tt[j].parts = ss[j].parts
      /\ tt[f.schema].ref = IF g.head[f.shape] # None THEN g.name[g.head[f.shape]] ELSE None
  BY Finishing
<1> HIDE DEF tt
<1>2. CASE g.head[f.shape] # None  BY <1>1, <1>2 DEF Stated, Runs, tt
<1>3. CASE g.head[f.shape] = None
  <2> DEFINE ps == ss[f.schema].parts
             vs == VisitedIn(g, f.shape)
  <2>1. f.shape \in Shapes /\ f.next \in Nat  BY DEF Frame
  <2>2. Len(vs) \in Nat /\ DOMAIN vs = 1..Len(vs)  BY <2>1, VisitedTyped
  <2>3. Len(ps) = f.next - 1 /\ f.next - 1 <= Len(vs) /\ \A m \in 1..f.next - 1 : ss[ps[m]].of = vs[m]
    BY <1>3 DEF Runs, Ready
  <2>4. Len(ps) = Len(vs)  BY <1>3, <2>1, <2>2, <2>3
  <2>5. DOMAIN ps = DOMAIN vs  BY <2>2, <2>4, SchemaTyped
  <2>6. \A m \in DOMAIN vs : ps[m] \in DOMAIN ss /\ ss[ps[m]].of = vs[m]
    BY <2>1, <2>2, <2>3, <2>4, <2>5 DEF PartsIn
  <2>7. tt[f.schema].parts = ps /\ tt[f.schema].ref = None /\ tt[f.schema].of = f.shape  BY <1>1, <1>3
  <2> HIDE DEF ps, vs
  <2>8. \A m \in DOMAIN vs : tt[ps[m]].of = vs[m]  BY <1>1, <2>6
  <2> QED  BY <1>1, <1>3, <2>4, <2>7, <2>8 DEF Stated, tt, vs
<1> QED  BY <1>2, <1>3

\* When the top frame has left, what is not of a frame below is finished.
LEMMA PopSettled ==
    ASSUME NEW g \in Graphs, NEW ss \in Seq(Schema), NEW tt \in Seq(Schema), NEW fs \in Seq(Frame),
           NEW T \in [Names -> Definition], NEW U \in [Names -> Definition],
           PartsIn(ss), fs # << >>, Settled(g, ss, T, fs), DOMAIN tt = DOMAIN ss,
           \A j \in DOMAIN ss : tt[j].of = ss[j].of,
           \A j \in DOMAIN ss : (\A k \in DOMAIN fs : fs[k].schema # j) => tt[j] = ss[j],
           \A n \in Names : T[n].there => U[n].there,
           Stated(g, tt, U, fs[Len(fs)].schema, fs[Len(fs)].shape),
           NEW j \in DOMAIN tt, j >= fs[1].schema, \A k \in 1..Len(fs) - 1 : fs[k].schema # j
    PROVE  Stated(g, tt, U, j, tt[j].of)
<1>1. DOMAIN fs = 1..Len(fs) /\ Len(fs) \in Nat \ {0}  OBVIOUS
<1>2. CASE j = fs[Len(fs)].schema
  <2>1. tt[j].of = fs[Len(fs)].shape  BY <1>2 DEF Stated
  <2> QED  BY <1>2, <2>1
<1>3. CASE j # fs[Len(fs)].schema
  <2>1. \A k \in DOMAIN fs : fs[k].schema # j  BY <1>1, <1>3
  <2>2. Stated(g, ss, T, j, ss[j].of)  BY <2>1 DEF Settled
  <2>3. ss[j].of \in Shapes /\ tt[j].of = ss[j].of /\ tt[j] = ss[j]  BY <2>1, SchemaTyped
  <2>4. Stated(g, tt, U, j, ss[j].of)  BY <2>2, <2>3, StatedKept
  <2> QED  BY <2>3, <2>4
<1> QED  BY <1>2, <1>3

\* Leave, whoever it returns to: what it does to the schemas, and what it must
\* keep of the results.
LEMMA Finals ==
    ASSUME IInv, Finished
    PROVE  LET i  == Top.schema
               tt == Finish(given, schemas, Top)
           IN  /\ Complete(i) = tt /\ frames # << >>
               /\ tt \in Seq(Schema) /\ Len(tt) = Len(schemas) /\ DOMAIN tt = DOMAIN schemas
               /\ \A j \in DOMAIN schemas : /\ tt[j].of = schemas[j].of
                                            /\ tt[j].parts = schemas[j].parts
                                            /\ j # i => tt[j] = schemas[j]
               /\ tt[i].of = Top.shape
               /\ \A U \in [Names -> Definition] :
                     (\A n \in Names : Definitions[n].there => U[n].there) => Stated(given, tt, U, i, Top.shape)
<1> DEFINE tt == Finish(given, schemas, Top)
           i  == Top.schema
<1>1. TypeOK /\ frames # << >> /\ Stacked(schemas, frames) /\ Progress(given, schemas, frames)
  BY DEF IInv, Finished
<1>2. /\ Len(frames) \in DOMAIN frames /\ Top = frames[Len(frames)] /\ Top \in Frame
      /\ Top.shape \in Shapes /\ Top.schema \in DOMAIN schemas
  BY <1>1, TopTyped
<1>3. given \in Graphs /\ schemas \in Seq(Schema) /\ PartsIn(schemas)  BY <1>1, Typed
<1>4. schemas[i].of = Top.shape /\ schemas[i].ref = None  BY <1>1, <1>2 DEF Stacked
<1>5. Runs(given, schemas, Top)  BY <1>1, <1>2 DEF Progress
<1>6. Complete(i) = tt  BY DEF Complete, Finish, Recursive, HeadName
<1>7. /\ tt \in Seq(Schema) /\ Len(tt) = Len(schemas) /\ DOMAIN tt = DOMAIN schemas
      /\ \A j \in DOMAIN schemas : /\ tt[j].of = schemas[j].of
                                   /\ tt[j].parts = schemas[j].parts
                                   /\ j # i => tt[j] = schemas[j]
  BY <1>2, <1>3, Finishing
<1>8. ASSUME NEW U \in [Names -> Definition], \A n \in Names : Definitions[n].there => U[n].there
      PROVE  Stated(given, tt, U, i, Top.shape)
  <2>1. given.head[Top.shape] # None => given.name[given.head[Top.shape]] \in Names
    BY <1>2, <1>3, GraphTyped
  <2>2. IF given.head[Top.shape] # None THEN U[given.name[given.head[Top.shape]]].there
                                        ELSE Top.next > Len(VisitedIn(given, Top.shape))
    BY <1>8, <2>1 DEF Finished, Recursive, HeadName, Visited, VisitedIn
  <2> QED  BY <1>2, <1>3, <1>4, <1>5, <2>2, FinishedStated
<1>9. tt[i].of = Top.shape  BY <1>2, <1>4, <1>7
<1> HIDE DEF tt
<1> QED  BY <1>1, <1>6, <1>7, <1>8, <1>9 DEF tt

\* The frames below the top one have schemas of their own.
LEMMA BelowApart ==
    ASSUME IInv, frames # << >>
    PROVE  /\ \A k \in DOMAIN Below :
                 /\ Below[k] = frames[k] /\ k \in DOMAIN frames
                 /\ Below[k] \in Frame /\ Below[k].schema \in DOMAIN schemas
                 /\ Below[k].schema < Top.schema /\ frames[1].schema <= Below[k].schema
                 /\ Calls(given, schemas, Below[k], frames[k + 1].shape)
                 /\ \A j \in DOMAIN Below : j # k => Below[j].schema # Below[k].schema
           /\ frames[1].schema <= Top.schema
<1>1. TypeOK /\ Stacked(schemas, frames) /\ Progress(given, schemas, frames)  BY DEF IInv
<1>2. /\ Len(frames) \in DOMAIN frames /\ 1 \in DOMAIN frames /\ Top = frames[Len(frames)]
      /\ Len(Below) = Len(frames) - 1 /\ DOMAIN Below = 1..Len(frames) - 1
      /\ \A k \in DOMAIN Below : Below[k] = frames[k] /\ k \in DOMAIN frames
  BY <1>1, TopTyped
<1>3. /\ Len(frames) \in Nat /\ DOMAIN frames = 1..Len(frames)
      /\ \A k \in DOMAIN frames : /\ frames[k] \in Frame /\ frames[k].schema \in DOMAIN schemas
                                  /\ frames[k].schema \in Nat
  <2>1. frames \in Seq(Frame) /\ SchemasIn(schemas, frames)  BY <1>1, Typed
  <2> QED  BY <2>1, FrameTyped DEF SchemasIn
<1>4. \A k \in DOMAIN frames : \A j \in DOMAIN frames : j < k => frames[j].schema < frames[k].schema
  BY <1>1 DEF Stacked
<1>5. \A k \in DOMAIN frames : frames[1].schema <= frames[k].schema  BY <1>2, <1>3, <1>4
<1>6. \A k \in DOMAIN Below : k # Len(frames) /\ k < Len(frames)  BY <1>2, <1>3
<1>7. \A k \in DOMAIN Below : Calls(given, schemas, Below[k], frames[k + 1].shape)
  BY <1>1, <1>2, <1>6 DEF Progress
<1>8. ASSUME NEW k \in DOMAIN Below, NEW j \in DOMAIN Below, j # k
      PROVE  Below[j].schema # Below[k].schema
  <2>1. k \in Nat /\ j \in Nat  BY <1>2, <1>3
  <2>2. CASE j < k
    <3>1. frames[j].schema < frames[k].schema  BY <1>2, <1>4, <2>2
    <3> QED  BY <1>2, <1>3, <3>1
  <2>3. CASE k < j
    <3>1. frames[k].schema < frames[j].schema  BY <1>2, <1>4, <2>3
    <3> QED  BY <1>2, <1>3, <3>1
  <2> QED  BY <1>8, <2>1, <2>2, <2>3
<1> QED  BY <1>2, <1>3, <1>4, <1>5, <1>6, <1>7, <1>8

\* Leave to a caller, which has what it visits now: the others wait as before.
LEMMA LeaveStep ==
    ASSUME IInv, Finished, Below # << >>, frames' = Below,
           NEW tt \in Seq(Schema), schemas' = tt, NEW U \in [Names -> Definition],
           tables' = [tables EXCEPT ![Len(tables)] = U], UNCHANGED << given, results, panicked >>,
           Len(tt) = Len(schemas), PartsIn(tt), \A j \in DOMAIN schemas : tt[j].of = schemas[j].of,
           \A j \in DOMAIN schemas : (\A k \in DOMAIN frames : frames[k].schema # j) => tt[j] = schemas[j],
           \A k \in DOMAIN Below :
               /\ tt[Below[k].schema].ref = schemas[Below[k].schema].ref
               /\ k # Len(Below) => tt[Below[k].schema].parts = schemas[Below[k].schema].parts,
           Runs(given, tt, Below[Len(Below)]),
           \A n \in Names : /\ Definitions[n].there => U[n].there
                            /\ U[n].schema \in 0..Len(schemas),
           Stated(given, tt, U, Top.schema, Top.shape),
           Occupied(given, tt, U, Below)
    PROVE  IInv' /\ Untouched
<1>1. /\ TypeOK /\ frames # << >> /\ Stacked(schemas, frames)
      /\ Settled(given, schemas, Definitions, frames)
      /\ Returned(given, schemas, tables, frames, results)
  BY DEF IInv, Finished
<1>2. /\ given \in Graphs /\ schemas \in Seq(Schema) /\ tables \in Maps /\ PartsIn(schemas)
      /\ Len(schemas) \in Nat /\ results \in Seq(Result) /\ frames \in Seq(Frame)
      /\ DOMAIN schemas = 1..Len(schemas) /\ DOMAIN tables = 1..Len(tables)
      /\ Len(tables) \in Nat \ {0} /\ Definitions \in [Names -> Definition]
      /\ \A r \in DOMAIN results : /\ results[r].table \in 0..Len(tables)
                                   /\ results[r].first \in Nat /\ results[r].last \in Nat
  BY <1>1, Typed
<1>3. /\ Below \in Seq(Frame) /\ Len(Below) = Len(frames) - 1 /\ DOMAIN Below = 1..Len(frames) - 1
      /\ Len(frames) \in Nat /\ Top = frames[Len(frames)] /\ DOMAIN frames = 1..Len(frames)
  BY <1>1, TopTyped, Typed
<1>4. /\ \A k \in DOMAIN Below :
            /\ Below[k] = frames[k] /\ k \in DOMAIN frames
            /\ Below[k] \in Frame /\ Below[k].schema \in DOMAIN schemas
            /\ frames[1].schema <= Below[k].schema
            /\ Calls(given, schemas, Below[k], frames[k + 1].shape)
      /\ \A k \in DOMAIN frames : frames[1].schema <= frames[k].schema
  <2>1. \A k \in DOMAIN frames : k \in DOMAIN Below \/ k = Len(frames)  BY <1>3
  <2> QED  BY <1>1, <1>3, <2>1, BelowApart
<1>5. 1 \in DOMAIN Below /\ Below[1] = frames[1]
  <2>1. Len(Below) # 0  BY <1>3
  <2> QED  BY <1>3, <1>4, <2>1
<1>6. DOMAIN tt = DOMAIN schemas  BY <1>2
<1>7. Stacked(tt, Below)
  <2> SUFFICES ASSUME NEW k \in DOMAIN Below
               PROVE  /\ tt[Below[k].schema].of = Below[k].shape
                      /\ tt[Below[k].schema].ref = None
                      /\ \A j \in DOMAIN Below : j < k => Below[j].schema < Below[k].schema
    BY DEF Stacked
  <2>1. Below[k] = frames[k] /\ k \in DOMAIN frames /\ Below[k].schema \in DOMAIN schemas  BY <1>4
  <2>2. schemas[frames[k].schema].of = frames[k].shape /\ schemas[frames[k].schema].ref = None
    BY <1>1, <2>1 DEF Stacked
  <2>3. \A j \in DOMAIN Below : j < k => Below[j].schema < Below[k].schema
    BY <1>1, <1>4 DEF Stacked
  <2> QED  BY <2>1, <2>2, <2>3
<1>8. Progress(given, tt, Below)
  <2> SUFFICES ASSUME NEW k \in DOMAIN Below, k # Len(Below)
               PROVE  Calls(given, tt, Below[k], Below[k + 1].shape)
    BY DEF Progress
  <2>1. Below[k + 1] = frames[k + 1]  BY <1>3, <1>4
  <2>2. Calls(given, schemas, Below[k], Below[k + 1].shape)  BY <1>4, <2>1
  <2>3. Below[k] \in Frame /\ Below[k].schema \in DOMAIN schemas  BY <1>4
  <2> QED  BY <1>2, <1>6, <2>2, <2>3, FrameKept
<1>9. Settled(given, tt, U, Below)
  <2> SUFFICES ASSUME NEW j \in DOMAIN tt, j >= Below[1].schema, \A k \in DOMAIN Below : Below[k].schema # j
               PROVE  Stated(given, tt, U, j, tt[j].of)
    BY DEF Settled
  <2>1. j >= frames[1].schema /\ \A k \in 1..Len(frames) - 1 : frames[k].schema # j  BY <1>3, <1>4, <1>5
  <2>2. Stated(given, tt, U, frames[Len(frames)].schema, frames[Len(frames)].shape)  BY <1>3
  <2> QED  BY <1>1, <1>2, <1>6, <2>1, <2>2, PopSettled
<1>10. \A r \in DOMAIN results : results[r].table # 0 =>
          results[r].table < Len(tables) /\ results[r].last < frames[1].schema
  BY <1>1 DEF Returned, Apart
<1> DEFINE us == [tables EXCEPT ![Len(tables)] = U]
<1>11. /\ us \in Maps /\ Len(us) = Len(tables) /\ us[Len(tables)] = U
       /\ \A t \in DOMAIN tables : t # Len(tables) => us[t] = tables[t]
       /\ DOMAIN us = DOMAIN tables
  BY <1>2 DEF Maps
<1>17. tables' = us  OBVIOUS
<1> HIDE DEF us
<1>12. \A r \in DOMAIN results : results[r].table # 0 =>
          /\ us[results[r].table] = tables[results[r].table]
          /\ \A i \in results[r].first..results[r].last : tt[i] = schemas[i]
          /\ Apart(us, Below, results[r])
  <2> SUFFICES ASSUME NEW r \in DOMAIN results, results[r].table # 0
               PROVE  /\ us[results[r].table] = tables[results[r].table]
                      /\ \A i \in results[r].first..results[r].last : tt[i] = schemas[i]
                      /\ Apart(us, Below, results[r])
    OBVIOUS
  <2>1. results[r].table < Len(tables) /\ results[r].last < frames[1].schema /\ results[r].table \in DOMAIN tables
    BY <1>2, <1>10
  <2>2. results[r].first \in DOMAIN schemas /\ results[r].last <= Len(schemas)  BY <1>1 DEF Returned
  <2>3. \A i \in results[r].first..results[r].last :
           i \in DOMAIN schemas /\ \A k \in DOMAIN frames : frames[k].schema # i
    <3> SUFFICES ASSUME NEW i \in results[r].first..results[r].last, NEW k \in DOMAIN frames
                 PROVE  i \in DOMAIN schemas /\ frames[k].schema # i
      BY <1>1, <1>3
    <3>1. frames[k].schema \in Nat /\ frames[1].schema \in Nat  BY <1>2, <1>3, <1>5, FrameTyped
    <3>2. frames[1].schema <= frames[k].schema  BY <1>4
    <3>3. results[r].first \in Nat /\ results[r].last \in Nat  BY <1>2
    <3>4. i < frames[1].schema  BY <2>1, <3>1, <3>3
    <3>5. i \in 1..Len(schemas)
      <4>1. results[r].first >= 1  BY <1>2, <2>2
      <4> QED  BY <1>2, <2>2, <3>3, <4>1
    <3> QED  BY <1>2, <3>1, <3>2, <3>4, <3>5
  <2>4. \A i \in results[r].first..results[r].last : tt[i] = schemas[i]  BY <2>3
  <2>5. us[results[r].table] = tables[results[r].table]
    <3>1. results[r].table # Len(tables)  BY <1>2, <2>1
    <3> QED  BY <1>11, <2>1, <3>1
  <2>6. Apart(us, Below, results[r])  BY <1>5, <1>11, <2>1 DEF Apart
  <2> QED  BY <2>4, <2>5, <2>6
<1>13. Returned(given, tt, us, Below, results)
  <2>1. Len(schemas) <= Len(tt)  BY <1>2
  <2> QED  BY <1>1, <1>2, <1>11, <1>12, <2>1, ReturnedKept DEF Maps
<1>14. TypeOK'
  <2>1. \A t \in DOMAIN us : \A n \in Names : us[t][n].schema \in 0..Len(tt)
    BY <1>1, <1>2, <1>11 DEF TypeOK
  <2>2. SchemasIn(tt, Below)  BY <1>4, <1>6 DEF SchemasIn
  <2> QED  BY <1>1, <1>2, <1>3, <1>11, <1>17, <2>1, <2>2 DEF TypeOK, PartsIn, SchemasIn, Maps
<1>15. Definitions' = U  BY <1>11, <1>17 DEF Definitions
<1>16. Untouched  BY <1>12, <1>17 DEF Untouched
<1> QED  BY <1>7, <1>8, <1>9, <1>13, <1>14, <1>15, <1>16, <1>17 DEF IInv

\* The head of a recursive shape is left: its definition gets the schema.
LEMMA LeaveHead ==
    ASSUME IInv, Finished, frames' = Below, UNCHANGED << given, results, panicked >>,
           Below # << >>, given.head[Below[Len(Below)].shape] # None,
           schemas' = Complete(Top.schema),
           tables' = [tables EXCEPT ![Len(tables)][given.name[given.head[Below[Len(Below)].shape]]]
                                       = Defined(Top.schema)]
    PROVE  IInv' /\ Untouched
<1> DEFINE tt == Finish(given, schemas, Top)
           b  == Below[Len(Below)]
           m  == given.name[given.head[b.shape]]
           i  == Top.schema
           U  == [Definitions EXCEPT ![m] = Defined(i)]
<1>1. /\ TypeOK /\ frames # << >> /\ Occupied(given, schemas, Definitions, frames)
  BY DEF IInv, Finished
<1>2. /\ given \in Graphs /\ schemas \in Seq(Schema) /\ PartsIn(schemas) /\ Len(schemas) \in Nat
      /\ DOMAIN schemas = 1..Len(schemas) /\ tables \in Maps /\ Len(tables) \in Nat \ {0}
      /\ Definitions \in [Names -> Definition]
  BY <1>1, Typed
<1>3. /\ Len(Below) = Len(frames) - 1 /\ DOMAIN Below = 1..Len(frames) - 1 /\ Len(frames) \in Nat
      /\ Top = frames[Len(frames)] /\ i \in DOMAIN schemas /\ Below \in Seq(Frame)
      /\ DOMAIN frames = 1..Len(frames)
  BY <1>1, TopTyped, Typed
<1>4. /\ Len(Below) \in DOMAIN Below /\ 1 \in DOMAIN Below
  <2>1. Len(Below) # 0  BY <1>3
  <2> QED  BY <1>3, <2>1
<1>5. /\ \A k \in DOMAIN Below : /\ Below[k] = frames[k] /\ Below[k] \in Frame
                                 /\ Below[k].schema \in DOMAIN schemas /\ Below[k].schema # i
      /\ Calls(given, schemas, b, Top.shape)
  <2>1. \A k \in DOMAIN Below :
           /\ Below[k] = frames[k] /\ Below[k] \in Frame /\ Below[k].schema \in DOMAIN schemas
           /\ Below[k].schema < Top.schema /\ Calls(given, schemas, Below[k], frames[k + 1].shape)
    BY <1>1, BelowApart
  <2>2. Len(Below) + 1 = Len(frames)  BY <1>3
  <2>3. \A k \in DOMAIN Below : Below[k].schema # i  BY <1>2, <1>3, <2>1
  <2> QED  BY <1>3, <1>4, <2>1, <2>2, <2>3
<1>6. /\ Complete(i) = tt /\ tt \in Seq(Schema) /\ Len(tt) = Len(schemas) /\ DOMAIN tt = DOMAIN schemas
      /\ \A j \in DOMAIN schemas : /\ tt[j].of = schemas[j].of
                                   /\ tt[j].parts = schemas[j].parts
                                   /\ j # i => tt[j] = schemas[j]
      /\ tt[i].of = Top.shape
      /\ \A V \in [Names -> Definition] :
            (\A n \in Names : Definitions[n].there => V[n].there) => Stated(given, tt, V, i, Top.shape)
  BY Finals
<1>7. m \in Names /\ given.head[b.shape] \in Shapes
  <2>1. b.shape \in Shapes  BY <1>4, <1>5 DEF Frame
  <2> QED  BY <1>2, <2>1, GraphTyped
<1>8. Top.shape = given.head[b.shape] /\ schemas[b.schema].parts = << >>  BY <1>5 DEF Calls
<1>9. /\ U \in [Names -> Definition] /\ U[m].there /\ U[m].schema = i
      /\ \A n \in Names : n # m => U[n] = Definitions[n]
  <2>1. Defined(i) \in Definition /\ Defined(i).there /\ Defined(i).schema = i
    BY <1>2, <1>3 DEF Defined, Definition
  <2> QED  BY <1>2, <1>7, <2>1
<1>10. tables' = [tables EXCEPT ![Len(tables)] = U]  BY <1>2 DEF Definitions
<1> HIDE DEF tt, U, m
<1>11. PartsIn(tt)  BY <1>2, <1>6 DEF PartsIn
<1>12. \A n \in Names : /\ Definitions[n].there => U[n].there
                        /\ U[n].schema \in 0..Len(schemas)
  <2>1. \A n \in Names : Definitions[n].schema \in 0..Len(schemas)  BY <1>1, Typed
  <2>2. i \in 0..Len(schemas)  BY <1>2, <1>3
  <2> HIDE DEF i
  <2> QED  BY <1>9, <2>1, <2>2
<1>13. Stated(given, tt, U, i, Top.shape)  BY <1>6, <1>9, <1>12
<1>14. Runs(given, tt, b)  BY <1>4, <1>5, <1>6, <1>8 DEF Runs
<1>15. Occupied(given, tt, U, Below)
  <2>1. U[given.name[Below[1].shape]].there
    <3>1. given.name[frames[1].shape] \in Names
      <4>1. frames[1].shape \in Shapes  BY <1>4, <1>5 DEF Frame
      <4> QED  BY <1>2, <4>1, GraphTyped
    <3> QED  BY <1>1, <1>4, <1>5, <1>12, <3>1 DEF Occupied
  <2>2. ASSUME NEW n \in Names, U[n].there, U[n].schema = 0 PROVE Awaited(given, Below, n)
    <3>1. n # m /\ Definitions[n].there /\ Definitions[n].schema = 0
      <4>1. i # 0  BY <1>2, <1>3
      <4> HIDE DEF i
      <4> QED  BY <1>9, <2>2, <4>1
    <3>2. Awaited(given, frames, n)  BY <1>1, <3>1 DEF Occupied
    <3>3. ASSUME NEW k \in DOMAIN frames, k < Len(frames), given.head[frames[k].shape] # None,
                 n = given.name[given.head[frames[k].shape]]
          PROVE  k \in DOMAIN Below /\ k < Len(Below) /\ Below[k] = frames[k]
      <4>1. k \in DOMAIN Below /\ Below[k] = frames[k]  BY <1>3, <1>5, <3>3
      <4>2. k # Len(Below)  BY <3>1, <3>3, <4>1 DEF m
      <4> QED  BY <1>3, <4>1, <4>2
    <3> QED  BY <1>4, <1>5, <3>2, <3>3 DEF Awaited
  <2>3. ASSUME NEW n \in Names, U[n].there, U[n].schema # 0
        PROVE  Named(given, tt, n, U[n].schema, Below[1].shape)
    <3>1. CASE n = m
      <4>1. \E t \in Shapes : Top.shape = given.head[t]
        <5>1. b.shape \in Shapes  BY <1>4, <1>5 DEF Frame
        <5> QED  BY <1>8, <5>1
      <4>2. U[n].schema = i /\ i \in DOMAIN tt /\ tt[i].of = Top.shape  BY <1>3, <1>6, <1>9, <3>1
      <4>3. given.name[Top.shape] = n  BY <1>8, <3>1 DEF m
      <4> HIDE DEF i
      <4> QED  BY <4>1, <4>2, <4>3 DEF Named
    <3>2. CASE n # m
      <4>1. Named(given, schemas, n, Definitions[n].schema, frames[1].shape)
        BY <1>1, <1>9, <2>3, <3>2 DEF Occupied
      <4>2. \A j \in DOMAIN schemas : tt[j].of = schemas[j].of  BY <1>6
      <4>3. U[n] = Definitions[n] /\ Below[1] = frames[1]  BY <1>4, <1>5, <1>9, <3>2
      <4>4. tt \in Seq(Schema) /\ DOMAIN schemas \subseteq DOMAIN tt  BY <1>6
      <4>5. Named(given, tt, n, Definitions[n].schema, frames[1].shape)
        BY <1>2, <4>1, <4>2, <4>4, NamedKept
      <4> QED  BY <4>3, <4>5
    <3> QED  BY <3>1, <3>2
  <2> QED  BY <2>1, <2>2, <2>3 DEF Occupied
<1>16. \A j \in DOMAIN schemas : (\A k \in DOMAIN frames : frames[k].schema # j) => tt[j] = schemas[j]
  BY <1>1, <1>3, <1>6, TopTyped
<1>17. \A k \in DOMAIN Below :
          /\ tt[Below[k].schema].ref = schemas[Below[k].schema].ref
          /\ k # Len(Below) => tt[Below[k].schema].parts = schemas[Below[k].schema].parts
  BY <1>5, <1>6
<1>18. \A j \in DOMAIN schemas : tt[j].of = schemas[j].of  BY <1>6
<1> QED  BY <1>6, <1>9, <1>10, <1>11, <1>12, <1>13, <1>14, <1>15, <1>16, <1>17, <1>18, LeaveStep

\* A part is left: the schema of the caller gets it.
LEMMA LeavePart ==
    ASSUME IInv, Finished, frames' = Below, UNCHANGED << given, results, panicked, tables >>,
           Below # << >>, given.head[Below[Len(Below)].shape] = None,
           schemas' = [Complete(Top.schema) EXCEPT
                          ![Below[Len(Below)].schema].parts = Append(@, Top.schema)]
    PROVE  IInv' /\ Untouched
<1> DEFINE cc == Finish(given, schemas, Top)
           b  == Below[Len(Below)]
           i  == Top.schema
           tt == [cc EXCEPT ![b.schema].parts = Append(@, i)]
<1>1. /\ TypeOK /\ frames # << >> /\ Occupied(given, schemas, Definitions, frames)
  BY DEF IInv, Finished
<1>2. /\ given \in Graphs /\ schemas \in Seq(Schema) /\ PartsIn(schemas) /\ Len(schemas) \in Nat
      /\ DOMAIN schemas = 1..Len(schemas) /\ tables \in Maps /\ Len(tables) \in Nat \ {0}
      /\ Definitions \in [Names -> Definition]
  BY <1>1, Typed
<1>3. /\ Len(Below) = Len(frames) - 1 /\ DOMAIN Below = 1..Len(frames) - 1 /\ Len(frames) \in Nat
      /\ Top = frames[Len(frames)] /\ i \in DOMAIN schemas /\ Below \in Seq(Frame)
      /\ DOMAIN frames = 1..Len(frames)
  BY <1>1, TopTyped, Typed
<1>4. /\ Len(Below) \in DOMAIN Below /\ 1 \in DOMAIN Below
  <2>1. Len(Below) # 0  BY <1>3
  <2> QED  BY <1>3, <2>1
<1>5. /\ \A k \in DOMAIN Below : /\ Below[k] = frames[k] /\ Below[k] \in Frame
                                 /\ Below[k].schema \in DOMAIN schemas /\ Below[k].schema # i
                                 /\ k # Len(Below) => Below[k].schema # b.schema
      /\ Calls(given, schemas, b, Top.shape)
  <2>1. \A k \in DOMAIN Below :
           /\ Below[k] = frames[k] /\ Below[k] \in Frame /\ Below[k].schema \in DOMAIN schemas
           /\ Below[k].schema < Top.schema /\ Calls(given, schemas, Below[k], frames[k + 1].shape)
           /\ \A j \in DOMAIN Below : j # k => Below[j].schema # Below[k].schema
    BY <1>1, BelowApart
  <2>2. Len(Below) + 1 = Len(frames)  BY <1>3
  <2>3. \A k \in DOMAIN Below : Below[k].schema # i  BY <1>2, <1>3, <2>1
  <2> QED  BY <1>3, <1>4, <2>1, <2>2, <2>3
<1>6. /\ Complete(i) = cc /\ cc \in Seq(Schema) /\ Len(cc) = Len(schemas) /\ DOMAIN cc = DOMAIN schemas
      /\ \A j \in DOMAIN schemas : /\ cc[j].of = schemas[j].of
                                   /\ cc[j].parts = schemas[j].parts
                                   /\ j # i => cc[j] = schemas[j]
      /\ cc[i].of = Top.shape
      /\ \A V \in [Names -> Definition] :
            (\A n \in Names : Definitions[n].there => V[n].there) => Stated(given, cc, V, i, Top.shape)
  BY Finals
<1>7. b \in Frame /\ b.schema \in DOMAIN schemas /\ b.schema # i /\ b.shape \in Shapes /\ b.next \in Nat
  BY <1>4, <1>5 DEF Frame
<1>8. schemas' = tt  BY <1>6
<1> HIDE DEF cc, b
<1>9. /\ tt \in Seq(Schema) /\ Len(tt) = Len(schemas) /\ DOMAIN tt = DOMAIN schemas
      /\ \A j \in DOMAIN schemas : /\ tt[j].of = cc[j].of /\ tt[j].ref = cc[j].ref
                                   /\ j # b.schema => tt[j] = cc[j]
      /\ tt[b.schema].parts = Append(cc[b.schema].parts, i)
  <2>1. \A j \in DOMAIN cc : cc[j] \in Schema  BY <1>6
  <2> DEFINE x == [cc[b.schema] EXCEPT !.parts = Append(@, i)]
  <2>2. x \in Schema
    <3>1. cc[b.schema].parts \in Seq(Nat) /\ i \in Nat  BY <1>2, <1>3, <1>6, <1>7, SchemaTyped
    <3>2. Append(cc[b.schema].parts, i) \in Seq(Nat)  BY <3>1, AppendProperties
    <3>3. cc[b.schema] \in Schema  BY <1>6, <1>7, <2>1
    <3> HIDE DEF i
    <3> QED  BY <3>2, <3>3 DEF Schema
  <2>3. x.of = cc[b.schema].of /\ x.ref = cc[b.schema].ref /\ x.parts = Append(cc[b.schema].parts, i)
    BY <1>6, <1>7, <2>1 DEF Schema
  <2>4. tt = [cc EXCEPT ![b.schema] = x]  BY <1>6, <1>7
  <2> HIDE DEF x, tt
  <2>5. /\ tt[b.schema] = x /\ Len(tt) = Len(cc) /\ DOMAIN tt = DOMAIN cc
        /\ \A j \in DOMAIN schemas : j # b.schema => tt[j] = cc[j]
    BY <1>2, <1>6, <1>7, <2>2, <2>4
  <2>6. tt \in Seq(Schema)  BY <1>2, <1>6, <1>7, <2>2, <2>4
  <2> QED  BY <1>6, <2>3, <2>5, <2>6
<1> HIDE DEF tt
<1>10. /\ DOMAIN Append(cc[b.schema].parts, i)
             = DOMAIN schemas[b.schema].parts \cup {Len(schemas[b.schema].parts) + 1}
       /\ Append(cc[b.schema].parts, i)[Len(schemas[b.schema].parts) + 1] = i
       /\ \A k \in DOMAIN schemas[b.schema].parts :
             Append(cc[b.schema].parts, i)[k] = schemas[b.schema].parts[k]
       /\ Len(Append(cc[b.schema].parts, i)) = Len(schemas[b.schema].parts) + 1
  <2>1. cc[b.schema].parts = schemas[b.schema].parts /\ schemas[b.schema].parts \in Seq(Nat)
    BY <1>2, <1>6, <1>7, SchemaTyped
  <2>2. i \in Nat  BY <1>2, <1>3
  <2>3. \A q \in Seq(Nat), e \in Nat :
           /\ DOMAIN Append(q, e) = DOMAIN q \cup {Len(q) + 1}
           /\ Append(q, e)[Len(q) + 1] = e
           /\ \A k \in DOMAIN q : Append(q, e)[k] = q[k]
           /\ Len(Append(q, e)) = Len(q) + 1
    OBVIOUS
  <2> DEFINE q == schemas[b.schema].parts
             e == i
  <2>4. q \in Seq(Nat) /\ e \in Nat /\ cc[b.schema].parts = q  BY <2>1, <2>2
  <2> HIDE DEF q, e
  <2>5. /\ DOMAIN Append(q, e) = DOMAIN q \cup {Len(q) + 1}
        /\ Append(q, e)[Len(q) + 1] = e
        /\ \A k \in DOMAIN q : Append(q, e)[k] = q[k]
        /\ Len(Append(q, e)) = Len(q) + 1
    BY <2>3, <2>4
  <2> QED  BY <2>4, <2>5 DEF q, e
<1>11. PartsIn(tt)
  <2> SUFFICES ASSUME NEW j \in DOMAIN tt, NEW k \in DOMAIN tt[j].parts
               PROVE  tt[j].parts[k] \in DOMAIN tt
    BY DEF PartsIn
  <2>1. CASE j = b.schema
    <3>1. \A h \in DOMAIN schemas[b.schema].parts : schemas[b.schema].parts[h] \in DOMAIN schemas
      BY <1>2, <1>7 DEF PartsIn
    <3>2. tt[j].parts = Append(cc[b.schema].parts, i) /\ i \in DOMAIN tt  BY <1>3, <1>9, <2>1
    <3>3. k \in DOMAIN Append(cc[b.schema].parts, i)  BY <3>2
    <3>4. CASE k = Len(schemas[b.schema].parts) + 1  BY <1>10, <3>2, <3>4
    <3>5. CASE k \in DOMAIN schemas[b.schema].parts
      <4>1. tt[j].parts[k] = schemas[b.schema].parts[k]  BY <1>10, <3>2, <3>5
      <4> QED  BY <1>9, <3>1, <3>5, <4>1
    <3> QED  BY SMTT(40), <1>10, <3>3, <3>4, <3>5
  <2>2. CASE j # b.schema
    <3>1. tt[j].parts = schemas[j].parts  BY <1>6, <1>9, <2>2
    <3> QED  BY <1>2, <1>9, <3>1 DEF PartsIn
  <2> QED  BY <2>1, <2>2
<1>12. \A j \in DOMAIN schemas : tt[j].of = schemas[j].of  BY <1>6, <1>9
<1>13. Runs(given, tt, b)
  <2> DEFINE vs == VisitedIn(given, b.shape)
             ps == schemas[b.schema].parts
  <2>1. /\ b.next - 1 \in DOMAIN vs /\ Top.shape = vs[b.next - 1] /\ Len(ps) = b.next - 2
        /\ \A m \in 1..b.next - 2 : schemas[ps[m]].of = vs[m]
    BY <1>5, <1>7 DEF Calls, Ready, b
  <2>2. DOMAIN ps = 1..b.next - 2  BY <1>2, <1>7, <2>1, SchemaTyped
  <2>3. DOMAIN vs = 1..Len(vs) /\ Len(vs) \in Nat  BY <1>2, <1>7, VisitedTyped
  <2>4. \A m \in 1..b.next - 2 : ps[m] \in DOMAIN schemas  BY <1>2, <1>7, <2>2 DEF PartsIn
  <2> HIDE DEF ps, vs
  <2>5. b.next - 2 + 1 = b.next - 1 /\ \A m \in 1..b.next - 1 : m \in 1..b.next - 2 \/ m = b.next - 1
    BY <1>7
  <2>6. Len(tt[b.schema].parts) = b.next - 1
    BY <1>9, <1>10, <2>1, <2>5 DEF ps
  <2>7. \A m \in 1..b.next - 2 : tt[tt[b.schema].parts[m]].of = vs[m]
    <3> SUFFICES ASSUME NEW m \in 1..b.next - 2 PROVE tt[tt[b.schema].parts[m]].of = vs[m]
      OBVIOUS
    <3>1. tt[b.schema].parts[m] = ps[m]  BY <1>9, <1>10, <2>2 DEF ps
    <3> QED  BY <1>12, <2>1, <2>4, <3>1
  <2>8. tt[tt[b.schema].parts[b.next - 1]].of = vs[b.next - 1]
    <3>1. tt[b.schema].parts[b.next - 1] = i  BY <1>9, <1>10, <2>1, <2>5 DEF ps
    <3>2. tt[i].of = Top.shape  BY <1>3, <1>6, <1>9
    <3> QED  BY <2>1, <3>1, <3>2
  <2>9. b.next - 1 <= Len(vs)  BY <2>1, <2>3
  <2>10. Ready(given, tt, b, b.next - 1)  BY <2>5, <2>6, <2>7, <2>8, <2>9 DEF Ready, vs
  <2> QED  BY <2>10 DEF Runs, b
<1>14. \A n \in Names : /\ Definitions[n].there => Definitions[n].there
                        /\ Definitions[n].schema \in 0..Len(schemas)
  BY <1>1, <1>2 DEF TypeOK, Definitions
<1>15. Stated(given, tt, Definitions, i, Top.shape)
  <2>1. Stated(given, cc, Definitions, i, Top.shape)  BY <1>2, <1>6
  <2>2. PartsIn(cc)  BY <1>2, <1>6 DEF PartsIn
  <2>3. Top.shape \in Shapes  BY <1>1, TopTyped
  <2>4. tt[i] = cc[i] /\ \A j \in DOMAIN cc : tt[j].of = cc[j].of  BY <1>3, <1>6, <1>7, <1>9
  <2> QED  BY <1>2, <1>6, <1>9, <2>1, <2>2, <2>3, <2>4, StatedKept
<1>16. Occupied(given, tt, Definitions, Below)
  <2>1. Below[1] = frames[1]  BY <1>4, <1>5
  <2>2. ASSUME NEW n \in Names, Awaited(given, frames, n) PROVE Awaited(given, Below, n)
    <3>1. ASSUME NEW k \in DOMAIN frames, k < Len(frames), given.head[frames[k].shape] # None,
                 n = given.name[given.head[frames[k].shape]]
          PROVE  k \in DOMAIN Below /\ k < Len(Below) /\ Below[k] = frames[k]
      <4>1. k \in DOMAIN Below /\ Below[k] = frames[k]  BY SMTT(40), <1>3, <1>5, <3>1
      <4>2. k # Len(Below)  BY <3>1, <4>1
      <4> QED  BY <1>3, <4>1, <4>2
    <3> QED  BY <2>1, <2>2, <3>1 DEF Awaited
  <2>3. ASSUME NEW n \in Names, NEW j, Named(given, schemas, n, j, frames[1].shape)
        PROVE  Named(given, tt, n, j, Below[1].shape)
    BY <1>2, <1>9, <1>12, <2>1, <2>3, NamedKept
  <2> QED  BY <1>1, <2>1, <2>2, <2>3 DEF Occupied
<1>17. \A j \in DOMAIN schemas : (\A k \in DOMAIN frames : frames[k].schema # j) => tt[j] = schemas[j]
  <2>1. i = frames[Len(frames)].schema /\ Len(frames) \in DOMAIN frames  BY <1>1, TopTyped
  <2>2. b.schema = frames[Len(Below)].schema /\ Len(Below) \in DOMAIN frames
    BY <1>3, <1>4, <1>5 DEF b
  <2> QED  BY <1>6, <1>9, <2>1, <2>2
<1>18. \A k \in DOMAIN Below :
          /\ tt[Below[k].schema].ref = schemas[Below[k].schema].ref
          /\ k # Len(Below) => tt[Below[k].schema].parts = schemas[Below[k].schema].parts
  BY <1>5, <1>6, <1>9
<1>19. tables' = [tables EXCEPT ![Len(tables)] = Definitions]  BY <1>2 DEF Maps, Definitions
<1> QED
  BY <1>2, <1>8, <1>9, <1>11, <1>12, <1>13, <1>14, <1>15, <1>16, <1>17, <1>18, <1>19, LeaveStep DEF b

\* The entry is left: its definition gets the schema, and Convert returns.
LEMMA LeaveEntry ==
    ASSUME IInv, Finished, frames' = Below, UNCHANGED << given, panicked >>,
           Below = << >>, schemas' = Complete(Top.schema),
           tables' = [tables EXCEPT ![Len(tables)][given.name[Top.shape]] = Defined(Top.schema)],
           results' = Append(results, [ entry |-> Top.shape, table |-> Len(tables),
                                        first |-> Top.schema, last |-> Len(schemas) ])
    PROVE  IInv' /\ Untouched
<1> DEFINE tt == Finish(given, schemas, Top)
           i  == Top.schema
           m  == given.name[Top.shape]
           U  == [Definitions EXCEPT ![m] = Defined(i)]
           us == [tables EXCEPT ![Len(tables)] = U]
           x  == [entry |-> Top.shape, table |-> Len(tables), first |-> i, last |-> Len(schemas)]
           rs == Append(results, x)
<1>1. /\ TypeOK /\ frames # << >> /\ Occupied(given, schemas, Definitions, frames)
      /\ Settled(given, schemas, Definitions, frames)
      /\ Returned(given, schemas, tables, frames, results)
  BY DEF IInv, Finished
<1>2. /\ given \in Graphs /\ schemas \in Seq(Schema) /\ PartsIn(schemas) /\ Len(schemas) \in Nat
      /\ DOMAIN schemas = 1..Len(schemas) /\ tables \in Maps /\ Len(tables) \in Nat \ {0}
      /\ DOMAIN tables = 1..Len(tables) /\ frames \in Seq(Frame)
      /\ Definitions \in [Names -> Definition] /\ results \in Seq(Result)
      /\ \A r \in DOMAIN results : /\ results[r].table \in 0..Len(tables)
                                   /\ results[r].first \in Nat /\ results[r].last \in Nat
  BY <1>1, Typed
<1>3. /\ Len(frames) = 1 /\ DOMAIN frames = {1} /\ Top = frames[1] /\ i \in DOMAIN schemas
      /\ Top.shape \in Shapes /\ i \in Nat \ {0}
  <2>1. /\ Len(Below) = Len(frames) - 1 /\ Len(frames) \in Nat /\ DOMAIN frames = 1..Len(frames)
        /\ Top = frames[Len(frames)] /\ i \in DOMAIN schemas /\ Top.shape \in Shapes
    BY <1>1, TopTyped, Typed
  <2>2. Len(Below) = 0  OBVIOUS
  <2>3. Len(frames) = 1  BY <2>1, <2>2
  <2> QED  BY <1>2, <2>1, <2>3
<1>4. /\ Complete(i) = tt /\ tt \in Seq(Schema) /\ Len(tt) = Len(schemas) /\ DOMAIN tt = DOMAIN schemas
      /\ \A j \in DOMAIN schemas : /\ tt[j].of = schemas[j].of
                                   /\ tt[j].parts = schemas[j].parts
                                   /\ j # i => tt[j] = schemas[j]
      /\ tt[i].of = Top.shape
      /\ \A V \in [Names -> Definition] :
            (\A n \in Names : Definitions[n].there => V[n].there) => Stated(given, tt, V, i, Top.shape)
  BY Finals
<1>5. m \in Names  BY <1>2, <1>3, GraphTyped
<1>6. /\ U \in [Names -> Definition] /\ U[m].there /\ U[m].schema = i
      /\ \A n \in Names : n # m => U[n] = Definitions[n]
  <2>1. Defined(i) \in Definition /\ Defined(i).there /\ Defined(i).schema = i
    BY <1>3 DEF Defined, Definition
  <2> QED  BY <1>2, <1>5, <2>1
<1>7. tables' = us  BY <1>2 DEF Definitions
<1>8. schemas' = tt /\ results' = rs /\ frames' = << >>  BY <1>4
<1> HIDE DEF tt, U
<1>9. /\ us \in Maps /\ Len(us) = Len(tables) /\ us[Len(tables)] = U /\ DOMAIN us = DOMAIN tables
      /\ \A t \in DOMAIN tables : t # Len(tables) => us[t] = tables[t]
  BY <1>2, <1>6 DEF Maps
<1>10. x \in Result  BY <1>2, <1>3 DEF Result
<1> HIDE DEF us, x, m
<1>11. /\ rs \in Seq(Result) /\ DOMAIN rs = DOMAIN results \cup {Len(results) + 1}
       /\ rs[Len(results) + 1] = x /\ \A r \in DOMAIN results : rs[r] = results[r]
  BY <1>2, <1>10
<1>12. PartsIn(tt)  BY <1>2, <1>4 DEF PartsIn
<1>13. \A n \in Names : /\ Definitions[n].there => U[n].there
                        /\ U[n].schema \in 0..Len(schemas)
  <2>1. \A n \in Names : Definitions[n].schema \in 0..Len(schemas)  BY <1>1, Typed
  <2>2. i \in 0..Len(schemas)  BY <1>2, <1>3
  <2> HIDE DEF i
  <2> QED  BY <1>6, <2>1, <2>2
<1>14. Stated(given, tt, U, i, Top.shape)  BY <1>4, <1>6, <1>13
<1>15. \A r \in DOMAIN results : results[r].table # 0 =>
          results[r].table < Len(tables) /\ results[r].last < i
  BY <1>1, <1>3 DEF Returned, Apart
<1>16. \A r \in DOMAIN results : results[r].table # 0 =>
          /\ us[results[r].table] = tables[results[r].table]
          /\ \A j \in results[r].first..results[r].last : tt[j] = schemas[j]
          /\ Apart(us, << >>, results[r])
  <2> SUFFICES ASSUME NEW r \in DOMAIN results, results[r].table # 0
               PROVE  /\ us[results[r].table] = tables[results[r].table]
                      /\ \A j \in results[r].first..results[r].last : tt[j] = schemas[j]
                      /\ Apart(us, << >>, results[r])
    OBVIOUS
  <2>1. results[r].table < Len(tables) /\ results[r].last < i /\ results[r].table \in DOMAIN tables
    BY <1>2, <1>15
  <2>2. results[r].first \in DOMAIN schemas /\ results[r].last <= Len(schemas)  BY <1>1 DEF Returned
  <2>3. ASSUME NEW j \in results[r].first..results[r].last PROVE j \in DOMAIN schemas /\ j # i
    <3>1. results[r].first \in Nat /\ results[r].last \in Nat /\ results[r].first >= 1  BY <1>2, <2>2
    <3> HIDE DEF i
    <3>2. j \in 1..Len(schemas)  BY <1>2, <2>2, <3>1
    <3> QED  BY <1>2, <1>3, <2>1, <3>1, <3>2
  <2>4. \A j \in results[r].first..results[r].last : tt[j] = schemas[j]  BY <1>4, <2>3
  <2>5. us[results[r].table] = tables[results[r].table]
    <3>1. results[r].table # Len(tables)  BY <1>2, <2>1
    <3> QED  BY <1>9, <2>1, <3>1
  <2> QED  BY <2>4, <2>5 DEF Apart
<1>17. Returned(given, tt, us, << >>, results)
  <2>1. Len(schemas) <= Len(tt) /\ \A j \in DOMAIN schemas : tt[j].of = schemas[j].of  BY <1>2, <1>4
  <2>2. us \in Seq([Names -> Definition]) /\ tables \in Seq([Names -> Definition])
    BY <1>2, <1>9 DEF Maps
  <2>3. \A r \in DOMAIN results : results[r].table \in 0..Len(tables)  BY <1>2
  <2>4. given \in Graphs /\ schemas \in Seq(Schema) /\ tt \in Seq(Schema) /\ results \in Seq(Result)
        /\ PartsIn(schemas) /\ Returned(given, schemas, tables, frames, results)
    BY <1>1, <1>2, <1>4
  <2> QED  BY <1>16, <2>1, <2>2, <2>3, <2>4, ReturnedKept
<1>18. Described(given, tt, U, x)
  <2>1. x.entry = Top.shape /\ x.first = i /\ x.last = Len(schemas)  BY DEF x
  <2>2. U[given.name[x.entry]].there  BY <1>6, <2>1 DEF m
  <2>3. ASSUME NEW n \in Names, U[n].there
        PROVE  U[n].schema # 0 /\ Named(given, tt, n, U[n].schema, x.entry)
    <3>1. CASE n = m
      <4>1. U[n].schema = i /\ i # 0 /\ i \in DOMAIN tt /\ tt[i].of = Top.shape
        BY <1>3, <1>4, <1>6, <3>1
      <4> HIDE DEF i
      <4> QED  BY <2>1, <3>1, <4>1 DEF Named, m
    <3>2. CASE n # m
      <4>1. U[n] = Definitions[n]  BY <1>6, <3>2
      <4>2. ~Awaited(given, frames, n)  BY <1>3, <3>2 DEF Awaited, m
      <4>3. Definitions[n].schema # 0 /\ Named(given, schemas, n, Definitions[n].schema, frames[1].shape)
        BY <1>1, <2>3, <4>1, <4>2 DEF Occupied
      <4>4. \A j \in DOMAIN schemas : tt[j].of = schemas[j].of  BY <1>4
      <4>5. Named(given, tt, n, Definitions[n].schema, frames[1].shape)
        BY <1>2, <1>4, <4>3, <4>4, NamedKept
      <4> QED  BY <1>3, <2>1, <4>1, <4>3, <4>5
    <3> QED  BY <3>1, <3>2
  <2>4. ASSUME NEW j \in x.first..x.last PROVE Stated(given, tt, U, j, tt[j].of)
    <3>1. j \in DOMAIN tt /\ j >= frames[1].schema
      <4> HIDE DEF i
      <4>1. j \in i..Len(schemas)  BY <2>1
      <4>2. j \in 1..Len(schemas) /\ j >= i  BY <1>2, <1>3, <4>1
      <4> QED  BY <1>2, <1>3, <1>4, <4>2 DEF i
    <3>2. \A k \in 1..Len(frames) - 1 : frames[k].schema # j  BY <1>3
    <3>3. Stated(given, tt, U, frames[Len(frames)].schema, frames[Len(frames)].shape)  BY <1>3, <1>14
    <3>4. \A h \in DOMAIN schemas : (\A k \in DOMAIN frames : frames[k].schema # h) => tt[h] = schemas[h]
      BY <1>3, <1>4
    <3>5. \A h \in DOMAIN schemas : tt[h].of = schemas[h].of  BY <1>4
    <3> QED  BY ZenonT(40), <1>1, <1>2, <1>4, <1>6, <1>13, <3>1, <3>2, <3>3, <3>4, <3>5, PopSettled
  <2> QED  BY <2>2, <2>3, <2>4 DEF Described
<1>19. Returned(given, tt, us, << >>, rs)
  <2> SUFFICES ASSUME NEW r \in DOMAIN rs, rs[r].table # 0
               PROVE  /\ rs[r].first \in DOMAIN tt
                      /\ rs[r].last <= Len(tt)
                      /\ Apart(us, << >>, rs[r])
                      /\ Described(given, tt, us[rs[r].table], rs[r])
    BY DEF Returned
  <2>1. CASE r \in DOMAIN results  BY <1>11, <1>17, <2>1 DEF Returned
  <2>2. CASE r = Len(results) + 1
    <3>1. rs[r] = x /\ x.table = Len(tables) /\ x.first = i /\ x.last = Len(schemas)
      BY <1>11, <2>2 DEF x
    <3>2. Len(schemas) <= Len(tt)  BY <1>2, <1>4
    <3> QED  BY <1>3, <1>4, <1>9, <1>18, <3>1, <3>2 DEF Apart
  <2> QED  BY <1>11, <2>1, <2>2
<1>20. TypeOK'
  <2>1. \A t \in DOMAIN us : \A n \in Names : us[t][n].schema \in 0..Len(tt)
    BY <1>1, <1>2, <1>4, <1>9, <1>13 DEF TypeOK
  <2>2. \A r \in DOMAIN rs : rs[r].table \in 0..Len(us)
    <3>1. x.table \in 0..Len(us)  BY <1>2, <1>9 DEF x
    <3> QED  BY <1>2, <1>9, <1>11, <3>1
  <2>3. us # << >>  BY <1>2, <1>9
  <2>4. panicked' \in BOOLEAN /\ given' \in Graphs  BY <1>1, <1>2 DEF TypeOK
  <2>5. frames' \in Seq(Frame) /\ \A k \in DOMAIN frames' : frames'[k].schema \in DOMAIN schemas'
    BY <1>8
  <2> HIDE DEF rs
  <2>6. /\ schemas' \in Seq(Schema) /\ results' \in Seq(Result) /\ tables' # << >>
        /\ tables' \in Seq([Names -> Definition])
        /\ \A t \in DOMAIN tables' : \A n \in Names : tables'[t][n].schema \in 0..Len(schemas')
        /\ \A r \in DOMAIN results' : results'[r].table \in 0..Len(tables')
    BY <1>4, <1>7, <1>8, <1>9, <1>11, <2>1, <2>2, <2>3 DEF Maps
  <2>7. \A j \in DOMAIN schemas' : \A k \in DOMAIN schemas'[j].parts :
           schemas'[j].parts[k] \in DOMAIN schemas'
    BY <1>8, <1>12 DEF PartsIn
  <2> QED  BY <2>4, <2>5, <2>6, <2>7 DEF TypeOK
<1>21. Untouched  BY <1>7, <1>8, <1>16 DEF Untouched
<1>22. Stacked(tt, << >>) /\ Progress(given, tt, << >>)  BY DEF Stacked, Progress
<1>23. Settled(given, tt, U, << >>) /\ Occupied(given, tt, U, << >>)  BY DEF Settled, Occupied
<1>24. Definitions' = U  BY <1>7, <1>9 DEF Definitions
<1> QED  BY <1>7, <1>8, <1>19, <1>20, <1>21, <1>22, <1>23, <1>24 DEF IInv

LEMMA LeaveActs == ASSUME IInv, Leave PROVE IInv' /\ Untouched
<1>1. Finished /\ frames' = Below /\ UNCHANGED << given, panicked >>  BY DEF Leave
<1>2. CASE Below = << >>
  <2>1. /\ schemas' = Complete(Top.schema)
        /\ tables' = [tables EXCEPT ![Len(tables)][given.name[Top.shape]] = Defined(Top.schema)]
        /\ results' = Append(results, [ entry |-> Top.shape, table |-> Len(tables),
                                        first |-> Top.schema, last |-> Len(schemas) ])
    BY <1>2 DEF Leave
  <2> QED  BY <1>1, <1>2, <2>1, LeaveEntry
<1>3. CASE Below # << >> /\ given.head[Below[Len(Below)].shape] # None
  <2>1. /\ schemas' = Complete(Top.schema) /\ UNCHANGED results
        /\ tables' = [tables EXCEPT ![Len(tables)][given.name[given.head[Below[Len(Below)].shape]]]
                                       = Defined(Top.schema)]
    BY <1>3 DEF Leave
  <2> QED  BY <1>1, <1>3, <2>1, LeaveHead
<1>4. CASE Below # << >> /\ given.head[Below[Len(Below)].shape] = None
  <2>1. /\ schemas' = [Complete(Top.schema) EXCEPT
                          ![Below[Len(Below)].schema].parts = Append(@, Top.schema)]
        /\ UNCHANGED << tables, results >>
    BY <1>4 DEF Leave
  <2> QED  BY <1>1, <1>4, <2>1, LeavePart
<1> QED  BY <1>2, <1>3, <1>4

LEMMA ConvertActs ==
    ASSUME IInv, NEW s \in given.entries, Convert(s)
    PROVE  IInv' /\ Untouched
<1> DEFINE T  == [n \in Names |-> IF n = given.name[s] THEN Placeholder ELSE Absent]
           us == Append(tables, T)
           e  == << >>
           hs == Append(e, Opened(schemas, s))
<1>1. /\ TypeOK /\ Returned(given, schemas, tables, frames, results) /\ frames = << >>  BY DEF IInv, Convert, Idle
<1>2. /\ given \in Graphs /\ schemas \in Seq(Schema) /\ tables \in Maps /\ Len(schemas) \in Nat
      /\ Len(tables) \in Nat \ {0} /\ DOMAIN tables = 1..Len(tables)
      /\ \A r \in DOMAIN results : /\ results[r].table \in 0..Len(tables)
                                   /\ results[r].first \in Nat /\ results[r].last \in Nat
  BY <1>1, Typed
<1>3. s \in Shapes /\ given.name[s] \in Names  BY <1>2, GraphTyped
<1>4. /\ T \in [Names -> Definition] /\ T[given.name[s]].there
      /\ \A n \in Names : T[n].schema = 0 /\ (T[n].there => n = given.name[s])
  BY <1>3 DEF Placeholder, Absent, Definition
<1>5. Visit(e, s) /\ tables' = us /\ UNCHANGED << given, results >>  BY DEF Convert
<1> HIDE DEF T
<1>6. /\ us \in Maps /\ us # << >> /\ Len(us) = Len(tables) + 1 /\ us[Len(us)] = T
      /\ \A t \in DOMAIN tables : us[t] = tables[t]
      /\ DOMAIN us = DOMAIN tables \cup {Len(tables) + 1}
  BY <1>2, <1>4 DEF Maps
<1> HIDE DEF us
<1>7. e \in Seq(Frame) /\ DOMAIN e = {}  OBVIOUS
<1>8. /\ SchemasIn(schemas, e) /\ Stacked(schemas, e)
      /\ \A k \in DOMAIN e : Calls(given, schemas, e[k], IF k = Len(e) THEN s ELSE e[k + 1].shape)
      /\ Settled(given, schemas, Definitions, e)
      /\ e # << >> => \A m \in Names : Definitions[m].there => us[Len(us)][m].there
  BY <1>7 DEF SchemasIn, Stacked, Settled
<1>9. hs # << >> /\ hs[1] = Opened(schemas, s) /\ hs[1].shape = s /\ hs[1].schema = Len(schemas) + 1
  BY DEF Opened
<1>10. Occupied(given, Append(schemas, Fresh(s)), us[Len(us)], hs)
  <2> HIDE DEF hs
  <2> QED  BY <1>4, <1>6, <1>9 DEF Occupied, Awaited
<1>11. \A t \in DOMAIN us : \A n \in Names : us[t][n].schema \in 0..Len(schemas)
  BY <1>1, <1>2, <1>4, <1>6 DEF TypeOK
<1>12. ASSUME NEW r \in DOMAIN results, results[r].table # 0
       PROVE  us[results[r].table] = tables[results[r].table] /\ Apart(us, hs, results[r])
  <2>1. results[r].last <= Len(schemas)  BY <1>1, <1>12 DEF Returned
  <2>2. results[r].table \in DOMAIN tables /\ results[r].last \in Nat  BY <1>2, <1>12
  <2> HIDE DEF hs
  <2> QED  BY <1>2, <1>6, <1>9, <2>1, <2>2 DEF Apart
<1>13. Len(tables) <= Len(us)  BY <1>2, <1>6
<1> HIDE DEF e
<1> QED
  BY <1>3, <1>5, <1>6, <1>7, <1>8, <1>10, <1>11, <1>12, <1>13, VisitStep

LEMMA RefusesActs ==
    ASSUME IInv, NEW s \in given.entries, ConvertRefuses(s)
    PROVE  IInv' /\ Untouched
<1> DEFINE x == [entry |-> s, table |-> 0, first |-> 1, last |-> 0]
<1>1. /\ TypeOK /\ Returned(given, schemas, tables, frames, results)
      /\ results' = Append(results, x) /\ UNCHANGED << given, schemas, tables, frames, panicked >>
  BY DEF IInv, ConvertRefuses
<1>2. results \in Seq(Result) /\ x \in Result
  <2>1. s \in Shapes  BY <1>1, Typed, GraphTyped
  <2> QED  BY <1>1, <2>1, Typed DEF Result
<1>3. x.table = 0  OBVIOUS
<1> HIDE DEF x
<1>4. /\ results' \in Seq(Result) /\ DOMAIN results' = DOMAIN results \cup {Len(results) + 1}
      /\ results'[Len(results) + 1] = x /\ \A r \in DOMAIN results : results'[r] = results[r]
  BY <1>1, <1>2
<1>5. Returned(given, schemas, tables, frames, results')
  BY <1>1, <1>3, <1>4 DEF Returned
<1>6. TypeOK'
  <2>1. \A r \in DOMAIN results' : results'[r].table \in 0..Len(tables)
    <3>1. Len(tables) \in Nat  BY <1>1, Typed
    <3> QED  BY <1>1, <1>3, <1>4, <3>1 DEF TypeOK
  <2> QED  BY <1>1, <1>4, <2>1 DEF TypeOK
<1>7. Untouched  BY <1>1 DEF Untouched
<1> QED  BY <1>1, <1>5, <1>6, <1>7 DEF IInv, Definitions

LEMMA VisitHeadActs == ASSUME IInv, VisitHead PROVE IInv' /\ Untouched
<1> DEFINE n  == HeadName
           s  == given.head[Top.shape]
           U  == [Definitions EXCEPT ![n] = Placeholder]
           us == [tables EXCEPT ![Len(tables)] = U]
           hs == Append(frames, Opened(schemas, s))
<1>1. /\ TypeOK /\ Stacked(schemas, frames) /\ Progress(given, schemas, frames)
      /\ Settled(given, schemas, Definitions, frames) /\ Occupied(given, schemas, Definitions, frames)
      /\ Returned(given, schemas, tables, frames, results) /\ frames # << >> /\ Recursive
      /\ ~Definitions[n].there /\ Visit(frames, s) /\ UNCHANGED << given, results >>
      /\ tables' = us
  BY DEF IInv, VisitHead, Definitions
<1>2. /\ given \in Graphs /\ schemas \in Seq(Schema) /\ tables \in Maps /\ Len(tables) \in Nat \ {0}
      /\ DOMAIN tables = 1..Len(tables) /\ Definitions \in [Names -> Definition]
      /\ frames \in Seq(Frame) /\ SchemasIn(schemas, frames) /\ Len(schemas) \in Nat
      /\ \A m \in Names : Definitions[m].schema \in 0..Len(schemas)
      /\ \A r \in DOMAIN results : results[r].table \in 0..Len(tables)
  BY <1>1, Typed
<1>3. /\ Len(frames) \in DOMAIN frames /\ 1 \in DOMAIN frames /\ Top = frames[Len(frames)]
      /\ Top.shape \in Shapes /\ DOMAIN frames = 1..Len(frames) /\ Len(frames) \in Nat
  BY <1>1, TopTyped, Typed
<1>4. s \in Shapes /\ n \in Names /\ n = given.name[s]
  BY <1>1, <1>2, <1>3, GraphTyped DEF Recursive, HeadName
<1>5. /\ U \in [Names -> Definition] /\ U[n].there /\ U[n].schema = 0
      /\ \A m \in Names : m # n => U[m] = Definitions[m]
  <2>1. Placeholder \in Definition /\ Placeholder.there /\ Placeholder.schema = 0
    BY DEF Placeholder, Definition
  <2> QED  BY <1>2, <1>4, <2>1
<1> HIDE DEF U, n, s
<1>6. /\ us \in Maps /\ us # << >> /\ Len(us) = Len(tables) /\ us[Len(us)] = U
      /\ \A t \in DOMAIN tables : t # Len(tables) => us[t] = tables[t]
      /\ DOMAIN us = DOMAIN tables
  BY <1>2, <1>5 DEF Maps
<1> HIDE DEF us
<1>7. \A k \in DOMAIN frames : Calls(given, schemas, frames[k], IF k = Len(frames) THEN s ELSE frames[k + 1].shape)
  <2> SUFFICES ASSUME NEW k \in DOMAIN frames
               PROVE  Calls(given, schemas, frames[k], IF k = Len(frames) THEN s ELSE frames[k + 1].shape)
    OBVIOUS
  <2>1. CASE k = Len(frames)
    <3>1. Runs(given, schemas, Top)  BY <1>1, <1>3 DEF Progress
    <3>2. Calls(given, schemas, Top, s)  BY <1>1, <3>1 DEF Runs, Calls, Recursive, s
    <3> QED  BY <1>3, <2>1, <3>2
  <2>2. CASE k # Len(frames)  BY <1>1, <2>2 DEF Progress
  <2> QED  BY <2>1, <2>2
<1>8. \A m \in Names : Definitions[m].there => us[Len(us)][m].there  BY <1>5, <1>6
<1>9. Occupied(given, Append(schemas, Fresh(s)), us[Len(us)], hs)
  <2>1. Occupied(given, Append(schemas, Fresh(s)), Definitions, hs)
    BY <1>1, <1>2, <1>4, PushOccupied
  <2>2. Len(hs) = Len(frames) + 1 /\ hs[Len(frames)] = frames[Len(frames)] /\ Len(frames) \in DOMAIN hs
        /\ hs # << >>
    BY <1>2, <1>3, <1>4, Grown
  <2> HIDE DEF hs
  <2>3. Awaited(given, hs, n)
    <3>1. given.head[hs[Len(frames)].shape] # None /\ n = given.name[given.head[hs[Len(frames)].shape]]
      BY <1>1, <1>3, <1>4, <2>2 DEF Recursive, s
    <3> QED  BY <1>3, <2>2, <3>1 DEF Awaited
  <2>4. U[given.name[hs[1].shape]].there
    <3>1. given.name[hs[1].shape] \in Names
      <4>1. hs[1] = frames[1]  BY <1>2, <1>3, <1>4, Grown DEF hs
      <4>2. frames[1].shape \in Shapes  BY <1>2, <1>3, FrameTyped
      <4> QED  BY <1>2, <4>1, <4>2, GraphTyped
    <3> QED  BY <1>6, <1>8, <2>1, <2>2, <3>1 DEF Occupied
  <2>5. ASSUME NEW m \in Names, U[m].there
        PROVE  IF U[m].schema = 0 THEN Awaited(given, hs, m)
               ELSE Named(given, Append(schemas, Fresh(s)), m, U[m].schema, hs[1].shape)
    BY <1>5, <2>1, <2>2, <2>3, <2>5 DEF Occupied
  <2> QED  BY <1>6, <2>4, <2>5 DEF Occupied
<1>10. \A t \in DOMAIN us : \A m \in Names : us[t][m].schema \in 0..Len(schemas)
  <2>1. \A m \in Names : U[m].schema \in 0..Len(schemas)
    <3>1. \A m \in Names : Definitions[m].schema \in 0..Len(schemas)  BY <1>1, Typed
    <3> QED  BY <1>2, <1>5, <3>1
  <2>2. \A t \in DOMAIN tables : \A m \in Names : tables[t][m].schema \in 0..Len(schemas)
    BY <1>1 DEF TypeOK
  <2> QED  BY <1>6, <2>1, <2>2
<1>11. ASSUME NEW r \in DOMAIN results, results[r].table # 0
       PROVE  us[results[r].table] = tables[results[r].table] /\ Apart(us, hs, results[r])
  <2>1. results[r].table < Len(tables) /\ results[r].last < frames[1].schema
    BY <1>1, <1>11 DEF Returned, Apart
  <2>2. results[r].table \in DOMAIN tables /\ results[r].table # Len(tables)  BY <1>2, <1>11, <2>1
  <2>3. hs[1] = frames[1]  BY <1>2, <1>3, <1>4, Grown
  <2> HIDE DEF hs
  <2> QED  BY <1>6, <2>1, <2>2, <2>3 DEF Apart
<1>12. Len(tables) <= Len(us)  BY <1>2, <1>6
<1>13. frames # << >> => \A m \in Names : Definitions[m].there => us[Len(us)][m].there  BY <1>8
<1> QED
  BY <1>1, <1>2, <1>4, <1>6, <1>7, <1>9, <1>10, <1>11, <1>12, <1>13, VisitStep

LEMMA VisitPartActs == ASSUME IInv, VisitPart PROVE IInv' /\ Untouched
<1> DEFINE vs == Visited(Top.shape)
           s  == vs[Top.next]
           fs == [frames EXCEPT ![Len(frames)].next = @ + 1]
           hs == Append(fs, Opened(schemas, s))
<1>1. /\ TypeOK /\ Stacked(schemas, frames) /\ Progress(given, schemas, frames)
      /\ Settled(given, schemas, Definitions, frames) /\ Occupied(given, schemas, Definitions, frames)
      /\ Returned(given, schemas, tables, frames, results) /\ frames # << >> /\ ~Recursive
      /\ Top.next <= Len(vs) /\ Visit(fs, s) /\ UNCHANGED << given, tables, results >>
  BY DEF IInv, VisitPart
<1>2. /\ given \in Graphs /\ schemas \in Seq(Schema) /\ tables \in Maps /\ Len(tables) \in Nat \ {0}
      /\ DOMAIN tables = 1..Len(tables) /\ Definitions \in [Names -> Definition]
      /\ frames \in Seq(Frame) /\ SchemasIn(schemas, frames) /\ Len(schemas) \in Nat
  BY <1>1, Typed
<1>3. /\ Len(frames) \in DOMAIN frames /\ 1 \in DOMAIN frames /\ Top = frames[Len(frames)] /\ Top \in Frame
      /\ Top.shape \in Shapes /\ Top.next \in Nat \ {0}
      /\ DOMAIN frames = 1..Len(frames) /\ Len(frames) \in Nat
  BY <1>1, TopTyped, Typed
<1>4. vs = VisitedIn(given, Top.shape)  BY DEF Visited, VisitedIn
<1>5. s \in Shapes /\ Top.next \in DOMAIN vs
  <2>1. Len(vs) \in Nat /\ DOMAIN vs = 1..Len(vs) /\ \A k \in DOMAIN vs : vs[k] \in Shapes
    BY <1>2, <1>3, <1>4, VisitedTyped
  <2> HIDE DEF vs
  <2> QED  BY <1>1, <1>3, <2>1
<1> HIDE DEF vs, s
<1>6. /\ fs \in Seq(Frame) /\ Len(fs) = Len(frames) /\ DOMAIN fs = DOMAIN frames /\ fs # << >>
      /\ \A k \in DOMAIN frames : /\ fs[k].shape = frames[k].shape /\ fs[k].schema = frames[k].schema
                                  /\ k # Len(frames) => fs[k] = frames[k]
      /\ fs[Len(frames)].next = Top.next + 1
  <2> DEFINE x == [Top EXCEPT !.next = @ + 1]
  <2>1. x \in Frame /\ x.shape = Top.shape /\ x.schema = Top.schema /\ x.next = Top.next + 1
    BY <1>3 DEF Frame
  <2>2. fs = [frames EXCEPT ![Len(frames)] = x]  BY <1>3
  <2> HIDE DEF x, fs
  <2>3. Len(fs) = Len(frames) /\ DOMAIN fs = DOMAIN frames /\ fs[Len(frames)] = x
        /\ \A k \in DOMAIN frames : k # Len(frames) => fs[k] = frames[k]
    BY <1>2, <1>3, <2>1, <2>2
  <2>4. fs \in Seq(Frame)  BY <1>2, <1>3, <2>1, <2>2
  <2> QED  BY <1>3, <2>1, <2>3, <2>4
<1> HIDE DEF fs
<1>7. SchemasIn(schemas, fs)  BY <1>2, <1>6 DEF SchemasIn
<1>8. Stacked(schemas, fs)  BY <1>1, <1>6 DEF Stacked
<1>9. Settled(given, schemas, Definitions, fs)
  <2>1. fs[1].schema = frames[1].schema  BY <1>3, <1>6
  <2> QED  BY <1>1, <1>6, <2>1 DEF Settled
<1>10. ASSUME NEW k \in DOMAIN fs
       PROVE  Calls(given, schemas, fs[k], IF k = Len(fs) THEN s ELSE fs[k + 1].shape)
  <2>1. CASE k = Len(fs)
    <3>1. Ready(given, schemas, Top, Top.next - 1)  BY <1>1, <1>3 DEF Progress, Runs, Recursive
    <3>2. fs[k].next - 1 = Top.next /\ fs[k].next - 2 = Top.next - 1  BY <1>3, <1>6, <2>1
    <3>3. fs[k].shape = Top.shape /\ fs[k].schema = Top.schema  BY <1>3, <1>6, <2>1
    <3>4. Ready(given, schemas, fs[k], Top.next - 1)  BY <3>1, <3>3 DEF Ready
    <3> QED  BY <1>1, <1>4, <1>5, <2>1, <3>2, <3>3, <3>4 DEF Calls, Recursive, s
  <2>2. CASE k # Len(fs)
    <3>1. fs[k] = frames[k] /\ Calls(given, schemas, frames[k], frames[k + 1].shape)
      BY <1>1, <1>6, <2>2 DEF Progress
    <3>2. k + 1 \in DOMAIN frames  BY <1>3, <1>6, <2>2
    <3>3. fs[k + 1].shape = frames[k + 1].shape  BY <1>6, <3>2
    <3> QED  BY <2>2, <3>1, <3>3
  <2> QED  BY <2>1, <2>2
<1>11. Occupied(given, schemas, Definitions, fs)
  <2>1. fs[1].shape = frames[1].shape  BY <1>3, <1>6
  <2>2. \A n \in Names : Awaited(given, frames, n) => Awaited(given, fs, n)
    BY <1>6, <2>1 DEF Awaited
  <2> QED  BY <1>1, <2>1, <2>2 DEF Occupied
<1>12. Occupied(given, Append(schemas, Fresh(s)), Definitions, hs)
  BY <1>2, <1>5, <1>6, <1>11, PushOccupied
<1>13. \A t \in DOMAIN tables : \A n \in Names : tables[t][n].schema \in 0..Len(schemas)
  BY <1>1 DEF TypeOK
<1>14. ASSUME NEW r \in DOMAIN results, results[r].table # 0
       PROVE  Apart(tables, hs, results[r])
  <2>1. results[r].table < Len(tables) /\ results[r].last < frames[1].schema
    BY <1>1, <1>14 DEF Returned, Apart
  <2>2. hs[1] = fs[1] /\ fs[1].schema = frames[1].schema  BY <1>3, <1>5, <1>2, <1>6, Grown
  <2> HIDE DEF hs
  <2> QED  BY <2>1, <2>2 DEF Apart
<1>15. tables' = tables /\ tables # << >> /\ Len(tables) <= Len(tables)  BY <1>1, <1>2
<1>16. fs # << >> => \A m \in Names : Definitions[m].there => tables[Len(tables)][m].there
  BY DEF Definitions
<1>17. Occupied(given, Append(schemas, Fresh(s)), tables[Len(tables)], hs)
  BY <1>12 DEF Definitions
<1> QED
  BY <1>1, <1>2, <1>5, <1>6, <1>7, <1>8, <1>9, <1>10, <1>13, <1>14, <1>15, <1>16, <1>17, VisitStep

-----------------------------------------------------------------------------
(* Theorems *)

LEMMA InitIInv == Init => IInv
<1> SUFFICES ASSUME Init PROVE IInv  OBVIOUS
<1> DEFINE T == [n \in Names |-> Absent]
<1>1. T \in [Names -> Definition] /\ \A n \in Names : T[n].schema = 0  BY DEF Absent, Definition
<1>2. /\ given \in Graphs /\ schemas = << >> /\ tables = << T >> /\ frames = << >> /\ results = << >>
      /\ panicked = FALSE
  BY DEF Init
<1> HIDE DEF T
<1>3. tables \in Seq([Names -> Definition]) /\ DOMAIN tables = {1} /\ tables[1] = T /\ tables # << >>
  BY <1>1, <1>2
<1>4. TypeOK
  <2>1. schemas \in Seq(Schema) /\ frames \in Seq(Frame) /\ results \in Seq(Result)  BY <1>2
  <2>2. \A t \in DOMAIN tables : \A n \in Names : tables[t][n].schema \in 0..Len(schemas)
    BY <1>1, <1>2, <1>3
  <2>3. DOMAIN schemas = {} /\ DOMAIN frames = {} /\ DOMAIN results = {}  BY <1>2
  <2>4. panicked \in BOOLEAN  BY <1>2
  <2> QED  BY <1>2, <1>3, <2>1, <2>2, <2>3, <2>4 DEF TypeOK
<1> QED  BY <1>2, <1>4 DEF IInv, Stacked, Progress, Settled, Occupied, Returned

LEMMA NextIInv == ASSUME IInv, [Next]_vars PROVE IInv' /\ Untouched
<1>1. CASE \E s \in given.entries : Convert(s)         BY <1>1, ConvertActs
<1>2. CASE \E s \in given.entries : ConvertRefuses(s)  BY <1>2, RefusesActs
<1>3. CASE VisitPart  BY <1>3, VisitPartActs
<1>4. CASE VisitHead  BY <1>4, VisitHeadActs
<1>5. CASE Leave      BY <1>5, LeaveActs
<1>6. CASE Over \/ UNCHANGED vars
  <2>1. UNCHANGED vars  BY <1>6 DEF Over
  <2>2. Untouched  BY <2>1 DEF vars, Untouched
  <2>3. /\ given' = given /\ schemas' = schemas /\ tables' = tables /\ frames' = frames
        /\ results' = results /\ panicked' = panicked
    BY <2>1 DEF vars
  <2>4. TypeOK'  BY <2>3 DEF IInv, TypeOK
  <2> QED  BY <2>2, <2>3, <2>4 DEF IInv, Definitions
<1> QED  BY <1>1, <1>2, <1>3, <1>4, <1>5, <1>6 DEF Next, Work

LEMMA Invariant == Spec => []IInv
<1>1. IInv /\ [Next]_vars => IInv'  BY NextIInv
<1> QED  BY InitIInv, <1>1, PTL DEF Spec

\* Every variable keeps its type; schemas, maps and records refer to what exists.
THEOREM TypeCorrect == Spec => []TypeOK
<1>1. IInv => TypeOK  BY DEF IInv
<1> QED  BY Invariant, <1>1, PTL

LEMMA SaysWhatIsStated ==
    ASSUME NEW table, NEW i, NEW s, Stated(given, schemas, table, i, s)
    PROVE  Says(table, i, s)
BY DEF Stated, Says, Visited, VisitedIn

LEMMA InvariantDescribes == IInv => Describes
<1> SUFFICES ASSUME IInv, NEW r \in DOMAIN results, results[r].table # 0
             PROVE  LET table == tables[results[r].table]
                        entry == results[r].entry
                    IN  /\ table[given.name[entry]].there
                        /\ \A n \in Names : table[n].there =>
                              /\ table[n].schema # 0
                              /\ LET s == schemas[table[n].schema].of
                                 IN  /\ given.name[s] = n
                                     /\ s \in {entry} \cup {given.head[t] : t \in Shapes}
                        /\ \A i \in results[r].first..results[r].last : Says(table, i, schemas[i].of)
  BY DEF Describes
<1>1. Described(given, schemas, tables[results[r].table], results[r])  BY DEF IInv, Returned
<1>2. \A i \in results[r].first..results[r].last : Says(tables[results[r].table], i, schemas[i].of)
  BY <1>1, SaysWhatIsStated DEF Described
<1> QED  BY <1>1, <1>2 DEF Described, Named

\* Every schema Convert has returned describes its type: the entry and every
\* reference have a definition, made from what it stands for, and none is the
\* empty schema VisitRecursiveShape occupied the name with.
THEOREM DescribesCorrect == Spec => []Describes
BY Invariant, InvariantDescribes, PTL

\* No later conversion changes a schema, or the map of definitions, that Convert
\* has returned.
THEOREM ReturnedStaysCorrect == Spec => ReturnedStays
<1>1. IInv /\ [Next]_vars =>
         [\A r \in DOMAIN results : results[r].table # 0 =>
             /\ tables'[results[r].table] = tables[results[r].table]
             /\ \A i \in results[r].first..results[r].last : schemas'[i] = schemas[i]]_vars
  BY NextIInv DEF Untouched
<1> QED  BY Invariant, <1>1, PTL DEF Spec, ReturnedStays

=============================================================================
