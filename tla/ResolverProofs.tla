----------------------------- MODULE ResolverProofs -----------------------------
(***************************************************************************)
(* Theorems about Resolver, for every document: its types, that a type     *)
(* once resolved keeps its type, and that the pass resolves all there is   *)
(* to what its declaration says or reports an error.  The operators that   *)
(* Resolver applies to the document of a run take it as an argument here,  *)
(* so that the lemmas about them are about data.                           *)
(***************************************************************************)
EXTENDS Resolver, SequenceTheorems, FiniteSetTheorems, WellFoundedInduction, TLAPS

\* The bases that are made with the one for s, which hang on it.
Attached(d, s) ==
    CASE d.op[s] = "builtin" -> d.nested[s]
      [] d.op[s] = "list"    -> d.members[s]
      [] OTHER               -> << >>

\* DecodedBy, DecodedFrom.
DecodedIn(d) ==
    LET D[s \in Shapes] ==
            LET parts == CASE d.op[s] = "builtin" -> d.nested[s]
                           [] d.op[s] = "list"    -> d.members[s]
                           [] OTHER               -> << >>
            IN  FlattenSeq([i \in DOMAIN parts |-> D[parts[i]]]) \o << s >>
    IN  D

\* The nodes that are decoded when the facets of s are.
Inside(d, s) == UNION {ToSet(DecodedIn(d)[t]) : t \in ToSet(d.nested[s])}

\* What a type is resolved by.
SourceOf(d, s) ==
    CASE d.op[s] # "list"        -> d.to[s]
      [] d.members[s] # << >>    -> d.members[s][1]
      [] OTHER                   -> None

\* Meaning
MeaningIn(d) ==
    LET source(s) == CASE d.op[s] # "list"        -> d.to[s]
                       [] d.members[s] # << >>   -> d.members[s][1]
                       [] OTHER                  -> None
        at[k \in 0 .. Cardinality(Shapes)] ==
            [s \in Shapes |->
                CASE d.op[s] \in {"builtin", "group"} -> d.kind[s]
                  [] d.op[s] = "array" -> "array"
                  [] d.op[s] \in {"optional", "union"} -> "union"
                  [] OTHER -> IF k = 0 \/ source(s) = None THEN "unknown"
                              ELSE LET below == at[k - 1] IN below[source(s)]]
    IN  at[Cardinality(Shapes)]

\* Occurring
PartsIn(d, s) ==
    ToSet(d.members[s])
        \cup (IF MeaningIn(d)[s] \in {"object", "array"} /\ d.op[s] # "group"
              THEN ToSet(d.nested[s]) ELSE {})

OccurringIn(d) == Closure([s \in Shapes |-> PartsIn(d, s)], ToSet(d.declared))

FailsIn(d, s, k) == d.facets[s] /\ s \in d.malformed /\ k # "union"

WrongIn(d, s) ==
    \/ d.op[s] = "syntax"
    \/ d.op[s] = "reference" /\ d.to[s] \in {None, s}
    \/ d.op[s] \notin {"builtin", "group"} /\ FailsIn(d, s, MeaningIn(d)[s])

NeedsIn(d, s) ==
    CASE d.op[s] \in {"reference", "include"} -> {d.to[s]} \ {None}
      [] d.op[s] = "list" -> ToSet(d.members[s])
      [] OTHER -> {}

RefersIn(d) == [s \in Shapes |-> NeedsIn(d, s) \cup ToSet(d.members[s])]

RecursiveIn(d) == \E s \in Shapes : s \in Closure(RefersIn(d), RefersIn(d)[s])

-----------------------------------------------------------------------------
(* The inductive invariant *)

Resolved(kd, s) == kd[s] \notin Pending

\* What record f waits for.
Callee(d, f) ==
    IF f.at = "referenced" THEN d.to[f.shape] ELSE d.members[f.shape][f.next]

\* The record is of a shape that is made concrete when it returns.
Unfinished(d, f) == f.at # "members" \/ d.op[f.shape] = "list"

\* Where a record can be.
Placed(d, kd, f) ==
    /\ kd[f.shape] # "unmade" /\ d.op[f.shape] # "builtin"
    /\ f.at = "start" => kd[f.shape] = "unknown" /\ f.next = 1
    /\ f.at = "referenced" =>
          d.op[f.shape] \in {"reference", "include"} /\ d.to[f.shape] \notin {None, f.shape}
    /\ f.at = "members" =>
          /\ d.op[f.shape] \in Containers \cup {"list"}
          /\ d.op[f.shape] \in Containers => Resolved(kd, f.shape)
          /\ f.next <= Len(d.members[f.shape]) + 1
          /\ \A i \in DOMAIN d.members[f.shape] :
                i < f.next => Resolved(kd, d.members[f.shape][i])

Waits(d, f) == f.at = "referenced" \/ (f.at = "members" /\ f.next \in DOMAIN d.members[f.shape])

\* Each record was made for what the one below it waits for.
Linked(d, fs) ==
    \A k \in DOMAIN fs : k < Len(fs) => Waits(d, fs[k]) /\ fs[k + 1].shape = Callee(d, fs[k])

\* The parts of an expression that are still to be visited have not been made.
Ahead(d, kd, fs, r) ==
    \A k \in DOMAIN fs : fs[k].at = "members" /\ d.op[fs[k].shape] \in Containers =>
        /\ \A i \in DOMAIN d.members[fs[k].shape] :
              i > fs[k].next \/ (i = fs[k].next /\ k = Len(fs) /\ r = None)
                  => kd[d.members[fs[k].shape][i]] = "unmade"
        /\ \A j \in DOMAIN fs : j # k /\ fs[j].at = "members" => fs[j].shape # fs[k].shape

\* Nothing that the facets of a shape make has been resolved, or is about to
\* be, before the shape is.
Untouched(d, kd, fs) ==
    \A k \in DOMAIN fs : Unfinished(d, fs[k]) =>
        \A t \in Inside(d, fs[k].shape) :
            /\ d.op[t] # "builtin" => kd[t] \in Pending
            /\ \A j \in DOMAIN fs : fs[j].shape # t

\* The result of a call is about what the caller waits for.
Answered(d, kd, q, fs, r) ==
    /\ \A s \in ToSet(q) : kd[s] # "unmade"
    /\ fs # << >> \/ r # None => q # << >>
    /\ fs # << >> => fs[1].shape = Head(q)
    /\ fs # << >> /\ r # None => Waits(d, fs[Len(fs)])
    /\ fs # << >> /\ r = "ok" => Resolved(kd, Callee(d, fs[Len(fs)]))
    /\ fs = << >> /\ r = "ok" => Resolved(kd, Head(q))
    /\ \A k \in DOMAIN fs : fs[k].at = "start" => k = Len(fs) /\ r = None

\* Bases are made from the top of the trees, and with their parts.
Made(d, kd) ==
    /\ \A s \in ToSet(d.declared) : kd[s] # "unmade"
    /\ \A s \in Shapes : kd[s] = "unmade" => \A t \in Below(d, s) : kd[t] = "unmade"
    /\ \A s \in Shapes : kd[s] = "unknown" =>
          /\ \A t \in ToSet(d.nested[s]) : kd[t] = "unmade"
          /\ d.op[s] \in Containers => \A t \in ToSet(d.members[s]) : kd[t] = "unmade"
    /\ \A s \in Shapes : kd[s] # "unmade" =>
          /\ d.op[s] = "builtin" => kd[s] = d.kind[s]
          /\ \A t \in ToSet(Attached(d, s)) : kd[t] # "unmade"

\* A type is what its declaration says, and nothing else is made.
Meant(d, kd) ==
    \A s \in Shapes :
        /\ kd[s] \notin Pending => kd[s] = MeaningIn(d)[s]
        /\ kd[s] # "unmade" => s \in OccurringIn(d)

Blamed(d, r, fl) == fl \/ r = "error" => \E s \in OccurringIn(d) : WrongIn(d, s)

\* As long as there is no error nothing is forgotten.
Kept(d, kd, dc, q, fs) ==
    \A s \in Shapes :
        /\ kd[s] = "unknown" => s \in ToSet(q) \/ \E k \in DOMAIN fs : fs[k].shape = s
        /\ kd[s] \notin Pending =>
              /\ ~WrongIn(d, s)
              /\ d.op[s] \notin {"builtin", "group"} =>
                    /\ kd[s] \in {"object", "array"} => \A t \in ToSet(d.nested[s]) : kd[t] # "unmade"
                    /\ d.facets[s] => dc[s]
              /\ d.op[s] \in Containers =>
                    \/ \E k \in DOMAIN fs : fs[k].shape = s /\ fs[k].at = "members"
                    \/ \A t \in ToSet(d.members[s]) : kd[t] \notin Pending

\* Without recursive types a shape is made concrete once.
Single(d, kd, fs, al, ih, md) ==
    /\ \A s \in Shapes :
          /\ md[s] <= 1
          /\ kd[s] \in Pending \/ d.op[s] = "builtin"
                => md[s] = 0 /\ al[s] = None /\ ih[s] = << >>
    /\ \A k \in DOMAIN fs : Unfinished(d, fs[k]) => kd[fs[k].shape] = "unknown"

References(d, kd, al, ih) ==
    \A s \in Shapes : kd[s] \notin Pending =>
        /\ al[s] = IF d.op[s] = "reference" /\ ~d.facets[s] THEN d.to[s] ELSE None
        /\ ih[s] = IF d.op[s] = "reference" /\ d.facets[s] THEN << d.to[s] >> ELSE << >>

Controlled(d, kd, q, fs, r) ==
    /\ \A k \in DOMAIN fs : Placed(d, kd, fs[k])
    /\ Linked(d, fs)
    /\ Answered(d, kd, q, fs, r)

\* Records of shapes are where they can be, nothing is made twice or too early, types are
\* what they mean, an error has a cause, and without one nothing is forgotten.
Inv(d, kd, al, ih, dc, q, fs, r, fl, md) ==
    /\ Controlled(d, kd, q, fs, r)
    /\ Made(d, kd) /\ Ahead(d, kd, fs, r) /\ Untouched(d, kd, fs)
    /\ Meant(d, kd) /\ Blamed(d, r, fl)
    /\ ~fl /\ r # "error" => Kept(d, kd, dc, q, fs)
    /\ ~RecursiveIn(d) =>
          /\ Single(d, kd, fs, al, ih, md)
          /\ ~fl /\ r # "error" => References(d, kd, al, ih)

IInv ==
    /\ TypeOK /\ given \in DocumentType /\ WellFormed(given)
    /\ Inv(given, kind, alias, inherits, decoded, queue, frames, ret, failed, made)

-----------------------------------------------------------------------------
(* Sequences and sets *)

LEMMA Least ==
    ASSUME NEW T, T \subseteq Nat, T # {}
    PROVE  \E x \in T : \A y \in T : ~(y < x)
<1> DEFINE R == OpToRel(<, Nat)
<1>1. IsWellFoundedOn(R, Nat)
  BY NatLessThanWellFounded
<1>2. \A x, y \in Nat : y < x => << y, x >> \in R
  BY DEF OpToRel
<1> HIDE DEF R
<1>3. \E x \in T : \A y \in T : << y, x >> \notin R
  BY <1>1, WFMin
<1> QED
  BY <1>2, <1>3

LEMMA SeqTyped ==
    ASSUME NEW A, NEW s \in Seq(A)
    PROVE  /\ Len(s) \in Nat /\ DOMAIN s = 1..Len(s)
           /\ \A i \in DOMAIN s : s[i] \in A /\ s[i] \in ToSet(s)
           /\ ToSet(s) \subseteq A
           /\ \A x \in ToSet(s) : \E i \in DOMAIN s : s[i] = x
           /\ s # << >> => 1 \in DOMAIN s /\ Len(s) # 0 /\ Head(s) = s[1] /\ Head(s) \in ToSet(s)
           /\ s = << >> => ToSet(s) = {}
<1>1. Len(s) \in Nat /\ DOMAIN s = 1..Len(s) /\ \A i \in DOMAIN s : s[i] \in A
  OBVIOUS
<1>2. s # << >> => 1 \in DOMAIN s /\ Len(s) # 0 /\ Head(s) = s[1]
  BY <1>1
<1>3. s = << >> => ToSet(s) = {}
  BY DEF ToSet
<1> QED
  BY <1>1, <1>2, <1>3 DEF ToSet

LEMMA ConcatSet ==
    ASSUME NEW A, NEW s \in Seq(A), NEW t \in Seq(A)
    PROVE  s \o t \in Seq(A) /\ ToSet(s \o t) = ToSet(s) \cup ToSet(t)
<1>1. /\ s \o t \in Seq(A) /\ Len(s \o t) = Len(s) + Len(t)
      /\ \A i \in 1..Len(s) + Len(t) :
            (s \o t)[i] = IF i <= Len(s) THEN s[i] ELSE t[i - Len(s)]
  BY ConcatProperties
<1>2. /\ Len(s) \in Nat /\ Len(t) \in Nat /\ DOMAIN s = 1..Len(s) /\ DOMAIN t = 1..Len(t)
      /\ DOMAIN (s \o t) = 1..Len(s) + Len(t)
  BY <1>1
<1>3. ToSet(s \o t) \subseteq ToSet(s) \cup ToSet(t)
  <2>1. SUFFICES ASSUME NEW i \in DOMAIN (s \o t)
                 PROVE  (s \o t)[i] \in ToSet(s) \cup ToSet(t)
    BY DEF ToSet
  <2>2. CASE i <= Len(s)
    <3>1. i \in DOMAIN s /\ (s \o t)[i] = s[i]
      BY <1>1, <1>2, <2>1, <2>2
    <3> QED
      BY <3>1 DEF ToSet
  <2>3. CASE ~(i <= Len(s))
    <3>1. i - Len(s) \in DOMAIN t /\ (s \o t)[i] = t[i - Len(s)]
      BY <1>1, <1>2, <2>1, <2>3
    <3> QED
      BY <3>1 DEF ToSet
  <2> QED
    BY <2>2, <2>3
<1>4. ToSet(s) \subseteq ToSet(s \o t)
  <2>1. SUFFICES ASSUME NEW i \in DOMAIN s
                 PROVE  s[i] \in ToSet(s \o t)
    BY DEF ToSet
  <2>2. i \in DOMAIN (s \o t) /\ (s \o t)[i] = s[i]
    BY <1>1, <1>2
  <2> QED
    BY <2>2 DEF ToSet
<1>5. ToSet(t) \subseteq ToSet(s \o t)
  <2>1. SUFFICES ASSUME NEW i \in DOMAIN t
                 PROVE  t[i] \in ToSet(s \o t)
    BY DEF ToSet
  <2>2. i + Len(s) \in DOMAIN (s \o t) /\ (s \o t)[i + Len(s)] = t[i]
    <3>1. i + Len(s) \in 1..Len(s) + Len(t) /\ ~(i + Len(s) <= Len(s)) /\ i + Len(s) - Len(s) = i
      BY <1>2
    <3> QED
      BY <1>1, <1>2, <3>1
  <2> QED
    BY <2>2 DEF ToSet
<1> QED
  BY <1>1, <1>3, <1>4, <1>5

\* f[i] is what the first i sequences of ss make together.
Flattens(f, ss, n) == f = [i \in 1..n |-> IF i = 1 THEN ss[i] ELSE f[i - 1] \o ss[i]]

LEMMA FlattensAt ==
    ASSUME NEW f, NEW ss, NEW n \in Nat, Flattens(f, ss, n)
    PROVE  /\ DOMAIN f = 1..n
           /\ n # 0 => f[1] = ss[1]
           /\ \A i \in 1..n : i # 1 => f[i] = f[i - 1] \o ss[i]
<1>1. /\ DOMAIN f = 1..n
      /\ \A i \in 1..n : f[i] = IF i = 1 THEN ss[i] ELSE f[i - 1] \o ss[i]
  <2> DEFINE g == [i \in 1..n |-> IF i = 1 THEN ss[i] ELSE f[i - 1] \o ss[i]]
  <2>1. f = g
    BY DEF Flattens
  <2>2. DOMAIN g = 1..n /\ \A i \in 1..n : g[i] = IF i = 1 THEN ss[i] ELSE f[i - 1] \o ss[i]
    OBVIOUS
  <2> HIDE DEF g
  <2> QED
    BY <2>1, <2>2
<1>2. n # 0 => 1 \in 1..n
  OBVIOUS
<1> QED
  BY <1>1, <1>2

\* There is such a function: for the least n without one, that of n - 1 could be
\* extended.
LEMMA FlattensExists ==
    ASSUME NEW ss, NEW n \in Nat
    PROVE  \E f : Flattens(f, ss, n)
<1> DEFINE T == {k \in Nat : ~\E f : Flattens(f, ss, k)}
<1>1. SUFFICES ASSUME T # {} PROVE FALSE
  OBVIOUS
<1>2. PICK k \in T : \A j \in T : ~(j < k)
  <2>1. T \subseteq Nat
    OBVIOUS
  <2> HIDE DEF T
  <2> QED
    BY <1>1, <2>1, Least
<1>3. k \in Nat /\ ~\E f : Flattens(f, ss, k)
  OBVIOUS
<1>4. k # 0
  <2> DEFINE h == [d \in 1..0 |-> {}]
  <2>1. \A d : d \notin 1..0
    OBVIOUS
  <2>2. h = [i \in 1..0 |-> IF i = 1 THEN ss[i] ELSE h[i - 1] \o ss[i]]
    BY <2>1
  <2>3. Flattens(h, ss, 0)
    BY <2>2 DEF Flattens
  <2> QED
    BY <1>3, <2>3
<1>5. k - 1 \in Nat /\ k - 1 < k
  BY <1>3, <1>4
<1>6. \E f : Flattens(f, ss, k - 1)
  BY <1>2, <1>5
<1>7. PICK f : Flattens(f, ss, k - 1)
  BY <1>6
<1> DEFINE last == IF k = 1 THEN ss[k] ELSE f[k - 1] \o ss[k]
           g == [d \in 1..k |-> IF d = k THEN last ELSE f[d]]
<1>8. \A d \in 1..k : g[d] = IF d = 1 THEN ss[d] ELSE g[d - 1] \o ss[d]
  <2> TAKE d \in 1..k
  <2>1. CASE d = k
    <3>1. k # 1 => k - 1 \in 1..k /\ k - 1 # k
      BY <1>3, <1>5
    <3>2. k # 1 => g[k - 1] = f[k - 1]
      BY <3>1
    <3>3. k \in 1..k
      BY <1>3, <1>4
    <3>4. g[k] = last
      BY <3>3
    <3> QED
      BY <2>1, <3>2, <3>4
  <2>2. CASE d # k
    <3>1. d \in 1..(k - 1) /\ g[d] = f[d]
      BY <1>3, <2>2
    <3>2. CASE d = 1
      <4>1. k - 1 # 0
        BY <3>1, <3>2, <1>3
      <4> QED
        BY <1>5, <1>7, <3>1, <3>2, <4>1, FlattensAt
    <3>3. CASE d # 1
      <4>1. d - 1 \in 1..k /\ d - 1 # k
        BY <1>3, <3>1, <3>3
      <4>2. g[d - 1] = f[d - 1]
        BY <4>1
      <4>3. f[d] = f[d - 1] \o ss[d]
        BY <1>5, <1>7, <3>1, <3>3, FlattensAt
      <4> QED
        BY <3>1, <3>3, <4>2, <4>3
    <3> QED
      BY <3>2, <3>3
  <2> QED
    BY <2>1, <2>2
<1>9. Flattens(g, ss, k)
  <2>1. g = [d \in 1..k |-> g[d]]
    OBVIOUS
  <2> HIDE DEF g
  <2> QED
    BY <1>8, <2>1 DEF Flattens
<1> QED
  BY <1>3, <1>9

\* FlattenSeq has the elements of all the sequences.
LEMMA FlattenedSet ==
    ASSUME NEW A, NEW ss \in Seq(Seq(A))
    PROVE  /\ FlattenSeq(ss) \in Seq(A)
           /\ ToSet(FlattenSeq(ss)) = UNION {ToSet(ss[i]) : i \in DOMAIN ss}
<1> DEFINE n == Len(ss)
           w == CHOOSE f : Flattens(f, ss, n)
<1>1. n \in Nat /\ DOMAIN ss = 1..n /\ \A i \in 1..n : ss[i] \in Seq(A)
  OBVIOUS
<1>2. Flattens(w, ss, n)
  BY <1>1, FlattensExists
<1>3. FlattenSeq(ss) = IF n = 0 THEN ss ELSE w[n]
  BY DEF FlattenSeq, Flattens
<1> DEFINE T == {k \in Nat : k \in 1..n /\ ~(/\ w[k] \in Seq(A)
                                            /\ ToSet(w[k]) = UNION {ToSet(ss[i]) : i \in 1..k})}
<1>4. T = {}
  <2> HIDE DEF w, n
  <2>1. SUFFICES ASSUME T # {} PROVE FALSE
    OBVIOUS
  <2>2. PICK k \in T : \A j \in T : ~(j < k)
    <3>1. T \subseteq Nat
      OBVIOUS
    <3> HIDE DEF T
    <3> QED
      BY <2>1, <3>1, Least
  <2>3. k \in 1..n /\ ~(w[k] \in Seq(A) /\ ToSet(w[k]) = UNION {ToSet(ss[i]) : i \in 1..k})
    OBVIOUS
  <2>6. /\ DOMAIN w = 1..n
        /\ n # 0 => w[1] = ss[1]
        /\ \A i \in 1..n : i # 1 => w[i] = w[i - 1] \o ss[i]
    BY ZenonT(40), <1>1, <1>2, FlattensAt
  <2>7. k \in 1..n /\ n # 0
    BY <1>1, <2>3
  <2>4. CASE k = 1
    <3>1. w[1] = ss[1]
      BY <2>6, <2>7
    <3>2. UNION {ToSet(ss[i]) : i \in 1..1} = ToSet(ss[1])
      <4>1. \A i : i \in 1..1 <=> i = 1
        OBVIOUS
      <4> QED
        BY <4>1
    <3> QED
      BY <1>1, <2>3, <2>4, <3>1, <3>2
  <2>5. CASE k # 1
    <3>1. k - 1 \in 1..n /\ k - 1 < k /\ k - 1 \in Nat
      BY <1>1, <2>3, <2>5
    <3>2. w[k - 1] \in Seq(A) /\ ToSet(w[k - 1]) = UNION {ToSet(ss[i]) : i \in 1..(k - 1)}
      BY <2>2, <3>1
    <3>3. w[k] = w[k - 1] \o ss[k]
      BY <2>5, <2>6, <2>7
    <3>4. ss[k] \in Seq(A)
      BY <1>1, <2>3
    <3>5. w[k] \in Seq(A) /\ ToSet(w[k]) = ToSet(w[k - 1]) \cup ToSet(ss[k])
      BY <3>2, <3>3, <3>4, ConcatSet
    <3>6. \A i : i \in 1..k <=> i \in 1..(k - 1) \/ i = k
      BY <1>1, <2>3
    <3>7. UNION {ToSet(ss[i]) : i \in 1..k} = (UNION {ToSet(ss[i]) : i \in 1..(k - 1)}) \cup ToSet(ss[k])
      BY <3>6
    <3> QED
      BY <2>3, <3>2, <3>5, <3>7
  <2> QED
    BY <2>4, <2>5
<1>5. CASE n = 0
  <2>1. ss = << >> /\ FlattenSeq(ss) = << >>
    BY <1>3, <1>5
  <2>2. DOMAIN ss = {} /\ ToSet(<< >>) = {} /\ << >> \in Seq(A)
    BY <1>1, <1>5 DEF ToSet
  <2>3. UNION {ToSet(ss[i]) : i \in DOMAIN ss} = {}
    BY <2>2
  <2> QED
    BY <2>1, <2>2, <2>3
<1>6. CASE n # 0
  <2>1. n \in 1..n
    BY <1>1, <1>6
  <2>2. n \notin T
    BY <1>4
  <2> HIDE DEF w, n
  <2>3. w[n] \in Seq(A) /\ ToSet(w[n]) = UNION {ToSet(ss[i]) : i \in 1..n}
    BY <1>1, <2>1, <2>2
  <2> QED
    BY <1>1, <1>3, <1>6, <2>3
<1> HIDE DEF n, w, T
<1> QED
  BY <1>5, <1>6

-----------------------------------------------------------------------------
(* Documents *)

LEMMA DocTyped ==
    ASSUME NEW d \in DocumentType
    PROVE  /\ d.op \in [Shapes -> {"builtin", "group", "reference", "array",
                                   "optional", "union", "include", "list", "syntax"}]
           /\ d.kind \in [Shapes -> Kinds]
           /\ d.to \in [Shapes -> Shapes \cup {None}]
           /\ d.members \in [Shapes -> Seq(Shapes)]
           /\ d.facets \in [Shapes -> BOOLEAN]
           /\ d.nested \in [Shapes -> Seq(Shapes)]
           /\ d.height \in [Shapes -> 0 .. Cardinality(Shapes)]
           /\ d.malformed \subseteq Shapes
           /\ d.declared \in Seq(Shapes)
           /\ IsFiniteSet(Shapes) /\ None \notin Shapes
BY ConstantsAssumption DEF DocumentType

LEMMA NoneIsNothing == None \notin Shapes /\ None # "ok" /\ None # "error"
BY ConstantsAssumption

LEMMA ShapesCounted == IsFiniteSet(Shapes) /\ Cardinality(Shapes) \in Nat
BY ConstantsAssumption, FS_CardinalityType

LEMMA Heights ==
    ASSUME NEW d \in DocumentType, NEW s \in Shapes
    PROVE  d.height[s] \in Nat /\ d.height[s] <= Cardinality(Shapes)
<1>1. d.height[s] \in 0 .. Cardinality(Shapes)
  BY DocTyped
<1> QED
  BY <1>1, ShapesCounted

LEMMA ChildrenTyped ==
    ASSUME NEW d \in DocumentType, NEW s \in Shapes
    PROVE  /\ d.members[s] \in Seq(Shapes) /\ d.nested[s] \in Seq(Shapes)
           /\ ToSet(d.members[s]) \subseteq Below(d, s) /\ ToSet(d.nested[s]) \subseteq Below(d, s)
           /\ Below(d, s) \subseteq Shapes
           /\ Attached(d, s) \in Seq(Shapes) /\ ToSet(Attached(d, s)) \subseteq Below(d, s)
<1>1. d.members[s] \in Seq(Shapes) /\ d.nested[s] \in Seq(Shapes) /\ << >> \in Seq(Shapes)
  BY DocTyped
<1>2. ToSet(d.members[s]) \subseteq Shapes /\ ToSet(d.nested[s]) \subseteq Shapes
  BY <1>1, SeqTyped
<1>3. ToSet(<< >>) = {}
  BY <1>1, SeqTyped
<1>4. Attached(d, s) \in {d.members[s], d.nested[s], << >>}
  BY DEF Attached
<1> QED
  BY <1>1, <1>2, <1>3, <1>4 DEF Below

\* Where a node hangs.
LEMMA Lower ==
    ASSUME NEW d \in DocumentType, WellFormed(d), NEW s \in Shapes, NEW t \in Below(d, s)
    PROVE  t \in Shapes /\ d.height[t] < d.height[s] /\ t # s /\ t \notin ToSet(d.declared)
<1>1. t \in Shapes
  BY ChildrenTyped
<1>2. d.height[t] < d.height[s] /\ t \notin ToSet(d.declared)
  BY DEF WellFormed
<1> QED
  BY <1>1, <1>2, Heights

LEMMA OnePlace ==
    ASSUME NEW d \in DocumentType, WellFormed(d), NEW s \in Shapes, NEW t \in Shapes,
           NEW x \in Below(d, s), x \in Below(d, t)
    PROVE  s = t
BY DEF WellFormed

\* One of a set of shapes is lowest.
LEMMA Lowest ==
    ASSUME NEW d \in DocumentType, NEW T \in SUBSET Shapes, T # {}
    PROVE  \E s \in T : \A t \in T : ~(d.height[t] < d.height[s])
<1> DEFINE H == {d.height[s] : s \in T}
<1>1. H \subseteq Nat /\ H # {}
  BY Heights
<1>2. PICK h \in H : \A g \in H : ~(g < h)
  BY <1>1, Least
<1> QED
  BY <1>2

\* What holds of a shape when it holds of those attached to it, holds of all.
LEMMA BottomUp ==
    ASSUME NEW d \in DocumentType, WellFormed(d), NEW Q,
           \A s \in Shapes : (\A t \in ToSet(Attached(d, s)) : t \in Q) => s \in Q
    PROVE  Shapes \subseteq Q
<1>1. SUFFICES ASSUME Shapes \ Q # {} PROVE FALSE
  OBVIOUS
<1>2. PICK s \in Shapes \ Q : \A t \in Shapes \ Q : ~(d.height[t] < d.height[s])
  BY <1>1, Lowest
<1>3. \A t \in ToSet(Attached(d, s)) : t \in Shapes /\ d.height[t] < d.height[s]
  BY <1>2, ChildrenTyped DEF WellFormed
<1> QED
  BY <1>2, <1>3

-----------------------------------------------------------------------------
(* What is decoded with a node *)

\* f of each of a sequence of shapes.
Strung(f, ss) == [i \in DOMAIN ss |-> f[ss[i]]]

Decode(d, f, s) == FlattenSeq(Strung(f, Attached(d, s))) \o << s >>

LEMMA StrungSet ==
    ASSUME NEW A, NEW ss \in Seq(Shapes), NEW f \in [Shapes -> Seq(A)]
    PROVE  /\ FlattenSeq(Strung(f, ss)) \in Seq(A)
           /\ ToSet(FlattenSeq(Strung(f, ss))) = UNION {ToSet(f[t]) : t \in ToSet(ss)}
<1> DEFINE h == Strung(f, ss)
<1>1. Len(ss) \in Nat /\ DOMAIN ss = 1..Len(ss) /\ \A i \in DOMAIN ss : ss[i] \in Shapes
  BY SeqTyped
<1>2. h \in [1..Len(ss) -> Seq(A)] /\ DOMAIN h = DOMAIN ss /\ \A i \in DOMAIN ss : h[i] = f[ss[i]]
  BY <1>1 DEF Strung
<1> HIDE DEF h
<1>3. h \in Seq(Seq(A))
  <2>1. Seq(Seq(A)) = UNION {[1..m -> Seq(A)] : m \in Nat}
    BY SeqDef
  <2> QED
    BY <1>1, <1>2, <2>1
<1>4. FlattenSeq(h) \in Seq(A) /\ ToSet(FlattenSeq(h)) = UNION {ToSet(h[i]) : i \in DOMAIN h}
  BY <1>3, FlattenedSet
<1>5. UNION {ToSet(h[i]) : i \in DOMAIN h} = UNION {ToSet(f[t]) : t \in ToSet(ss)}
  <2>1. \A i \in DOMAIN ss : ss[i] \in ToSet(ss)
    BY SeqTyped
  <2>2. \A t \in ToSet(ss) : \E i \in DOMAIN ss : ss[i] = t
    BY SeqTyped
  <2> QED
    BY <1>2, <2>1, <2>2
<1> QED
  BY <1>4, <1>5 DEF h

LEMMA DecodeTyped ==
    ASSUME NEW d \in DocumentType, NEW f \in [Shapes -> Seq(Shapes)], NEW s \in Shapes
    PROVE  /\ Decode(d, f, s) \in Seq(Shapes)
           /\ ToSet(Decode(d, f, s)) = {s} \cup UNION {ToSet(f[t]) : t \in ToSet(Attached(d, s))}
<1> DEFINE x == FlattenSeq(Strung(f, Attached(d, s)))
           y == << s >>
<1>1. x \in Seq(Shapes) /\ ToSet(x) = UNION {ToSet(f[t]) : t \in ToSet(Attached(d, s))}
  BY ChildrenTyped, StrungSet
<1>2. y \in Seq(Shapes) /\ ToSet(y) = {s}
  BY DEF ToSet
<1> HIDE DEF x, y
<1>3. x \o y \in Seq(Shapes) /\ ToSet(x \o y) = ToSet(x) \cup ToSet(y)
  BY <1>1, <1>2, ConcatSet
<1> QED
  BY <1>1, <1>2, <1>3 DEF Decode, x, y

Decodes(d, f) == f = [s \in Shapes |-> Decode(d, f, s)]

\* f is right for the shapes lower than n.
DecodesTo(d, f, n) ==
    f \in [Shapes -> Seq(Shapes)] /\ \A s \in Shapes : d.height[s] < n => f[s] = Decode(d, f, s)

\* What is decoded with a shape does not depend on f at greater heights.
LEMMA DecodeLocal ==
    ASSUME NEW d \in DocumentType, WellFormed(d), NEW s \in Shapes, NEW f, NEW g,
           \A t \in Shapes : d.height[t] < d.height[s] => f[t] = g[t]
    PROVE  Decode(d, f, s) = Decode(d, g, s)
<1> DEFINE ss == Attached(d, s)
<1>1. \A i \in DOMAIN ss : ss[i] \in ToSet(ss)
  BY ChildrenTyped, SeqTyped
<1>2. \A i \in DOMAIN ss : ss[i] \in Shapes /\ d.height[ss[i]] < d.height[s]
  BY <1>1, ChildrenTyped DEF WellFormed
<1>3. \A i \in DOMAIN ss : f[ss[i]] = g[ss[i]]
  BY <1>2
<1> HIDE DEF ss
<1>4. Strung(f, ss) = Strung(g, ss)
  BY <1>3 DEF Strung
<1> QED
  BY <1>4 DEF Decode, ss

LEMMA DecodesUp ==
    ASSUME NEW d \in DocumentType, WellFormed(d), NEW n \in Nat
    PROVE  \E f : DecodesTo(d, f, n)
<1> DEFINE T == {k \in Nat : ~\E f : DecodesTo(d, f, k)}
<1>1. SUFFICES ASSUME T # {} PROVE FALSE
  OBVIOUS
<1>2. PICK k \in T : \A j \in T : ~(j < k)
  <2>1. T \subseteq Nat
    OBVIOUS
  <2> HIDE DEF T
  <2> QED
    BY <1>1, <2>1, Least
<1>3. k \in Nat /\ ~\E f : DecodesTo(d, f, k)
  OBVIOUS
<1>4. k # 0
  <2>1. [s \in Shapes |-> << >>] \in [Shapes -> Seq(Shapes)]
    OBVIOUS
  <2>2. \A s \in Shapes : ~(d.height[s] < 0)
    BY Heights
  <2>3. DecodesTo(d, [s \in Shapes |-> << >>], 0)
    BY <2>1, <2>2 DEF DecodesTo
  <2> QED
    BY <1>3, <2>3
<1>5. k - 1 \in Nat /\ k - 1 < k
  BY <1>3, <1>4
<1>6. \E f : DecodesTo(d, f, k - 1)
  BY <1>2, <1>5
<1>7. PICK f : DecodesTo(d, f, k - 1)
  BY <1>6
<1> DEFINE g == [s \in Shapes |-> Decode(d, f, s)]
<1>8. g \in [Shapes -> Seq(Shapes)] /\ \A s \in Shapes : g[s] = Decode(d, f, s)
  BY <1>7, DecodeTyped DEF DecodesTo
<1> HIDE DEF g, T
<1>9. ASSUME NEW s \in Shapes, d.height[s] < k
      PROVE  g[s] = Decode(d, g, s)
  <2>1. \A t \in Shapes : d.height[t] < d.height[s] => f[t] = g[t]
    <3>1. \A t \in Shapes : d.height[t] < d.height[s] => d.height[t] < k - 1
      BY <1>3, <1>9, Heights
    <3> QED
      BY <1>7, <1>8, <3>1 DEF DecodesTo
  <2>2. Decode(d, f, s) = Decode(d, g, s)
    BY <2>1, DecodeLocal
  <2> QED
    BY <1>8, <2>2
<1>10. DecodesTo(d, g, k)
  BY <1>8, <1>9 DEF DecodesTo
<1> QED
  BY <1>3, <1>10

LEMMA DecodedAt ==
    ASSUME NEW d \in DocumentType, WellFormed(d)
    PROVE  /\ DecodedIn(d) \in [Shapes -> Seq(Shapes)]
           /\ \A s \in Shapes : ToSet(DecodedIn(d)[s])
                  = {s} \cup UNION {ToSet(DecodedIn(d)[t]) : t \in ToSet(Attached(d, s))}
<1>1. DecodedIn(d) = CHOOSE f : Decodes(d, f)
  BY DEF DecodedIn, Decodes, Decode, Strung, Attached
<1>2. PICK f : DecodesTo(d, f, Cardinality(Shapes) + 1)
  <2>1. Cardinality(Shapes) + 1 \in Nat
    BY ShapesCounted
  <2> QED
    BY <2>1, DecodesUp
<1>3. \A s \in Shapes : d.height[s] < Cardinality(Shapes) + 1
  BY Heights, ShapesCounted
<1>4. f \in [Shapes -> Seq(Shapes)] /\ \A s \in Shapes : f[s] = Decode(d, f, s)
  BY <1>2, <1>3 DEF DecodesTo
<1>5. Decodes(d, f)
  BY <1>4 DEF Decodes
<1> DEFINE D == CHOOSE h : Decodes(d, h)
<1>6. Decodes(d, D)
  BY <1>5
<1> HIDE DEF D
<1>7. \A s \in Shapes : D[s] = Decode(d, D, s) /\ DOMAIN D = Shapes
  BY <1>6 DEF Decodes
<1>8. \A s \in Shapes : D[s] \in Seq(Shapes)
  <2> DEFINE Q == {s \in Shapes : D[s] \in Seq(Shapes)}
  <2>1. ASSUME NEW s \in Shapes, \A t \in ToSet(Attached(d, s)) : t \in Q
        PROVE  s \in Q
    <3> DEFINE g == [t \in Shapes |-> IF t \in Q THEN D[t] ELSE << >>]
    <3>1. g \in [Shapes -> Seq(Shapes)]
      OBVIOUS
    <3>2. \A t \in Q : g[t] = D[t]
      OBVIOUS
    <3> HIDE DEF g
    <3>3. \A i \in DOMAIN Attached(d, s) : D[Attached(d, s)[i]] = g[Attached(d, s)[i]]
      <4>1. \A i \in DOMAIN Attached(d, s) : Attached(d, s)[i] \in ToSet(Attached(d, s))
        BY ChildrenTyped, SeqTyped
      <4> QED
        BY <2>1, <3>2, <4>1
    <3>4. Strung(D, Attached(d, s)) = Strung(g, Attached(d, s))
      BY <3>3 DEF Strung
    <3>5. Decode(d, g, s) = D[s]
      BY <1>7, <3>4 DEF Decode
    <3> QED
      BY <3>1, <3>5, DecodeTyped
  <2> HIDE DEF Q
  <2>2. Shapes \subseteq Q
    BY <2>1, BottomUp
  <2> QED
    BY <2>2 DEF Q
<1>9. D \in [Shapes -> Seq(Shapes)]
  <2>1. D = [s \in Shapes |-> D[s]]
    BY <1>6 DEF Decodes
  <2> QED
    BY <1>8, <2>1
<1>10. \A s \in Shapes : ToSet(D[s]) = {s} \cup UNION {ToSet(D[t]) : t \in ToSet(Attached(d, s))}
  BY <1>7, <1>9, DecodeTyped
<1>11. DecodedIn(d) = D
  BY <1>1 DEF D
<1> QED
  BY <1>9, <1>10, <1>11
\* The nodes decoded with s.
With(d, s) == ToSet(DecodedIn(d)[s])

LEMMA WithIs ==
    ASSUME NEW d \in DocumentType, WellFormed(d)
    PROVE  /\ \A s \in Shapes : With(d, s) = {s} \cup UNION {With(d, t) : t \in ToSet(Attached(d, s))}
           /\ \A s \in Shapes : With(d, s) \subseteq Shapes /\ s \in With(d, s)
<1>1. \A s \in Shapes : ToSet(DecodedIn(d)[s])
                  = {s} \cup UNION {ToSet(DecodedIn(d)[t]) : t \in ToSet(Attached(d, s))}
  BY DecodedAt
<1>2. \A s \in Shapes : With(d, s) = {s} \cup UNION {With(d, t) : t \in ToSet(Attached(d, s))}
  BY <1>1 DEF With
<1>3. \A s \in Shapes : DecodedIn(d)[s] \in Seq(Shapes)
  BY DecodedAt
<1>4. \A s \in Shapes : With(d, s) \subseteq Shapes
  BY <1>3, SeqTyped DEF With
<1>5. \A s \in Shapes : s \in With(d, s)
  BY <1>2
<1> QED
  BY <1>2, <1>4, <1>5

\* With a node is decoded what is attached to one, and nothing else.
LEMMA WithClosed ==
    ASSUME NEW d \in DocumentType, WellFormed(d)
    PROVE  \A s \in Shapes : \A x \in With(d, s) :
              /\ ToSet(Attached(d, x)) \subseteq With(d, s)
              /\ d.height[x] <= d.height[s]
              /\ x # s => \E y \in With(d, s) : x \in ToSet(Attached(d, y))
<1> DEFINE OK(s, x) == /\ ToSet(Attached(d, x)) \subseteq With(d, s)
                       /\ d.height[x] <= d.height[s]
                       /\ x # s => \E y \in With(d, s) : x \in ToSet(Attached(d, y))
           Q == {s \in Shapes : \A x \in With(d, s) : OK(s, x)}
<1>1. ASSUME NEW s \in Shapes, \A t \in ToSet(Attached(d, s)) : t \in Q
      PROVE  s \in Q
  <2>1. With(d, s) = {s} \cup UNION {With(d, t) : t \in ToSet(Attached(d, s))}
    BY WithIs
  <2>2. \A t \in ToSet(Attached(d, s)) : t \in Shapes /\ t \in With(d, t) /\ d.height[t] < d.height[s]
    BY ChildrenTyped, Lower, WithIs
  <2>3. \A t \in ToSet(Attached(d, s)) : With(d, t) \subseteq With(d, s)
    BY <2>1
  <2>4. OK(s, s)
    <3>1. ToSet(Attached(d, s)) \subseteq With(d, s)
      BY <2>2, <2>3
    <3> QED
      BY <3>1, Heights
  <2>5. ASSUME NEW t \in ToSet(Attached(d, s)), NEW x \in With(d, t)
        PROVE  OK(s, x)
    <3>1. OK(t, x)
      BY <1>1
    <3>2. ToSet(Attached(d, x)) \subseteq With(d, s)
      BY <2>3, <3>1
    <3>3. d.height[x] <= d.height[s]
      <4>1. x \in Shapes /\ t \in Shapes
        BY <2>2, WithIs
      <4> QED
        BY <2>2, <3>1, <4>1, Heights
    <3>4. \E y \in With(d, s) : x \in ToSet(Attached(d, y))
      <4>1. CASE x = t
        BY <2>1, <4>1
      <4>2. CASE x # t
        BY <2>3, <3>1, <4>2
      <4> QED
        BY <4>1, <4>2
    <3> QED
      BY <3>2, <3>3, <3>4
  <2> HIDE DEF OK
  <2>6. \A x \in With(d, s) : OK(s, x)
    BY <2>1, <2>4, <2>5
  <2> QED
    BY <2>6
<1> HIDE DEF Q
<1>2. Shapes \subseteq Q
  BY <1>1, BottomUp
<1> QED
  BY <1>2 DEF Q

\* A set that is closed under what is attached has all of it.
LEMMA WithLeast ==
    ASSUME NEW d \in DocumentType, WellFormed(d), NEW Q,
           \A x \in Shapes : x \in Q => ToSet(Attached(d, x)) \subseteq Q
    PROVE  \A s \in Shapes : s \in Q => With(d, s) \subseteq Q
<1> DEFINE R == {s \in Shapes : s \in Q => With(d, s) \subseteq Q}
<1>1. ASSUME NEW s \in Shapes, \A t \in ToSet(Attached(d, s)) : t \in R
      PROVE  s \in R
  BY <1>1, WithIs
<1> HIDE DEF R
<1>2. Shapes \subseteq R
  BY <1>1, BottomUp
<1> QED
  BY <1>2 DEF R

\* The nodes inside a node: where they hang, and that they are lower.
LEMMA InsideClosed ==
    ASSUME NEW d \in DocumentType, WellFormed(d), NEW s \in Shapes
    PROVE  /\ Inside(d, s) \subseteq Shapes /\ s \notin Inside(d, s)
           /\ ToSet(d.nested[s]) \subseteq Inside(d, s)
           /\ \A x \in Inside(d, s) : ToSet(Attached(d, x)) \subseteq Inside(d, s)
           /\ \A x \in Inside(d, s) :
                 x \in ToSet(d.nested[s]) \/ \E y \in Inside(d, s) : x \in ToSet(Attached(d, y))
<1>1. Inside(d, s) = UNION {With(d, t) : t \in ToSet(d.nested[s])}
  BY DEF Inside, With
<1>2. \A t \in ToSet(d.nested[s]) : t \in Shapes /\ t \in With(d, t) /\ d.height[t] < d.height[s]
  BY ChildrenTyped, Lower, WithIs
<1>3. ASSUME NEW t \in ToSet(d.nested[s]), NEW x \in With(d, t)
      PROVE  /\ x \in Shapes /\ x # s /\ ToSet(Attached(d, x)) \subseteq Inside(d, s)
             /\ x \in ToSet(d.nested[s]) \/ \E y \in Inside(d, s) : x \in ToSet(Attached(d, y))
  <2>1. x \in Shapes /\ t \in Shapes
    BY <1>2, WithIs
  <2>2. With(d, t) \subseteq Inside(d, s)
    BY <1>1
  <2>3. /\ ToSet(Attached(d, x)) \subseteq With(d, t)
        /\ d.height[x] <= d.height[t]
        /\ x # t => \E y \in With(d, t) : x \in ToSet(Attached(d, y))
    BY <2>1, WithClosed
  <2>4. x # s
    <3>1. d.height[x] < d.height[s]
      BY <1>2, <2>1, <2>3, Heights
    <3> QED
      BY <3>1, Heights
  <2> QED
    BY <2>1, <2>2, <2>3, <2>4
<1> QED
  BY <1>1, <1>2, <1>3

\* Nothing inside a node is a declared type, and what is inside a node and a part of
\* another hangs on one that is inside, too.
LEMMA InsidePlace ==
    ASSUME NEW d \in DocumentType, WellFormed(d), NEW s \in Shapes, NEW x \in Inside(d, s)
    PROVE  /\ x \notin ToSet(d.declared)
           /\ \A y \in Shapes : x \in Below(d, y) => y = s \/ y \in Inside(d, s)
           /\ \A y \in Shapes : x \in Below(d, y) =>
                 \/ y = s /\ x \in ToSet(d.nested[s])
                 \/ y \in Inside(d, s) /\ x \in ToSet(Attached(d, y))
<1>1. x \in Shapes /\ Inside(d, s) \subseteq Shapes
  BY InsideClosed
<1>2. \A y, z \in Shapes : x \in Below(d, y) /\ x \in Below(d, z) => y = z
  BY DEF WellFormed
<1>3. \A y \in Shapes : x \in Below(d, y) => x \notin ToSet(d.declared)
  BY DEF WellFormed
<1>4. CASE x \in ToSet(d.nested[s])
  <2>1. x \in Below(d, s)
    BY <1>4, ChildrenTyped
  <2> QED
    BY <1>2, <1>3, <1>4, <2>1
<1>5. CASE \E y \in Inside(d, s) : x \in ToSet(Attached(d, y))
  <2>1. PICK y \in Inside(d, s) : x \in ToSet(Attached(d, y))
    BY <1>5
  <2>2. y \in Shapes /\ x \in Below(d, y)
    BY <1>1, <2>1, ChildrenTyped
  <2> QED
    BY <1>2, <1>3, <2>1, <2>2
<1> QED
  BY <1>4, <1>5, InsideClosed
-----------------------------------------------------------------------------
(* What is reached, and what a type means *)

Iterates(w, V, first, F, n) ==
    w \in [0..n -> V] /\ w[0] = first /\ \A k \in 1..n : w[k] = F[w[k - 1]]

\* A function can be iterated.
LEMMA Iterated ==
    ASSUME NEW V, NEW first \in V, NEW F \in [V -> V], NEW n \in Nat
    PROVE  \E w : Iterates(w, V, first, F, n)
<1> DEFINE P(w, k) == w \in [0..k -> V] /\ w[0] = first /\ \A j \in 1..k : w[j] = F[w[j - 1]]
           T == {k \in Nat : ~\E w : P(w, k)}
<1>1. SUFFICES ASSUME T # {} PROVE FALSE
  BY DEF Iterates
<1>2. PICK k \in T : \A j \in T : ~(j < k)
  <2>1. T \subseteq Nat
    OBVIOUS
  <2> HIDE DEF T
  <2> QED
    BY <1>1, <2>1, Least
<1>3. k \in Nat /\ ~\E w : P(w, k)
  OBVIOUS
<1>4. k # 0
  <2> DEFINE w == [j \in 0..0 |-> first]
  <2>1. w \in [0..0 -> V] /\ w[0] = first
    OBVIOUS
  <2>2. \A j : j \notin 1..0
    OBVIOUS
  <2> HIDE DEF w
  <2>3. P(w, 0)
    BY <2>1, <2>2
  <2> QED
    BY <1>3, <2>3
<1>5. k - 1 \in Nat /\ k - 1 < k
  BY <1>3, <1>4
<1>6. \E w : P(w, k - 1)
  BY <1>2, <1>5
<1>7. PICK w : P(w, k - 1)
  BY <1>6
<1> DEFINE g == [j \in 0..k |-> IF j = k THEN F[w[k - 1]] ELSE w[j]]
<1>8. k - 1 \in 0..(k - 1) /\ w[k - 1] \in V
  BY <1>5, <1>7
<1>9. \A j \in 0..k : j # k => j \in 0..(k - 1)
  BY <1>3
<1>10. g \in [0..k -> V]
  BY <1>7, <1>8, <1>9
<1>11. g[0] = first
  BY <1>3, <1>4, <1>7
<1>12. ASSUME NEW j \in 1..k PROVE g[j] = F[g[j - 1]]
  <2>1. j - 1 \in 0..k /\ j - 1 # k /\ j \in 0..k
    BY <1>3
  <2>2. g[j - 1] = w[j - 1]
    BY <2>1
  <2>3. CASE j = k
    BY <2>1, <2>2, <2>3
  <2>4. CASE j # k
    <3>1. j \in 1..(k - 1) /\ g[j] = w[j]
      BY <1>3, <2>1, <2>4
    <3> QED
      BY <1>7, <2>2, <3>1
  <2> QED
    BY <2>3, <2>4
<1> HIDE DEF g
<1>13. P(g, k)
  BY <1>10, <1>11, <1>12
<1> QED
  BY <1>3, <1>13

\* A growing sequence of sets of shapes has stopped when it is as long as there are shapes.
LEMMA Settles ==
    ASSUME NEW w \in [0 .. Cardinality(Shapes) -> SUBSET Shapes],
           \A k \in 1 .. Cardinality(Shapes) : w[k - 1] \subseteq w[k],
           \A k \in 1 .. Cardinality(Shapes) - 1 : w[k - 1] = w[k] => w[k] = w[k + 1]
    PROVE  \/ w[Cardinality(Shapes)] = Shapes
           \/ Cardinality(Shapes) # 0 /\ w[Cardinality(Shapes) - 1] = w[Cardinality(Shapes)]
<1> DEFINE N == Cardinality(Shapes)
           P(k) == Cardinality(w[k]) >= k \/ (k # 0 /\ w[k - 1] = w[k])
           T == {k \in Nat : k \in 0..N /\ ~P(k)}
<1>1. N \in Nat /\ IsFiniteSet(Shapes)
  BY ShapesCounted
<1>2. \A k \in 0..N : /\ w[k] \in SUBSET Shapes /\ IsFiniteSet(w[k])
                      /\ Cardinality(w[k]) \in Nat /\ Cardinality(w[k]) <= N
                      /\ Cardinality(w[k]) = N => w[k] = Shapes
  BY <1>1, FS_Subset, FS_CardinalityType
<1>3. T = {}
  <2>1. SUFFICES ASSUME T # {} PROVE FALSE
    OBVIOUS
  <2>2. PICK k \in T : \A j \in T : ~(j < k)
    <3>1. T \subseteq Nat
      OBVIOUS
    <3> HIDE DEF T
    <3> QED
      BY <2>1, <3>1, Least
  <2> HIDE DEF N
  <2>3. k \in 0..N /\ ~P(k) /\ k # 0
    <3>1. k \in 0..N /\ ~P(k)
      OBVIOUS
    <3> QED
      BY <1>2, <3>1
  <2>4. k - 1 \in 0..N /\ k - 1 \in Nat /\ k - 1 < k
    BY <1>1, <2>3
  <2>5. P(k - 1)
    BY <2>2, <2>4
  <2>6. w[k - 1] \subseteq w[k] /\ w[k - 1] # w[k]
    BY <2>3 DEF N
  <2>7. Cardinality(w[k - 1]) < Cardinality(w[k])
    BY SMTT(30), <1>2, <2>3, <2>4, <2>6, FS_Subset
  <2>8. CASE Cardinality(w[k - 1]) >= k - 1
    <3>1. Cardinality(w[k]) >= k
      BY <1>1, <1>2, <2>3, <2>4, <2>7, <2>8
    <3> QED
      BY <2>3, <3>1
  <2>9. CASE k - 1 # 0 /\ w[k - 1 - 1] = w[k - 1]
    <3>1. k - 1 \in 1..N - 1 /\ (k - 1) + 1 = k
      BY <1>1, <2>3, <2>4, <2>9
    <3>2. w[k - 1] = w[(k - 1) + 1]
      BY <2>9, <3>1 DEF N
    <3> QED
      BY <2>6, <3>1, <3>2
  <2> QED
    BY <2>5, <2>8, <2>9
<1>4. N \in 0..N /\ N \notin T
  BY <1>1, <1>3
<1> HIDE DEF N
<1>5. P(N)
  BY <1>1, <1>4
<1>6. Cardinality(w[N]) >= N => w[N] = Shapes
  BY <1>1, <1>2, <1>4
<1> QED
  BY <1>5, <1>6 DEF N

Spread(step, U) == U \cup UNION {step[s] : s \in U}

Spreads(w, step, T) ==
    w = [k \in 0 .. Cardinality(Shapes) |-> IF k = 0 THEN T ELSE Spread(step, w[k - 1])]

LEMMA ClosureIs ==
    ASSUME NEW step \in [Shapes -> SUBSET Shapes], NEW T \in SUBSET Shapes
    PROVE  \E w \in [0 .. Cardinality(Shapes) -> SUBSET Shapes] :
               /\ w[0] = T /\ Closure(step, T) = w[Cardinality(Shapes)]
               /\ \A k \in 1 .. Cardinality(Shapes) : w[k] = Spread(step, w[k - 1])
<1> DEFINE N == Cardinality(Shapes)
           F == [U \in SUBSET Shapes |-> Spread(step, U)]
<1>1. N \in Nat
  BY ShapesCounted
<1>2. F \in [SUBSET Shapes -> SUBSET Shapes] /\ \A U \in SUBSET Shapes : F[U] = Spread(step, U)
  BY DEF Spread
<1> HIDE DEF F, N
<1>3. PICK w \in [0..N -> SUBSET Shapes] : w[0] = T /\ \A k \in 1..N : w[k] = F[w[k - 1]]
  <2> DEFINE V == SUBSET Shapes
  <2>1. T \in V /\ F \in [V -> V]
    BY <1>2
  <2> HIDE DEF V
  <2>2. \E w : Iterates(w, V, T, F, N)
    BY <1>1, <2>1, Iterated
  <2> QED
    BY <2>2 DEF V, Iterates
<1>4. \A k \in 1..N : k - 1 \in 0..N
  BY <1>1
<1>5. \A k \in 1..N : w[k] = Spread(step, w[k - 1])
  BY <1>2, <1>3, <1>4
<1>6. \A k \in 0..N : k # 0 => k \in 1..N
  BY <1>1
<1>7. \A k \in 0..N : w[k] = IF k = 0 THEN T ELSE Spread(step, w[k - 1])
  BY <1>3, <1>5, <1>6
<1>8. Spreads(w, step, T)
  BY <1>7 DEF Spreads, N
<1> DEFINE v == CHOOSE f : Spreads(f, step, T)
<1>9. Spreads(v, step, T)
  BY <1>8
<1>10. Closure(step, T) = v[N]
  BY DEF Closure, Spreads, Spread, N
<1> HIDE DEF v
<1>11. DOMAIN v = 0..N /\ \A k \in 0..N : v[k] = IF k = 0 THEN T ELSE Spread(step, v[k - 1])
  BY <1>9 DEF Spreads, N
<1>12. \A k \in 0..N : v[k] \in SUBSET Shapes
  <2> DEFINE B == {k \in Nat : k \in 0..N /\ v[k] \notin SUBSET Shapes}
  <2>1. SUFFICES ASSUME B # {} PROVE FALSE
    BY <1>1
  <2>2. PICK k \in B : \A j \in B : ~(j < k)
    <3>1. B \subseteq Nat
      OBVIOUS
    <3> HIDE DEF B
    <3> QED
      BY <2>1, <3>1, Least
  <2>3. k \in 0..N /\ v[k] \notin SUBSET Shapes
    OBVIOUS
  <2>4. k # 0
    BY <1>11, <2>3
  <2>5. k - 1 \in 0..N /\ k - 1 \in Nat /\ k - 1 < k
    BY <1>1, <2>3, <2>4
  <2>6. v[k - 1] \in SUBSET Shapes
    BY <2>2, <2>5
  <2>7. v[k] = Spread(step, v[k - 1])
    BY <1>11, <2>3, <2>4
  <2> QED
    BY <2>3, <2>6, <2>7 DEF Spread
<1>13. v \in [0..N -> SUBSET Shapes]
  <2>1. v = [k \in 0..N |-> v[k]]
    BY <1>9 DEF Spreads, N
  <2> QED
    BY <1>12, <2>1
<1>14. v[0] = T /\ \A k \in 1..N : v[k] = Spread(step, v[k - 1])
  <2>1. 0 \in 0..N /\ \A k \in 1..N : k \in 0..N /\ k # 0
    BY <1>1
  <2> QED
    BY <1>11, <2>1
<1> QED
  BY <1>10, <1>13, <1>14 DEF N

\* A closure has the set, and each step from it; and nothing else.
LEMMA ClosureClosed ==
    ASSUME NEW step \in [Shapes -> SUBSET Shapes], NEW T \in SUBSET Shapes
    PROVE  /\ T \subseteq Closure(step, T) /\ Closure(step, T) \subseteq Shapes
           /\ \A s \in Closure(step, T) : step[s] \subseteq Closure(step, T)
<1> DEFINE N == Cardinality(Shapes)
<1>1. PICK w \in [0..N -> SUBSET Shapes] :
               /\ w[0] = T /\ Closure(step, T) = w[N]
               /\ \A k \in 1..N : w[k] = Spread(step, w[k - 1])
  BY ClosureIs
<1>2. N \in Nat
  BY ShapesCounted
<1>3. \A k \in 1..N : w[k - 1] \subseteq w[k]
  BY <1>1 DEF Spread
<1>4. \A k \in 1..N - 1 : w[k - 1] = w[k] => w[k] = w[k + 1]
  <2> TAKE k \in 1..N - 1
  <2>1. k \in 1..N /\ k + 1 \in 1..N /\ (k + 1) - 1 = k
    BY <1>2
  <2> HIDE DEF N
  <2>2. w[k] = Spread(step, w[k - 1]) /\ w[k + 1] = Spread(step, w[k])
    BY <1>1, <2>1
  <2> QED
    BY <2>2
<1>5. w[N] = Shapes \/ (N # 0 /\ w[N - 1] = w[N])
  BY <1>3, <1>4, Settles
<1> HIDE DEF N
<1>6. Spread(step, w[N]) \subseteq w[N]
  <2>1. CASE w[N] = Shapes
    BY <2>1 DEF Spread
  <2>2. CASE N # 0 /\ w[N - 1] = w[N]
    BY <1>1, <1>2, <2>2
  <2> QED
    BY <1>5, <2>1, <2>2
<1>7. T \subseteq w[N]
  <2> DEFINE B == {k \in Nat : k \in 0..N /\ ~(T \subseteq w[k])}
  <2>1. SUFFICES ASSUME B # {} PROVE FALSE
    BY <1>2
  <2>2. PICK k \in B : \A j \in B : ~(j < k)
    <3>1. B \subseteq Nat
      OBVIOUS
    <3> HIDE DEF B
    <3> QED
      BY <2>1, <3>1, Least
  <2>3. k \in 0..N /\ ~(T \subseteq w[k]) /\ k # 0
    BY <1>1
  <2>4. k - 1 \in 0..N /\ k - 1 \in Nat /\ k - 1 < k /\ k \in 1..N
    BY <1>2, <2>3
  <2>5. T \subseteq w[k - 1]
    BY <2>2, <2>4
  <2> QED
    BY <1>3, <2>3, <2>4, <2>5
<1>8. w[N] \subseteq Shapes
  BY <1>1, <1>2
<1> QED
  BY <1>1, <1>6, <1>7, <1>8 DEF Spread

LEMMA ClosureLeast ==
    ASSUME NEW step \in [Shapes -> SUBSET Shapes], NEW T \in SUBSET Shapes, NEW Q,
           T \subseteq Q, \A s \in Shapes : s \in Q => step[s] \subseteq Q
    PROVE  Closure(step, T) \subseteq Q
<1> DEFINE N == Cardinality(Shapes)
<1>1. PICK w \in [0..N -> SUBSET Shapes] :
               /\ w[0] = T /\ Closure(step, T) = w[N]
               /\ \A k \in 1..N : w[k] = Spread(step, w[k - 1])
  BY ClosureIs
<1>2. N \in Nat
  BY ShapesCounted
<1> HIDE DEF N
<1>3. \A k \in 0..N : w[k] \subseteq Q
  <2> DEFINE B == {k \in Nat : k \in 0..N /\ ~(w[k] \subseteq Q)}
  <2>1. SUFFICES ASSUME B # {} PROVE FALSE
    BY <1>2
  <2>2. PICK k \in B : \A j \in B : ~(j < k)
    <3>1. B \subseteq Nat
      OBVIOUS
    <3> HIDE DEF B
    <3> QED
      BY <2>1, <3>1, Least
  <2>3. k \in 0..N /\ ~(w[k] \subseteq Q) /\ k # 0
    BY <1>1
  <2>4. k - 1 \in 0..N /\ k - 1 \in Nat /\ k - 1 < k /\ k \in 1..N
    BY <1>2, <2>3
  <2>5. w[k - 1] \subseteq Q /\ w[k - 1] \subseteq Shapes
    BY <1>1, <2>2, <2>4
  <2>6. Spread(step, w[k - 1]) \subseteq Q
    BY <2>5 DEF Spread
  <2> QED
    BY <1>1, <2>3, <2>4, <2>6
<1> QED
  BY <1>1, <1>2, <1>3
\* What a type means if m is what the others mean.
MeansBy(d, m, s) ==
    CASE d.op[s] \in {"builtin", "group"} -> d.kind[s]
      [] d.op[s] = "array" -> "array"
      [] d.op[s] \in {"optional", "union"} -> "union"
      [] OTHER -> IF SourceOf(d, s) = None THEN "unknown" ELSE m[SourceOf(d, s)]

Explained(d, m) == [s \in Shapes |-> MeansBy(d, m, s)]

\* w[k] is what types mean as far as that is known after k steps.
MeaningSteps(d, w) ==
    w = [k \in 0 .. Cardinality(Shapes) |->
            [s \in Shapes |->
                CASE d.op[s] \in {"builtin", "group"} -> d.kind[s]
                  [] d.op[s] = "array" -> "array"
                  [] d.op[s] \in {"optional", "union"} -> "union"
                  [] OTHER -> IF k = 0 \/ SourceOf(d, s) = None THEN "unknown"
                              ELSE LET below == w[k - 1] IN below[SourceOf(d, s)]]]

Meanings == [Shapes -> Kinds \cup {"unknown"}]

Unsaid(d) == [s \in Shapes |->
                CASE d.op[s] \in {"builtin", "group"} -> d.kind[s]
                  [] d.op[s] = "array" -> "array"
                  [] d.op[s] \in {"optional", "union"} -> "union"
                  [] OTHER -> "unknown"]

LEMMA SourceTyped ==
    ASSUME NEW d \in DocumentType, NEW s \in Shapes
    PROVE  SourceOf(d, s) \in Shapes \cup {None}
<1>1. d.to[s] \in Shapes \cup {None} /\ d.members[s] \in Seq(Shapes)
  BY DocTyped
<1>2. d.members[s] # << >> => d.members[s][1] \in Shapes
  BY <1>1, SeqTyped
<1> QED
  BY <1>1, <1>2 DEF SourceOf

LEMMA KindsSay == {"array", "union"} \subseteq Kinds /\ "unknown" \notin Kinds /\ "unmade" \notin Kinds
BY DEF Kinds

LEMMA ExplainedTyped ==
    ASSUME NEW d \in DocumentType
    PROVE  Unsaid(d) \in Meanings /\ \A m \in Meanings : Explained(d, m) \in Meanings
<1>1. \A s \in Shapes : d.kind[s] \in Kinds
  BY DocTyped
<1>2. Unsaid(d) \in Meanings
  BY <1>1, KindsSay DEF Unsaid, Meanings
<1>3. ASSUME NEW m \in Meanings, NEW s \in Shapes PROVE MeansBy(d, m, s) \in Kinds \cup {"unknown"}
  <2>1. SourceOf(d, s) # None => m[SourceOf(d, s)] \in Kinds \cup {"unknown"}
    BY SourceTyped DEF Meanings
  <2> QED
    BY <1>1, <2>1, KindsSay DEF MeansBy
<1> QED
  BY <1>2, <1>3 DEF Explained, Meanings

Said(m, n) == \A s \in Shapes : m[s] # "unknown" => n[s] = m[s]

LEMMA SaidMore ==
    ASSUME NEW d \in DocumentType
    PROVE  /\ Said(Unsaid(d), Explained(d, Unsaid(d)))
           /\ \A m, n \in Meanings : Said(m, n) => Said(Explained(d, m), Explained(d, n))
<1>1. ASSUME NEW s \in Shapes, Unsaid(d)[s] # "unknown" PROVE Explained(d, Unsaid(d))[s] = Unsaid(d)[s]
  <2>1. /\ Unsaid(d)[s] = CASE d.op[s] \in {"builtin", "group"} -> d.kind[s]
                          [] d.op[s] = "array" -> "array"
                          [] d.op[s] \in {"optional", "union"} -> "union"
                          [] OTHER -> "unknown"
        /\ Explained(d, Unsaid(d))[s] = MeansBy(d, Unsaid(d), s)
    BY DEF Unsaid, Explained
  <2>2. d.op[s] \in {"builtin", "group", "array", "optional", "union"}
    BY <1>1, <2>1
  <2> QED
    BY <2>1, <2>2 DEF MeansBy
<1>2. ASSUME NEW m \in Meanings, NEW n \in Meanings, Said(m, n), NEW s \in Shapes,
             Explained(d, m)[s] # "unknown"
      PROVE  Explained(d, n)[s] = Explained(d, m)[s]
  <2>1. Explained(d, m)[s] = MeansBy(d, m, s) /\ Explained(d, n)[s] = MeansBy(d, n, s)
    BY DEF Explained
  <2>2. SourceOf(d, s) # None => SourceOf(d, s) \in Shapes
    BY SourceTyped
  <2> QED
    BY <1>2, <2>1, <2>2 DEF MeansBy, Said
<1> QED
  BY <1>1, <1>2 DEF Said

LEMMA MeaningStepsAre ==
    ASSUME NEW d \in DocumentType
    PROVE  \E w \in [0 .. Cardinality(Shapes) -> Meanings] :
               /\ w[0] = Unsaid(d) /\ MeaningIn(d) = w[Cardinality(Shapes)]
               /\ \A k \in 1 .. Cardinality(Shapes) : w[k] = Explained(d, w[k - 1])
<1> DEFINE N == Cardinality(Shapes)
           F == [m \in Meanings |-> Explained(d, m)]
           Stage(k, u) == [s \in Shapes |->
                CASE d.op[s] \in {"builtin", "group"} -> d.kind[s]
                  [] d.op[s] = "array" -> "array"
                  [] d.op[s] \in {"optional", "union"} -> "union"
                  [] OTHER -> IF k = 0 \/ SourceOf(d, s) = None THEN "unknown"
                              ELSE LET below == u IN below[SourceOf(d, s)]]
<1>1. N \in Nat
  BY ShapesCounted
<1>2. F \in [Meanings -> Meanings] /\ \A m \in Meanings : F[m] = Explained(d, m)
  BY ExplainedTyped
<1>a. \A u : Stage(0, u) = Unsaid(d)
  BY DEF Unsaid
<1>b. \A k, u : k # 0 => Stage(k, u) = Explained(d, u)
  BY DEF Explained, MeansBy
<1> HIDE DEF F
<1>3. PICK w : Iterates(w, Meanings, Unsaid(d), F, N)
  BY <1>1, <1>2, ExplainedTyped, Iterated
<1>4. /\ w \in [0..N -> Meanings] /\ w[0] = Unsaid(d)
      /\ \A k \in 1..N : w[k] = F[w[k - 1]]
  BY <1>3 DEF Iterates
<1>5. \A k \in 1..N : w[k] = Explained(d, w[k - 1])
  <2> HIDE DEF N
  <2>1. \A k \in 1..N : k - 1 \in 0..N
    BY <1>1
  <2> QED
    BY <1>2, <1>4, <2>1
<1>6. \A k \in 0..N : w[k] = Stage(k, w[k - 1])
  <2> HIDE DEF N, Stage
  <2>1. \A k \in 0..N : k # 0 => k \in 1..N
    BY <1>1
  <2> QED
    BY <1>4, <1>5, <1>a, <1>b, <2>1
<1>7. MeaningSteps(d, w)
  <2>1. w = [k \in 0..N |-> w[k]]
    BY <1>4
  <2>2. w = [k \in 0..N |-> Stage(k, w[k - 1])]
    <3> HIDE DEF Stage
    <3> QED
      BY <1>6, <2>1
  <2> QED
    BY <2>2 DEF MeaningSteps
<1> DEFINE v == CHOOSE f : MeaningSteps(d, f)
<1>8. MeaningSteps(d, v)
  BY <1>7
<1>9. MeaningIn(d) = v[N]
  BY DEF MeaningIn, MeaningSteps, SourceOf
<1> HIDE DEF v
<1>10. v = [k \in 0..N |-> Stage(k, v[k - 1])]
  BY <1>8 DEF MeaningSteps
<1> HIDE DEF N, Stage
<1>11. DOMAIN v = 0..N /\ \A k \in 0..N : v[k] = Stage(k, v[k - 1])
  BY <1>10
<1>12. v[0] = Unsaid(d) /\ \A k \in 1..N : v[k] = Explained(d, v[k - 1])
  <2>1. 0 \in 0..N /\ \A k \in 1..N : k \in 0..N /\ k # 0
    BY <1>1
  <2> QED
    BY <1>11, <1>a, <1>b, <2>1
<1>13. \A k \in 0..N : v[k] \in Meanings
  <2> DEFINE B == {k \in Nat : k \in 0..N /\ v[k] \notin Meanings}
  <2>1. SUFFICES ASSUME B # {} PROVE FALSE
    BY <1>1
  <2>2. PICK k \in B : \A j \in B : ~(j < k)
    <3>1. B \subseteq Nat
      OBVIOUS
    <3> HIDE DEF B
    <3> QED
      BY <2>1, <3>1, Least
  <2>3. k \in 0..N /\ v[k] \notin Meanings
    OBVIOUS
  <2>4. k # 0
    BY <1>12, <2>3, ExplainedTyped
  <2>5. k - 1 \in 0..N /\ k - 1 \in Nat /\ k - 1 < k /\ k \in 1..N
    BY <1>1, <2>3, <2>4
  <2>6. v[k - 1] \in Meanings
    BY <2>2, <2>5
  <2> QED
    BY <1>12, <2>3, <2>5, <2>6, ExplainedTyped
<1>14. v \in [0..N -> Meanings]
  <2>1. v = [k \in 0..N |-> v[k]]
    BY <1>10
  <2> QED
    BY <1>13, <2>1
<1> QED
  BY <1>9, <1>12, <1>14 DEF N

\* The meaning of a type is that of what it is resolved by.
LEMMA MeaningAt ==
    ASSUME NEW d \in DocumentType
    PROVE  /\ MeaningIn(d) \in Meanings
           /\ \A s \in Shapes : MeaningIn(d)[s] = MeansBy(d, MeaningIn(d), s)
<1> DEFINE N == Cardinality(Shapes)
<1>1. PICK w \in [0..N -> Meanings] :
               /\ w[0] = Unsaid(d) /\ MeaningIn(d) = w[N]
               /\ \A k \in 1..N : w[k] = Explained(d, w[k - 1])
  BY MeaningStepsAre
<1>2. N \in Nat
  BY ShapesCounted
<1>3. \A k \in 0..N : Said(w[k], Explained(d, w[k]))
  <2> HIDE DEF N
  <2> DEFINE B == {k \in Nat : k \in 0..N /\ ~Said(w[k], Explained(d, w[k]))}
  <2>1. SUFFICES ASSUME B # {} PROVE FALSE
    BY <1>2
  <2>2. PICK k \in B : \A j \in B : ~(j < k)
    <3>1. B \subseteq Nat
      OBVIOUS
    <3> HIDE DEF B
    <3> QED
      BY <2>1, <3>1, Least
  <2>3. k \in 0..N /\ ~Said(w[k], Explained(d, w[k]))
    OBVIOUS
  <2>4. k # 0
    BY <1>1, <2>3, SaidMore
  <2>5. k - 1 \in 0..N /\ k - 1 \in Nat /\ k - 1 < k /\ k \in 1..N
    BY <1>2, <2>3, <2>4
  <2>6. Said(w[k - 1], Explained(d, w[k - 1]))
    BY <2>2, <2>5
  <2>7. w[k - 1] \in Meanings /\ w[k] \in Meanings /\ w[k] = Explained(d, w[k - 1])
    BY <1>1, <2>3, <2>5
  <2> QED
    BY <2>3, <2>6, <2>7, SaidMore
<1> DEFINE u == [k \in 0..N |-> {s \in Shapes : w[k][s] # "unknown"}]
<1>4. u \in [0..N -> SUBSET Shapes] /\ \A k \in 0..N : u[k] = {s \in Shapes : w[k][s] # "unknown"}
  OBVIOUS
<1> HIDE DEF u
<1>5. \A k \in 1..N : k \in 0..N /\ k - 1 \in 0..N /\ Said(w[k - 1], w[k])
  <2> HIDE DEF N
  <2>1. \A k \in 1..N : k \in 0..N /\ k - 1 \in 0..N
    BY <1>2
  <2> QED
    BY <1>1, <1>3, <2>1
<1>6. \A k \in 1..N : u[k - 1] \subseteq u[k]
  BY <1>4, <1>5 DEF Said
<1>7. \A k \in 1..N : u[k - 1] = u[k] => w[k - 1] = w[k]
  <2> TAKE k \in 1..N
  <2>1. HAVE u[k - 1] = u[k]
  <2>2. \A s \in Shapes : w[k - 1][s] = w[k][s]
    BY <1>4, <1>5, <2>1 DEF Said
  <2>3. w[k - 1] \in Meanings /\ w[k] \in Meanings
    BY <1>1, <1>5
  <2> QED
    BY <2>2, <2>3 DEF Meanings
<1>8. \A k \in 1..N - 1 : u[k - 1] = u[k] => u[k] = u[k + 1]
  <2> TAKE k \in 1..N - 1
  <2>1. HAVE u[k - 1] = u[k]
  <2>2. k \in 1..N /\ k + 1 \in 1..N /\ (k + 1) - 1 = k
    BY <1>2
  <2>3. w[k + 1] = Explained(d, w[k]) /\ w[k] = Explained(d, w[k - 1])
    <3> HIDE DEF N
    <3> QED
      BY <1>1, <2>2
  <2>4. w[k + 1] = w[k]
    BY <1>7, <2>1, <2>2, <2>3
  <2> QED
    BY <1>4, <1>5, <2>2, <2>4
<1>9. u[N] = Shapes \/ (N # 0 /\ u[N - 1] = u[N])
  BY <1>4, <1>6, <1>8, Settles
<1> HIDE DEF N
<1>10. N \in 0..N /\ w[N] \in Meanings
  BY <1>1, <1>2
<1>11. Explained(d, w[N]) \in Meanings
  BY <1>10, ExplainedTyped
<1>12. Explained(d, w[N]) = w[N]
  <2>1. CASE u[N] = Shapes
    <3>1. \A s \in Shapes : Explained(d, w[N])[s] = w[N][s]
      BY <1>3, <1>4, <1>10, <2>1 DEF Said
    <3> QED
      BY <1>10, <1>11, <3>1 DEF Meanings
  <2>2. CASE N # 0 /\ u[N - 1] = u[N]
    <3>1. N \in 1..N
      BY <1>2, <2>2
    <3> QED
      BY <1>1, <1>7, <2>2, <3>1
  <2> QED
    BY <1>9, <2>1, <2>2
<1>13. \A s \in Shapes : w[N][s] = MeansBy(d, w[N], s)
  BY <1>12 DEF Explained
<1> QED
  BY <1>1, <1>10, <1>13
-----------------------------------------------------------------------------
(* What occurs, and what is recursive *)

LEMMA PartsTyped ==
    ASSUME NEW d \in DocumentType
    PROVE  /\ [s \in Shapes |-> PartsIn(d, s)] \in [Shapes -> SUBSET Shapes]
           /\ ToSet(d.declared) \in SUBSET Shapes
<1>1. \A s \in Shapes : PartsIn(d, s) \subseteq Shapes
  BY ChildrenTyped DEF PartsIn
<1>2. ToSet(d.declared) \subseteq Shapes
  BY DocTyped, SeqTyped
<1> QED
  BY <1>1, <1>2

LEMMA OccurringClosed ==
    ASSUME NEW d \in DocumentType, WellFormed(d)
    PROVE  /\ ToSet(d.declared) \subseteq OccurringIn(d) /\ OccurringIn(d) \subseteq Shapes
           /\ \A s \in OccurringIn(d) :
                 /\ PartsIn(d, s) \subseteq OccurringIn(d)
                 /\ ToSet(d.members[s]) \subseteq OccurringIn(d)
                 /\ ToSet(Attached(d, s)) \subseteq OccurringIn(d)
                 /\ With(d, s) \subseteq OccurringIn(d)
<1> DEFINE step == [s \in Shapes |-> PartsIn(d, s)]
<1>1. step \in [Shapes -> SUBSET Shapes] /\ \A s \in Shapes : step[s] = PartsIn(d, s)
  BY PartsTyped
<1>2. OccurringIn(d) = Closure(step, ToSet(d.declared))
  BY DEF OccurringIn
<1> HIDE DEF step
<1>3. /\ ToSet(d.declared) \subseteq OccurringIn(d) /\ OccurringIn(d) \subseteq Shapes
      /\ \A s \in OccurringIn(d) : step[s] \subseteq OccurringIn(d)
  BY <1>1, <1>2, PartsTyped, ClosureClosed
<1>4. \A s \in OccurringIn(d) : PartsIn(d, s) \subseteq OccurringIn(d)
  BY <1>1, <1>3
<1>5. \A s \in OccurringIn(d) : ToSet(d.members[s]) \subseteq OccurringIn(d)
  BY <1>4 DEF PartsIn
<1>6. ASSUME NEW s \in OccurringIn(d) PROVE ToSet(Attached(d, s)) \subseteq OccurringIn(d)
  <2>1. s \in Shapes
    BY <1>3
  <2>2. CASE d.op[s] = "builtin" /\ d.nested[s] # << >>
    <3>1. d.kind[s] \in {"object", "array"}
      BY <2>1, <2>2 DEF WellFormed
    <3>2. MeaningIn(d)[s] = d.kind[s]
      BY <2>1, <2>2, MeaningAt DEF MeansBy
    <3>3. ToSet(d.nested[s]) \subseteq PartsIn(d, s)
      BY <2>2, <3>1, <3>2 DEF PartsIn
    <3> QED
      BY <1>4, <2>2, <3>3 DEF Attached
  <2>3. CASE d.op[s] = "builtin" /\ d.nested[s] = << >>
    BY <2>3 DEF Attached, ToSet
  <2>4. CASE d.op[s] = "list"
    BY <1>5, <2>4 DEF Attached
  <2>5. CASE d.op[s] \notin {"builtin", "list"}
    BY <2>5 DEF Attached, ToSet
  <2> QED
    BY <2>2, <2>3, <2>4, <2>5
<1>7. \A s \in OccurringIn(d) : With(d, s) \subseteq OccurringIn(d)
  BY <1>3, <1>6, WithLeast
<1> QED
  BY <1>3, <1>4, <1>5, <1>6, <1>7

LEMMA OccurringInside ==
    ASSUME NEW d \in DocumentType, WellFormed(d), NEW s \in OccurringIn(d), d.op[s] # "group",
           MeaningIn(d)[s] \in {"object", "array"}
    PROVE  Inside(d, s) \subseteq OccurringIn(d)
<1>1. ToSet(d.nested[s]) \subseteq OccurringIn(d)
  BY OccurringClosed DEF PartsIn
<1>2. Inside(d, s) = UNION {With(d, t) : t \in ToSet(d.nested[s])}
  BY DEF Inside, With
<1> QED
  BY <1>1, <1>2, OccurringClosed

\* A set with the declared types and the parts of its elements has all that occurs.
LEMMA OccurringLeast ==
    ASSUME NEW d \in DocumentType, NEW Q, ToSet(d.declared) \subseteq Q,
           \A s \in Shapes : s \in Q => PartsIn(d, s) \subseteq Q
    PROVE  OccurringIn(d) \subseteq Q
<1> DEFINE step == [s \in Shapes |-> PartsIn(d, s)]
<1>1. step \in [Shapes -> SUBSET Shapes] /\ \A s \in Shapes : step[s] = PartsIn(d, s)
  BY PartsTyped
<1>2. OccurringIn(d) = Closure(step, ToSet(d.declared))
  BY DEF OccurringIn
<1> HIDE DEF step
<1> QED
  BY <1>1, <1>2, PartsTyped, ClosureLeast

LEMMA RefersTyped ==
    ASSUME NEW d \in DocumentType
    PROVE  /\ RefersIn(d) \in [Shapes -> SUBSET Shapes]
           /\ \A s \in Shapes : RefersIn(d)[s] = NeedsIn(d, s) \cup ToSet(d.members[s])
<1>1. \A s \in Shapes : ToSet(d.members[s]) \subseteq Shapes
  BY ChildrenTyped
<1>2. \A s \in Shapes : NeedsIn(d, s) \subseteq Shapes
  BY <1>1, DocTyped DEF NeedsIn
<1> QED
  BY <1>1, <1>2 DEF RefersIn

\* What a shape leads to.
Leads(d, s) == Closure(RefersIn(d), RefersIn(d)[s])

LEMMA LeadsOn ==
    ASSUME NEW d \in DocumentType, NEW s \in Shapes
    PROVE  /\ RefersIn(d)[s] \subseteq Leads(d, s) /\ Leads(d, s) \subseteq Shapes
           /\ \A t \in Leads(d, s) : RefersIn(d)[t] \subseteq Leads(d, s)
           /\ s \in Leads(d, s) => RecursiveIn(d)
<1>1. RefersIn(d) \in [Shapes -> SUBSET Shapes] /\ RefersIn(d)[s] \in SUBSET Shapes
  BY RefersTyped
<1> QED
  BY <1>1, ClosureClosed DEF Leads, RecursiveIn

-----------------------------------------------------------------------------
(* The operators of Resolver on the document of the run *)

LEMMA OfGiven ==
    /\ DecodedBy = DecodedIn(given) /\ Meaning = MeaningIn(given)
    /\ \A s, k : Fails(s, k) = FailsIn(given, s, k)
<1>1. DecodedBy = DecodedIn(given)
  BY DEF DecodedBy, DecodedIn
<1>2. Meaning = MeaningIn(given)
  BY DEF Meaning, MeaningIn
<1>3. \A s, k : Fails(s, k) = FailsIn(given, s, k)
  BY DEF Fails, FailsIn
<1> QED
  BY <1>1, <1>2, <1>3

LEMMA OccurringGiven == Occurring = OccurringIn(given) /\ \A s : Wrong(s) = WrongIn(given, s)
<1>1. Occurring = OccurringIn(given)
  BY DEF Occurring, OccurringIn, PartsIn, Meaning, MeaningIn
<1>2. \A s : Wrong(s) = WrongIn(given, s)
  BY OfGiven DEF Wrong, WrongIn
<1> QED
  BY <1>1, <1>2

LEMMA RecursiveGiven == Recursive = RecursiveIn(given)
BY DEF Recursive, RecursiveIn, RefersIn, NeedsIn, Needs

\* What DecodedFrom makes for the properties of a shape is what is inside it.
LEMMA DecodedFromSet ==
    ASSUME given \in DocumentType, WellFormed(given), NEW nodes \in Seq(Shapes)
    PROVE  /\ DecodedFrom(nodes) \in Seq(Shapes)
           /\ ToSet(DecodedFrom(nodes)) = UNION {With(given, t) : t \in ToSet(nodes)}
<1> DEFINE f == DecodedIn(given)
<1>1. DecodedFrom(nodes) = FlattenSeq(Strung(f, nodes))
  BY OfGiven DEF DecodedFrom, Strung
<1>2. f \in [Shapes -> Seq(Shapes)]
  BY DecodedAt
<1> HIDE DEF f
<1>3. /\ FlattenSeq(Strung(f, nodes)) \in Seq(Shapes)
      /\ ToSet(FlattenSeq(Strung(f, nodes))) = UNION {ToSet(f[t]) : t \in ToSet(nodes)}
  BY <1>2, StrungSet
<1> QED
  BY <1>1, <1>3 DEF f, With

LEMMA UnresolvedSet ==
    ASSUME given \in DocumentType, NEW nodes \in Seq(Shapes)
    PROVE  /\ Unresolved(nodes) \in Seq(Shapes)
           /\ ToSet(Unresolved(nodes)) = {t \in ToSet(nodes) : given.op[t] # "builtin"}
<1> DEFINE f == [t \in Shapes |-> IF given.op[t] = "builtin" THEN << >> ELSE << t >>]
<1>1. f \in [Shapes -> Seq(Shapes)]
  OBVIOUS
<1>2. \A t \in Shapes : ToSet(f[t]) = IF given.op[t] = "builtin" THEN {} ELSE {t}
  BY DEF ToSet
<1>3. \A i \in DOMAIN nodes : f[nodes[i]] = IF given.op[nodes[i]] = "builtin" THEN << >> ELSE << nodes[i] >>
  BY SeqTyped
<1> HIDE DEF f
<1>4. Unresolved(nodes) = FlattenSeq(Strung(f, nodes))
  <2>1. Strung(f, nodes) = [i \in DOMAIN nodes |->
                   IF given.op[nodes[i]] = "builtin" THEN << >> ELSE << nodes[i] >>]
    BY <1>3 DEF Strung
  <2> QED
    BY <2>1 DEF Unresolved
<1>5. /\ FlattenSeq(Strung(f, nodes)) \in Seq(Shapes)
      /\ ToSet(FlattenSeq(Strung(f, nodes))) = UNION {ToSet(f[t]) : t \in ToSet(nodes)}
  BY <1>1, StrungSet
<1>6. ToSet(nodes) \subseteq Shapes
  BY SeqTyped
<1>7. UNION {ToSet(f[t]) : t \in ToSet(nodes)} = {t \in ToSet(nodes) : given.op[t] # "builtin"}
  <2>1. \A t \in ToSet(nodes) : given.op[t] # "builtin" => t \in ToSet(f[t])
    BY <1>2, <1>6
  <2>2. \A t \in ToSet(nodes) : \A x \in ToSet(f[t]) : x = t /\ given.op[t] # "builtin"
    BY <1>2, <1>6
  <2> HIDE DEF f
  <2> QED
    BY <2>1, <2>2
<1> QED
  BY <1>4, <1>5, <1>7
-----------------------------------------------------------------------------
(* The stack *)

LEMMA RecordTyped ==
    ASSUME NEW f \in Record
    PROVE  f.shape \in Shapes /\ f.next \in Nat \ {0} /\ f.at \in {"start", "referenced", "members"}
BY DEF Record

LEMMA RecordMoved ==
    ASSUME NEW f \in Record
    PROVE  /\ \A p \in {"start", "referenced", "members"} :
                 /\ [f EXCEPT !.at = p] \in Record
                 /\ [f EXCEPT !.at = p].shape = f.shape
                 /\ [f EXCEPT !.at = p].at = p
                 /\ [f EXCEPT !.at = p].next = f.next
           /\ [f EXCEPT !.next = @ + 1] \in Record
           /\ [f EXCEPT !.next = @ + 1].shape = f.shape
           /\ [f EXCEPT !.next = @ + 1].at = f.at
           /\ [f EXCEPT !.next = @ + 1].next = f.next + 1
BY DEF Record

Started(s) == [shape |-> s, at |-> "start", next |-> 1]

LEMMA StartedTyped ==
    ASSUME NEW s \in Shapes
    PROVE  /\ Started(s) \in Record /\ Started(s).shape = s
           /\ Started(s).at = "start" /\ Started(s).next = 1
BY DEF Started, Record

\* gs is fs without its top, with another top, with one more.
Popped(fs, gs) ==
    /\ gs \in Seq(Record) /\ Len(gs) = Len(fs) - 1 /\ DOMAIN gs = 1..Len(fs) - 1
    /\ \A k \in DOMAIN gs : gs[k] = fs[k] /\ k \in DOMAIN fs

Retopped(fs, gs, f) ==
    /\ gs \in Seq(Record) /\ Len(gs) = Len(fs) /\ DOMAIN gs = DOMAIN fs /\ gs # << >>
    /\ gs[Len(fs)] = f /\ f \in Record
    /\ \A k \in DOMAIN fs : k # Len(fs) => gs[k] = fs[k]

Pushed(fs, gs, f) ==
    /\ gs \in Seq(Record) /\ Len(gs) = Len(fs) + 1 /\ DOMAIN gs = 1..Len(fs) + 1 /\ gs # << >>
    /\ gs[Len(fs) + 1] = f /\ f \in Record
    /\ \A k \in DOMAIN fs : gs[k] = fs[k] /\ k \in DOMAIN gs
    /\ \A k \in DOMAIN gs : k = Len(fs) + 1 \/ k \in DOMAIN fs

LEMMA FramesTyped ==
    ASSUME NEW fs \in Seq(Record)
    PROVE  /\ Len(fs) \in Nat /\ DOMAIN fs = 1..Len(fs) /\ \A k \in DOMAIN fs : fs[k] \in Record
           /\ fs # << >> => Len(fs) \in DOMAIN fs /\ 1 \in DOMAIN fs /\ Len(fs) # 0
           /\ Len(fs) # 0 => fs # << >>
           /\ \A k \in DOMAIN fs : /\ k \in Nat /\ k <= Len(fs) /\ k # 0
                                   /\ k # Len(fs) => k < Len(fs) /\ k + 1 \in DOMAIN fs
                                   /\ k < Len(fs) => k # Len(fs)
<1>1. Len(fs) \in Nat /\ DOMAIN fs = 1..Len(fs) /\ \A k \in DOMAIN fs : fs[k] \in Record
  OBVIOUS
<1>2. fs # << >> => Len(fs) # 0
  OBVIOUS
<1>3. Len(fs) # 0 => fs # << >>
  OBVIOUS
<1> QED
  BY <1>1, <1>2, <1>3

LEMMA Pops ==
    ASSUME NEW fs \in Seq(Record), fs # << >>
    PROVE  Popped(fs, SubSeq(fs, 1, Len(fs) - 1))
<1> DEFINE gs == SubSeq(fs, 1, Len(fs) - 1)
<1>1. Len(fs) \in Nat /\ DOMAIN fs = 1..Len(fs) /\ Len(fs) # 0 /\ \A k \in DOMAIN fs : fs[k] \in Record
  BY FramesTyped
<1>2. \A i \in 1..Len(fs) - 1 : fs[i] \in Record
  BY <1>1
<1>3. /\ gs \in Seq(Record)
      /\ Len(gs) = IF 1 <= Len(fs) - 1 THEN Len(fs) - 1 - 1 + 1 ELSE 0
      /\ \A i \in 1..(Len(fs) - 1 - 1 + 1) : gs[i] = fs[1 + i - 1]
  <2>1. 1 \in Int /\ Len(fs) - 1 \in Int
    BY <1>1
  <2> HIDE DEF Record
  <2> QED
    BY <1>2, <2>1, SubSeqProperties
<1> HIDE DEF gs
<1>4. Len(gs) = Len(fs) - 1
  <2>1. \A n \in Nat \ {0} : (IF 1 <= n - 1 THEN n - 1 - 1 + 1 ELSE 0) = n - 1
    OBVIOUS
  <2> QED
    BY <1>1, <1>3, <2>1
<1>5. DOMAIN gs = 1..Len(fs) - 1
  BY <1>3, <1>4
<1>6. \A k \in DOMAIN gs : gs[k] = fs[k] /\ k \in DOMAIN fs
  <2> TAKE k \in DOMAIN gs
  <2>1. k \in 1..(Len(fs) - 1 - 1 + 1) /\ 1 + k - 1 = k /\ k \in DOMAIN fs
    BY <1>1, <1>5
  <2> QED
    BY <1>3, <2>1
<1> QED
  BY <1>3, <1>4, <1>5, <1>6 DEF Popped, gs

LEMMA Pushes ==
    ASSUME NEW fs \in Seq(Record), NEW f \in Record
    PROVE  Pushed(fs, Append(fs, f), f)
<1> DEFINE gs == Append(fs, f)
<1>1. Len(fs) \in Nat /\ DOMAIN fs = 1..Len(fs)
  BY FramesTyped
<1>2. gs \in Seq(Record) /\ Len(gs) = Len(fs) + 1
  OBVIOUS
<1>3. gs[Len(fs) + 1] = f /\ \A k \in 1..Len(fs) : gs[k] = fs[k]
  BY AppendProperties
<1> HIDE DEF gs
<1>4. DOMAIN gs = 1..Len(fs) + 1 /\ gs # << >>
  BY <1>1, <1>2
<1>5. \A k \in DOMAIN gs : k = Len(fs) + 1 \/ k \in DOMAIN fs
  BY <1>1, <1>4
<1>6. \A k \in DOMAIN fs : k \in DOMAIN gs
  BY <1>1, <1>4
<1> QED
  BY <1>1, <1>2, <1>3, <1>4, <1>5, <1>6 DEF Pushed, gs

LEMMA Retops ==
    ASSUME NEW fs \in Seq(Record), fs # << >>, NEW f \in Record
    PROVE  Retopped(fs, Append(SubSeq(fs, 1, Len(fs) - 1), f), f)
<1> DEFINE cs == SubSeq(fs, 1, Len(fs) - 1)
           gs == Append(cs, f)
<1>1. /\ Popped(fs, cs) /\ Len(fs) \in Nat /\ Len(fs) # 0 /\ DOMAIN fs = 1..Len(fs)
  BY FramesTyped, Pops
<1> HIDE DEF cs
<1>2. Pushed(cs, gs, f)
  BY <1>1, Pushes DEF Popped
<1> HIDE DEF gs
<1>3. Len(cs) + 1 = Len(fs) /\ Len(cs) = Len(fs) - 1
  BY <1>1 DEF Popped
<1>4. DOMAIN gs = DOMAIN fs /\ gs \in Seq(Record) /\ gs # << >> /\ Len(gs) = Len(fs) /\ gs[Len(fs)] = f
  BY <1>1, <1>2, <1>3 DEF Pushed
<1>5. ASSUME NEW k \in DOMAIN fs, k # Len(fs) PROVE gs[k] = fs[k]
  <2>1. k \in DOMAIN cs
    BY <1>1, <1>5 DEF Popped
  <2>2. cs[k] = fs[k]
    BY <1>1, <2>1 DEF Popped
  <2>3. gs[k] = cs[k]
    BY <1>2, <2>1 DEF Pushed
  <2> QED
    BY <2>2, <2>3
<1> QED
  BY <1>4, <1>5 DEF Retopped, gs, cs
-----------------------------------------------------------------------------
(* A shape is made concrete *)

\* N is what is made with s: it hangs on s or on what is made.
New(d, s, N) ==
    /\ N \subseteq Shapes /\ s \notin N
    /\ \A t \in N :
          /\ t \notin ToSet(d.declared) /\ ToSet(Attached(d, t)) \subseteq N
          /\ \A y \in Shapes : t \in Below(d, y) =>
                \/ y = s /\ t \in ToSet(d.nested[s])
                \/ y \in N /\ t \in ToSet(Attached(d, y))

LEMMA NewIs ==
    ASSUME NEW d \in DocumentType, WellFormed(d), NEW s \in Shapes, NEW N, N \in {{}, Inside(d, s)}
    PROVE  New(d, s, N)
<1>1. CASE N = {}
  BY <1>1 DEF New
<1>2. CASE N = Inside(d, s)
  BY <1>2, InsideClosed, InsidePlace DEF New
<1> QED
  BY <1>1, <1>2

\* What is resolved or made stays so; only s, what is made and built in is resolved.
Stays(kd, kd2) ==
    \A t \in Shapes : /\ kd[t] \notin Pending => kd2[t] = kd[t]
                      /\ kd[t] # "unmade" => kd2[t] # "unmade"

Grows(d, kd, kd2, s, N) ==
    /\ kd2 \in [Shapes -> Kinds \cup Pending]
    /\ Stays(kd, kd2)
    /\ s \in Shapes /\ kd[s] # "unmade" /\ d.op[s] # "builtin" /\ kd2[s] \notin Pending
    /\ New(d, s, N)
    /\ \A t \in N : kd2[t] # "unmade" /\ (d.op[t] = "builtin" => kd2[t] = d.kind[t])
    /\ \A t \in Shapes :
          /\ kd2[t] \notin Pending => kd[t] \notin Pending \/ t = s \/ (t \in N /\ d.op[t] = "builtin")
          /\ t \notin N /\ kd[t] = "unmade" => kd2[t] = "unmade"
          /\ kd2[t] = "unknown" => kd[t] = "unknown" \/ (t \in N /\ d.op[t] # "builtin")

FirstIn(d, t) == IF d.op[t] = "builtin" THEN d.kind[t] ELSE "unknown"

\* The types after s has been made a k, with N.
Retyped(d, kd, s, k, N) ==
    [t \in Shapes |-> CASE t = s -> k
                       [] t # s /\ t \in N -> FirstIn(d, t)
                       [] OTHER -> kd[t]]

LEMMA MakeGrows ==
    ASSUME NEW d \in DocumentType, WellFormed(d), NEW kd \in [Shapes -> Kinds \cup Pending],
           NEW s \in Shapes, NEW k \in Kinds, k = MeaningIn(d)[s], kd[s] # "unmade", d.op[s] # "builtin",
           NEW N, New(d, s, N), Meant(d, kd), Made(d, kd),
           \A t \in N : d.op[t] # "builtin" => kd[t] \in Pending,
           NEW kd2, kd2 = Retyped(d, kd, s, k, N)
    PROVE  Grows(d, kd, kd2, s, N) /\ kd2[s] = k
<1>1. /\ \A t \in Shapes : kd[t] \in Kinds \cup Pending /\ d.kind[t] \in Kinds
      /\ {"unknown", "unmade"} = Pending /\ Kinds \cap Pending = {}
  BY DocTyped DEF Kinds, Pending
<1>2. \A t \in Shapes : kd2[t] = CASE t = s -> k
                                   [] t # s /\ t \in N -> FirstIn(d, t)
                                   [] OTHER -> kd[t]
  BY DEF Retyped
<1>3. N \subseteq Shapes /\ s \notin N
  BY DEF New
<1>4. /\ kd2[s] = k
      /\ \A t \in N : kd2[t] = FirstIn(d, t)
      /\ \A t \in Shapes : t # s /\ t \notin N => kd2[t] = kd[t]
  BY <1>2, <1>3
<1>5. \A t \in N : FirstIn(d, t) \in Kinds \cup Pending /\ FirstIn(d, t) # "unmade"
                   /\ (FirstIn(d, t) \notin Pending <=> d.op[t] = "builtin")
                   /\ (FirstIn(d, t) = "unknown" <=> d.op[t] # "builtin")
  BY <1>1, <1>3 DEF FirstIn, Kinds
<1>6. kd2 \in [Shapes -> Kinds \cup Pending]
  <2>1. \A t \in Shapes : kd2[t] \in Kinds \cup Pending
    BY <1>1, <1>4, <1>5
  <2>2. kd2 = [t \in Shapes |-> kd2[t]]
    BY DEF Retyped
  <2> QED
    BY <2>1, <2>2
<1>7. \A t \in N : kd[t] \notin Pending => kd[t] = FirstIn(d, t)
  BY <1>1, <1>3 DEF Made, FirstIn
<1>8. kd[s] \notin Pending => kd[s] = k
  BY DEF Meant
<1>9. Stays(kd, kd2)
  <2> SUFFICES ASSUME NEW t \in Shapes
               PROVE  /\ kd[t] \notin Pending => kd2[t] = kd[t]
                      /\ kd[t] # "unmade" => kd2[t] # "unmade"
    BY DEF Stays
  <2>1. CASE t = s
    BY <1>1, <1>4, <1>8, <2>1
  <2>2. CASE t \in N
    BY <1>4, <1>5, <1>7, <2>2
  <2>3. CASE t # s /\ t \notin N
    BY <1>4, <2>3
  <2> QED
    BY <2>1, <2>2, <2>3
<1>10. \A t \in N : kd2[t] # "unmade" /\ (d.op[t] = "builtin" => kd2[t] = d.kind[t])
  BY <1>4, <1>5 DEF FirstIn
<1>11. ASSUME NEW t \in Shapes
       PROVE  /\ kd2[t] \notin Pending => kd[t] \notin Pending \/ t = s \/ (t \in N /\ d.op[t] = "builtin")
              /\ t \notin N /\ kd[t] = "unmade" => kd2[t] = "unmade"
              /\ kd2[t] = "unknown" => kd[t] = "unknown" \/ (t \in N /\ d.op[t] # "builtin")
  <2>1. CASE t = s
    BY <1>1, <1>4, <2>1
  <2>2. CASE t \in N
    BY <1>4, <1>5, <2>2
  <2>3. CASE t # s /\ t \notin N
    BY <1>4, <2>3
  <2> QED
    BY <2>1, <2>2, <2>3
<1>12. kd2[s] \notin Pending
  BY <1>1, <1>4
<1> QED
  BY <1>4, <1>6, <1>9, <1>10, <1>11, <1>12 DEF Grows

LEMMA MadeGrows ==
    ASSUME NEW d \in DocumentType, WellFormed(d), NEW kd, Made(d, kd),
           NEW kd2, NEW s, NEW N, Grows(d, kd, kd2, s, N)
    PROVE  Made(d, kd2)
<1>1. /\ s \in Shapes /\ kd[s] # "unmade" /\ d.op[s] # "builtin" /\ kd2[s] \notin Pending
      /\ Stays(kd, kd2)
      /\ \A t \in N : kd2[t] # "unmade" /\ (d.op[t] = "builtin" => kd2[t] = d.kind[t])
  BY DEF Grows
<1>2. \A t \in Shapes :
          /\ kd2[t] \notin Pending => kd[t] \notin Pending \/ t = s \/ (t \in N /\ d.op[t] = "builtin")
          /\ t \notin N /\ kd[t] = "unmade" => kd2[t] = "unmade"
          /\ kd2[t] = "unknown" => kd[t] = "unknown" \/ (t \in N /\ d.op[t] # "builtin")
  BY DEF Grows
<1>3. /\ N \subseteq Shapes /\ s \notin N
      /\ \A t \in N : t \notin ToSet(d.declared) /\ ToSet(Attached(d, t)) \subseteq N
      /\ \A t \in N : \A y \in Shapes : t \in Below(d, y) =>
                \/ y = s /\ t \in ToSet(d.nested[s])
                \/ y \in N /\ t \in ToSet(Attached(d, y))
  BY DEF Grows, New
<1>4. \A t \in Shapes : kd2[t] = "unmade" => kd[t] = "unmade" /\ t \notin N /\ t # s
  BY <1>1 DEF Stays
<1>5. \A t \in ToSet(d.declared) : kd2[t] # "unmade"
  <2>1. \A t \in ToSet(d.declared) : kd[t] # "unmade" /\ t \in Shapes
    BY PartsTyped DEF Made
  <2> QED
    BY <1>4, <2>1
<1>6. ASSUME NEW x \in Shapes, kd2[x] = "unmade", NEW t \in Below(d, x)
      PROVE  kd2[t] = "unmade"
  <2>1. kd[x] = "unmade" /\ x \notin N /\ x # s
    BY <1>4, <1>6
  <2>2. kd[t] = "unmade" /\ t \in Shapes
    BY <1>6, <2>1, ChildrenTyped DEF Made
  <2>3. t \notin N
    BY <1>3, <1>6, <2>1
  <2> QED
    BY <1>2, <2>2, <2>3
<1>7. ASSUME NEW x \in Shapes, kd2[x] = "unknown"
      PROVE  /\ \A t \in ToSet(d.nested[x]) : kd2[t] = "unmade"
             /\ d.op[x] \in Containers => \A t \in ToSet(d.members[x]) : kd2[t] = "unmade"
  <2>1. x # s
    BY <1>1, <1>7 DEF Pending
  <2>2. d.op[x] # "builtin" /\ kd[x] \in Pending
    <3>1. CASE kd[x] = "unknown"
      <4>1. d.kind[x] # "unknown"
        BY DocTyped DEF Kinds
      <4> QED
        BY <3>1, <4>1 DEF Made, Pending
    <3>2. CASE x \in N /\ d.op[x] # "builtin"
      <4>1. kd[x] \in Pending
        BY <1>1, <1>7 DEF Stays, Pending
      <4> QED
        BY <3>2, <4>1
    <3> QED
      BY <1>2, <1>7, <3>1, <3>2
  <2>3. \A t \in ToSet(d.nested[x]) : t \in Below(d, x) /\ kd[t] = "unmade" /\ t \notin ToSet(Attached(d, x))
    <3>1. \A t \in ToSet(d.nested[x]) : t \in Below(d, x) /\ kd[t] = "unmade"
      BY <2>2, ChildrenTyped DEF Made, Pending
    <3>2. \A t \in ToSet(d.nested[x]) : t \notin ToSet(d.members[x]) /\ t \notin ToSet(<< >>)
      <4>1. ToSet(d.members[x]) \cap ToSet(d.nested[x]) = {}
        BY DEF WellFormed
      <4>2. ToSet(<< >>) = {}
        BY DEF ToSet
      <4> QED
        BY <4>1, <4>2
    <3> QED
      BY <2>2, <3>1, <3>2 DEF Attached
  <2>4. d.op[x] \in Containers => \A t \in ToSet(d.members[x]) :
            t \in Below(d, x) /\ kd[t] = "unmade" /\ t \notin ToSet(Attached(d, x))
    <3>1. d.op[x] \in Containers => \A t \in ToSet(d.members[x]) : t \in Below(d, x) /\ kd[t] = "unmade"
      BY <2>2, ChildrenTyped DEF Made, Pending
    <3>2. d.op[x] \in Containers => ToSet(Attached(d, x)) = {}
      BY DEF Attached, Containers, ToSet
    <3> QED
      BY <3>1, <3>2
  <2>5. \A t \in Below(d, x) : kd[t] = "unmade" /\ t \notin ToSet(Attached(d, x)) => kd2[t] = "unmade"
    BY <1>2, <1>3, <2>1, ChildrenTyped
  <2> QED
    BY <2>3, <2>4, <2>5
<1>8. ASSUME NEW x \in Shapes, kd2[x] # "unmade"
      PROVE  /\ d.op[x] = "builtin" => kd2[x] = d.kind[x]
             /\ \A t \in ToSet(Attached(d, x)) : kd2[t] # "unmade"
  <2>1. CASE x \in N
    BY <1>1, <1>3, <2>1
  <2>2. CASE x \notin N
    <3>1. kd[x] # "unmade"
      BY <1>2, <1>8, <2>2
    <3>2. d.op[x] = "builtin" => kd2[x] = d.kind[x]
      <4>1. d.op[x] = "builtin" => kd[x] = d.kind[x] /\ kd[x] \notin Pending
        <5>1. d.kind[x] \notin Pending
          BY DocTyped DEF Kinds, Pending
        <5> QED
          BY <3>1, <5>1 DEF Made
      <4> QED
        BY <1>1, <4>1 DEF Stays
    <3>3. \A t \in ToSet(Attached(d, x)) : kd[t] # "unmade" /\ t \in Shapes
      BY <3>1, ChildrenTyped DEF Made
    <3> QED
      BY <1>4, <3>2, <3>3
  <2> QED
    BY <2>1, <2>2
<1> QED
  BY <1>5, <1>6, <1>7, <1>8 DEF Made

\* The parts of an expression are not among what is made.
Hidden(d, kd, kd2) ==
    \A y \in Shapes : d.op[y] \in Containers =>
        \A t \in ToSet(d.members[y]) : kd[t] = "unmade" => kd2[t] = "unmade"

LEMMA HiddenGrows ==
    ASSUME NEW d \in DocumentType, WellFormed(d), NEW kd, NEW kd2, NEW s, NEW N, Grows(d, kd, kd2, s, N)
    PROVE  Hidden(d, kd, kd2)
<1>1. SUFFICES ASSUME NEW y \in Shapes, d.op[y] \in Containers, NEW t \in ToSet(d.members[y]), kd[t] = "unmade"
               PROVE  kd2[t] = "unmade"
  BY DEF Hidden
<1>2. t \in Below(d, y) /\ t \in Shapes
  BY ChildrenTyped
<1>3. t \notin ToSet(d.nested[y])
  BY DEF WellFormed
<1>4. t \notin ToSet(Attached(d, y))
  BY <1>1 DEF Attached, Containers, ToSet
<1>5. t \notin N
  BY <1>2, <1>3, <1>4 DEF Grows, New
<1> QED
  BY <1>1, <1>2, <1>5 DEF Grows

LEMMA MeantGrows ==
    ASSUME NEW d \in DocumentType, WellFormed(d), NEW kd, Meant(d, kd), NEW s, NEW N, NEW kd2,
           Grows(d, kd, kd2, s, N), kd2[s] = MeaningIn(d)[s], N # {} => N \subseteq OccurringIn(d)
    PROVE  Meant(d, kd2)
<1>1. SUFFICES ASSUME NEW t \in Shapes
               PROVE  /\ kd2[t] \notin Pending => kd2[t] = MeaningIn(d)[t]
                      /\ kd2[t] # "unmade" => t \in OccurringIn(d)
  BY DEF Meant
<1>2. ASSUME kd2[t] \notin Pending PROVE kd2[t] = MeaningIn(d)[t]
  <2>1. CASE kd[t] \notin Pending
    BY <2>1 DEF Grows, Stays, Meant
  <2>2. CASE t = s
    BY <2>2
  <2>3. CASE t \in N /\ d.op[t] = "builtin"
    <3>1. MeaningIn(d)[t] = d.kind[t]
      BY <2>3, MeaningAt DEF MeansBy
    <3> QED
      BY <2>3, <3>1 DEF Grows
  <2> QED
    BY <1>2, <2>1, <2>2, <2>3 DEF Grows
<1>3. ASSUME kd2[t] # "unmade" PROVE t \in OccurringIn(d)
  <2>1. t \in N \/ kd[t] # "unmade"
    BY <1>3 DEF Grows
  <2> QED
    BY <2>1 DEF Meant
<1> QED
  BY <1>2, <1>3
\* What is inside a shape that is not resolved has not been made.
LEMMA InsideUnmade ==
    ASSUME NEW d \in DocumentType, WellFormed(d), NEW kd, Made(d, kd), NEW s \in Shapes, kd[s] \in Pending
    PROVE  \A t \in Inside(d, s) : kd[t] = "unmade"
<1> DEFINE Q == {x \in Shapes : kd[x] = "unmade"}
<1>1. ASSUME NEW x \in Shapes, x \in Q PROVE ToSet(Attached(d, x)) \subseteq Q
  BY <1>1, ChildrenTyped DEF Made
<1>2. ToSet(d.nested[s]) \subseteq Q
  BY ChildrenTyped DEF Made, Pending
<1> HIDE DEF Q
<1>3. \A t \in Shapes : t \in Q => With(d, t) \subseteq Q
  BY <1>1, WithLeast
<1>4. Inside(d, s) = UNION {With(d, t) : t \in ToSet(d.nested[s])}
  BY DEF Inside, With
<1>5. ToSet(d.nested[s]) \subseteq Shapes
  BY ChildrenTyped
<1>6. Inside(d, s) \subseteq Q
  BY <1>2, <1>3, <1>4, <1>5
<1> QED
  BY <1>6 DEF Q

\* A shape t is made for a part of the expression of s.
Begun(d, kd, kd2, s, t) ==
    /\ s \in Shapes /\ d.op[s] \in Containers /\ kd[s] \notin Pending
    /\ t \in ToSet(d.members[s]) /\ kd[t] = "unmade"
    /\ kd2 = [kd EXCEPT ![t] = "unknown"]

LEMMA BegunKeeps ==
    ASSUME NEW d \in DocumentType, WellFormed(d), NEW kd \in [Shapes -> Kinds \cup Pending],
           NEW s, NEW t, NEW kd2, Begun(d, kd, kd2, s, t), Made(d, kd), Meant(d, kd)
    PROVE  /\ kd2 \in [Shapes -> Kinds \cup Pending]
           /\ Stays(kd, kd2) /\ kd2[t] = "unknown" /\ t \in Shapes /\ t # s
           /\ \A x \in Shapes : x # t => kd2[x] = kd[x]
           /\ d.op[t] \notin {"builtin", "include", "list"}
           /\ Made(d, kd2) /\ Meant(d, kd2)
<1>1. /\ s \in Shapes /\ d.op[s] \in Containers /\ kd[s] \notin Pending
      /\ t \in ToSet(d.members[s]) /\ kd[t] = "unmade"
      /\ kd2 = [kd EXCEPT ![t] = "unknown"]
  BY DEF Begun
<1>2. t \in Shapes /\ t \in Below(d, s) /\ t # s /\ t \notin ToSet(d.declared)
  BY <1>1, ChildrenTyped, Lower
<1>3. /\ kd2 \in [Shapes -> Kinds \cup Pending] /\ kd2[t] = "unknown"
      /\ \A x \in Shapes : x # t => kd2[x] = kd[x]
  BY <1>1, <1>2 DEF Pending
<1>4. Stays(kd, kd2)
  BY <1>1, <1>3 DEF Stays, Pending
<1>5. d.op[t] \notin {"builtin", "include", "list"}
  BY <1>1 DEF WellFormed
<1>6. ToSet(Attached(d, t)) = {}
  BY <1>5 DEF Attached, ToSet
<1>7. /\ \A y \in Shapes : t \in Below(d, y) => y = s
      /\ \A y \in Shapes : t \notin ToSet(d.nested[y])
      /\ \A y \in Shapes : t \notin ToSet(Attached(d, y))
  <2>1. \A y \in Shapes : t \in Below(d, y) => y = s
    BY <1>1, <1>2, OnePlace
  <2>2. \A y \in Shapes : t \notin ToSet(d.nested[y])
    <3>1. ToSet(d.members[s]) \cap ToSet(d.nested[s]) = {}
      BY <1>1 DEF WellFormed
    <3> QED
      BY <1>1, <2>1, <3>1, ChildrenTyped
  <2>3. ToSet(Attached(d, s)) = {}
    BY <1>1 DEF Attached, Containers, ToSet
  <2> QED
    BY <2>1, <2>2, <2>3, ChildrenTyped
<1>8. Made(d, kd2)
  <2>1. \A x \in ToSet(d.declared) : kd2[x] # "unmade"
    BY <1>4, PartsTyped DEF Made, Stays
  <2>2. ASSUME NEW x \in Shapes, kd2[x] = "unmade", NEW y \in Below(d, x) PROVE kd2[y] = "unmade"
    <3>1. kd[x] = "unmade" /\ x # t /\ x # s
      BY <1>1, <1>3, <2>2 DEF Pending
    <3>2. kd[y] = "unmade" /\ y # t /\ y \in Shapes
      BY <1>7, <2>2, <3>1, ChildrenTyped DEF Made
    <3> QED
      BY <1>3, <3>2
  <2>3. ASSUME NEW x \in Shapes, kd2[x] = "unknown"
        PROVE  /\ \A y \in ToSet(d.nested[x]) : kd2[y] = "unmade"
               /\ d.op[x] \in Containers => \A y \in ToSet(d.members[x]) : kd2[y] = "unmade"
    <3>1. x # s
      BY <1>1, <1>2, <1>3, <2>3 DEF Pending
    <3>2. CASE x = t
      <4>1. \A y \in Below(d, x) : kd[y] = "unmade" /\ y # t /\ y \in Shapes
        BY <1>1, <1>2, <3>2, Lower DEF Made
      <4> QED
        BY <1>3, <4>1, ChildrenTyped
    <3>3. CASE x # t
      <4>1. kd[x] = "unknown"
        BY <1>3, <2>3, <3>3
      <4>2. \A y \in Below(d, x) : y # t /\ y \in Shapes
        BY <1>7, <3>1, ChildrenTyped
      <4> QED
        BY <1>3, <4>1, <4>2, ChildrenTyped DEF Made
    <3> QED
      BY <3>2, <3>3
  <2>4. ASSUME NEW x \in Shapes, kd2[x] # "unmade"
        PROVE  /\ d.op[x] = "builtin" => kd2[x] = d.kind[x]
               /\ \A y \in ToSet(Attached(d, x)) : kd2[y] # "unmade"
    <3>1. CASE x = t
      BY <1>5, <1>6, <3>1
    <3>2. CASE x # t
      <4>1. kd2[x] = kd[x] /\ kd[x] # "unmade"
        BY <1>3, <2>4, <3>2
      <4>2. \A y \in ToSet(Attached(d, x)) : kd[y] # "unmade" /\ y \in Shapes
        BY <4>1, ChildrenTyped DEF Made
      <4> QED
        BY <1>4, <4>1, <4>2 DEF Made, Stays
    <3> QED
      BY <3>1, <3>2
  <2> QED
    BY <2>1, <2>2, <2>3, <2>4 DEF Made
<1>9. Meant(d, kd2)
  <2>1. s \in OccurringIn(d)
    BY <1>1 DEF Meant, Pending
  <2>2. t \in OccurringIn(d)
    BY <1>1, <2>1, OccurringClosed
  <2>3. ASSUME NEW x \in Shapes
        PROVE  /\ kd2[x] \notin Pending => kd2[x] = MeaningIn(d)[x]
               /\ kd2[x] # "unmade" => x \in OccurringIn(d)
    <3>1. CASE x = t
      BY <1>3, <2>2, <3>1 DEF Pending
    <3>2. CASE x # t
      BY <1>3, <3>2 DEF Meant
    <3> QED
      BY <3>1, <3>2
  <2> QED
    BY <2>3 DEF Meant
<1> QED
  BY <1>2, <1>3, <1>4, <1>5, <1>8, <1>9

-----------------------------------------------------------------------------
(* Records stay in place *)

LEMMA PlacedStays ==
    ASSUME NEW d \in DocumentType, NEW f \in Record, NEW kd, NEW kd2,
           Placed(d, kd, f), Stays(kd, kd2), f.at # "start"
    PROVE  Placed(d, kd2, f)
<1>1. f.shape \in Shapes
  BY RecordTyped
<1>2. \A i \in DOMAIN d.members[f.shape] : d.members[f.shape][i] \in Shapes
  BY <1>1, ChildrenTyped, SeqTyped
<1>3. \A t \in Shapes : /\ kd[t] \notin Pending => kd2[t] \notin Pending
                        /\ kd[t] # "unmade" => kd2[t] # "unmade"
  BY DEF Stays
<1> QED
  BY <1>1, <1>2, <1>3 DEF Placed, Resolved

\* The queue only grows at its end.
Longer(d, kd, q, q2) ==
    /\ q2 \in Seq(Shapes)
    /\ q # << >> => q2 # << >> /\ Head(q2) = Head(q)
    /\ \A s \in ToSet(q2) : kd[s] # "unmade"

LEMMA LongerTyped ==
    ASSUME NEW q \in Seq(Shapes), q # << >>
    PROVE  Head(q) \in ToSet(q) /\ Head(q) \in Shapes
BY SeqTyped

\* The top record returns r2.
LEMMA ControlReturn ==
    ASSUME NEW d \in DocumentType, NEW kd, NEW kd2, NEW q \in Seq(Shapes), NEW q2,
           NEW fs \in Seq(Record), fs # << >>, NEW gs, Popped(fs, gs), NEW r, NEW r2 \in {"ok", "error"},
           Controlled(d, kd, q, fs, r), Stays(kd, kd2), Longer(d, kd2, q, q2),
           r2 = "ok" => kd2[fs[Len(fs)].shape] \notin Pending
    PROVE  Controlled(d, kd2, q2, gs, r2)
<1>1. /\ Len(fs) \in DOMAIN fs /\ Len(fs) \in Nat /\ DOMAIN fs = 1..Len(fs) /\ Len(fs) # 0
      /\ \A k \in DOMAIN fs : fs[k] \in Record
  BY FramesTyped
<1>2. /\ gs \in Seq(Record) /\ Len(gs) = Len(fs) - 1 /\ DOMAIN gs = 1..Len(fs) - 1
      /\ \A k \in DOMAIN gs : gs[k] = fs[k] /\ k \in DOMAIN fs /\ k # Len(fs) /\ k < Len(fs)
  BY <1>1 DEF Popped
<1>3. /\ \A k \in DOMAIN fs : Placed(d, kd, fs[k])
      /\ \A k \in DOMAIN fs : k < Len(fs) => Waits(d, fs[k]) /\ fs[k + 1].shape = Callee(d, fs[k])
      /\ Answered(d, kd, q, fs, r)
  BY DEF Controlled, Linked
<1>4. /\ q # << >> /\ fs[1].shape = Head(q)
      /\ \A k \in DOMAIN fs : fs[k].at = "start" => k = Len(fs) /\ r = None
  BY <1>3 DEF Answered
<1>5. \A k \in DOMAIN gs : Placed(d, kd2, gs[k]) /\ gs[k].at # "start"
  <2> TAKE k \in DOMAIN gs
  <2>1. fs[k].at # "start" /\ Placed(d, kd, fs[k]) /\ fs[k] \in Record /\ gs[k] = fs[k]
    BY <1>1, <1>2, <1>3, <1>4
  <2> QED
    BY <2>1, PlacedStays
<1>6. Linked(d, gs)
  <2> SUFFICES ASSUME NEW k \in DOMAIN gs, k < Len(gs)
               PROVE  Waits(d, gs[k]) /\ gs[k + 1].shape = Callee(d, gs[k])
    BY DEF Linked
  <2>1. k + 1 \in DOMAIN gs
    BY <1>1, <1>2
  <2> QED
    BY <1>2, <1>3, <2>1
<1>7. gs # << >> => /\ Len(gs) \in DOMAIN gs /\ Len(gs) + 1 = Len(fs) /\ gs[1] = fs[1]
                    /\ Waits(d, gs[Len(gs)]) /\ fs[Len(fs)].shape = Callee(d, gs[Len(gs)])
  <2>1. HAVE gs # << >>
  <2>2. Len(gs) \in DOMAIN gs /\ 1 \in DOMAIN gs
    BY <1>2, <2>1, FramesTyped
  <2>3. Len(gs) + 1 = Len(fs) /\ Len(gs) < Len(fs)
    BY <1>1, <1>2
  <2> QED
    BY <1>2, <1>3, <2>2, <2>3
<1>8. gs = << >> => Len(fs) = 1
  <2>1. gs = << >> => Len(gs) = 0
    BY <1>2
  <2> QED
    BY <1>1, <1>2, <2>1
<1>9. Answered(d, kd2, q2, gs, r2)
  <2>1. q2 # << >> /\ Head(q2) = Head(q) /\ \A s \in ToSet(q2) : kd2[s] # "unmade"
    BY <1>4 DEF Longer
  <2>2. gs # << >> => gs[1].shape = Head(q2)
    BY <1>4, <1>7, <2>1
  <2>3. gs = << >> /\ r2 = "ok" => kd2[Head(q2)] \notin Pending
    BY <1>4, <1>8, <2>1
  <2>4. gs # << >> /\ r2 = "ok" => kd2[Callee(d, gs[Len(gs)])] \notin Pending
    BY <1>7
  <2> QED
    BY <1>5, <1>7, <2>1, <2>2, <2>3, <2>4 DEF Answered, Resolved
<1> QED
  BY <1>5, <1>6, <1>9 DEF Controlled

\* The top record goes on, with or without the result of a call it has made.
LEMMA ControlGoto ==
    ASSUME NEW d \in DocumentType, NEW kd, NEW kd2, NEW q \in Seq(Shapes), NEW q2,
           NEW fs \in Seq(Record), fs # << >>, NEW f, NEW gs, Retopped(fs, gs, f), NEW r, NEW r2 \in {"ok", None},
           Controlled(d, kd, q, fs, r), Stays(kd, kd2), Longer(d, kd2, q, q2),
           f.shape = fs[Len(fs)].shape, f.at # "start", Placed(d, kd2, f),
           r2 = None \/ (Waits(d, f) /\ kd2[Callee(d, f)] \notin Pending)
    PROVE  Controlled(d, kd2, q2, gs, r2)
<1>1. /\ Len(fs) \in DOMAIN fs /\ Len(fs) \in Nat /\ DOMAIN fs = 1..Len(fs) /\ Len(fs) # 0
      /\ \A k \in DOMAIN fs : fs[k] \in Record
  BY FramesTyped
<1>2. /\ gs \in Seq(Record) /\ Len(gs) = Len(fs) /\ DOMAIN gs = DOMAIN fs /\ gs # << >>
      /\ gs[Len(fs)] = f /\ f \in Record
      /\ \A k \in DOMAIN fs : k # Len(fs) => gs[k] = fs[k]
  BY DEF Retopped
<1>3. /\ \A k \in DOMAIN fs : Placed(d, kd, fs[k])
      /\ \A k \in DOMAIN fs : k < Len(fs) => Waits(d, fs[k]) /\ fs[k + 1].shape = Callee(d, fs[k])
      /\ Answered(d, kd, q, fs, r)
  BY DEF Controlled, Linked
<1>4. /\ q # << >> /\ fs[1].shape = Head(q)
      /\ \A k \in DOMAIN fs : fs[k].at = "start" => k = Len(fs) /\ r = None
  BY <1>3 DEF Answered
<1>5. \A k \in DOMAIN gs : Placed(d, kd2, gs[k]) /\ gs[k].at # "start"
  <2> TAKE k \in DOMAIN gs
  <2>1. CASE k = Len(fs)
    BY <1>2, <2>1
  <2>2. CASE k # Len(fs)
    <3>1. fs[k].at # "start" /\ Placed(d, kd, fs[k]) /\ fs[k] \in Record /\ gs[k] = fs[k]
      BY <1>1, <1>2, <1>3, <1>4, <2>2
    <3> QED
      BY <3>1, PlacedStays
  <2> QED
    BY <2>1, <2>2
<1>6. \A k \in DOMAIN gs : gs[k].shape = fs[k].shape
  BY <1>2
<1>7. Linked(d, gs)
  <2> SUFFICES ASSUME NEW k \in DOMAIN gs, k < Len(gs)
               PROVE  Waits(d, gs[k]) /\ gs[k + 1].shape = Callee(d, gs[k])
    BY DEF Linked
  <2>1. k + 1 \in DOMAIN gs /\ k # Len(fs) /\ k < Len(fs)
    BY <1>1, <1>2
  <2> QED
    BY <1>2, <1>3, <1>6, <2>1
<1>8. Answered(d, kd2, q2, gs, r2)
  <2>1. q2 # << >> /\ Head(q2) = Head(q) /\ \A s \in ToSet(q2) : kd2[s] # "unmade"
    BY <1>4 DEF Longer
  <2>2. gs[1].shape = Head(q2)
    BY <1>1, <1>2, <1>4, <1>6, <2>1, FramesTyped
  <2>3. gs[Len(gs)] = f
    BY <1>2
  <2>4. r2 = "ok" => Waits(d, f) /\ kd2[Callee(d, f)] \notin Pending
    BY NoneIsNothing
  <2>5. r2 # None => Waits(d, f)
    OBVIOUS
  <2> QED
    BY <1>2, <1>5, <2>1, <2>2, <2>3, <2>4, <2>5 DEF Answered, Resolved
<1> QED
  BY <1>5, <1>7, <1>8 DEF Controlled

\* The top record, or the loop, calls resolveShape or Visit for t.
LEMMA ControlPush ==
    ASSUME NEW d \in DocumentType, NEW kd, NEW kd2, NEW q \in Seq(Shapes),
           NEW fs \in Seq(Record), NEW t \in Shapes, NEW gs, Pushed(fs, gs, Started(t)),
           Controlled(d, kd, q, fs, None), Stays(kd, kd2),
           \A k \in DOMAIN fs : fs[k].at # "start",
           kd2[t] = "unknown", d.op[t] # "builtin",
           IF fs = << >> THEN q # << >> /\ t = Head(q)
                         ELSE Waits(d, fs[Len(fs)]) /\ t = Callee(d, fs[Len(fs)])
    PROVE  Controlled(d, kd2, q, gs, None)
<1>1. /\ Len(fs) \in Nat /\ DOMAIN fs = 1..Len(fs)
      /\ \A k \in DOMAIN fs : fs[k] \in Record
  BY FramesTyped
<1>2. /\ gs \in Seq(Record) /\ Len(gs) = Len(fs) + 1 /\ DOMAIN gs = 1..Len(fs) + 1 /\ gs # << >>
      /\ gs[Len(fs) + 1] = Started(t)
      /\ \A k \in DOMAIN fs : gs[k] = fs[k] /\ k \in DOMAIN gs
      /\ \A k \in DOMAIN gs : k = Len(fs) + 1 \/ k \in DOMAIN fs
  BY DEF Pushed
<1>3. /\ \A k \in DOMAIN fs : Placed(d, kd, fs[k])
      /\ \A k \in DOMAIN fs : k < Len(fs) => Waits(d, fs[k]) /\ fs[k + 1].shape = Callee(d, fs[k])
      /\ Answered(d, kd, q, fs, None)
  BY DEF Controlled, Linked
<1>4. /\ Started(t) \in Record /\ Started(t).shape = t /\ Started(t).at = "start" /\ Started(t).next = 1
  BY StartedTyped
<1>5. \A k \in DOMAIN gs : Placed(d, kd2, gs[k]) /\ (gs[k].at = "start" => k = Len(gs))
  <2> TAKE k \in DOMAIN gs
  <2>1. CASE k = Len(fs) + 1
    <3>1. Placed(d, kd2, Started(t))
      BY <1>4 DEF Placed
    <3> QED
      BY <1>2, <2>1, <3>1
  <2>2. CASE k \in DOMAIN fs
    BY <1>1, <1>2, <1>3, <2>2, PlacedStays
  <2> QED
    BY <1>2, <2>1, <2>2
<1>6. Linked(d, gs)
  <2> SUFFICES ASSUME NEW k \in DOMAIN gs, k < Len(gs)
               PROVE  Waits(d, gs[k]) /\ gs[k + 1].shape = Callee(d, gs[k])
    BY DEF Linked
  <2>1. k \in DOMAIN fs /\ gs[k] = fs[k]
    BY <1>1, <1>2
  <2>2. CASE k < Len(fs)
    <3>1. k + 1 \in DOMAIN fs
      BY <1>1, <2>1, <2>2
    <3> QED
      BY <1>2, <1>3, <2>1, <2>2, <3>1
  <2>3. CASE ~(k < Len(fs))
    <3>1. k = Len(fs) /\ fs # << >>
      BY <1>1, <2>1, <2>3
    <3> QED
      BY <1>2, <1>4, <2>1, <3>1
  <2> QED
    BY <2>2, <2>3
<1>7. Answered(d, kd2, q, gs, None)
  <2>1. \A s \in ToSet(q) : kd2[s] # "unmade"
    BY <1>3, SeqTyped DEF Answered, Stays
  <2>2. q # << >> /\ gs[1].shape = Head(q)
    <3>1. CASE fs = << >>
      <4>1. Len(fs) + 1 = 1
        BY <3>1
      <4> QED
        BY <1>2, <1>4, <3>1, <4>1
    <3>2. CASE fs # << >>
      <4>1. 1 \in DOMAIN fs
        BY <3>2, FramesTyped
      <4> QED
        BY <1>2, <1>3, <3>2, <4>1 DEF Answered
    <3> QED
      BY <3>1, <3>2
  <2>3. None # "ok"
    BY <1>2, <1>3, NoneIsNothing
  <2> QED
    BY <1>2, <1>5, <2>1, <2>2, <2>3 DEF Answered
<1> QED
  BY <1>5, <1>6, <1>7 DEF Controlled
-----------------------------------------------------------------------------
(* What is still to be made *)

LEMMA AheadReturn ==
    ASSUME NEW d \in DocumentType, NEW kd, NEW kd2, NEW fs \in Seq(Record), NEW gs, Popped(fs, gs),
           NEW r, NEW r2, r2 # None, Ahead(d, kd, fs, r), Hidden(d, kd, kd2)
    PROVE  Ahead(d, kd2, gs, r2)
<1>1. \A k \in DOMAIN gs : gs[k] = fs[k] /\ k \in DOMAIN fs /\ gs[k].shape \in Shapes
  BY FramesTyped, RecordTyped DEF Popped
<1>2. SUFFICES ASSUME NEW k \in DOMAIN gs, gs[k].at = "members", d.op[gs[k].shape] \in Containers
      PROVE  /\ \A i \in DOMAIN d.members[gs[k].shape] :
                   i > gs[k].next => kd2[d.members[gs[k].shape][i]] = "unmade"
             /\ \A j \in DOMAIN gs : j # k /\ gs[j].at = "members" => gs[j].shape # gs[k].shape
  BY DEF Ahead
<1>3. /\ \A i \in DOMAIN d.members[gs[k].shape] :
            i > gs[k].next => kd[d.members[gs[k].shape][i]] = "unmade"
      /\ \A j \in DOMAIN fs : j # k /\ fs[j].at = "members" => fs[j].shape # fs[k].shape
  BY <1>1, <1>2 DEF Ahead
<1>4. \A i \in DOMAIN d.members[gs[k].shape] : d.members[gs[k].shape][i] \in ToSet(d.members[gs[k].shape])
  BY <1>1, ChildrenTyped, SeqTyped
<1> QED
  BY <1>1, <1>2, <1>3, <1>4 DEF Hidden

LEMMA AheadGoto ==
    ASSUME NEW d \in DocumentType, NEW kd, NEW kd2, NEW fs \in Seq(Record), NEW f, NEW gs, Retopped(fs, gs, f),
           NEW r, NEW r2, Ahead(d, kd, fs, r), Hidden(d, kd, kd2),
           f.at = "members" /\ d.op[f.shape] \in Containers =>
              /\ \A i \in DOMAIN d.members[f.shape] : i >= f.next => kd2[d.members[f.shape][i]] = "unmade"
              /\ \A j \in DOMAIN fs : j # Len(fs) /\ fs[j].at = "members" => fs[j].shape # f.shape
    PROVE  Ahead(d, kd2, gs, r2)
<1>1. /\ DOMAIN gs = DOMAIN fs /\ Len(gs) = Len(fs) /\ gs[Len(fs)] = f /\ f \in Record
      /\ \A k \in DOMAIN fs : k # Len(fs) => gs[k] = fs[k]
      /\ \A k \in DOMAIN gs : gs[k].shape \in Shapes
  BY FramesTyped, RecordTyped DEF Retopped
<1>2. SUFFICES ASSUME NEW k \in DOMAIN gs, gs[k].at = "members", d.op[gs[k].shape] \in Containers
      PROVE  /\ \A i \in DOMAIN d.members[gs[k].shape] :
                   i > gs[k].next \/ (i = gs[k].next /\ k = Len(gs) /\ r2 = None)
                        => kd2[d.members[gs[k].shape][i]] = "unmade"
             /\ \A j \in DOMAIN gs : j # k /\ gs[j].at = "members" => gs[j].shape # gs[k].shape
  BY DEF Ahead
<1>3. \A i \in DOMAIN d.members[gs[k].shape] :
         /\ d.members[gs[k].shape][i] \in ToSet(d.members[gs[k].shape])
         /\ i \in Nat
  BY SMTT(30), <1>1, ChildrenTyped, SeqTyped
<1>4. CASE k = Len(fs)
  <2>1. f.next \in Nat
    BY <1>1, RecordTyped
  <2>2. \A i \in DOMAIN d.members[f.shape] :
           i > f.next \/ (i = f.next /\ k = Len(gs) /\ r2 = None) => kd2[d.members[f.shape][i]] = "unmade"
    BY <1>1, <1>2, <1>3, <1>4, <2>1
  <2>3. \A j \in DOMAIN gs : j # k /\ gs[j].at = "members" => gs[j].shape # gs[k].shape
    BY <1>1, <1>2, <1>4
  <2> QED
    BY <1>1, <1>4, <2>2, <2>3
<1>5. CASE k # Len(fs)
  <2>1. /\ \A i \in DOMAIN d.members[gs[k].shape] :
              i > gs[k].next => kd[d.members[gs[k].shape][i]] = "unmade"
        /\ \A j \in DOMAIN fs : j # k /\ fs[j].at = "members" => fs[j].shape # gs[k].shape
    BY <1>1, <1>2, <1>5 DEF Ahead
  <2>2. \A i \in DOMAIN d.members[gs[k].shape] :
              i > gs[k].next => kd2[d.members[gs[k].shape][i]] = "unmade"
    BY <1>1, <1>2, <1>3, <2>1 DEF Hidden
  <2>3. \A j \in DOMAIN gs : j # k /\ gs[j].at = "members" => gs[j].shape # gs[k].shape
    <3> TAKE j \in DOMAIN gs
    <3>1. HAVE j # k /\ gs[j].at = "members"
    <3>2. CASE j = Len(fs)
      BY <1>1, <1>2, <1>5, <3>1, <3>2
    <3>3. CASE j # Len(fs)
      BY <1>1, <2>1, <3>1, <3>3
    <3> QED
      BY <3>2, <3>3
  <2> QED
    BY <1>1, <1>5, <2>2, <2>3
<1> QED
  BY <1>4, <1>5

\* The parts behind the one that is visited remain to be made.
Spared(d, kd, kd2, fs) ==
    \A k \in DOMAIN fs : fs[k].at = "members" /\ d.op[fs[k].shape] \in Containers =>
       \A i \in DOMAIN d.members[fs[k].shape] :
          i > fs[k].next /\ kd[d.members[fs[k].shape][i]] = "unmade"
             => kd2[d.members[fs[k].shape][i]] = "unmade"

LEMMA AheadPush ==
    ASSUME NEW d \in DocumentType, NEW kd, NEW kd2, NEW fs \in Seq(Record), NEW t \in Shapes, NEW gs,
           Pushed(fs, gs, Started(t)), NEW r, NEW r2, Ahead(d, kd, fs, r), Spared(d, kd, kd2, fs)
    PROVE  Ahead(d, kd2, gs, r2)
<1>1. /\ \A k \in DOMAIN fs : gs[k] = fs[k] /\ k \in DOMAIN gs
      /\ \A k \in DOMAIN gs : k = Len(fs) + 1 \/ k \in DOMAIN fs
      /\ gs[Len(fs) + 1] = Started(t) /\ Len(gs) = Len(fs) + 1
  BY DEF Pushed
<1>2. Started(t).at # "members"
  BY StartedTyped
<1>3. \A k \in DOMAIN gs : gs[k].at = "members" => k \in DOMAIN fs /\ gs[k] = fs[k] /\ k # Len(gs)
  <2>1. \A k \in DOMAIN fs : k # Len(fs) + 1
    BY FramesTyped
  <2> QED
    BY <1>1, <1>2, <2>1
<1>4. SUFFICES ASSUME NEW k \in DOMAIN gs, gs[k].at = "members", d.op[gs[k].shape] \in Containers
      PROVE  /\ \A i \in DOMAIN d.members[gs[k].shape] :
                   i > gs[k].next \/ (i = gs[k].next /\ k = Len(gs) /\ r2 = None)
                        => kd2[d.members[gs[k].shape][i]] = "unmade"
             /\ \A j \in DOMAIN gs : j # k /\ gs[j].at = "members" => gs[j].shape # gs[k].shape
  BY DEF Ahead
<1>5. /\ \A i \in DOMAIN d.members[fs[k].shape] :
            i > fs[k].next => kd[d.members[fs[k].shape][i]] = "unmade"
      /\ \A j \in DOMAIN fs : j # k /\ fs[j].at = "members" => fs[j].shape # fs[k].shape
  BY <1>3, <1>4 DEF Ahead
<1>6. \A i \in DOMAIN d.members[fs[k].shape] :
         i > fs[k].next => kd2[d.members[fs[k].shape][i]] = "unmade"
  BY <1>3, <1>4, <1>5 DEF Spared
<1> QED
  BY <1>3, <1>4, <1>5, <1>6

\* The records of gs are of shapes of records of fs; those that are unfinished were.
Follows(d, fs, gs) ==
    \A k \in DOMAIN gs : \E j \in DOMAIN fs :
        /\ gs[k].shape = fs[j].shape
        /\ Unfinished(d, gs[k]) => Unfinished(d, fs[j])

LEMMA UntouchedStays ==
    ASSUME NEW d \in DocumentType, WellFormed(d), NEW kd, NEW kd2, NEW fs \in Seq(Record), NEW gs,
           Follows(d, fs, gs), Untouched(d, kd, fs),
           \A t \in Shapes :
              d.op[t] # "builtin" /\ kd[t] \in Pending /\ (\A j \in DOMAIN fs : fs[j].shape # t)
                 => kd2[t] \in Pending
    PROVE  Untouched(d, kd2, gs)
<1>1. SUFFICES ASSUME NEW k \in DOMAIN gs, Unfinished(d, gs[k]), NEW t \in Inside(d, gs[k].shape)
               PROVE  /\ d.op[t] # "builtin" => kd2[t] \in Pending
                      /\ \A j \in DOMAIN gs : gs[j].shape # t
  BY DEF Untouched
<1>2. PICK j \in DOMAIN fs : gs[k].shape = fs[j].shape /\ Unfinished(d, fs[j])
  BY <1>1 DEF Follows
<1>3. fs[j].shape \in Shapes
  BY FramesTyped, RecordTyped
<1>4. t \in Shapes
  BY <1>1, <1>2, <1>3, InsideClosed
<1>5. /\ d.op[t] # "builtin" => kd[t] \in Pending
      /\ \A i \in DOMAIN fs : fs[i].shape # t
  BY <1>1, <1>2 DEF Untouched
<1>6. \A i \in DOMAIN gs : gs[i].shape # t
  BY <1>5 DEF Follows
<1> QED
  BY <1>4, <1>5, <1>6

LEMMA FollowsPopped ==
    ASSUME NEW d, NEW fs, NEW gs, Popped(fs, gs)
    PROVE  Follows(d, fs, gs)
BY DEF Popped, Follows

LEMMA FollowsRetopped ==
    ASSUME NEW d, NEW fs \in Seq(Record), fs # << >>, NEW gs, NEW f, Retopped(fs, gs, f),
           f.shape = fs[Len(fs)].shape, Unfinished(d, f) => Unfinished(d, fs[Len(fs)])
    PROVE  Follows(d, fs, gs)
<1>1. SUFFICES ASSUME NEW k \in DOMAIN gs
               PROVE  \E j \in DOMAIN fs : /\ gs[k].shape = fs[j].shape
                                           /\ Unfinished(d, gs[k]) => Unfinished(d, fs[j])
  BY DEF Follows
<1>2. k \in DOMAIN fs /\ (k # Len(fs) => gs[k] = fs[k]) /\ gs[Len(fs)] = f
  BY DEF Retopped
<1> QED
  BY <1>2

LEMMA UntouchedPush ==
    ASSUME NEW d \in DocumentType, WellFormed(d), NEW kd, NEW kd2, NEW fs \in Seq(Record),
           NEW t \in Shapes, NEW gs, Pushed(fs, gs, Started(t)), Untouched(d, kd, fs), Made(d, kd),
           kd[t] \in Pending, \A x \in Shapes : kd[x] \in Pending => kd2[x] \in Pending,
           \A k \in DOMAIN fs : kd[fs[k].shape] # "unmade",
           \A k \in DOMAIN fs : Unfinished(d, fs[k]) => t \notin Inside(d, fs[k].shape)
    PROVE  Untouched(d, kd2, gs)
<1>1. /\ \A k \in DOMAIN fs : gs[k] = fs[k] /\ k \in DOMAIN gs
      /\ \A k \in DOMAIN gs : k = Len(fs) + 1 \/ k \in DOMAIN fs
      /\ gs[Len(fs) + 1] = Started(t)
  BY DEF Pushed
<1>2. Started(t).shape = t
  BY StartedTyped
<1>3. SUFFICES ASSUME NEW k \in DOMAIN gs, Unfinished(d, gs[k]), NEW x \in Inside(d, gs[k].shape)
               PROVE  /\ d.op[x] # "builtin" => kd2[x] \in Pending
                      /\ \A j \in DOMAIN gs : gs[j].shape # x
  BY DEF Untouched
<1>4. CASE k \in DOMAIN fs
  <2>1. gs[k] = fs[k] /\ fs[k].shape \in Shapes
    BY <1>1, <1>4, FramesTyped, RecordTyped
  <2>2. /\ d.op[x] # "builtin" => kd[x] \in Pending
        /\ \A j \in DOMAIN fs : fs[j].shape # x
    BY <1>3, <1>4, <2>1 DEF Untouched
  <2>3. x # t /\ x \in Shapes
    BY <1>3, <1>4, <2>1, InsideClosed
  <2> QED
    BY <1>1, <1>2, <2>2, <2>3
<1>5. CASE k = Len(fs) + 1
  <2>1. x \in Inside(d, t) /\ x \in Shapes /\ x # t
    BY <1>1, <1>2, <1>3, <1>5, InsideClosed
  <2>2. kd[x] = "unmade"
    BY <2>1, InsideUnmade
  <2>3. kd2[x] \in Pending
    BY <2>1, <2>2 DEF Pending
  <2>4. \A j \in DOMAIN gs : gs[j].shape # x
    BY <1>1, <1>2, <2>1, <2>2
  <2> QED
    BY <2>3, <2>4
<1> QED
  BY <1>1, <1>4, <1>5

\* No shape is called that is inside an unfinished one.
LEMMA CalleeOutside ==
    ASSUME NEW d \in DocumentType, WellFormed(d), NEW kd, NEW fs \in Seq(Record), fs # << >>,
           Untouched(d, kd, fs), NEW f, f.shape = fs[Len(fs)].shape, Waits(d, f),
           f.at = "referenced" => d.to[f.shape] \in ToSet(d.declared)
    PROVE  \A k \in DOMAIN fs : Unfinished(d, fs[k]) => Callee(d, f) \notin Inside(d, fs[k].shape)
<1> DEFINE s == f.shape
<1>1. SUFFICES ASSUME NEW k \in DOMAIN fs, Unfinished(d, fs[k]), Callee(d, f) \in Inside(d, fs[k].shape)
               PROVE  FALSE
  OBVIOUS
<1>2. fs[k].shape \in Shapes /\ s \in Shapes /\ Len(fs) \in DOMAIN fs
  <2>1. fs[k] \in Record /\ fs[Len(fs)] \in Record /\ Len(fs) \in DOMAIN fs
    BY FramesTyped
  <2> QED
    BY <2>1, RecordTyped
<1>3. s \notin Inside(d, fs[k].shape)
  BY <1>1, <1>2 DEF Untouched
<1>4. CASE f.at = "referenced"
  <2>1. Callee(d, f) \in ToSet(d.declared)
    BY <1>4 DEF Callee
  <2> QED
    BY <1>1, <1>2, <2>1, InsidePlace
<1>5. CASE f.at = "members" /\ f.next \in DOMAIN d.members[s]
  <2>1. Callee(d, f) = d.members[s][f.next] /\ Callee(d, f) \in ToSet(d.members[s])
    BY SMTT(30), <1>2, <1>5, ChildrenTyped, SeqTyped DEF Callee
  <2>2. Callee(d, f) \in Below(d, s)
    BY <1>2, <2>1, ChildrenTyped
  <2>3. s = fs[k].shape /\ Callee(d, f) \in ToSet(d.nested[s])
    BY <1>1, <1>2, <1>3, <2>2, InsidePlace
  <2> QED
    BY <1>2, <2>1, <2>3 DEF WellFormed
<1> QED
  BY <1>4, <1>5 DEF Waits
-----------------------------------------------------------------------------
(* Nothing is forgotten *)

\* What Kept says of a shape that is resolved.
Finished(d, kd, dc, fs, s) ==
    /\ ~WrongIn(d, s)
    /\ d.op[s] \notin {"builtin", "group"} =>
          /\ kd[s] \in {"object", "array"} => \A t \in ToSet(d.nested[s]) : kd[t] # "unmade"
          /\ d.facets[s] => dc[s]
    /\ d.op[s] \in Containers =>
          \/ \E k \in DOMAIN fs : fs[k].shape = s /\ fs[k].at = "members"
          \/ \A t \in ToSet(d.members[s]) : kd[t] \notin Pending

LEMMA KeptIs ==
    ASSUME NEW d, NEW kd, NEW dc, NEW q, NEW fs
    PROVE  Kept(d, kd, dc, q, fs) <=>
              \A s \in Shapes :
                 /\ kd[s] = "unknown" => s \in ToSet(q) \/ \E k \in DOMAIN fs : fs[k].shape = s
                 /\ kd[s] \notin Pending => Finished(d, kd, dc, fs, s)
BY DEF Kept, Finished

LEMMA BuiltinRight ==
    ASSUME NEW d, NEW s, NEW kd, NEW dc, NEW fs, d.op[s] = "builtin"
    PROVE  Finished(d, kd, dc, fs, s)
BY DEF Finished, WrongIn, Containers

\* Nothing but s is changed.
Elsewhere(f, g, s) == \A t \in Shapes : t # s => g[t] = f[t]

\* The records below the top remain; those that are unfinished were below it.
Remain(fs, gs) == \A k \in DOMAIN fs : k # Len(fs) => \E j \in DOMAIN gs : gs[j] = fs[k]

Rests(d, fs, gs) ==
    \A k \in DOMAIN gs : Unfinished(d, gs[k]) => \E j \in DOMAIN fs : j # Len(fs) /\ gs[k] = fs[j]

\* What is made joins the queue.
Joins(d, N, q, q2) ==
    ToSet(q) \subseteq ToSet(q2) /\ \A t \in N : d.op[t] # "builtin" => t \in ToSet(q2)

\* s, the shape of the top record, is made concrete.
LEMMA KeptGrows ==
    ASSUME NEW d \in DocumentType, NEW kd, NEW kd2, NEW s, NEW N, Grows(d, kd, kd2, s, N),
           NEW fs \in Seq(Record), fs # << >>, s = fs[Len(fs)].shape, NEW gs,
           NEW dc, NEW dc2, Elsewhere(dc, dc2, s),
           NEW q, NEW q2, Joins(d, N, q, q2), Remain(fs, gs),
           Kept(d, kd, dc, q, fs), Finished(d, kd2, dc2, gs, s)
    PROVE  Kept(d, kd2, dc2, q2, gs)
<1>1. \A t \in Shapes :
         /\ kd[t] = "unknown" => t \in ToSet(q) \/ \E k \in DOMAIN fs : fs[k].shape = t
         /\ kd[t] \notin Pending => Finished(d, kd, dc, fs, t)
  BY KeptIs
<1>2. /\ kd2[s] \notin Pending
      /\ \A t \in Shapes : kd[t] \notin Pending => kd2[t] = kd[t]
      /\ \A t \in Shapes : kd[t] # "unmade" => kd2[t] # "unmade"
      /\ \A t \in Shapes :
          /\ kd2[t] \notin Pending => kd[t] \notin Pending \/ t = s \/ (t \in N /\ d.op[t] = "builtin")
          /\ kd2[t] = "unknown" => kd[t] = "unknown" \/ (t \in N /\ d.op[t] # "builtin")
  BY DEF Grows, Stays
<1>3. \A t \in Shapes : t # s =>
         \A k \in DOMAIN fs : fs[k].shape = t => \E j \in DOMAIN gs : gs[j] = fs[k]
  BY DEF Remain
<1>4. ASSUME NEW t \in Shapes, kd2[t] = "unknown"
      PROVE  t \in ToSet(q2) \/ \E k \in DOMAIN gs : gs[k].shape = t
  <2>1. t # s
    BY <1>2, <1>4 DEF Pending
  <2>2. CASE kd[t] = "unknown"
    BY <1>1, <1>3, <2>1, <2>2 DEF Joins
  <2>3. CASE t \in N /\ d.op[t] # "builtin"
    BY <2>3 DEF Joins
  <2> QED
    BY <1>2, <1>4, <2>2, <2>3
<1>5. ASSUME NEW t \in Shapes, kd2[t] \notin Pending
      PROVE  Finished(d, kd2, dc2, gs, t)
  <2>1. CASE t = s
    BY <2>1
  <2>2. CASE t \in N /\ d.op[t] = "builtin"
    BY <2>2, BuiltinRight
  <2>3. CASE t # s /\ kd[t] \notin Pending
    <3>1. Finished(d, kd, dc, fs, t) /\ kd2[t] = kd[t] /\ dc2[t] = dc[t]
      BY <1>1, <1>2, <2>3 DEF Elsewhere
    <3>2. \A x \in ToSet(d.nested[t]) : kd[x] # "unmade" => kd2[x] # "unmade"
      BY <1>2, ChildrenTyped
    <3>3. \A x \in ToSet(d.members[t]) : kd[x] \notin Pending => kd2[x] \notin Pending
      BY <1>2, ChildrenTyped
    <3>4. ASSUME NEW k \in DOMAIN fs, fs[k].shape = t, fs[k].at = "members"
          PROVE  \E j \in DOMAIN gs : gs[j].shape = t /\ gs[j].at = "members"
      BY <1>3, <2>3, <3>4
    <3> QED
      BY <3>1, <3>2, <3>3, <3>4 DEF Finished
  <2> QED
    BY <1>2, <1>5, <2>1, <2>2, <2>3
<1> QED
  BY <1>4, <1>5, KeptIs

\* No shape is resolved; one may be made for the top record.
LEMMA KeptMore ==
    ASSUME NEW d \in DocumentType, NEW kd, NEW kd2, Stays(kd, kd2), NEW fs, NEW gs, NEW dc, NEW q,
           \A t \in Shapes :
              /\ kd2[t] \notin Pending => kd[t] \notin Pending
              /\ kd2[t] = "unknown" => kd[t] = "unknown" \/ \E k \in DOMAIN gs : gs[k].shape = t,
           \A k \in DOMAIN fs : \E j \in DOMAIN gs :
              gs[j].shape = fs[k].shape /\ (fs[k].at = "members" => gs[j].at = "members"),
           Kept(d, kd, dc, q, fs)
    PROVE  Kept(d, kd2, dc, q, gs)
<1>1. \A t \in Shapes :
         /\ kd[t] = "unknown" => t \in ToSet(q) \/ \E k \in DOMAIN fs : fs[k].shape = t
         /\ kd[t] \notin Pending => Finished(d, kd, dc, fs, t)
  BY KeptIs
<1>2. \A t \in Shapes : /\ kd[t] \notin Pending => kd2[t] = kd[t]
                        /\ kd[t] # "unmade" => kd2[t] # "unmade"
  BY DEF Stays
<1>3. ASSUME NEW t \in Shapes, kd2[t] = "unknown"
      PROVE  t \in ToSet(q) \/ \E k \in DOMAIN gs : gs[k].shape = t
  BY <1>1, <1>3
<1>4. ASSUME NEW t \in Shapes, kd2[t] \notin Pending
      PROVE  Finished(d, kd2, dc, gs, t)
  <2>1. Finished(d, kd, dc, fs, t) /\ kd2[t] = kd[t]
    BY <1>1, <1>2, <1>4
  <2>2. \A x \in ToSet(d.nested[t]) : kd[x] # "unmade" => kd2[x] # "unmade"
    BY <1>2, ChildrenTyped
  <2>3. \A x \in ToSet(d.members[t]) : kd[x] \notin Pending => kd2[x] \notin Pending
    BY <1>2, ChildrenTyped
  <2> QED
    BY <2>1, <2>2, <2>3 DEF Finished
<1> QED
  BY <1>3, <1>4, KeptIs

\* The top record is done with the parts of its shape.
LEMMA KeptStored ==
    ASSUME NEW d \in DocumentType, NEW kd, NEW fs \in Seq(Record), fs # << >>, NEW gs, Popped(fs, gs),
           NEW dc, NEW q, NEW s, s = fs[Len(fs)].shape, kd[s] \notin Pending,
           \A t \in ToSet(d.members[s]) : kd[t] \notin Pending,
           Kept(d, kd, dc, q, fs)
    PROVE  Kept(d, kd, dc, q, gs)
<1>1. \A t \in Shapes :
         /\ kd[t] = "unknown" => t \in ToSet(q) \/ \E k \in DOMAIN fs : fs[k].shape = t
         /\ kd[t] \notin Pending => Finished(d, kd, dc, fs, t)
  BY KeptIs
<1>2. \A k \in DOMAIN fs : fs[k].shape # s => k \in DOMAIN gs /\ gs[k] = fs[k]
  <2>1. \A k \in DOMAIN fs : k # Len(fs) => k \in DOMAIN gs
    BY FramesTyped DEF Popped
  <2> QED
    BY <2>1 DEF Popped
<1>3. ASSUME NEW t \in Shapes, kd[t] = "unknown"
      PROVE  t \in ToSet(q) \/ \E k \in DOMAIN gs : gs[k].shape = t
  <2>1. t # s
    BY <1>3 DEF Pending
  <2> QED
    BY <1>1, <1>2, <1>3, <2>1
<1>4. ASSUME NEW t \in Shapes, kd[t] \notin Pending
      PROVE  Finished(d, kd, dc, gs, t)
  <2>1. Finished(d, kd, dc, fs, t)
    BY <1>1, <1>4
  <2>2. CASE t = s
    BY <2>1, <2>2 DEF Finished
  <2>3. CASE t # s
    <3>1. ASSUME NEW k \in DOMAIN fs, fs[k].shape = t /\ fs[k].at = "members"
          PROVE  \E j \in DOMAIN gs : gs[j].shape = t /\ gs[j].at = "members"
      BY <1>2, <2>3, <3>1
    <3> QED
      BY <2>1, <3>1 DEF Finished
  <2> QED
    BY <2>2, <2>3
<1> QED
  BY <1>3, <1>4, KeptIs

-----------------------------------------------------------------------------
(* A shape is made concrete once *)

LEMMA CalleeReferred ==
    ASSUME NEW d \in DocumentType, NEW kd, NEW f \in Record, Placed(d, kd, f), Waits(d, f)
    PROVE  Callee(d, f) \in RefersIn(d)[f.shape] /\ Callee(d, f) \in Shapes
<1>1. f.shape \in Shapes
  BY RecordTyped
<1>2. RefersIn(d)[f.shape] = NeedsIn(d, f.shape) \cup ToSet(d.members[f.shape])
      /\ RefersIn(d)[f.shape] \subseteq Shapes
  BY <1>1, RefersTyped
<1>3. CASE f.at = "referenced"
  <2>1. d.op[f.shape] \in {"reference", "include"} /\ d.to[f.shape] # None
    BY <1>3 DEF Placed
  <2> QED
    BY <1>2, <1>3, <2>1 DEF Callee, NeedsIn
<1>4. CASE f.at = "members" /\ f.next \in DOMAIN d.members[f.shape]
  <2>1. d.members[f.shape][f.next] \in ToSet(d.members[f.shape])
    BY <1>1, <1>4, ChildrenTyped, SeqTyped
  <2> QED
    BY <1>2, <1>4, <2>1 DEF Callee
<1> QED
  BY <1>3, <1>4 DEF Waits

\* Without recursive types the top record is of another shape than the others.
LEMMA TopOnce ==
    ASSUME NEW d \in DocumentType, ~RecursiveIn(d), NEW kd, NEW fs \in Seq(Record), fs # << >>, Linked(d, fs),
           \A k \in DOMAIN fs : Placed(d, kd, fs[k])
    PROVE  \A k \in DOMAIN fs : k # Len(fs) => fs[k].shape # fs[Len(fs)].shape
<1>1. SUFFICES ASSUME NEW k \in DOMAIN fs, k # Len(fs), fs[k].shape = fs[Len(fs)].shape
               PROVE  FALSE
  OBVIOUS
<1>2. /\ Len(fs) \in Nat /\ DOMAIN fs = 1..Len(fs) /\ Len(fs) \in DOMAIN fs
      /\ \A j \in DOMAIN fs : fs[j] \in Record /\ fs[j].shape \in Shapes
  BY FramesTyped, RecordTyped
<1> DEFINE L == Leads(d, fs[k].shape)
           T == {j \in Nat : j \in DOMAIN fs /\ k < j /\ fs[j].shape \notin L}
<1>3. \A j \in DOMAIN fs : j < Len(fs) => fs[j + 1].shape \in RefersIn(d)[fs[j].shape]
  BY <1>2, CalleeReferred DEF Linked
<1>4. RefersIn(d)[fs[k].shape] \subseteq L /\ \A t \in L : RefersIn(d)[t] \subseteq L
  BY <1>2, LeadsOn
<1> HIDE DEF L
<1>5. T = {}
  <2>1. SUFFICES ASSUME T # {} PROVE FALSE
    OBVIOUS
  <2>2. PICK j \in T : \A i \in T : ~(i < j)
    <3>1. T \subseteq Nat
      OBVIOUS
    <3> HIDE DEF T
    <3> QED
      BY <2>1, <3>1, Least
  <2>3. j \in DOMAIN fs /\ k < j /\ fs[j].shape \notin L /\ j \in Nat
    OBVIOUS
  <2>4. j - 1 \in DOMAIN fs /\ j - 1 < Len(fs) /\ j - 1 + 1 = j /\ j - 1 < j /\ j - 1 \in Nat
    BY <1>2, <2>3
  <2>5. fs[j].shape \in RefersIn(d)[fs[j - 1].shape]
    BY <1>3, <2>4
  <2>6. CASE j - 1 = k
    BY <1>4, <2>3, <2>5, <2>6
  <2>7. CASE j - 1 # k
    <3>1. k < j - 1
      BY <1>2, <2>3, <2>4, <2>7
    <3>2. fs[j - 1].shape \in L
      BY <2>2, <2>4, <3>1
    <3> QED
      BY <1>4, <2>3, <2>5, <3>2
  <2> QED
    BY <2>6, <2>7
<1>6. k < Len(fs)
  BY <1>1, <1>2
<1>7. fs[Len(fs)].shape \in L
  BY <1>2, <1>5, <1>6
<1> QED
  BY <1>1, <1>2, <1>7, LeadsOn DEF L

LEMMA SingleGrows ==
    ASSUME NEW d \in DocumentType, NEW kd, NEW kd2, NEW s, NEW N, Grows(d, kd, kd2, s, N), kd[s] = "unknown",
           NEW fs \in Seq(Record), fs # << >>, s = fs[Len(fs)].shape, NEW gs,
           \A k \in DOMAIN fs : Placed(d, kd, fs[k]),
           \A k \in DOMAIN fs : k # Len(fs) => fs[k].shape # s,
           Rests(d, fs, gs),
           NEW al, NEW al2, NEW ih, NEW ih2, Elsewhere(al, al2, s), Elsewhere(ih, ih2, s),
           NEW md, NEW md2, md2[s] = md[s] + 1, Elsewhere(md, md2, s),
           Single(d, kd, fs, al, ih, md)
    PROVE  Single(d, kd2, gs, al2, ih2, md2)
<1>1. /\ s \in Shapes /\ d.op[s] # "builtin" /\ kd2[s] \notin Pending
      /\ \A t \in Shapes : kd[t] \notin Pending => kd2[t] = kd[t]
      /\ \A t \in Shapes : kd[t] # "unmade" => kd2[t] # "unmade"
      /\ \A t \in Shapes :
            kd2[t] \notin Pending => kd[t] \notin Pending \/ t = s \/ (t \in N /\ d.op[t] = "builtin")
  BY DEF Grows, Stays
<1>2. /\ \A t \in Shapes : md[t] <= 1
      /\ \A t \in Shapes : kd[t] \in Pending \/ d.op[t] = "builtin"
            => md[t] = 0 /\ al[t] = None /\ ih[t] = << >>
      /\ \A k \in DOMAIN fs : Unfinished(d, fs[k]) => kd[fs[k].shape] = "unknown"
  BY DEF Single
<1>3. md[s] = 0
  BY <1>1, <1>2 DEF Pending
<1>4. \A t \in Shapes : md2[t] <= 1
  BY <1>2, <1>3 DEF Elsewhere
<1>5. \A t \in Shapes : kd2[t] \in Pending \/ d.op[t] = "builtin"
            => md2[t] = 0 /\ al2[t] = None /\ ih2[t] = << >>
  <2> TAKE t \in Shapes
  <2>1. HAVE kd2[t] \in Pending \/ d.op[t] = "builtin"
  <2>2. t # s
    BY <1>1, <2>1
  <2>3. kd[t] \in Pending \/ d.op[t] = "builtin"
    BY <1>1, <2>1
  <2> QED
    BY <1>2, <2>2, <2>3 DEF Elsewhere
<1>6. \A k \in DOMAIN gs : Unfinished(d, gs[k]) => kd2[gs[k].shape] = "unknown"
  <2> TAKE k \in DOMAIN gs
  <2>1. HAVE Unfinished(d, gs[k])
  <2>2. PICK j \in DOMAIN fs : j # Len(fs) /\ gs[k] = fs[j]
    BY <2>1 DEF Rests
  <2>3. kd[fs[j].shape] = "unknown" /\ fs[j].shape # s /\ d.op[fs[j].shape] # "builtin" /\ fs[j].shape \in Shapes
    BY <1>2, <2>1, <2>2, FramesTyped, RecordTyped DEF Placed
  <2>4. kd2[fs[j].shape] \in Pending /\ kd2[fs[j].shape] # "unmade"
    BY <1>1, <2>3 DEF Pending
  <2> QED
    BY <2>2, <2>4 DEF Pending
<1> QED
  BY <1>4, <1>5, <1>6 DEF Single

LEMMA SingleMore ==
    ASSUME NEW d, NEW kd, NEW kd2, Stays(kd, kd2), NEW fs, NEW gs,
           \A k \in DOMAIN gs : Unfinished(d, gs[k]) =>
               \/ kd2[gs[k].shape] = "unknown"
               \/ \E j \in DOMAIN fs : /\ gs[k].shape = fs[j].shape /\ Unfinished(d, fs[j])
                                       /\ kd2[fs[j].shape] = kd[fs[j].shape],
           NEW al, NEW ih, NEW md, Single(d, kd, fs, al, ih, md)
    PROVE  Single(d, kd2, gs, al, ih, md)
<1>1. \A t \in Shapes : kd2[t] \in Pending => kd[t] \in Pending
  BY DEF Stays
<1> QED
  BY <1>1 DEF Single

LEMMA ReferencesGrows ==
    ASSUME NEW d \in DocumentType, NEW kd, NEW kd2, NEW s, NEW N, Grows(d, kd, kd2, s, N),
           NEW al, NEW al2, NEW ih, NEW ih2, Elsewhere(al, al2, s), Elsewhere(ih, ih2, s),
           NEW fs, NEW md, Single(d, kd, fs, al, ih, md), References(d, kd, al, ih),
           al2[s] = IF d.op[s] = "reference" /\ ~d.facets[s] THEN d.to[s] ELSE None,
           ih2[s] = IF d.op[s] = "reference" /\ d.facets[s] THEN << d.to[s] >> ELSE << >>
    PROVE  References(d, kd2, al2, ih2)
<1>1. SUFFICES ASSUME NEW t \in Shapes, kd2[t] \notin Pending, t # s
               PROVE  /\ al2[t] = IF d.op[t] = "reference" /\ ~d.facets[t] THEN d.to[t] ELSE None
                      /\ ih2[t] = IF d.op[t] = "reference" /\ d.facets[t] THEN << d.to[t] >> ELSE << >>
  BY DEF References
<1>2. al2[t] = al[t] /\ ih2[t] = ih[t]
  BY <1>1 DEF Elsewhere
<1>3. CASE kd[t] \notin Pending
  BY <1>2, <1>3 DEF References
<1>4. CASE d.op[t] = "builtin"
  <2>1. al[t] = None /\ ih[t] = << >>
    BY <1>4 DEF Single
  <2> QED
    BY <1>2, <1>4, <2>1
<1> QED
  BY <1>1, <1>3, <1>4 DEF Grows
-----------------------------------------------------------------------------
(* The steps, as changes of the data they are about *)

LEMMA Idle ==
    ASSUME NEW d, NEW kd
    PROVE  Stays(kd, kd) /\ Hidden(d, kd, kd)
BY DEF Stays, Hidden

LEMMA IdleQueue ==
    ASSUME NEW d, NEW kd, NEW q \in Seq(Shapes), NEW fs, NEW r, Controlled(d, kd, q, fs, r)
    PROVE  Longer(d, kd, q, q)
BY DEF Controlled, Answered, Longer

LEMMA PoppedRecords ==
    ASSUME NEW fs \in Seq(Record), fs # << >>, NEW gs, Popped(fs, gs)
    PROVE  /\ \A k \in DOMAIN gs : k \in DOMAIN fs /\ gs[k] = fs[k] /\ k # Len(fs)
           /\ \A k \in DOMAIN fs : k # Len(fs) => k \in DOMAIN gs /\ gs[k] = fs[k]
<1>1. Len(fs) \in Nat /\ DOMAIN fs = 1..Len(fs)
  BY FramesTyped
<1>2. DOMAIN gs = 1..Len(fs) - 1 /\ \A k \in DOMAIN gs : gs[k] = fs[k]
  BY DEF Popped
<1> QED
  BY <1>1, <1>2

\* The top record returns an error.
LEMMA InvError ==
    ASSUME NEW d \in DocumentType, WellFormed(d), NEW kd, NEW al, NEW ih, NEW dc, NEW q \in Seq(Shapes),
           NEW fs \in Seq(Record), fs # << >>, NEW gs, Popped(fs, gs), NEW r, NEW fl, NEW md,
           Inv(d, kd, al, ih, dc, q, fs, r, fl, md), \E s \in OccurringIn(d) : WrongIn(d, s)
    PROVE  Inv(d, kd, al, ih, dc, q, gs, "error", fl, md)
<1>1. Controlled(d, kd, q, gs, "error")
  BY Idle, IdleQueue, ControlReturn DEF Inv
<1>2. Ahead(d, kd, gs, "error")
  BY Idle, NoneIsNothing, AheadReturn DEF Inv
<1>3. Untouched(d, kd, gs)
  <2>1. Follows(d, fs, gs) /\ Untouched(d, kd, fs)
    BY FollowsPopped DEF Inv
  <2> QED
    BY <2>1, UntouchedStays
<1>4. ~RecursiveIn(d) => Single(d, kd, gs, al, ih, md)
  <2>1. HAVE ~RecursiveIn(d)
  <2>2. Single(d, kd, fs, al, ih, md)
    BY <2>1 DEF Inv
  <2>3. \A k \in DOMAIN gs : Unfinished(d, gs[k]) => kd[gs[k].shape] = "unknown"
    BY <2>2, PoppedRecords DEF Single
  <2> QED
    BY <2>2, <2>3 DEF Single
<1> QED
  BY <1>1, <1>2, <1>3, <1>4 DEF Inv, Blamed

\* The top record is done with the parts of its shape.
LEMMA InvStored ==
    ASSUME NEW d \in DocumentType, WellFormed(d), NEW kd, NEW al, NEW ih, NEW dc, NEW q \in Seq(Shapes),
           NEW fs \in Seq(Record), fs # << >>, NEW gs, Popped(fs, gs), NEW r, r # "error", NEW fl, NEW md,
           Inv(d, kd, al, ih, dc, q, fs, r, fl, md), NEW s, s = fs[Len(fs)].shape, kd[s] \notin Pending,
           \A t \in ToSet(d.members[s]) : kd[t] \notin Pending
    PROVE  Inv(d, kd, al, ih, dc, q, gs, "ok", fl, md)
<1>1. Controlled(d, kd, q, gs, "ok")
  BY Idle, IdleQueue, ControlReturn DEF Inv
<1>2. Ahead(d, kd, gs, "ok")
  BY Idle, NoneIsNothing, AheadReturn DEF Inv
<1>3. Untouched(d, kd, gs)
  <2>1. Follows(d, fs, gs) /\ Untouched(d, kd, fs)
    BY FollowsPopped DEF Inv
  <2> QED
    BY <2>1, UntouchedStays
<1>4. ~RecursiveIn(d) => Single(d, kd, gs, al, ih, md)
  <2>1. HAVE ~RecursiveIn(d)
  <2>2. Single(d, kd, fs, al, ih, md)
    BY <2>1 DEF Inv
  <2>3. \A k \in DOMAIN gs : Unfinished(d, gs[k]) => kd[gs[k].shape] = "unknown"
    BY <2>2, PoppedRecords DEF Single
  <2> QED
    BY <2>2, <2>3 DEF Single
<1>5. ~fl => Kept(d, kd, dc, q, gs)
  BY KeptStored DEF Inv
<1> QED
  BY <1>1, <1>2, <1>3, <1>4, <1>5 DEF Inv, Blamed

\* The top record goes on, or gets the result of a call at once.
LEMMA InvGoto ==
    ASSUME NEW d \in DocumentType, WellFormed(d), NEW kd, NEW al, NEW ih, NEW dc, NEW q \in Seq(Shapes),
           NEW fs \in Seq(Record), fs # << >>, NEW f, NEW gs, Retopped(fs, gs, f), NEW r, r # "error",
           NEW r2 \in {"ok", None}, NEW fl, NEW md,
           Inv(d, kd, al, ih, dc, q, fs, r, fl, md),
           f.shape = fs[Len(fs)].shape, f.at # "start", Placed(d, kd, f),
           Unfinished(d, f) => Unfinished(d, fs[Len(fs)]),
           fs[Len(fs)].at = "members" => f.at = "members",
           r2 = None \/ (Waits(d, f) /\ kd[Callee(d, f)] \notin Pending),
           f.at = "members" /\ d.op[f.shape] \in Containers =>
              /\ \A i \in DOMAIN d.members[f.shape] : i >= f.next => kd[d.members[f.shape][i]] = "unmade"
              /\ \A j \in DOMAIN fs : j # Len(fs) /\ fs[j].at = "members" => fs[j].shape # f.shape
    PROVE  Inv(d, kd, al, ih, dc, q, gs, r2, fl, md)
<1>1. Controlled(d, kd, q, gs, r2)
  <2>1. Controlled(d, kd, q, fs, r)
    BY DEF Inv
  <2>2. Stays(kd, kd) /\ Longer(d, kd, q, q)
    BY <2>1, Idle, IdleQueue
  <2> QED
    BY <2>1, <2>2, ControlGoto
<1>2. Ahead(d, kd, gs, r2)
  <2>1. Ahead(d, kd, fs, r) /\ Hidden(d, kd, kd)
    BY Idle DEF Inv
  <2> QED
    BY <2>1, AheadGoto
<1>3. Untouched(d, kd, gs)
  <2>1. Follows(d, fs, gs) /\ Untouched(d, kd, fs)
    BY FollowsRetopped DEF Inv
  <2> QED
    BY <2>1, UntouchedStays
<1>4. /\ DOMAIN gs = DOMAIN fs /\ gs[Len(fs)] = f /\ Len(fs) \in DOMAIN fs
      /\ \A k \in DOMAIN fs : k # Len(fs) => gs[k] = fs[k]
  BY FramesTyped DEF Retopped
<1>5. ~RecursiveIn(d) => Single(d, kd, gs, al, ih, md)
  <2>1. HAVE ~RecursiveIn(d)
  <2>2. Single(d, kd, fs, al, ih, md)
    BY <2>1 DEF Inv
  <2>3. \A k \in DOMAIN gs : Unfinished(d, gs[k]) => kd[gs[k].shape] = "unknown"
    BY <1>4, <2>2 DEF Single
  <2> QED
    BY <2>2, <2>3 DEF Single
<1>6. ~fl => Kept(d, kd, dc, q, gs)
  <2>1. HAVE ~fl
  <2>2. Kept(d, kd, dc, q, fs)
    BY <2>1 DEF Inv
  <2>3. \A k \in DOMAIN fs : /\ k \in DOMAIN gs /\ gs[k].shape = fs[k].shape
                             /\ fs[k].at = "members" => gs[k].at = "members"
    BY <1>4
  <2> QED
    BY <2>2, <2>3, Idle, KeptMore
<1> QED
  BY <1>1, <1>2, <1>3, <1>5, <1>6, NoneIsNothing DEF Inv, Blamed

\* t is called.
LEMMA InvPush ==
    ASSUME NEW d \in DocumentType, WellFormed(d), NEW kd \in [Shapes -> Kinds \cup Pending],
           NEW al, NEW ih, NEW dc, NEW q \in Seq(Shapes),
           NEW fs \in Seq(Record), NEW t \in Shapes, NEW gs, Pushed(fs, gs, Started(t)), NEW fl, NEW md,
           Inv(d, kd, al, ih, dc, q, fs, None, fl, md),
           \A k \in DOMAIN fs : fs[k].at # "start",
           IF fs = << >> THEN q # << >> /\ t = Head(q)
           ELSE LET f == fs[Len(fs)]
                IN  /\ Waits(d, f) /\ t = Callee(d, f)
                    /\ f.at = "referenced" => d.to[f.shape] \in ToSet(d.declared),
           NEW kd2,
           \/ kd2 = kd /\ kd[t] = "unknown"
           \/ fs # << >> /\ fs[Len(fs)].at = "members" /\ Begun(d, kd, kd2, fs[Len(fs)].shape, t)
    PROVE  Inv(d, kd2, al, ih, dc, q, gs, None, fl, md)
<1> DEFINE f == fs[Len(fs)]
<1>1. /\ Controlled(d, kd, q, fs, None)
      /\ Made(d, kd) /\ Ahead(d, kd, fs, None) /\ Untouched(d, kd, fs)
      /\ Meant(d, kd) /\ Blamed(d, None, fl)
      /\ ~fl => Kept(d, kd, dc, q, fs)
      /\ ~RecursiveIn(d) => Single(d, kd, fs, al, ih, md) /\ (~fl => References(d, kd, al, ih))
  BY NoneIsNothing DEF Inv
<1>2. /\ Stays(kd, kd2) /\ kd2[t] = "unknown" /\ d.op[t] # "builtin" /\ kd[t] \in Pending
      /\ \A x \in Shapes : x # t => kd2[x] = kd[x]
      /\ Made(d, kd2) /\ Meant(d, kd2)
  <2>1. CASE kd2 = kd /\ kd[t] = "unknown"
    <3>1. d.op[t] # "builtin"
      <4>1. d.kind[t] # "unknown"
        BY DocTyped DEF Kinds
      <4> QED
        BY <1>1, <2>1, <4>1 DEF Made
    <3> QED
      BY <1>1, <2>1, <3>1, Idle DEF Pending
  <2>2. CASE Begun(d, kd, kd2, fs[Len(fs)].shape, t)
    <3>1. kd[t] \in Pending
      BY <2>2 DEF Begun, Pending
    <3> QED
      BY <1>1, <2>2, <3>1, BegunKeeps
  <2> QED
    BY <2>1, <2>2
<1>3. Controlled(d, kd2, q, gs, None)
  BY <1>1, <1>2, ControlPush
<1>4. /\ \A k \in DOMAIN fs : gs[k] = fs[k] /\ k \in DOMAIN gs /\ fs[k].shape \in Shapes
      /\ \A k \in DOMAIN gs : k = Len(fs) + 1 \/ k \in DOMAIN fs
      /\ gs[Len(fs) + 1] = Started(t) /\ Len(fs) + 1 \in DOMAIN gs /\ Started(t).shape = t
  <2>1. Len(fs) + 1 \in DOMAIN gs
    BY FramesTyped DEF Pushed
  <2> QED
    BY <2>1, FramesTyped, RecordTyped, StartedTyped DEF Pushed
<1>5. Ahead(d, kd2, gs, None)
  <2> SUFFICES Spared(d, kd, kd2, fs)
    BY <1>1, AheadPush
  <2>1. SUFFICES ASSUME NEW k \in DOMAIN fs, fs[k].at = "members", d.op[fs[k].shape] \in Containers,
                        NEW i \in DOMAIN d.members[fs[k].shape], i > fs[k].next,
                        kd[d.members[fs[k].shape][i]] = "unmade", kd2[d.members[fs[k].shape][i]] # "unmade"
                 PROVE  FALSE
    BY DEF Spared
  <2>2. d.members[fs[k].shape][i] = t /\ t \in ToSet(d.members[fs[k].shape])
    <3>1. /\ d.members[fs[k].shape][i] \in Shapes
          /\ d.members[fs[k].shape][i] \in ToSet(d.members[fs[k].shape])
      BY SMTT(30), <1>4, ChildrenTyped, SeqTyped
    <3> QED
      BY <1>2, <2>1, <3>1
  <2>3. fs # << >> /\ fs[Len(fs)].at = "members" /\ Begun(d, kd, kd2, f.shape, t)
    BY <2>1, <2>2
  <2>4. f.shape \in Shapes /\ t \in ToSet(d.members[f.shape])
    BY <2>3 DEF Begun
  <2>5. f.shape = fs[k].shape
    <3>1. fs[k].shape \in Shapes /\ t \in Below(d, fs[k].shape) /\ t \in Below(d, f.shape)
      BY <1>4, <2>2, <2>4, ChildrenTyped
    <3> QED
      BY <2>4, <3>1, OnePlace
  <2>6. k = Len(fs)
    BY <1>1, <2>1, <2>3, <2>5, FramesTyped DEF Ahead
  <2>7. f.next \in DOMAIN d.members[f.shape] /\ t = d.members[f.shape][f.next]
    BY <2>3 DEF Waits, Callee
  <2>8. i # f.next
    <3>1. f.next \in Nat
      BY <2>3, FramesTyped, RecordTyped
    <3> QED
      BY <2>1, <2>6, <3>1
  <2>9. \A x, y \in DOMAIN d.members[f.shape] : x # y => d.members[f.shape][x] # d.members[f.shape][y]
    BY <2>4 DEF WellFormed
  <2> QED
    BY <2>1, <2>2, <2>5, <2>7, <2>8, <2>9
<1>6. Untouched(d, kd2, gs)
  <2>1. \A k \in DOMAIN fs : kd[fs[k].shape] # "unmade"
    BY <1>1 DEF Controlled, Placed
  <2>2. \A x \in Shapes : kd[x] \in Pending => kd2[x] \in Pending
    BY <1>2 DEF Pending
  <2>3. \A k \in DOMAIN fs : Unfinished(d, fs[k]) => t \notin Inside(d, fs[k].shape)
    <3>1. CASE fs = << >>
      BY <3>1
    <3>2. CASE fs # << >>
      BY <1>1, <3>2, CalleeOutside
    <3> QED
      BY <3>1, <3>2
  <2> QED
    BY <1>1, <1>2, <2>1, <2>2, <2>3, UntouchedPush
<1>7. ~fl => Kept(d, kd2, dc, q, gs)
  <2>1. HAVE ~fl
  <2>2. \A x \in Shapes : /\ kd2[x] \notin Pending => kd[x] \notin Pending
                          /\ kd2[x] = "unknown" => kd[x] = "unknown" \/ \E k \in DOMAIN gs : gs[k].shape = x
    BY <1>2, <1>4 DEF Pending
  <2> QED
    BY <1>1, <1>2, <1>4, <2>1, <2>2, KeptMore
<1>8. ~RecursiveIn(d) => Single(d, kd2, gs, al, ih, md) /\ (~fl => References(d, kd2, al, ih))
  <2>1. HAVE ~RecursiveIn(d)
  <2>2. Single(d, kd, fs, al, ih, md)
    BY <1>1, <2>1
  <2>3. \A k \in DOMAIN gs : Unfinished(d, gs[k]) => kd2[gs[k].shape] = "unknown"
    <3>1. \A k \in DOMAIN fs : Unfinished(d, fs[k]) => kd2[fs[k].shape] = "unknown"
      BY <1>2, <1>4, <2>2 DEF Single
    <3> QED
      BY <1>2, <1>4, <3>1
  <2>4. Single(d, kd2, gs, al, ih, md)
    BY <1>2, <2>2, <2>3, SingleMore
  <2>5. ~fl => References(d, kd2, al, ih)
    BY <1>1, <1>2, <2>1 DEF References, Pending
  <2> QED
    BY <2>4, <2>5
<1> QED
  BY <1>1, <1>2, <1>3, <1>5, <1>6, <1>7, <1>8 DEF Inv
\* What is linked to s when it is made concrete.
LinksRight(d, al, ih, s) ==
    /\ al[s] = IF d.op[s] = "reference" /\ ~d.facets[s] THEN d.to[s] ELSE None
    /\ ih[s] = IF d.op[s] = "reference" /\ d.facets[s] THEN << d.to[s] >> ELSE << >>

\* s is made concrete, and N with it.
Concrete(d, kd, kd2, dc, dc2, q, q2, md, md2, s, N) ==
    /\ Grows(d, kd, kd2, s, N) /\ kd2[s] = MeaningIn(d)[s] /\ (N # {} => N \subseteq OccurringIn(d))
    /\ Longer(d, kd2, q, q2) /\ Joins(d, N, q, q2)
    /\ Elsewhere(dc, dc2, s)
    /\ Elsewhere(md, md2, s) /\ md2[s] = md[s] + 1

\* With an error only if s is wrong, and as a resolved shape has to be without.
Concluded(d, kd2, dc2, al, al2, ih, ih2, gs, s, r2) ==
    /\ Elsewhere(al, al2, s) /\ Elsewhere(ih, ih2, s)
    /\ r2 \in {"ok", "error"}
    /\ r2 = "error" => WrongIn(d, s)
    /\ r2 = "ok" => Finished(d, kd2, dc2, gs, s)
    /\ r2 = "ok" /\ al[s] = None /\ ih[s] = << >> => LinksRight(d, al2, ih2, s)

\* The shape of the top record is made concrete, and the record returns.
LEMMA InvMade ==
    ASSUME NEW d \in DocumentType, WellFormed(d), NEW kd, NEW al, NEW ih, NEW dc, NEW q \in Seq(Shapes),
           NEW fs \in Seq(Record), fs # << >>, NEW gs, Popped(fs, gs), NEW r, r # "error", NEW fl, NEW md,
           Inv(d, kd, al, ih, dc, q, fs, r, fl, md), NEW s, s = fs[Len(fs)].shape,
           Unfinished(d, fs[Len(fs)]),
           NEW kd2, NEW q2, NEW dc2, NEW md2, NEW N, Concrete(d, kd, kd2, dc, dc2, q, q2, md, md2, s, N),
           NEW al2, NEW ih2, NEW r2, Concluded(d, kd2, dc2, al, al2, ih, ih2, gs, s, r2)
    PROVE  Inv(d, kd2, al2, ih2, dc2, q2, gs, r2, fl, md2)
<1>a. /\ Grows(d, kd, kd2, s, N) /\ kd2[s] = MeaningIn(d)[s] /\ (N # {} => N \subseteq OccurringIn(d))
      /\ Longer(d, kd2, q, q2) /\ Joins(d, N, q, q2)
      /\ Elsewhere(dc, dc2, s)
      /\ Elsewhere(md, md2, s) /\ md2[s] = md[s] + 1
  BY DEF Concrete
<1>b. /\ Elsewhere(al, al2, s) /\ Elsewhere(ih, ih2, s)
      /\ r2 \in {"ok", "error"}
      /\ r2 = "error" => WrongIn(d, s)
      /\ r2 = "ok" => Finished(d, kd2, dc2, gs, s)
      /\ r2 = "ok" /\ al[s] = None /\ ih[s] = << >> => LinksRight(d, al2, ih2, s)
  BY DEF Concluded
<1>1. /\ Controlled(d, kd, q, fs, r)
      /\ Made(d, kd) /\ Ahead(d, kd, fs, r) /\ Untouched(d, kd, fs)
      /\ Meant(d, kd) /\ (fl => \E x \in OccurringIn(d) : WrongIn(d, x))
      /\ ~fl => Kept(d, kd, dc, q, fs)
      /\ ~RecursiveIn(d) => Single(d, kd, fs, al, ih, md) /\ (~fl => References(d, kd, al, ih))
  BY DEF Inv, Blamed
<1>2. /\ Stays(kd, kd2) /\ kd2[s] \notin Pending /\ s \in Shapes /\ kd[s] # "unmade"
      /\ \A t \in Shapes : kd2[t] \notin Pending =>
            kd[t] \notin Pending \/ t = s \/ (t \in N /\ d.op[t] = "builtin")
  BY <1>a DEF Grows
<1>3. Len(fs) \in DOMAIN fs
  BY FramesTyped
<1>4. Controlled(d, kd2, q2, gs, r2)
  BY <1>1, <1>2, <1>a, <1>b, ControlReturn
<1>5. Made(d, kd2)
  BY <1>1, <1>a, MadeGrows
<1>6. Ahead(d, kd2, gs, r2)
  <2>1. Hidden(d, kd, kd2) /\ r2 # None
    BY <1>a, <1>b, HiddenGrows, NoneIsNothing
  <2> QED
    BY <1>1, <2>1, AheadReturn
<1>7. Untouched(d, kd2, gs)
  <2>1. Follows(d, fs, gs)
    BY FollowsPopped
  <2>2. \A t \in Shapes :
           d.op[t] # "builtin" /\ kd[t] \in Pending /\ (\A j \in DOMAIN fs : fs[j].shape # t)
              => kd2[t] \in Pending
    BY <1>2, <1>3
  <2> QED
    BY <1>1, <2>1, <2>2, UntouchedStays
<1>8. Meant(d, kd2)
  BY <1>1, <1>a, MeantGrows
<1>9. Blamed(d, r2, fl)
  <2>1. s \in OccurringIn(d)
    BY <1>1, <1>2 DEF Meant
  <2> QED
    BY <1>1, <1>b, <2>1 DEF Blamed
<1>10. ~fl /\ r2 # "error" => Kept(d, kd2, dc2, q2, gs)
  <2>1. HAVE ~fl /\ r2 # "error"
  <2>2. Kept(d, kd, dc, q, fs) /\ Finished(d, kd2, dc2, gs, s)
    BY <1>1, <1>b, <2>1
  <2>3. Remain(fs, gs)
    BY PoppedRecords DEF Remain
  <2> QED
    BY <1>a, <2>2, <2>3, KeptGrows
<1>11. ASSUME ~RecursiveIn(d)
       PROVE  /\ Single(d, kd2, gs, al2, ih2, md2)
              /\ ~fl /\ r2 # "error" => References(d, kd2, al2, ih2)
  <2>1. Single(d, kd, fs, al, ih, md) /\ (~fl => References(d, kd, al, ih))
    BY <1>1, <1>11
  <2>2. kd[s] = "unknown" /\ al[s] = None /\ ih[s] = << >>
    <3>1. kd[s] = "unknown"
      BY <1>3, <2>1 DEF Single
    <3> QED
      BY <1>2, <2>1, <3>1 DEF Single, Pending
  <2>5. \A k \in DOMAIN fs : Placed(d, kd, fs[k])
    BY <1>1 DEF Controlled
  <2>6. \A k \in DOMAIN fs : k # Len(fs) => fs[k].shape # s
    BY <1>1, <1>11, <2>5, TopOnce DEF Controlled
  <2>7. Rests(d, fs, gs)
    BY PoppedRecords DEF Rests
  <2>8. Single(d, kd2, gs, al2, ih2, md2)
    BY <2>1, <2>2, <2>5, <2>6, <2>7, <1>a, <1>b, SingleGrows
  <2>9. ASSUME ~fl, r2 # "error"
        PROVE  References(d, kd2, al2, ih2)
    <3>1. LinksRight(d, al2, ih2, s)
      BY <1>b, <2>2, <2>9
    <3>2. References(d, kd, al, ih)
      BY <2>1, <2>9
    <3>3. /\ al2[s] = IF d.op[s] = "reference" /\ ~d.facets[s] THEN d.to[s] ELSE None
          /\ ih2[s] = IF d.op[s] = "reference" /\ d.facets[s] THEN << d.to[s] >> ELSE << >>
      BY <3>1 DEF LinksRight
    <3> QED
      BY <1>a, <1>b, <2>1, <3>2, <3>3, ReferencesGrows
  <2> QED
    BY <2>8, <2>9
<1> QED
  BY <1>4, <1>5, <1>6, <1>7, <1>8, <1>9, <1>10, <1>11 DEF Inv
\* The shape of the top record is made an array or a union, and its parts are next.
LEMMA InvEntered ==
    ASSUME NEW d \in DocumentType, WellFormed(d), NEW kd, NEW al, NEW ih, NEW dc, NEW q \in Seq(Shapes),
           NEW fs \in Seq(Record), fs # << >>, NEW f, NEW gs, Retopped(fs, gs, f), NEW fl, NEW md,
           Inv(d, kd, al, ih, dc, q, fs, None, fl, md), NEW s, s = fs[Len(fs)].shape,
           fs[Len(fs)].at = "start", d.op[s] \in Containers,
           f.shape = s, f.at = "members", f.next = 1,
           NEW kd2, NEW q2, NEW dc2, NEW md2, NEW N, Concrete(d, kd, kd2, dc, dc2, q, q2, md, md2, s, N),
           Finished(d, kd2, dc2, gs, s)
    PROVE  Inv(d, kd2, al, ih, dc2, q2, gs, None, fl, md2)
<1>a. /\ Grows(d, kd, kd2, s, N) /\ kd2[s] = MeaningIn(d)[s] /\ (N # {} => N \subseteq OccurringIn(d))
      /\ Longer(d, kd2, q, q2) /\ Joins(d, N, q, q2)
      /\ Elsewhere(dc, dc2, s)
      /\ Elsewhere(md, md2, s) /\ md2[s] = md[s] + 1
  BY DEF Concrete
<1>1. /\ Controlled(d, kd, q, fs, None)
      /\ Made(d, kd) /\ Ahead(d, kd, fs, None) /\ Untouched(d, kd, fs)
      /\ Meant(d, kd) /\ (fl => \E x \in OccurringIn(d) : WrongIn(d, x))
      /\ ~fl => Kept(d, kd, dc, q, fs)
      /\ ~RecursiveIn(d) => Single(d, kd, fs, al, ih, md) /\ (~fl => References(d, kd, al, ih))
  BY NoneIsNothing DEF Inv, Blamed
<1>2. /\ Stays(kd, kd2) /\ kd2[s] \notin Pending /\ s \in Shapes /\ kd[s] # "unmade"
      /\ d.op[s] # "builtin"
      /\ \A t \in Shapes : kd2[t] \notin Pending =>
            kd[t] \notin Pending \/ t = s \/ (t \in N /\ d.op[t] = "builtin")
  BY <1>a DEF Grows
<1>3. /\ Len(fs) \in DOMAIN fs /\ DOMAIN gs = DOMAIN fs /\ gs[Len(fs)] = f
      /\ \A k \in DOMAIN fs : k # Len(fs) => gs[k] = fs[k]
  BY FramesTyped DEF Retopped
<1>4. /\ d.op[s] # "list" /\ d.op[s] # "reference"
      /\ \A k \in DOMAIN fs : Placed(d, kd, fs[k])
      /\ kd[s] = "unknown"
  BY <1>1, <1>3 DEF Containers, Controlled, Placed
<1>5. d.members[s] \in Seq(Shapes) /\ ToSet(d.members[s]) \subseteq Shapes
  BY <1>2, ChildrenTyped, DocTyped, SeqTyped
<1>6. Placed(d, kd2, f)
  <2>1. Len(d.members[s]) \in Nat /\ \A i \in DOMAIN d.members[s] : i \in Nat /\ ~(i < 1)
    BY <1>5, SeqTyped
  <2>2. kd2[s] # "unmade"
    BY <1>2 DEF Pending
  <2> QED
    BY <1>2, <2>1, <2>2 DEF Placed, Resolved
<1>7. Controlled(d, kd2, q2, gs, None)
  <2>1. None \in {"ok", None} /\ f.at # "start"
    OBVIOUS
  <2> QED
    BY <1>1, <1>2, <1>6, <1>a, <2>1, ControlGoto
<1>8. Made(d, kd2)
  BY <1>1, <1>a, MadeGrows
<1>9. Ahead(d, kd2, gs, None)
  <2>1. Hidden(d, kd, kd2)
    BY <1>a, HiddenGrows
  <2>2. \A i \in DOMAIN d.members[s] : kd2[d.members[s][i]] = "unmade"
    <3> TAKE i \in DOMAIN d.members[s]
    <3>1. d.members[s][i] \in ToSet(d.members[s])
      BY <1>5, SeqTyped
    <3>2. kd[d.members[s][i]] = "unmade"
      BY <1>1, <1>2, <1>4, <3>1 DEF Made
    <3> QED
      BY <1>2, <2>1, <3>1, <3>2 DEF Hidden
  <2>3. \A j \in DOMAIN fs : j # Len(fs) /\ fs[j].at = "members" => fs[j].shape # s
    BY <1>4 DEF Placed, Resolved, Pending
  <2> QED
    BY <1>1, <2>1, <2>2, <2>3, AheadGoto
<1>10. Untouched(d, kd2, gs)
  <2>1. ~Unfinished(d, f)
    BY <1>4 DEF Unfinished
  <2>2. Follows(d, fs, gs)
    BY <2>1, FollowsRetopped
  <2>3. \A t \in Shapes :
           d.op[t] # "builtin" /\ kd[t] \in Pending /\ (\A j \in DOMAIN fs : fs[j].shape # t)
              => kd2[t] \in Pending
    BY <1>2, <1>3
  <2> QED
    BY <1>1, <2>2, <2>3, UntouchedStays
<1>11. Meant(d, kd2)
  BY <1>1, <1>a, MeantGrows
<1>12. ASSUME ~fl
       PROVE  Kept(d, kd2, dc2, q2, gs)
  <2>1. Kept(d, kd, dc, q, fs)
    BY <1>1, <1>12
  <2>2. Remain(fs, gs)
    BY <1>3 DEF Remain
  <2> QED
    BY <1>a, <2>1, <2>2, KeptGrows
<1>13. ASSUME ~RecursiveIn(d)
       PROVE  /\ Single(d, kd2, gs, al, ih, md2)
              /\ ~fl => References(d, kd2, al, ih)
  <2>1. Single(d, kd, fs, al, ih, md) /\ (~fl => References(d, kd, al, ih))
    BY <1>1, <1>13
  <2>2. al[s] = None /\ ih[s] = << >>
    BY <1>2, <1>4, <2>1 DEF Single, Pending
  <2>3. \A k \in DOMAIN fs : k # Len(fs) => fs[k].shape # s
    BY <1>1, <1>4, <1>13, TopOnce DEF Controlled
  <2>4. Rests(d, fs, gs)
    <3>1. ~Unfinished(d, f)
      BY <1>4 DEF Unfinished
    <3> QED
      BY <1>3, <3>1 DEF Rests
  <2>5. Elsewhere(al, al, s) /\ Elsewhere(ih, ih, s)
    BY DEF Elsewhere
  <2>6. Single(d, kd2, gs, al, ih, md2)
    BY <1>4, <2>1, <2>3, <2>4, <2>5, <1>a, SingleGrows
  <2>7. ASSUME ~fl
        PROVE  References(d, kd2, al, ih)
    <3>1. References(d, kd, al, ih)
      BY <2>1, <2>7
    <3>2. /\ al[s] = IF d.op[s] = "reference" /\ ~d.facets[s] THEN d.to[s] ELSE None
          /\ ih[s] = IF d.op[s] = "reference" /\ d.facets[s] THEN << d.to[s] >> ELSE << >>
      BY <1>4, <2>2
    <3> QED
      BY <1>a, <2>1, <2>5, <3>1, <3>2, ReferencesGrows
  <2> QED
    BY <2>6, <2>7
<1> QED
  BY <1>1, <1>7, <1>8, <1>9, <1>10, <1>11, <1>12, <1>13, NoneIsNothing DEF Inv, Blamed
LEMMA TailSet ==
    ASSUME NEW A, NEW s \in Seq(A), s # << >>
    PROVE  /\ Tail(s) \in Seq(A) /\ ToSet(Tail(s)) \subseteq ToSet(s)
           /\ ToSet(s) \subseteq {Head(s)} \cup ToSet(Tail(s))
<1>1. /\ Tail(s) \in Seq(A) /\ Len(s) \in Nat /\ DOMAIN s = 1..Len(s)
      /\ Len(Tail(s)) = Len(s) - 1 /\ DOMAIN Tail(s) = 1..(Len(s) - 1)
      /\ \A i \in 1..(Len(s) - 1) : Tail(s)[i] = s[i + 1]
  BY HeadTailProperties
<1>2. Head(s) = s[1]
  OBVIOUS
<1>3. ToSet(Tail(s)) \subseteq ToSet(s)
  <2>1. \A i \in DOMAIN Tail(s) : i + 1 \in DOMAIN s /\ Tail(s)[i] = s[i + 1]
    BY <1>1
  <2> QED
    BY <2>1 DEF ToSet
<1>4. \A x \in ToSet(s) : x = Head(s) \/ x \in ToSet(Tail(s))
  <2> TAKE x \in ToSet(s)
  <2>1. PICK i \in DOMAIN s : s[i] = x
    BY DEF ToSet
  <2>2. CASE i = 1
    BY <1>2, <2>1, <2>2
  <2>3. CASE i # 1
    <3>1. i - 1 \in DOMAIN Tail(s) /\ i - 1 + 1 = i
      BY <1>1, <2>3
    <3>2. Tail(s)[i - 1] = x
      BY <1>1, <2>1, <3>1
    <3> QED
      BY <3>1, <3>2 DEF ToSet
  <2> QED
    BY <2>2, <2>3
<1> QED
  BY <1>1, <1>3, <1>4

\* The loop skips a shape that is resolved.
LEMMA InvSkipped ==
    ASSUME NEW d \in DocumentType, WellFormed(d), NEW kd, NEW al, NEW ih, NEW dc, NEW q \in Seq(Shapes),
           q # << >>, NEW fl, NEW md, Inv(d, kd, al, ih, dc, q, << >>, None, fl, md),
           kd[Head(q)] # "unknown"
    PROVE  Inv(d, kd, al, ih, dc, q, << >>, "ok", fl, md)
<1>1. Head(q) \in ToSet(q)
  BY LongerTyped
<1>2. Controlled(d, kd, q, << >>, "ok")
  BY <1>1 DEF Inv, Controlled, Answered, Linked, Resolved, Pending
<1>3. Ahead(d, kd, << >>, "ok")
  BY DEF Ahead
<1> QED
  BY <1>2, <1>3, NoneIsNothing DEF Inv, Blamed

\* It collects the error, if there is one, and goes on to the next.
LEMMA InvRemoved ==
    ASSUME NEW d \in DocumentType, WellFormed(d), NEW kd, NEW al, NEW ih, NEW dc, NEW q \in Seq(Shapes),
           NEW fl, NEW md, NEW r \in {"ok", "error"}, Inv(d, kd, al, ih, dc, q, << >>, r, fl, md)
    PROVE  Inv(d, kd, al, ih, dc, Tail(q), << >>, None, fl \/ r = "error", md)
<1>1. /\ Controlled(d, kd, q, << >>, r) /\ q # << >> /\ Blamed(d, r, fl)
      /\ ~fl /\ r # "error" => Kept(d, kd, dc, q, << >>)
  BY NoneIsNothing DEF Inv, Controlled, Answered
<1>2. /\ ToSet(Tail(q)) \subseteq ToSet(q)
      /\ ToSet(q) \subseteq {Head(q)} \cup ToSet(Tail(q))
  BY <1>1, TailSet
<1>3. Controlled(d, kd, Tail(q), << >>, None)
  BY <1>1, <1>2, NoneIsNothing DEF Controlled, Answered, Linked
<1>4. Ahead(d, kd, << >>, None)
  BY DEF Ahead
<1>5. ASSUME ~fl, r # "error"
      PROVE  Kept(d, kd, dc, Tail(q), << >>)
  <2>1. Kept(d, kd, dc, q, << >>)
    BY <1>1, <1>5
  <2>2. kd[Head(q)] # "unknown"
    BY <1>1, <1>5 DEF Controlled, Answered, Resolved, Pending
  <2> QED
    BY <1>2, <2>1, <2>2 DEF Kept
<1>6. Blamed(d, None, fl \/ r = "error")
  BY <1>1, NoneIsNothing DEF Blamed
<1> QED
  BY <1>3, <1>4, <1>5, <1>6, NoneIsNothing DEF Inv
\* What is made with s when it is made a k; its facets have been decoded.
MadeWith(d, s, k) ==
    IF k \in {"object", "array"} /\ ~FailsIn(d, s, k) THEN Inside(d, s) ELSE {}

\* A shape that is made as its declaration says is as Kept wants it.
LEMMA FinishedNow ==
    ASSUME NEW d \in DocumentType, WellFormed(d), NEW kd, NEW kd2, NEW s,
           NEW N, N = MadeWith(d, s, kd2[s]) \/ d.op[s] = "group",
           Grows(d, kd, kd2, s, N), kd2[s] = MeaningIn(d)[s], ~WrongIn(d, s),
           NEW dc2, dc2[s] = d.facets[s] \/ d.op[s] = "group", NEW gs,
           d.op[s] \in Containers => \E k \in DOMAIN gs : gs[k].shape = s /\ gs[k].at = "members"
    PROVE  Finished(d, kd2, dc2, gs, s)
<1>1. s \in Shapes /\ \A t \in N : kd2[t] # "unmade"
  BY DEF Grows
<1>2. ASSUME d.op[s] \notin {"builtin", "group"}, kd2[s] \in {"object", "array"}
      PROVE  \A t \in ToSet(d.nested[s]) : kd2[t] # "unmade"
  <2>1. ~FailsIn(d, s, kd2[s])
    BY <1>2 DEF WrongIn
  <2>2. N = Inside(d, s)
    BY <1>2, <2>1 DEF MadeWith
  <2> QED
    BY <1>1, <2>2, InsideClosed
<1> QED
  BY <1>2 DEF Finished

-----------------------------------------------------------------------------
(* The actions *)

LEMMA Unprimed ==
    ASSUME IInv
    PROVE  /\ TypeOK /\ given \in DocumentType /\ WellFormed(given)
           /\ Inv(given, kind, alias, inherits, decoded, queue, frames, ret, failed, made)
           /\ Controlled(given, kind, queue, frames, ret)
           /\ Made(given, kind) /\ Untouched(given, kind, frames) /\ Meant(given, kind)
BY DEF IInv, Inv

\* The top record, and what can become of it.
LEMMA TopIs ==
    ASSUME TypeOK, frames # << >>
    PROVE  /\ frames \in Seq(Record) /\ Top = frames[Len(frames)] /\ Top \in Record
           /\ S = frames[Len(frames)].shape /\ S \in Shapes
           /\ Len(frames) \in DOMAIN frames
           /\ Callers \in Seq(Record) /\ Popped(frames, Callers)
           /\ \A f \in Record : Append(Callers, f) \in Seq(Record) /\ Retopped(frames, Append(Callers, f), f)
<1>1. frames \in Seq(Record) /\ Top = frames[Len(frames)] /\ S = Top.shape
  BY DEF TypeOK, Top, S
<1>2. Len(frames) \in DOMAIN frames /\ Top \in Record
  BY <1>1, FramesTyped
<1>3. S \in Shapes /\ S = frames[Len(frames)].shape
  BY <1>1, <1>2, RecordTyped
<1>4. Popped(frames, Callers) /\ Callers \in Seq(Record)
  BY <1>1, Pops DEF Callers, Popped
<1>5. \A f \in Record : Append(Callers, f) \in Seq(Record) /\ Retopped(frames, Append(Callers, f), f)
  BY <1>1, Retops DEF Callers, Retopped
<1> QED
  BY <1>1, <1>2, <1>3, <1>4, <1>5

LEMMA ConcatHead ==
    ASSUME NEW A, NEW s \in Seq(A), NEW t \in Seq(A), s # << >>
    PROVE  s \o t # << >> /\ Head(s \o t) = Head(s)
<1>1. Len(s) \in Nat /\ Len(s) # 0 /\ Len(t) \in Nat
  OBVIOUS
<1>2. /\ s \o t \in Seq(A) /\ Len(s \o t) = Len(s) + Len(t)
      /\ \A i \in 1..Len(s) + Len(t) :
            (s \o t)[i] = IF i <= Len(s) THEN s[i] ELSE t[i - Len(s)]
  BY ConcatProperties
<1>3. Len(s \o t) # 0 /\ (s \o t)[1] = s[1]
  BY <1>1, <1>2
<1> QED
  BY <1>2, <1>3

\* What Make does to the types, the queue and the rest.
LEMMA MakeIs ==
    ASSUME IInv, frames # << >>, Unfinished(given, Top),
           given.op[S] # "builtin", given.op[S] # "group",
           NEW k \in Kinds, k = MeaningIn(given)[S], Make(S, k),
           NEW N, N = MadeWith(given, S, k)
    PROVE  /\ Concrete(given, kind, kind', decoded, decoded', queue, queue', made, made', S, N)
           /\ Grows(given, kind, kind', S, N) /\ kind'[S] = k
           /\ queue' \in Seq(Shapes) /\ made' \in [Shapes -> Nat]
           /\ decoded' \in [Shapes -> BOOLEAN] /\ decoded'[S] = given.facets[S]
<1> DEFINE new == IF k \in {"object", "array"} /\ ~Fails(S, k)
                  THEN DecodedFrom(given.nested[S]) ELSE << >>
<1>1. /\ TypeOK /\ given \in DocumentType /\ WellFormed(given)
      /\ Controlled(given, kind, queue, frames, ret)
      /\ Made(given, kind) /\ Untouched(given, kind, frames) /\ Meant(given, kind)
  BY Unprimed
<1>2. S \in Shapes /\ Top = frames[Len(frames)] /\ S = Top.shape /\ Len(frames) \in DOMAIN frames
  BY <1>1, TopIs DEF S
<1>3. /\ kind' = [t \in Shapes |-> CASE t = S -> k
                                     [] t # S /\ t \in ToSet(new) -> FirstKind(t)
                                     [] OTHER -> kind[t]]
      /\ queue' = queue \o Unresolved(new)
      /\ decoded' = [decoded EXCEPT ![S] = given.facets[S]]
      /\ made' = [made EXCEPT ![S] = @ + 1]
  BY DEF Make
<1>4. new \in Seq(Shapes) /\ ToSet(new) = N
  <2>1. Fails(S, k) = FailsIn(given, S, k)
    BY OfGiven
  <2>2. given.nested[S] \in Seq(Shapes)
    BY <1>1, <1>2, ChildrenTyped
  <2>3. /\ DecodedFrom(given.nested[S]) \in Seq(Shapes)
        /\ ToSet(DecodedFrom(given.nested[S])) = Inside(given, S)
    BY <1>1, <2>2, DecodedFromSet DEF Inside, With
  <2>4. << >> \in Seq(Shapes) /\ ToSet(<< >>) = {}
    BY DEF ToSet
  <2> QED
    BY <2>1, <2>3, <2>4 DEF MadeWith
<1> HIDE DEF new
<1>5. New(given, S, N) /\ kind[S] # "unmade"
  <2>1. N \in {{}, Inside(given, S)}
    BY DEF MadeWith
  <2>2. kind[S] # "unmade"
    BY <1>1, <1>2 DEF Controlled, Placed
  <2> QED
    BY <1>1, <1>2, <2>1, <2>2, NewIs
<1>6. \A t \in N : given.op[t] # "builtin" => kind[t] \in Pending
  BY <1>1, <1>2 DEF Untouched, MadeWith
<1>7. kind' = Retyped(given, kind, S, k, N)
  BY <1>3, <1>4 DEF Retyped, FirstKind, FirstIn
<1>8. Grows(given, kind, kind', S, N) /\ kind'[S] = k
  <2>1. kind \in [Shapes -> Kinds \cup Pending]
    BY <1>1 DEF TypeOK
  <2> QED
    BY <1>1, <1>2, <1>5, <1>6, <1>7, <2>1, MakeGrows
<1>9. N # {} => N \subseteq OccurringIn(given)
  <2>1. HAVE N # {}
  <2>2. N = Inside(given, S) /\ k \in {"object", "array"}
    BY <2>1 DEF MadeWith
  <2>3. S \in OccurringIn(given)
    BY <1>1, <1>2, <1>5 DEF Meant
  <2> QED
    BY <1>1, <2>2, <2>3, OccurringInside
<1>10. /\ queue \in Seq(Shapes) /\ Unresolved(new) \in Seq(Shapes)
       /\ ToSet(Unresolved(new)) = {t \in N : given.op[t] # "builtin"}
  BY <1>1, <1>4, UnresolvedSet DEF TypeOK
<1>11. queue' \in Seq(Shapes) /\ ToSet(queue') = ToSet(queue) \cup ToSet(Unresolved(new))
  BY <1>3, <1>10, ConcatSet
<1>12. Longer(given, kind', queue, queue')
  <2>1. \A t \in ToSet(queue') : kind'[t] # "unmade"
    <3>1. \A t \in ToSet(queue) : kind[t] # "unmade" /\ t \in Shapes
      BY <1>1, <1>10, SeqTyped DEF Controlled, Answered
    <3> QED
      BY <1>8, <1>10, <1>11, <3>1 DEF Grows, Stays
  <2>2. queue # << >> => queue' # << >> /\ Head(queue') = Head(queue)
    BY <1>3, <1>10, ConcatHead
  <2> QED
    BY <1>11, <2>1, <2>2 DEF Longer
<1>13. Joins(given, N, queue, queue')
  BY <1>10, <1>11 DEF Joins
<1>14. /\ decoded' \in [Shapes -> BOOLEAN] /\ decoded'[S] = given.facets[S]
       /\ Elsewhere(decoded, decoded', S)
  BY <1>1, <1>2, <1>3, DocTyped DEF TypeOK, Elsewhere
<1>15. made' \in [Shapes -> Nat] /\ made'[S] = made[S] + 1 /\ Elsewhere(made, made', S)
  BY <1>1, <1>2, <1>3 DEF TypeOK, Elsewhere
<1> QED
  BY <1>8, <1>9, <1>11, <1>12, <1>13, <1>14, <1>15 DEF Concrete
\* The shape of the top record.
LEMMA TopOccurs ==
    ASSUME IInv, frames # << >>
    PROVE  /\ Placed(given, kind, Top) /\ Top.shape = S
           /\ S \in OccurringIn(given) /\ kind[S] # "unmade" /\ given.op[S] # "builtin"
<1>1. /\ TypeOK /\ Controlled(given, kind, queue, frames, ret) /\ Meant(given, kind)
  BY Unprimed
<1>2. S \in Shapes /\ Top = frames[Len(frames)] /\ S = Top.shape /\ Len(frames) \in DOMAIN frames
  BY <1>1, TopIs DEF S
<1>3. Placed(given, kind, Top)
  BY <1>1, <1>2 DEF Controlled
<1>4. kind[S] # "unmade" /\ given.op[S] # "builtin"
  BY <1>2, <1>3 DEF Placed
<1> QED
  BY <1>1, <1>2, <1>3, <1>4 DEF Meant

LEMMA RejectsKeeps ==
    ASSUME IInv, Rejects
    PROVE  IInv'
<1>1. frames # << >> /\ (given.op[S] = "syntax" \/ (given.op[S] = "reference" /\ given.to[S] \in {None, S}))
  BY DEF Rejects, Starts, At
<1>2. \E s \in OccurringIn(given) : WrongIn(given, s)
  BY <1>1, TopOccurs DEF WrongIn
<1>3. frames' = Callers /\ ret' = "error" /\ UNCHANGED << base, given, failed, crashed >>
  BY DEF Rejects, Returns, Unchanged
<1>4. /\ TypeOK /\ given \in DocumentType /\ WellFormed(given)
      /\ Inv(given, kind, alias, inherits, decoded, queue, frames, ret, failed, made)
      /\ queue \in Seq(Shapes)
  BY Unprimed DEF TypeOK
<1>5. frames \in Seq(Record) /\ Popped(frames, Callers) /\ Callers \in Seq(Record)
  BY <1>1, <1>4, TopIs
<1>6. Inv(given, kind, alias, inherits, decoded, queue, Callers, "error", failed, made)
  BY <1>1, <1>2, <1>4, <1>5, InvError
<1> QED
  BY <1>3, <1>4, <1>5, <1>6 DEF IInv, TypeOK, base

LEMMA PassErrorKeeps ==
    ASSUME IInv, PassError
    PROVE  IInv'
<1>1. /\ frames # << >> /\ ret = "error" /\ frames' = Callers
      /\ UNCHANGED << base, ret, given, failed, crashed >>
  BY DEF PassError, Unchanged
<1>2. /\ TypeOK /\ given \in DocumentType /\ WellFormed(given)
      /\ Inv(given, kind, alias, inherits, decoded, queue, frames, ret, failed, made)
      /\ queue \in Seq(Shapes)
  BY Unprimed DEF TypeOK
<1>3. \E s \in OccurringIn(given) : WrongIn(given, s)
  BY <1>1, <1>2 DEF Inv, Blamed
<1>4. frames \in Seq(Record) /\ Popped(frames, Callers) /\ Callers \in Seq(Record)
  BY <1>1, <1>2, TopIs
<1>5. Inv(given, kind, alias, inherits, decoded, queue, Callers, "error", failed, made)
  BY <1>1, <1>2, <1>3, <1>4, InvError
<1> QED
  BY <1>1, <1>2, <1>4, <1>5 DEF IInv, TypeOK, base

LEMMA CallNextKeeps ==
    ASSUME IInv, CallNext
    PROVE  IInv'
<1> DEFINE s == Head(queue)
<1>1. /\ frames = << >> /\ ret = None /\ queue # << >>
      /\ Resolve(<< >>, s) /\ UNCHANGED << base, given, failed, crashed >>
  BY DEF CallNext, Unchanged
<1>2. /\ TypeOK /\ given \in DocumentType /\ WellFormed(given)
      /\ Inv(given, kind, alias, inherits, decoded, queue, << >>, None, failed, made)
      /\ queue \in Seq(Shapes) /\ kind \in [Shapes -> Kinds \cup Pending]
  BY <1>1, Unprimed DEF TypeOK
<1>3. s \in Shapes
  BY <1>1, <1>2, LongerTyped
<1>4. CASE kind[s] # "unknown" /\ ret' = "ok" /\ frames' = << >>
  <2>1. Inv(given, kind, alias, inherits, decoded, queue, << >>, "ok", failed, made)
    BY <1>1, <1>2, <1>4, InvSkipped
  <2>2. << >> \in Seq(Record)
    OBVIOUS
  <2> QED
    BY <1>1, <1>2, <1>4, <2>1, <2>2 DEF IInv, TypeOK, base
<1>5. CASE /\ kind[s] = "unknown" /\ ret' = None
           /\ frames' = Append(<< >>, [shape |-> s, at |-> "start", next |-> 1])
  <2>1. frames' = Append(<< >>, Started(s)) /\ Started(s) \in Record /\ << >> \in Seq(Record)
    BY <1>3, <1>5, StartedTyped DEF Started
  <2> HIDE DEF s
  <2>2. Pushed(<< >>, frames', Started(s)) /\ frames' \in Seq(Record)
    BY <2>1, Pushes DEF Pushed
  <2>3. Inv(given, kind, alias, inherits, decoded, queue, frames', None, failed, made)
    <3>1. \A k \in DOMAIN << >> : << >>[k].at # "start"
      OBVIOUS
    <3>2. queue # << >> /\ s = Head(queue)
      BY <1>1 DEF s
    <3> QED
      BY <1>2, <1>3, <1>5, <2>1, <2>2, <3>1, <3>2, InvPush
  <2> QED
    BY <1>1, <1>2, <1>5, <2>2, <2>3 DEF IInv, TypeOK, base
<1> QED
  BY <1>1, <1>4, <1>5 DEF Resolve

LEMMA ShapeReturnsKeeps ==
    ASSUME IInv, ShapeReturns
    PROVE  IInv'
<1>1. /\ frames = << >> /\ ret # None /\ queue' = Tail(queue) /\ failed' = (failed \/ ret = "error")
      /\ ret' = None
      /\ UNCHANGED << given, kind, alias, inherits, anyOf, decoded, frames, crashed, made >>
  BY DEF ShapeReturns
<1>2. /\ TypeOK /\ given \in DocumentType /\ WellFormed(given)
      /\ Inv(given, kind, alias, inherits, decoded, queue, << >>, ret, failed, made)
      /\ queue \in Seq(Shapes) /\ ret \in {"ok", "error"}
  BY <1>1, Unprimed DEF TypeOK
<1>3. Inv(given, kind, alias, inherits, decoded, Tail(queue), << >>, None, failed \/ ret = "error", made)
  BY <1>2, InvRemoved
<1>4. Tail(queue) \in Seq(Shapes)
  <2>1. queue # << >>
    BY <1>1, Unprimed DEF Controlled, Answered
  <2> QED
    BY <1>2, <2>1, TailSet
<1>5. Inv(given, kind, alias, inherits, decoded, queue', << >>, None, failed', made)
  BY <1>1, <1>3
<1> QED
  BY <1>1, <1>2, <1>4, <1>5 DEF IInv, TypeOK
LEMMA VisitPrimitiveKeeps ==
    ASSUME IInv, VisitPrimitive
    PROVE  IInv' /\ Stays(kind, kind')
<1>1. /\ frames # << >> /\ Top.at = "start" /\ ret = None /\ given.op[S] = "group"
      /\ kind' = [kind EXCEPT ![S] = given.kind[S]] /\ made' = [made EXCEPT ![S] = @ + 1]
      /\ frames' = Callers /\ ret' = "ok"
      /\ UNCHANGED << alias, inherits, anyOf, decoded, queue, given, failed, crashed >>
  BY DEF VisitPrimitive, Starts, At, Returns, Unchanged
<1>2. /\ TypeOK /\ given \in DocumentType /\ WellFormed(given)
      /\ Inv(given, kind, alias, inherits, decoded, queue, frames, ret, failed, made)
      /\ Controlled(given, kind, queue, frames, ret) /\ Made(given, kind) /\ Meant(given, kind)
      /\ queue \in Seq(Shapes) /\ kind \in [Shapes -> Kinds \cup Pending]
  BY Unprimed DEF TypeOK
<1>3. /\ frames \in Seq(Record) /\ Popped(frames, Callers) /\ Callers \in Seq(Record)
      /\ S = frames[Len(frames)].shape /\ S \in Shapes /\ Top = frames[Len(frames)]
  BY <1>1, <1>2, TopIs
<1>4. kind[S] # "unmade"
  BY <1>1, TopOccurs
<1>5. given.kind[S] \in Kinds /\ given.kind[S] = MeaningIn(given)[S]
  <2>1. MeaningIn(given)[S] = given.kind[S]
    BY <1>1, <1>2, <1>3, MeaningAt DEF MeansBy
  <2> QED
    BY <1>2, <1>3, <2>1, DocTyped
<1>6. kind' = Retyped(given, kind, S, given.kind[S], {})
  BY <1>1, <1>2 DEF Retyped
<1>7. Grows(given, kind, kind', S, {}) /\ kind'[S] = given.kind[S]
  <2>1. New(given, S, {})
    BY DEF New
  <2> QED
    BY ZenonT(40), <1>1, <1>2, <1>3, <1>4, <1>5, <1>6, <2>1, MakeGrows
<1>8. Longer(given, kind', queue, queue) /\ Joins(given, {}, queue, queue)
  <2>1. \A t \in ToSet(queue) : t \in Shapes /\ kind[t] # "unmade"
    BY <1>2, SeqTyped DEF Controlled, Answered
  <2>2. \A t \in ToSet(queue) : kind'[t] # "unmade"
    BY <1>7, <2>1 DEF Grows, Stays
  <2> QED
    BY <1>2, <2>2 DEF Longer, Joins
<1>9. /\ Elsewhere(decoded, decoded, S) /\ Elsewhere(alias, alias, S) /\ Elsewhere(inherits, inherits, S)
      /\ Elsewhere(made, made', S) /\ made'[S] = made[S] + 1 /\ made' \in [Shapes -> Nat]
  BY <1>1, <1>2, <1>3 DEF TypeOK, Elsewhere
<1>10. ~WrongIn(given, S)
  BY <1>1 DEF WrongIn
<1>11. Finished(given, kind', decoded, Callers, S)
  <2>1. given.op[S] \notin Containers
    BY <1>1 DEF Containers
  <2> QED
    BY <1>1, <1>2, <1>5, <1>7, <1>10, <2>1, FinishedNow
<1>12. alias[S] = None /\ inherits[S] = << >> => LinksRight(given, alias, inherits, S)
  BY <1>1 DEF LinksRight
<1>13. Unfinished(given, frames[Len(frames)])
  BY <1>1, <1>3 DEF Unfinished
<1>14. Inv(given, kind', alias, inherits, decoded, queue, Callers, "ok", failed, made')
  <2>1. ret # "error"
    BY <1>1, NoneIsNothing
  <2>2. Concrete(given, kind, kind', decoded, decoded, queue, queue, made, made', S, {})
    BY <1>5, <1>7, <1>8, <1>9 DEF Concrete
  <2>3. Concluded(given, kind', decoded, alias, alias, inherits, inherits, Callers, S, "ok")
    BY <1>9, <1>11, <1>12 DEF Concluded
  <2> QED
    BY ZenonT(40), <1>1, <1>2, <1>3, <1>13, <2>1, <2>2, <2>3, InvMade
<1>15. kind' \in [Shapes -> Kinds \cup Pending] /\ Stays(kind, kind')
  BY <1>7 DEF Grows
<1> QED
  BY <1>1, <1>2, <1>3, <1>9, <1>14, <1>15 DEF IInv, TypeOK

LEMMA MakeReferencedKeeps ==
    ASSUME IInv, MakeReferenced
    PROVE  IInv' /\ Stays(kind, kind')
<1> DEFINE k  == kind[given.to[S]]
           ok == ~Fails(S, k)
           N  == MadeWith(given, S, k)
<1>1. /\ frames # << >> /\ Top.at = "referenced" /\ ret = "ok"
      /\ Make(S, k) /\ frames' = Callers /\ ret' = (IF ok THEN "ok" ELSE "error")
      /\ inherits' = IF ok /\ given.op[S] = "reference" /\ given.facets[S]
                     THEN [inherits EXCEPT ![S] = Append(@, given.to[S])] ELSE inherits
      /\ alias' = IF given.op[S] = "reference" /\ ~given.facets[S]
                  THEN [alias EXCEPT ![S] = given.to[S]] ELSE alias
      /\ UNCHANGED << anyOf, given, failed, crashed >>
  BY DEF MakeReferenced, At, Returns, Unchanged
<1>2. /\ TypeOK /\ given \in DocumentType /\ WellFormed(given)
      /\ Inv(given, kind, alias, inherits, decoded, queue, frames, ret, failed, made)
      /\ Controlled(given, kind, queue, frames, ret) /\ Meant(given, kind)
      /\ queue \in Seq(Shapes) /\ kind \in [Shapes -> Kinds \cup Pending]
      /\ alias \in [Shapes -> Shapes \cup {None}] /\ inherits \in [Shapes -> Seq(Shapes)]
  BY Unprimed DEF TypeOK
<1>3. /\ frames \in Seq(Record) /\ Popped(frames, Callers) /\ Callers \in Seq(Record)
      /\ S = frames[Len(frames)].shape /\ S \in Shapes /\ Top = frames[Len(frames)]
  BY <1>1, <1>2, TopIs
<1>4. given.op[S] \in {"reference", "include"} /\ given.to[S] \notin {None, S}
  BY <1>1, TopOccurs DEF Placed
<1>5. given.to[S] \in Shapes
  BY <1>2, <1>3, <1>4, DocTyped
<1>6. k \in Kinds /\ k = MeaningIn(given)[S]
  <2>1. k \notin Pending
    <3>1. Callee(given, Top) = given.to[S]
      BY <1>1, <1>3 DEF Callee
    <3> QED
      BY <1>1, <1>2, <1>3, <3>1 DEF Controlled, Answered, Resolved
  <2>2. k = MeaningIn(given)[given.to[S]]
    BY <1>2, <1>5, <2>1 DEF Meant
  <2>3. MeaningIn(given)[S] = MeaningIn(given)[given.to[S]]
    <3>1. SourceOf(given, S) = given.to[S]
      <4>1. given.op[S] # "list" /\ given.members[S] = << >>
        BY <1>2, <1>3, <1>4 DEF WellFormed, Containers
      <4> QED
        BY <4>1 DEF SourceOf
    <3>2. MeansBy(given, MeaningIn(given), S) = MeaningIn(given)[given.to[S]]
      BY <1>4, <3>1 DEF MeansBy
    <3> QED
      BY <1>2, <1>3, <3>2, MeaningAt
  <2> QED
    BY <1>2, <1>5, <2>1, <2>2, <2>3
<1>7. ok <=> ~FailsIn(given, S, k)
  BY OfGiven
<1> HIDE DEF k, ok, N
<1>8. given.op[S] # "builtin" /\ given.op[S] # "group" /\ given.op[S] \notin Containers
  BY <1>4 DEF Containers
<1>9. Unfinished(given, Top)
  BY <1>1 DEF Unfinished
<1>10. /\ Concrete(given, kind, kind', decoded, decoded', queue, queue', made, made', S, N)
       /\ Grows(given, kind, kind', S, N) /\ kind'[S] = k
       /\ queue' \in Seq(Shapes) /\ made' \in [Shapes -> Nat]
       /\ decoded' \in [Shapes -> BOOLEAN] /\ decoded'[S] = given.facets[S]
  <2>1. N = MadeWith(given, S, k)
    BY DEF N
  <2> QED
    BY <1>1, <1>6, <1>8, <1>9, <2>1, MakeIs
<1>11. /\ alias' \in [Shapes -> Shapes \cup {None}] /\ inherits' \in [Shapes -> Seq(Shapes)]
       /\ Elsewhere(alias, alias', S) /\ Elsewhere(inherits, inherits', S)
  BY <1>1, <1>2, <1>3, <1>5 DEF Elsewhere
<1>12. ret' = "error" => WrongIn(given, S)
  BY <1>1, <1>6, <1>7, <1>8 DEF WrongIn
<1>13. ret' = "ok" => Finished(given, kind', decoded', Callers, S)
  <2>1. HAVE ret' = "ok"
  <2>2. ~FailsIn(given, S, MeaningIn(given)[S])
    BY <1>1, <1>6, <1>7, <2>1
  <2>3. ~WrongIn(given, S)
    BY <1>4, <2>2 DEF WrongIn
  <2>4. N = MadeWith(given, S, kind'[S])
    BY <1>10 DEF N
  <2> QED
    BY <1>2, <1>6, <1>8, <1>10, <2>3, <2>4, FinishedNow
<1>14. ret' = "ok" /\ alias[S] = None /\ inherits[S] = << >> => LinksRight(given, alias', inherits', S)
  <2>1. HAVE ret' = "ok" /\ alias[S] = None /\ inherits[S] = << >>
  <2>2. ok
    BY <1>1, <2>1
  <2>3. alias'[S] = IF given.op[S] = "reference" /\ ~given.facets[S] THEN given.to[S] ELSE None
    BY <1>1, <1>2, <1>3, <2>1
  <2>4. inherits'[S] = IF given.op[S] = "reference" /\ given.facets[S] THEN << given.to[S] >> ELSE << >>
    <3>1. Append(<< >>, given.to[S]) = << given.to[S] >>
      BY <1>5
    <3> QED
      BY <1>1, <1>2, <1>3, <2>1, <2>2, <3>1
  <2> QED
    BY <2>3, <2>4 DEF LinksRight
<1>15. Concluded(given, kind', decoded', alias, alias', inherits, inherits', Callers, S, ret')
  BY <1>1, <1>11, <1>12, <1>13, <1>14 DEF Concluded
<1>16. Inv(given, kind', alias', inherits', decoded', queue', Callers, ret', failed, made')
  <2>1. ret # "error" /\ Unfinished(given, frames[Len(frames)]) /\ frames # << >>
    BY <1>1, <1>3, <1>9
  <2>2. Concrete(given, kind, kind', decoded, decoded', queue, queue', made, made', S, N)
    BY <1>10
  <2> QED
    BY ZenonT(40), <1>2, <1>3, <1>15, <2>1, <2>2, InvMade
<1>17. kind' \in [Shapes -> Kinds \cup Pending] /\ Stays(kind, kind')
  BY <1>10 DEF Grows
<1> QED
  BY <1>1, <1>2, <1>3, <1>10, <1>11, <1>16, <1>17 DEF IInv, TypeOK
\* All parts of a shape or types of a list are resolved when the last has been visited.
LEMMA MembersResolved ==
    ASSUME IInv, MembersDone
    PROVE  /\ frames # << >> /\ Top.at = "members" /\ ret = None /\ given.op[S] \in Containers \cup {"list"}
           /\ \A t \in ToSet(given.members[S]) : kind[t] \notin Pending
           /\ given.op[S] # "list" => kind[S] \notin Pending
<1>1. frames # << >> /\ Top.at = "members" /\ ret = None /\ Top.next > Len(given.members[S])
  BY DEF MembersDone, At
<1>2. TypeOK /\ given \in DocumentType
  BY Unprimed
<1>3. Top \in Record /\ S \in Shapes
  BY <1>1, <1>2, TopIs
<1>4. Placed(given, kind, Top) /\ Top.shape = S
  BY <1>1, TopOccurs
<1>5. given.members[S] \in Seq(Shapes)
  BY <1>2, <1>3, ChildrenTyped
<1>6. /\ \A i \in DOMAIN given.members[S] : i < Top.next
      /\ \A t \in ToSet(given.members[S]) : \E i \in DOMAIN given.members[S] : given.members[S][i] = t
  <2>1. Top.next \in Nat
    BY <1>3, RecordTyped
  <2> QED
    BY <1>1, <1>5, <2>1, SeqTyped
<1>7. /\ given.op[S] \in Containers \cup {"list"}
      /\ given.op[S] \in Containers => kind[S] \notin Pending
      /\ \A i \in DOMAIN given.members[S] : i < Top.next => kind[given.members[S][i]] \notin Pending
  BY <1>1, <1>4 DEF Placed, Resolved
<1>8. \A t \in ToSet(given.members[S]) : kind[t] \notin Pending
  BY <1>6, <1>7
<1> QED
  BY <1>1, <1>7, <1>8

LEMMA StoreMembersKeeps ==
    ASSUME IInv, StoreMembers
    PROVE  IInv'
<1>1. /\ MembersDone /\ given.op[S] # "list"
      /\ anyOf' = [anyOf EXCEPT ![S] = given.members[S]] /\ frames' = Callers /\ ret' = "ok"
      /\ UNCHANGED << kind, alias, inherits, decoded, queue, made, given, failed, crashed >>
  BY DEF StoreMembers, Returns, Unchanged
<1>2. /\ TypeOK /\ given \in DocumentType /\ WellFormed(given)
      /\ Inv(given, kind, alias, inherits, decoded, queue, frames, ret, failed, made)
      /\ queue \in Seq(Shapes) /\ anyOf \in [Shapes -> Seq(Shapes)]
  BY Unprimed DEF TypeOK
<1>3. /\ frames # << >> /\ ret = None /\ kind[S] \notin Pending
      /\ \A t \in ToSet(given.members[S]) : kind[t] \notin Pending
  BY <1>1, MembersResolved
<1>4. /\ frames \in Seq(Record) /\ Popped(frames, Callers) /\ Callers \in Seq(Record)
      /\ S = frames[Len(frames)].shape /\ S \in Shapes
  BY <1>2, <1>3, TopIs
<1>5. Inv(given, kind, alias, inherits, decoded, queue, Callers, "ok", failed, made)
  <2>1. ret # "error"
    BY <1>3, NoneIsNothing
  <2> QED
    BY <1>2, <1>3, <1>4, <2>1, InvStored
<1>6. anyOf' \in [Shapes -> Seq(Shapes)]
  <2>1. given.members[S] \in Seq(Shapes)
    BY <1>2, <1>4, ChildrenTyped
  <2> QED
    BY <1>1, <1>2, <2>1
<1> QED
  BY <1>1, <1>2, <1>4, <1>5, <1>6 DEF IInv, TypeOK

LEMMA MakeListedKeeps ==
    ASSUME IInv, MakeListed
    PROVE  IInv' /\ Stays(kind, kind')
<1> DEFINE k == kind[given.members[S][1]]
           N == MadeWith(given, S, k)
<1>1. /\ MembersDone /\ given.op[S] = "list" /\ given.members[S] # << >>
      /\ Make(S, k) /\ frames' = Callers /\ ret' = (IF Fails(S, k) THEN "error" ELSE "ok")
      /\ UNCHANGED << alias, inherits, anyOf, given, failed, crashed >>
  BY DEF MakeListed, Returns, Unchanged
<1>2. /\ TypeOK /\ given \in DocumentType /\ WellFormed(given)
      /\ Inv(given, kind, alias, inherits, decoded, queue, frames, ret, failed, made)
      /\ Meant(given, kind)
      /\ queue \in Seq(Shapes) /\ kind \in [Shapes -> Kinds \cup Pending]
  BY Unprimed DEF TypeOK
<1>3. /\ frames # << >> /\ ret = None
      /\ \A t \in ToSet(given.members[S]) : kind[t] \notin Pending
  BY <1>1, MembersResolved
<1>4. /\ frames \in Seq(Record) /\ Popped(frames, Callers) /\ Callers \in Seq(Record)
      /\ S = frames[Len(frames)].shape /\ S \in Shapes /\ Top = frames[Len(frames)] /\ Top.shape = S
  BY <1>2, <1>3, TopIs DEF S
<1>5. given.members[S][1] \in ToSet(given.members[S]) /\ given.members[S][1] \in Shapes
  <2>1. given.members[S] \in Seq(Shapes)
    BY <1>2, <1>4, ChildrenTyped
  <2> QED
    BY <1>1, <2>1, SeqTyped
<1>6. k \in Kinds /\ k = MeaningIn(given)[S]
  <2>1. k \notin Pending
    BY <1>3, <1>5
  <2>2. k = MeaningIn(given)[given.members[S][1]]
    BY <1>2, <1>5, <2>1 DEF Meant
  <2>3. MeaningIn(given)[S] = MeaningIn(given)[given.members[S][1]]
    <3>1. SourceOf(given, S) = given.members[S][1] /\ given.members[S][1] # None
      BY <1>1, <1>5, NoneIsNothing DEF SourceOf
    <3>2. MeansBy(given, MeaningIn(given), S) = MeaningIn(given)[given.members[S][1]]
      BY <1>1, <3>1 DEF MeansBy
    <3> QED
      BY <1>2, <1>4, <3>2, MeaningAt
  <2> QED
    BY <1>2, <1>5, <2>1, <2>2, <2>3
<1>7. Fails(S, k) <=> FailsIn(given, S, k)
  BY OfGiven
<1> HIDE DEF k, N
<1>8. given.op[S] # "builtin" /\ given.op[S] # "group" /\ given.op[S] \notin Containers
  BY <1>1 DEF Containers
<1>9. Unfinished(given, Top)
  BY <1>1, <1>4 DEF Unfinished
<1>10. /\ Concrete(given, kind, kind', decoded, decoded', queue, queue', made, made', S, N)
       /\ Grows(given, kind, kind', S, N) /\ kind'[S] = k
       /\ queue' \in Seq(Shapes) /\ made' \in [Shapes -> Nat]
       /\ decoded' \in [Shapes -> BOOLEAN] /\ decoded'[S] = given.facets[S]
  <2>1. N = MadeWith(given, S, k)
    BY DEF N
  <2> QED
    BY <1>1, <1>3, <1>6, <1>8, <1>9, <2>1, MakeIs
<1>11. ret' = "error" => WrongIn(given, S)
  BY <1>1, <1>6, <1>7, <1>8 DEF WrongIn
<1>12. ret' = "ok" => Finished(given, kind', decoded', Callers, S)
  <2>1. HAVE ret' = "ok"
  <2>2. ~FailsIn(given, S, MeaningIn(given)[S])
    BY <1>1, <1>6, <1>7, <2>1
  <2>3. ~WrongIn(given, S)
    BY <1>1, <2>2 DEF WrongIn
  <2>4. N = MadeWith(given, S, kind'[S])
    BY <1>10 DEF N
  <2> QED
    BY <1>2, <1>6, <1>8, <1>10, <2>3, <2>4, FinishedNow
<1>13. Concluded(given, kind', decoded', alias, alias, inherits, inherits, Callers, S, ret')
  <2>1. alias[S] = None /\ inherits[S] = << >> => LinksRight(given, alias, inherits, S)
    BY <1>1 DEF LinksRight
  <2>2. Elsewhere(alias, alias, S) /\ Elsewhere(inherits, inherits, S)
    BY DEF Elsewhere
  <2>3. ret' \in {"ok", "error"}
    BY <1>1
  <2> QED
    BY <1>11, <1>12, <2>1, <2>2, <2>3 DEF Concluded
<1>14. Inv(given, kind', alias, inherits, decoded', queue', Callers, ret', failed, made')
  <2>1. ret # "error" /\ Unfinished(given, frames[Len(frames)]) /\ frames # << >>
    BY <1>3, <1>4, <1>9, NoneIsNothing
  <2>2. Concrete(given, kind, kind', decoded, decoded', queue, queue', made, made', S, N)
    BY <1>10
  <2> QED
    BY <1>2, <1>4, <1>13, <2>1, <2>2, InvMade
<1>15. kind' \in [Shapes -> Kinds \cup Pending] /\ Stays(kind, kind') /\ ret' \in {"ok", "error"}
  BY <1>1, <1>10 DEF Grows
<1> QED
  BY <1>1, <1>2, <1>4, <1>10, <1>14, <1>15 DEF IInv, TypeOK

LEMMA MakeContainerKeeps ==
    ASSUME IInv, MakeContainer
    PROVE  IInv' /\ Stays(kind, kind')
<1> DEFINE k == IF given.op[S] = "array" THEN "array" ELSE "union"
           N == MadeWith(given, S, k)
           f == [Top EXCEPT !.at = "members"]
<1>1. /\ frames # << >> /\ Top.at = "start" /\ ret = None /\ given.op[S] \in {"array", "optional", "union"}
      /\ Make(S, k)
      /\ IF Fails(S, k) THEN frames' = Callers /\ ret' = "error"
                        ELSE frames' = Append(Callers, f) /\ ret' = ret
      /\ UNCHANGED << alias, inherits, anyOf, given, failed, crashed >>
  BY DEF MakeContainer, Starts, At, Returns, Goto, Unchanged
<1>2. /\ TypeOK /\ given \in DocumentType /\ WellFormed(given)
      /\ Inv(given, kind, alias, inherits, decoded, queue, frames, None, failed, made)
      /\ queue \in Seq(Shapes) /\ kind \in [Shapes -> Kinds \cup Pending]
  BY <1>1, Unprimed DEF TypeOK
<1>3. /\ frames \in Seq(Record) /\ Popped(frames, Callers) /\ Callers \in Seq(Record)
      /\ S = frames[Len(frames)].shape /\ S \in Shapes /\ Top = frames[Len(frames)] /\ Top.shape = S
      /\ Top \in Record
      /\ \A g \in Record : Append(Callers, g) \in Seq(Record) /\ Retopped(frames, Append(Callers, g), g)
  BY <1>1, <1>2, TopIs DEF S
<1>4. k \in Kinds /\ k = MeaningIn(given)[S]
  <2>1. MeansBy(given, MeaningIn(given), S) = k
    BY <1>1 DEF MeansBy
  <2> QED
    BY <1>2, <1>3, <2>1, MeaningAt, KindsSay
<1>5. Fails(S, k) <=> FailsIn(given, S, k)
  BY OfGiven
<1> HIDE DEF k, N
<1>6. /\ given.op[S] # "builtin" /\ given.op[S] # "group" /\ given.op[S] \in Containers
      /\ given.op[S] # "reference" /\ given.op[S] # "syntax"
  BY <1>1 DEF Containers
<1>7. Unfinished(given, Top)
  BY <1>1 DEF Unfinished
<1>8. /\ Concrete(given, kind, kind', decoded, decoded', queue, queue', made, made', S, N)
      /\ Grows(given, kind, kind', S, N) /\ kind'[S] = k
      /\ queue' \in Seq(Shapes) /\ made' \in [Shapes -> Nat]
      /\ decoded' \in [Shapes -> BOOLEAN] /\ decoded'[S] = given.facets[S]
  <2>1. N = MadeWith(given, S, k)
    BY DEF N
  <2> QED
    BY <1>1, <1>4, <1>6, <1>7, <2>1, MakeIs
<1>9. kind' \in [Shapes -> Kinds \cup Pending] /\ Stays(kind, kind')
  BY <1>8 DEF Grows
<1>10. CASE Fails(S, k)
  <2>1. Concluded(given, kind', decoded', alias, alias, inherits, inherits, Callers, S, "error")
    <3>1. WrongIn(given, S)
      BY <1>4, <1>5, <1>6, <1>10 DEF WrongIn
    <3>2. Elsewhere(alias, alias, S) /\ Elsewhere(inherits, inherits, S)
      BY DEF Elsewhere
    <3> QED
      BY <3>1, <3>2 DEF Concluded
  <2>2. None # "error" /\ Unfinished(given, frames[Len(frames)]) /\ frames # << >>
    BY <1>1, <1>3, <1>7, NoneIsNothing
  <2>3. Concrete(given, kind, kind', decoded, decoded', queue, queue', made, made', S, N)
    BY <1>8
  <2>4. Inv(given, kind', alias, inherits, decoded', queue', Callers, "error", failed, made')
    BY <1>2, <1>3, <2>1, <2>2, <2>3, InvMade
  <2>5. frames' = Callers /\ ret' = "error"
    BY <1>1, <1>10
  <2> QED
    BY <1>1, <1>2, <1>3, <1>8, <1>9, <2>4, <2>5 DEF IInv, TypeOK
<1>11. CASE ~Fails(S, k)
  <2>1. f \in Record /\ f.shape = S /\ f.at = "members" /\ f.next = 1
    <3>1. Top.next = 1
      BY <1>1, TopOccurs DEF Placed
    <3> QED
      BY <1>3, <3>1, RecordMoved
  <2>2. frames' = Append(Callers, f) /\ ret' = None
    BY <1>1, <1>11
  <2> HIDE DEF f
  <2>3. Retopped(frames, frames', f) /\ frames' \in Seq(Record)
    BY <1>3, <2>1, <2>2
  <2>4. Finished(given, kind', decoded', frames', S)
    <3>1. ~WrongIn(given, S)
      BY <1>4, <1>5, <1>6, <1>11 DEF WrongIn
    <3>2. N = MadeWith(given, S, kind'[S])
      BY <1>8 DEF N
    <3>3. Len(frames) \in DOMAIN frames' /\ frames'[Len(frames)] = f
      BY <1>1, <1>3, <2>3, FramesTyped DEF Retopped
    <3>4. \E j \in DOMAIN frames' : frames'[j].shape = S /\ frames'[j].at = "members"
      BY <2>1, <3>3
    <3>5. kind'[S] = MeaningIn(given)[S]
      BY <1>4, <1>8
    <3> QED
      BY <1>2, <1>8, <3>1, <3>2, <3>4, <3>5, FinishedNow
  <2>5. Inv(given, kind', alias, inherits, decoded', queue', frames', None, failed, made')
    <3>1. frames # << >> /\ frames[Len(frames)].at = "start"
      BY <1>1, <1>3
    <3>2. Concrete(given, kind, kind', decoded, decoded', queue, queue', made, made', S, N)
      BY <1>8
    <3> QED
      BY <1>2, <1>3, <1>6, <2>1, <2>3, <2>4, <3>1, <3>2, InvEntered
  <2> QED
    BY <1>1, <1>2, <1>8, <1>9, <2>2, <2>3, <2>5 DEF IInv, TypeOK
<1> QED
  BY <1>10, <1>11
LEMMA EnterListKeeps ==
    ASSUME IInv, EnterList
    PROVE  IInv'
<1> DEFINE f == [Top EXCEPT !.at = "members"]
<1>1. /\ frames # << >> /\ Top.at = "start" /\ ret = None /\ given.op[S] = "list"
      /\ frames' = Append(Callers, f)
      /\ UNCHANGED << base, ret, given, failed, crashed >>
  BY DEF EnterList, Starts, At, Goto, Unchanged
<1>2. /\ TypeOK /\ given \in DocumentType /\ WellFormed(given)
      /\ Inv(given, kind, alias, inherits, decoded, queue, frames, ret, failed, made)
      /\ queue \in Seq(Shapes)
  BY Unprimed DEF TypeOK
<1>3. /\ frames \in Seq(Record) /\ S = frames[Len(frames)].shape /\ S \in Shapes
      /\ Top = frames[Len(frames)] /\ Top.shape = S /\ Top \in Record
      /\ \A g \in Record : Append(Callers, g) \in Seq(Record) /\ Retopped(frames, Append(Callers, g), g)
  BY <1>1, <1>2, TopIs DEF S
<1>4. Placed(given, kind, Top)
  BY <1>1, TopOccurs
<1>5. f \in Record /\ f.shape = S /\ f.at = "members" /\ f.next = 1
  <2>1. Top.next = 1
    BY <1>1, <1>4 DEF Placed
  <2> QED
    BY <1>3, <2>1, RecordMoved
<1> HIDE DEF f
<1>6. Retopped(frames, frames', f) /\ frames' \in Seq(Record)
  BY <1>1, <1>3, <1>5
<1>7. given.op[S] \notin Containers
  BY <1>1 DEF Containers
<1>8. Placed(given, kind, f)
  <2>1. Len(given.members[S]) \in Nat /\ \A i \in DOMAIN given.members[S] : i \in Nat /\ ~(i < 1)
    <3>1. given.members[S] \in Seq(Shapes)
      BY <1>2, <1>3, ChildrenTyped
    <3>2. Len(given.members[S]) \in Nat /\ DOMAIN given.members[S] = 1..Len(given.members[S])
      BY <3>1, SeqTyped
    <3> QED
      BY <3>2
  <2> QED
    BY <1>1, <1>3, <1>4, <1>5, <1>7, <2>1 DEF Placed
<1>9. Inv(given, kind, alias, inherits, decoded, queue, frames', None, failed, made)
  <2>1. /\ frames # << >> /\ ret # "error" /\ None \in {"ok", None} /\ f.at # "start"
        /\ f.shape = frames[Len(frames)].shape
        /\ Unfinished(given, f) => Unfinished(given, frames[Len(frames)])
        /\ frames[Len(frames)].at = "members" => f.at = "members"
    BY <1>1, <1>3, <1>5, NoneIsNothing DEF Unfinished
  <2>2. f.at = "members" /\ given.op[f.shape] \in Containers => FALSE
    BY <1>5, <1>7
  <2> QED
    BY <1>2, <1>3, <1>5, <1>6, <1>8, <2>1, <2>2, InvGoto
<1> QED
  BY <1>1, <1>2, <1>6, <1>9 DEF IInv, TypeOK, base

LEMMA MemberReturnsKeeps ==
    ASSUME IInv, MemberReturns
    PROVE  IInv'
<1> DEFINE f == [Top EXCEPT !.next = @ + 1]
<1>1. /\ frames # << >> /\ Top.at = "members" /\ ret = "ok"
      /\ frames' = Append(Callers, f) /\ ret' = None
      /\ UNCHANGED << base, given, failed, crashed >>
  BY DEF MemberReturns, At, Unchanged
<1>2. /\ TypeOK /\ given \in DocumentType /\ WellFormed(given)
      /\ Inv(given, kind, alias, inherits, decoded, queue, frames, ret, failed, made)
      /\ Controlled(given, kind, queue, frames, ret) /\ Ahead(given, kind, frames, ret)
      /\ queue \in Seq(Shapes)
  BY Unprimed DEF TypeOK, Inv
<1>3. /\ frames \in Seq(Record) /\ S = frames[Len(frames)].shape /\ S \in Shapes
      /\ Top = frames[Len(frames)] /\ Top.shape = S /\ Top \in Record /\ Len(frames) \in DOMAIN frames
      /\ \A g \in Record : Append(Callers, g) \in Seq(Record) /\ Retopped(frames, Append(Callers, g), g)
  BY <1>1, <1>2, TopIs DEF S
<1>4. Placed(given, kind, Top)
  BY <1>1, TopOccurs
<1>5. f \in Record /\ f.shape = S /\ f.at = "members" /\ f.next = Top.next + 1 /\ Top.next \in Nat
  BY ZenonT(40), <1>1, <1>3, RecordMoved, RecordTyped
<1> HIDE DEF f
<1>6. Retopped(frames, frames', f) /\ frames' \in Seq(Record)
  BY <1>1, <1>3, <1>5
<1>7. /\ Top.next \in DOMAIN given.members[S]
      /\ Resolved(kind, given.members[S][Top.next])
  <2>1. Waits(given, Top) /\ Resolved(kind, Callee(given, Top))
    BY <1>1, <1>2, <1>3, NoneIsNothing DEF Controlled, Answered
  <2> QED
    BY <1>1, <1>3, <2>1 DEF Waits, Callee
<1>8. /\ Len(given.members[S]) \in Nat /\ DOMAIN given.members[S] = 1..Len(given.members[S])
  BY <1>2, <1>3, ChildrenTyped, SeqTyped
<1>9. Placed(given, kind, f)
  <2>1. Top.next + 1 <= Len(given.members[S]) + 1
    BY <1>5, <1>7, <1>8
  <2>2. \A i \in DOMAIN given.members[S] : i < Top.next + 1 => i < Top.next \/ i = Top.next
    BY <1>5, <1>8
  <2> QED
    BY <1>1, <1>3, <1>4, <1>5, <1>7, <2>1, <2>2 DEF Placed
<1>10. f.at = "members" /\ given.op[f.shape] \in Containers =>
          /\ \A i \in DOMAIN given.members[f.shape] : i >= f.next => kind[given.members[f.shape][i]] = "unmade"
          /\ \A j \in DOMAIN frames : j # Len(frames) /\ frames[j].at = "members" => frames[j].shape # f.shape
  <2>1. HAVE f.at = "members" /\ given.op[f.shape] \in Containers
  <2>2. \A i \in DOMAIN given.members[S] : i >= f.next => i > Top.next
    BY <1>5, <1>8
  <2> QED
    BY <1>1, <1>2, <1>3, <1>5, <2>1, <2>2 DEF Ahead
<1>11. Inv(given, kind, alias, inherits, decoded, queue, frames', None, failed, made)
  <2>1. /\ frames # << >> /\ ret # "error" /\ None \in {"ok", None} /\ f.at # "start"
        /\ f.shape = frames[Len(frames)].shape
        /\ Unfinished(given, f) => Unfinished(given, frames[Len(frames)])
        /\ frames[Len(frames)].at = "members" => f.at = "members"
    BY <1>1, <1>3, <1>5 DEF Unfinished
  <2> QED
    BY <1>2, <1>3, <1>6, <1>9, <1>10, <2>1, InvGoto
<1> QED
  BY <1>1, <1>2, <1>6, <1>11 DEF IInv, TypeOK, base

\* The top record is about to visit or resolve its next part.
LEMMA NextMember ==
    ASSUME IInv, InMembers
    PROVE  /\ frames # << >> /\ Top.at = "members" /\ ret = None /\ given.op[S] \in Containers \cup {"list"}
           /\ Top.next \in DOMAIN given.members[S]
           /\ given.members[S][Top.next] \in Shapes
           /\ given.members[S][Top.next] \in ToSet(given.members[S])
           /\ Waits(given, Top) /\ Callee(given, Top) = given.members[S][Top.next]
           /\ \A k \in DOMAIN frames : frames[k].at # "start"
<1>1. frames # << >> /\ Top.at = "members" /\ ret = None /\ Top.next <= Len(given.members[S])
  BY DEF InMembers, At
<1>2. TypeOK /\ given \in DocumentType /\ Controlled(given, kind, queue, frames, ret)
  BY Unprimed
<1>3. Top \in Record /\ S \in Shapes /\ Top = frames[Len(frames)] /\ Top.shape = S
  BY <1>1, <1>2, TopIs DEF S
<1>4. given.op[S] \in Containers \cup {"list"}
  BY <1>1, TopOccurs DEF Placed
<1>5. given.members[S] \in Seq(Shapes)
  BY <1>2, <1>3, ChildrenTyped
<1>6. Top.next \in DOMAIN given.members[S]
  <2>1. Top.next \in Nat \ {0}
    BY <1>3, RecordTyped
  <2>2. Len(given.members[S]) \in Nat /\ DOMAIN given.members[S] = 1..Len(given.members[S])
    BY <1>5, SeqTyped
  <2> QED
    BY <1>1, <2>1, <2>2
<1>7. \A k \in DOMAIN frames : frames[k].at # "start"
  BY <1>1, <1>2, <1>3 DEF Controlled, Answered
<1>8. Waits(given, Top) /\ Callee(given, Top) = given.members[S][Top.next]
  BY <1>1, <1>3, <1>6 DEF Waits, Callee
<1> QED
  BY <1>1, <1>4, <1>5, <1>6, <1>7, <1>8, SeqTyped

LEMMA VisitMemberKeeps ==
    ASSUME IInv, VisitMember
    PROVE  IInv' /\ Stays(kind, kind')
<1> DEFINE part == given.members[S][Top.next]
<1>1. /\ InMembers /\ given.op[S] # "list"
      /\ kind' = [kind EXCEPT ![part] = "unknown"]
      /\ frames' = Append(frames, Started(part))
      /\ UNCHANGED << alias, inherits, anyOf, decoded, queue, made, ret, given, failed, crashed >>
  BY DEF VisitMember, Unchanged, Started
<1>2. /\ TypeOK /\ given \in DocumentType /\ WellFormed(given)
      /\ Inv(given, kind, alias, inherits, decoded, queue, frames, ret, failed, made)
      /\ Ahead(given, kind, frames, ret) /\ Made(given, kind) /\ Meant(given, kind)
      /\ queue \in Seq(Shapes) /\ kind \in [Shapes -> Kinds \cup Pending]
  BY Unprimed DEF TypeOK, Inv
<1>3. /\ frames # << >> /\ Top.at = "members" /\ ret = None /\ given.op[S] \in Containers \cup {"list"}
      /\ Top.next \in DOMAIN given.members[S] /\ part \in Shapes /\ part \in ToSet(given.members[S])
      /\ Waits(given, Top) /\ Callee(given, Top) = part
      /\ \A k \in DOMAIN frames : frames[k].at # "start"
  BY <1>1, NextMember
<1>4. /\ frames \in Seq(Record) /\ S = frames[Len(frames)].shape /\ S \in Shapes
      /\ Top = frames[Len(frames)] /\ Top.shape = S /\ Len(frames) \in DOMAIN frames
  BY <1>2, <1>3, TopIs DEF S
<1>5. given.op[S] \in Containers
  BY <1>1, <1>3
<1>6. kind[S] \notin Pending
  BY <1>3, <1>4, <1>5, TopOccurs DEF Placed, Resolved
<1>7. kind[part] = "unmade"
  BY <1>2, <1>3, <1>4, <1>5 DEF Ahead
<1> HIDE DEF part
<1>8. Begun(given, kind, kind', S, part)
  BY <1>1, <1>3, <1>4, <1>5, <1>6, <1>7 DEF Begun
<1>9. Started(part) \in Record /\ Pushed(frames, frames', Started(part)) /\ frames' \in Seq(Record)
  BY <1>1, <1>3, <1>4, StartedTyped, Pushes DEF Pushed
<1>10. Inv(given, kind', alias, inherits, decoded, queue, frames', None, failed, made)
  <2>1. LET f == frames[Len(frames)]
        IN  /\ Waits(given, f) /\ part = Callee(given, f)
            /\ f.at = "referenced" => given.to[f.shape] \in ToSet(given.declared)
    BY <1>3, <1>4
  <2>2. Inv(given, kind, alias, inherits, decoded, queue, frames, None, failed, made)
    BY <1>2, <1>3
  <2>3. frames # << >> /\ frames[Len(frames)].at = "members" /\ Begun(given, kind, kind', frames[Len(frames)].shape, part)
    BY <1>3, <1>4, <1>8
  <2> QED
    BY <1>2, <1>3, <1>4, <1>9, <2>1, <2>2, <2>3, InvPush
<1>11. kind' \in [Shapes -> Kinds \cup Pending] /\ Stays(kind, kind')
  BY <1>2, <1>8, BegunKeeps
<1> QED
  BY <1>1, <1>2, <1>3, <1>9, <1>10, <1>11 DEF IInv, TypeOK
LEMMA CallListedKeeps ==
    ASSUME IInv, CallListed
    PROVE  IInv'
<1> DEFINE part == given.members[S][Top.next]
<1>1. /\ InMembers /\ given.op[S] = "list" /\ Resolve(frames, part)
      /\ UNCHANGED << base, given, failed, crashed >>
  BY DEF CallListed, Unchanged
<1>2. /\ TypeOK /\ given \in DocumentType /\ WellFormed(given)
      /\ Inv(given, kind, alias, inherits, decoded, queue, frames, ret, failed, made)
      /\ Made(given, kind) /\ queue \in Seq(Shapes) /\ kind \in [Shapes -> Kinds \cup Pending]
  BY Unprimed DEF TypeOK
<1>3. /\ frames # << >> /\ Top.at = "members" /\ ret = None
      /\ part \in Shapes /\ part \in ToSet(given.members[S])
      /\ Waits(given, Top) /\ Callee(given, Top) = part
      /\ \A k \in DOMAIN frames : frames[k].at # "start"
  BY <1>1, NextMember
<1>4. /\ frames \in Seq(Record) /\ S = frames[Len(frames)].shape /\ S \in Shapes
      /\ Top = frames[Len(frames)] /\ Top.shape = S /\ Top \in Record /\ Len(frames) \in DOMAIN frames
  BY <1>2, <1>3, TopIs DEF S
<1>5. Placed(given, kind, Top) /\ kind[S] # "unmade"
  BY <1>3, TopOccurs
<1> HIDE DEF part
<1>6. CASE kind[part] # "unknown" /\ ret' = "ok" /\ frames' = frames
  <2>1. kind[part] \notin Pending
    <3>1. part \in ToSet(Attached(given, S))
      BY <1>1, <1>3 DEF Attached
    <3> QED
      BY <1>2, <1>4, <1>5, <1>6, <3>1 DEF Made, Pending
  <2>2. Retopped(frames, frames, Top)
    BY <1>3, <1>4 DEF Retopped
  <2>3. /\ ret # "error" /\ "ok" \in {"ok", None} /\ Top.at # "start"
        /\ Top.shape = frames[Len(frames)].shape
        /\ Unfinished(given, Top) => Unfinished(given, frames[Len(frames)])
        /\ frames[Len(frames)].at = "members" => Top.at = "members"
        /\ Waits(given, Top) /\ kind[Callee(given, Top)] \notin Pending
    BY <1>3, <1>4, <2>1, NoneIsNothing
  <2>4. given.op[Top.shape] \notin Containers
    BY <1>1, <1>4 DEF Containers
  <2>5. Inv(given, kind, alias, inherits, decoded, queue, frames, "ok", failed, made)
    BY <1>2, <1>3, <1>4, <1>5, <2>2, <2>3, <2>4, InvGoto
  <2> QED
    BY <1>1, <1>2, <1>6, <2>5 DEF IInv, TypeOK, base
<1>7. CASE /\ kind[part] = "unknown" /\ ret' = None
           /\ frames' = Append(frames, [shape |-> part, at |-> "start", next |-> 1])
  <2>1. Started(part) \in Record /\ Pushed(frames, frames', Started(part)) /\ frames' \in Seq(Record)
    BY <1>3, <1>4, <1>7, StartedTyped, Pushes DEF Pushed, Started
  <2>2. LET f == frames[Len(frames)]
        IN  /\ Waits(given, f) /\ part = Callee(given, f)
            /\ f.at = "referenced" => given.to[f.shape] \in ToSet(given.declared)
    BY <1>3, <1>4
  <2>3. Inv(given, kind, alias, inherits, decoded, queue, frames, None, failed, made)
    BY <1>2, <1>3
  <2>4. Inv(given, kind, alias, inherits, decoded, queue, frames', None, failed, made)
    BY <1>2, <1>3, <1>4, <1>7, <2>1, <2>2, <2>3, InvPush
  <2> QED
    BY <1>1, <1>2, <1>7, <2>1, <2>4 DEF IInv, TypeOK, base
<1> QED
  BY <1>1, <1>6, <1>7 DEF Resolve

LEMMA CallReferencedKeeps ==
    ASSUME IInv, CallReferenced
    PROVE  IInv'
<1> DEFINE t  == given.to[S]
           f  == [Top EXCEPT !.at = "referenced"]
           gs == Append(Callers, f)
<1>1. /\ frames # << >> /\ Top.at = "start" /\ ret = None
      /\ given.op[S] \in {"reference", "include"} /\ t \notin {None, S}
      /\ Resolve(gs, t) /\ UNCHANGED << base, given, failed, crashed >>
  BY DEF CallReferenced, Starts, At, Goto, Unchanged
<1>2. /\ TypeOK /\ given \in DocumentType /\ WellFormed(given)
      /\ Inv(given, kind, alias, inherits, decoded, queue, frames, None, failed, made)
      /\ Controlled(given, kind, queue, frames, ret)
      /\ Made(given, kind) /\ queue \in Seq(Shapes) /\ kind \in [Shapes -> Kinds \cup Pending]
  BY <1>1, Unprimed DEF TypeOK
<1>3. /\ frames \in Seq(Record) /\ S = frames[Len(frames)].shape /\ S \in Shapes
      /\ Top = frames[Len(frames)] /\ Top.shape = S /\ Top \in Record
      /\ \A g \in Record : Append(Callers, g) \in Seq(Record) /\ Retopped(frames, Append(Callers, g), g)
  BY <1>1, <1>2, TopIs DEF S
<1>4. t \in ToSet(given.declared) /\ t \in Shapes /\ kind[t] # "unmade"
  <2>1. t \in ToSet(given.declared)
    BY <1>1, <1>2, <1>3 DEF WellFormed
  <2> QED
    BY <1>1, <1>2, <1>3, <2>1, DocTyped DEF Made
<1>5. f \in Record /\ f.shape = S /\ f.at = "referenced"
  BY <1>3, RecordMoved
<1>6. Callee(given, f) = t /\ Waits(given, f) /\ Unfinished(given, f)
  BY <1>5 DEF Callee, Waits, Unfinished
<1> HIDE DEF t, f, gs
<1>7. Retopped(frames, gs, f) /\ gs \in Seq(Record)
  BY <1>3, <1>5 DEF gs
<1>8. Placed(given, kind, f)
  <2>1. kind[S] # "unmade" /\ given.op[S] # "builtin"
    BY <1>1, TopOccurs
  <2> QED
    BY <1>1, <1>5, <2>1 DEF Placed, t
<1>9. /\ frames # << >> /\ None # "error" /\ f.at # "start"
      /\ f.shape = frames[Len(frames)].shape
      /\ Unfinished(given, f) => Unfinished(given, frames[Len(frames)])
      /\ frames[Len(frames)].at = "members" => f.at = "members"
      /\ f.at # "members"
  BY <1>1, <1>3, <1>5, NoneIsNothing DEF Unfinished
<1>10. CASE kind[t] # "unknown" /\ ret' = "ok" /\ frames' = gs
  <2>1. Waits(given, f) /\ kind[Callee(given, f)] \notin Pending /\ "ok" \in {"ok", None}
    BY <1>4, <1>6, <1>10 DEF Pending
  <2>2. Inv(given, kind, alias, inherits, decoded, queue, gs, "ok", failed, made)
    BY <1>2, <1>3, <1>5, <1>7, <1>8, <1>9, <2>1, InvGoto
  <2> QED
    BY <1>1, <1>2, <1>7, <1>10, <2>2 DEF IInv, TypeOK, base
<1>11. CASE /\ kind[t] = "unknown" /\ ret' = None
            /\ frames' = Append(gs, [shape |-> t, at |-> "start", next |-> 1])
  <2>1. Inv(given, kind, alias, inherits, decoded, queue, gs, None, failed, made)
    <3>1. None \in {"ok", None}
      OBVIOUS
    <3> QED
      BY <1>2, <1>3, <1>5, <1>7, <1>8, <1>9, <3>1, InvGoto
  <2>2. Started(t) \in Record /\ Pushed(gs, frames', Started(t)) /\ frames' \in Seq(Record)
    BY <1>4, <1>7, <1>11, StartedTyped, Pushes DEF Pushed, Started
  <2>3. gs # << >> /\ gs[Len(gs)] = f
    BY <1>7 DEF Retopped
  <2>4. \A k \in DOMAIN gs : gs[k].at # "start"
    <3>1. \A k \in DOMAIN frames : frames[k].at = "start" => k = Len(frames)
      BY <1>2 DEF Controlled, Answered
    <3>2. DOMAIN gs = DOMAIN frames /\ gs[Len(frames)] = f /\ \A k \in DOMAIN frames : k # Len(frames) => gs[k] = frames[k]
      BY <1>7 DEF Retopped
    <3> QED
      BY <1>9, <3>1, <3>2
  <2>5. LET g == gs[Len(gs)]
        IN  /\ Waits(given, g) /\ t = Callee(given, g)
            /\ g.at = "referenced" => given.to[g.shape] \in ToSet(given.declared)
    BY <1>4, <1>5, <1>6, <2>3 DEF t
  <2>6. Inv(given, kind, alias, inherits, decoded, queue, frames', None, failed, made)
    BY <1>2, <1>4, <1>7, <1>11, <2>1, <2>2, <2>3, <2>4, <2>5, InvPush
  <2> QED
    BY <1>1, <1>2, <1>11, <2>2, <2>6 DEF IInv, TypeOK, base
<1> QED
  BY <1>1, <1>10, <1>11 DEF Resolve
-----------------------------------------------------------------------------
(* The beginning *)

\* The bases that are made when the fragments are decoded.
FirstMade(d) == UNION {With(d, t) : t \in ToSet(d.declared)}

\* They are the declared types and what is attached to one of them.
LEMMA FirstMadeIs ==
    ASSUME NEW d \in DocumentType, WellFormed(d)
    PROVE  /\ ToSet(d.declared) \subseteq FirstMade(d) /\ FirstMade(d) \subseteq OccurringIn(d)
           /\ FirstMade(d) \subseteq Shapes
           /\ \A s \in FirstMade(d) : ToSet(Attached(d, s)) \subseteq FirstMade(d)
           /\ \A s \in Shapes : \A t \in Below(d, s) :
                 t \in FirstMade(d) => s \in FirstMade(d) /\ t \in ToSet(Attached(d, s))
<1>1. ToSet(d.declared) \subseteq Shapes
  BY DocTyped, SeqTyped
<1>2. ToSet(d.declared) \subseteq FirstMade(d)
  BY <1>1, WithIs DEF FirstMade
<1>3. FirstMade(d) \subseteq OccurringIn(d) /\ FirstMade(d) \subseteq Shapes
  BY OccurringClosed DEF FirstMade
<1>4. \A s \in FirstMade(d) : ToSet(Attached(d, s)) \subseteq FirstMade(d)
  <2> TAKE s \in FirstMade(d)
  <2>1. PICK x \in ToSet(d.declared) : s \in With(d, x)
    BY DEF FirstMade
  <2>2. ToSet(Attached(d, s)) \subseteq With(d, x)
    BY <1>1, <2>1, WithClosed
  <2> QED
    BY <2>1, <2>2 DEF FirstMade
<1>5. ASSUME NEW s \in Shapes, NEW t \in Below(d, s), t \in FirstMade(d)
      PROVE  s \in FirstMade(d) /\ t \in ToSet(Attached(d, s))
  <2>1. PICK x \in ToSet(d.declared) : t \in With(d, x)
    BY <1>5 DEF FirstMade
  <2>2. t # x
    BY <1>5, <2>1, Lower
  <2>3. PICK y \in With(d, x) : t \in ToSet(Attached(d, y))
    BY <1>1, <2>1, <2>2, WithClosed
  <2>4. y \in FirstMade(d) /\ y \in Shapes
    BY <1>3, <2>1, <2>3 DEF FirstMade
  <2>5. t \in Below(d, y)
    BY <2>3, <2>4, ChildrenTyped
  <2>6. y = s
    BY <1>5, <2>4, <2>5, OnePlace
  <2> QED
    BY <2>3, <2>4, <2>6
<1> QED
  BY <1>2, <1>3, <1>4, <1>5

FirstKinds(d) == [s \in Shapes |-> IF s \in FirstMade(d) THEN FirstIn(d, s) ELSE "unmade"]

LEMMA InvFirst ==
    ASSUME NEW d \in DocumentType, WellFormed(d), NEW kd, kd = FirstKinds(d),
           NEW q \in Seq(Shapes), ToSet(q) = {t \in FirstMade(d) : d.op[t] # "builtin"},
           NEW al, \A s \in Shapes : al[s] = None, NEW ih, \A s \in Shapes : ih[s] = << >>,
           NEW dc, NEW md, \A s \in Shapes : md[s] = 0
    PROVE  Inv(d, kd, al, ih, dc, q, << >>, None, FALSE, md)
<1>1. /\ \A s \in Shapes : s \notin FirstMade(d) <=> kd[s] = "unmade"
      /\ \A s \in Shapes : kd[s] = "unknown" <=> s \in FirstMade(d) /\ d.op[s] # "builtin"
      /\ \A s \in Shapes : kd[s] \notin Pending <=> s \in FirstMade(d) /\ d.op[s] = "builtin"
      /\ \A s \in Shapes : s \in FirstMade(d) /\ d.op[s] = "builtin" => kd[s] = d.kind[s]
  <2>1. \A s \in Shapes : d.kind[s] \in Kinds
    BY DocTyped
  <2>2. \A s \in Shapes : kd[s] = IF s \in FirstMade(d) THEN FirstIn(d, s) ELSE "unmade"
    BY DEF FirstKinds
  <2> QED
    BY <2>1, <2>2 DEF FirstIn, Kinds, Pending
<1>2. /\ ToSet(d.declared) \subseteq FirstMade(d) /\ FirstMade(d) \subseteq OccurringIn(d)
      /\ FirstMade(d) \subseteq Shapes
      /\ \A s \in FirstMade(d) : ToSet(Attached(d, s)) \subseteq FirstMade(d)
      /\ \A s \in Shapes : \A t \in Below(d, s) :
            t \in FirstMade(d) => s \in FirstMade(d) /\ t \in ToSet(Attached(d, s))
  BY FirstMadeIs
<1>3. Controlled(d, kd, q, << >>, None)
  <2>1. \A s \in ToSet(q) : kd[s] # "unmade"
    BY <1>1, <1>2
  <2>2. Answered(d, kd, q, << >>, None)
    BY <2>1, NoneIsNothing DEF Answered
  <2> QED
    BY <2>2 DEF Controlled, Linked
<1>4. \A s \in Shapes : /\ Below(d, s) \subseteq Shapes
                        /\ ToSet(d.members[s]) \subseteq Below(d, s)
                        /\ ToSet(d.nested[s]) \subseteq Below(d, s)
                        /\ ToSet(d.members[s]) \cap ToSet(d.nested[s]) = {}
  BY ChildrenTyped DEF WellFormed
<1>5. Made(d, kd)
  <2>1. \A s \in ToSet(d.declared) : kd[s] # "unmade"
    BY <1>1, <1>2
  <2>2. \A s \in Shapes : kd[s] = "unmade" => \A t \in Below(d, s) : kd[t] = "unmade"
    BY <1>1, <1>2, <1>4
  <2>3. ASSUME NEW s \in Shapes, kd[s] = "unknown"
        PROVE  /\ \A t \in ToSet(d.nested[s]) : kd[t] = "unmade"
               /\ d.op[s] \in Containers => \A t \in ToSet(d.members[s]) : kd[t] = "unmade"
    <3>1. d.op[s] # "builtin"
      BY <1>1, <2>3
    <3>2. \A t \in ToSet(d.nested[s]) : t \notin ToSet(Attached(d, s))
      <4>1. ToSet(<< >>) = {}
        BY DEF ToSet
      <4>2. d.op[s] = "list" => Attached(d, s) = d.members[s]
        BY DEF Attached
      <4>3. d.op[s] # "list" => Attached(d, s) = << >>
        BY <3>1 DEF Attached
      <4> QED
        BY <1>4, <4>1, <4>2, <4>3
    <3>3. d.op[s] \in Containers => ToSet(Attached(d, s)) = {}
      BY <3>1 DEF Attached, Containers, ToSet
    <3>4. \A t \in ToSet(d.nested[s]) : t \notin FirstMade(d) /\ t \in Shapes
      BY <1>2, <1>4, <3>2
    <3>5. d.op[s] \in Containers => \A t \in ToSet(d.members[s]) : t \notin FirstMade(d) /\ t \in Shapes
      BY <1>2, <1>4, <3>3
    <3> QED
      BY <1>1, <3>4, <3>5
  <2>4. ASSUME NEW s \in Shapes, kd[s] # "unmade"
        PROVE  /\ d.op[s] = "builtin" => kd[s] = d.kind[s]
               /\ \A t \in ToSet(Attached(d, s)) : kd[t] # "unmade"
    BY <1>1, <1>2, <2>4
  <2> QED
    BY <2>1, <2>2, <2>3, <2>4 DEF Made
<1>6. Meant(d, kd)
  <2>1. \A s \in Shapes : d.op[s] = "builtin" => MeaningIn(d)[s] = d.kind[s]
    BY MeaningAt DEF MeansBy
  <2> QED
    BY <1>1, <1>2, <2>1 DEF Meant
<1>7. Kept(d, kd, dc, q, << >>)
  <2>1. \A s \in Shapes : kd[s] \notin Pending => Finished(d, kd, dc, << >>, s)
    BY <1>1, BuiltinRight
  <2> QED
    BY <1>1, <2>1, KeptIs
<1>8. Single(d, kd, << >>, al, ih, md) /\ References(d, kd, al, ih)
  BY <1>1 DEF Single, References
<1>9. Ahead(d, kd, << >>, None) /\ Untouched(d, kd, << >>)
  BY DEF Ahead, Untouched
<1> QED
  BY <1>3, <1>5, <1>6, <1>7, <1>8, <1>9, NoneIsNothing DEF Inv, Blamed

LEMMA InitGood == Init => IInv
<1> SUFFICES ASSUME Init PROVE IInv
  OBVIOUS
<1>1. given \in DocumentType /\ WellFormed(given)
  BY ConstantsAssumption DEF Init
<1> DEFINE first == DecodedFrom(given.declared)
<1>2. /\ kind = [s \in Shapes |-> IF s \in ToSet(first) THEN FirstKind(s) ELSE "unmade"]
      /\ queue = Unresolved(first)
      /\ alias = [s \in Shapes |-> None] /\ inherits = [s \in Shapes |-> << >>]
      /\ anyOf = [s \in Shapes |-> << >>] /\ decoded = [s \in Shapes |-> FALSE]
      /\ frames = << >> /\ ret = None /\ failed = FALSE /\ crashed = FALSE
      /\ made = [s \in Shapes |-> 0]
  BY DEF Init
<1>3. first \in Seq(Shapes) /\ ToSet(first) = FirstMade(given)
  BY <1>1, DocTyped, DecodedFromSet DEF FirstMade
<1> HIDE DEF first
<1>4. kind = FirstKinds(given)
  BY <1>2, <1>3 DEF FirstKinds, FirstKind, FirstIn
<1>5. queue \in Seq(Shapes) /\ ToSet(queue) = {t \in FirstMade(given) : given.op[t] # "builtin"}
  BY <1>1, <1>2, <1>3, UnresolvedSet
<1>6. /\ \A s \in Shapes : alias[s] = None
      /\ \A s \in Shapes : inherits[s] = << >>
      /\ \A s \in Shapes : made[s] = 0
  BY <1>2
<1>7. Inv(given, kind, alias, inherits, decoded, queue, frames, ret, failed, made)
  BY <1>1, <1>2, <1>4, <1>5, <1>6, InvFirst
<1>8. TypeOK
  <2>1. kind \in [Shapes -> Kinds \cup Pending]
    <3>1. \A s \in Shapes : FirstIn(given, s) \in Kinds \cup Pending
      BY <1>1, DocTyped DEF FirstIn, Pending
    <3> QED
      BY <1>4, <3>1 DEF FirstKinds, Pending
  <2> QED
    <3>1. << >> \in Seq(Record) /\ << >> \in Seq(Shapes)
      OBVIOUS
    <3>2. /\ alias \in [Shapes -> Shapes \cup {None}] /\ inherits \in [Shapes -> Seq(Shapes)]
          /\ anyOf \in [Shapes -> Seq(Shapes)] /\ decoded \in [Shapes -> BOOLEAN]
          /\ made \in [Shapes -> Nat]
      BY <1>2, <3>1
    <3>3. frames \in Seq(Record) /\ ret \in {"ok", "error", None} /\ failed \in BOOLEAN /\ crashed \in BOOLEAN
      BY <1>2, <3>1
    <3> QED
      BY <1>1, <1>5, <2>1, <3>2, <3>3 DEF TypeOK
<1> QED
  BY <1>1, <1>7, <1>8 DEF IInv

-----------------------------------------------------------------------------
(* Every step *)

LEMMA NextGood ==
    ASSUME IInv, [Next]_vars
    PROVE  IInv' /\ Stays(kind, kind')
<1>1. CASE UNCHANGED vars
  BY <1>1, Idle DEF IInv, TypeOK, vars
<1>2. CASE Overflow \/ ListPanics
  BY <1>2, Idle DEF Overflow, ListPanics, base, IInv, TypeOK
<1>3. CASE VisitPrimitive
  BY <1>3, VisitPrimitiveKeeps
<1>4. CASE MakeReferenced
  BY <1>4, MakeReferencedKeeps
<1>5. CASE MakeContainer
  BY <1>5, MakeContainerKeeps
<1>6. CASE VisitMember
  BY <1>6, VisitMemberKeeps
<1>7. CASE MakeListed
  BY <1>7, MakeListedKeeps
<1>8. CASE CallNext
  BY <1>8, CallNextKeeps, Idle DEF CallNext, base
<1>9. CASE ShapeReturns
  BY <1>9, ShapeReturnsKeeps, Idle DEF ShapeReturns
<1>10. CASE Rejects
  BY <1>10, RejectsKeeps, Idle DEF Rejects, base
<1>11. CASE CallReferenced
  BY <1>11, CallReferencedKeeps, Idle DEF CallReferenced, base
<1>12. CASE EnterList
  BY <1>12, EnterListKeeps, Idle DEF EnterList, base
<1>13. CASE CallListed
  BY <1>13, CallListedKeeps, Idle DEF CallListed, base
<1>14. CASE MemberReturns
  BY <1>14, MemberReturnsKeeps, Idle DEF MemberReturns, base
<1>15. CASE StoreMembers
  BY <1>15, StoreMembersKeeps, Idle DEF StoreMembers
<1>16. CASE PassError
  BY <1>16, PassErrorKeeps, Idle DEF PassError, base
<1> QED
  BY <1>1, <1>2, <1>3, <1>4, <1>5, <1>6, <1>7, <1>8, <1>9, <1>10, <1>11, <1>12, <1>13, <1>14,
     <1>15, <1>16 DEF Next, Step, Over

LEMMA Invariant == Spec => []IInv
<1>1. IInv /\ [Next]_vars => IInv'
  BY NextGood
<1> QED
  BY InitGood, <1>1, PTL DEF Spec

\* Every variable keeps its type.
THEOREM TypeCorrect == Spec => []TypeOK
<1>1. IInv => TypeOK
  BY DEF IInv
<1> QED
  BY <1>1, Invariant, PTL

\* A type that has been resolved keeps its type, whatever is resolved again on
\* the way of another.
THEOREM KindStaysCorrect == Spec => KindStays
<1>1. IInv /\ [Next]_vars => [\A s \in Shapes : kind[s] \notin Pending => kind'[s] = kind[s]]_vars
  BY NextGood DEF Stays
<1> QED
  BY <1>1, Invariant, PTL DEF Spec, KindStays

\* When the pass is over, the shapes that are not pending are closed under parts
\* if there was no error: so they are all that occurs.
LEMMA AllResolved ==
    ASSUME IInv, Done, ~failed
    PROVE  \A s \in OccurringIn(given) :
              kind[s] \notin Pending /\ Finished(given, kind, decoded, << >>, s)
<1>1. /\ given \in DocumentType /\ WellFormed(given)
      /\ Made(given, kind) /\ Meant(given, kind) /\ Kept(given, kind, decoded, << >>, << >>)
  <2>1. frames = << >> /\ ret = None /\ queue = << >> /\ None # "error"
    BY NoneIsNothing DEF Done
  <2> QED
    BY <2>1, Unprimed DEF Inv
<1>2. /\ \A s \in Shapes : kind[s] # "unknown"
      /\ \A s \in Shapes : kind[s] \notin Pending => Finished(given, kind, decoded, << >>, s)
  <2>1. ToSet(<< >>) = {}
    BY DEF ToSet
  <2>2. \A s \in Shapes :
           /\ kind[s] = "unknown" => s \in ToSet(<< >>) \/ \E k \in DOMAIN << >> : << >>[k].shape = s
           /\ kind[s] \notin Pending => Finished(given, kind, decoded, << >>, s)
    BY <1>1, KeptIs
  <2> QED
    BY <2>1, <2>2
<1> DEFINE Q == {s \in Shapes : kind[s] \notin Pending}
<1>3. ToSet(given.declared) \subseteq Q
  <2>1. ToSet(given.declared) \subseteq Shapes
    BY <1>1, DocTyped, SeqTyped
  <2> QED
    BY <1>1, <1>2, <2>1 DEF Made, Pending
<1>4. ASSUME NEW s \in Shapes, kind[s] \notin Pending, NEW t \in PartsIn(given, s)
      PROVE  t \in Q
  <2>1. /\ t \in Shapes
        /\ \/ t \in ToSet(given.members[s])
           \/ /\ t \in ToSet(given.nested[s])
              /\ MeaningIn(given)[s] \in {"object", "array"} /\ given.op[s] # "group"
    BY <1>1, <1>4, ChildrenTyped DEF PartsIn
  <2>2. Finished(given, kind, decoded, << >>, s) /\ kind[s] = MeaningIn(given)[s]
    BY <1>1, <1>2, <1>4 DEF Meant
  <2>3. \A x \in ToSet(Attached(given, s)) : kind[x] # "unmade"
    BY <1>1, <1>4 DEF Made, Pending
  <2>4. CASE t \in ToSet(given.members[s])
    <3>1. given.op[s] \in Containers \cup {"list"}
      <4>1. given.members[s] \in Seq(Shapes)
        BY <1>1, <1>4, ChildrenTyped
      <4>2. given.members[s] # << >>
        BY <2>4, <4>1, SeqTyped
      <4> QED
        BY <1>1, <1>4, <4>2 DEF WellFormed
    <3>2. CASE given.op[s] = "list"
      <4>1. t \in ToSet(Attached(given, s))
        BY <2>4, <3>2 DEF Attached
      <4> QED
        BY <1>2, <2>1, <2>3, <4>1 DEF Pending
    <3>3. CASE given.op[s] \in Containers
      BY <2>1, <2>2, <2>4, <3>3 DEF Finished
    <3> QED
      BY <3>1, <3>2, <3>3
  <2>5. CASE t \in ToSet(given.nested[s]) /\ kind[s] \in {"object", "array"} /\ given.op[s] # "group"
    <3>1. CASE given.op[s] = "builtin"
      <4>1. t \in ToSet(Attached(given, s))
        BY <2>5, <3>1 DEF Attached
      <4> QED
        BY <1>2, <2>1, <2>3, <4>1 DEF Pending
    <3>2. CASE given.op[s] # "builtin"
      <4>1. kind[t] # "unmade"
        BY <2>2, <2>5, <3>2 DEF Finished
      <4> QED
        BY <1>2, <2>1, <4>1 DEF Pending
    <3> QED
      BY <3>1, <3>2
  <2> QED
    BY <2>1, <2>2, <2>4, <2>5
<1>5. OccurringIn(given) \subseteq Q
  <2>1. \A s \in Shapes : s \in Q => PartsIn(given, s) \subseteq Q
    BY <1>4
  <2> HIDE DEF Q
  <2> QED
    BY <1>1, <1>3, <2>1, OccurringLeast
<1> QED
  BY <1>2, <1>5

\* When the list is empty and there was no error, all that occurs has been
\* resolved to the type its declaration says, and its facets are decoded.
THEOREM CompleteCorrect == Spec => []Complete
<1>1. IInv => Complete
  <2>1. SUFFICES ASSUME IInv, Done, ~failed, NEW s \in OccurringIn(given)
                 PROVE  /\ kind[s] \notin Pending /\ kind[s] = MeaningIn(given)[s]
                        /\ given.facets[s] /\ given.op[s] \notin {"builtin", "group"} => decoded[s]
    BY OfGiven, OccurringGiven DEF Complete
  <2>2. kind[s] \notin Pending /\ Finished(given, kind, decoded, << >>, s)
    BY <2>1, AllResolved
  <2>3. kind[s] = MeaningIn(given)[s]
    <3>1. s \in Shapes
      BY <2>1, Unprimed, OccurringClosed
    <3> QED
      BY <2>1, <2>2, <3>1, Unprimed DEF Meant
  <2> QED
    BY <2>2, <2>3 DEF Finished
<1> QED
  BY <1>1, Invariant, PTL

\* An error is reported if and only if some node that occurs is wrong.
THEOREM FailsIfWrongCorrect == Spec => []FailsIfWrong
<1>1. IInv => FailsIfWrong
  <2>1. SUFFICES ASSUME IInv, Done
                 PROVE  failed <=> \E s \in OccurringIn(given) : WrongIn(given, s)
    BY OccurringGiven DEF FailsIfWrong
  <2>2. failed => \E s \in OccurringIn(given) : WrongIn(given, s)
    BY <2>1, Unprimed DEF Inv, Blamed
  <2>3. ~failed => \A s \in OccurringIn(given) : ~WrongIn(given, s)
    BY <2>1, AllResolved DEF Finished
  <2>4. failed \in BOOLEAN
    BY <2>1, Unprimed DEF TypeOK
  <2> QED
    BY <2>2, <2>3, <2>4
<1> QED
  BY <1>1, Invariant, PTL

\* Without recursive types each type is made concrete at most once, and linked
\* to exactly the type it refers to.
THEOREM LinkedOnceCorrect == Spec => []LinkedOnce
<1>1. IInv => LinkedOnce
  <2>1. SUFFICES ASSUME IInv, Done, ~failed, ~RecursiveIn(given), NEW s \in OccurringIn(given)
                 PROVE  /\ made[s] <= 1
                        /\ alias[s] = IF given.op[s] = "reference" /\ ~given.facets[s]
                                      THEN given.to[s] ELSE None
                        /\ inherits[s] = IF given.op[s] = "reference" /\ given.facets[s]
                                         THEN << given.to[s] >> ELSE << >>
    BY OccurringGiven, RecursiveGiven DEF LinkedOnce
  <2>2. kind[s] \notin Pending /\ s \in Shapes
    BY <2>1, AllResolved, Unprimed, OccurringClosed
  <2>3. /\ Single(given, kind, frames, alias, inherits, made)
        /\ References(given, kind, alias, inherits)
    <3>1. ret # "error"
      BY <2>1, NoneIsNothing DEF Done
    <3> QED
      BY <2>1, <3>1, Unprimed DEF Inv
  <2> QED
    BY <2>2, <2>3 DEF Single, References
<1> QED
  BY <1>1, Invariant, PTL
===============================================================================
