----------------------------- MODULE HooksProofs -----------------------------
(***************************************************************************)
(* Proofs about Hooks, for every set of hooks, every growth of the arrays  *)
(* and any number of changes and nested calls: the types, and that the     *)
(* slices implement the list of HookList.                                  *)
(***************************************************************************)
EXTENDS Hooks, SequenceTheorems, TLAPS

-----------------------------------------------------------------------------
(***************************************************************************)
(* What the operators return in a well-typed state.                        *)
(***************************************************************************)

\* The slice lies within an array, and holds hooks.
LEMMA SliceType ==
    ASSUME TypeOK
    PROVE  /\ slice.arr \in Nat \ {0} /\ slice.len \in Nat
           /\ slice = [arr |-> slice.arr, len |-> slice.len]
           /\ slice.arr \in 1..Len(arrays) /\ DOMAIN arrays = 1..Len(arrays)
           /\ Len(arrays) \in Nat
           /\ Array \in Seq(Hook) /\ Len(Array) \in Nat /\ DOMAIN Array = 1..Len(Array)
           /\ slice.len <= Len(Array)
           /\ \A k \in 1..Len(Array) : Array[k] \in Hook
           /\ Registered \in Seq(Hook) /\ Len(Registered) = slice.len
<1>1. /\ slice.arr \in Nat \ {0} /\ slice.len \in Nat
      /\ slice = [arr |-> slice.arr, len |-> slice.len]
  BY DEF TypeOK, Slice
<1>2. /\ arrays \in Seq(Seq(Hook)) /\ slice.arr \in DOMAIN arrays /\ slice.len <= Len(Array)
  BY DEF TypeOK
<1>3. DOMAIN arrays = 1..Len(arrays) /\ Len(arrays) \in Nat
  BY <1>2, LenProperties
<1>4. Array \in Seq(Hook)
  BY <1>2, <1>3, ElementOfSeq DEF Array
<1>5. /\ Len(Array) \in Nat /\ DOMAIN Array = 1..Len(Array)
      /\ \A k \in 1..Len(Array) : Array[k] \in Hook
  BY <1>4, LenProperties, ElementOfSeq
<1>6. \A k \in 1..slice.len : Array[k] \in Hook
  BY <1>1, <1>2, <1>5
<1>7. Registered \in Seq(Hook) /\ Len(Registered) = slice.len
  BY <1>1, <1>6 DEF Registered
<1> QED
  BY <1>1, <1>2, <1>3, <1>4, <1>5, <1>7

\* Every call ranges over a part of an array.
LEMMA FramesType ==
    ASSUME TypeOK
    PROVE  /\ frames \in Seq(Frame)
           /\ Len(frames) \in Nat /\ DOMAIN frames = 1..Len(frames)
           /\ \A k \in 1..Len(frames) :
                 /\ frames[k] \in Frame
                 /\ frames[k].arr \in 1..Len(arrays)
                 /\ arrays[frames[k].arr] \in Seq(Hook)
                 /\ Len(arrays[frames[k].arr]) \in Nat
                 /\ frames[k].len <= Len(arrays[frames[k].arr])
                 /\ frames[k].next <= frames[k].len + 1
                 /\ \A i \in 1..frames[k].len : arrays[frames[k].arr][i] \in Hook
<1>1. /\ frames \in Seq(Frame) /\ arrays \in Seq(Seq(Hook))
      /\ \A k \in DOMAIN frames :
            /\ frames[k].arr \in DOMAIN arrays
            /\ frames[k].len <= Len(arrays[frames[k].arr])
            /\ frames[k].next <= frames[k].len + 1
  BY DEF TypeOK
<1>2. /\ Len(frames) \in Nat /\ DOMAIN frames = 1..Len(frames)
      /\ DOMAIN arrays = 1..Len(arrays)
  BY <1>1, LenProperties
<1>3. ASSUME NEW k \in 1..Len(frames)
      PROVE  /\ frames[k] \in Frame
             /\ arrays[frames[k].arr] \in Seq(Hook)
             /\ Len(arrays[frames[k].arr]) \in Nat
             /\ \A i \in 1..frames[k].len : arrays[frames[k].arr][i] \in Hook
  <2>1. frames[k] \in Frame
    BY <1>1, ElementOfSeq
  <2>2. arrays[frames[k].arr] \in Seq(Hook)
    BY <1>1, <1>2, ElementOfSeq
  <2>3. /\ Len(arrays[frames[k].arr]) \in Nat
        /\ \A i \in 1..Len(arrays[frames[k].arr]) : arrays[frames[k].arr][i] \in Hook
    BY <2>2, LenProperties, ElementOfSeq
  <2> QED
    BY <1>1, <1>2, <2>1, <2>2, <2>3, SMTT(60) DEF Frame
<1> QED
  BY <1>1, <1>2, <1>3

\* Allocate: a new array, with the list in front; the others stay.
LEMMA AllocateResult ==
    ASSUME TypeOK, NEW list \in Seq(Hook), NEW spare \in Nat, Allocate(list, spare)
    PROVE  /\ arrays' \in Seq(Seq(Hook))
           /\ Len(arrays') = Len(arrays) + 1
           /\ \A a \in 1..Len(arrays) : arrays'[a] = arrays[a]
           /\ slice' \in Slice /\ slice'.arr = Len(arrays) + 1 /\ slice'.len = Len(list)
           /\ slice'.len <= Len(arrays'[slice'.arr])
           /\ Registered' = list
<1> DEFINE room == [k \in 1..spare |-> Nil]
           new == list \o room
<1>1. room \in Seq(Hook) /\ Len(room) = spare
  BY ConstantsAssumption
<1>2. /\ new \in Seq(Hook) /\ Len(new) = Len(list) + spare
      /\ \A i \in 1..(Len(list) + spare) : new[i] = IF i <= Len(list) THEN list[i] ELSE room[i - Len(list)]
  BY <1>1, ConcatProperties
<1> HIDE DEF room
<1>3. arrays \in Seq(Seq(Hook)) /\ arrays' = Append(arrays, new)
  BY DEF TypeOK, Allocate, room
<1>4. slice' = [arr |-> Len(arrays) + 1, len |-> Len(list)]
  BY DEF Allocate
<1> HIDE DEF new
<1>5. Len(arrays) \in Nat /\ Len(list) \in Nat /\ list \in [1..Len(list) -> Hook]
  BY <1>3, LenProperties
<1>6. /\ arrays' \in Seq(Seq(Hook))
      /\ Len(arrays') = Len(arrays) + 1
      /\ \A a \in 1..Len(arrays) : arrays'[a] = arrays[a]
      /\ arrays'[Len(arrays) + 1] = new
  BY <1>2, <1>3, AppendProperties
<1>7. slice' \in Slice
  BY <1>4, <1>5 DEF Slice
<1>8. Array' = new
  BY <1>4, <1>6 DEF Array
<1>9. Registered' = [k \in 1..Len(list) |-> new[k]]
  BY <1>4, <1>8 DEF Registered
<1>10. \A k \in 1..Len(list) : new[k] = list[k]
  BY <1>2, <1>5
<1>11. Registered' = list
  BY <1>5, <1>9, <1>10
<1> QED
  BY <1>2, <1>4, <1>5, <1>6, <1>7, <1>11


\* Writing into an array in place changes neither its length nor other arrays.
LEMMA WriteResult ==
    ASSUME TypeOK, NEW a \in 1..Len(arrays), NEW new \in [1..Len(arrays[a]) -> Hook],
           arrays' = [arrays EXCEPT ![a] = new]
    PROVE  /\ arrays' \in Seq(Seq(Hook)) /\ Len(arrays') = Len(arrays)
           /\ \A b \in 1..Len(arrays) : Len(arrays'[b]) = Len(arrays[b])
           /\ \A b \in 1..Len(arrays) : b # a => arrays'[b] = arrays[b]
           /\ arrays'[a] = new
<1>1. arrays \in Seq(Seq(Hook))
  BY DEF TypeOK
<1>2. Len(arrays) \in Nat /\ arrays[a] \in Seq(Hook)
  BY <1>1, LenProperties, ElementOfSeq
<1>3. Len(arrays[a]) \in Nat
  BY <1>2, LenProperties
<1>4. new \in Seq(Hook) /\ Len(new) = Len(arrays[a])
  BY <1>3
<1>5. /\ arrays' \in Seq(Seq(Hook)) /\ Len(arrays') = Len(arrays)
      /\ \A b \in 1..Len(arrays) : arrays'[b] = IF b = a THEN new ELSE arrays[b]
  BY <1>1, <1>4, ExceptSeq
<1> QED
  BY <1>4, <1>5

-----------------------------------------------------------------------------
(***************************************************************************)
(* The types.                                                              *)
(***************************************************************************)

\* The calls under way, whose next hook is left alone, still range over parts
\* of arrays when no array gets shorter.
LEMMA FramesStay ==
    ASSUME TypeOK,
           arrays' \in Seq(Seq(Hook)), Len(arrays') >= Len(arrays),
           \A a \in 1..Len(arrays) : Len(arrays'[a]) = Len(arrays[a]),
           frames' \in Seq(Frame), Len(frames') = Len(frames),
           \A k \in 1..Len(frames) :
              /\ frames'[k].arr = frames[k].arr /\ frames'[k].len = frames[k].len
              /\ frames'[k].next = frames[k].next
    PROVE  \A k \in DOMAIN frames' :
              /\ frames'[k].arr \in DOMAIN arrays'
              /\ frames'[k].len <= Len(arrays'[frames'[k].arr])
              /\ frames'[k].next <= frames'[k].len + 1
<1>1. DOMAIN frames' = 1..Len(frames) /\ DOMAIN arrays' = 1..Len(arrays') /\ Len(arrays') \in Nat
  BY LenProperties
<1>2. ASSUME NEW k \in 1..Len(frames)
      PROVE  /\ frames[k].arr \in 1..Len(arrays')
             /\ frames[k].len <= Len(arrays'[frames[k].arr])
             /\ frames[k].next <= frames[k].len + 1
  <2>1. /\ frames[k].arr \in 1..Len(arrays) /\ Len(arrays) \in Nat
        /\ frames[k].len <= Len(arrays[frames[k].arr])
        /\ frames[k].next <= frames[k].len + 1
    BY FramesType, SliceType
  <2> QED
    BY <1>1, <2>1
<1> QED
  BY <1>1, <1>2

LEMMA InitType == Init => TypeOK
<1> SUFFICES ASSUME Init PROVE TypeOK
  OBVIOUS
<1>1. /\ arrays = << << >> >> /\ slice = [arr |-> 1, len |-> 0] /\ frames = << >>
      /\ ran = Nil /\ result = "none" /\ ops = 0
  BY DEF Init
<1>2. arrays \in Seq(Seq(Hook)) /\ DOMAIN arrays = {1} /\ Len(arrays[1]) = 0
  BY <1>1
<1>3. slice \in Slice /\ slice.arr = 1 /\ slice.len = 0
  BY <1>1 DEF Slice
<1>4. frames \in Seq(Frame) /\ DOMAIN frames = {}
  BY <1>1
<1> QED
  BY <1>1, <1>2, <1>3, <1>4, ConstantsAssumption DEF TypeOK, Array

\* A new array for the list.
LEMMA AllocateType ==
    ASSUME TypeOK, NEW list \in Seq(Hook), NEW spare \in Nat, Allocate(list, spare),
           Change, UNCHANGED frames
    PROVE  TypeOK'
<1>1. /\ arrays' \in Seq(Seq(Hook)) /\ Len(arrays') = Len(arrays) + 1
      /\ \A a \in 1..Len(arrays) : arrays'[a] = arrays[a]
      /\ slice' \in Slice /\ slice'.arr = Len(arrays) + 1 /\ slice'.len = Len(list)
      /\ slice'.len <= Len(arrays'[slice'.arr])
  BY AllocateResult
<1>2. Len(arrays) \in Nat /\ DOMAIN arrays' = 1..(Len(arrays) + 1)
  BY <1>1, SliceType, LenProperties
<1>3. \A k \in DOMAIN frames' :
         /\ frames'[k].arr \in DOMAIN arrays'
         /\ frames'[k].len <= Len(arrays'[frames'[k].arr])
         /\ frames'[k].next <= frames'[k].len + 1
  <2>1. Len(arrays') >= Len(arrays) /\ \A a \in 1..Len(arrays) : Len(arrays'[a]) = Len(arrays[a])
    BY <1>1, <1>2
  <2> QED
    BY <1>1, <2>1, FramesStay, FramesType
<1>4. /\ ran' \in Hook /\ result' \in {"none", "ok", "error"} /\ ops' \in Nat
      /\ frames' \in Seq(Frame)
  BY DEF TypeOK, Change
<1> QED
  BY <1>1, <1>2, <1>3, <1>4 DEF TypeOK, Array

LEMMA AppendType == ASSUME TypeOK, NEW h \in Hook, AppendHook(h) PROVE TypeOK'
<1>1. CASE slice.len < Len(Array)
  <2> DEFINE new == [Array EXCEPT ![slice.len + 1] = h]
  <2>1. /\ slice.arr \in 1..Len(arrays) /\ slice.len \in Nat /\ Len(Array) \in Nat
        /\ Array \in [1..Len(Array) -> Hook] /\ Array = arrays[slice.arr]
        /\ slice = [arr |-> slice.arr, len |-> slice.len] /\ slice.arr \in Nat \ {0}
    BY SliceType, LenProperties DEF Array
  <2>2. new \in [1..Len(arrays[slice.arr]) -> Hook]
    BY <2>1
  <2>3. arrays' = [arrays EXCEPT ![slice.arr] = new]
    BY <1>1, <2>1 DEF AppendHook
  <2>4. slice' = [arr |-> slice.arr, len |-> slice.len + 1]
    BY <1>1, <2>1 DEF AppendHook
  <2> HIDE DEF new
  <2>5. /\ arrays' \in Seq(Seq(Hook)) /\ Len(arrays') = Len(arrays)
        /\ \A b \in 1..Len(arrays) : Len(arrays'[b]) = Len(arrays[b])
    BY <2>1, <2>2, <2>3, WriteResult
  <2>6. DOMAIN arrays' = 1..Len(arrays) /\ Len(arrays) \in Nat
    BY <2>5, SliceType, LenProperties
  <2>7. slice' \in Slice /\ slice'.arr \in DOMAIN arrays' /\ slice'.len <= Len(arrays'[slice'.arr])
    BY <1>1, <2>1, <2>4, <2>5, <2>6 DEF Slice
  <2>8. frames' = frames /\ Change
    BY DEF AppendHook
  <2>9. \A k \in DOMAIN frames' :
           /\ frames'[k].arr \in DOMAIN arrays'
           /\ frames'[k].len <= Len(arrays'[frames'[k].arr])
           /\ frames'[k].next <= frames'[k].len + 1
    BY <2>5, <2>6, <2>8, FramesStay, FramesType
  <2>10. /\ ran' \in Hook /\ result' \in {"none", "ok", "error"} /\ ops' \in Nat
         /\ frames' \in Seq(Frame)
    BY <2>8 DEF TypeOK, Change
  <2> QED
    BY <2>5, <2>7, <2>9, <2>10 DEF TypeOK, Array
<1>2. CASE ~(slice.len < Len(Array))
  <2>1. PICK spare \in 0..MaxSpare : Allocate(Append(Registered, h), spare)
    BY <1>2 DEF AppendHook
  <2>2. Append(Registered, h) \in Seq(Hook) /\ spare \in Nat
    BY SliceType, ConstantsAssumption
  <2>3. Change /\ UNCHANGED frames
    BY DEF AppendHook
  <2> QED
    BY <2>1, <2>2, <2>3, AllocateType
<1> QED
  BY <1>1, <1>2

LEMMA PrependType == ASSUME TypeOK, NEW h \in Hook, PrependHook(h) PROVE TypeOK'
<1>1. PICK spare \in 0..MaxSpare : Allocate(<< h >> \o Registered, spare)
  BY DEF PrependHook
<1>2. << h >> \o Registered \in Seq(Hook) /\ spare \in Nat
  BY SliceType, ConstantsAssumption
<1>3. Change /\ UNCHANGED frames
  BY DEF PrependHook
<1> QED
  BY <1>1, <1>2, <1>3, AllocateType

LEMMA ClearType == ASSUME TypeOK, ClearHooks PROVE TypeOK'
<1>1. << >> \in Seq(Hook) /\ 0 \in Nat
  OBVIOUS
<1> QED
  BY <1>1, AllocateType DEF ClearHooks


LEMMA RemoveType == ASSUME TypeOK, NEW h \in Hook, RemoveHook(h) PROVE TypeOK'
<1>1. PICK i \in 1..slice.len :
         /\ arrays' = [arrays EXCEPT ![slice.arr] =
                         [k \in 1..Len(Array) |->
                             IF i <= k /\ k < slice.len THEN Array[k + 1] ELSE Array[k]]]
         /\ slice' = [slice EXCEPT !.len = @ - 1]
  BY DEF RemoveHook
<1>2. /\ frames' = [k \in 1..Len(frames) |-> [frames[k] EXCEPT !.disturbed = TRUE]]
      /\ Change
  BY DEF RemoveHook
<1>3. /\ slice.arr \in 1..Len(arrays) /\ slice.arr \in Nat \ {0} /\ slice.len \in Nat
      /\ slice = [arr |-> slice.arr, len |-> slice.len]
      /\ Array = arrays[slice.arr] /\ Len(Array) \in Nat /\ slice.len <= Len(Array)
      /\ \A k \in 1..Len(Array) : Array[k] \in Hook
  BY SliceType DEF Array
<1> DEFINE new == [k \in 1..Len(Array) |->
                      IF i <= k /\ k < slice.len THEN Array[k + 1] ELSE Array[k]]
<1>4. new \in [1..Len(arrays[slice.arr]) -> Hook] /\ arrays' = [arrays EXCEPT ![slice.arr] = new]
  BY <1>1, <1>3
<1> HIDE DEF new
<1>5. /\ arrays' \in Seq(Seq(Hook)) /\ Len(arrays') = Len(arrays)
      /\ \A b \in 1..Len(arrays) : Len(arrays'[b]) = Len(arrays[b])
  BY <1>3, <1>4, WriteResult
<1>6. DOMAIN arrays' = 1..Len(arrays) /\ Len(arrays) \in Nat
  BY <1>5, SliceType, LenProperties
<1>7. slice' = [arr |-> slice.arr, len |-> slice.len - 1]
  BY <1>1, <1>3
<1>8. slice' \in Slice /\ slice'.arr \in DOMAIN arrays' /\ slice'.len <= Len(arrays'[slice'.arr])
  <2>1. slice'.arr = slice.arr /\ slice'.len = slice.len - 1
    BY <1>7
  <2>2. slice.len - 1 \in Nat /\ slice.len - 1 <= Len(arrays[slice.arr])
    BY <1>1, <1>3
  <2>3. Len(arrays'[slice.arr]) = Len(arrays[slice.arr]) /\ slice.arr \in DOMAIN arrays'
    BY <1>3, <1>5, <1>6
  <2> QED
    BY <1>3, <1>7, <2>1, <2>2, <2>3 DEF Slice
<1>9. Len(frames) \in Nat /\ \A k \in 1..Len(frames) : frames[k] \in Frame
  BY FramesType
<1>10. \A k \in 1..Len(frames) : [frames[k] EXCEPT !.disturbed = TRUE] \in Frame
  BY <1>9 DEF Frame
<1>11. frames' \in Seq(Frame) /\ Len(frames') = Len(frames)
  BY <1>2, <1>9, <1>10
<1>12. \A k \in 1..Len(frames) :
          /\ frames'[k].arr = frames[k].arr /\ frames'[k].len = frames[k].len
          /\ frames'[k].next = frames[k].next
  BY <1>2, <1>9 DEF Frame
<1>13. \A k \in DOMAIN frames' :
          /\ frames'[k].arr \in DOMAIN arrays'
          /\ frames'[k].len <= Len(arrays'[frames'[k].arr])
          /\ frames'[k].next <= frames'[k].len + 1
  BY <1>5, <1>6, <1>11, <1>12, FramesStay
<1>14. ran' \in Hook /\ result' \in {"none", "ok", "error"} /\ ops' \in Nat
  BY <1>2 DEF TypeOK, Change
<1> QED
  BY <1>5, <1>8, <1>11, <1>13, <1>14 DEF TypeOK, Array

LEMMA CallType == ASSUME TypeOK, CallHooks PROVE TypeOK'
<1> DEFINE f == [arr |-> slice.arr, len |-> slice.len, next |-> 1, disturbed |-> FALSE]
<1>1. frames' = Append(frames, f) /\ UNCHANGED << arrays, slice, ran, result, ops >>
  BY DEF CallHooks
<1>2. f \in Frame
  BY SliceType DEF Frame
<1>3. /\ frames' \in Seq(Frame) /\ Len(frames') = Len(frames) + 1
      /\ \A k \in 1..Len(frames) : frames'[k] = frames[k]
      /\ frames'[Len(frames) + 1] = f
      /\ DOMAIN frames' = 1..(Len(frames) + 1) /\ Len(frames) \in Nat
  <2>1. frames \in Seq(Frame) /\ Len(frames) \in Nat
    BY FramesType
  <2> HIDE DEF f
  <2>2. /\ frames' \in Seq(Frame) /\ Len(frames') = Len(frames) + 1
        /\ \A k \in 1..Len(frames) : frames'[k] = frames[k]
        /\ frames'[Len(frames) + 1] = f
    BY <1>1, <1>2, <2>1, AppendProperties
  <2> QED
    BY <2>1, <2>2, LenProperties
<1>4. f.arr = slice.arr /\ f.len = slice.len /\ f.next = 1
  OBVIOUS
<1> HIDE DEF f
<1>5. \A k \in DOMAIN frames' :
         /\ frames'[k].arr \in DOMAIN arrays
         /\ frames'[k].len <= Len(arrays[frames'[k].arr])
         /\ frames'[k].next <= frames'[k].len + 1
  <2> TAKE k \in DOMAIN frames'
  <2>1. CASE k \in 1..Len(frames)
    BY <1>3, <2>1, FramesType, SliceType
  <2>2. CASE k = Len(frames) + 1
    BY <1>3, <1>4, <2>2, SliceType DEF Array
  <2> QED
    BY <1>3, <2>1, <2>2
<1> QED
  BY <1>1, <1>3, <1>5 DEF TypeOK, Array

\* The innermost call.
LEMMA TopType ==
    ASSUME TypeOK, frames # << >>
    PROVE  /\ Len(frames) \in 1..Len(frames) /\ Top = frames[Len(frames)]
           /\ Top \in Frame /\ Len(frames) - 1 \in Nat
<1>1. Len(frames) \in Nat \ {0}
  BY FramesType, EmptySeq
<1> QED
  BY <1>1, FramesType DEF Top

LEMMA RunType == ASSUME TypeOK, RunHook PROVE TypeOK'
<1> DEFINE n == Len(frames)
<1>1. /\ frames # << >> /\ Top.next <= Top.len
      /\ ran' = IF arrays[Top.arr][Top.next] = Nil THEN ran ELSE arrays[Top.arr][Top.next]
      /\ frames' = [frames EXCEPT ![n].next = @ + 1]
      /\ UNCHANGED << arrays, slice, result, ops >>
  BY DEF RunHook
<1>2. n \in 1..n /\ Top = frames[n] /\ Top \in Frame
  BY <1>1, TopType
<1>3. /\ arrays[Top.arr][Top.next] \in Hook
      /\ frames \in Seq(Frame) /\ n \in Nat /\ DOMAIN frames = 1..n
  BY <1>1, <1>2, FramesType, SMTT(60) DEF Frame
<1>4. [Top EXCEPT !.next = @ + 1] \in Frame
  BY <1>2 DEF Frame
<1>5. frames' = [frames EXCEPT ![n] = [Top EXCEPT !.next = @ + 1]]
  BY <1>1, <1>2
<1>6. /\ frames' \in Seq(Frame) /\ Len(frames') = n
      /\ \A k \in 1..n : frames'[k] = IF k = n THEN [Top EXCEPT !.next = @ + 1] ELSE frames[k]
  BY <1>2, <1>3, <1>4, <1>5, ExceptSeq
<1>7. DOMAIN frames' = 1..n
  BY <1>6, LenProperties
<1>8. \A k \in DOMAIN frames' :
         /\ frames'[k].arr \in DOMAIN arrays
         /\ frames'[k].len <= Len(arrays[frames'[k].arr])
         /\ frames'[k].next <= frames'[k].len + 1
  <2> TAKE k \in DOMAIN frames'
  <2>1. CASE k # n
    BY <1>6, <1>7, <2>1, FramesType, SliceType
  <2>2. CASE k = n
    <3>1. frames'[k].arr = Top.arr /\ frames'[k].len = Top.len /\ frames'[k].next = Top.next + 1
      BY <1>2, <1>6, <2>2 DEF Frame
    <3> QED
      BY <1>1, <1>2, <2>2, <3>1, FramesType, SliceType DEF Frame
  <2> QED
    BY <2>1, <2>2
<1>9. ran' \in Hook
  BY <1>1, <1>3 DEF TypeOK
<1> QED
  BY <1>1, <1>6, <1>8, <1>9 DEF TypeOK, Array

LEMMA ReturnType == ASSUME TypeOK, NEW r \in {"ok", "error"}, CallReturns(r) PROVE TypeOK'
<1>1. /\ frames # << >> /\ frames' = SubSeq(frames, 1, Len(frames) - 1) /\ result' = r
      /\ UNCHANGED << arrays, slice, ran, ops >>
  BY DEF CallReturns
<1>2. Len(frames) - 1 \in Nat /\ \A k \in 1..(Len(frames) - 1) : frames[k] \in Frame
  BY <1>1, TopType, FramesType
<1>3. /\ frames' \in Seq(Frame) /\ Len(frames') = Len(frames) - 1
      /\ \A k \in 1..(Len(frames) - 1) : frames'[k] = frames[k]
  <2> DEFINE n == Len(frames) - 1
  <2>1. n \in Nat /\ n \in Int /\ 1 \in Int
    BY <1>2
  <2> HIDE DEF n
  <2>2. \A k \in 1..n : frames[k] \in Frame
    BY <1>2 DEF n
  <2>3. /\ SubSeq(frames, 1, n) \in Seq(Frame)
        /\ Len(SubSeq(frames, 1, n)) = IF 1 <= n THEN n - 1 + 1 ELSE 0
        /\ \A k \in 1..(n - 1 + 1) : SubSeq(frames, 1, n)[k] = frames[1 + k - 1]
    BY <2>1, <2>2, SubSeqProperties
  <2>4. /\ frames' \in Seq(Frame) /\ Len(frames') = n
        /\ \A k \in 1..n : frames'[k] = frames[k]
    <3>1. frames' = SubSeq(frames, 1, n)
      BY <1>1 DEF n
    <3> QED
      BY <2>1, <2>3, <3>1
  <2> QED
    BY <2>4 DEF n
<1>4. DOMAIN frames' = 1..(Len(frames) - 1)
  BY <1>3, LenProperties
<1>5. \A k \in DOMAIN frames' :
         /\ frames'[k].arr \in DOMAIN arrays
         /\ frames'[k].len <= Len(arrays[frames'[k].arr])
         /\ frames'[k].next <= frames'[k].len + 1
  BY <1>2, <1>3, <1>4, FramesType, SliceType
<1> QED
  BY <1>1, <1>3, <1>5 DEF TypeOK, Array

LEMMA StepType == TypeOK /\ [Next]_vars => TypeOK'
<1> SUFFICES ASSUME TypeOK, [Next]_vars PROVE TypeOK'
  OBVIOUS
<1>1. ASSUME NEW h \in Hook, AppendHook(h) \/ PrependHook(h) \/ RemoveHook(h) PROVE TypeOK'
  BY <1>1, AppendType, PrependType, RemoveType
<1>2. CASE UNCHANGED vars
  BY <1>2 DEF TypeOK, vars, Array
<1>3. CASE ClearHooks \/ CallHooks \/ RunHook
  BY <1>3, ClearType, CallType, RunType
<1>4. ASSUME NEW r \in {"ok", "error"}, CallReturns(r) PROVE TypeOK'
  BY <1>4, ReturnType
<1> QED
  BY <1>1, <1>2, <1>3, <1>4 DEF Next, Over

\* Every variable keeps its type, and no slice or call ever reaches past the end
\* of its array (raml.go: the slices under a key and those callHooks ranges over).
THEOREM TypeCorrect == Spec => []TypeOK
<1> QED
  BY InitType, StepType, PTL DEF Spec


-----------------------------------------------------------------------------
(***************************************************************************)
(* The refinement.  A call reads what it still has to run from the array   *)
(* it started with.  That array may be written to: AppendHook writes one   *)
(* past the end of the list.  Hence Room.                                  *)
(***************************************************************************)

\* A call that no removal has disturbed ranges over no more than the list, if
\* it ranges over the array of the list.
Room ==
    \A k \in 1..Len(frames) :
        ~frames[k].disturbed /\ frames[k].arr = slice.arr => frames[k].len <= slice.len

IInv == TypeOK /\ Room

\* The calls of HookList.
Mapped(k) == [kept |-> ~frames[k].disturbed, owed |-> Owed(frames[k])]
Calls     == [k \in 1..Len(frames) |-> Mapped(k)]

\* The list is written to only past its end, and arrays of calls under way not
\* at all: each call owes what it owed.
LEMMA SameCalls ==
    ASSUME IInv, UNCHANGED frames,
           \A k \in 1..Len(frames) : ~frames[k].disturbed =>
              \A i \in 1..frames[k].len : arrays'[frames[k].arr][i] = arrays[frames[k].arr][i]
    PROVE  Calls' = Calls
<1>1. ASSUME NEW k \in 1..Len(frames) PROVE Mapped(k)' = Mapped(k)
  <2>1. frames' = frames /\ frames[k] \in Frame
    BY FramesType DEF IInv
  <2>2. CASE frames[k].disturbed
    BY <2>1, <2>2 DEF Mapped, Owed
  <2>3. CASE ~frames[k].disturbed
    <3> DEFINE f == frames[k]
    <3>1. f.len \in Nat /\ f.next \in Nat \ {0}
      BY <2>1 DEF Frame
    <3>2. \A j \in 1..(f.len + 1 - f.next) : f.next + j - 1 \in 1..f.len
      BY <3>1
    <3>3. \A j \in 1..(f.len + 1 - f.next) : arrays'[f.arr][f.next + j - 1] = arrays[f.arr][f.next + j - 1]
      BY <2>3, <3>2
    <3>4. [j \in 1..(f.len + 1 - f.next) |-> arrays'[f.arr][f.next + j - 1]]
            = [j \in 1..(f.len + 1 - f.next) |-> arrays[f.arr][f.next + j - 1]]
      BY <3>3
    <3> QED
      BY <2>1, <2>3, <3>4 DEF Mapped, Owed
  <2> QED
    BY <2>2, <2>3
<1> QED
  BY <1>1 DEF Calls

\* A new array leaves all calls as they are.
LEMMA AllocateStep ==
    ASSUME IInv, NEW list \in Seq(Hook), NEW spare \in Nat, Allocate(list, spare),
           UNCHANGED frames
    PROVE  Registered' = list /\ Calls' = Calls /\ Room'
<1>1. /\ \A a \in 1..Len(arrays) : arrays'[a] = arrays[a]
      /\ slice'.arr = Len(arrays) + 1 /\ Registered' = list
  BY AllocateResult DEF IInv
<1>2. \A k \in 1..Len(frames) : frames[k].arr \in 1..Len(arrays) /\ Len(arrays) \in Nat
  BY FramesType, SliceType DEF IInv
<1>3. Calls' = Calls
  BY <1>1, <1>2, SameCalls
<1>4. Room'
  BY <1>1, <1>2 DEF Room
<1> QED
  BY <1>1, <1>3, <1>4

LEMMA AppendStep ==
    ASSUME IInv, NEW h \in Hook, AppendHook(h)
    PROVE  Registered' = Append(Registered, h) /\ Calls' = Calls /\ Room'
<1>1. CASE slice.len < Len(Array)
  <2> DEFINE new == [Array EXCEPT ![slice.len + 1] = h]
  <2>1. /\ slice.arr \in 1..Len(arrays) /\ slice.len \in Nat /\ Len(Array) \in Nat
        /\ Array \in [1..Len(Array) -> Hook] /\ Array = arrays[slice.arr]
        /\ slice = [arr |-> slice.arr, len |-> slice.len]
        /\ Registered \in Seq(Hook) /\ Len(Registered) = slice.len
    BY SliceType, LenProperties DEF Array, IInv
  <2>2. new \in [1..Len(arrays[slice.arr]) -> Hook]
    BY <2>1
  <2>3. arrays' = [arrays EXCEPT ![slice.arr] = new] /\ frames' = frames
    BY <1>1, <2>1 DEF AppendHook
  <2>4. slice' = [arr |-> slice.arr, len |-> slice.len + 1]
    BY <1>1, <2>1 DEF AppendHook
  <2>5. \A i \in 1..slice.len : new[i] = Array[i]
    BY <1>1, <2>1
  <2>6. new[slice.len + 1] = h
    BY <1>1, <2>1
  <2> HIDE DEF new
  <2>7. /\ \A b \in 1..Len(arrays) : b # slice.arr => arrays'[b] = arrays[b]
        /\ arrays'[slice.arr] = new
    BY <2>1, <2>2, <2>3, WriteResult DEF IInv
  <2>8. Registered' = [k \in 1..(slice.len + 1) |-> new[k]]
    BY <2>4, <2>7 DEF Registered, Array
  <2>9. /\ Append(Registered, h) \in Seq(Hook) /\ Len(Append(Registered, h)) = slice.len + 1
        /\ \A k \in 1..slice.len : Append(Registered, h)[k] = Array[k]
        /\ Append(Registered, h)[slice.len + 1] = h
    <3>1. \A k \in 1..slice.len : Registered[k] = Array[k]
      BY DEF Registered
    <3> QED
      BY <2>1, <3>1, AppendProperties
  <2>10. \A k \in 1..(slice.len + 1) : new[k] = Append(Registered, h)[k]
    BY <2>1, <2>5, <2>6, <2>9
  <2>11. Registered' = Append(Registered, h)
    <3>1. Append(Registered, h) = [k \in 1..(slice.len + 1) |-> Append(Registered, h)[k]]
      BY <2>9, LenProperties
    <3> QED
      BY <2>8, <2>10, <3>1
  <2>12. \A k \in 1..Len(frames) : ~frames[k].disturbed =>
            \A i \in 1..frames[k].len : arrays'[frames[k].arr][i] = arrays[frames[k].arr][i]
    <3> SUFFICES ASSUME NEW k \in 1..Len(frames), ~frames[k].disturbed,
                        NEW i \in 1..frames[k].len
                 PROVE  arrays'[frames[k].arr][i] = arrays[frames[k].arr][i]
      OBVIOUS
    <3>1. frames[k] \in Frame /\ frames[k].arr \in 1..Len(arrays) /\ frames[k].len \in Nat
      BY FramesType DEF IInv, Frame
    <3>2. CASE frames[k].arr = slice.arr
      <4>1. i \in 1..slice.len
        BY <2>1, <3>1, <3>2 DEF IInv, Room
      <4> QED
        BY <2>1, <2>5, <2>7, <3>2, <4>1
    <3>3. CASE frames[k].arr # slice.arr
      BY <2>7, <3>1, <3>3
    <3> QED
      BY <3>2, <3>3
  <2>13. Calls' = Calls
    BY <2>3, <2>12, SameCalls
  <2>14. Room'
    <3>1. slice'.arr = slice.arr /\ slice'.len = slice.len + 1
      BY <2>4
    <3>2. \A k \in 1..Len(frames) : frames[k].len \in Nat
      BY FramesType DEF IInv, Frame
    <3> QED
      BY <2>1, <2>3, <3>1, <3>2 DEF IInv, Room
  <2> QED
    BY <2>11, <2>13, <2>14
<1>2. CASE ~(slice.len < Len(Array))
  <2>1. PICK spare \in 0..MaxSpare : Allocate(Append(Registered, h), spare)
    BY <1>2 DEF AppendHook
  <2>2. Append(Registered, h) \in Seq(Hook) /\ spare \in Nat
    BY SliceType, ConstantsAssumption DEF IInv
  <2>3. UNCHANGED frames
    BY DEF AppendHook
  <2> QED
    BY <2>1, <2>2, <2>3, AllocateStep
<1> QED
  BY <1>1, <1>2

LEMMA PrependStep ==
    ASSUME IInv, NEW h \in Hook, PrependHook(h)
    PROVE  Registered' = << h >> \o Registered /\ Calls' = Calls /\ Room'
<1>1. PICK spare \in 0..MaxSpare : Allocate(<< h >> \o Registered, spare)
  BY DEF PrependHook
<1>2. << h >> \o Registered \in Seq(Hook) /\ spare \in Nat
  BY SliceType, ConstantsAssumption DEF IInv
<1>3. UNCHANGED frames
  BY DEF PrependHook
<1> QED
  BY <1>1, <1>2, <1>3, AllocateStep

LEMMA ClearStep ==
    ASSUME IInv, ClearHooks
    PROVE  Registered' = << >> /\ Calls' = Calls /\ Room'
<1>1. << >> \in Seq(Hook) /\ 0 \in Nat
  OBVIOUS
<1> QED
  BY <1>1, AllocateStep DEF ClearHooks


\* The calls and the list, as HookList has them.
LEMMA CallsType ==
    ASSUME TypeOK
    PROVE  /\ Calls \in Seq([kept : BOOLEAN, owed : Seq(Hook)])
           /\ Len(Calls) = Len(frames) /\ Len(frames) \in Nat
           /\ (Calls # << >>) = (frames # << >>)
           /\ \A k \in 1..Len(frames) :
                 /\ Calls[k] = Mapped(k)
                 /\ Calls[k].kept = ~frames[k].disturbed /\ Calls[k].owed = Owed(frames[k])
<1>1. ASSUME NEW k \in 1..Len(frames)
      PROVE  Mapped(k) \in [kept : BOOLEAN, owed : Seq(Hook)]
  <2>1. Owed(frames[k]) \in Seq(Hook)
    <3>1. CASE frames[k].disturbed
      BY <3>1 DEF Owed
    <3>2. CASE ~frames[k].disturbed
      <4>1. /\ frames[k].len \in Nat /\ frames[k].next \in Nat \ {0}
            /\ frames[k].next <= frames[k].len + 1
            /\ \A i \in 1..frames[k].len : arrays[frames[k].arr][i] \in Hook
        BY FramesType DEF Frame
      <4>2. frames[k].len + 1 - frames[k].next \in Nat
        BY <4>1
      <4>3. \A j \in 1..(frames[k].len + 1 - frames[k].next) :
               arrays[frames[k].arr][frames[k].next + j - 1] \in Hook
        BY <4>1, SMTT(60)
      <4> QED
        BY <3>2, <4>2, <4>3 DEF Owed
    <3> QED
      BY <3>1, <3>2
  <2>2. frames[k].disturbed \in BOOLEAN
    BY FramesType DEF Frame
  <2> QED
    BY <2>1, <2>2 DEF Mapped
<1>2. Len(frames) \in Nat
  BY FramesType
<1>3. Calls \in Seq([kept : BOOLEAN, owed : Seq(Hook)]) /\ Len(Calls) = Len(frames)
  BY <1>1, <1>2 DEF Calls
<1>4. (Calls # << >>) = (frames # << >>)
  BY <1>2, <1>3, FramesType, EmptySeq
<1>5. \A k \in 1..Len(frames) : Calls[k] = Mapped(k)
  BY DEF Calls
<1> QED
  BY <1>2, <1>3, <1>4, <1>5 DEF Mapped

\* Removing a hook: the list loses its first hook of that code, and all calls
\* under way are disturbed.
LEMMA RemoveStep ==
    ASSUME IInv, NEW h \in Hook, RemoveHook(h)
    PROVE  List!Remove(h) /\ Room'
<1>1. PICK i \in 1..slice.len :
         /\ First(i, h)
         /\ arrays' = [arrays EXCEPT ![slice.arr] =
                         [k \in 1..Len(Array) |->
                             IF i <= k /\ k < slice.len THEN Array[k + 1] ELSE Array[k]]]
         /\ slice' = [slice EXCEPT !.len = @ - 1]
  BY DEF RemoveHook
<1>2. /\ frames' = [k \in 1..Len(frames) |-> [frames[k] EXCEPT !.disturbed = TRUE]]
      /\ UNCHANGED << ran, result >>
  BY DEF RemoveHook, Change
<1>3. /\ slice.arr \in 1..Len(arrays) /\ slice.len \in Nat
      /\ slice = [arr |-> slice.arr, len |-> slice.len]
      /\ Array = arrays[slice.arr] /\ Len(Array) \in Nat /\ slice.len <= Len(Array)
      /\ \A k \in 1..Len(Array) : Array[k] \in Hook
      /\ Len(Registered) = slice.len
  BY SliceType DEF Array, IInv
<1> DEFINE new == [k \in 1..Len(Array) |->
                      IF i <= k /\ k < slice.len THEN Array[k + 1] ELSE Array[k]]
<1>4. new \in [1..Len(arrays[slice.arr]) -> Hook] /\ arrays' = [arrays EXCEPT ![slice.arr] = new]
  BY <1>1, <1>3
<1>5. arrays'[slice.arr] = new
  BY <1>3, <1>4, WriteResult DEF IInv
<1>6. slice' = [arr |-> slice.arr, len |-> slice.len - 1]
  BY <1>1, <1>3
<1>7. Registered' = [k \in 1..(slice.len - 1) |-> new[k]]
  BY <1>5, <1>6 DEF Registered, Array
<1>8. ASSUME NEW k \in 1..(slice.len - 1)
      PROVE  new[k] = IF k < i THEN Registered[k] ELSE Registered[k + 1]
  BY <1>1, <1>3 DEF Registered
<1>9. Registered' = [k \in 1..(Len(Registered) - 1) |->
                        IF k < i THEN Registered[k] ELSE Registered[k + 1]]
  BY <1>3, <1>7, <1>8
<1>10. /\ i \in 1..Len(Registered) /\ Code[Registered[i]] = Code[h]
       /\ \A j \in 1..(i - 1) : Code[Registered[j]] # Code[h]
  BY <1>1, <1>3 DEF First, Registered
<1>11. frames \in Seq(Frame) /\ Len(frames) \in Nat /\ Len(Calls) = Len(frames)
  BY FramesType, CallsType DEF IInv
<1>12. /\ Len(frames') = Len(frames)
       /\ \A k \in 1..Len(frames) : frames'[k].disturbed
  <2>1. \A k \in 1..Len(frames) : [frames[k] EXCEPT !.disturbed = TRUE].disturbed
    BY FramesType DEF IInv, Frame
  <2>2. Len(frames') = Len(frames)
    BY <1>2, <1>11
  <2>3. \A k \in 1..Len(frames) : frames'[k] = [frames[k] EXCEPT !.disturbed = TRUE]
    BY <1>2
  <2> QED
    BY <2>1, <2>2, <2>3
<1>13. \A k \in 1..Len(frames) : Mapped(k)' = [kept |-> FALSE, owed |-> << >>]
  BY <1>12 DEF Mapped, Owed
<1>14. Calls' = [k \in 1..Len(Calls) |-> [kept |-> FALSE, owed |-> << >>]]
  BY <1>11, <1>12, <1>13 DEF Calls
<1>15. List!Remove(h)
  BY <1>2, <1>9, <1>10, <1>14 DEF List!Remove, Calls, Mapped
<1>16. Room'
  BY <1>12 DEF Room
<1> QED
  BY <1>15, <1>16

LEMMA StartStep == ASSUME IInv, CallHooks PROVE List!Start /\ Room'
<1> DEFINE f == [arr |-> slice.arr, len |-> slice.len, next |-> 1, disturbed |-> FALSE]
           n == Len(frames)
<1>1. frames' = Append(frames, f) /\ UNCHANGED << arrays, slice, ran, result >>
  BY DEF CallHooks
<1>2. /\ frames \in Seq(Frame) /\ n \in Nat /\ slice.len \in Nat /\ slice.arr \in Nat \ {0}
      /\ Array = arrays[slice.arr] /\ Registered \in Seq(Hook)
  BY FramesType, SliceType DEF IInv, Array
<1>3. f \in Frame
  BY <1>2 DEF Frame
<1>4. /\ f.arr = slice.arr /\ f.len = slice.len /\ f.next = 1 /\ f.disturbed = FALSE
  OBVIOUS
<1>5. Owed(f)' = Registered
  <2>1. [k \in 1..(slice.len + 1 - 1) |-> arrays'[slice.arr][1 + k - 1]]
          = [k \in 1..slice.len |-> Array[k]]
    BY <1>1, <1>2
  <2> QED
    BY <1>1, <1>4, <2>1 DEF Owed, Registered
<1> HIDE DEF f
<1>6. /\ Len(frames') = n + 1 /\ frames'[n + 1] = f
      /\ \A k \in 1..n : frames'[k] = frames[k]
  BY <1>1, <1>2, <1>3, AppendProperties
<1>7. \A k \in 1..n : Mapped(k)' = Mapped(k)
  BY <1>1, <1>6 DEF Mapped, Owed
<1>8. ASSUME NEW k \in {n + 1} PROVE Mapped(k)' = [kept |-> TRUE, owed |-> Registered]
  <2>1. frames'[k] = f
    BY <1>6
  <2>2. Owed(frames[k])' = Owed(f)'
    <3>1. f' = f
      BY <1>1 DEF f
    <3> QED
      BY <2>1, <3>1 DEF Owed
  <2>3. frames'[k].disturbed = FALSE
    BY <1>4, <2>1
  <2> QED
    BY <1>5, <2>2, <2>3 DEF Mapped
<1>9. Calls' = [k \in 1..(n + 1) |-> IF k = n + 1 THEN [kept |-> TRUE, owed |-> Registered] ELSE Calls[k]]
  <2>1. \A k \in 1..(n + 1) :
           Mapped(k)' = IF k = n + 1 THEN [kept |-> TRUE, owed |-> Registered] ELSE Calls[k]
    <3> TAKE k \in 1..(n + 1)
    <3>1. CASE k = n + 1
      BY <1>8, <3>1
    <3>2. CASE k # n + 1
      BY <1>2, <1>7, <3>2 DEF Calls
    <3> QED
      BY <3>1, <3>2
  <2> QED
    BY <1>6, <2>1 DEF Calls
<1>10. Calls' = Append(Calls, [kept |-> TRUE, owed |-> Registered])
  <2> DEFINE c == [kept |-> TRUE, owed |-> Registered]
             C == [kept : BOOLEAN, owed : Seq(Hook)]
  <2>1. c \in C /\ Calls \in Seq(C) /\ Len(Calls) = n
    BY <1>2, CallsType DEF IInv
  <2>2. /\ Append(Calls, c) \in Seq(C) /\ Len(Append(Calls, c)) = n + 1
        /\ \A k \in 1..n : Append(Calls, c)[k] = Calls[k]
        /\ Append(Calls, c)[n + 1] = c
    <3> HIDE DEF c, C
    <3> QED
      BY <2>1, AppendProperties
  <2>3. Append(Calls, c) = [k \in 1..(n + 1) |-> Append(Calls, c)[k]]
    <3> HIDE DEF c, C
    <3> QED
      BY <2>2, LenProperties
  <2>4. \A k \in 1..(n + 1) : Append(Calls, c)[k] = IF k = n + 1 THEN c ELSE Calls[k]
    <3> HIDE DEF c, C
    <3> QED
      BY <1>2, <2>2
  <2> HIDE DEF C
  <2> QED
    BY <1>9, <2>3, <2>4
<1>11. Registered' = Registered
  BY <1>1 DEF Registered, Array
<1>12. List!Start
  BY <1>1, <1>10, <1>11 DEF List!Start, Calls, Mapped
<1>13. Room'
  <2>1. slice' = slice
    BY <1>1
  <2>2. \A k \in 1..(n + 1) : ~frames'[k].disturbed /\ frames'[k].arr = slice.arr => frames'[k].len <= slice.len
    BY <1>2, <1>4, <1>6 DEF IInv, Room
  <2> QED
    BY <1>6, <2>1, <2>2 DEF Room
<1> QED
  BY <1>12, <1>13


LEMMA RunStep == ASSUME IInv, RunHook PROVE List!Run /\ Room'
<1> DEFINE n == Len(frames)
           C == [kept : BOOLEAN, owed : Seq(Hook)]
<1>1. /\ frames # << >> /\ Top.next <= Top.len
      /\ ran' = IF arrays[Top.arr][Top.next] = Nil THEN ran ELSE arrays[Top.arr][Top.next]
      /\ frames' = [frames EXCEPT ![n].next = @ + 1]
      /\ UNCHANGED << arrays, slice, result >>
  BY DEF RunHook
<1>2. /\ n \in 1..n /\ n \in Nat /\ Top = frames[n] /\ Top \in Frame /\ frames \in Seq(Frame)
      /\ Top.next \in Nat \ {0} /\ Top.len \in Nat
      /\ arrays[Top.arr][Top.next] \in Hook
  <2>1. TypeOK
    BY DEF IInv
  <2>2. n \in 1..n /\ Top = frames[n] /\ Top \in Frame
    BY <1>1, <2>1, TopType
  <2>3. Top.next \in Nat \ {0} /\ Top.len \in Nat
    BY <2>2 DEF Frame
  <2>4. /\ frames \in Seq(Frame) /\ n \in Nat
        /\ \A i \in 1..frames[n].len : arrays[frames[n].arr][i] \in Hook
    BY <2>1, <2>2, FramesType
  <2>5. Top.next \in 1..Top.len
    BY <1>1, <2>3
  <2> QED
    BY <2>2, <2>3, <2>4, <2>5
<1>3. /\ Calls \in Seq(C) /\ Len(Calls) = n /\ Calls # << >>
      /\ Calls[n].kept = ~Top.disturbed /\ Calls[n].owed = Owed(Top)
  BY <1>1, <1>2, CallsType DEF IInv
<1>4. [Top EXCEPT !.next = @ + 1] \in Frame
  <2>1. Top \in Frame
    BY <1>2
  <2> QED
    BY <2>1 DEF Frame
<1>5. /\ Len(frames') = n
      /\ \A k \in 1..n : frames'[k] = IF k = n THEN [Top EXCEPT !.next = @ + 1] ELSE frames[k]
  <2>1. frames' = [frames EXCEPT ![n] = [Top EXCEPT !.next = @ + 1]]
    BY <1>1, <1>2
  <2> QED
    BY <1>2, <1>4, <2>1, ExceptSeq
<1>6. Room'
  <2>1. slice' = slice
    BY <1>1
  <2>2. \A k \in 1..n : /\ frames'[k].disturbed = frames[k].disturbed
                        /\ frames'[k].arr = frames[k].arr /\ frames'[k].len = frames[k].len
    <3> TAKE k \in 1..n
    <3>1. CASE k = n
      <4>1. frames'[k] = [Top EXCEPT !.next = @ + 1] /\ frames[k] = Top /\ Top \in Frame
        BY <1>2, <1>5, <3>1
      <4> QED
        BY <4>1 DEF Frame
    <3>2. CASE k # n
      BY <1>5, <3>2
    <3> QED
      BY <3>1, <3>2
  <2> QED
    BY <1>5, <2>1, <2>2 DEF IInv, Room
<1>7. Registered' = Registered
  BY <1>1 DEF Registered, Array
<1>8. ASSUME NEW k \in 1..n, k # n PROVE Mapped(k)' = Mapped(k)
  <2>1. frames'[k] = frames[k] /\ arrays' = arrays
    BY <1>1, <1>5, <1>8
  <2> QED
    BY <2>1 DEF Mapped, Owed
<1>9. /\ [Top EXCEPT !.next = @ + 1].disturbed = Top.disturbed
      /\ [Top EXCEPT !.next = @ + 1].arr = Top.arr
      /\ [Top EXCEPT !.next = @ + 1].len = Top.len
      /\ [Top EXCEPT !.next = @ + 1].next = Top.next + 1
  BY <1>2 DEF Frame
<1>10. CASE Top.disturbed
  <2>1. \A k \in 1..n : Mapped(k)' = Mapped(k)
    <3>1. \A k \in {n} : frames'[k].disturbed /\ frames[k].disturbed
      BY <1>2, <1>5, <1>9, <1>10
    <3>2. \A k \in {n} : Mapped(k)' = Mapped(k)
      BY <3>1 DEF Mapped, Owed
    <3> QED
      BY <1>8, <3>2
  <2>2. Calls' = Calls
    BY <1>5, <2>1 DEF Calls
  <2>3. ran' \in Hook
    BY <1>1, <1>2 DEF IInv, TypeOK
  <2>4. List!Top = Calls[n]
    BY <1>3 DEF List!Top, Calls, Mapped
  <2> QED
    BY <1>1, <1>3, <1>6, <1>7, <1>10, <2>2, <2>3, <2>4 DEF List!Run, Calls, Mapped
<1>11. CASE ~Top.disturbed
  <2> DEFINE owed == Owed(Top)
  <2>1. /\ owed = [j \in 1..(Top.len + 1 - Top.next) |-> arrays[Top.arr][Top.next + j - 1]]
        /\ owed \in Seq(Hook) /\ Len(owed) = Top.len + 1 - Top.next
        /\ Top.len + 1 - Top.next \in Nat \ {0}
    <3>1. owed \in Seq(Hook)
      <4>1. Calls[n] \in C
        BY <1>2, <1>3, ElementOfSeq
      <4>2. Calls[n].owed \in Seq(Hook)
        BY <4>1
      <4> QED
        BY <1>3, <4>2
    <3>2. Top.len + 1 - Top.next \in Nat \ {0}
      BY <1>1, <1>2
    <3>3. owed = [j \in 1..(Top.len + 1 - Top.next) |-> arrays[Top.arr][Top.next + j - 1]]
      BY <1>11 DEF Owed
    <3> HIDE DEF owed
    <3> QED
      BY <3>1, <3>2, <3>3
  <2>2. owed # << >> /\ Head(owed) = arrays[Top.arr][Top.next]
    <3>1. owed[1] = arrays[Top.arr][Top.next]
      BY <1>2, <2>1
    <3> HIDE DEF owed
    <3> QED
      BY <2>1, <3>1
  <2>3. Tail(owed) = [j \in 1..(Top.len - Top.next) |-> arrays[Top.arr][Top.next + 1 + j - 1]]
    <3>1. \A j \in 1..(Top.len - Top.next) : owed[j + 1] = arrays[Top.arr][Top.next + 1 + j - 1]
      <4> TAKE j \in 1..(Top.len - Top.next)
      <4>1. j + 1 \in 1..(Top.len + 1 - Top.next) /\ Top.next + (j + 1) - 1 = Top.next + 1 + j - 1
        BY <1>2
      <4> HIDE DEF owed
      <4> QED
        BY <2>1, <4>1
    <3> HIDE DEF owed
    <3>2. Tail(owed) = [j \in 1..(Top.len - Top.next) |-> owed[j + 1]]
      <4>1. /\ Tail(owed) \in Seq(Hook) /\ Len(Tail(owed)) = Len(owed) - 1
            /\ \A j \in 1..Len(Tail(owed)) : Tail(owed)[j] = owed[j + 1]
        BY <2>1, <2>2, HeadTailProperties
      <4>2. Len(Tail(owed)) = Top.len - Top.next
        <5>1. Top.len \in Nat /\ Top.next \in Nat
          BY <1>2
        <5>2. Len(owed) = Top.len + 1 - Top.next
          BY <2>1
        <5>3. Len(owed) - 1 = Top.len - Top.next
          BY <5>1, <5>2
        <5> QED
          BY <4>1, <5>3
      <4>3. Tail(owed) = [j \in 1..Len(Tail(owed)) |-> Tail(owed)[j]]
        BY <4>1, LenProperties
      <4> QED
        BY <4>1, <4>2, <4>3
    <3> QED
      BY <3>1, <3>2
  <2>4. \A k \in {n} : Mapped(k)' = [kept |-> TRUE, owed |-> Tail(owed)]
    <3> TAKE k \in {n}
    <3>1. /\ frames'[k].disturbed = FALSE /\ frames'[k].arr = Top.arr
          /\ frames'[k].len = Top.len /\ frames'[k].next = Top.next + 1 /\ arrays' = arrays
      BY <1>1, <1>2, <1>5, <1>9, <1>11 DEF Frame
    <3>2. Owed(frames[k])' = [j \in 1..(Top.len + 1 - (Top.next + 1)) |-> arrays[Top.arr][Top.next + 1 + j - 1]]
      BY <3>1 DEF Owed
    <3>3. Top.len + 1 - (Top.next + 1) = Top.len - Top.next
      BY <1>2
    <3> QED
      BY <2>3, <3>1, <3>2, <3>3 DEF Mapped
  <2> HIDE DEF owed
  <2>5. Calls[n] = [kept |-> TRUE, owed |-> owed]
    BY <1>2, <1>11 DEF Calls, Mapped, owed
  <2>6. Calls' = [Calls EXCEPT ![n].owed = Tail(owed)]
    <3>1. \A k \in 1..n : Mapped(k)' = IF k = n THEN [kept |-> TRUE, owed |-> Tail(owed)] ELSE Calls[k]
      BY <1>8, <2>4 DEF Calls
    <3>2. Calls' = [k \in 1..n |-> IF k = n THEN [kept |-> TRUE, owed |-> Tail(owed)] ELSE Calls[k]]
      BY <1>5, <3>1 DEF Calls
    <3>3. [Calls[n] EXCEPT !.owed = Tail(owed)] = [kept |-> TRUE, owed |-> Tail(owed)]
      <4>1. Calls[n] \in C /\ Tail(owed) \in Seq(Hook)
        BY <1>2, <1>3, <2>1, <2>2, ElementOfSeq, HeadTailProperties
      <4>2. \A r \in C, tl \in Seq(Hook) : [r EXCEPT !.owed = tl] = [kept |-> r.kept, owed |-> tl]
        OBVIOUS
      <4>3. Calls[n].kept = TRUE
        BY <2>5
      <4> QED
        BY <4>1, <4>2, <4>3
    <3>4. DOMAIN Calls = 1..n
      BY DEF Calls
    <3> QED
      BY <3>2, <3>3, <3>4
  <2>7. List!Top = Calls[n]
    BY <1>3 DEF List!Top, Calls, Mapped
  <2>8. Calls[n].owed = owed /\ Calls[n].kept
    BY <2>5
  <2>9. ran' = IF Head(Calls[n].owed) = Nil THEN ran ELSE Head(Calls[n].owed)
    BY <1>1, <2>2, <2>8
  <2>10. Calls' = [Calls EXCEPT ![Len(Calls)].owed = Tail(@)]
    BY <1>3, <2>6, <2>8
  <2> QED
    BY <1>1, <1>3, <1>6, <1>7, <2>2, <2>7, <2>8, <2>9, <2>10 DEF List!Run, Calls, Mapped
<1> QED
  BY <1>10, <1>11


LEMMA FinishStep ==
    ASSUME IInv, NEW r \in {"ok", "error"}, CallReturns(r)
    PROVE  List!Finish(r) /\ Room'
<1> DEFINE n == Len(frames)
           m == n - 1
           C == [kept : BOOLEAN, owed : Seq(Hook)]
<1>1. /\ frames # << >>
      /\ r = "ok" => Top.next > Top.len
      /\ frames' = SubSeq(frames, 1, m) /\ result' = r
      /\ UNCHANGED << arrays, slice, ran >>
  BY DEF CallReturns
<1>2. /\ n \in 1..n /\ m \in Nat /\ Top = frames[n] /\ Top \in Frame
  BY <1>1, TopType DEF IInv
<1>3. n \in Nat /\ m <= n /\ \A k \in 1..m : k \in 1..n
  BY <1>2, FramesType DEF IInv
<1>4. \A k \in 1..n : frames[k] \in Frame
  BY FramesType DEF IInv
<1>5. Len(frames') = m /\ \A k \in 1..m : frames'[k] = frames[k]
  <2>1. m \in Int /\ 1 \in Int /\ \A k \in 1..m : frames[k] \in Frame
    BY <1>2, <1>3, <1>4
  <2> HIDE DEF m
  <2>2. /\ Len(SubSeq(frames, 1, m)) = IF 1 <= m THEN m - 1 + 1 ELSE 0
        /\ \A k \in 1..(m - 1 + 1) : SubSeq(frames, 1, m)[k] = frames[1 + k - 1]
    BY <2>1, SubSeqProperties
  <2> QED
    BY <1>1, <1>2, <2>2
<1>6. Room'
  <2>1. slice' = slice
    BY <1>1
  <2> QED
    BY <1>3, <1>5, <2>1 DEF IInv, Room
<1>7. Registered' = Registered
  BY <1>1 DEF Registered, Array
<1>8. ASSUME NEW k \in 1..m PROVE Mapped(k)' = Mapped(k)
  BY <1>1, <1>5 DEF Mapped, Owed
<1>9. /\ Calls \in Seq(C) /\ Len(Calls) = n /\ Calls # << >>
      /\ Calls[n].kept = ~Top.disturbed /\ Calls[n].owed = Owed(Top)
  BY <1>1, <1>2, CallsType DEF IInv
<1>10. Calls' = SubSeq(Calls, 1, Len(Calls) - 1)
  <2>1. Calls' = [k \in 1..m |-> Calls[k]]
    <3>1. \A k \in 1..m : Mapped(k)' = Calls[k]
      BY <1>3, <1>8 DEF Calls
    <3> QED
      BY <1>5, <3>1 DEF Calls
  <2>2. Len(Calls) - 1 = m /\ Len(Calls) = n
    BY <1>9
  <2>3. m \in Int /\ 1 \in Int /\ \A k \in 1..m : Calls[k] \in C
    <3>1. \A k \in 1..n : Calls[k] \in C
      <4> HIDE DEF C
      <4> QED
        BY <1>9, ElementOfSeq
    <3> QED
      BY <1>2, <1>3, <3>1
  <2>4. /\ SubSeq(Calls, 1, m) \in Seq(C)
        /\ Len(SubSeq(Calls, 1, m)) = m
        /\ \A k \in 1..m : SubSeq(Calls, 1, m)[k] = Calls[k]
    <3> HIDE DEF m, C
    <3>1. /\ SubSeq(Calls, 1, m) \in Seq(C)
          /\ Len(SubSeq(Calls, 1, m)) = IF 1 <= m THEN m - 1 + 1 ELSE 0
          /\ \A k \in 1..(m - 1 + 1) : SubSeq(Calls, 1, m)[k] = Calls[1 + k - 1]
      BY <2>3, SubSeqProperties
    <3>2. m \in Nat
      BY <1>2
    <3> QED
      BY <3>1, <3>2
  <2> HIDE DEF m, C
  <2>5. SubSeq(Calls, 1, m) = [k \in 1..m |-> SubSeq(Calls, 1, m)[k]]
    BY <2>4, LenProperties
  <2> QED
    BY <2>1, <2>2, <2>4, <2>5
<1>11. r = "ok" /\ Calls[n].kept => Calls[n].owed = << >>
  <2> SUFFICES ASSUME r = "ok", ~Top.disturbed PROVE Owed(Top) = << >>
    BY <1>9
  <2>1. 1..(Top.len + 1 - Top.next) = {}
    BY <1>1, <1>2 DEF Frame
  <2>2. Owed(Top) = [k \in {} |-> arrays[Top.arr][Top.next + k - 1]]
    BY <2>1 DEF Owed
  <2> QED
    BY <2>2
<1>12. List!Top = Calls[n]
  BY <1>9 DEF List!Top, Calls, Mapped
<1>13. List!Finish(r)
  BY <1>1, <1>7, <1>9, <1>10, <1>11, <1>12 DEF List!Finish, Calls, Mapped
<1> QED
  BY <1>6, <1>13

\* Every step is a step of the list or changes nothing of it.
LEMMA Refines == IInv /\ [Next]_vars => [List!Next]_(List!vars) /\ Room'
<1> SUFFICES ASSUME IInv, [Next]_vars PROVE [List!Next]_(List!vars) /\ Room'
  OBVIOUS
<1>1. ASSUME NEW h \in Hook, AppendHook(h) PROVE List!Append_(h) /\ Room'
  <2>1. UNCHANGED << ran, result >>
    BY <1>1 DEF AppendHook, Change
  <2> QED
    BY <1>1, <2>1, AppendStep DEF List!Append_, Calls, Mapped
<1>2. ASSUME NEW h \in Hook, PrependHook(h) PROVE List!Prepend(h) /\ Room'
  <2>1. UNCHANGED << ran, result >>
    BY <1>2 DEF PrependHook, Change
  <2> QED
    BY <1>2, <2>1, PrependStep DEF List!Prepend, Calls, Mapped
<1>3. CASE ClearHooks
  <2>1. UNCHANGED << ran, result >>
    BY <1>3 DEF ClearHooks, Change
  <2>2. List!Clear /\ Room'
    BY <1>3, <2>1, ClearStep DEF List!Clear, Calls, Mapped
  <2> QED
    BY <2>2 DEF List!Next
<1>4. CASE UNCHANGED vars
  <2>1. UNCHANGED << Registered, Calls, ran, result, slice, frames >>
    BY <1>4 DEF vars, Registered, Array, Calls, Mapped, Owed
  <2> QED
    BY <2>1 DEF List!vars, Calls, Mapped, IInv, Room
<1>5. ASSUME NEW h \in Hook, RemoveHook(h) PROVE List!Remove(h) /\ Room'
  BY <1>5, RemoveStep
<1>6. CASE CallHooks
  BY <1>6, StartStep DEF List!Next
<1>7. CASE RunHook
  BY <1>7, RunStep DEF List!Next
<1>8. ASSUME NEW r \in {"ok", "error"}, CallReturns(r) PROVE List!Finish(r) /\ Room'
  BY <1>8, FinishStep
<1> QED
  BY <1>1, <1>2, <1>3, <1>4, <1>5, <1>6, <1>7, <1>8 DEF Next, Over, List!Next

LEMMA InitRefines == Init => List!Init /\ Room
<1> SUFFICES ASSUME Init PROVE List!Init /\ Room
  OBVIOUS
<1>1. /\ slice.len = 0 /\ frames = << >> /\ ran = Nil /\ result = "none"
  BY DEF Init
<1>2. Registered = << >>
  BY <1>1 DEF Registered
<1>3. Calls = << >> /\ Room
  BY <1>1 DEF Calls, Room
<1> QED
  BY <1>1, <1>2, <1>3 DEF List!Init, Calls, Mapped

\* The hooks of a key behave as a list whatever the slices share, and a call
\* that no removal disturbs runs the hooks that were registered when it started
\* (raml.go: AppendHook, PrependHook, RemoveHook, ClearHooks, callHooks).
THEOREM ListCorrect == Spec => ListPromise
<1>1. Init => IInv /\ List!Init
  BY InitType, InitRefines DEF IInv
<1>2. IInv /\ [Next]_vars => IInv' /\ [List!Next]_(List!vars)
  BY StepType, Refines DEF IInv
<1> QED
  BY <1>1, <1>2, PTL DEF Spec, ListPromise, List!Spec

=============================================================================
