--------------------------------- MODULE Hooks --------------------------------
(***************************************************************************)
(* The hooks of one key (raml.go, getHooks to callHooks).                  *)
(*                                                                         *)
(* A list of hooks is a Go slice: a length and an array it shares with     *)
(* every slice it was made from.  append writes into the array when there  *)
(* is room and copies otherwise; RemoveHook shifts the array in place; and *)
(* callHooks keeps the slice it started with and reads the array as it     *)
(* goes, while the hooks it runs may change the list or call it again.     *)
(***************************************************************************)
EXTENDS Naturals, Sequences

CONSTANTS
    Hook,      \* the functions registered, Nil among them
    Nil,       \* the nil function
    Code,      \* [Hook -> code pointer]; closures made in one place share it
    MaxSpare,  \* how many elements of room append leaves in a new array
    MaxOps,    \* how often the list is changed
    MaxDepth   \* how many calls are nested

ASSUME ConstantsAssumption ==
    /\ Nil \in Hook
    /\ MaxSpare \in Nat /\ MaxOps \in Nat /\ MaxDepth \in Nat

VARIABLES
    arrays,  \* every array made so far; its length is its capacity
    slice,   \* the slice stored under the key
    frames,  \* the calls of callHooks under way
    ran,     \* the hook run last
    result,  \* what the call that ended last returned
    ops      \* how often the list was changed

vars == << arrays, slice, frames, ran, result, ops >>

Slice == [arr : Nat \ {0}, len : Nat]

\* A call: the slice it ranges over, the index it is at, and whether a hook
\* was removed since it started (auxiliary).
Frame == [arr : Nat \ {0}, len : Nat, next : Nat \ {0}, disturbed : BOOLEAN]

Array      == arrays[slice.arr]
Registered == [k \in 1..slice.len |-> Array[k]]
Top        == frames[Len(frames)]

Init ==
    /\ arrays = << << >> >>
    /\ slice = [arr |-> 1, len |-> 0]
    /\ frames = << >>
    /\ ran = Nil
    /\ result = "none"
    /\ ops = 0

Change ==
    /\ ops < MaxOps
    /\ ops' = ops + 1
    /\ UNCHANGED << ran, result >>

\* A new array that holds list, with room for spare more.
Allocate(list, spare) ==
    /\ arrays' = Append(arrays, list \o [k \in 1..spare |-> Nil])
    /\ slice' = [arr |-> Len(arrays) + 1, len |-> Len(list)]

AppendHook(h) ==
    /\ Change
    /\ IF slice.len < Len(Array)
       THEN /\ arrays' = [arrays EXCEPT ![slice.arr][slice.len + 1] = h]
            /\ slice' = [slice EXCEPT !.len = @ + 1]
       ELSE \E spare \in 0..MaxSpare : Allocate(Append(Registered, h), spare)
    /\ UNCHANGED frames

\* Mutant of PrependHook: the hooks are shifted in place when there is room.
PrependHookShift(h) ==
    /\ Change
    /\ IF slice.len < Len(Array)
       THEN /\ arrays' = [arrays EXCEPT ![slice.arr] =
                            [k \in DOMAIN @ |-> IF k = 1 THEN h
                                                ELSE IF k <= slice.len + 1 THEN @[k - 1] ELSE @[k]]]
            /\ slice' = [slice EXCEPT !.len = @ + 1]
       ELSE \E spare \in 0..MaxSpare : Allocate(<< h >> \o Registered, spare)
    /\ UNCHANGED frames

\* A slice of one hook, to which the others are appended.
PrependHook(h) ==
    /\ Change
    /\ \E spare \in 0..MaxSpare :
          /\ slice.len = 0 => spare = 0
          /\ Allocate(<< h >> \o Registered, spare)
    /\ UNCHANGED frames

\* The index RemoveHook finds.
First(i, h) ==
    /\ i \in 1..slice.len
    /\ Code[Array[i]] = Code[h]
    /\ \A j \in 1..(i - 1) : Code[Array[j]] # Code[h]

\* The rest of the list moves down by one, in the array it is in.
RemoveHook(h) ==
    /\ Change
    /\ \E i \in 1..slice.len :
          /\ First(i, h)
          /\ arrays' = [arrays EXCEPT ![slice.arr] =
                          [k \in 1..Len(Array) |->
                              IF i <= k /\ k < slice.len THEN Array[k + 1] ELSE Array[k]]]
          /\ slice' = [slice EXCEPT !.len = @ - 1]
    /\ frames' = [k \in 1..Len(frames) |-> [frames[k] EXCEPT !.disturbed = TRUE]]

ClearHooks ==
    /\ Change
    /\ Allocate(<< >>, 0)
    /\ UNCHANGED frames

\* callHooks takes the slice as it is now.
CallHooks ==
    /\ Len(frames) < MaxDepth
    /\ frames' = Append(frames, [arr |-> slice.arr, len |-> slice.len, next |-> 1,
                                 disturbed |-> FALSE])
    /\ UNCHANGED << arrays, slice, ran, result, ops >>

\* The next hook of the innermost call is read from the array and run; a nil
\* hook is skipped.
RunHook ==
    /\ frames # << >> /\ Top.next <= Top.len
    /\ LET h == arrays[Top.arr][Top.next]
       IN  ran' = IF h = Nil THEN ran ELSE h
    /\ frames' = [frames EXCEPT ![Len(frames)].next = @ + 1]
    /\ UNCHANGED << arrays, slice, result, ops >>

\* The loop is over, or the hook that was run returns an error.
CallReturns(r) ==
    /\ frames # << >>
    /\ r = "ok" => Top.next > Top.len
    /\ r = "error" => Top.next > 1 /\ arrays[Top.arr][Top.next - 1] # Nil
    /\ frames' = SubSeq(frames, 1, Len(frames) - 1)
    /\ result' = r
    /\ UNCHANGED << arrays, slice, ran, ops >>

\* All changes and calls are made; lets TLC tell the end from a deadlock.
Over == ops = MaxOps /\ frames = << >> /\ UNCHANGED vars

Next ==
    \/ \E h \in Hook : AppendHook(h) \/ PrependHook(h) \/ RemoveHook(h)
    \/ ClearHooks
    \/ CallHooks
    \/ RunHook
    \/ \E r \in {"ok", "error"} : CallReturns(r)
    \/ Over

Spec == Init /\ [][Next]_vars

-----------------------------------------------------------------------------

\* Every variable has its type, and every slice lies within its array.
TypeOK ==
    /\ arrays \in Seq(Seq(Hook))
    /\ slice \in Slice
    /\ slice.arr \in DOMAIN arrays /\ slice.len <= Len(Array)
    /\ frames \in Seq(Frame)
    /\ \A k \in DOMAIN frames :
          /\ frames[k].arr \in DOMAIN arrays
          /\ frames[k].len <= Len(arrays[frames[k].arr])
          /\ frames[k].next <= frames[k].len + 1
    /\ ran \in Hook
    /\ result \in {"none", "ok", "error"}
    /\ ops \in Nat

\* What the slice of a call still holds for it, if no hook was removed.
Owed(f) ==
    IF f.disturbed THEN << >>
    ELSE [k \in 1..(f.len + 1 - f.next) |-> arrays[f.arr][f.next + k - 1]]

List == INSTANCE HookList
            WITH hooks <- Registered,
                 calls <- [k \in 1..Len(frames) |->
                             [kept |-> ~frames[k].disturbed, owed |-> Owed(frames[k])]]

\* Although slices share arrays that are written in place, the hooks of a key
\* behave as a list, and a call of callHooks runs exactly the hooks that were
\* registered when it started, whatever they append, prepend, clear or call
\* themselves; only removing a hook disturbs a call under way.
ListPromise == List!Spec

=============================================================================
