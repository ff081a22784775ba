------------------------------- MODULE HookList -------------------------------
(***************************************************************************)
(* What AppendHook, PrependHook, RemoveHook, ClearHooks and callHooks      *)
(* (raml.go) promise to their callers, for the hooks of one key: a list,   *)
(* and calls that run the hooks registered when they start, each once and  *)
(* in order, until one returns an error.  A hook may change the list and   *)
(* call the hooks again.  Once a hook is removed nothing is promised of    *)
(* the calls that are under way.                                           *)
(***************************************************************************)
EXTENDS Naturals, Sequences

CONSTANTS
    Hook,  \* the functions registered, Nil among them
    Nil,   \* the nil function, which is never run
    Code   \* [Hook -> code pointer]: what RemoveHook tells functions apart by

VARIABLES
    hooks,   \* the list
    calls,   \* the calls under way, the innermost last
    ran,     \* the hook run last
    result   \* what the call that ended last returned

vars == << hooks, calls, ran, result >>

\* What a call still owes: the hooks it has to run, unless its list was
\* disturbed.
Call == [kept : BOOLEAN, owed : Seq(Hook)]

Top == calls[Len(calls)]

Init ==
    /\ hooks = << >>
    /\ calls = << >>
    /\ ran = Nil
    /\ result = "none"

Append_(h) ==
    /\ hooks' = Append(hooks, h)
    /\ UNCHANGED << calls, ran, result >>

Prepend(h) ==
    /\ hooks' = << h >> \o hooks
    /\ UNCHANGED << calls, ran, result >>

\* The first function with the code of h leaves the list.
Remove(h) ==
    \E i \in 1..Len(hooks) :
        /\ Code[hooks[i]] = Code[h]
        /\ \A j \in 1..(i - 1) : Code[hooks[j]] # Code[h]
        /\ hooks' = [k \in 1..(Len(hooks) - 1) |-> IF k < i THEN hooks[k] ELSE hooks[k + 1]]
        /\ calls' = [k \in 1..Len(calls) |-> [kept |-> FALSE, owed |-> << >>]]
        /\ UNCHANGED << ran, result >>

Clear ==
    /\ hooks' = << >>
    /\ UNCHANGED << calls, ran, result >>

Start ==
    /\ calls' = Append(calls, [kept |-> TRUE, owed |-> hooks])
    /\ UNCHANGED << hooks, ran, result >>

\* The innermost call goes on to the next hook it owes.
Run ==
    /\ calls # << >>
    /\ Top.kept => Top.owed # << >>
    /\ IF Top.kept
       THEN /\ ran' = IF Head(Top.owed) = Nil THEN ran ELSE Head(Top.owed)
            /\ calls' = [calls EXCEPT ![Len(calls)].owed = Tail(@)]
       ELSE ran' \in Hook /\ UNCHANGED calls
    /\ UNCHANGED << hooks, result >>

Finish(r) ==
    /\ calls # << >>
    /\ r = "ok" /\ Top.kept => Top.owed = << >>
    /\ calls' = SubSeq(calls, 1, Len(calls) - 1)
    /\ result' = r
    /\ UNCHANGED << hooks, ran >>

Next ==
    \/ \E h \in Hook : Append_(h) \/ Prepend(h) \/ Remove(h)
    \/ Clear
    \/ Start
    \/ Run
    \/ \E r \in {"ok", "error"} : Finish(r)

Spec == Init /\ [][Next]_vars

=============================================================================
