------------------------------- MODULE MCHooks -------------------------------
(***************************************************************************)
(* An instance of Hooks for TLC: two closures made in one place, which     *)
(* RemoveHook does not tell apart, and nil.                                *)
(***************************************************************************)
EXTENDS Hooks, TLC

CONSTANTS g1, g2

MCHook == {g1, g2, Nil}

MCCode == (g1 :> 2) @@ (g2 :> 2) @@ (Nil :> 0)

=============================================================================
