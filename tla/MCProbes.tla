------------------------------ MODULE MCProbes ------------------------------
(***************************************************************************)
(* Two providers, one with two keys, so that a sweep may be interrupted    *)
(* between the keys of a provider as well as between providers.  Three     *)
(* settings, explored side by side: the checker's round and a triggered    *)
(* one; the checker's round alone while providers are removed or reordered;*)
(* and the checkers with two dashboard clicks.                             *)
(***************************************************************************)
EXTENDS Probes, TLC

CONSTANTS p1, p2, c1, c2, h1

Keys21 == (p1 :> 2) @@ (p2 :> 1)
Order12 == <<p1, p2>>

Patrols == [cast |-> {Loop, h1}, maxChanges |-> 0]
Changing == [cast |-> {Loop}, maxChanges |-> 2]
Everyone == [cast |-> {Loop, Idle, c1, c2}, maxChanges |-> 0]
Casts == {Patrols, Changing, Everyone}
=============================================================================
