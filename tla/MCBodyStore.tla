---------------------------- MODULE MCBodyStore -----------------------------
(***************************************************************************)
(* BodyStore for TLC: two slots that upload to names of their own.         *)
(***************************************************************************)
EXTENDS BodyStore, TLC

CONSTANTS s1, s2, up1, up2

OwnTargets == (s1 :> {up1}) @@ (s2 :> {up2})

\* The slots and their names change places together.
Swap == (s1 :> s2) @@ (s2 :> s1) @@ (up1 :> up2) @@ (up2 :> up1)
Symmetry == {Swap}
=============================================================================
