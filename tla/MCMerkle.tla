----------------------------- MODULE MCMerkle -----------------------------
(***************************************************************************)
(* Instances of Merkle for TLC.  Indices have three bits.  The first and   *)
(* the third key differ in the last of them, so that one is pushed down    *)
(* two levels by the other, past the fourth, which comes to lie beside an  *)
(* inner node.  Two pairs of keys differ in the fourth bit only: with both *)
(* in the map two nodes of the last level have one index.                  *)
(***************************************************************************)
EXTENDS Merkle

SharedPrefixes ==
  {<<0, 0, 0, 0>>, <<0, 0, 0, 1>>, <<0, 0, 1, 0>>, <<0, 1, 0, 0>>,
   <<1, 0, 0, 0>>, <<1, 0, 0, 1>>}

\* The first two are pushed down to the last level.
ThreeKeys == {<<0, 0, 0, 0>>, <<0, 0, 0, 1>>, <<0, 1, 0, 0>>}

NoKeys == {}

===========================================================================
