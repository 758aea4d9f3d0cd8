------------------------------ MODULE LogView ------------------------------
(***************************************************************************)
(* What a monitor promises about the tree head it presents as verified:    *)
(* it is one the log signed, and each one it moves on to is newer and      *)
(* contains everything the previous one contained.                         *)
(***************************************************************************)
EXTENDS LogTree

CONSTANT STHs     \* the signed tree heads of the log

VARIABLE view     \* the verified tree head, NoSTH at first

Extends(new, old) ==
  /\ new.ts > old.ts
  /\ old = NoSTH \/ Prefix(old.root, new.root)

Advance(sth) ==
  /\ Extends(sth, view)
  /\ view' = sth

ViewInit == view = NoSTH

ViewNext == \E sth \in STHs : Advance(sth)

ViewSpec == ViewInit /\ [][ViewNext]_view

=============================================================================
