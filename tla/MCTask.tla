------------------------------- MODULE MCTask -------------------------------
(***************************************************************************)
(* Instances of Task for TLC: a task, its child and its grandchild.        *)
(***************************************************************************)
EXTENDS Task, TLC

CONSTANTS root, child, leaf

Chain == {root, child, leaf}

ChainParent == (root :> NoTask) @@ (child :> root) @@ (leaf :> child)

=============================================================================
