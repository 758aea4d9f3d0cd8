----------------------------- MODULE MCMonitor -----------------------------
(***************************************************************************)
(* Instances of Monitor for TLC.  A tree is its sequence of leaves; the    *)
(* log's history is a, a b, a b c and an alternative one forks off after   *)
(* the first leaf.                                                         *)
(***************************************************************************)
EXTENDS Monitor, SequencesExt

CONSTANTS a, b, c, x, y

NoLeaves == <<>>

History == {<<>>, <<a>>, <<a, b>>, <<a, b, c>>}

Fork == {<<a, x>>, <<a, x, y>>}

ForkedTrees == History \cup Fork

SequenceSize(t) == Len(t)

SequencePrefix(s, t) == IsPrefix(s, t)

Head1(n, t) == [ts |-> n, root |-> t]

(* An honest log: three sizes, and one tree head signed again later.       *)
HonestSTHs == {Head1(1, <<a>>), Head1(2, <<a>>), Head1(3, <<a, b, c>>)}

(* A log that also shows the fork, shrinks and reuses a timestamp.         *)
ForkedSTHs == {Head1(1, <<a>>), Head1(2, <<a, b>>), Head1(2, <<a, x, y>>),
               Head1(3, <<a, b, c>>), Head1(4, <<a>>)}

=============================================================================
