----------------------------- MODULE MerkleTree -----------------------------
(***************************************************************************)
(* MerkleTree and MutableMerkleTree, src/cpp/merkletree/merkle_tree.cc.    *)
(*                                                                         *)
(* A tree is a record: levels, its tree_, the leaves first; processed, its *)
(* leaves_processed_; levelCount, its level_count_.  The tree is evaluated *)
(* lazily: a question about a snapshot brings the upper levels up to it,   *)
(* so an operation that answers returns the tree it leaves behind and the  *)
(* value.  Levels and nodes are counted from 0, as in the code.            *)
(***************************************************************************)
EXTENDS MerkleHash

NewTree == [levels |-> <<>>, processed |-> 0, levelCount |-> 0]

LeafCount(t) == IF t.levels = <<>> THEN 0 ELSE Len(t.levels[1])

NodeAt(levels, level, index) ==
  IF level < Len(levels) /\ index < Len(levels[level + 1])
  THEN levels[level + 1][index + 1]
  ELSE Assertion

Root(t) == IF Len(Last(t.levels)) = 1 THEN Last(t.levels)[1] ELSE Assertion

LastNode(t, level) == NodeAt(t.levels, level, Len(t.levels[level + 1]) - 1)

AddLeafHash(t, hash) ==
  LET first == t.levels = <<>>
      count == LeafCount(t) + 1
  IN  [levels |-> IF first THEN <<<<hash>>>>
                           ELSE [t.levels EXCEPT ![1] = Append(@, hash)],
       processed |-> IF first THEN 1 ELSE t.processed,
       levelCount |-> IF IsPowerOfTwoPlusOne(count) THEN t.levelCount + 1
                                                    ELSE t.levelCount]

-----------------------------------------------------------------------------

\* The nodes of a level's parent level that are there already.
Parents(levels, level) ==
  IF Len(levels) <= level + 1 THEN <<>> ELSE levels[level + 2]

\* The parents of the nodes of a level from first's pair to last.  A last node
\* without a right sibling is copied upwards.
NewParents(levels, level, first, last) ==
  LET start == first - (first % 2) IN
  [k \in 1..((last - start + 1) \div 2) |->
     HashChildren(NodeAt(levels, level, start + 2 * (k - 1)),
                  NodeAt(levels, level, start + 2 * k - 1))]
  \o IF IsRightChild(last) THEN <<>> ELSE <<NodeAt(levels, level, last)>>

\* The next level, up to the parent of last.  Its last node goes first if it
\* was computed before all its leaves were there.
NextLevel(levels, level, first, last) ==
  LET old == Parents(levels, level) IN
  (IF Len(old) = Parent(first) + 1 THEN Front(old) ELSE old)
  \o NewParents(levels, level, first, last)

\* The loop of UpdateToSnapshot.
RECURSIVE Lift(_, _, _, _)
Lift(levels, level, first, last) ==
  LET next == NextLevel(levels, level, first, last) IN
  IF last = 0 THEN levels
  ELSE Lift(IF Len(levels) <= level + 1 THEN Append(levels, next)
            ELSE [levels EXCEPT ![level + 2] = next],
            level + 1, Parent(first), Parent(last))

UpdateToSnapshot(t, snapshot) ==
  LET updated == [t EXCEPT
        !.levels = Lift(t.levels, 0, t.processed, snapshot - 1),
        !.processed = snapshot]
  IN  IF snapshot = 0 THEN [tree |-> t, value |-> HashEmpty]
      ELSE IF snapshot = 1
      THEN [tree |-> t, value |-> NodeAt(t.levels, 0, 0)]
      ELSE IF snapshot = t.processed
      THEN [tree |-> t, value |-> Root(t)]
      ELSE [tree |-> updated, value |-> Root(updated)]

\* RecomputePastSnapshot, from a left child without a right sibling up: the
\* hash of the subtree at (level, last), and the hash met at nodeLevel.
RECURSIVE Recompute(_, _, _, _, _, _)
Recompute(levels, level, last, subtree, nodeLevel, node) ==
  LET sub == IF IsRightChild(last)
             THEN HashChildren(NodeAt(levels, level, last - 1), subtree)
             ELSE subtree
  IN  IF last = 0 THEN [root |-> subtree, node |-> node]
      ELSE Recompute(levels, level + 1, Parent(last), sub, nodeLevel,
                     IF nodeLevel = level + 1 THEN sub ELSE node)

\* The first part of RecomputePastSnapshot: right children, and their
\* parents, are the same in the snapshot as in the tree.
RECURSIVE RecomputeFrom(_, _, _, _, _)
RecomputeFrom(levels, level, last, nodeLevel, node) ==
  LET here == NodeAt(levels, level, last)
      met == IF nodeLevel = level THEN here ELSE node
  IN  IF IsRightChild(last)
      THEN RecomputeFrom(levels, level + 1, Parent(last), nodeLevel, met)
      ELSE Recompute(levels, level, last, here, nodeLevel, met)

\* The root of a snapshot that is not beyond the processed leaves, and the
\* snapshot's last node at nodeLevel.
RecomputePastSnapshot(t, snapshot, nodeLevel) ==
  IF snapshot = t.processed
  THEN [root |-> Root(t),
        node |-> IF Len(t.levels) <= nodeLevel THEN Missing
                 ELSE IF nodeLevel > 0 THEN LastNode(t, nodeLevel)
                 ELSE NodeAt(t.levels, 0, snapshot - 1)]
  ELSE RecomputeFrom(t.levels, 0, snapshot - 1, nodeLevel, Missing)

RootAtSnapshot(t, snapshot) ==
  IF snapshot = 0 THEN [tree |-> t, value |-> HashEmpty]
  ELSE IF snapshot > LeafCount(t) THEN [tree |-> t, value |-> Missing]
  ELSE IF snapshot >= t.processed THEN UpdateToSnapshot(t, snapshot)
  ELSE [tree |-> t, value |-> RecomputePastSnapshot(t, snapshot, -1).root]

-----------------------------------------------------------------------------

\* MUTANT: the sibling is always taken from the tree.
SiblingInTree(t, snapshot, node, level, last) ==
  IF Sibling(node) > last THEN <<>>
  ELSE <<NodeAt(t.levels, level, Sibling(node))>>

\* The sibling of a node in the snapshot, if there is one.  The last node of a
\* level may have changed since the snapshot.
SiblingAt(t, snapshot, node, level, last) ==
  IF Sibling(node) > last THEN <<>>
  ELSE IF Sibling(node) = last
  THEN <<RecomputePastSnapshot(t, snapshot, level).node>>
  ELSE <<NodeAt(t.levels, level, Sibling(node))>>

\* The loop of PathFromNodeToRootAtSnapshot.
RECURSIVE Siblings(_, _, _, _, _)
Siblings(t, snapshot, node, level, last) ==
  IF last = 0 THEN <<>>
  ELSE SiblingAt(t, snapshot, node, level, last)
       \o Siblings(t, snapshot, Parent(node), level + 1, Parent(last))

PathFromNode(t, node, level, snapshot) ==
  LET last == (snapshot - 1) \div 2^level
      updated == IF snapshot > t.processed
                 THEN UpdateToSnapshot(t, snapshot).tree ELSE t
  IN  IF \/ snapshot = 0 \/ level >= t.levelCount \/ node > last
         \/ snapshot > LeafCount(t)
      THEN [tree |-> t, value |-> <<>>]
      ELSE [tree |-> updated,
            value |-> Siblings(updated, snapshot, node, level, last)]

\* Leaves are counted from 1.
PathToRootAtSnapshot(t, leaf, snapshot) ==
  IF leaf > snapshot \/ snapshot > LeafCount(t) \/ leaf = 0
  THEN [tree |-> t, value |-> <<>>]
  ELSE PathFromNode(t, leaf - 1, 0, snapshot)

\* The number of right children on the way up from node.
RECURSIVE RightRun(_)
RightRun(node) == IF IsRightChild(node) THEN 1 + RightRun(Parent(node)) ELSE 0

SnapshotConsistency(t, snapshot1, snapshot2) ==
  LET level == RightRun(snapshot1 - 1)
      node == (snapshot1 - 1) \div 2^level
      updated == IF snapshot2 > t.processed
                 THEN UpdateToSnapshot(t, snapshot2).tree ELSE t
      path == PathFromNode(updated, node, level, snapshot2)
  IN  IF \/ snapshot1 = 0 \/ snapshot1 >= snapshot2
         \/ snapshot2 > LeafCount(t)
      THEN [tree |-> t, value |-> <<>>]
      ELSE [tree |-> path.tree,
            value |-> (IF node # 0
                       THEN <<NodeAt(updated.levels, level, node)>> ELSE <<>>)
                      \o path.value]

-----------------------------------------------------------------------------

\* MutableMerkleTree.  The parent of a child: the loop body of UpdateLeafHash.
ParentHash(levels, level, child) ==
  LET count == Len(levels[level + 1]) IN
  IF IsRightChild(child)
  THEN HashChildren(NodeAt(levels, level, child - 1),
                    NodeAt(levels, level, child))
  ELSE IF child < count - 1
  THEN HashChildren(NodeAt(levels, level, child),
                    NodeAt(levels, level, child + 1))
  ELSE NodeAt(levels, level, child)

\* The loop of UpdateLeafHash, which ends at the first node of a level.
\* Writing to a level or a node that is not there ends it too: the code's
\* behaviour is then undefined.
RECURSIVE UpdateParents(_, _, _)
UpdateParents(levels, level, child) ==
  IF \/ child = 0
     \/ Len(levels) <= level + 1
     \/ Len(levels[level + 2]) <= Parent(child)
  THEN levels
  ELSE UpdateParents(
         [levels EXCEPT ![level + 2][Parent(child) + 1] =
            ParentHash(levels, level, child)],
         level + 1, Parent(child))

UpdateLeafHash(t, leaf, hash) ==
  LET levels == [t.levels EXCEPT ![1][leaf] = hash] IN
  IF leaf = 0 \/ leaf > LeafCount(t) THEN t
  ELSE [t EXCEPT !.levels = IF leaf > t.processed THEN levels
                            ELSE UpdateParents(levels, 0, leaf - 1)]

\* The number of levels of a tree whose last node at the lowest is child.
RECURSIVE LevelsAbove(_)
LevelsAbove(child) == IF child = 0 THEN 1 ELSE 1 + LevelsAbove(Parent(child))

Truncate(t, leaf) ==
  LET kept(level) == (leaf - 1) \div 2^level + 1
      cut(level) == SubSeq(t.levels[level + 1], 1,
                           IF kept(level) < Len(t.levels[level + 1])
                           THEN kept(level) ELSE Len(t.levels[level + 1]))
      height == LevelsAbove(leaf - 1)
      lower == IF leaf > t.processed
               THEN [t.levels EXCEPT ![1] = cut(0)]
               ELSE [i \in 1..(IF height < Len(t.levels) THEN height
                               ELSE Len(t.levels)) |-> cut(i - 1)]
      truncated == [t EXCEPT !.levels = lower, !.levelCount = height]
  IN  IF leaf > LeafCount(t) THEN t
      ELSE IF leaf = 0 THEN NewTree
      ELSE IF leaf > t.processed THEN truncated
      ELSE UpdateLeafHash(truncated, leaf, NodeAt(lower, 0, leaf - 1))

=============================================================================
