-------------------------- MODULE CompactMerkleTree -------------------------
(***************************************************************************)
(* The two compact trees, which keep the roots of the full subtrees only.  *)
(*                                                                         *)
(* src/cpp/merkletree/compact_merkle_tree.cc holds them by level, with an  *)
(* empty string (Missing) where there is none, and evaluates its root      *)
(* lazily.  It can be built from a MerkleTree.                             *)
(*                                                                         *)
(* CompactMerkleTree of src/python/ct/crypto/merkle.py holds them in       *)
(* decreasing order of size; the monitor keeps it in its state file.       *)
(* Definitions that model the Python class have its lower-case names.      *)
(***************************************************************************)
EXTENDS MerkleTree, FiniteSetsExt

NewCompact ==
  [tree |-> <<>>, leafCount |-> 0, processed |-> 0, levelCount |-> 0,
   root |-> HashEmpty]

\* The carry of a binary counter.
RECURSIVE PushBack(_, _, _)
PushBack(tree, level, node) ==
  IF Len(tree) <= level THEN Append(tree, node)
  ELSE IF tree[level + 1] = Missing THEN [tree EXCEPT ![level + 1] = node]
  ELSE [PushBack(tree, level + 1, HashChildren(tree[level + 1], node))
          EXCEPT ![level + 1] = Missing]

CompactAdd(c, hash) ==
  [c EXCEPT
     !.tree = PushBack(c.tree, 0, hash),
     !.leafCount = @ + 1,
     !.levelCount = IF IsPowerOfTwoPlusOne(c.leafCount + 1) THEN @ + 1 ELSE @]

\* Folds the full subtrees, the smallest first.
RECURSIVE Pull(_, _)
Pull(tree, right) ==
  IF tree = <<>> THEN right
  ELSE Pull(Tail(tree),
            IF Head(tree) = Missing THEN right
            ELSE IF right = Missing THEN Head(tree)
            ELSE HashChildren(Head(tree), right))

\* MUTANT: the root is computed once.
UpdateRootOnce(c) ==
  IF c.processed > 0 THEN c
  ELSE [c EXCEPT !.root = Pull(c.tree, Missing), !.processed = c.leafCount]

UpdateRoot(c) ==
  IF c.processed = c.leafCount THEN c
  ELSE [c EXCEPT !.root = Pull(c.tree, Missing), !.processed = c.leafCount]

\* Deals an audit path of left-hand nodes out to the levels where the size of
\* the tree before the last leaf has a bit.
RECURSIVE Deal(_, _, _)
Deal(path, size, levels) ==
  IF levels = 0 THEN <<>>
  ELSE IF size % 2 = 1
  THEN <<Head(path)>> \o Deal(Tail(path), size \div 2, levels - 1)
  ELSE <<Missing>> \o Deal(path, size \div 2, levels - 1)

\* The constructor from a model tree, whose root its assertions compute.
CompactFrom(model) ==
  LET count == LeafCount(model)
      path == PathToRootAtSnapshot(model, count, count)
      before == Deal(path.value, count - 1, Max({0, model.levelCount - 1}))
  IN  IF count = 0 THEN [tree |-> model, value |-> NewCompact]
      ELSE [tree |-> RootAtSnapshot(path.tree, count).tree,
            value |-> UpdateRoot(
              [tree |-> PushBack(before, 0, NodeAt(model.levels, 0, count - 1)),
               leafCount |-> count, processed |-> 0,
               levelCount |-> model.levelCount, root |-> HashEmpty])]

-----------------------------------------------------------------------------

\* The roots of the full subtrees of a list of leaves, the largest first:
\* _hash_full.
RECURSIVE hash_full(_)
hash_full(leaves) ==
  LET n == Len(leaves) IN
  IF n = 0 THEN <<>>
  ELSE IF IsPowerOfTwo(n) THEN <<RootOf(leaves)>>
  ELSE hash_full(SubSeq(leaves, 1, Split(n)))
       \o hash_full(SubSeq(leaves, Split(n) + 1, n))

hash_fold(hashes) ==
  FoldRight(HashChildren, Front(hashes), Last(hashes))

\* The size of the smallest full subtree of a tree, 0 for the empty tree:
\* what the code keeps as a height, __mintree_height.
mintree_size(size) ==
  IF size = 0 THEN 0
  ELSE CHOOSE k \in 1..size : /\ IsPowerOfTwo(k)
                              /\ size % k = 0
                              /\ (size \div k) % 2 = 1

\* A tree whose operation has raised.
Raised == [tree_size |-> -1, hashes |-> <<>>, root_hash |-> Missing]

update(tree_size, hashes) ==
  IF Len(hashes) # BitsSet(tree_size) THEN Raised
  ELSE [tree_size |-> tree_size, hashes |-> hashes, root_hash |-> Missing]

\* Adds the root of a full subtree, no larger than the smallest there is.
RECURSIVE push_subtree_hash(_, _, _)
push_subtree_hash(tree, size, sub_hash) ==
  LET mintree == mintree_size(tree.tree_size)
      rewound == update(tree.tree_size - size, Front(tree.hashes))
  IN  IF mintree = 0 \/ size < mintree
      THEN update(tree.tree_size + size, Append(tree.hashes, sub_hash))
      ELSE IF size > mintree \/ rewound = Raised THEN Raised
      ELSE push_subtree_hash(rewound, 2 * size,
                             HashChildren(Last(tree.hashes), sub_hash))

push_subtree(tree, leaves) ==
  IF BitsSet(Len(leaves)) # 1 THEN Raised
  ELSE push_subtree_hash(tree, Len(leaves), RootOf(leaves))

\* MUTANT: a chunk of exactly the smallest subtree's size is not pushed.
RECURSIVE extend_short(_, _)
extend_short(tree, new_leaves) ==
  LET size == Len(new_leaves)
      chunk == mintree_size(tree.tree_size)
  IN  IF tree = Raised \/ size = 0 THEN tree
      ELSE IF chunk > 0 /\ size > chunk
      THEN extend_short(push_subtree(tree, SubSeq(new_leaves, 1, chunk)),
                        SubSeq(new_leaves, chunk + 1, size))
      ELSE update(tree.tree_size + size, tree.hashes \o hash_full(new_leaves))

\* Pushes chunks as large as the smallest subtree while they last, then the
\* rest in one go.
RECURSIVE extend(_, _)
extend(tree, new_leaves) ==
  LET size == Len(new_leaves)
      chunk == mintree_size(tree.tree_size)
  IN  IF tree = Raised \/ size = 0 THEN tree
      ELSE IF chunk > 0 /\ size >= chunk
      THEN extend(push_subtree(tree, SubSeq(new_leaves, 1, chunk)),
                  SubSeq(new_leaves, chunk + 1, size))
      ELSE update(tree.tree_size + size, tree.hashes \o hash_full(new_leaves))

\* root_hash() fills the cache that update() empties.
with_root_hash(tree) ==
  IF tree.root_hash # Missing THEN tree
  ELSE [tree EXCEPT !.root_hash = IF tree.hashes = <<>> THEN HashEmpty
                                  ELSE hash_fold(tree.hashes)]

load(file) == update(file.tree_size, file.hashes)

save(tree) == [tree_size |-> tree.tree_size, hashes |-> tree.hashes]

=============================================================================
