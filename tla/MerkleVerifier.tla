--------------------------- MODULE MerkleVerifier ---------------------------
(***************************************************************************)
(* The proof verifiers: src/cpp/merkletree/merkle_verifier.cc, and         *)
(* MerkleVerifier of src/python/ct/crypto/merkle.py under its lower-case   *)
(* names.  The C++ verifier answers TRUE or FALSE and counts leaves from   *)
(* 1; the Python one answers or raises and counts them from 0.             *)
(***************************************************************************)
EXTENDS MerkleHash

\* The loop both verifiers climb an audit path with: the root it leads to, or
\* Missing when the path is too short or too long.
RECURSIVE Climb(_, _, _, _)
Climb(node, last, path, hash) ==
  IF last = 0 THEN IF path = <<>> THEN hash ELSE Missing
  ELSE IF path = <<>> THEN Missing
  ELSE IF IsRightChild(node)
  THEN Climb(Parent(node), Parent(last), Tail(path),
             HashChildren(Head(path), hash))
  ELSE IF node < last
  THEN Climb(Parent(node), Parent(last), Tail(path),
             HashChildren(hash, Head(path)))
  ELSE Climb(Parent(node), Parent(last), path, hash)

\* MUTANT: a right sibling is looked for even where the tree has none.
RECURSIVE ClimbEven(_, _, _, _)
ClimbEven(node, last, path, hash) ==
  IF last = 0 THEN IF path = <<>> THEN hash ELSE Missing
  ELSE IF path = <<>> THEN Missing
  ELSE ClimbEven(Parent(node), Parent(last), Tail(path),
                 IF IsRightChild(node) THEN HashChildren(Head(path), hash)
                 ELSE HashChildren(hash, Head(path)))

RootFromEvenPath(leaf, treeSize, path, hash) ==
  IF leaf > treeSize \/ leaf = 0 THEN Missing
  ELSE ClimbEven(leaf - 1, treeSize - 1, path, hash)

RootFromPath(leaf, treeSize, path, hash) ==
  IF leaf > treeSize \/ leaf = 0 THEN Missing
  ELSE Climb(leaf - 1, treeSize - 1, path, hash)

VerifyPath(leaf, treeSize, path, root, hash) ==
  LET pathRoot == RootFromPath(leaf, treeSize, path, hash) IN
  pathRoot # Missing /\ pathRoot = root

verify_leaf_hash_inclusion(hash, index, proof, treeSize, root) ==
  IF treeSize <= index THEN "ValueError"
  ELSE LET pathRoot == Climb(index, treeSize - 1, proof, hash) IN
       IF pathRoot # Missing /\ pathRoot = root THEN "True" ELSE "ProofError"

-----------------------------------------------------------------------------

\* The climb of the two roots: while the old tree has nodes the left siblings
\* go into both hashes and the right ones into the new hash only; from the
\* old root on, all are right siblings.  The C++ loop also gives up when the
\* proof runs out at a level that needs none of it; the levels above do.
RECURSIVE ClimbBoth(_, _, _, _, _)
ClimbBoth(node, last, proof, old, new) ==
  LET short == [old |-> Missing, new |-> Missing, rest |-> <<>>] IN
  IF last = 0 THEN [old |-> old, new |-> new, rest |-> proof]
  ELSE IF node > 0 /\ ~IsRightChild(node) /\ node = last
  THEN ClimbBoth(Parent(node), Parent(last), proof, old, new)
  ELSE IF proof = <<>> THEN short
  ELSE IF IsRightChild(node)
  THEN ClimbBoth(Parent(node), Parent(last), Tail(proof),
                 HashChildren(Head(proof), old),
                 HashChildren(Head(proof), new))
  ELSE ClimbBoth(Parent(node), Parent(last), Tail(proof), old,
                 HashChildren(new, Head(proof)))

\* The number of levels both trees share below the first mutable node.
RECURSIVE SharedLevels(_)
SharedLevels(node) ==
  IF IsRightChild(node) THEN 1 + SharedLevels(Parent(node)) ELSE 0

\* The two roots a proof leads to.  An old tree of 2^k leaves is a node of the
\* new one, and its root is taken on trust.
RootsFromProof(size1, size2, root1, proof) ==
  LET shared == 2^SharedLevels(size1 - 1)
      node == (size1 - 1) \div shared
      last == (size2 - 1) \div shared
  IN  IF node = 0 THEN ClimbBoth(node, last, proof, root1, root1)
      ELSE IF proof = <<>>
      THEN [old |-> Missing, new |-> Missing, rest |-> <<>>]
      ELSE ClimbBoth(node, last, Tail(proof), Head(proof), Head(proof))

\* MUTANT: what is left of the proof is ignored.
VerifyConsistencyLoosely(size1, size2, root1, root2, proof) ==
  LET roots == RootsFromProof(size1, size2, root1, proof) IN
  IF size1 > size2 THEN FALSE
  ELSE IF size1 = size2 THEN root1 = root2 /\ proof = <<>>
  ELSE IF size1 = 0 THEN proof = <<>>
  ELSE proof # <<>> /\ roots.old = root1 /\ roots.new = root2

VerifyConsistency(size1, size2, root1, root2, proof) ==
  LET roots == RootsFromProof(size1, size2, root1, proof) IN
  IF size1 > size2 THEN FALSE
  ELSE IF size1 = size2 THEN root1 = root2 /\ proof = <<>>
  ELSE IF size1 = 0 THEN proof = <<>>
  ELSE /\ proof # <<>>
       /\ roots.old = root1 /\ roots.new = root2 /\ roots.rest = <<>>

\* MUTANT: the older root is compared first.
verify_old_first(size1, size2, root1, root2, proof) ==
  LET roots == RootsFromProof(size1, size2, root1, proof) IN
  IF size1 > size2 THEN "ValueError"
  ELSE IF size1 = size2
  THEN IF root1 = root2 THEN "True" ELSE "ConsistencyError"
  ELSE IF size1 = 0 THEN "True"
  ELSE IF roots.old = Missing THEN "ProofError"
  ELSE IF roots.old # root1 THEN "ConsistencyError"
  ELSE IF roots.new # root2 THEN "ProofError"
  ELSE "True"

\* MUTANT: only the newer root is compared.
verify_new_only(size1, size2, root1, root2, proof) ==
  LET roots == RootsFromProof(size1, size2, root1, proof) IN
  IF size1 > size2 THEN "ValueError"
  ELSE IF size1 = size2
  THEN IF root1 = root2 THEN "True" ELSE "ConsistencyError"
  ELSE IF size1 = 0 THEN "True"
  ELSE IF roots.old = Missing \/ roots.new # root2 THEN "ProofError"
  ELSE "True"

verify_tree_consistency(size1, size2, root1, root2, proof) ==
  LET roots == RootsFromProof(size1, size2, root1, proof) IN
  IF size1 > size2 THEN "ValueError"
  ELSE IF size1 = size2
  THEN IF root1 = root2 THEN "True" ELSE "ConsistencyError"
  ELSE IF size1 = 0 THEN "True"
  ELSE IF roots.old = Missing \/ roots.new # root2 THEN "ProofError"
  ELSE IF roots.old # root1 THEN "ConsistencyError"
  ELSE "True"

=============================================================================
