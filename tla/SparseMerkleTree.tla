-------------------------- MODULE SparseMerkleTree --------------------------
(***************************************************************************)
(* The sparse Merkle trees: SparseMerkleTree and VerifiableMap of          *)
(* src/cpp/merkletree, and the reference definition of their root.         *)
(*                                                                         *)
(* A path is the sequence of its bits.  A leaf is kept at the first free   *)
(* node of its path and pushed down when another one shares it.  The       *)
(* levels of tree_ are one function from a depth and an index to a node.   *)
(* An index has IndexBits bits: the code has 64 of them for paths of 256.  *)
(*                                                                         *)
(* A leaf's data is a number, and 0 stands for the empty string.           *)
(***************************************************************************)
EXTENDS MerkleHash, TLC

CONSTANTS
  Bits,       \* kDigestSizeBits and SHA_LEN, the length of a path
  IndexBits   \* the width of IndexType

ASSUME SparseAssumption == Bits \in Nat \ {0} /\ IndexBits \in Nat \ {0}

Paths == [1..Bits -> {0, 1}]

\* The hash of a subtree without leaves whose root has `depth` bits of the
\* path above it: DEFAULTS[depth], and null_hashes_[depth - 1].
Default[depth \in 0..Bits] ==
  IF depth = Bits THEN HashLeaf(0)
  ELSE HashChildren(Default[depth + 1], Default[depth + 1])

\* The hash, at that depth, of a subtree with one leaf.
RECURSIVE Raise(_, _, _, _)
Raise(hash, path, from, depth) ==
  IF from <= depth THEN hash
  ELSE Raise(IF path[from] = 1 THEN HashChildren(Default[from], hash)
             ELSE HashChildren(hash, Default[from]), path, from - 1, depth)

\* The reference: the root of the tree that holds the given data at the
\* paths that are the domain of `values`, below a prefix of them all.
RECURSIVE SubtreeOf(_, _)
SubtreeOf(values, prefix) ==
  IF \A path \in DOMAIN values : ~IsPrefix(prefix, path)
  THEN Default[Len(prefix)]
  ELSE IF Len(prefix) = Bits THEN HashLeaf(values[prefix])
  ELSE HashChildren(SubtreeOf(values, Append(prefix, 0)),
                    SubtreeOf(values, Append(prefix, 1)))

MapRootOf(values) == SubtreeOf(values, <<>>)

-----------------------------------------------------------------------------
(* SparseMerkleTree (C++).  A node is at <<depth, index>>.                 *)

LeafNode(path, hash) == [type |-> "LEAF", path |-> path, hash |-> hash]
InternalNode == [type |-> "INTERNAL", path |-> Missing, hash |-> Missing]

\* The nodes when a CHECK has failed.
CheckFailed == <<-1, -1>> :> InternalNode

\* The index of the child of `index` on the side of `bit`.
ChildIndex(index, bit) == (2 * index + bit) % 2^IndexBits

\* The node at `at` is changed.
With(nodes, at, node) == (at :> node) @@ nodes

\* MUTANT: the node keeps its hash.
PassedBy(nodes, at) == nodes

\* The inner node at `at` is above a leaf that is set: its hash is cleared.
Passed(nodes, at) == With(nodes, at, InternalNode)

\* The loop of SetLeaf from `depth` on; a CHECK fails when the place to push a
\* leaf down to is taken or there is none.
RECURSIVE SetFrom(_, _, _, _, _)
SetFrom(nodes, path, hash, depth, above) ==
  LET at == <<depth, ChildIndex(above, path[depth + 1])>>
  IN  IF depth = Bits THEN CheckFailed
      ELSE IF at \notin DOMAIN nodes
      THEN With(nodes, at, LeafNode(path, hash))
      ELSE IF nodes[at].type = "INTERNAL"
      THEN SetFrom(Passed(nodes, at), path, hash, depth + 1, at[2])
      ELSE IF nodes[at].path = path
      THEN With(nodes, at, LeafNode(path, hash))
      ELSE IF depth + 1 = Bits THEN CheckFailed
      ELSE LET bit == nodes[at].path[depth + 2]
               child == <<depth + 1, ChildIndex(at[2], bit)>>
           IN  IF child \in DOMAIN nodes THEN CheckFailed
               ELSE SetFrom(With(With(nodes, child, nodes[at]), at,
                                 InternalNode),
                            path, hash, depth + 1, at[2])

NewSparse == [nodes |-> <<>>, root |-> Missing]

SetLeaf(sparse, path, data) ==
  [nodes |-> SetFrom(sparse.nodes, path, HashLeaf(data), 0, 0),
   root |-> Missing]

\* The hash of the subtree at a node, and the nodes with the hashes that were
\* computed on the way.
RECURSIVE CalculateSubtreeHash(_, _, _)
CalculateSubtreeHash(nodes, depth, index) ==
  LET at == <<depth, index>>
      left == CalculateSubtreeHash(nodes, depth + 1, ChildIndex(index, 0))
      right == CalculateSubtreeHash(left.nodes, depth + 1,
                                    ChildIndex(index, 1))
      hash == HashChildren(left.value, right.value)
  IN  IF at \notin DOMAIN nodes
      THEN [value |-> Default[depth + 1], nodes |-> nodes]
      ELSE IF nodes[at].type = "LEAF"
      THEN [value |-> Raise(nodes[at].hash, nodes[at].path, Bits, depth + 1),
            nodes |-> nodes]
      ELSE IF nodes[at].hash # Missing
      THEN [value |-> nodes[at].hash, nodes |-> nodes]
      ELSE [value |-> hash,
            nodes |-> With(right.nodes, at, [InternalNode EXCEPT !.hash = hash])]

CurrentRoot(sparse) ==
  LET left == CalculateSubtreeHash(sparse.nodes, 0, 0)
      right == CalculateSubtreeHash(left.nodes, 0, 1)
  IN  IF sparse.root # Missing THEN sparse
      ELSE [nodes |-> right.nodes,
            root |-> HashChildren(left.value, right.value)]

-----------------------------------------------------------------------------
(* VerifiableMap (C++).  The path of a key is its hash, so keys are paths. *)

NewMap == [tree |-> NewSparse, values |-> <<>>]

MapSet(map, key, value) ==
  [tree |-> SetLeaf(map.tree, key, value),
   values |-> (key :> value) @@ map.values]

\* No two keys agree in so many bits that indices are cut short.
IndicesSuffice(map) ==
  \A k1, k2 \in DOMAIN map.values :
    k1 = k2 \/ \E i \in 1..IndexBits : i <= Bits /\ k1[i] # k2[i]

=============================================================================
