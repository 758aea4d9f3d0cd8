----------------------------- MODULE MerkleHash -----------------------------
(***************************************************************************)
(* Merkle trees over an ideal hash function, and what RFC 6962 says of     *)
(* them.  A hash is the term it was computed from, so two hashes are equal *)
(* exactly when they were computed the same way.                           *)
(*                                                                         *)
(* The recursive definitions are those of the RFC, which                   *)
(* src/python/ct/crypto/in_memory_merkle_tree.py and TreeHasher of         *)
(* src/python/ct/crypto/merkle.py follow.  They are the reference for the  *)
(* incremental trees and for the verifiers.                                *)
(***************************************************************************)
EXTENDS Integers, Sequences, SequencesExt

HashEmpty == <<"empty">>
HashLeaf(data) == <<"leaf", data>>
HashChildren(left, right) == <<"node", left, right>>

\* The empty string the C++ code returns for "no such hash", and the value of
\* an expression whose assert fails.  Neither is a hash.
Missing == <<>>
Assertion == <<"assert", 0, 0, 0>>

Parent(node) == node \div 2
IsRightChild(node) == node % 2 = 1
Sibling(node) == IF IsRightChild(node) THEN node - 1 ELSE node + 1

IsPowerOfTwo(n) == \E k \in 0..n : n = 2^k
\* MUTANT: off by one.
IsPowerOfTwoExactly(count) == count > 0 /\ IsPowerOfTwo(count)

IsPowerOfTwoPlusOne(count) == count = 1 \/ (count > 1 /\ IsPowerOfTwo(count - 1))

\* The number of bits set in n.
RECURSIVE BitsSet(_)
BitsSet(n) == IF n = 0 THEN 0 ELSE (n % 2) + BitsSet(n \div 2)

\* The largest power of two below n, for n >= 2.
Split(n) == CHOOSE k \in 1..(n - 1) : IsPowerOfTwo(k) /\ 2 * k >= n

\* The root of a list of leaves: hash_full_tree.
RECURSIVE RootOf(_)
RootOf(leaves) ==
  LET n == Len(leaves) IN
  IF n = 0 THEN HashEmpty
  ELSE IF n = 1 THEN HashLeaf(leaves[1])
  ELSE HashChildren(RootOf(SubSeq(leaves, 1, Split(n))),
                    RootOf(SubSeq(leaves, Split(n) + 1, n)))

\* The audit path of the leaf at index m, counted from 0.
RECURSIVE InclusionProof(_, _)
InclusionProof(m, leaves) ==
  LET n == Len(leaves)
      k == Split(n)
  IN  IF n <= 1 THEN <<>>
      ELSE IF m < k
      THEN Append(InclusionProof(m, SubSeq(leaves, 1, k)),
                  RootOf(SubSeq(leaves, k + 1, n)))
      ELSE Append(InclusionProof(m - k, SubSeq(leaves, k + 1, n)),
                  RootOf(SubSeq(leaves, 1, k)))

RECURSIVE Subproof(_, _, _)
Subproof(m, leaves, complete) ==
  LET n == Len(leaves)
      k == Split(n)
  IN  IF m = n \/ n = 1
      THEN IF complete THEN <<>> ELSE <<RootOf(leaves)>>
      ELSE IF m <= k
      THEN Append(Subproof(m, SubSeq(leaves, 1, k), complete),
                  RootOf(SubSeq(leaves, k + 1, n)))
      ELSE Append(Subproof(m - k, SubSeq(leaves, k + 1, n), FALSE),
                  RootOf(SubSeq(leaves, 1, k)))

\* The proof that the tree of the first m leaves is a prefix of the tree of
\* them all: get_consistency_proof.
ConsistencyProof(m, leaves) ==
  IF m = Len(leaves) \/ m = 0 THEN <<>> ELSE Subproof(m, leaves, TRUE)

=============================================================================
