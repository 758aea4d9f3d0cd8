------------------------------ MODULE LogTree ------------------------------
(***************************************************************************)
(* Merkle trees as the clients of this repository see them.                *)
(*                                                                         *)
(* A tree is identified with its sequence of leaves and, hashes being      *)
(* collision free, with its root hash.  All the monitor ever asks of a     *)
(* tree is its size, whether two roots are equal, and whether a            *)
(* consistency proof between two of them can exist, that is, whether one   *)
(* tree is a prefix of the other.  CompactMerkleTree and MerkleVerifier in *)
(* src/python/ct/crypto/merkle.py compute these.                           *)
(***************************************************************************)
EXTENDS Integers

CONSTANTS
  Tree,           \* the trees that can be built from the entries in play
  Empty,          \* the tree with no leaves
  Size(_),        \* CompactMerkleTree.tree_size
  Prefix(_, _),   \* Prefix(s, t): the leaves of s are the first leaves of t
  NoRoot          \* the empty string that an unset root hash field holds

ASSUME TreeAssumption ==
  /\ Empty \in Tree
  /\ NoRoot \notin Tree
  /\ \A t \in Tree : Size(t) \in Nat
  /\ \A t \in Tree : Size(t) = 0 <=> t = Empty
  /\ \A t \in Tree : Prefix(t, t) /\ Prefix(Empty, t)
  /\ \A s, t \in Tree : Prefix(s, t) \in BOOLEAN
  /\ \A s, t \in Tree : Prefix(s, t) => Size(s) <= Size(t)
  /\ \A s, t \in Tree : Prefix(s, t) /\ Size(s) = Size(t) => s = t
  /\ \A r, s, t \in Tree : Prefix(r, s) /\ Prefix(s, t) => Prefix(r, t)

(* The entries that turn s into t, each named by the tree it completes.    *)
Entries(s, t) == {p \in Tree : Prefix(p, t) /\ Size(p) > Size(s)}

(* A signed tree head.  NoSTH is the default value of an unset SthResponse *)
(* field: size 0, timestamp 0 and an empty root hash.                      *)
STH == [ts : Nat, root : Tree \cup {NoRoot}]

NoSTH == [ts |-> 0, root |-> NoRoot]

TreeSize(sth) == IF sth.root = NoRoot THEN 0 ELSE Size(sth.root)

=============================================================================
