------------------------------- MODULE Merkle -------------------------------
(***************************************************************************)
(* The Merkle trees of the repository in use.  A behaviour follows one of  *)
(* seven users; the first three share the leaves of the log:               *)
(*                                                                         *)
(*   "tree"      a MerkleTree that grows while it is asked for roots,      *)
(*               audit paths and consistency proofs in any order, and a    *)
(*               C++ CompactMerkleTree that grows beside it or is built    *)
(*               from it;                                                  *)
(*   "client"    the Python CompactMerkleTree of the monitor, extended by  *)
(*               chunks of any size, saved and loaded;                     *)
(*   "verifier"  the two verifiers, given a proof for some sizes;          *)
(*   "map"       the C++ VerifiableMap;                                    *)
(*   "database"  the Python verifiable database;                           *)
(*   "served"    the database's log: what VerifiableBase passes on to it;  *)
(*   "log"       a VerifiableLog on its own, which has one more question.  *)
(*                                                                         *)
(* MutableSpec is the MutableMerkleTree alone.                             *)
(***************************************************************************)
EXTENDS CompactMerkleTree, MerkleVerifier, VerifiableDatabase

CONSTANTS
  MaxLeaves,   \* the largest log
  Updates,     \* how many leaves of a mutable tree are changed
  Keys,        \* the paths of the keys of the map
  LoggedKeys,  \* and of the keys of the database
  MaxOps,      \* how many operations a database logs
  MaxCached    \* bound: a log on its own is asked while its cache is smaller

ASSUME MerkleAssumption ==
  /\ MaxLeaves \in Nat /\ Updates \in Nat
  /\ Keys \subseteq Paths /\ LoggedKeys \subseteq Paths
  /\ MaxOps \in Nat /\ MaxCached \in Nat

VARIABLES
  user,      \* whose behaviour this is
  leaves,    \* the data of the log's leaves
  tree,      \* the MerkleTree
  compact,   \* the C++ CompactMerkleTree
  client,    \* the Python CompactMerkleTree
  file,      \* the Python tree as it was last saved
  answer,    \* the last question and what it was answered
  map,       \* the VerifiableMap
  db         \* the verifiable database

logVars == <<leaves, tree, compact, client, file, answer>>
vars == <<user, logVars, map, db>>

NoAnswer == [of |-> "nothing", from |-> 0, to |-> 0, value |-> <<>>]

Data == -MaxLeaves..MaxLeaves

\* The first n leaves.
FirstLeaves(n) == SubSeq(leaves, 1, n)

\* The shape of the state: the trees count the same leaves as the log, and no
\* assertion of MerkleTree has failed, whose value would be in the tree, in the
\* compact tree built from it or in an answer.  (The CHECKs of SetLeaf are
\* MapRight's.)
TypeOK ==
  /\ user \in {"tree", "client", "verifier", "mutable", "map", "database",
              "served", "log"}
  /\ leaves \in Seq(Data) /\ Len(leaves) <= MaxLeaves
  /\ LeafCount(tree) = IF user \in {"tree", "mutable"} THEN Len(leaves) ELSE 0
  /\ tree.processed \in 0..LeafCount(tree)
  /\ tree.levelCount = IF tree = NewTree THEN 0
                       ELSE LevelsAbove(LeafCount(tree) - 1)
  /\ compact.leafCount = IF user = "tree" THEN Len(leaves) ELSE 0
  /\ compact.levelCount = IF user = "tree" THEN tree.levelCount ELSE 0
  /\ client.tree_size \in 0..Len(leaves)
  /\ file.tree_size \in 0..Len(leaves)
  /\ answer.of \in {"nothing", "root", "path", "consistency"}
  /\ \A level \in Range(tree.levels) : Assertion \notin Range(level)
  /\ Assertion \notin Range(compact.tree) \cup {compact.root}
  /\ IF answer.of = "root" THEN answer.value # Assertion
     ELSE Assertion \notin Range(answer.value)
  /\ DOMAIN map.values \subseteq Keys
  /\ db.processed \in 0..Len(db.log.entries) /\ Len(db.heads) = db.processed

Start ==
  /\ leaves = <<>>
  /\ tree = NewTree
  /\ compact = NewCompact
  /\ client = update(0, <<>>)
  /\ file = save(client)
  /\ answer = NoAnswer
  /\ map = NewMap
  /\ db = NewDatabase

Init ==
  /\ Start
  /\ user \in {"tree", "client", "verifier", "map", "database", "served", "log"}

NextLeaf == Len(leaves) + 1

\* A new leaf goes to the log, and to the trees kept beside it.
AddLeaf ==
  /\ user \in {"tree", "client", "verifier", "mutable"}
  /\ Len(leaves) < MaxLeaves
  /\ leaves' = Append(leaves, NextLeaf)
  /\ answer' = NoAnswer
  /\ tree' = IF user \in {"tree", "mutable"}
             THEN AddLeafHash(tree, HashLeaf(NextLeaf)) ELSE tree
  /\ compact' = IF user = "tree"
                THEN CompactAdd(compact, HashLeaf(NextLeaf)) ELSE compact
  /\ UNCHANGED <<user, client, file, map, db>>

\* An answer of the MerkleTree: the tree may have been brought up to date.
Answers(of, from, to, result) ==
  /\ user \in {"tree", "mutable"}
  /\ tree' = result.tree
  /\ answer' = [of |-> of, from |-> from, to |-> to, value |-> result.value]
  /\ UNCHANGED <<user, leaves, compact, client, file, map, db>>

AskRoot(s) == Answers("root", s, s, RootAtSnapshot(tree, s))

AskPath(leaf, s) ==
  Answers("path", leaf, s, PathToRootAtSnapshot(tree, leaf, s))

AskConsistency(s1, s2) ==
  Answers("consistency", s1, s2, SnapshotConsistency(tree, s1, s2))

CompactRoot ==
  /\ user = "tree"
  /\ compact' = UpdateRoot(compact)
  /\ answer' = NoAnswer
  /\ UNCHANGED <<user, leaves, tree, client, file, map, db>>

\* The compact tree is replaced by one built from the MerkleTree.
Rebuild ==
  /\ user = "tree"
  /\ compact' = CompactFrom(tree).value
  /\ tree' = CompactFrom(tree).tree
  /\ answer' = NoAnswer
  /\ UNCHANGED <<user, leaves, client, file, map, db>>

-----------------------------------------------------------------------------

Extend(k) ==
  /\ user = "client"
  /\ client.tree_size + k <= Len(leaves)
  /\ client' = extend(client, SubSeq(leaves, client.tree_size + 1,
                                     client.tree_size + k))
  /\ UNCHANGED <<user, leaves, tree, compact, file, answer, map, db>>

ClientRoot ==
  /\ user = "client"
  /\ client' = with_root_hash(client)
  /\ UNCHANGED <<user, leaves, tree, compact, file, answer, map, db>>

Save ==
  /\ user = "client"
  /\ file' = save(client)
  /\ UNCHANGED <<user, leaves, tree, compact, client, answer, map, db>>

Load ==
  /\ user = "client"
  /\ client' = load(file)
  /\ UNCHANGED <<user, leaves, tree, compact, file, answer, map, db>>

\* A genuine proof, or one with a node lost, added or out of place.
Damaged(proof) ==
  {proof, Append(proof, HashEmpty)}
  \cup (IF proof = <<>> THEN {}
        ELSE {Tail(proof), Front(proof), Reverse(proof),
              [proof EXCEPT ![1] = HashEmpty]})

\* The verifiers are handed a path or a proof.
Receive(of, m, n) ==
  /\ user = "verifier"
  /\ \E proof \in Damaged(IF of = "path"
                          THEN InclusionProof(m - 1, FirstLeaves(n))
                          ELSE ConsistencyProof(m, FirstLeaves(n))) :
       answer' = [of |-> of, from |-> m, to |-> n, value |-> proof]
  /\ UNCHANGED <<user, leaves, tree, compact, client, file, map, db>>

\* Values that the maps are given: the empty one and another.
MapValues == {0, 1}

SetKey(key, value) ==
  /\ user = "map"
  /\ map.tree.nodes # CheckFailed
  /\ map' = MapSet(map, key, value)
  /\ UNCHANGED <<user, logVars, db>>

MapRoot ==
  /\ user = "map"
  /\ map.tree.nodes # CheckFailed
  /\ map' = [map EXCEPT !.tree = CurrentRoot(@)]
  /\ UNCHANGED <<user, logVars, db>>

\* set and delete of the database only append to its log.
Operation(key, value) ==
  /\ user = "database"
  /\ Len(db.log.entries) < MaxOps
  /\ db' = [db EXCEPT !.log.entries = Append(@, <<key, value>>)]
  /\ UNCHANGED <<user, logVars, map>>

\* get_tree_head.  Without a size it leaves what a size beyond the log leaves.
DatabaseHead(size) ==
  /\ user = "database"
  /\ db' = BaseTreeHead(db, size)
  /\ UNCHANGED <<user, logVars, map>>

\* The log on its own: append, and its questions, about any size.
LogAppend ==
  /\ user \in {"served", "log"}
  /\ Len(db.log.entries) < MaxLeaves
  /\ db' = [db EXCEPT !.log.entries = Append(@, Len(@) + 1)]
  /\ UNCHANGED <<user, logVars, map>>

LogAsked(log) ==
  /\ Cardinality(DOMAIN db.log.cache) < MaxCached
  /\ db' = [db EXCEPT !.log = log]
  /\ UNCHANGED <<user, logVars, map>>

LogHead(seq) ==
  user \in {"served", "log"} /\ LogAsked(get_tree_head(db.log, seq))

LogConsistency(first, second) ==
  /\ user \in {"served", "log"}
  /\ LogAsked(consistency_proof(db.log, first, second))

\* VerifiableBase does not pass this one on.
LogInclusion(m, n) ==
  user = "log" /\ LogAsked(inclusion_proof(db.log, m, n))

Next ==
  \/ AddLeaf
  \/ \E value \in MapValues :
       \/ \E key \in Keys : SetKey(key, value)
       \/ \E key \in LoggedKeys : Operation(key, value)
  \/ MapRoot
  \/ \E size \in 1..Len(db.log.entries) + 1 : DatabaseHead(size)
  \/ LogAppend
  \/ \E n \in 1..MaxLeaves :
       \/ LogHead(n)
       \/ \E m \in 1..n : LogConsistency(m, n) \/ LogInclusion(m - 1, n)
  \/ \E s \in 0..NextLeaf : AskRoot(s)
  \/ \E leaf, s \in 0..NextLeaf : AskPath(leaf, s)
  \/ \E s1, s2 \in 0..NextLeaf : AskConsistency(s1, s2)
  \/ CompactRoot
  \/ Rebuild
  \/ \E k \in 0..MaxLeaves : Extend(k)
  \/ ClientRoot
  \/ Save
  \/ Load
  \/ \E n \in 1..Len(leaves) : \E m \in 1..n : Receive("path", m, n)
  \/ \E n \in 0..Len(leaves) : \E m \in 0..n : Receive("consistency", m, n)

Spec == Init /\ [][Next]_vars

-----------------------------------------------------------------------------

(***************************************************************************)
(* Properties                                                              *)
(***************************************************************************)

\* What RFC 6962 says the answer to a question is; what the code documents
\* for a question that has none is an empty answer.
Expected(of, from, to) ==
  IF to > Len(leaves) THEN <<>>
  ELSE IF of = "root" THEN RootOf(FirstLeaves(to))
  ELSE IF of = "path"
  THEN IF from \in 1..to THEN InclusionProof(from - 1, FirstLeaves(to))
       ELSE <<>>
  ELSE IF from < to THEN ConsistencyProof(from, FirstLeaves(to)) ELSE <<>>

\* Whatever was asked before and in whatever order the leaves came, the
\* lazily evaluated MerkleTree answers every question about every snapshot as
\* RFC 6962 defines it (RootAtSnapshot, PathToRootAtSnapshot and
\* SnapshotConsistency of merkle_tree.cc).
AnswersRight ==
  user = "tree" /\ answer.of # "nothing" =>
    answer.value = Expected(answer.of, answer.from, answer.to)

\* The C++ CompactMerkleTree, grown leaf by leaf or built from a MerkleTree at
\* any point of its lazy evaluation, holds the full subtrees of the leaves,
\* and its root is theirs when it has been brought up to date.
CompactRight ==
  user = "tree" =>
    /\ LET present == SelectSeq(compact.tree, LAMBDA h : h # Missing)
       IN  Reverse(present) = hash_full(leaves)
    /\ compact.processed = compact.leafCount =>
         compact.root = RootOf(leaves)

\* The Python CompactMerkleTree, extended by chunks of any size and reloaded
\* from any earlier save, raises nothing, holds the full subtrees of a prefix
\* of the log, and a root it has cached is that prefix's root.
ClientRight ==
  /\ client # Raised
  /\ client.hashes = hash_full(FirstLeaves(client.tree_size))
  /\ client.root_hash \in {Missing, RootOf(FirstLeaves(client.tree_size))}
  /\ file.hashes = hash_full(FirstLeaves(file.tree_size))

\* Both verifiers accept a path for exactly the leaf and the tree whose audit
\* path it is.
PathsVerified ==
  user = "verifier" /\ answer.of = "path" =>
    \A n \in 1..Len(leaves) : \A m \in 1..n :
      LET genuine == answer.value = InclusionProof(m - 1, FirstLeaves(n))
          root == RootOf(FirstLeaves(n))
          hash == HashLeaf(m)
      IN  /\ VerifyPath(m, n, answer.value, root, hash) = genuine
          /\ (verify_leaf_hash_inclusion(hash, m - 1, answer.value, n, root)
                = "True") = genuine

\* The C++ verifier accepts a proof for exactly the pair of trees whose
\* consistency proof it is.  The Python one also accepts what follows such a
\* proof, and any proof for an empty or an equal tree.
ConsistencyVerified ==
  user = "verifier" /\ answer.of = "consistency" =>
    \A n \in 0..Len(leaves) : \A m \in 0..n :
      LET proof == ConsistencyProof(m, FirstLeaves(n))
          old == RootOf(FirstLeaves(m))
          new == RootOf(FirstLeaves(n))
      IN  /\ VerifyConsistency(m, n, old, new, answer.value)
               = (answer.value = proof)
          /\ (verify_tree_consistency(m, n, old, new, answer.value) = "True")
               = (m \in {0, n} \/ IsPrefix(proof, answer.value))

\* A log that only grows is never reported as inconsistent: whatever proof
\* comes with two of its roots, the Python verifier does not raise
\* ConsistencyError, "usually really serious", but ProofError at most.
NoFalseAlarm ==
  user = "verifier" /\ answer.of = "consistency" =>
    \A n \in 0..Len(leaves) : \A m \in 0..n :
      verify_tree_consistency(m, n, RootOf(FirstLeaves(m)),
                              RootOf(FirstLeaves(n)), answer.value)
        # "ConsistencyError"

\* A root that is not the root of a prefix of the log is accepted by neither
\* verifier as consistent with it: here, the root of a tree one of whose
\* leaves differs.
ForkRejected ==
  user = "verifier" /\ answer.of = "consistency" =>
    \A n \in 1..Len(leaves) : \A m \in 1..n :
      LET fork == RootOf([FirstLeaves(m) EXCEPT ![m] = -m])
          new == RootOf(FirstLeaves(n))
      IN  /\ ~VerifyConsistency(m, n, fork, new, answer.value)
          /\ verify_tree_consistency(m, n, fork, new, answer.value) # "True"

\* The root of a VerifiableMap is that of the values it returns, whichever
\* hashes of inner nodes (TreeNode::hash_) earlier questions have left behind,
\* and no CHECK of SetLeaf fails, as long as no two keys agree in as many bits
\* as an index has.
MapRight ==
  IndicesSuffice(map) =>
    /\ map.tree.nodes # CheckFailed
    /\ map.tree.root \in {Missing, MapRootOf(map.values)}

\* What the database's log says a key's value is after the first operations.
Logged(size) ==
  LET ops == db.log.entries
  IN  [k \in {ops[i][1] : i \in 1..size} |->
         ops[CHOOSE i \in 1..size :
               /\ ops[i][1] = k
               /\ \A j \in (i + 1)..size : ops[j][1] # k][2]]

\* For every size of the log that was processed, however the values were
\* pushed down the tree since, the database has the root of the values logged
\* by then, gives every key that value, and its proof leads to that root.
DatabaseRight ==
  user = "database" => \A size \in 0..db.processed :
    LET values == Logged(size)
        root == MapRootOf(values)
    IN  /\ DatabaseRoot(db, size) = root
        /\ \A key \in LoggedKeys :
             LET answered == DatabaseGet(db, key, size) IN
             /\ answered.value = IF key \in DOMAIN values THEN values[key] ELSE 0
             /\ recalc_tree_hash(key, answered.value, answered.proof) = root

\* Whatever the database's log was asked before, and when, its answer about a
\* size it has is that of RFC 6962, which its readers check it with, unless
\* one of the answer's ranges was first asked for before the log had reached
\* the range's end (_calc_mth keeps the wrong hash for ever).  No question that
\* VerifiableBase passes on does that to a tree head.
DatabaseLogRight ==
  \A n \in 1..Len(db.log.entries) :
    LET entries == SubSeq(db.log.entries, 1, n)
        AnsweredWith(ranges, hashes) ==
          ([i \in DOMAIN ranges |-> calc_mth(db.log, ranges[i])] = hashes)
            = (Range(ranges) \cap db.log.early = {})
    IN  /\ AnsweredWith(<<<<0, n>>>>, <<RootOf(entries)>>)
        /\ user # "log" => <<0, n>> \notin db.log.early
        /\ \A m \in 1..n :
             /\ AnsweredWith(path_ranges(m - 1, 0, n),
                             InclusionProof(m - 1, entries))
             /\ AnsweredWith(subproof(m, 0, n, TRUE),
                             ConsistencyProof(m, entries))

-----------------------------------------------------------------------------

\* The MutableMerkleTree: leaves are also changed and cut off.

MutableInit == Start /\ user = "mutable"

UpdateLeaf(leaf) ==
  /\ Cardinality({i \in 1..Len(leaves) : leaves[i] < 0}) < Updates
  /\ leaf \in 1..Len(leaves)
  /\ leaves[leaf] > 0
  /\ leaves' = [leaves EXCEPT ![leaf] = -leaf]
  /\ tree' = UpdateLeafHash(tree, leaf, HashLeaf(-leaf))
  /\ answer' = NoAnswer
  /\ UNCHANGED <<user, compact, client, file, map, db>>

TruncateTo(leaf) ==
  /\ leaf \in 0..Len(leaves)
  /\ leaves' = FirstLeaves(leaf)
  /\ tree' = Truncate(tree, leaf)
  /\ answer' = NoAnswer
  /\ UNCHANGED <<user, compact, client, file, map, db>>

MutableNext ==
  \/ AddLeaf
  \/ AskRoot(Len(leaves))
  \/ \E leaf \in 0..Len(leaves) : UpdateLeaf(leaf) \/ TruncateTo(leaf)

MutableSpec == MutableInit /\ [][MutableNext]_vars

\* CurrentRoot "reflects the current shape of the tree" (merkle_tree.h): after
\* any updates and truncations it is the root of the leaves the tree holds.
\* UpdateLeafHash stops at the first node of a level, below the root, and
\* Truncate does not lower leaves_processed_.
CurrentRootIsCurrent ==
  answer.of = "root" => answer.value = RootOf(leaves)

=============================================================================
