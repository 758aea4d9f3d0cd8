------------------------- MODULE VerifiableDatabase -------------------------
(***************************************************************************)
(* The verifiable database of src/python/demo/vdb: a log of operations and *)
(* a map that is built by replaying it and keeps all its versions.         *)
(*                                                                         *)
(* A node of the map is known by its prefix, the bits of the way to it, so *)
(* a child is either there (TRUE) or not.  A key is its path; the value 0  *)
(* stands for the empty string, which deletes.                             *)
(***************************************************************************)
EXTENDS SparseMerkleTree

\* Python's None, for a value, a path and a node, and an exception.
None == -1
NoPath == <<>>
NoNode == <<-1>>
Error == <<"raise">>

-----------------------------------------------------------------------------
(* SequencedData: the values of something, with the version each one came. *)

NewData(default) == <<[seq |-> 0, val |-> default]>>

\* The value in effect at a version.
Get(data, seq) ==
  data[CHOOSE i \in DOMAIN data :
         /\ i = 1 \/ data[i].seq <= seq
         /\ \A j \in DOMAIN data : j > i => data[j].seq > seq].val

\* A value that is in effect already is not set again.
Set(data, value, seq) ==
  IF Get(data, seq) = value THEN data
  ELSE IF seq > Last(data).seq THEN Append(data, [seq |-> seq, val |-> value])
  ELSE Error

-----------------------------------------------------------------------------
(* Node and VerifiableMap.                                                 *)

NewNode(prefix) ==
  [hash |-> NewData(Default[Len(prefix)]), left |-> NewData(FALSE),
   right |-> NewData(FALSE), path |-> NewData(NoPath), value |-> NewData(None)]

NewVersions == [nodes |-> <<>> :> NewNode(<<>>), size |-> 0]

\* The nodes after a field of one of them is set.
SetField(nodes, prefix, field, value, seq) ==
  [nodes EXCEPT ![prefix][field] = Set(@, value, seq)]

At(nodes, prefix, field, seq) == Get(nodes[prefix][field], seq)

\* left_hash and right_hash.
ChildHash(nodes, prefix, bit, seq) ==
  IF At(nodes, prefix, IF bit = 1 THEN "right" ELSE "left", seq)
  THEN At(nodes, Append(prefix, bit), "hash", seq)
  ELSE Default[Len(prefix) + 1]

NodeHash(nodes, prefix, seq) ==
  LET value == At(nodes, prefix, "value", seq)
      path == At(nodes, prefix, "path", seq)
  IN  IF value = None
      THEN IF \A side \in {"left", "right"} : ~At(nodes, prefix, side, seq)
           THEN Default[Len(prefix)]
           ELSE HashChildren(ChildHash(nodes, prefix, 0, seq),
                             ChildHash(nodes, prefix, 1, seq))
      ELSE Raise(HashLeaf(value), path, Bits, Len(prefix))

\* MUTANT: the parent is not told.
RedoOwnHash(nodes, prefix, seq) ==
  SetField(nodes, prefix, "hash", NodeHash(nodes, prefix, seq), seq)

\* _redo_hash: this node, and its ancestors as long as something changes.
RECURSIVE RedoHash(_, _, _)
RedoHash(nodes, prefix, seq) ==
  LET hash == NodeHash(nodes, prefix, seq)
      done == SetField(nodes, prefix, "hash", hash, seq)
  IN  IF hash = At(nodes, prefix, "hash", seq) \/ prefix = <<>> THEN done
      ELSE RedoHash(done, Front(prefix), seq)

\* Every mutation is a version of its own; a new value also changes hashes.
Mutate(map, prefix, field, value) ==
  LET seq == map.size + 1
      nodes == SetField(map.nodes, prefix, field, value, seq)
  IN  [nodes |-> IF field = "value" THEN RedoHash(nodes, prefix, seq)
                 ELSE nodes,
       size |-> seq]

\* The end of _place: path and value come to this node.
Put(map, prefix, path, value) ==
  Mutate(Mutate(map, prefix, "path", path), prefix, "value", value)

\* The child of a node on the side of `bit`, made when it is missing.
WithChild(map, prefix, bit) ==
  LET side == IF bit = 1 THEN "right" ELSE "left"
      child == Append(prefix, bit)
  IN  IF At(map.nodes, prefix, side, map.size) THEN map
      ELSE Mutate([map EXCEPT !.nodes = (child :> NewNode(child)) @@ @],
                  prefix, side, TRUE)

\* _place: a leaf that is in the way is taken out of its node and, unless it
\* is the same key's, placed again below, after the new one.
RECURSIVE Place(_, _, _, _)
Place(map, prefix, path, value) ==
  LET prevValue == At(map.nodes, prefix, "value", map.size)
      prevPath == At(map.nodes, prefix, "path", map.size)
      cleared == Mutate(Mutate(map, prefix, "path", NoPath),
                        prefix, "value", None)
      room == IF prevValue = None THEN map ELSE cleared
      below == Len(prefix) + 1
      free == \A side \in {"left", "right"} :
                ~At(room.nodes, prefix, side, room.size)
      Down(m, p, v) == Place(WithChild(m, prefix, p[below]),
                             Append(prefix, p[below]), p, v)
  IN  IF Len(prefix) = Bits THEN Put(map, prefix, path, value)
      ELSE IF prevValue # None /\ prevPath # path
      THEN Down(Down(room, path, value), prevPath, prevValue)
      ELSE IF free THEN Put(room, prefix, path, value)
      ELSE Down(room, path, value)

\* get at a version: where the search for a key ends, and the last node it
\* went through.
RECURSIVE Search(_, _, _, _, _)
Search(nodes, path, seq, cur, last) ==
  LET depth == Len(cur)
      side == IF path[depth + 1] = 1 THEN "right" ELSE "left"
      next == Append(cur, path[depth + 1])
  IN  IF depth = Bits \/ At(nodes, cur, "path", seq) = path
      THEN [cur |-> cur, last |-> last, depth |-> depth]
      ELSE IF At(nodes, cur, "value", seq) # None
      THEN [cur |-> NoNode, last |-> cur, depth |-> depth]
      ELSE IF ~At(nodes, cur, side, seq)
      THEN [cur |-> NoNode, last |-> cur, depth |-> depth + 1]
      ELSE Search(nodes, path, seq, next, cur)

\* The siblings on the way down to the given depth, then what a leaf in
\* another place makes of them, then the hashes of empty trees.
MapProof(nodes, path, seq, found) ==
  LET value == At(nodes, found.last, "value", seq)
      other == At(nodes, found.last, "path", seq)
      fork == IF value = None \/ other = path THEN 0
              ELSE CHOOSE i \in 1..Bits :
                     /\ i > found.depth /\ path[i] # other[i]
                     /\ \A j \in (found.depth + 1)..(i - 1) : path[j] = other[j]
  IN  [i \in 1..Bits |->
         IF i <= found.depth
         THEN ChildHash(nodes, SubSeq(path, 1, i - 1), 1 - path[i], seq)
         ELSE IF i = fork THEN Raise(HashLeaf(value), other, Bits, i)
         ELSE Default[i]]

\* compress_proof: runs of hashes of empty trees become their number.
compress_proof(proof) ==
  LET Add(rv, i) ==
        IF proof[i] # Default[i] THEN Append(rv, [count |-> 0, hash |-> proof[i]])
        ELSE IF rv # <<>> /\ Last(rv).count > 0
        THEN [rv EXCEPT ![Len(rv)].count = @ + 1]
        ELSE Append(rv, [count |-> 1, hash |-> Missing])
  IN  FoldLeftDomain(Add, <<>>, proof)

decompress_proof(proof) ==
  LET pp == FlattenSeq([i \in DOMAIN proof |->
                          IF proof[i].count = 0 THEN <<proof[i].hash>>
                          ELSE [j \in 1..proof[i].count |-> Missing]])
  IN  [i \in DOMAIN pp |-> IF pp[i] = Missing THEN Default[i] ELSE pp[i]]

MapGet(map, path, seq) ==
  LET found == Search(map.nodes, path, seq, <<>>, <<>>)
  IN  [value |-> IF found.cur = NoNode THEN 0
                 ELSE At(map.nodes, found.cur, "value", seq),
       proof |-> compress_proof(MapProof(map.nodes, path, seq, found))]

\* The root that a value and a proof lead to.
RECURSIVE RecalcFrom(_, _, _, _)
RecalcFrom(hash, path, proof, depth) ==
  IF depth = 0 THEN hash
  ELSE RecalcFrom(IF path[depth] = 1 THEN HashChildren(proof[depth], hash)
                  ELSE HashChildren(hash, proof[depth]),
                  path, proof, depth - 1)

recalc_tree_hash(path, value, proof) ==
  RecalcFrom(HashLeaf(value), path, decompress_proof(proof), Bits)

-----------------------------------------------------------------------------
(* VerifiableLog.  A range <<start, end>> of its entries goes from entry    *)
(* start + 1 to entry end.  cache is what _calc_mth remembers of ranges;   *)
(* early, a history, the ranges it met before the log had reached their    *)
(* end: the size of a proof is not compared with that of the log.          *)

NewLog == [entries |-> <<>>, cache |-> <<>>, early |-> {}]

\* The number of ones at the end of i in binary.
RECURSIVE TrailingOnes(_)
TrailingOnes(i) == IF i % 2 = 0 THEN 0 ELSE 1 + TrailingOnes(i \div 2)

\* The last k + 1 hashes of a stack become one.
RECURSIVE Merge(_, _)
Merge(stack, k) ==
  IF k = 0 THEN stack
  ELSE LET n == Len(stack)
       IN  Merge(Append(SubSeq(stack, 1, n - 2),
                        HashChildren(stack[n - 1], stack[n])), k - 1)

\* _calc_mth without its cache, for a range that begins inside the log.  When
\* it ends beyond the log the stack is not merged into one hash, and the one
\* at its bottom is returned.
RangeHash(entries, start, end) ==
  LET Add(stack, i) ==
        LET pushed == Append(stack, HashLeaf(entries[start + i]))
        IN  Merge(pushed, IF i < end - start THEN TrailingOnes(i - 1)
                          ELSE Len(stack))
      there == IF end < Len(entries) THEN end ELSE Len(entries)
  IN  FoldLeftDomain(Add, <<>>, SubSeq(entries, start + 1, there))[1]

calc_mth(log, range) ==
  IF range \in DOMAIN log.cache THEN log.cache[range]
  ELSE RangeHash(log.entries, range[1], range[2])

\* The log when these ranges have been hashed in turn: up to the first one
\* without an entry, at which stack[0] raises.
HashRanges(log, ranges) ==
  LET size == Len(log.entries)
      reached == {i \in DOMAIN ranges : \A j \in 1..i : ranges[j][1] < size}
      fresh == {ranges[i] : i \in reached} \ DOMAIN log.cache
  IN  [log EXCEPT
         !.cache = [r \in fresh |-> RangeHash(log.entries, r[1], r[2])] @@ @,
         !.early = @ \cup {r \in fresh : r[2] > size}]

\* MUTANT: a size beyond the log is not refused.
get_tree_head_unchecked(log, seq) ==
  IF seq = 0 THEN log ELSE HashRanges(log, <<<<0, seq>>>>)

get_tree_head(log, seq) ==
  IF seq = 0 \/ seq > Len(log.entries) THEN log
  ELSE HashRanges(log, <<<<0, seq>>>>)

\* The ranges of a consistency proof, for 1 <= m <= end - start.
RECURSIVE subproof(_, _, _, _)
subproof(m, start, end, b) ==
  LET n == end - start
      k == Split(n)
  IN  IF m = n THEN IF b THEN <<>> ELSE <<<<start, end>>>>
      ELSE IF m <= k
      THEN Append(subproof(m, start, start + k, b), <<start + k, end>>)
      ELSE Append(subproof(m - k, start + k, end, FALSE), <<start, start + k>>)

consistency_proof(log, first, second) ==
  HashRanges(log, subproof(first, 0, second, TRUE))

\* The ranges of the audit path of leaf m, for m < end - start.
RECURSIVE path_ranges(_, _, _)
path_ranges(m, start, end) ==
  LET n == end - start
      k == Split(n)
  IN  IF n = 1 THEN <<>>
      ELSE IF m < k
      THEN Append(path_ranges(m, start, start + k), <<start + k, end>>)
      ELSE Append(path_ranges(m - k, start + k, end), <<start, start + k>>)

inclusion_proof(log, m, n) == HashRanges(log, path_ranges(m, 0, n))

-----------------------------------------------------------------------------
(* VerifiableBase and VerifiableDatabase.  An entry of the log is a key    *)
(* and the value it is set to.                                             *)

NewDatabase ==
  [log |-> NewLog, processed |-> 0, heads |-> <<>>, map |-> NewVersions]

Apply(db, entry) ==
  LET map == Place(db.map, <<>>, entry[1], entry[2])
  IN  [db EXCEPT !.map = map, !.processed = @ + 1,
                 !.heads = Append(@, map.size)]

\* _update_from_log: the log is asked for its head, and every new entry is
\* applied, in order.
UpdateFromLog(db) ==
  LET size == Len(db.log.entries)
  IN  FoldLeft(Apply, [db EXCEPT !.log = get_tree_head(@, size)],
               SubSeq(db.log.entries, db.processed + 1, size))

\* VerifiableBase.get_tree_head; a size that the log has not reached raises
\* after the update.
BaseTreeHead(db, size) ==
  LET updated == IF size > db.processed THEN UpdateFromLog(db) ELSE db
  IN  IF size > updated.processed THEN updated
      ELSE [updated EXCEPT !.log = get_tree_head(@, size)]

\* The map's version for a size of the log.
MapSeq(db, size) == IF size = 0 THEN 0 ELSE db.heads[size]

DatabaseGet(db, key, size) == MapGet(db.map, key, MapSeq(db, size))

DatabaseRoot(db, size) == At(db.map.nodes, <<>>, "hash", MapSeq(db, size))

=============================================================================
