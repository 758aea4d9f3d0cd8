# A TLA+ verification of the certificate-transparency client and log libraries

The repository holds the Python monitor of Certificate Transparency logs
(`src/python/ct`) and the C++ libraries of the log and its clients
(`src/cpp`). This directory models the parts of it whose correctness depends on
order: callbacks, threads, crashes, retries, lazily evaluated data. The modules
are checked with TLC on small instances, and the central ones are proved with
TLAPS for every instance.

`PROJECT.json` is the index: components, runs, the source lines each definition
stands for, findings, hazards and theorems.

## The system and its parts

**The monitor (Python).** `Monitor.update` fetches a signed tree head (STH),
checks that it is consistent with the last verified one, fetches the new
entries, folds them into a compact Merkle tree, scans them on a thread and
accepts the STH when the tree's root is its root. The state (two STHs, two
trees) is saved in a file; STH audit records go to a log database and
certificates to a reporter. The `EntryProducer` of the asynchronous log client
fetches entries in parallel batches and hands them over in order. The prober
runs one monitor per log on one Twisted reactor.

**The C++ runtime.** `util::Task` is the life of an asynchronous operation with
children, holds and cancellation. `ThreadPool` runs closures and delayed tasks.
`libevent::Base` is the event loop. `UrlFetcher` and `ConnectionPool` make HTTP
requests over cached connections, and `AsyncLogClient` builds the log's API on
them.

**The Merkle trees.** C++: the lazily evaluated `MerkleTree`, the
`MutableMerkleTree`, the `CompactMerkleTree`, the `MerkleVerifier`, and the
`SparseMerkleTree` with the `VerifiableMap` on it. Python: `CompactMerkleTree`,
`MerkleVerifier`, the recursive `InMemoryMerkleTree`, and the verifiable database
of the demo, a map with all its versions that is replayed from a log.

**The rest.** Codecs (TLS structures in C++ and Python, ASN.1, protobuf), X.509
wrappers and the certificate checker over OpenSSL, signers and verifiers, SQLite
databases, the multiprocess scanner, monitoring counters and command line tools. They are listed in
`PROJECT.json` with what is planned for them, or why they are left out.

## Modules

| Module | Models | State and actions |
|---|---|---|
| `LogTree` | trees and STHs as the monitor uses them | a tree is an opaque value with a size and a prefix relation |
| `LogView` | what a monitor promises (abstract) | the verified STH only moves to newer STHs that extend it |
| `Monitor` | `monitor.py`, `state.py`, `store_sth` of `sqlite_log_db.py` | one action per run of the reactor between two waits; crashes, restarts and failed writes |
| `EntryStream` | what a producer promises (abstract) | entries in order, one batch at a time, one result |
| `EntryProducer` | `EntryProducer` of `async_log_client.py` | every batch is a chain of callbacks, every `resumeProducing` a generator |
| `TaskTree` | what tasks promise (abstract) | each returned once, done after its children, finished once |
| `Task` | `task.cc` | every method as one step under the lock, with the calls and closures it leaves for later |
| `ThreadPool` | `thread_pool.cc` | a thread's work under the queue's lock is one action; notifications come after |
| `ConnectionPool` | `connection_pool.cc`, the closures of `libevent_wrapper.cc` | `Get`, `Put`, `Cleanup` and libevhtp's hooks |
| `UrlFetcher` | `url_fetcher.cc` | a fetch on its way over three threads |
| `LogClient` | `async_log_client.cc`, `http_log_client.cc` | operations composed with the fetcher and the pool |
| `MerkleHash` | `in_memory_merkle_tree.py`, `TreeHasher`, `merkle_tree_math.cc` | the definitions of RFC 6962 over an ideal hash |
| `MerkleTree` | `merkle_tree.cc` | operators on a tree; a question returns the answer and the tree it leaves |
| `CompactMerkleTree` | both compact trees | operators, the Python ones under their lower-case names |
| `MerkleVerifier` | both verifiers | operators |
| `SparseMerkleTree` | `sparse_merkle_tree.cc`, `verifiable_map.cc` | operators; the levels are one function from depth and index to a node |
| `VerifiableDatabase` | `verifiable_map.py`, `verifiable_log.py`, `verifiable_base.py`, `demo_general_database.py` | operators; every field of a node is the sequence of its versions, the log keeps the cache of `_calc_mth` |
| `Merkle` | the trees in use | additions, questions, rebuilds, saves, loads, map, database and log operations in any order |
| `MCMonitor`, `MCEntryProducer`, `MCTask`, `MCLogClient`, `MCMerkle` | — | values of the constants for TLC |
| `MonitorProof`, `TaskInvariant`, `TaskProof`, `TaskTreeProof` | — | theorems |

`Monitor` uses the producer through the interface `EntryStream` states, and
`EntryProducer` is shown to implement it. `LogClient` extends `UrlFetcher`, which
extends `ConnectionPool`: one state machine over their variables.

### How the models correspond to the code

*Atomicity.* On the reactor nothing interrupts a callback, so a callback is one
action, with the failure of a call it makes as an alternative of the action. In
C++ what is done under a lock is one action; where the lock is given up before
something else is done (a notification, a child's `Cancel`, `Get`'s second look
at a connection) the rest is an action of its own.

*Data.* A hash is the term it is computed from. An STH is a timestamp and a
tree. A batch is its range. A certificate is the entry it came from. An answer
of a log is good, partial, bad or missing.

*Failures.* `Monitor` counts failed calls, bad answers, failed writes and crashes
together in `faults`, so that "once faults stop" needs no fairness of its own. A
`CHECK` that fails stops the C++ process: the variable `crash` of the network
modules says which one, and every action needs `crash = "no"`.

*Time.* Only the thread pool needs a clock. The connection pool stamps
connections with the system clock, which may be set at any time, so any surplus
connection may be old enough to be closed. This allows every behaviour of a
steady clock and more.

*Tasks.* The executor runs any queued closure at any time, which covers a
thread pool, the event loop and a synchronous executor. The model lets a child
be used before `AddChild` has made its own call of the child's `Cancel`, which is
more than the code allows. Cleanup callbacks are one step before the done
callback.

## Runs

| Run | Question | Bounds | States |
|---|---|---|---|
| `monitor` | Does the monitor stay sound with a log that forks, shrinks and reuses timestamps, with crashes and failed writes? | 6 trees, 5 STHs, 2 faults, 2 scans at a time | 1.17 M |
| `monitor_live` | Do updates return, and is what is pending verified once faults stop? | honest log, 2 faults | 61 k |
| `monitor_scan_race` | violation, see findings | honest log, 2 faults, no crashes | |
| `monitor_torn` | violation, see findings | torn writes | |
| `producer` | Does the producer implement `EntryStream`, keep its window and never block the reactor? | 9 entries, batches of 3, 2 fetchers, 2 errors, 2 pauses or none | 173 k |
| `producer_pause` | violation, see findings | 5 entries, 1 pause | |
| `task` | Are holds exact, callbacks over before DONE, children cancelled, and does the tree finish? | a chain of 3 tasks, 1 callback and 1 hold each | 147 k |
| `thread_pool` | Is a wakeup ever lost, does everything run, does the destructor end cleanly? | 2 threads, 1 closure, 2 delayed tasks, clock to 3 | 99 k |
| `thread_pool_shutdown` | violation, see findings | | |
| `log_client` | Is a connection ever in two hands, is every operation answered once? | 3 operations, 1 host, no idle connection allowed | 82 k |
| `merkle` | Do the trees and verifiers agree with RFC 6962, and the maps with the values they hold? | 7 leaves; 6 keys of 4 bits with indices of 3; 4 logged operations on 3 keys; a log of 7 entries with 3 cached ranges | 61 k |
| `merkle_mutable` | violation, see findings | 4 leaves, 1 update | |

Why the bounds are enough for the cases of interest:

* `monitor`: the fork is after a common leaf, so a proof can be good, bad or for
  the wrong side; two faults allow a failed write followed by a crash; two scans
  allow one that outlives its update. The size of the trees is not in the
  argument, as the proofs show.
* `producer`: 9 entries in batches of 3 exceed the window of 6, so the producer
  waits; the third batch is cut by the window, the fourth by the end of the
  range; the cached entries end inside a batch; one retry is allowed and there
  are two errors.
* `task`: a chain of three has a task that is both child and parent.
* `thread_pool`: with two threads and two timers one thread can sleep to a time
  that the other makes stale.
* `log_client`: with no idle connection allowed every `Put` asks for a cleanup;
  two fetches run in parallel and a third follows one of them, so connections are
  reused, fail and go in all orders. `Pruned` for a larger limit removes fewer.
* `merkle`: seven leaves cross two powers of two and have every shape of a right
  edge with up to three levels. Of the map's keys, 0000, 0010 and 0100 share
  prefixes within the three bits of an index: leaves are pushed down one and two
  levels, below inner nodes whose hashes are cached, and two keys that differ in
  the last bit of an index are told apart. 0000 with 0001 and 1000 with 1001 agree
  in those bits, as an index is too short for the full path in the code too;
  with both pairs in the map two nodes have one index, which `MapRight` excludes.
  The database pushes values down to the last level. Three cached ranges are
  enough for one that is cached too early, is completed and is asked for again in
  another proof.

`CHECK_DEADLOCK FALSE` is set where the system really ends: when everything is
produced, finished, destroyed or answered, or the process has stopped.

### Fairness

`monitor_live`: the reactor runs, calls return (well or badly) and the prober
starts the next update: weak fairness of these actions. Faults are bounded and
need none. `producer`: the reactor runs generators, every request ends and the
consumer is done with a batch; retries are bounded. That a request ends, with an
answer or with an error, is in both runs an assumption on the log and the
network, not something the code ensures: the prober's `Agent(reactor)`
(`prober.py:30`) and `async_log_client.py` set no response timeout, so a log that
accepts a connection and says nothing holds the producer, and the update that
waits for it, for ever. `task`: the executor runs what is queued,
operations return and holds are given back, which the class demands of its
users. `thread_pool`: threads run, closures return, time passes.
`log_client`: the pool's threads and the event loop run, and the read and write
timeouts that `Get` sets make libevhtp complete every request.

## What is proved

Proofs are about the same modules that TLC runs, with the assumptions stated
there (`TreeAssumption`, `MonitorAssumption`, `TaskAssumption`); the runs evaluate
them.

**Monitor** (`MonitorProof`): for every set of trees with a prefix order, every
set of STHs, any number of faults and scans, with and without torn writes.

* `TypeCorrect`, `PendingAlwaysAhead`, `VerifiedTreeAlwaysConsistent`,
  `AlwaysVerifiesWholeTree`, `AdoptedAlwaysRecorded`: the invariants of the run
  `monitor`.
* `MonitorImplementsLogView`: the verified STH never rewinds, provided that
  writes are not torn.

None of these is inductive alone. `PendingAhead` says nothing of the trees, but
whether a pending STH is adopted depends on the trees, and a crash replaces
memory by the file. The inductive invariant `IInv` therefore says the same of the
state in memory and of the state in the file (`Sound`): the pending STH is ahead;
the verified tree is empty, or that of the verified STH, or, after a failed
write, that of the pending one; the unverified tree is no bigger than `Bound`.
`Control` adds what holds at each place of an update. The hard steps are the
write that fails halfway (`SaveFailsSound`) and the scan thread of an earlier
update (`ScanFails`). The last two theorems need, in addition, that audit records
are never removed (`AuditGrows`) and that the file is not behind memory
(`FileNotBehind`).

**Task** (`TaskInvariant`, `TaskProof`, `TaskTreeProof`): for any finite tree of
tasks, any callbacks and any number of holds.

* `TaskTypeCorrect`, `HoldsAlwaysExact`, `CallbacksAlwaysBeforeDone`,
  `CancelAlwaysReachesChildren`: the invariants of the run `task`.
* `TaskImplementsTaskTree`: the refinement of `TaskTree`.

`HoldsExact` is not inductive: a decrement is exact only if what it stands for was
still counted. `TInv` adds which closures can be queued in which state, that
cancellation callbacks are registered in one place at a time, and that
`child_tasks_` is exactly the children that exist and have not finished.

**Only model-checked.** Liveness (`UpdateReturns`, `PendingIsVerified`,
`DoneFires`, `TasksFinish`, `EverythingRuns`, `DestructorReturns`, `Answered`),
which needs fairness; the properties of `EntryProducer`, `ThreadPool` and
`LogClient`; and what the recursive definitions of the Merkle modules compute,
which would need induction over data.

## Findings

Each is a run in which TLC finds the behaviour.

1. `monitor_scan_race` — the scan of a batch whose fetch failed runs on; its
   errback then replaces the unverified tree of a later update
   (`monitor.py:322`). Entries are counted as consumed that were never reported.
2. `monitor_torn` — the state file is truncated and rewritten in place
   (`state.py:28`). Cut short, it parses as a state without an STH, and the
   monitor accepts older ones.
3. `producer_pause` — `resumeProducing` starts a second generator while the first
   still waits (`async_log_client.py:350`); batches are written out of order.
   Only tests pause a producer.
4. `thread_pool_shutdown` — exit sentinels overtake queued closures
   (`thread_pool.cc:64`), which the header says the destructor waits for.
5. `merkle_mutable` — `UpdateLeafHash` stops at the first node of a level
   (`merkle_tree.cc:316`), so the root stays that of the old leaf. With
   `Updates = 0` the same configuration shows a second way to a wrong root: `Truncate`
   leaves `leaves_processed_` as it was, and after an addition `Root()` is asked
   of a level with two nodes.

Disagreements met while modelling that have no run of their own:

* A crash after the unverified tree is saved and before the scan of its entries
  ends resumes after them, so they are never scanned (`monitor.py:376`).
* A newer STH that is smaller is not recorded in the database: the request for
  its proof raises first (`monitor.py:166`).
* The comment above `store_sth` says that it "ignores a duplicate STH even if the
  audit data differs" (`sqlite_log_db.py:110`). The table is unique in the STH and
  its audit data together (`sqlite_log_db.py:27`), and the docstring speaks of "an
  exact copy", so the VERIFIED record of an STH is stored beside its UNVERIFIED
  one. `Monitor` follows the table. A store that did what the comment says would
  violate `AdoptedIsRecorded` (the mutant `store_sthOnce`).
* The first STH of an empty log is inconsistent with the initial state, whose
  root hash is unset (`merkle.py:320`).
* No request of the Python client has a response timeout (`prober.py:30`), so
  `DoneFires` and `UpdateReturns` rest on a log that does not stay silent.
* A request that fails while the producer is paused is not retried
  (`async_log_client.py:180`), and after two pauses `Queue.get` can block the
  reactor (`async_log_client.py:306`).
* `max_fetchers_in_parallel` can be exceeded by one short request
  (`async_log_client.py:295`); `WindowBounded` states the real bound.
* `Get` CHECKs a connection that the event thread can take away after the sweep
  (`connection_pool.cc:474`); a URL with an unsupported protocol fails a CHECK in
  `Get` (`url_fetcher.cc:115`); a request body that cannot be added fails one in
  `~State` (`url_fetcher.cc:178`); some malformed answers fail one in
  `async_log_client.cc`. All four are in the model as values of `crash`.
* The root of an empty `SparseMerkleTree` is that of a tree of empty leaves; the
  header says that it is the hash of the empty string. Indices of 64 bits do not
  tell all nodes of paths of 256 bits apart (`sparse_merkle_tree.h:183`, which says
  so); `MapRight` assumes keys that differ within the index.
* `get_log_consistency` does not compare the sizes it is asked about with the size
  of the log (`verifiable_base.py:65`). `_calc_mth`, asked for a range beyond the
  end of the log, computes the hash of a part of it, keeps that
  (`verifiable_log.py:42`) and returns it after the log has grown:
  `get_log_consistency(2, 4)` on a log of three entries makes every later proof
  that uses the range 2-4 wrong. `DatabaseLogRight` says that these are the only
  wrong answers, and that tree heads are never among them as long as the log is
  asked through `VerifiableBase`; `inclusion_proof`, which nothing calls, can
  spoil a head too.
* `GetRoots` replaces the caller's list (`async_log_client.cc:139`), where the
  header says that it does not clear it.

## Plan

Built: the core above. Next, in this order:

1. Codecs: TLS structures of `tls_encoding.cc`, `serializer.cc` and
   `tls_message.py`, with lengths at their limits and round trips; DER tags and
   lengths of `asn1/types.py`.
2. The chain checks of `cert_checker.cc` and `cert_submission_handler.cc`, the
   order of the checks of `log_verifier.cc` and `log_signer.cc`, and SCT
   verification in `verify.py`.
3. The certificate reporter with its queues and writer threads, the prober with
   several monitors, the temporary entry database with its cached answers, the
   multiprocess scanner.
4. The event loop's timers and `PeriodicClosure`.
5. Proofs: `NoLostWakeup` of the thread pool; `OneOwner`, `CleanupOnce` and
   `StateIsFree` of the fetcher; `CountersExact` and the refinement of
   `EntryStream` for the producer.

## Not modelled

X.509 and cryptography are OpenSSL's; a signature is valid or not. Generated
protobuf code, SQL text, HTML, flags, logging and monitoring counters have no
behaviour the properties could be about. The command line tools make one request
and keep no state.

## Running the checks

    tlc -workers 2 -config Monitor.cfg MCMonitor
    tlapm MonitorProof.tla

The module and the configuration of every run are in `PROJECT.json`. On two cores
the longest run takes about three minutes; the proofs take about ten.
