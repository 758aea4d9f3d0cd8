--------------------------- MODULE EntryProducer ---------------------------
(***************************************************************************)
(* EntryProducer of src/python/ct/client/async_log_client.py: it fetches   *)
(* the entries Start..End in batches, several at a time, and hands them to *)
(* its consumer in order.                                                  *)
(*                                                                         *)
(* Each batch is a chain of callbacks of its own.  The generator produce   *)
(* writes the pending batch, starts new fetches and waits for the oldest;  *)
(* resumeProducing starts another generator.  All of it runs on the        *)
(* reactor: the actions of a generator that is not waiting (Running) are   *)
(* the synchronous part of one reactor callback and nothing comes between. *)
(***************************************************************************)
EXTENDS Integers, Sequences, FiniteSets, FiniteSetsExt

CONSTANTS
  Start, End,     \* the range to produce
  BatchSize,      \* entries asked for in one request
  MaxFetchers,    \* FLAGS.max_fetchers_in_parallel
  Buffer,         \* FLAGS.entries_buffer
  MaxRetries,     \* FLAGS.get_entries_max_retries
  Cached,         \* entries that earlier runs left in the temporary DB
  MaxErrors,      \* bound: failed requests and failed consumers
  MaxPauses       \* bound: calls of pauseProducing, by a consumer that does

ASSUME ProducerAssumption ==
  /\ Start \in Nat /\ End \in Nat /\ Start <= End
  /\ BatchSize \in Nat \ {0} /\ MaxFetchers \in Nat \ {0}
  /\ Buffer \in Nat /\ MaxRetries \in Nat
  /\ Cached \subseteq Nat
  /\ MaxErrors \in Nat /\ MaxPauses \in Nat

VARIABLES
  current,      \* _current: the next entry to write
  lastFetching, \* _last_fetching: the next entry to ask for
  fetching,     \* _currently_fetching
  stored,       \* _currently_stored
  batches,      \* every batch created, in order
  taken,        \* how many of them have left the queue _batches
  pending,      \* _pending: the number of a batch, 0 for None
  gens,         \* the generators: where they are, the batch they wait for
  paused, stopped,
  done,         \* _done: "none", "all" or "failed"
  blocked,      \* the reactor waits for ever in Queue.get
  written,      \* history: the batches in the order they were written
  pausing,      \* whether this consumer ever calls pauseProducing
  errors, pauses

fetchVars == <<lastFetching, fetching, batches>>
flags == <<paused, stopped, done>>
bounds == <<errors, pauses, pausing>>
vars == <<current, lastFetching, fetching, stored, batches, taken, pending,
          gens, paused, stopped, done, blocked, written, pausing, errors,
          pauses>>

MaxFetching == MaxFetchers * BatchSize

Length(b) == b.last - b.first + 1

TypeOK ==
  /\ current \in Start..End + 1
  /\ lastFetching \in Start..End + 1
  /\ fetching \in Nat /\ stored \in Int
  /\ \A k \in DOMAIN batches :
       batches[k] \in [first : Start..End, last : Start..End,
                       next : Start..End + 1, retries : 0..MaxRetries,
                       at : {"lookup", "request", "ready", "failed"}]
  /\ taken \in 0..Len(batches)
  /\ pending \in 0..Len(batches)
  /\ \A g \in DOMAIN gens :
       gens[g] \in [at : {"loop", "write", "fill", "wait", "over"},
                    batch : 0..Len(batches)]
  /\ paused \in BOOLEAN /\ stopped \in BOOLEAN /\ blocked \in BOOLEAN
  /\ done \in {"none", "all", "failed"}
  /\ errors \in 0..MaxErrors /\ pauses \in 0..MaxPauses
  /\ pausing \in BOOLEAN /\ (pauses > 0 => pausing)

(* startProducing: paused until the reactor calls resumeProducing.         *)
Init ==
  /\ current = Start /\ lastFetching = Start
  /\ fetching = 0 /\ stored = 0
  /\ batches = <<>> /\ taken = 0 /\ pending = 0
  /\ gens = <<>>
  /\ paused = TRUE /\ stopped = FALSE /\ done = "none"
  /\ blocked = FALSE
  /\ written = <<>>
  /\ errors = 0 /\ pauses = 0
  /\ pausing \in {p \in BOOLEAN : p => MaxPauses > 0}

Fired(k) == batches[k].at \in {"ready", "failed"}

Running ==
  \E g \in DOMAIN gens : \/ gens[g].at \in {"loop", "fill"}
                         \/ gens[g].at = "wait" /\ Fired(gens[g].batch)

Reactor == ~Running /\ ~blocked

Error == errors < MaxErrors /\ errors' = errors + 1

At(g, place) == gens' = [gens EXCEPT ![g].at = place]

(* Mutant: the producer is not paused.                                     *)
StopUnpaused(outcome) ==
  /\ stopped' = TRUE
  /\ done' = (IF done = "none" THEN outcome ELSE done)
  /\ UNCHANGED paused

(* Mutant: the producer stops and _done is not fired.                      *)
StopSilently(outcome) ==
  /\ paused' = TRUE
  /\ stopped' = TRUE
  /\ UNCHANGED done

(* stopProducing and the result.  Firing _done a second time raises        *)
(* AlreadyCalledError, which is only logged.                               *)
Stop(outcome) ==
  /\ paused' = TRUE
  /\ stopped' = TRUE
  /\ done' = IF done = "none" THEN outcome ELSE done

-----------------------------------------------------------------------------
(* The fetch of one batch.                                                 *)

Missing(b) == {i \in b.next..b.last : i \notin Cached}

(* Mutant: only the entries of the last answer are counted.                *)
ReceivedLastPart(k, n) ==
  LET b == batches[k]
      complete == b.next + n > b.last
  IN  /\ batches' = [batches EXCEPT ![k] =
                       [b EXCEPT !.next = b.next + n, !.retries = 0,
                                 !.at = IF complete THEN "ready" ELSE "lookup"]]
      /\ fetching' = IF complete THEN fetching - n ELSE fetching
      /\ stored' = IF complete THEN stored + n ELSE stored

(* _fetch: done when the range is complete, or the next request.           *)
Received(k, n) ==
  LET b == batches[k]
      complete == b.next + n > b.last
  IN  /\ batches' = [batches EXCEPT ![k] =
                       [b EXCEPT !.next = b.next + n, !.retries = 0,
                                 !.at = IF complete THEN "ready" ELSE "lookup"]]
      /\ fetching' = IF complete THEN fetching - Length(b) ELSE fetching
      /\ stored' = IF complete THEN stored + Length(b) ELSE stored

(* _get_entries_from_db: all the entries, or the request goes to the log.  *)
Lookup(k) ==
  /\ Reactor
  /\ batches[k].at = "lookup"
  /\ IF Missing(batches[k]) = {}
     THEN Received(k, batches[k].last - batches[k].next + 1)
     ELSE /\ batches' = [batches EXCEPT ![k].at = "request"]
          /\ UNCHANGED <<fetching, stored>>
  /\ UNCHANGED <<current, lastFetching, taken, pending, gens, flags, blocked,
                 written, bounds>>

(* The log answers with some of the entries, which are stored.             *)
Response(k, n) ==
  /\ Reactor
  /\ batches[k].at = "request"
  /\ n <= batches[k].last - batches[k].next + 1
  /\ Received(k, n)
  /\ UNCHANGED <<current, lastFetching, taken, pending, gens, flags, blocked,
                 written, bounds>>

(* _response_eb, for the database as for the log: retry, or fail the       *)
(* producer.  While it is paused the errback returns None, the next        *)
(* callback raises on it, and _fetch_eb fails the producer.                *)
RequestFails(k, clientError) ==
  /\ Reactor
  /\ batches[k].at \in {"lookup", "request"}
  /\ Error
  /\ \/ /\ ~paused /\ ~clientError /\ batches[k].retries < MaxRetries
        /\ batches' = [batches EXCEPT ![k].at = "lookup", ![k].retries = @ + 1]
        /\ UNCHANGED flags
     \/ /\ paused \/ clientError \/ batches[k].retries = MaxRetries
        /\ batches' = [batches EXCEPT ![k].at = "failed"]
        /\ IF stopped THEN UNCHANGED flags ELSE Stop("failed")
  /\ UNCHANGED <<current, lastFetching, fetching, stored, taken, pending, gens,
                 blocked, written, pauses, pausing>>

-----------------------------------------------------------------------------
(* The generator produce.                                                  *)

(* Mutant: a pending batch is written before the flag is looked at.        *)
LoopWritesFirst(g) ==
  /\ gens[g].at = "loop"
  /\ \/ /\ pending = 0
        /\ At(g, IF paused THEN "over" ELSE "fill")
        /\ UNCHANGED <<current, stored, pending, written>>
     \/ /\ pending # 0
        /\ current' = current + Length(batches[pending])
        /\ stored' = stored - Length(batches[pending])
        /\ written' = Append(written, pending)
        /\ pending' = 0
        /\ At(g, "write")
  /\ UNCHANGED <<fetchVars, taken, flags, blocked, bounds>>

(* The top of the loop and _write_pending.                                 *)
Loop(g) ==
  /\ gens[g].at = "loop"
  /\ \/ /\ paused
        /\ At(g, "over")
        /\ UNCHANGED <<current, stored, pending, written>>
     \/ /\ ~paused /\ pending = 0
        /\ At(g, "fill")
        /\ UNCHANGED <<current, stored, pending, written>>
     \/ /\ ~paused /\ pending # 0
        /\ current' = current + Length(batches[pending])
        /\ stored' = stored - Length(batches[pending])
        /\ written' = Append(written, pending)
        /\ pending' = 0
        /\ At(g, "write")
  /\ UNCHANGED <<fetchVars, taken, flags, blocked, bounds>>

(* The consumer's deferred fires.                                          *)
Consumed(g) ==
  /\ Reactor
  /\ gens[g].at = "write"
  /\ At(g, "fill")
  /\ UNCHANGED <<current, fetchVars, stored, taken, pending, flags, blocked,
                 written, bounds>>

ConsumerFails(g) ==
  /\ Reactor
  /\ gens[g].at = "write"
  /\ Error
  /\ At(g, "over")
  /\ Stop("failed")
  /\ UNCHANGED <<current, fetchVars, stored, taken, pending, blocked, written,
                 pauses, pausing>>

Finished == current > End

(* Mutant: off by one at the end of the range.                             *)
RoomBeforeEnd ==
  /\ fetching <= MaxFetching
  /\ lastFetching < End
  /\ stored <= Buffer

Room ==
  /\ fetching <= MaxFetching
  /\ lastFetching <= End
  /\ stored <= Buffer

FinishProducing(g) ==
  /\ gens[g].at = "fill"
  /\ Finished
  /\ At(g, "over")
  /\ Stop("all")
  /\ UNCHANGED <<current, fetchVars, stored, taken, pending, blocked, written,
                 bounds>>

(* Mutant: the range is not cut to what is left of the window.             *)
StartFetchUncut(g) ==
  LET last == Min({lastFetching + BatchSize - 1, End})
  IN  /\ gens[g].at = "fill"
      /\ ~Finished
      /\ Room
      /\ batches' = Append(batches,
                      [first |-> lastFetching, last |-> last,
                       next |-> lastFetching, retries |-> 0, at |-> "lookup"])
      /\ fetching' = fetching + last - lastFetching + 1
      /\ lastFetching' = last + 1
      /\ UNCHANGED <<current, stored, taken, pending, gens, flags, blocked,
                     written, bounds>>

(* One turn of the inner loop: _create_fetch_deferred for the next range,  *)
(* which ends after a batch, at End, or where it fills the window.         *)
StartFetch(g) ==
  LET last == Min({lastFetching + BatchSize - 1, End,
                   lastFetching + MaxFetching - fetching + 1})
  IN  /\ gens[g].at = "fill"
      /\ ~Finished
      /\ Room
      /\ batches' = Append(batches,
                      [first |-> lastFetching, last |-> last,
                       next |-> lastFetching, retries |-> 0, at |-> "lookup"])
      /\ fetching' = fetching + last - lastFetching + 1
      /\ lastFetching' = last + 1
      /\ UNCHANGED <<current, stored, taken, pending, gens, flags, blocked,
                     written, bounds>>

(* _batches.get() blocks the reactor thread when the queue is empty.       *)
GetBatch(g) ==
  /\ gens[g].at = "fill"
  /\ ~Finished
  /\ ~Room
  /\ IF taken < Len(batches)
     THEN /\ taken' = taken + 1
          /\ gens' = [gens EXCEPT ![g] = [at |-> "wait", batch |-> taken + 1]]
          /\ UNCHANGED blocked
     ELSE /\ blocked' = TRUE
          /\ UNCHANGED <<taken, gens>>
  /\ UNCHANGED <<current, fetchVars, stored, pending, flags, written, bounds>>

(* The batch the generator waits for is there, or None after a failure.    *)
Wake(g) ==
  /\ gens[g].at = "wait"
  /\ Fired(gens[g].batch)
  /\ pending' = IF batches[gens[g].batch].at = "ready" THEN gens[g].batch ELSE 0
  /\ gens' = [gens EXCEPT ![g] = [at |-> "loop", batch |-> 0]]
  /\ UNCHANGED <<current, fetchVars, stored, taken, flags, blocked, written,
                 bounds>>

resumeProducing ==
  /\ Reactor
  /\ paused /\ ~stopped
  /\ paused' = FALSE
  /\ gens' = Append(gens, [at |-> "loop", batch |-> 0])
  /\ UNCHANGED <<current, fetchVars, stored, taken, pending, stopped, done,
                 blocked, written, bounds>>

pauseProducing ==
  /\ Reactor
  /\ ~paused
  /\ pausing /\ pauses < MaxPauses
  /\ pauses' = pauses + 1
  /\ paused' = TRUE
  /\ UNCHANGED <<current, fetchVars, stored, taken, pending, gens, stopped,
                 done, blocked, written, errors, pausing>>

Generator(g) ==
  Loop(g) \/ Consumed(g) \/ FinishProducing(g) \/ StartFetch(g) \/ GetBatch(g)
    \/ Wake(g)

Fetch(k) == Lookup(k) \/ \E n \in 1..BatchSize : Response(k, n)

Next ==
  \/ \E g \in DOMAIN gens : Generator(g) \/ ConsumerFails(g)
  \/ \E k \in DOMAIN batches :
       \/ Fetch(k)
       \/ \E clientError \in BOOLEAN : RequestFails(k, clientError)
  \/ resumeProducing \/ pauseProducing

Spec == Init /\ [][Next]_vars

(* The reactor runs and the consumer finishes with every batch, well or    *)
(* badly.  That every request ends, with an answer or a failed connection, *)
(* is an assumption on the log and the network: the client sends requests  *)
(* through an Agent without a response timeout, so a log that accepts a    *)
(* connection and stays silent holds a batch, and produce, for ever.       *)
FairSpec ==
  /\ Spec
  /\ WF_vars(\E g \in DOMAIN gens : Generator(g))
  /\ WF_vars(\E k \in DOMAIN batches : Fetch(k))
  /\ WF_vars(resumeProducing)

-----------------------------------------------------------------------------
(* Properties.                                                             *)

InFlight == {k \in DOMAIN batches : batches[k].at \in {"lookup", "request"}}

(* Batches are written in the order of their entries, none twice and none  *)
(* left out, although they arrive in any order.                            *)
InOrderAlways == \A i \in DOMAIN written : written[i] = i

(* For a consumer that does not pause, produce never calls Queue.get on an *)
(* empty queue, which would block the reactor and with it every other      *)
(* log's monitor: the window and buffer conditions never stop all fetching *)
(* while entries are missing.                                              *)
NeverBlocks == ~pausing => ~blocked

(* The counters that throttle fetching are exact: _currently_fetching is   *)
(* the size of the batches that have not arrived, _currently_stored that   *)
(* of those that have arrived and are not written.                         *)
CountersExact ==
  LET size(S) == MapThenSumSet(LAMBDA k : Length(batches[k]), S)
  IN  /\ fetching = size({k \in DOMAIN batches : batches[k].at # "ready"})
      /\ stored = size({k \in DOMAIN batches :
                          /\ batches[k].at = "ready"
                          /\ \A i \in DOMAIN written : written[i] # k})

(* The window: at most one request more than max_fetchers_in_parallel, cut *)
(* to two entries when a full batch would not fit, and what is buffered is *)
(* bounded whatever the order of arrival.                                  *)
WindowBounded ==
  /\ Cardinality(InFlight) <= MaxFetchers + 1
  /\ fetching <= MaxFetching + 2
  /\ fetching + stored <= Buffer + MaxFetching + 2

Stream == INSTANCE EntryStream
            WITH next <- IF pausing THEN Start ELSE current,
                 result <- IF pausing THEN "none" ELSE done,
                 writing <- ~pausing
                            /\ \E g \in DOMAIN gens : gens[g].at = "write"

(* A consumer that does not pause sees the entries in order, one batch at  *)
(* a time, nothing after _done has fired, and success only when every      *)
(* entry was written.  (To one that pauses the mapping shows no step.)     *)
ProducesStream == Stream!StreamSpec

(* Nothing is written after _done has fired, also when the consumer pauses *)
(* and resumes at will.                                                    *)
NothingAfterDone == [][done # "none" => UNCHANGED written]_vars

(* Without pauses _done fires (startProducing returns "a deferred that     *)
(* fires when no more entries will be written"), whatever fails and in     *)
(* whatever order the batches arrive, as long as the log leaves no request *)
(* hanging.                                                                *)
DoneFires == <>(pausing \/ done # "none")

=============================================================================
