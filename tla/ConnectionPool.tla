--------------------------- MODULE ConnectionPool ---------------------------
(***************************************************************************)
(* The connection pool of the URL fetcher, src/cpp/net/connection_pool.cc, *)
(* and the closures of the libevent::Base it works with,                   *)
(* src/cpp/util/libevent_wrapper.cc.                                       *)
(*                                                                         *)
(* A connection belongs to libevhtp, which reports on the event thread     *)
(* that it failed (ConnectionErrorHook) or that it is gone                 *)
(* (ConnectionFinishedHook).  The hooks do not take the pool's lock_, so a *)
(* connection can go between two reads of it by Get.                       *)
(***************************************************************************)
EXTENDS Integers, Sequences, SequencesExt, FiniteSets

CONSTANTS
  Fetches,     \* the requests given to the fetcher
  Hosts,       \* host and port pairs
  MaxIdle      \* FLAGS_url_fetcher_max_conn_per_host_port

ASSUME NetAssumption ==
  /\ IsFiniteSet(Fetches)
  /\ MaxIdle \in Nat

\* Every call of Get makes at most one connection, so this many are enough.
Conns == 1..Cardinality(Fetches)

None == 0

VARIABLES
  idle,        \* conns_: the connections at rest, oldest first
  ev,          \* ev_conn_ of each connection; "unmade" before it is created
  errored,     \* errored_
  scheduled,   \* cleanup_scheduled_
  lock,        \* the fetch that holds lock_ inside Get, or None
  closures,    \* closures_ of the base
  running,     \* the closures RunClosures has taken and not run yet
  crash        \* the CHECK that has stopped the process, or "no"

poolVars == <<idle, ev, errored, scheduled, lock, closures, running,
              crash>>

RunRequestOf(f) == [run |-> "RunRequest", fetch |-> f]
DoneOf(f) == [run |-> "Done", fetch |-> f]
Cleaning == [run |-> "Cleanup", fetch |-> None]

Closure == {RunRequestOf(f) : f \in Fetches} \cup {DoneOf(f) : f \in Fetches}
             \cup {Cleaning}

PoolTypeOK ==
  /\ idle \in [Hosts -> Seq(Conns)]
  /\ ev \in [Conns -> {"unmade", "open", "null"}]
  /\ errored \subseteq Conns
  /\ scheduled \in BOOLEAN
  /\ lock \in Fetches \cup {None}
  /\ closures \in Seq(Closure) /\ running \in Seq(Closure)
  /\ crash \in {"no", "Get", "Protocol", "State", "Response"}

PoolInit ==
  /\ idle = [h \in Hosts |-> <<>>]
  /\ ev = [c \in Conns |-> "unmade"]
  /\ errored = {}
  /\ scheduled = FALSE
  /\ lock = None
  /\ closures = <<>> /\ running = <<>>
  /\ crash = "no"

-----------------------------------------------------------------------------

\* RemoveDeadConnectionsFromDeque.
RemoveDead(deque) == SelectSeq(deque, LAMBDA c : ev[c] # "null")

\* A connection just made by Get: the next one.
Fresh == CHOOSE c \in Conns : /\ ev[c] = "unmade"
                              /\ \A d \in 1..(c - 1) : ev[d] # "unmade"

\* MUTANT: Put does not look whether a cleanup is scheduled already.
PutRepeating(c, h, added) ==
  IF c = None \/ ev[c] = "null" \/ c \in errored
  THEN /\ closures' = closures \o added
       /\ UNCHANGED <<idle, scheduled>>
  ELSE LET entry == Append(idle[h], c)
           cleanup == Len(entry) > MaxIdle
       IN  /\ lock = None
           /\ idle' = [idle EXCEPT ![h] = entry]
           /\ scheduled' = (scheduled \/ cleanup)
           /\ closures' = closures \o (IF cleanup THEN <<Cleaning>> ELSE <<>>)
                                   \o added

\* Put(c), for a connection to h, followed by what its caller adds to the
\* closures in the same handler.  No connection, a dead or an errored one is
\* dropped; any other goes to the back of the deque, and the first Put to
\* find the deque too long schedules one Cleanup.
Put(c, h, added) ==
  IF c = None \/ ev[c] = "null" \/ c \in errored
  THEN /\ closures' = closures \o added
       /\ UNCHANGED <<idle, scheduled>>
  ELSE LET entry == Append(idle[h], c)
           cleanup == ~scheduled /\ Len(entry) > MaxIdle
       IN  /\ lock = None
           /\ idle' = [idle EXCEPT ![h] = entry]
           /\ scheduled' = (scheduled \/ cleanup)
           /\ closures' = closures \o (IF cleanup THEN <<Cleaning>> ELSE <<>>)
                                   \o added

\* What the loop of Cleanup may leave of a deque.  It takes connections from
\* the front while they are older than the cutoff and the deque is too long.
\* Connections are stamped with the system clock, which may be set at any
\* time, so any number of the surplus ones can be old enough.  (On an empty
\* deque the code reads front() before it looks at the size; whatever it
\* reads, the loop ends.)
Pruned(deque) ==
  {SubSeq(deque, n + 1, Len(deque)) :
     n \in {m \in 0..Len(deque) : m = 0 \/ Len(deque) - m >= MaxIdle}}

\* Cleanup, on the event thread.
Cleanup ==
  /\ crash = "no"
  /\ lock = None
  /\ running # <<>> /\ Head(running) = Cleaning
  /\ running' = Tail(running)
  /\ scheduled' = FALSE
  /\ idle' \in {d \in [Hosts -> UNION {Pruned(RemoveDead(idle[h])) :
                                       h \in Hosts}] :
                 \A h \in Hosts : d[h] \in Pruned(RemoveDead(idle[h]))}
  /\ UNCHANGED <<ev, errored, lock, closures, crash>>

\* Base::RunClosures: the event thread takes all the closures there are; what
\* they add is for the next time.
RunClosures ==
  /\ crash = "no"
  /\ running = <<>> /\ closures # <<>>
  /\ running' = closures
  /\ closures' = <<>>
  /\ UNCHANGED <<idle, ev, errored, scheduled, lock, crash>>

=============================================================================
