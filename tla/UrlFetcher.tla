----------------------------- MODULE UrlFetcher -----------------------------
(***************************************************************************)
(* UrlFetcher, src/cpp/net/url_fetcher.cc: one request after the other     *)
(* crosses three threads.  Fetch is called by the client; MakeRequest gets *)
(* a connection on a thread of the pool; RunRequest, RequestDone and the   *)
(* end of the task run on the event thread.  The State object of a fetch   *)
(* is deleted when its task is done.                                       *)
(***************************************************************************)
EXTENDS ConnectionPool

CONSTANTS
  HostOf       \* the host of each fetch's URL

ASSUME FetchAssumption ==
  HostOf \in [Fetches -> Hosts]

VARIABLES
  at,          \* where each State is
  conn,        \* conn_
  reply        \* what the task has returned: "none" while it is active

fetchVars == <<at, conn, reply>>

\* "page": the task is OK and the HTTP status 200; "failed": the task has an
\* error, or is OK with another HTTP status, which no client tells apart.
Reply == {"page", "failed"}

FetchTypeOK ==
  /\ PoolTypeOK
  /\ at \in [Fetches -> {"idle", "unsupported", "make", "pop", "run", "sent",
                      "over"}]
  /\ conn \in [Fetches -> Conns \cup {None}]
  /\ \A f \in Fetches : conn[f] # None <=> at[f] \in {"run", "sent"}
  /\ reply \in [Fetches -> Reply \cup {"none"}]

FetchInit ==
  /\ PoolInit
  /\ at = [f \in Fetches |-> "idle"]
  /\ conn = [f \in Fetches |-> None]
  /\ reply = [f \in Fetches |-> "none"]

\* Task::Return: the first one decides, and queues the end of the task.
Return(f, r) == reply' = IF reply[f] = "none" THEN [reply EXCEPT ![f] = r]
                                              ELSE reply
Finished(f) == IF reply[f] = "none" THEN <<DoneOf(f)>> ELSE <<>>

-----------------------------------------------------------------------------

\* Fetch.
Fetch(f) ==
  /\ crash = "no"
  /\ at[f] = "idle"
  /\ at' = [at EXCEPT ![f] = "make"]
  /\ UNCHANGED <<poolVars, conn, reply>>

\* Fetch of a URL that is neither http nor https: its State returns the task
\* at once, and MakeRequest is queued all the same.
FetchUnsupported(f) ==
  /\ crash = "no"
  /\ at[f] = "idle"
  /\ at' = [at EXCEPT ![f] = "unsupported"]
  /\ Return(f, "failed")
  /\ closures' = closures \o Finished(f)
  /\ UNCHANGED <<idle, ev, errored, scheduled, lock, running, crash, conn>>

\* MakeRequest has a connection, and queues RunRequest.
Made(f, c) ==
  /\ conn' = [conn EXCEPT ![f] = c]
  /\ at' = [at EXCEPT ![f] = "run"]
  /\ closures' = Append(closures, RunRequestOf(f))

\* MakeRequest for an unsupported URL: Get CHECKs the protocol.
MakeUnsupported(f) ==
  /\ crash = "no"
  /\ at[f] = "unsupported"
  /\ crash' = "Protocol"
  /\ UNCHANGED <<idle, ev, errored, scheduled, lock, closures, running,
                 fetchVars>>

\* MakeRequest, up to the end of Get's sweep for dead connections.  With none
\* left, a connection is made.
MakeRequest(f) ==
  LET live == RemoveDead(idle[HostOf[f]]) IN
  /\ crash = "no"
  /\ at[f] = "make"
  /\ lock = None
  /\ idle' = [idle EXCEPT ![HostOf[f]] = live]
  /\ \/ /\ live = <<>>
        /\ ev' = [ev EXCEPT ![Fresh] = "open"]
        /\ Made(f, Fresh)
        /\ UNCHANGED lock
     \/ /\ live # <<>>
        /\ lock' = f
        /\ at' = [at EXCEPT ![f] = "pop"]
        /\ UNCHANGED <<ev, conn, closures>>
  /\ UNCHANGED <<errored, scheduled, running, crash, reply>>

\* MUTANT: the connection is read and not removed.
GetAgain(f) ==
  LET c == Last(idle[HostOf[f]]) IN
  /\ crash = "no"
  /\ at[f] = "pop"
  /\ lock' = None
  /\ IF ev[c] = "null"
     THEN crash' = "Get" /\ UNCHANGED <<idle, at, conn, closures>>
     ELSE Made(f, c) /\ UNCHANGED <<idle, crash>>
  /\ UNCHANGED <<ev, errored, scheduled, running, reply>>

\* The rest of Get: the last connection of the deque, CHECKed again to be
\* there, and the rest of MakeRequest.
GetCached(f) ==
  LET c == Last(idle[HostOf[f]]) IN
  /\ crash = "no"
  /\ at[f] = "pop"
  /\ lock' = None
  /\ IF ev[c] = "null"
     THEN crash' = "Get" /\ UNCHANGED <<idle, at, conn, closures>>
     ELSE /\ idle' = [idle EXCEPT ![HostOf[f]] = Front(@)]
          /\ Made(f, c)
          /\ UNCHANGED crash
  /\ UNCHANGED <<ev, errored, scheduled, running, reply>>

-----------------------------------------------------------------------------

\* RunRequest finds its connection dead or failed.
RunOnDead(f) ==
  /\ ev[conn[f]] = "null" \/ conn[f] \in errored
  /\ conn' = [conn EXCEPT ![f] = None]
  /\ at' = [at EXCEPT ![f] = "over"]
  /\ Return(f, "failed")
  /\ closures' = closures \o Finished(f)
  /\ UNCHANGED <<idle, scheduled>>

\* evhtp_make_request refuses the request.
RunRefused(f) ==
  /\ ev[conn[f]] = "open" /\ conn[f] \notin errored
  /\ Put(conn[f], HostOf[f], Finished(f))
  /\ conn' = [conn EXCEPT ![f] = None]
  /\ at' = [at EXCEPT ![f] = "over"]
  /\ Return(f, "failed")

\* The request is under way.
RunSent(f) ==
  /\ ev[conn[f]] = "open" /\ conn[f] \notin errored
  /\ at' = [at EXCEPT ![f] = "sent"]
  /\ UNCHANGED <<idle, scheduled, closures, conn, reply>>

\* The request is under way and its body could not be added.
RunWithoutBody(f) ==
  /\ ev[conn[f]] = "open" /\ conn[f] \notin errored
  /\ at' = [at EXCEPT ![f] = "sent"]
  /\ Return(f, "failed")
  /\ closures' = closures \o Finished(f)
  /\ UNCHANGED <<idle, scheduled, conn>>

\* MUTANT: no answer when evhtp_make_request refuses the request.
RunRequestSilently(f) ==
  /\ crash = "no"
  /\ running # <<>> /\ Head(running) = RunRequestOf(f)
  /\ running' = Tail(running)
  /\ \/ RunOnDead(f)
     \/ /\ ev[conn[f]] = "open" /\ conn[f] \notin errored
        /\ Put(conn[f], HostOf[f], <<>>)
        /\ conn' = [conn EXCEPT ![f] = None]
        /\ at' = [at EXCEPT ![f] = "over"]
        /\ UNCHANGED reply
     \/ RunSent(f)
  /\ UNCHANGED <<ev, errored, lock, crash>>

\* RunRequest, on the event thread.
RunRequest(f) ==
  /\ crash = "no"
  /\ running # <<>> /\ Head(running) = RunRequestOf(f)
  /\ running' = Tail(running)
  /\ RunOnDead(f) \/ RunRefused(f) \/ RunSent(f) \/ RunWithoutBody(f)
  /\ UNCHANGED <<ev, errored, lock, crash>>

\* MUTANT: libevhtp keeps the request, and will answer it again.
RequestDoneLeaving(f, r) ==
  /\ Put(conn[f], HostOf[f], Finished(f))
  /\ conn' = [conn EXCEPT ![f] = None]
  /\ Return(f, r)
  /\ UNCHANGED at

\* RequestDone: the connection goes back to the pool, then the task returns.
RequestDone(f, r) ==
  /\ Put(conn[f], HostOf[f], Finished(f))
  /\ conn' = [conn EXCEPT ![f] = None]
  /\ at' = [at EXCEPT ![f] = "over"]
  /\ Return(f, r)

\* libevhtp has the answer to a request, or gives it up with a null request.
Answer(f) ==
  /\ crash = "no"
  /\ running = <<>>
  /\ at[f] = "sent" /\ conn[f] \notin errored
  /\ \E r \in Reply : RequestDone(f, r)
  /\ UNCHANGED <<ev, errored, lock, running, crash>>

\* ConnectionErrorHook for c.  The request there is on the connection is
\* completed: with what has been read if this was the end of the stream, else
\* as a timeout or a failure.
ErrorHook(c) ==
  /\ crash = "no"
  /\ running = <<>>
  /\ ev[c] = "open" /\ c \notin errored
  /\ errored' = errored \cup {c}
  /\ LET users == {f \in Fetches : at[f] = "sent" /\ conn[f] = c} IN
     \/ users = {} /\ UNCHANGED <<closures, at, conn, reply>>
     \/ \E f \in users, r \in Reply :
          /\ conn' = [conn EXCEPT ![f] = None]
          /\ at' = [at EXCEPT ![f] = "over"]
          /\ Return(f, r)
          /\ closures' = closures \o Finished(f)
  /\ UNCHANGED <<idle, ev, scheduled, lock, running, crash>>

\* ConnectionFinishedHook for c, which libevhtp calls when no request is
\* left on it.
FinishedHook(c) ==
  /\ crash = "no"
  /\ running = <<>>
  /\ ev[c] = "open"
  /\ \A f \in Fetches : at[f] = "sent" => conn[f] # c
  /\ ev' = [ev EXCEPT ![c] = "null"]
  /\ UNCHANGED <<idle, errored, scheduled, lock, closures, running,
                 crash, at, conn, reply>>

=============================================================================
