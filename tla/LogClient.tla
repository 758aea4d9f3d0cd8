----------------------------- MODULE LogClient ------------------------------
(***************************************************************************)
(* AsyncLogClient, src/cpp/client/async_log_client.cc, over the URL        *)
(* fetcher, with the libevent base as the executor of its callbacks, as    *)
(* HTTPLogClient sets it up (src/cpp/client/http_log_client.cc).  Each     *)
(* operation is one fetch and one Done function, which parses the answer,  *)
(* stores it where the caller asked and calls the caller's callback.       *)
(***************************************************************************)
EXTENDS UrlFetcher

CONSTANTS
  Kind,        \* the operation of each fetch
  After        \* the operation that must succeed before it, or None

ASSUME KindAssumption ==
  /\ Kind \in [Fetches -> {"GetSTH", "GetRoots", "GetEntries",
                           "QueryInclusionProof", "GetSTHConsistency",
                           "AddChain"}]
  /\ After \in [Fetches -> Fetches \cup {None}]

VARIABLES
  answers,     \* history: the statuses each operation's callback was given
  output       \* what the caller's object holds

vars == <<poolVars, fetchVars, answers, output>>

Status == {"OK", "BAD_RESPONSE", "UNKNOWN_ERROR", "INVALID_INPUT"}

\* Before the call the caller's object holds "old".
TypeOK ==
  /\ FetchTypeOK
  /\ answers \in [Fetches -> Seq(Status)]
  /\ output \in [Fetches -> {<<"old">>, <<"old", "new">>, <<"new">>}]

Init ==
  /\ FetchInit
  /\ answers = [f \in Fetches |-> <<>>]
  /\ output = [f \in Fetches |-> <<"old">>]

\* Operations that look at their arguments: an empty range of entries, or a
\* chain that is not loaded, is refused within the call.
Refusing == {"GetEntries", "AddChain"}

\* Answers that stop the process instead of being refused: an entry type that
\* is not one of the known ones, and an audit path that is not made of
\* strings.
Fatal == {"GetEntries", "QueryInclusionProof"}

\* Lists are appended to what the caller has, except that roots are swapped.
Stored(f) == IF Kind[f] \in {"GetEntries", "GetSTHConsistency"}
             THEN Append(output[f], "new")
             ELSE <<"new">>

\* A caller of HTTPLogClient waits in DispatchOnce for the answer, and its
\* QueryAuditProof goes on from GetSTH only if that was OK.
MayCall(f) == After[f] # None => answers[After[f]] = <<"OK">>

Call(f) ==
  /\ MayCall(f)
  /\ Fetch(f) \/ FetchUnsupported(f)
  /\ UNCHANGED <<answers, output>>

\* The call returns before a fetch is made.
CallRefused(f) ==
  /\ crash = "no"
  /\ at[f] = "idle" /\ MayCall(f) /\ Kind[f] \in Refusing
  /\ at' = [at EXCEPT ![f] = "over"]
  /\ answers' = [answers EXCEPT ![f] = Append(@, "INVALID_INPUT")]
  /\ UNCHANGED <<poolVars, conn, reply, output>>

\* MUTANT: the Done function goes on after SanityCheck has called back.
DoneTwice(f) ==
  \/ /\ reply[f] # "page"
     /\ answers' = [answers EXCEPT
          ![f] = @ \o <<"UNKNOWN_ERROR", "BAD_RESPONSE">>]
     /\ UNCHANGED <<output, crash>>
  \/ /\ reply[f] = "page"
     /\ answers' = [answers EXCEPT ![f] = Append(@, "OK")]
     /\ output' = [output EXCEPT ![f] = Stored(f)]
     /\ UNCHANGED crash

\* The Done functions: SanityCheck, then the checks of the answer, all of
\* them before anything is stored.
Done(f) ==
  \/ /\ reply[f] # "page"
     /\ answers' = [answers EXCEPT ![f] = Append(@, "UNKNOWN_ERROR")]
     /\ UNCHANGED <<output, crash>>
  \/ /\ reply[f] = "page"
     /\ answers' = [answers EXCEPT ![f] = Append(@, "BAD_RESPONSE")]
     /\ UNCHANGED <<output, crash>>
  \/ /\ reply[f] = "page" /\ Kind[f] \in Fatal
     /\ crash' = "Response"
     /\ UNCHANGED <<answers, output>>
  \/ /\ reply[f] = "page"
     /\ answers' = [answers EXCEPT ![f] = Append(@, "OK")]
     /\ output' = [output EXCEPT ![f] = Stored(f)]
     /\ UNCHANGED crash

\* Task::RunCleanupAndDoneCallbacks: the State is deleted, with a CHECK that
\* it has no connection, and the Done function is called.
RunDone(f) ==
  /\ crash = "no"
  /\ running # <<>> /\ Head(running) = DoneOf(f)
  /\ running' = Tail(running)
  /\ IF conn[f] # None
     THEN crash' = "State" /\ UNCHANGED <<answers, output>>
     ELSE Done(f)
  /\ UNCHANGED <<idle, ev, errored, scheduled, lock, closures,
                 fetchVars>>

ClientUnchanged == UNCHANGED <<answers, output>>

PoolThread(f) == /\ MakeUnsupported(f) \/ MakeRequest(f) \/ GetCached(f)
                 /\ ClientUnchanged

EventThread ==
  \/ RunClosures /\ ClientUnchanged /\ UNCHANGED fetchVars
  \/ Cleanup /\ ClientUnchanged /\ UNCHANGED fetchVars
  \/ \E f \in Fetches : RunRequest(f) /\ ClientUnchanged
  \/ \E f \in Fetches : RunDone(f)

\* libevhtp, by itself or at a timeout, ends what it has begun.
Network(f) == /\ Answer(f) \/ (at[f] = "sent" /\ ErrorHook(conn[f]))
              /\ ClientUnchanged

Next ==
  \/ \E f \in Fetches : Call(f) \/ CallRefused(f) \/ PoolThread(f)
  \/ EventThread
  \/ \E f \in Fetches : Answer(f) /\ ClientUnchanged
  \/ \E c \in Conns : (ErrorHook(c) \/ FinishedHook(c)) /\ ClientUnchanged

Spec == Init /\ [][Next]_vars

\* The threads of the pool and the event thread go on, and the read and write
\* timeouts Get sets make libevhtp answer for every request.
FairSpec ==
  /\ Spec
  /\ WF_vars(EventThread)
  /\ \A f \in Fetches : WF_vars(PoolThread(f)) /\ WF_vars(Network(f))

-----------------------------------------------------------------------------

\* What holds a connection: the fetches that have it and the places it rests.
Holders(c) ==
  {<<"fetch", f>> : f \in {g \in Fetches : conn[g] = c}}
    \cup {<<h, i>> \in Hosts \X (1..Cardinality(Fetches)) :
            i <= Len(idle[h]) /\ idle[h][i] = c}

\* A connection is either at rest in one place of the pool or in the hands of
\* one fetch, whatever Get, Put, Cleanup and libevhtp's hooks do to it in
\* between, so no two requests are ever sent on it at once.
OneOwner ==
  \A c \in Conns : Cardinality(Holders(c)) <= 1

\* cleanup_scheduled_ is set exactly while one Cleanup is waiting among the
\* closures of the base: it is neither scheduled twice nor forgotten.
CleanupOnce ==
  Len(SelectSeq(running \o closures, LAMBDA k : k = Cleaning))
    = IF scheduled THEN 1 ELSE 0

\* Once the end of a fetch's task is queued its State is given up: it has no
\* connection, and neither a closure nor libevhtp will call it again, so it
\* can be deleted.  (The exceptions are the unsupported URL and the body that
\* could not be added, whose tasks return while MakeRequest or libevhtp still
\* has the State.)
StateIsFree ==
  \A f \in Fetches :
    (/\ reply[f] # "none"
     /\ at[f] # "unsupported"
     /\ ~(at[f] = "sent" /\ reply[f] = "failed")) =>
      /\ at[f] = "over"
      /\ conn[f] = None
      /\ RunRequestOf(f) \notin Range(running \o closures)

\* An operation calls its callback at most once, and the caller's object
\* changes exactly when that call says OK.
AnsweredOnce ==
  \A f \in Fetches :
    /\ Len(answers[f]) <= 1
    /\ output[f] # <<"old">> <=> answers[f] = <<"OK">>

\* Every operation that is called gets an answer, unless a CHECK stops the
\* process: no fetch is lost between the three threads, whether its
\* connection is new, cached, refused, failing or gone.
Answered ==
  \A f \in Fetches :
    (at[f] # "idle") ~> (answers[f] # <<>> \/ crash # "no")

=============================================================================
