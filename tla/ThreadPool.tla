----------------------------- MODULE ThreadPool -----------------------------
(***************************************************************************)
(* ThreadPool, src/cpp/util/thread_pool.cc: an executor with a fixed       *)
(* number of threads, a priority queue of closures ordered by the time     *)
(* they are due, and a condition variable.                                 *)
(*                                                                         *)
(* What a thread does under queue_lock_ is one action.  The lock is given  *)
(* up in the waits, before a notification and while a closure runs.  The   *)
(* condition variable may wake a thread for no reason.                     *)
(***************************************************************************)
EXTENDS Integers, FiniteSets

CONSTANTS
  Workers,     \* threads_
  Closures,    \* what is given to Add
  Timers,      \* the tasks given to Delay
  MaxDelay,    \* bound: the longest delay
  MaxTime      \* bound: the clock

ASSUME PoolAssumption ==
  /\ Workers # {}
  /\ Closures \cap Timers = {}
  /\ MaxDelay \in Nat /\ MaxTime \in Nat \ {0}

VARIABLES
  now,         \* steady_clock
  queue,       \* queue_
  worker,      \* where each thread is
  notifies,    \* calls of notify_one that are about to be made
  pool,        \* where the destructor is; "open" before it is called
  outcome,     \* history: what has become of each closure and task
  late         \* history: work the destructor did not find a thread for

vars == <<now, queue, worker, notifies, pool, outcome, late>>

Work == Closures \cup Timers

(* QueueEntry: when it is due and what it is.  Without a closure it tells  *)
(* a thread to exit; only the entries of Delay have a task.                *)
Entry == [due : 0..MaxTime + MaxDelay, what : Work]

Sentinel == [due : {0}, exit : Workers]

HasTask(e) == "what" \in DOMAIN e /\ e.what \in Timers

HasClosure(e) == "what" \in DOMAIN e

Place ==
  [at : {"look", "wait", "exited"}] \cup [at : {"wait_for"}, until : Nat]
    \cup [at : {"run"}, what : Work] \cup [at : {"cancel"}, tasks : SUBSET Timers]

TypeOK ==
  /\ now \in 1..MaxTime
  /\ queue \subseteq Entry \cup Sentinel
  /\ worker \in [Workers -> Place]
  /\ notifies \in Nat
  /\ pool \in {"open", "pushed", "joining", "gone", "crashed"}
  /\ outcome \in [Work -> {"none", "queued", "done", "cancelled"}]
  /\ late \in BOOLEAN

Look == [at |-> "look"]

(* The epoch, which is when the sentinels are due, has passed.             *)
Init ==
  /\ now = 1
  /\ queue = {}
  /\ worker = [w \in Workers |-> Look]
  /\ notifies = 0
  /\ pool = "open"
  /\ outcome = [x \in Work |-> "none"]
  /\ late = FALSE

(* The entries that queue_.top() can be: equal times are in any order.     *)
Tops == {e \in queue : \A f \in queue : e.due <= f.due}

Waiting == {w \in Workers : worker[w].at \in {"wait", "wait_for"}}

Goes(w, place) == worker' = [worker EXCEPT ![w] = place]

-----------------------------------------------------------------------------
(* Add and Delay.  Once the pool is being destroyed only the closures and  *)
(* tasks that its own threads are running still call them.                 *)
CanCall ==
  \/ pool = "open"
  \/ \E w \in Workers : worker[w].at \in {"run", "cancel"}

Enqueue(x, due) ==
  /\ CanCall
  /\ outcome[x] = "none"
  /\ outcome' = [outcome EXCEPT ![x] = "queued"]
  /\ queue' = queue \cup {[due |-> due, what |-> x]}
  /\ late' = (late \/ pool # "open")
  /\ UNCHANGED <<now, worker, pool>>

(* Mutant: a thread is notified only when the queue was empty.             *)
AddToEmpty(c) ==
  /\ Enqueue(c, now)
  /\ notifies' = notifies + (IF queue = {} THEN 1 ELSE 0)

Add(c) ==
  /\ Enqueue(c, now)
  /\ notifies' = notifies + 1

Delay(t, delay) ==
  /\ Enqueue(t, now + delay)
  /\ notifies' = notifies + 1

(* notify_one, after the lock has been given up.                           *)
Notify ==
  /\ notifies > 0
  /\ notifies' = notifies - 1
  /\ IF Waiting = {} THEN UNCHANGED worker
                     ELSE \E w \in Waiting : Goes(w, Look)
  /\ UNCHANGED <<now, queue, pool, outcome, late>>

-----------------------------------------------------------------------------
(* Worker.                                                                 *)

(* Mutant: the wait for a delayed task has no timeout.                     *)
SleepUntimed(w) ==
  /\ worker[w].at = "look"
  /\ queue = {} \/ \E e \in Tops : e.due > now
  /\ Goes(w, [at |-> "wait"])
  /\ UNCHANGED <<now, queue, notifies, pool, outcome, late>>

(* Nothing to do, or not yet.                                              *)
Sleep(w) ==
  /\ worker[w].at = "look"
  /\ \/ queue = {} /\ Goes(w, [at |-> "wait"])
     \/ \E e \in Tops : /\ e.due > now
                        /\ Goes(w, [at |-> "wait_for", until |-> e.due])
  /\ UNCHANGED <<now, queue, notifies, pool, outcome, late>>

TakeWork(w) ==
  /\ worker[w].at = "look"
  /\ \E e \in Tops :
       /\ e.due <= now
       /\ HasClosure(e)
       /\ queue' = queue \ {e}
       /\ Goes(w, [at |-> "run", what |-> e.what])
  /\ UNCHANGED <<now, notifies, pool, outcome, late>>

(* Mutant: one delayed task is cancelled, not all.                         *)
TakeSentinelAndOne(w) ==
  /\ worker[w].at = "look"
  /\ \E e \in Tops :
       /\ ~HasClosure(e)
       /\ LET left == queue \ {e}
          IN  \E gone \in {{}} \cup {{f} : f \in {g \in left : HasTask(g)}} :
                /\ \A f \in gone, g \in left : f.due <= g.due
                /\ gone = {} => \A f \in left : HasTask(f) =>
                                  \E g \in left : ~HasTask(g) /\ g.due <= f.due
                /\ queue' = left \ gone
                /\ Goes(w, [at |-> "cancel", tasks |-> {f.what : f \in gone}])
  /\ UNCHANGED <<now, notifies, pool, outcome, late>>

(* A sentinel, and then every delayed task up to the next entry without    *)
(* one.                                                                    *)
TakeSentinel(w) ==
  /\ worker[w].at = "look"
  /\ \E e \in Tops :
       /\ ~HasClosure(e)
       /\ LET left == queue \ {e}
          IN  \E gone \in SUBSET {f \in left : HasTask(f)} :
                /\ \A f \in gone, g \in left \ gone : f.due <= g.due
                /\ \/ gone = left
                   \/ \E g \in left \ gone :
                        /\ ~HasTask(g)
                        /\ \A h \in left \ gone : g.due <= h.due
                /\ queue' = left \ gone
                /\ Goes(w, [at |-> "cancel", tasks |-> {f.what : f \in gone}])
  /\ UNCHANGED <<now, notifies, pool, outcome, late>>

(* The closure returns; that of a delayed task is task->Return().          *)
Run(w) ==
  /\ worker[w].at = "run"
  /\ outcome' = [outcome EXCEPT ![worker[w].what] = "done"]
  /\ Goes(w, Look)
  /\ UNCHANGED <<now, queue, notifies, pool, late>>

CancelDelayed(w) ==
  /\ worker[w].at = "cancel"
  /\ \/ \E t \in worker[w].tasks :
          /\ outcome' = [outcome EXCEPT ![t] = "cancelled"]
          /\ Goes(w, [worker[w] EXCEPT !.tasks = @ \ {t}])
     \/ /\ worker[w].tasks = {}
        /\ Goes(w, [at |-> "exited"])
        /\ UNCHANGED outcome
  /\ UNCHANGED <<now, queue, notifies, pool, late>>

(* wait_for returns at the timeout, and either wait may for no reason.     *)
Timeout(w) ==
  /\ worker[w].at = "wait_for" /\ worker[w].until <= now
  /\ Goes(w, Look)
  /\ UNCHANGED <<now, queue, notifies, pool, outcome, late>>

WakeSpuriously(w) ==
  /\ w \in Waiting
  /\ Goes(w, Look)
  /\ UNCHANGED <<now, queue, notifies, pool, outcome, late>>

-----------------------------------------------------------------------------
(* The destructor.  Add and Delay have returned to those outside the pool. *)
CanDestroy ==
  /\ pool = "open"
  /\ notifies = 0 \/ \E w \in Workers : worker[w].at = "run"

(* Mutant: the loop over the threads stops one short.                      *)
PushOneLess ==
  /\ CanDestroy
  /\ pool' = "pushed"
  /\ \E v \in Workers :
       queue' = queue \cup {[due |-> 0, exit |-> w] : w \in Workers \ {v}}
  /\ late' = \E e \in queue : ~HasTask(e)
  /\ UNCHANGED <<now, worker, notifies, outcome>>

PushSentinels ==
  /\ CanDestroy
  /\ pool' = "pushed"
  /\ queue' = queue \cup {[due |-> 0, exit |-> w] : w \in Workers}
  /\ late' = \E e \in queue : ~HasTask(e)
  /\ UNCHANGED <<now, worker, notifies, outcome>>

NotifyAll ==
  /\ pool = "pushed"
  /\ pool' = "joining"
  /\ worker' = [w \in Workers |-> IF w \in Waiting THEN Look ELSE worker[w]]
  /\ UNCHANGED <<now, queue, notifies, outcome, late>>

(* All threads are joined, CHECK(queue_.empty()).                          *)
Join ==
  /\ pool = "joining"
  /\ \A w \in Workers : worker[w].at = "exited"
  /\ pool' = IF queue = {} THEN "gone" ELSE "crashed"
  /\ UNCHANGED <<now, queue, worker, notifies, outcome, late>>

Tick ==
  /\ now < MaxTime
  /\ now' = now + 1
  /\ UNCHANGED <<queue, worker, notifies, pool, outcome, late>>

Worker(w) ==
  Sleep(w) \/ TakeWork(w) \/ TakeSentinel(w) \/ Run(w) \/ CancelDelayed(w)
    \/ Timeout(w)

Destructor == PushSentinels \/ NotifyAll \/ Join

Next ==
  \/ \E c \in Closures : Add(c)
  \/ \E t \in Timers, delay \in 0..MaxDelay : now + delay <= MaxTime /\ Delay(t, delay)
  \/ Notify
  \/ \E w \in Workers : Worker(w) \/ WakeSpuriously(w)
  \/ Destructor
  \/ Tick

Spec == Init /\ [][Next]_vars

(* Threads run, closures return and time passes.                           *)
FairSpec ==
  /\ Spec
  /\ \A w \in Workers : WF_vars(Worker(w))
  /\ WF_vars(Notify)
  /\ WF_vars(NotifyAll) /\ WF_vars(Join)
  /\ WF_vars(Tick)

-----------------------------------------------------------------------------
(* Properties.                                                             *)

(* A thread that will look at the queue before e is overdue.               *)
Serves(w, e) ==
  \/ worker[w].at \in {"look", "run", "cancel"}
  \/ worker[w].at = "wait_for" /\ worker[w].until <= e.due

(* No wakeup is lost between a thread that goes to sleep and one that adds *)
(* to the queue: unless a notification is on its way, some thread is awake *)
(* or sleeps no longer than until the first entry is due.                  *)
NoLostWakeup ==
  /\ notifies = 0 /\ pool \in {"open", "joining"}
  /\ \E w \in Workers : worker[w].at # "exited"
  => \A e \in queue : \E w \in Workers : Serves(w, e)

(* When the destructor finds only delayed tasks in the queue, and nothing  *)
(* is added later, all threads exit with the queue empty (the CHECK in     *)
(* ~Impl), every closure has run and every delayed task is returned once,  *)
(* as done or cancelled, although several threads take sentinels and tasks *)
(* from the queue at the same time.                                        *)
CleanShutdown ==
  /\ pool = "crashed" => late
  /\ pool = "gone" => \A x \in Work : outcome[x] # "queued"

(* Everything that is added is run, as long as the pool is there.          *)
EverythingRuns ==
  \A x \in Work : outcome[x] = "queued"
                    ~> outcome[x] \in {"done", "cancelled"} \/ pool # "open"

(* The destructor returns, or fails its CHECK: every thread gets one of    *)
(* the sentinels.                                                          *)
DestructorReturns == pool = "pushed" ~> pool \in {"gone", "crashed"}


=============================================================================
