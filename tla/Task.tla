-------------------------------- MODULE Task --------------------------------
(***************************************************************************)
(* util::Task, src/cpp/util/task.cc: asynchronous operations with holds,   *)
(* cancellation and child tasks, used from several threads at once.        *)
(*                                                                         *)
(* A method runs under the task's lock until it gives the lock up; that    *)
(* part is one action.  What it does afterwards is recorded: in calls, the *)
(* Cancel() of the child tasks of which it took a copy, and in closures,   *)
(* what it gave to the executor.  Both happen at any later time, so that   *)
(* every interleaving of threads, with an executor of any number of        *)
(* threads or a synchronous one, is among the behaviours.                  *)
(***************************************************************************)
EXTENDS Integers, FiniteSets

CONSTANTS
  Tasks,
  Parent,      \* the task that creates each one; NoTask for a task of its own
  NoTask,
  Callbacks,   \* the callbacks given to WhenCancelled
  MaxHolds     \* bound: holds that the user of a task has at the same time

ASSUME TaskAssumption ==
  /\ IsFiniteSet(Tasks) /\ IsFiniteSet(Callbacks)
  /\ NoTask \notin Tasks
  /\ Parent \in [Tasks -> Tasks \cup {NoTask}]
  /\ \A t \in Tasks : Parent[t] # t
  /\ MaxHolds \in Nat

VARIABLES
  state,       \* state_; "none" before the task exists
  cancelled,   \* cancelled_
  holds,       \* holds_
  children,    \* child_tasks_
  cancelCbs,   \* cancel_callbacks_
  closures,    \* closures in the executor, queued or running
  calls,       \* Cancel() calls on children that a thread is about to make
  userHolds,   \* history: the holds of AddHold that are not yet removed
  registered,  \* history: the callbacks that WhenCancelled was called with
  finished     \* history: the tasks whose done callback has returned

history == <<userHolds, registered, finished>>
vars == <<state, cancelled, holds, children, cancelCbs, closures,
          calls, userHolds, registered, finished>>

CancelClosure(t, cb) == [run |-> "cancel", task |-> t, cb |-> {cb}]
CleanupClosure(t) == [run |-> "cleanup", task |-> t, cb |-> {}]
DoneClosure(t) == [run |-> "done", task |-> t, cb |-> {}]

Closure ==
  {CancelClosure(t, cb) : t \in Tasks, cb \in Callbacks}
    \cup {CleanupClosure(t) : t \in Tasks} \cup {DoneClosure(t) : t \in Tasks}

(* Who cancels a child: Cancel, Return or AddChild of its parent.          *)
Call == [by : {"Cancel", "Return", "AddChild"}, task : Tasks]

TypeOK ==
  /\ state \in [Tasks -> {"none", "ACTIVE", "PREPARED", "DONE"}]
  /\ cancelled \in [Tasks -> BOOLEAN]
  /\ holds \in [Tasks -> Nat]
  /\ children \in [Tasks -> SUBSET Tasks]
  /\ cancelCbs \in [Tasks -> SUBSET Callbacks]
  /\ closures \subseteq Closure
  /\ calls \subseteq Call
  /\ userHolds \in [Tasks -> 0..MaxHolds]
  /\ registered \in [Tasks -> SUBSET Callbacks]
  /\ finished \subseteq Tasks

Init ==
  /\ state = [t \in Tasks |-> IF Parent[t] = NoTask THEN "ACTIVE" ELSE "none"]
  /\ cancelled = [t \in Tasks |-> FALSE]
  /\ holds = [t \in Tasks |-> 0]
  /\ children = [t \in Tasks |-> {}]
  /\ cancelCbs = [t \in Tasks |-> {}]
  /\ closures = {}
  /\ calls = {}
  /\ userHolds = [t \in Tasks |-> 0]
  /\ registered = [t \in Tasks |-> {}]
  /\ finished = {}

(* A caller that knows the task is not done: it has not returned it, or    *)
(* it has a hold.  The header asks this of the callers of AddHold and      *)
(* AddChild (and CleanupWhenDone, whose callbacks are not told apart).     *)
NotDone(t) == state[t] \in {"ACTIVE", "PREPARED"}

CancelAll(by, ts) == {[by |-> by, task |-> c] : c \in ts}

-----------------------------------------------------------------------------
(* TryDoneTransition, with the state and the holds that the caller has set *)
(* and the closures that are left.                                         *)
TryDoneTransition(t, s, h, left) ==
  /\ holds' = [holds EXCEPT ![t] = h]
  /\ IF s = "PREPARED" /\ h = 0
     THEN /\ state' = [state EXCEPT ![t] = "DONE"]
          /\ closures' = left \cup {CleanupClosure(t)}
     ELSE /\ state' = [state EXCEPT ![t] = s]
          /\ closures' = left

(* Mutant: the request goes up to the parent.                              *)
CancelTaskUp(t, left) ==
  \/ /\ state[t] = "DONE" \/ cancelled[t]
     /\ calls' = left
     /\ UNCHANGED <<cancelled, holds, cancelCbs, closures>>
  \/ /\ state[t] # "DONE" /\ ~cancelled[t]
     /\ cancelled' = [cancelled EXCEPT ![t] = TRUE]
     /\ cancelCbs' = [cancelCbs EXCEPT ![t] = {}]
     /\ holds' = [holds EXCEPT ![t] = @ + Cardinality(cancelCbs[t])]
     /\ closures' = closures \cup {CancelClosure(t, cb) : cb \in cancelCbs[t]}
     /\ calls' = left \cup CancelAll("Cancel", {Parent[t]})

(* Cancel(), when the calls that are left are those in left.               *)
CancelTask(t, left) ==
  \/ /\ state[t] = "DONE" \/ cancelled[t]
     /\ calls' = left
     /\ UNCHANGED <<cancelled, holds, cancelCbs, closures>>
  \/ /\ state[t] # "DONE" /\ ~cancelled[t]
     /\ cancelled' = [cancelled EXCEPT ![t] = TRUE]
     /\ cancelCbs' = [cancelCbs EXCEPT ![t] = {}]
     /\ holds' = [holds EXCEPT ![t] = @ + Cardinality(cancelCbs[t])]
     /\ closures' = closures \cup {CancelClosure(t, cb) : cb \in cancelCbs[t]}
     /\ calls' = left \cup CancelAll("Cancel", children[t])

(* The user of a task cancels it.                                          *)
Cancel(t) ==
  /\ state[t] # "none" /\ t \notin finished
  /\ CancelTask(t, calls)
  /\ UNCHANGED <<state, children, history>>

(* A thread gets to the Cancel() of a child in its copy of child_tasks_.   *)
CancelChild(call) ==
  /\ CancelTask(call.task, calls \ {call})
  /\ UNCHANGED <<state, children, history>>

(* Mutant: cancel_callbacks_ is not cleared.                               *)
ReturnKeepsCallbacks(t) ==
  /\ state[t] = "ACTIVE"
  /\ TryDoneTransition(t, "PREPARED", holds[t], closures)
  /\ calls' = calls \cup CancelAll("Return", children[t])
  /\ UNCHANGED <<cancelled, children, cancelCbs, history>>

Return(t) ==
  /\ state[t] = "ACTIVE"
  /\ cancelCbs' = [cancelCbs EXCEPT ![t] = {}]
  /\ TryDoneTransition(t, "PREPARED", holds[t], closures)
  /\ calls' = calls \cup CancelAll("Return", children[t])
  /\ UNCHANGED <<cancelled, children, history>>

AddHold(t) ==
  /\ NotDone(t)
  /\ userHolds[t] < MaxHolds
  /\ holds' = [holds EXCEPT ![t] = @ + 1]
  /\ userHolds' = [userHolds EXCEPT ![t] = @ + 1]
  /\ UNCHANGED <<state, cancelled, children, cancelCbs, closures,
                 calls, registered, finished>>

RemoveHold(t) ==
  /\ userHolds[t] > 0
  /\ userHolds' = [userHolds EXCEPT ![t] = @ - 1]
  /\ TryDoneTransition(t, state[t], holds[t] - 1, closures)
  /\ UNCHANGED <<cancelled, children, cancelCbs, calls, registered,
                 finished>>

(* Mutant: a late callback gets no hold.                                   *)
WhenCancelledUnheld(t, cb) ==
  /\ state[t] # "none" /\ t \notin finished
  /\ cb \notin registered[t]
  /\ registered' = [registered EXCEPT ![t] = @ \cup {cb}]
  /\ \/ /\ state[t] # "ACTIVE"
        /\ UNCHANGED <<cancelCbs, closures>>
     \/ /\ state[t] = "ACTIVE" /\ ~cancelled[t]
        /\ cancelCbs' = [cancelCbs EXCEPT ![t] = @ \cup {cb}]
        /\ UNCHANGED closures
     \/ /\ state[t] = "ACTIVE" /\ cancelled[t]
        /\ closures' = closures \cup {CancelClosure(t, cb)}
        /\ UNCHANGED cancelCbs
  /\ UNCHANGED <<state, cancelled, holds, children, calls, userHolds,
                 finished>>

WhenCancelled(t, cb) ==
  /\ state[t] # "none" /\ t \notin finished
  /\ cb \notin registered[t]
  /\ registered' = [registered EXCEPT ![t] = @ \cup {cb}]
  /\ \/ /\ state[t] # "ACTIVE"
        /\ UNCHANGED <<holds, cancelCbs, closures>>
     \/ /\ state[t] = "ACTIVE" /\ ~cancelled[t]
        /\ cancelCbs' = [cancelCbs EXCEPT ![t] = @ \cup {cb}]
        /\ UNCHANGED <<holds, closures>>
     \/ /\ state[t] = "ACTIVE" /\ cancelled[t]
        /\ holds' = [holds EXCEPT ![t] = @ + 1]
        /\ closures' = closures \cup {CancelClosure(t, cb)}
        /\ UNCHANGED cancelCbs
  /\ UNCHANGED <<state, cancelled, children, calls, userHolds,
                 finished>>

(* Mutant: only cancelled_ is looked at.                                   *)
AddChildUnreturned(c) ==
  LET t == Parent[c]
  IN  /\ state[c] = "none" /\ NotDone(t)
      /\ state' = [state EXCEPT ![c] = "ACTIVE"]
      /\ children' = [children EXCEPT ![t] = @ \cup {c}]
      /\ holds' = [holds EXCEPT ![t] = @ + 1]
      /\ calls' = IF cancelled[t] THEN calls \cup CancelAll("AddChild", {c})
                                  ELSE calls
      /\ UNCHANGED <<cancelled, cancelCbs, closures, history>>

AddChild(c) ==
  LET t == Parent[c]
  IN  /\ state[c] = "none" /\ NotDone(t)
      /\ state' = [state EXCEPT ![c] = "ACTIVE"]
      /\ children' = [children EXCEPT ![t] = @ \cup {c}]
      /\ holds' = [holds EXCEPT ![t] = @ + 1]
      /\ calls' = IF state[t] # "ACTIVE" \/ cancelled[t]
                  THEN calls \cup CancelAll("AddChild", {c}) ELSE calls
      /\ UNCHANGED <<cancelled, cancelCbs, closures, history>>

-----------------------------------------------------------------------------
(* The executor.  A closure is in closures until it has returned.          *)

RunCancelCallback(t, cb) ==
  /\ CancelClosure(t, cb) \in closures
  /\ TryDoneTransition(t, state[t], holds[t] - 1,
                       closures \ {CancelClosure(t, cb)})
  /\ UNCHANGED <<cancelled, children, cancelCbs, calls, history>>

RunCleanup(t) ==
  /\ CleanupClosure(t) \in closures
  /\ closures' = (closures \ {CleanupClosure(t)}) \cup {DoneClosure(t)}
  /\ UNCHANGED <<state, cancelled, holds, children, cancelCbs, calls, history>>

(* Mutant: the parent is not looked at again.                              *)
RunDoneCallbackOnly(t) ==
  LET parent == Parent[t]
  IN  /\ DoneClosure(t) \in closures
      /\ finished' = finished \cup {t}
      /\ closures' = closures \ {DoneClosure(t)}
      /\ IF parent = NoTask
         THEN UNCHANGED <<holds, children>>
         ELSE /\ children' = [children EXCEPT ![parent] = @ \ {t}]
              /\ holds' = [holds EXCEPT ![parent] = @ - 1]
      /\ UNCHANGED <<state, cancelled, cancelCbs, calls, userHolds,
                     registered>>

(* The done callback returns; that of a child is RunChildDoneCallback of   *)
(* its parent.                                                             *)
RunDoneCallback(t) ==
  LET parent == Parent[t]
  IN  /\ DoneClosure(t) \in closures
      /\ finished' = finished \cup {t}
      /\ IF parent = NoTask
         THEN /\ closures' = closures \ {DoneClosure(t)}
              /\ UNCHANGED <<state, holds, children>>
         ELSE /\ children' = [children EXCEPT ![parent] = @ \ {t}]
              /\ TryDoneTransition(parent, state[parent], holds[parent] - 1,
                                   closures \ {DoneClosure(t)})
      /\ UNCHANGED <<cancelled, cancelCbs, calls, userHolds,
                     registered>>

(* Mutant: a child lets go of its parent before its done callback runs.    *)
LetGoFirst(t) ==
  LET parent == Parent[t]
  IN  \/ /\ CleanupClosure(t) \in closures
         /\ IF parent = NoTask
            THEN /\ closures' = (closures \ {CleanupClosure(t)})
                                 \cup {DoneClosure(t)}
                 /\ UNCHANGED <<state, holds, children>>
            ELSE /\ children' = [children EXCEPT ![parent] = @ \ {t}]
                 /\ TryDoneTransition(parent, state[parent], holds[parent] - 1,
                      (closures \ {CleanupClosure(t)}) \cup {DoneClosure(t)})
         /\ UNCHANGED <<cancelled, cancelCbs, calls, history>>
      \/ /\ DoneClosure(t) \in closures
         /\ finished' = finished \cup {t}
         /\ closures' = closures \ {DoneClosure(t)}
         /\ UNCHANGED <<state, cancelled, holds, children, cancelCbs,
                        calls, userHolds, registered>>

RunCleanupAndDoneCallbacks(t) == RunCleanup(t) \/ RunDoneCallback(t)

Execute(t) ==
  \/ \E cb \in Callbacks : RunCancelCallback(t, cb)
  \/ RunCleanupAndDoneCallbacks(t)

Use(t) ==
  \/ Cancel(t) \/ Return(t) \/ AddHold(t) \/ RemoveHold(t)
  \/ \E cb \in Callbacks : WhenCancelled(t, cb)

Next ==
  \/ \E t \in Tasks : Use(t) \/ Execute(t)
  \/ \E c \in Tasks : Parent[c] # NoTask /\ AddChild(c)
  \/ \E call \in calls : CancelChild(call)

Spec == Init /\ [][Next]_vars

(* Threads run, every operation returns in the end, and every hold is      *)
(* given back (TaskHold).                                                  *)
FairSpec ==
  /\ Spec
  /\ \A t \in Tasks : /\ WF_vars(Execute(t)) /\ WF_vars(Return(t))
                      /\ WF_vars(RemoveHold(t))
  /\ WF_vars(\E call \in calls : CancelChild(call))

-----------------------------------------------------------------------------
(* Properties.                                                             *)

PendingCancels(t) == {cb \in Callbacks : CancelClosure(t, cb) \in closures}

(* holds_ counts exactly the holds of AddHold, the cancellation callbacks  *)
(* that have not returned and the children that have not finished.         *)
HoldsExact ==
  \A t \in Tasks : holds[t] = userHolds[t] + Cardinality(PendingCancels(t))
                                + Cardinality(children[t])

(* No callback runs on a task that is done or deleted: while a             *)
(* cancellation callback or a hold is out the task is not DONE ("All       *)
(* cancellation callbacks will be complete before the task enters the DONE *)
(* state"), and ~Task finds it DONE and without cancellation callbacks.    *)
CallbacksBeforeDone ==
  /\ \A t \in Tasks : PendingCancels(t) # {} \/ userHolds[t] > 0 => NotDone(t)
  /\ \A t \in Tasks : state[t] = "DONE" => cancelCbs[t] = {}
  /\ \A t \in finished : state[t] = "DONE"
  /\ \A closure \in closures : closure.task \notin finished

(* "All child tasks will be cancelled automatically if this task is        *)
(* cancelled or enters the PREPARED state": no child slips through between *)
(* a thread that copies child_tasks_ and one that adds a child.            *)
CancelReachesChildren ==
  \A t \in Tasks : \A c \in children[t] :
    cancelled[t] \/ state[t] # "ACTIVE"
      => \/ cancelled[c] \/ state[c] = "DONE"
         \/ \E call \in calls : call.task = c

Life == [t \in Tasks |-> IF t \in finished THEN "finished" ELSE state[t]]

Tree == INSTANCE TaskTree WITH life <- Life

(* Every task is returned once and finishes once, and it is DONE only      *)
(* after the done callbacks of all its children have returned.             *)
ImplementsTaskTree == Tree!TreeSpec

(* When operations return and holds are given back, every task of its own, *)
(* and so all of its descendants, finish: the last of the threads that let *)
(* go of a task makes it DONE.                                             *)
TasksFinish == \A t \in {r \in Tasks : Parent[r] = NoTask} : <>(t \in finished)

=============================================================================
