--------------------------- MODULE TaskTreeProof ----------------------------
(***************************************************************************)
(* Cancellation reaches every child, and Task implements TaskTree: both    *)
(* rest on the invariant of TaskProof.                                     *)
(***************************************************************************)
EXTENDS TaskProof

(* A step that cancels and returns no task and adds no child.              *)
LEMMA ReachKept ==
  ASSUME CancelReachesChildren, TypeOK,
         calls \subseteq calls',
         \A t \in Tasks : /\ children'[t] \subseteq children[t]
                          /\ cancelled'[t] = cancelled[t]
                          /\ state'[t] # "ACTIVE" => state[t] # "ACTIVE"
                          /\ state[t] = "DONE" => state'[t] = "DONE"
  PROVE  CancelReachesChildren'
BY DEF CancelReachesChildren, TypeOK

(* What the transition of a task that is not done means for its state.     *)
LEMMA TransitionState ==
  ASSUME TypeOK, NEW t \in Tasks, NotDone(t), NEW h, NEW left,
         TryDoneTransition(t, state[t], h, left)
  PROVE  /\ \A u \in Tasks \ {t} : state'[u] = state[u]
         /\ \/ state' = state
            \/ state[t] = "PREPARED" /\ h = 0 /\ state' = [state EXCEPT ![t] = "DONE"]
BY DEF TypeOK, NotDone, TryDoneTransition

(* Each task of a copy of child_tasks_ gets its Cancel().                  *)
LEMMA CancelAllReaches ==
  ASSUME NEW by, NEW S, NEW c \in S
  PROVE  \E call \in CancelAll(by, S) : call.task = c
<1>1. [by |-> by, task |-> c] \in CancelAll(by, S)
  BY DEF CancelAll
<1>2. [by |-> by, task |-> c].task = c
  OBVIOUS
<1>3. QED BY <1>1, <1>2

LEMMA CancelReaches ==
  ASSUME TInv, CancelReachesChildren, NEW t \in Tasks,
         NEW left \in SUBSET calls, \A call \in calls \ left : call.task = t,
         CancelTask(t, left), UNCHANGED <<state, children, history>>
  PROVE  CancelReachesChildren'
<1>0. TypeOK
  BY DEF TInv
<1>1. CASE /\ state[t] = "DONE" \/ cancelled[t]
           /\ calls' = left
           /\ UNCHANGED <<cancelled, holds, cancelCbs, closures>>
  BY <1>0, <1>1 DEF CancelReachesChildren, TypeOK
<1>2. CASE /\ cancelled' = [cancelled EXCEPT ![t] = TRUE]
           /\ calls' = left \cup CancelAll("Cancel", children[t])
  <2>1. cancelled'[t] /\ \A u \in Tasks \ {t} : cancelled'[u] = cancelled[u]
    BY <1>0, <1>2 DEF TypeOK
  <2>2. \A c \in children[t] : \E call \in calls' : call.task = c
    BY <1>2, CancelAllReaches
  <2>3. \A call \in calls : call \in calls' \/ call.task = t
    BY <1>2
  <2>4. SUFFICES ASSUME NEW u \in Tasks, NEW c \in children'[u],
                        cancelled'[u] \/ state'[u] # "ACTIVE"
                 PROVE  \/ cancelled'[c] \/ state'[c] = "DONE"
                        \/ \E call \in calls' : call.task = c
    BY DEF CancelReachesChildren
  <2>5. c \in Tasks /\ c \in children[u]
    BY <1>0 DEF TypeOK
  <2>6. CASE u = t \/ c = t
    BY <2>1, <2>2, <2>5, <2>6
  <2>7. CASE u # t /\ c # t
    <3>1. \/ cancelled[c] \/ state[c] = "DONE"
          \/ \E call \in calls : call.task = c
      BY <2>1, <2>4, <2>5, <2>7 DEF CancelReachesChildren
    <3>2. QED BY <2>1, <2>3, <2>5, <2>7, <3>1
  <2>8. QED BY <2>6, <2>7
<1>3. QED BY <1>1, <1>2 DEF CancelTask

LEMMA NextReaches ==
  TInv /\ CancelReachesChildren /\ [Next]_vars => CancelReachesChildren'
<1>1. SUFFICES ASSUME TInv, CancelReachesChildren, [Next]_vars
               PROVE  CancelReachesChildren'
  OBVIOUS
<1>0. TypeOK /\ CallInv /\ \A u \in Tasks : TaskInv(u)
  BY <1>1 DEF TInv
<1>2. ASSUME NEW t \in Tasks, Cancel(t) PROVE CancelReachesChildren'
  BY <1>1, <1>2, CancelReaches DEF Cancel
<1>3. ASSUME NEW call \in calls, CancelChild(call) PROVE CancelReachesChildren'
  <2>1. call.task \in Tasks
    BY <1>0 DEF TypeOK, Call
  <2>2. QED BY <1>1, <1>3, <2>1, CancelReaches DEF CancelChild
<1>4. ASSUME NEW t \in Tasks, Return(t) PROVE CancelReachesChildren'
  <2>1. \A c \in children[t] : \E call \in calls' : call.task = c
    BY <1>4, CancelAllReaches DEF Return
  <2>2. /\ calls \subseteq calls' /\ state[t] = "ACTIVE"
        /\ \A u \in Tasks \ {t} : state'[u] = state[u]
        /\ UNCHANGED <<cancelled, children>>
    BY <1>0, <1>4 DEF Return, TryDoneTransition, TypeOK
  <2>3. SUFFICES ASSUME NEW u \in Tasks, NEW c \in children'[u],
                        cancelled'[u] \/ state'[u] # "ACTIVE"
                 PROVE  \/ cancelled'[c] \/ state'[c] = "DONE"
                        \/ \E call \in calls' : call.task = c
    BY DEF CancelReachesChildren
  <2>4. c \in Tasks /\ c \in children[u]
    BY <1>0, <2>2 DEF TypeOK
  <2>5. CASE u = t
    BY <2>1, <2>4, <2>5
  <2>6. CASE u # t
    <3>1. \/ cancelled[c] \/ state[c] = "DONE"
          \/ \E call \in calls : call.task = c
      BY <1>1, <2>2, <2>3, <2>4, <2>6 DEF CancelReachesChildren
    <3>2. QED BY <2>2, <2>4, <3>1
  <2>7. QED BY <2>5, <2>6
<1>5. ASSUME NEW t \in Tasks, AddHold(t) PROVE CancelReachesChildren'
  BY <1>0, <1>1, <1>5, ReachKept DEF AddHold
<1>6. ASSUME NEW t \in Tasks, RemoveHold(t) PROVE CancelReachesChildren'
  <2>1. NotDone(t)
    BY <1>1, <1>6, HoldsOf DEF RemoveHold
  <2>2. \A u \in Tasks : /\ state'[u] # "ACTIVE" => state[u] # "ACTIVE"
                         /\ state[u] = "DONE" => state'[u] = "DONE"
    BY <1>0, <1>6, <2>1, TransitionState DEF RemoveHold, TypeOK
  <2>3. QED BY <1>0, <1>1, <1>6, <2>2, ReachKept DEF RemoveHold
<1>7. ASSUME NEW t \in Tasks, NEW cb \in Callbacks, WhenCancelled(t, cb)
      PROVE  CancelReachesChildren'
  BY <1>0, <1>1, <1>7, ReachKept DEF WhenCancelled
<1>8. ASSUME NEW c \in Tasks, Parent[c] # NoTask, AddChild(c)
      PROVE  CancelReachesChildren'
  <2>1. PICK t \in Tasks : t = Parent[c]
    BY <1>8, TaskAssumption
  <2>2. /\ \A u \in Tasks \ {c} : state'[u] = state[u]
        /\ state[c] = "none" /\ cancelled' = cancelled
        /\ children'[t] = children[t] \cup {c}
        /\ \A u \in Tasks \ {t} : children'[u] = children[u]
    BY <1>0, <1>8, <2>1 DEF AddChild, TypeOK
  <2>3. calls \subseteq calls'
    BY <1>8 DEF AddChild
  <2>4. cancelled[t] \/ state[t] # "ACTIVE" => \E call \in calls' : call.task = c
    <3>1. \E call \in CancelAll("AddChild", {c}) : call.task = c
      BY CancelAllReaches
    <3>2. cancelled[t] \/ state[t] # "ACTIVE"
            => calls' = calls \cup CancelAll("AddChild", {c})
      BY <1>8, <2>1 DEF AddChild
    <3>3. QED BY <3>1, <3>2
  <2>5. t # c /\ children[c] = {}
    <3>1. ~NotDone(c)
      BY <2>2 DEF NotDone
    <3>2. QED BY <1>1, <2>1, <3>1, HoldsOf, TaskAssumption
  <2>6. SUFFICES ASSUME NEW u \in Tasks, NEW d \in children'[u],
                        cancelled'[u] \/ state'[u] # "ACTIVE"
                 PROVE  \/ cancelled'[d] \/ state'[d] = "DONE"
                        \/ \E call \in calls' : call.task = d
    BY DEF CancelReachesChildren
  <2>7. u # c
    <3>1. children'[c] = {}
      BY <2>2, <2>5
    <3>2. QED BY <2>6, <3>1
  <2>8. CASE d = c /\ u = t
    BY <2>2, <2>4, <2>6, <2>7, <2>8
  <2>9. CASE d \in children[u]
    <3>1. d \in Tasks /\ d # c
      <4>1. TaskInv(u)
        BY <1>0
      <4>2. d \in Tasks
        BY <1>0, <2>9 DEF TypeOK
      <4>3. state[d] # "none"
        BY <2>9, <4>1, <4>2 DEF TaskInv, OwnChildren
      <4>4. QED BY <2>2, <4>2, <4>3
    <3>2. \/ cancelled[d] \/ state[d] = "DONE"
          \/ \E call \in calls : call.task = d
      BY <1>1, <2>2, <2>6, <2>7, <2>9 DEF CancelReachesChildren
    <3>3. QED BY <2>2, <2>3, <3>1, <3>2
  <2>10. QED BY <2>2, <2>6, <2>8, <2>9
<1>9. ASSUME NEW t \in Tasks, NEW cb \in Callbacks, RunCancelCallback(t, cb)
      PROVE  CancelReachesChildren'
  <2>1. NotDone(t)
    <3>1. cb \in PendingCancels(t)
      BY <1>9 DEF RunCancelCallback, PendingCancels
    <3>2. QED BY <1>1, <3>1, HoldsOf
  <2>2. \A u \in Tasks : /\ state'[u] # "ACTIVE" => state[u] # "ACTIVE"
                         /\ state[u] = "DONE" => state'[u] = "DONE"
    BY <1>0, <1>9, <2>1, TransitionState DEF RunCancelCallback, TypeOK
  <2>3. QED BY <1>0, <1>1, <1>9, <2>2, ReachKept DEF RunCancelCallback
<1>10. ASSUME NEW t \in Tasks, RunCleanup(t) PROVE CancelReachesChildren'
  BY <1>0, <1>1, <1>10, ReachKept DEF RunCleanup
<1>11. ASSUME NEW t \in Tasks, RunDoneCallback(t) PROVE CancelReachesChildren'
  <2>1. CASE Parent[t] = NoTask
    BY <1>0, <1>1, <1>11, <2>1, ReachKept DEF RunDoneCallback
  <2>2. CASE Parent[t] # NoTask
    <3>1. PICK p \in Tasks : p = Parent[t] /\ NotDone(p)
      BY <1>1, <1>11, <2>2, ParentWaits DEF RunDoneCallback
    <3>2. \A u \in Tasks : /\ state'[u] # "ACTIVE" => state[u] # "ACTIVE"
                           /\ state[u] = "DONE" => state'[u] = "DONE"
      <4>1. TryDoneTransition(p, state[p], holds[p] - 1, closures \ {DoneClosure(t)})
        BY <1>11, <2>2, <3>1 DEF RunDoneCallback
      <4>2. QED BY <1>0, <3>1, <4>1, TransitionState DEF TypeOK
    <3>3. \A u \in Tasks : children'[u] \subseteq children[u]
      <4>1. children' = [children EXCEPT ![p] = @ \ {t}]
        BY <1>11, <2>2, <3>1 DEF RunDoneCallback
      <4>2. QED BY <1>0, <4>1 DEF TypeOK
    <3>4. QED BY <1>0, <1>1, <1>11, <3>2, <3>3, ReachKept DEF RunDoneCallback
  <2>3. QED BY <2>1, <2>2
<1>12. ASSUME UNCHANGED vars PROVE CancelReachesChildren'
  BY <1>0, <1>1, <1>12, ReachKept DEF vars
<1>13. QED
  BY <1>1, <1>2, <1>3, <1>4, <1>5, <1>6, <1>7, <1>8, <1>9, <1>10, <1>11, <1>12
     DEF Next, Use, Execute, RunCleanupAndDoneCallbacks

(* Whenever a task is cancelled or returned, every child it has is         *)
(* cancelled or done, or a thread is about to cancel it.                   *)
THEOREM CancelAlwaysReachesChildren == Spec => []CancelReachesChildren
<1>1. Init => CancelReachesChildren
  BY DEF Init, CancelReachesChildren
<1>2. QED BY <1>1, NextReaches, TaskSound, PTL DEF Spec

-----------------------------------------------------------------------------
(* A task without holds has no child that is still at work.                *)
LEMMA NoHoldsNoChildren ==
  ASSUME TInv, NEW t \in Tasks, holds[t] = 0
  PROVE  \A c \in Tasks : Parent[c] = t => Life[c] \in {"none", "finished"}
<1>0. TypeOK /\ TaskInv(t)
  BY DEF TInv
<1>1. children[t] = {}
  BY HoldsOf
<1>2. QED BY <1>0, <1>1 DEF TaskInv, OwnChildren, Life

(* The last to give back a hold makes the task DONE in the tree.           *)
LEMMA TransitionSimulates ==
  ASSUME TInv, NEW t \in Tasks, NotDone(t), holds[t] \in Nat, NEW left,
         TryDoneTransition(t, state[t], holds[t] - 1, left), finished' = finished,
         children[t] = {}
  PROVE  Life' = Life \/ Tree!Done(t)
<1>0. TypeOK /\ \A u \in Tasks : TaskInv(u)
  BY DEF TInv
<1>1. CASE state' = state
  BY <1>1 DEF Life
<1>2. CASE state[t] = "PREPARED" /\ state' = [state EXCEPT ![t] = "DONE"]
  <2>1. Life[t] = "PREPARED" /\ Life' = [Life EXCEPT ![t] = "DONE"]
    BY <1>0, <1>2 DEF Life, TaskInv, TypeOK
  <2>2. \A c \in Tasks : Parent[c] = t => Life[c] \in {"none", "finished"}
    BY <1>0 DEF TaskInv, OwnChildren, Life
  <2>3. QED BY <2>1, <2>2 DEF Tree!Done, Tree!Move, Tree!Children
<1>3. QED BY <1>0, <1>1, <1>2, TransitionState

LEMMA LetGoSimulates ==
  ASSUME TInv, NEW t \in Tasks, userHolds[t] > 0 \/ PendingCancels(t) # {},
         NEW left, TryDoneTransition(t, state[t], holds[t] - 1, left),
         finished' = finished
  PROVE  Life' = Life \/ Tree!Done(t)
<1>1. NotDone(t) /\ holds[t] \in Nat /\ TypeOK
  BY HoldsOf DEF TInv
<1>2. CASE holds[t] = 1
  BY <1>1, <1>2, HoldsOf, TransitionSimulates
<1>3. CASE holds[t] # 1
  <2>1. holds[t] - 1 # 0
    BY <1>1, <1>3, Less
  <2>2. state' = state
    BY <1>1, <2>1 DEF TryDoneTransition, TypeOK
  <2>3. QED BY <2>2 DEF Life
<1>4. QED BY <1>2, <1>3

LEMMA ReturnSimulates ==
  ASSUME TInv, NEW t \in Tasks, Return(t) PROVE Tree!Returned(t) \/ Tree!Done(t)
<1>0. TypeOK /\ TaskInv(t)
  BY DEF TInv
<1>1. Life[t] = "ACTIVE" /\ finished' = finished /\ t \notin finished
  BY <1>0 DEF Return, Life, TaskInv, history
<1>2. CASE holds[t] = 0
  <2>1. Life' = [Life EXCEPT ![t] = "DONE"]
    BY <1>0, <1>1, <1>2 DEF Return, TryDoneTransition, Life, TypeOK
  <2>2. QED BY <1>1, <1>2, <2>1, NoHoldsNoChildren
          DEF Tree!Done, Tree!Move, Tree!Children
<1>3. CASE holds[t] # 0
  <2>1. Life' = [Life EXCEPT ![t] = "PREPARED"]
    BY <1>0, <1>1, <1>3 DEF Return, TryDoneTransition, Life, TypeOK
  <2>2. QED BY <1>1, <2>1 DEF Tree!Returned, Tree!Move
<1>4. QED BY <1>2, <1>3

LEMMA FinishSimulates ==
  ASSUME TInv, NEW t \in Tasks, RunDoneCallback(t) PROVE Tree!Finish(t)
<1>0. TypeOK /\ \A u \in Tasks : TaskInv(u)
  BY DEF TInv
<1>1. /\ Life[t] = "DONE" /\ state[t] = "DONE" /\ t \notin finished
      /\ finished' = finished \cup {t}
  BY <1>0 DEF RunDoneCallback, TaskInv, Life
<1>2. CASE state' = state
  <2>1. Life' = [Life EXCEPT ![t] = "finished"]
    BY <1>1, <1>2 DEF Life
  <2>2. QED BY <1>1, <2>1 DEF Tree!Finish
<1>3. CASE state' # state
  <2>1. Parent[t] # NoTask /\ DoneClosure(t) \in closures
    BY <1>3 DEF RunDoneCallback
  <2>2. PICK p \in Tasks :
          /\ p = Parent[t] /\ p # t /\ t \in children[p] /\ holds[p] \in Nat
          /\ NotDone(p)
    BY <2>1, ParentWaits
  <2>3. /\ state[p] = "PREPARED" /\ holds[p] - 1 = 0
        /\ state' = [state EXCEPT ![p] = "DONE"]
    BY <1>0, <1>3, <2>1, <2>2, TransitionState DEF RunDoneCallback
  <2>4. children[p] \subseteq {t}
    <3>0. holds[p] \in Nat /\ holds[p] - 1 = 0
      BY <2>2, <2>3
    <3>1. holds[p] = 1
      BY <3>0, Less
    <3>2. QED BY <2>2, <3>1, HoldsOf
  <2>5. p \notin finished
    BY <1>0, <2>2, <2>3 DEF TaskInv
  <2>6. Life[p] = "PREPARED"
    BY <2>2, <2>3, <2>5 DEF Life
  <2>7. Life' = [Life EXCEPT ![t] = "finished", ![p] = "DONE"]
    BY <1>0, <1>1, <2>2, <2>3, <2>5 DEF Life, TypeOK
  <2>8. \A c \in Tree!Children(p) \ {t} : Life[c] \in {"none", "finished"}
    BY <1>0, <2>2, <2>4 DEF TaskInv, OwnChildren, Life, Tree!Children
  <2>9. QED BY <1>1, <2>2, <2>6, <2>7, <2>8 DEF Tree!Finish
<1>4. QED BY <1>2, <1>3

LEMMA NextSimulates == TInv /\ [Next]_vars => [Tree!TreeNext]_Life
<1>1. SUFFICES ASSUME TInv, [Next]_vars PROVE [Tree!TreeNext]_Life
  OBVIOUS
<1>0. TypeOK /\ \A u \in Tasks : TaskInv(u)
  BY <1>1 DEF TInv
<1>2. CASE state' = state /\ finished' = finished
  BY <1>2 DEF Life
<1>3. ASSUME NEW t \in Tasks, RemoveHold(t) PROVE Life' = Life \/ Tree!Done(t)
  BY <1>1, <1>3, LetGoSimulates DEF RemoveHold
<1>4. ASSUME NEW t \in Tasks, NEW cb \in Callbacks, RunCancelCallback(t, cb)
      PROVE  Life' = Life \/ Tree!Done(t)
  <2>1. cb \in PendingCancels(t)
    BY <1>4 DEF RunCancelCallback, PendingCancels
  <2>2. QED BY <1>1, <1>4, <2>1, LetGoSimulates DEF RunCancelCallback, history
<1>5. ASSUME NEW c \in Tasks, Parent[c] # NoTask, AddChild(c) PROVE Tree!Begin(c)
  <2>1. Parent[c] \in Tasks
    BY <1>5, TaskAssumption
  <2>2. /\ state[c] = "none" /\ c \notin finished
        /\ Parent[c] \notin finished /\ NotDone(Parent[c])
        /\ state' = [state EXCEPT ![c] = "ACTIVE"] /\ finished' = finished
    BY <1>0, <1>5, <2>1 DEF AddChild, TaskInv, NotDone, history
  <2>3. Life[c] = "none" /\ Life[Parent[c]] \in {"ACTIVE", "PREPARED"}
    BY <2>1, <2>2 DEF Life, NotDone
  <2>4. Life' = [Life EXCEPT ![c] = "ACTIVE"]
    BY <1>0, <2>2 DEF Life, TypeOK
  <2>5. QED BY <2>1, <2>3, <2>4 DEF Tree!Begin, Tree!Move
<1>6. ASSUME NEW t \in Tasks, Use(t) PROVE [Tree!TreeNext]_Life
  <2>1. CASE Cancel(t) \/ AddHold(t) \/ \E cb \in Callbacks : WhenCancelled(t, cb)
    BY <1>2, <2>1 DEF Cancel, AddHold, WhenCancelled, history
  <2>2. CASE Return(t)
    BY <1>1, <2>2, ReturnSimulates DEF Tree!TreeNext
  <2>3. CASE RemoveHold(t)
    BY <1>3, <2>3 DEF Tree!TreeNext
  <2>4. QED BY <1>6, <2>1, <2>2, <2>3 DEF Use
<1>7. ASSUME NEW t \in Tasks, Execute(t) PROVE [Tree!TreeNext]_Life
  <2>1. CASE RunCleanup(t)
    BY <1>2, <2>1 DEF RunCleanup, history
  <2>2. CASE RunDoneCallback(t)
    BY <1>1, <2>2, FinishSimulates DEF Tree!TreeNext
  <2>3. CASE \E cb \in Callbacks : RunCancelCallback(t, cb)
    BY <1>4, <2>3 DEF Tree!TreeNext
  <2>4. QED BY <1>7, <2>1, <2>2, <2>3 DEF Execute, RunCleanupAndDoneCallbacks
<1>8. ASSUME NEW call \in calls, CancelChild(call) PROVE [Tree!TreeNext]_Life
  BY <1>2, <1>8 DEF CancelChild, history
<1>9. CASE UNCHANGED vars
  BY <1>2, <1>9 DEF vars
<1>10. QED
  BY <1>1, <1>5, <1>6, <1>7, <1>8, <1>9 DEF Next, Tree!TreeNext

(* Every task is returned once and finishes once, and it is DONE only      *)
(* after the done callbacks of its children have returned.                 *)
THEOREM TaskImplementsTaskTree == Spec => ImplementsTaskTree
<1>1. Init => Tree!TreeInit
  BY TaskAssumption DEF Init, Tree!TreeInit, Life
<1>2. QED
  BY <1>1, NextSimulates, TaskSound, PTL DEF Spec, ImplementsTaskTree, Tree!TreeSpec
=============================================================================
