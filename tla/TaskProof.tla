----------------------------- MODULE TaskProof ------------------------------
(***************************************************************************)
(* The invariant of TaskInvariant is preserved by the remaining methods of *)
(* Task, and what follows from it for every reachable state.               *)
(***************************************************************************)
EXTENDS TaskInvariant

LEMMA WhenCancelledTInv ==
  ASSUME TInv, NEW t \in Tasks, NEW cb \in Callbacks, WhenCancelled(t, cb)
  PROVE  TInv'
<1>0. TypeOK /\ CallInv /\ \A u \in Tasks : TaskInv(u)
  BY DEF TInv
<1>1. /\ holds[t] \in Nat /\ userHolds[t] \in Nat
      /\ Cardinality(PendingCancels(t)) \in Nat
      /\ Cardinality(children[t]) \in Nat
      /\ holds[t] = userHolds[t] + Cardinality(PendingCancels(t))
                                 + Cardinality(children[t])
  BY <1>0, Counts, TaskAssumption DEF TypeOK, TaskInv, Exact, PendingCancels
<1>2. CancelClosure(t, cb) \in Closure
  BY DEF Closure
<1>3. TypeOK' /\ CallInv'
  BY <1>0, <1>2 DEF WhenCancelled, TypeOK, CallInv
<1>4. closures' = closures \/ closures' = closures \cup {CancelClosure(t, cb)}
  BY DEF WhenCancelled
<1>5. /\ \A u \in Tasks \ {t}, d \in Callbacks :
           CancelClosure(u, d) \in closures' <=> CancelClosure(u, d) \in closures
      /\ \A u \in Tasks :
           /\ CleanupClosure(u) \in closures' <=> CleanupClosure(u) \in closures
           /\ DoneClosure(u) \in closures' <=> DoneClosure(u) \in closures
  BY <1>4, ClosuresDiffer
<1>6. ASSUME NEW u \in Tasks \ {t} PROVE TaskInv(u)'
  <2>1. /\ holds'[u] = holds[u] /\ cancelCbs'[u] = cancelCbs[u]
        /\ registered'[u] = registered[u]
    BY <1>0 DEF WhenCancelled, TypeOK
  <2>2. QED BY <1>0, <1>5, <2>1, Untouched DEF WhenCancelled
<1>7. registered'[t] = registered[t] \cup {cb} /\ cb \notin registered[t]
  BY <1>0 DEF WhenCancelled, TypeOK
<1>8. CASE UNCHANGED <<holds, closures>>
  <2>1. PendingCancels(t)' = PendingCancels(t)
    BY <1>8 DEF PendingCancels
  <2>2. /\ state[t] # "ACTIVE" \/ cancelled[t] => cancelCbs'[t] = {}
        /\ cancelCbs'[t] \subseteq cancelCbs[t] \cup {cb}
    <3>1. CASE state[t] # "ACTIVE"
      BY <1>0, <3>1 DEF WhenCancelled, TaskInv
    <3>2. CASE /\ state[t] = "ACTIVE" /\ ~cancelled[t]
               /\ cancelCbs' = [cancelCbs EXCEPT ![t] = @ \cup {cb}]
      BY <1>0, <3>2 DEF TypeOK
    <3>3. CASE holds' = [holds EXCEPT ![t] = @ + 1]
      <4>1. holds'[t] = holds[t] + 1 /\ holds'[t] = holds[t]
        BY <1>0, <1>8, <3>3 DEF TypeOK
      <4>2. QED BY <1>1, <4>1, SMTT(30)
    <3>4. QED BY <3>1, <3>2, <3>3 DEF WhenCancelled
  <2>3. TaskInv(t)'
    <3>1. TaskInv(t)
      BY <1>0
    <3>2. Exact(t)' /\ OwnChildren(t)'
      BY <1>8, <2>1, <3>1 DEF WhenCancelled, TaskInv, Exact, OwnChildren
    <3>3. QED BY <1>7, <1>8, <2>1, <2>2, <3>1, <3>2 DEF WhenCancelled, TaskInv, NotDone
  <2>4. QED BY <1>3, <1>6, <2>3 DEF TInv
<1>9. CASE /\ state[t] = "ACTIVE" /\ cancelled[t]
           /\ holds' = [holds EXCEPT ![t] = @ + 1]
           /\ closures' = closures \cup {CancelClosure(t, cb)}
           /\ UNCHANGED cancelCbs
  <2>1. PendingCancels(t)' = PendingCancels(t) \cup {cb}
    <3>1. \A d \in Callbacks : CancelClosure(t, d) \in closures'
            <=> CancelClosure(t, d) \in closures \/ d = cb
      BY <1>9, ClosuresDiffer, SMTT(30)
    <3>2. QED BY <3>1 DEF PendingCancels
  <2>2. cb \notin PendingCancels(t) /\ PendingCancels(t) \subseteq Callbacks
    BY <1>0, <1>7 DEF TaskInv, PendingCancels
  <2>3. Cardinality(PendingCancels(t)') = Cardinality(PendingCancels(t)) + 1
    BY <2>1, <2>2, Counts
  <2>4. holds'[t] = holds[t] + 1
    BY <1>0, <1>9 DEF TypeOK
  <2>5. holds'[t] = userHolds[t] + Cardinality(PendingCancels(t)')
                                 + Cardinality(children[t])
    BY <1>1, <2>3, <2>4
  <2>6. TaskInv(t)'
    <3>1. TaskInv(t)
      BY <1>0
    <3>2. Exact(t)' /\ OwnChildren(t)'
      BY <2>5, <3>1 DEF WhenCancelled, TaskInv, Exact, OwnChildren
    <3>3. QED BY <1>5, <1>7, <1>9, <2>1, <3>1, <3>2 DEF WhenCancelled, TaskInv, NotDone
  <2>7. QED BY <1>3, <1>6, <2>6 DEF TInv
<1>10. QED BY <1>8, <1>9 DEF WhenCancelled

LEMMA AddChildTInv ==
  ASSUME TInv, NEW c \in Tasks, Parent[c] # NoTask, AddChild(c)
  PROVE  TInv'
<1>0. TypeOK /\ CallInv /\ \A u \in Tasks : TaskInv(u)
  BY DEF TInv
<1>1. PICK t \in Tasks : t = Parent[c] /\ t # c
  BY TaskAssumption
<1>2. /\ state[c] = "none" /\ NotDone(t)
      /\ state' = [state EXCEPT ![c] = "ACTIVE"]
      /\ children' = [children EXCEPT ![t] = @ \cup {c}]
      /\ holds' = [holds EXCEPT ![t] = @ + 1]
      /\ calls' = calls \/ calls' = calls \cup CancelAll("AddChild", {c})
      /\ UNCHANGED <<cancelled, cancelCbs, closures, history>>
  BY <1>1 DEF AddChild
<1>3. TypeOK'
  <2>1. [by |-> "AddChild", task |-> c] \in Call
    BY DEF Call
  <2>2. calls' \subseteq Call
    <3>1. calls \subseteq Call
      BY <1>0 DEF TypeOK
    <3>2. CancelAll("AddChild", {c}) \subseteq Call
      BY <2>1 DEF CancelAll
    <3>3. QED BY <1>2, <3>1, <3>2
  <2>3. /\ state' \in [Tasks -> {"none", "ACTIVE", "PREPARED", "DONE"}]
        /\ children' \in [Tasks -> SUBSET Tasks]
        /\ holds' \in [Tasks -> Nat]
    BY <1>0, <1>1, <1>2 DEF TypeOK
  <2>4. QED BY <1>0, <1>2, <2>2, <2>3 DEF TypeOK, history
<1>4. /\ state'[c] = "ACTIVE"
      /\ \A u \in Tasks \ {c} : state'[u] = state[u]
      /\ holds'[t] = holds[t] + 1
      /\ \A u \in Tasks \ {t} : holds'[u] = holds[u] /\ children'[u] = children[u]
      /\ children'[t] = children[t] \cup {c}
  BY <1>0, <1>1, <1>2 DEF TypeOK
<1>5. CallInv'
  <2>1. \A call \in calls' : call \in calls \/ call.task = c
    <3>1. \A call \in CancelAll("AddChild", {c}) : call.task = c
      BY DEF CancelAll
    <3>2. QED BY <1>2, <3>1
  <2>2. \A call \in calls' : call.task \in Tasks
    BY <1>3 DEF TypeOK, Call
  <2>3. QED BY <1>0, <1>4, <2>1, <2>2 DEF CallInv
<1>6. c \notin finished /\ c \notin children[t]
  <2>1. TaskInv(c) /\ TaskInv(t)
    BY <1>0, <1>1
  <2>2. QED BY <1>2, <2>1 DEF TaskInv, OwnChildren
<1>7. \A u \in Tasks : PendingCancels(u)' = PendingCancels(u)
  BY <1>2 DEF PendingCancels
<1>8. ASSUME NEW u \in Tasks \ {t, c} PROVE TaskInv(u)'
  <2>1. Parent[c] # u
    BY <1>1
  <2>2. QED BY <1>0, <1>2, <1>4, <2>1, Untouched DEF history
<1>9. TaskInv(c)'
  <2>1. /\ holds[c] = 0 /\ cancelCbs[c] = {}
        /\ CleanupClosure(c) \notin closures /\ DoneClosure(c) \notin closures
    BY <1>0, <1>2 DEF TaskInv, NotDone
  <2>2. \A d \in Tasks : Parent[d] = c => d # c
    BY TaskAssumption
  <2>3. TaskInv(c) /\ holds'[c] = holds[c] /\ children'[c] = children[c]
    BY <1>0, <1>1, <1>4
  <2>4. \A d \in Tasks : Parent[d] = c => state'[d] = state[d]
    BY <1>4, <2>2
  <2>5. Exact(c)' /\ OwnChildren(c)'
    BY <1>2, <1>7, <2>3, <2>4 DEF TaskInv, Exact, OwnChildren, history
  <2>6. QED BY <1>2, <1>4, <1>6, <1>7, <2>1, <2>3, <2>5 DEF TaskInv, NotDone, history
<1>10. TaskInv(t)'
  <2>1. children[t] \subseteq Tasks
    BY <1>0, <1>1 DEF TypeOK
  <2>2. /\ Cardinality(PendingCancels(t)) \in Nat
        /\ Cardinality(children[t]) \in Nat
        /\ Cardinality(children[t] \cup {c}) = Cardinality(children[t]) + 1
    BY <1>6, <2>1, Counts DEF PendingCancels
  <2>3. /\ holds[t] = userHolds[t] + Cardinality(PendingCancels(t))
                                   + Cardinality(children[t])
        /\ userHolds[t] \in Nat
    BY <1>0, <1>1, TaskAssumption DEF TaskInv, Exact, TypeOK
  <2>4. holds'[t] = holds[t] + 1 /\ children'[t] = children[t] \cup {c}
    BY <1>4
  <2>5. holds'[t] = userHolds[t] + Cardinality(PendingCancels(t))
                                 + Cardinality(children'[t])
    BY <2>2, <2>3, <2>4
  <2>6. TaskInv(t) /\ state'[t] = state[t]
    BY <1>0, <1>1, <1>4
  <2>7. OwnChildren(t)'
    <3>1. \A d \in Tasks \ {c} : state'[d] = state[d]
      BY <1>4
    <3>2. Parent[c] = t /\ state'[c] # "none" /\ finished' = finished
      BY <1>1, <1>2, <1>4 DEF history
    <3>3. QED BY <1>6, <2>4, <2>6, <3>1, <3>2 DEF TaskInv, OwnChildren
  <2>8. Exact(t)'
    BY <1>2, <1>7, <1>1, <2>5 DEF Exact, history
  <2>9. QED BY <1>1, <1>2, <1>7, <2>6, <2>7, <2>8 DEF TaskInv, NotDone, history
<1>11. QED BY <1>3, <1>5, <1>8, <1>9, <1>10 DEF TInv

LEMMA RunCleanupTInv == ASSUME TInv, NEW t \in Tasks, RunCleanup(t) PROVE TInv'
<1>0. TypeOK /\ CallInv /\ \A u \in Tasks : TaskInv(u)
  BY DEF TInv
<1>1. DoneClosure(t) \in Closure
  BY DEF Closure
<1>2. TypeOK' /\ CallInv'
  BY <1>0, <1>1 DEF RunCleanup, TypeOK, CallInv, history
<1>3. /\ \A u \in Tasks, cb \in Callbacks :
           CancelClosure(u, cb) \in closures' <=> CancelClosure(u, cb) \in closures
      /\ \A u \in Tasks \ {t} :
           /\ CleanupClosure(u) \in closures' <=> CleanupClosure(u) \in closures
           /\ DoneClosure(u) \in closures' <=> DoneClosure(u) \in closures
      /\ CleanupClosure(t) \in closures /\ CleanupClosure(t) \notin closures'
  BY ClosuresDiffer DEF RunCleanup
<1>4. ASSUME NEW u \in Tasks \ {t} PROVE TaskInv(u)'
  BY <1>0, <1>3, Untouched DEF RunCleanup, history
<1>5. TaskInv(t)'
  <2>1. PendingCancels(t)' = PendingCancels(t)
    BY <1>3 DEF PendingCancels
  <2>2. TaskInv(t)
    BY <1>0
  <2>3. Exact(t)' /\ OwnChildren(t)'
    BY <2>1, <2>2 DEF RunCleanup, TaskInv, Exact, OwnChildren, history
  <2>4. QED BY <1>3, <2>1, <2>2, <2>3 DEF RunCleanup, TaskInv, NotDone, history
<1>6. QED BY <1>2, <1>4, <1>5 DEF TInv

(* A task without a parent finishes.                                       *)
LEMMA RunOwnDoneCallbackTInv ==
  ASSUME TInv, NEW t \in Tasks, Parent[t] = NoTask, RunDoneCallback(t)
  PROVE  TInv'
<1>0. TypeOK /\ CallInv /\ \A u \in Tasks : TaskInv(u)
  BY DEF TInv
<1>1. /\ DoneClosure(t) \in closures /\ closures' = closures \ {DoneClosure(t)}
      /\ finished' = finished \cup {t}
      /\ UNCHANGED <<state, holds, children, cancelled, cancelCbs, calls,
                     userHolds, registered>>
  BY DEF RunDoneCallback
<1>2. TypeOK' /\ CallInv'
  BY <1>0, <1>1 DEF TypeOK, CallInv
<1>3. /\ \A u \in Tasks, cb \in Callbacks :
           CancelClosure(u, cb) \in closures' <=> CancelClosure(u, cb) \in closures
      /\ \A u \in Tasks :
           CleanupClosure(u) \in closures' <=> CleanupClosure(u) \in closures
      /\ \A u \in Tasks \ {t} :
           DoneClosure(u) \in closures' <=> DoneClosure(u) \in closures
  BY <1>1, ClosuresDiffer
<1>4. \A u \in Tasks : Parent[t] # u
  BY TaskAssumption
<1>5. ASSUME NEW u \in Tasks \ {t} PROVE TaskInv(u)'
  BY <1>0, <1>1, <1>3, <1>4, Untouched
<1>6. TaskInv(t)'
  <2>1. PendingCancels(t)' = PendingCancels(t)
    BY <1>3 DEF PendingCancels
  <2>2. TaskInv(t)
    BY <1>0
  <2>3. Exact(t)' /\ OwnChildren(t)'
    BY <1>1, <1>4, <2>1, <2>2 DEF TaskInv, Exact, OwnChildren
  <2>4. DoneClosure(t) \notin closures' /\ CleanupClosure(t) \notin closures'
    BY <1>1, <1>3, <2>2 DEF TaskInv
  <2>5. QED BY <1>1, <2>1, <2>2, <2>3, <2>4 DEF TaskInv, NotDone
<1>7. QED BY <1>2, <1>5, <1>6 DEF TInv

(* RunChildDoneCallback: what it finds in the parent, its CHECKs.          *)
LEMMA ParentWaits ==
  ASSUME TInv, NEW t \in Tasks, Parent[t] # NoTask, DoneClosure(t) \in closures
  PROVE  /\ Parent[t] \in Tasks /\ Parent[t] # t
         /\ t \in children[Parent[t]]
         /\ holds[Parent[t]] \in Nat /\ holds[Parent[t]] > 0
         /\ NotDone(Parent[t])
<1>0. TypeOK /\ \A u \in Tasks : TaskInv(u)
  BY DEF TInv
<1>1. PICK p \in Tasks : p = Parent[t] /\ p # t
  BY TaskAssumption
<1>2. TaskInv(t) /\ TaskInv(p)
  BY <1>0
<1>3. t \in children[p]
  BY <1>1, <1>2 DEF TaskInv, OwnChildren
<1>4. holds[p] \in Nat /\ holds[p] > 0 /\ NotDone(p)
  BY <1>3, HoldsOf
<1>5. QED BY <1>1, <1>3, <1>4

LEMMA RunChildDoneCallbackTInv ==
  ASSUME TInv, NEW t \in Tasks, Parent[t] # NoTask, RunDoneCallback(t)
  PROVE  TInv'
<1>p. PICK p \in Tasks : p = Parent[t]
  BY TaskAssumption
<1> DEFINE h == holds[p] - 1
           left == closures \ {DoneClosure(t)}
<1>0. TypeOK /\ CallInv /\ \A u \in Tasks : TaskInv(u)
  BY DEF TInv
<1>1. /\ DoneClosure(t) \in closures
      /\ finished' = finished \cup {t}
      /\ children' = [children EXCEPT ![p] = @ \ {t}]
      /\ TryDoneTransition(p, state[p], h, left)
      /\ UNCHANGED <<cancelled, cancelCbs, calls, userHolds, registered>>
  BY <1>p DEF RunDoneCallback
<1>2. /\ p \in Tasks /\ p # t /\ t \in children[p]
      /\ holds[p] \in Nat /\ holds[p] > 0 /\ NotDone(p)
  BY <1>1, <1>p, ParentWaits
<1>3. state[t] = "DONE" /\ CleanupClosure(t) \notin closures
  BY <1>0, <1>1 DEF TaskInv
<1>4. /\ CleanupClosure(p) \notin closures /\ DoneClosure(p) \notin closures
      /\ p \notin finished
  BY <1>0, <1>2 DEF TaskInv, NotDone
<1>5. /\ state' \in [Tasks -> {"none", "ACTIVE", "PREPARED", "DONE"}]
      /\ holds' \in [Tasks -> Nat]
      /\ closures' \subseteq Closure
      /\ holds'[p] = h
      /\ \A u \in Tasks \ {p} :
           /\ state'[u] = state[u] /\ holds'[u] = holds[u]
           /\ CleanupClosure(u) \in closures' <=> CleanupClosure(u) \in left
      /\ \A u \in Tasks : DoneClosure(u) \in closures' <=> DoneClosure(u) \in left
      /\ \A u \in Tasks, cb \in Callbacks :
           CancelClosure(u, cb) \in closures' <=> CancelClosure(u, cb) \in left
      /\ \/ /\ state[p] = "PREPARED" /\ h = 0 /\ state'[p] = "DONE"
            /\ CleanupClosure(p) \in closures'
         \/ /\ state[p] # "PREPARED" \/ h # 0
            /\ state'[p] = state[p] /\ CleanupClosure(p) \notin closures'
  <2>1. /\ left \in SUBSET Closure /\ CleanupClosure(p) \notin left
        /\ state[p] \in {"ACTIVE", "PREPARED"}
    BY <1>0, <1>2, <1>4 DEF TypeOK, NotDone
  <2>3. h \in Nat
    <3>1. holds[p] \in Nat /\ holds[p] > 0
      BY <1>2
    <3>2. QED BY <3>1, Less
  <2> HIDE DEF h, left
  <2>4. QED BY <1>0, <1>1, <1>2, <2>1, <2>3, Transition
<1>6. /\ \A u \in Tasks, cb \in Callbacks :
           CancelClosure(u, cb) \in left <=> CancelClosure(u, cb) \in closures
      /\ \A u \in Tasks :
           CleanupClosure(u) \in left <=> CleanupClosure(u) \in closures
      /\ \A u \in Tasks \ {t} :
           DoneClosure(u) \in left <=> DoneClosure(u) \in closures
      /\ DoneClosure(t) \notin left
  BY ClosuresDiffer
<1>7. /\ state'[p] # "none" /\ state[p] # "none"
      /\ children'[p] = children[p] \ {t}
      /\ \A u \in Tasks \ {p} : children'[u] = children[u]
  BY <1>0, <1>1, <1>2, <1>5 DEF TypeOK, NotDone
<1> HIDE DEF left
<1>8. TypeOK' /\ CallInv'
  <2>1. TypeOK'
    BY <1>0, <1>1, <1>2, <1>5 DEF TypeOK
  <2>2. \A u \in Tasks : state[u] # "none" => state'[u] # "none"
    BY <1>5, <1>7
  <2>3. QED BY <1>0, <1>1, <2>1, <2>2 DEF CallInv, TypeOK, Call
<1>9. ASSUME NEW u \in Tasks \ {p, t} PROVE TaskInv(u)'
  <2>1. \A c \in Tasks : Parent[c] = u =>
          /\ state'[c] = "none" <=> state[c] = "none"
          /\ c \in finished' <=> c \in finished
    BY <1>p, <1>1, <1>5, <1>7
  <2>2. QED BY <1>0, <1>1, <1>5, <1>6, <1>7, <2>1, Untouched
<1>10. TaskInv(t)'
  <2>1. PendingCancels(t)' = PendingCancels(t)
    BY <1>5, <1>6 DEF PendingCancels
  <2>2. /\ state'[t] = "DONE" /\ holds'[t] = holds[t] /\ children'[t] = children[t]
        /\ CleanupClosure(t) \notin closures' /\ DoneClosure(t) \notin closures'
    BY <1>2, <1>3, <1>5, <1>6, <1>7
  <2>3. \A c \in Tasks : Parent[c] = t =>
          /\ state'[c] = "none" <=> state[c] = "none"
          /\ c \in finished' <=> c \in finished
    BY <1>1, <1>5, <1>7, TaskAssumption
  <2>4. TaskInv(t)
    BY <1>0
  <2>5. Exact(t)' /\ OwnChildren(t)'
    BY <1>1, <2>1, <2>2, <2>3, <2>4 DEF TaskInv, Exact, OwnChildren
  <2>6. QED BY <1>1, <1>3, <2>1, <2>2, <2>4, <2>5 DEF TaskInv, NotDone
<1>11. TaskInv(p)'
  <2>1. children[p] \subseteq Tasks
    BY <1>0, <1>2 DEF TypeOK
  <2>2. /\ Cardinality(PendingCancels(p)) \in Nat
        /\ Cardinality(children[p]) \in Nat
        /\ Cardinality(children[p] \ {t}) = Cardinality(children[p]) - 1
    BY <1>2, <2>1, Counts DEF PendingCancels
  <2>3. /\ holds[p] = userHolds[p] + Cardinality(PendingCancels(p))
                                   + Cardinality(children[p])
        /\ userHolds[p] \in Nat
    BY <1>0, <1>2, TaskAssumption DEF TaskInv, Exact, TypeOK
  <2>4. PendingCancels(p)' = PendingCancels(p)
    BY <1>2, <1>5, <1>6 DEF PendingCancels
  <2>5. holds'[p] = holds[p] - 1 /\ children'[p] = children[p] \ {t}
    BY <1>5, <1>7
  <2> HIDE DEF h
  <2>6. holds'[p] = userHolds[p] + Cardinality(PendingCancels(p))
                                 + Cardinality(children'[p])
    <3>1. holds[p] - 1 = userHolds[p] + Cardinality(PendingCancels(p))
                           + (Cardinality(children[p]) - 1)
      BY <2>2, <2>3
    <3>2. QED BY <2>2, <2>5, <3>1
  <2>7. TaskInv(p)
    BY <1>0, <1>2
  <2>8. Exact(p)'
    BY <1>1, <2>4, <2>6 DEF Exact
  <2>9. OwnChildren(p)'
    <3>1. \A c \in Tasks : state'[c] = "none" <=> state[c] = "none"
      BY <1>5, <1>7
    <3>2. QED BY <1>1, <1>2, <2>5, <2>7, <3>1 DEF TaskInv, OwnChildren
  <2>10. DoneClosure(p) \notin closures' /\ p \notin finished'
    BY <1>1, <1>2, <1>4, <1>5, <1>6
  <2>11. ~NotDone(p)' => holds'[p] = 0
    BY <1>2, <1>5 DEF NotDone
  <2>12. state'[p] # "ACTIVE" \/ cancelled[p] => cancelCbs[p] = {}
    BY <1>5, <2>7 DEF TaskInv
  <2>13. CleanupClosure(p) \in closures' => state'[p] = "DONE"
    BY <1>5
  <2>14. QED
    BY <1>1, <2>4, <2>7, <2>8, <2>9, <2>10, <2>11, <2>12, <2>13 DEF TaskInv
<1>12. QED BY <1>8, <1>9, <1>10, <1>11 DEF TInv

LEMMA NextTInv == TInv /\ [Next]_vars => TInv'
<1>1. SUFFICES ASSUME TInv, [Next]_vars PROVE TInv'
  OBVIOUS
<1>0. TypeOK /\ CallInv /\ \A u \in Tasks : TaskInv(u)
  BY <1>1 DEF TInv
<1>2. ASSUME NEW t \in Tasks, Cancel(t) PROVE TInv'
  BY <1>1, <1>2, CancelTInv DEF Cancel
<1>3. ASSUME NEW call \in calls, CancelChild(call) PROVE TInv'
  <2>1. call.task \in Tasks /\ state[call.task] # "none"
    BY <1>0 DEF TypeOK, Call, CallInv
  <2>2. QED BY <1>1, <1>3, <2>1, CancelTInv DEF CancelChild
<1>4. ASSUME NEW t \in Tasks, RunDoneCallback(t) PROVE TInv'
  BY <1>1, <1>4, RunOwnDoneCallbackTInv, RunChildDoneCallbackTInv
<1>5. ASSUME NEW t \in Tasks, Use(t) PROVE TInv'
  BY <1>1, <1>2, <1>5, ReturnTInv, AddHoldTInv, RemoveHoldTInv, WhenCancelledTInv
     DEF Use
<1>6. ASSUME NEW t \in Tasks, Execute(t) PROVE TInv'
  BY <1>1, <1>4, <1>6, RunCancelCallbackTInv, RunCleanupTInv
     DEF Execute, RunCleanupAndDoneCallbacks
<1>7. ASSUME UNCHANGED vars PROVE TInv'
  <2>1. TypeOK' /\ CallInv'
    BY <1>0, <1>7 DEF vars, TypeOK, CallInv
  <2>2. \A u \in Tasks : TaskInv(u)'
    BY <1>0, <1>7, Untouched DEF vars
  <2>3. QED BY <2>1, <2>2 DEF TInv
<1>8. QED BY <1>1, <1>3, <1>5, <1>6, <1>7, AddChildTInv DEF Next

(* The members of every task agree with its closures, its children and     *)
(* what its users did, whatever the interleaving of the threads.           *)
THEOREM TaskSound == Spec => []TInv
<1>1. QED BY InitTInv, NextTInv, PTL DEF Spec

(* Every member of every task keeps its type.                              *)
THEOREM TaskTypeCorrect == Spec => []TypeOK
<1>1. TInv => TypeOK
  BY DEF TInv
<1>2. QED BY <1>1, TaskSound, PTL

(* holds_ is exact: it never drops below what still needs the task, so no  *)
(* CHECK of holds_ fails and no task is DONE early, and it returns to zero *)
(* when nothing does.                                                      *)
THEOREM HoldsAlwaysExact == Spec => []HoldsExact
<1>1. TInv => HoldsExact
  BY DEF TInv, TaskInv, Exact, HoldsExact
<1>2. QED BY <1>1, TaskSound, PTL

(* No callback is left when a task is DONE, and none runs on a task that   *)
(* its done callback may have deleted.                                     *)
THEOREM CallbacksAlwaysBeforeDone == Spec => []CallbacksBeforeDone
<1>1. TInv => CallbacksBeforeDone
  <2>1. SUFFICES ASSUME TInv PROVE CallbacksBeforeDone
    OBVIOUS
  <2>0. TypeOK /\ \A u \in Tasks : TaskInv(u)
    BY <2>1 DEF TInv
  <2>2. ASSUME NEW t \in Tasks, PendingCancels(t) # {} \/ userHolds[t] > 0
        PROVE  NotDone(t)
    BY <2>1, <2>2, HoldsOf
  <2>3. \A t \in Tasks : state[t] = "DONE" => cancelCbs[t] = {}
    BY <2>0 DEF TaskInv
  <2>4. \A t \in finished : state[t] = "DONE"
    BY <2>0 DEF TaskInv, TypeOK
  <2>5. ASSUME NEW closure \in closures PROVE closure.task \notin finished
    <3>1. CASE \E t \in Tasks, cb \in Callbacks : closure = CancelClosure(t, cb)
      <4>1. PICK t \in Tasks, cb \in Callbacks : closure = CancelClosure(t, cb)
        BY <3>1
      <4>2. cb \in PendingCancels(t) /\ closure.task = t
        BY <2>5, <4>1 DEF PendingCancels, CancelClosure
      <4>3. NotDone(t)
        BY <2>2, <4>2
      <4>4. QED BY <2>4, <4>2, <4>3 DEF NotDone
    <3>2. CASE \E t \in Tasks : closure = CleanupClosure(t)
      <4>1. PICK t \in Tasks : closure = CleanupClosure(t)
        BY <3>2
      <4>2. closure.task = t
        BY <4>1 DEF CleanupClosure
      <4>3. QED BY <2>0, <2>5, <4>1, <4>2 DEF TaskInv
    <3>3. CASE \E t \in Tasks : closure = DoneClosure(t)
      <4>1. PICK t \in Tasks : closure = DoneClosure(t)
        BY <3>3
      <4>2. closure.task = t
        BY <4>1 DEF DoneClosure
      <4>3. QED BY <2>0, <2>5, <4>1, <4>2 DEF TaskInv
    <3>4. QED BY <2>0, <2>5, <3>1, <3>2, <3>3 DEF TypeOK, Closure
  <2>6. QED BY <2>2, <2>3, <2>4, <2>5 DEF CallbacksBeforeDone
<1>2. QED BY <1>1, TaskSound, PTL

=============================================================================
