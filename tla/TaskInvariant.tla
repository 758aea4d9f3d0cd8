--------------------------- MODULE TaskInvariant ----------------------------
(***************************************************************************)
(* The inductive invariant of Task, for any finite tree of tasks, any      *)
(* callbacks and any number of holds, with the lemmas about it and the     *)
(* proof that Cancel, Return and the methods around holds preserve it.     *)
(***************************************************************************)
EXTENDS Task, FiniteSetTheorems, TLAPS

(* holds_ is what still needs the task.                                    *)
Exact(t) == holds[t] = userHolds[t] + Cardinality(PendingCancels(t))
                                    + Cardinality(children[t])

(* child_tasks_ has the children that exist and have not finished.         *)
OwnChildren(t) ==
  \A c \in Tasks :
    c \in children[t] <=> Parent[c] = t /\ state[c] # "none" /\ c \notin finished

(* What links the members of one task to its closures, its children and    *)
(* what its users have done.                                               *)
TaskInv(t) ==
  /\ Exact(t)
  /\ OwnChildren(t)
  /\ ~NotDone(t) => holds[t] = 0
  /\ state[t] # "ACTIVE" \/ cancelled[t] => cancelCbs[t] = {}
  /\ ~cancelled[t] => PendingCancels(t) = {}
  /\ PendingCancels(t) \cup cancelCbs[t] \subseteq registered[t]
  /\ CleanupClosure(t) \in closures \/ DoneClosure(t) \in closures
       => state[t] = "DONE" /\ t \notin finished
  /\ CleanupClosure(t) \in closures => DoneClosure(t) \notin closures
  /\ t \in finished => state[t] = "DONE"

CallInv == \A call \in calls : state[call.task] # "none"

TInv == TypeOK /\ CallInv /\ \A t \in Tasks : TaskInv(t)

-----------------------------------------------------------------------------
(* Closures of different kinds, tasks or callbacks are different.          *)
LEMMA ClosuresDiffer ==
  ASSUME NEW t, NEW u, NEW cb, NEW d
  PROVE  /\ CancelClosure(t, cb) = CancelClosure(u, d) <=> t = u /\ cb = d
         /\ CleanupClosure(t) = CleanupClosure(u) <=> t = u
         /\ DoneClosure(t) = DoneClosure(u) <=> t = u
         /\ CancelClosure(t, cb) # CleanupClosure(u)
         /\ CancelClosure(t, cb) # DoneClosure(u)
         /\ CleanupClosure(t) # DoneClosure(u)
<1>1. CancelClosure(t, cb) = CancelClosure(u, d) => t = u /\ cb = d
  <2>1. SUFFICES ASSUME CancelClosure(t, cb) = CancelClosure(u, d)
                 PROVE  t = u /\ {cb} = {d}
    OBVIOUS
  <2>2. CancelClosure(t, cb).task = t /\ CancelClosure(u, d).task = u
    BY DEF CancelClosure
  <2>3. CancelClosure(t, cb).cb = {cb} /\ CancelClosure(u, d).cb = {d}
    BY DEF CancelClosure
  <2>4. QED BY <2>1, <2>2, <2>3
<1>2. CleanupClosure(t) = CleanupClosure(u) <=> t = u
  BY DEF CleanupClosure
<1>3. DoneClosure(t) = DoneClosure(u) <=> t = u
  BY DEF DoneClosure
<1>4. /\ CancelClosure(t, cb) # CleanupClosure(u)
      /\ CancelClosure(t, cb) # DoneClosure(u)
      /\ CleanupClosure(t) # DoneClosure(u)
  BY DEF CancelClosure, CleanupClosure, DoneClosure
<1>5. QED BY <1>1, <1>2, <1>3, <1>4

(* The sets that holds_ counts are finite, and so have a size.             *)
LEMMA Counts ==
  ASSUME NEW S, S \subseteq Tasks \/ S \subseteq Callbacks
  PROVE  /\ IsFiniteSet(S)
         /\ Cardinality(S) \in Nat
         /\ Cardinality(S) = 0 <=> S = {}
         /\ \A x : x \notin S => Cardinality(S \cup {x}) = Cardinality(S) + 1
         /\ \A x \in S : /\ Cardinality(S \ {x}) = Cardinality(S) - 1
                         /\ Cardinality(S) > 0
<1>1. IsFiniteSet(S)
  BY FS_Subset, TaskAssumption
<1>2. Cardinality(S) \in Nat /\ (Cardinality(S) = 0 <=> S = {})
  BY <1>1, FS_CardinalityType, FS_EmptySet
<1>3. \A x : x \notin S => Cardinality(S \cup {x}) = Cardinality(S) + 1
  BY <1>1, FS_AddElement
<1>4. \A x \in S : Cardinality(S \ {x}) = Cardinality(S) - 1
  BY <1>1, FS_RemoveElement
<1>5. QED BY <1>1, <1>2, <1>3, <1>4

(* What TryDoneTransition leaves alone, and when it takes the task to DONE. *)
LEMMA Transition ==
  ASSUME TypeOK, NEW t \in Tasks, NEW s \in {"ACTIVE", "PREPARED"},
         NEW h \in Nat, NEW left \in SUBSET Closure,
         TryDoneTransition(t, s, h, left), CleanupClosure(t) \notin left
  PROVE  /\ state' \in [Tasks -> {"none", "ACTIVE", "PREPARED", "DONE"}]
         /\ holds' \in [Tasks -> Nat]
         /\ closures' \subseteq Closure
         /\ holds'[t] = h
         /\ \A u \in Tasks \ {t} :
              /\ state'[u] = state[u] /\ holds'[u] = holds[u]
              /\ CleanupClosure(u) \in closures' <=> CleanupClosure(u) \in left
         /\ \A u \in Tasks : DoneClosure(u) \in closures' <=> DoneClosure(u) \in left
         /\ \A u \in Tasks, cb \in Callbacks :
              CancelClosure(u, cb) \in closures' <=> CancelClosure(u, cb) \in left
         /\ \/ /\ s = "PREPARED" /\ h = 0 /\ state'[t] = "DONE"
               /\ CleanupClosure(t) \in closures'
            \/ /\ s # "PREPARED" \/ h # 0
               /\ state'[t] = s /\ CleanupClosure(t) \notin closures'
<1>1. CASE s = "PREPARED" /\ h = 0
  <2>1. /\ state' = [state EXCEPT ![t] = "DONE"]
        /\ holds' = [holds EXCEPT ![t] = h]
        /\ closures' = left \cup {CleanupClosure(t)}
    BY <1>1 DEF TryDoneTransition
  <2>2. CleanupClosure(t) \in Closure
    BY DEF Closure
  <2>3. QED BY <1>1, <2>1, <2>2, ClosuresDiffer DEF TypeOK
<1>2. CASE s # "PREPARED" \/ h # 0
  <2>1. /\ state' = [state EXCEPT ![t] = s]
        /\ holds' = [holds EXCEPT ![t] = h]
        /\ closures' = left
    BY <1>2 DEF TryDoneTransition
  <2>2. QED BY <1>2, <2>1 DEF TypeOK
<1>3. QED BY <1>1, <1>2

(* A task that a step does not touch keeps its invariant.                  *)
LEMMA Untouched ==
  ASSUME NEW u \in Tasks, TaskInv(u),
         state'[u] = state[u], cancelled'[u] = cancelled[u],
         holds'[u] = holds[u], children'[u] = children[u],
         cancelCbs'[u] = cancelCbs[u], userHolds'[u] = userHolds[u],
         registered'[u] = registered[u],
         \A cb \in Callbacks :
           CancelClosure(u, cb) \in closures' <=> CancelClosure(u, cb) \in closures,
         CleanupClosure(u) \in closures' <=> CleanupClosure(u) \in closures,
         DoneClosure(u) \in closures' <=> DoneClosure(u) \in closures,
         u \in finished' <=> u \in finished,
         \A c \in Tasks : Parent[c] = u =>
           /\ state'[c] = "none" <=> state[c] = "none"
           /\ c \in finished' <=> c \in finished
  PROVE  TaskInv(u)'
<1>1. PendingCancels(u)' = PendingCancels(u)
  BY DEF PendingCancels
<1>2. Exact(u)' /\ OwnChildren(u)'
  BY <1>1 DEF TaskInv, Exact, OwnChildren
<1>3. QED BY <1>1, <1>2 DEF TaskInv, NotDone

(* One hold less.                                                          *)
LEMMA Less ==
  ASSUME NEW n \in Nat PROVE (n > 0 => n - 1 \in Nat) /\ (n - 1 = 0 => n = 1)
OBVIOUS

(* What the exact count says when there are few holds.                     *)
LEMMA Sum ==
  ASSUME NEW h \in Nat, NEW a \in Nat, NEW b \in Nat, NEW c \in Nat, h = a + b + c
  PROVE  /\ a > 0 \/ b # 0 \/ c # 0 => h > 0
         /\ h = 0 => c = 0
         /\ h = 1 /\ (a > 0 \/ b # 0) => c = 0
         /\ h = 1 => c - 1 = 0 \/ c = 0
OBVIOUS

LEMMA HoldsOf ==
  ASSUME TInv, NEW t \in Tasks
  PROVE  /\ holds[t] \in Nat /\ userHolds[t] \in Nat
         /\ userHolds[t] > 0 \/ PendingCancels(t) # {} \/ children[t] # {}
              => holds[t] > 0 /\ NotDone(t)
         /\ holds[t] = 0 => children[t] = {}
         /\ holds[t] = 1 /\ (userHolds[t] > 0 \/ PendingCancels(t) # {})
              => children[t] = {}
         /\ holds[t] = 1 => \A c \in children[t] : children[t] \subseteq {c}
<1>0. TypeOK /\ TaskInv(t)
  BY DEF TInv
<1>1. /\ holds[t] \in Nat /\ userHolds[t] \in Nat
      /\ PendingCancels(t) \subseteq Callbacks /\ children[t] \subseteq Tasks
  BY <1>0, TaskAssumption DEF TypeOK, PendingCancels
<1>2. /\ Cardinality(PendingCancels(t)) \in Nat
      /\ Cardinality(PendingCancels(t)) = 0 <=> PendingCancels(t) = {}
      /\ Cardinality(children[t]) \in Nat
      /\ Cardinality(children[t]) = 0 <=> children[t] = {}
  BY <1>1, Counts
<1>3. \A c \in children[t] :
        Cardinality(children[t]) - 1 = 0 => children[t] \subseteq {c}
  <2>1. SUFFICES ASSUME NEW c \in children[t], Cardinality(children[t]) - 1 = 0
                 PROVE  children[t] \ {c} = {}
    OBVIOUS
  <2>2. Cardinality(children[t] \ {c}) = Cardinality(children[t]) - 1
    BY <1>1, Counts
  <2>3. children[t] \ {c} \subseteq Tasks
    BY <1>1
  <2>4. QED BY <2>1, <2>2, <2>3, Counts
<1>4. holds[t] = userHolds[t] + Cardinality(PendingCancels(t))
                              + Cardinality(children[t])
  BY <1>0 DEF TaskInv, Exact
<1>5. /\ userHolds[t] > 0 => holds[t] > 0
      /\ Cardinality(PendingCancels(t)) # 0 => holds[t] > 0
      /\ Cardinality(children[t]) # 0 => holds[t] > 0
      /\ holds[t] = 0 => Cardinality(children[t]) = 0
      /\ holds[t] = 1 /\ (userHolds[t] > 0 \/ Cardinality(PendingCancels(t)) # 0)
           => Cardinality(children[t]) = 0
      /\ holds[t] = 1 => \/ Cardinality(children[t]) - 1 = 0
                         \/ Cardinality(children[t]) = 0
  BY <1>1, <1>2, <1>4, Sum
<1>6. holds[t] > 0 => NotDone(t)
  <2>1. ~NotDone(t) => holds[t] = 0
    BY <1>0 DEF TaskInv
  <2>2. QED BY <2>1
<1>7. QED BY <1>1, <1>2, <1>3, <1>5, <1>6

-----------------------------------------------------------------------------
LEMMA InitTInv == Init => TInv
<1>1. SUFFICES ASSUME Init PROVE TInv
  OBVIOUS
<1>2. TypeOK /\ CallInv
  BY <1>1, TaskAssumption DEF Init, TypeOK, CallInv
<1>3. ASSUME NEW t \in Tasks PROVE TaskInv(t)
  <2>1. PendingCancels(t) = {} /\ children[t] = {} /\ Cardinality({}) = 0
    BY <1>1, FS_EmptySet DEF Init, PendingCancels
  <2>2. \A c \in Tasks : Parent[c] = t => state[c] = "none"
    BY <1>1, TaskAssumption DEF Init
  <2>3. Exact(t) /\ OwnChildren(t)
    BY <1>1, <2>1, <2>2 DEF Init, Exact, OwnChildren
  <2>4. QED BY <1>1, <2>1, <2>3 DEF Init, TaskInv, NotDone
<1>4. QED BY <1>2, <1>3 DEF TInv

(* Cancel(), of the user or of the parent, on a task that exists.          *)
LEMMA CancelTInv ==
  ASSUME TInv, NEW t \in Tasks, state[t] # "none", NEW left \in SUBSET calls,
         CancelTask(t, left), UNCHANGED <<state, children, history>>
  PROVE  TInv'
<1>0. TypeOK /\ CallInv /\ \A u \in Tasks : TaskInv(u)
  BY DEF TInv
<1>1. CASE calls' = left /\ UNCHANGED <<cancelled, holds, cancelCbs, closures>>
  <2>1. TypeOK' /\ CallInv'
    BY <1>0, <1>1 DEF TypeOK, CallInv, history
  <2>2. \A u \in Tasks : TaskInv(u)'
    BY <1>0, <1>1, Untouched DEF history
  <2>3. QED BY <2>1, <2>2 DEF TInv
<1>2. CASE /\ state[t] # "DONE" /\ ~cancelled[t]
           /\ cancelled' = [cancelled EXCEPT ![t] = TRUE]
           /\ cancelCbs' = [cancelCbs EXCEPT ![t] = {}]
           /\ holds' = [holds EXCEPT ![t] = @ + Cardinality(cancelCbs[t])]
           /\ closures' = closures \cup {CancelClosure(t, cb) : cb \in cancelCbs[t]}
           /\ calls' = left \cup CancelAll("Cancel", children[t])
  <2>1. cancelCbs[t] \subseteq Callbacks /\ Cardinality(cancelCbs[t]) \in Nat
    BY <1>0, Counts DEF TypeOK
  <2>2. children[t] \subseteq Tasks /\ Cardinality(children[t]) \in Nat
    BY <1>0, Counts DEF TypeOK
  <2>3. closures' \subseteq Closure
    BY <1>0, <1>2, <2>1 DEF TypeOK, Closure
  <2>4. TypeOK'
    <3>1. calls' \subseteq Call
      BY <1>0, <1>2, <2>2 DEF TypeOK, Call, CancelAll
    <3>2. QED BY <1>0, <1>2, <2>1, <2>3, <3>1 DEF TypeOK, history
  <2>5. CallInv'
    <3>1. \A c \in children[t] : state[c] # "none"
      BY <1>0, <2>2 DEF TaskInv, OwnChildren
    <3>2. QED BY <1>0, <1>2, <3>1 DEF CallInv, CancelAll
  <2>6. /\ \A u \in Tasks, cb \in Callbacks :
             CancelClosure(u, cb) \in closures'
               <=> \/ CancelClosure(u, cb) \in closures
                   \/ u = t /\ cb \in cancelCbs[t]
        /\ \A u \in Tasks :
             /\ CleanupClosure(u) \in closures' <=> CleanupClosure(u) \in closures
             /\ DoneClosure(u) \in closures' <=> DoneClosure(u) \in closures
    BY <1>2, ClosuresDiffer
  <2>7. ASSUME NEW u \in Tasks PROVE TaskInv(u)'
    <3>1. CASE u # t
      <4>1. /\ cancelled'[u] = cancelled[u] /\ holds'[u] = holds[u]
            /\ cancelCbs'[u] = cancelCbs[u]
        BY <1>0, <1>2, <3>1 DEF TypeOK
      <4>2. QED BY <1>0, <2>6, <3>1, <4>1, Untouched DEF history
    <3>2. CASE u = t
      <4>1. PendingCancels(t) = {} /\ Cardinality({}) = 0
        BY <1>0, <1>2, FS_EmptySet DEF TaskInv
      <4>2. PendingCancels(t)' = cancelCbs[t]
        BY <2>1, <2>6, <4>1 DEF PendingCancels
      <4>3. /\ holds'[t] = holds[t] + Cardinality(cancelCbs[t])
            /\ cancelled'[t] /\ cancelCbs'[t] = {} /\ NotDone(t)
            /\ holds[t] \in Nat /\ userHolds[t] \in Nat
        BY <1>0, <1>2, TaskAssumption DEF TypeOK, NotDone
      <4>4. holds'[t] = userHolds'[t] + Cardinality(PendingCancels(t)')
                                      + Cardinality(children'[t])
        <5>1. holds[t] = userHolds[t] + 0 + Cardinality(children[t])
          BY <1>0, <4>1 DEF TaskInv, Exact
        <5>2. userHolds'[t] = userHolds[t] /\ children'[t] = children[t]
          BY DEF history
        <5>3. QED BY <2>1, <2>2, <4>2, <4>3, <5>1, <5>2
      <4>5. PendingCancels(t)' \cup cancelCbs'[t] \subseteq registered'[t]
        BY <1>0, <4>2, <4>3 DEF TaskInv, history
      <4>6. Exact(t)' /\ OwnChildren(t)'
        BY <1>0, <4>4 DEF TaskInv, Exact, OwnChildren, history
      <4>7. TaskInv(t)
        BY <1>0
      <4>8. QED BY <2>6, <3>2, <4>3, <4>5, <4>6, <4>7 DEF TaskInv, NotDone, history
    <3>3. QED BY <3>1, <3>2
  <2>8. QED BY <2>4, <2>5, <2>7 DEF TInv
<1>3. QED BY <1>1, <1>2 DEF CancelTask

(* A set of closures that lacks at most cancellation callbacks of t.       *)
OnlyCancelsGone(t, left) ==
  /\ \A u \in Tasks :
       /\ CleanupClosure(u) \in left <=> CleanupClosure(u) \in closures
       /\ DoneClosure(u) \in left <=> DoneClosure(u) \in closures
  /\ \A u \in Tasks \ {t}, cb \in Callbacks :
       CancelClosure(u, cb) \in left <=> CancelClosure(u, cb) \in closures

(* The methods that change one task and then try the transition to DONE:   *)
(* it is enough that they keep the count of the holds exact.               *)
LEMMA TransitionTInv ==
  ASSUME TInv, NEW t \in Tasks, NotDone(t),
         NEW s \in {"ACTIVE", "PREPARED"}, s = state[t] \/ s = "PREPARED",
         NEW h \in Nat, NEW left \in SUBSET closures,
         TryDoneTransition(t, s, h, left),
         NEW n \in 0..MaxHolds, userHolds' = [userHolds EXCEPT ![t] = n],
         NEW C \in SUBSET cancelCbs[t], cancelCbs' = [cancelCbs EXCEPT ![t] = C],
         s # "ACTIVE" => C = {},
         h = n + Cardinality(PendingCancels(t)') + Cardinality(children[t]),
         OnlyCancelsGone(t, left),
         calls' \subseteq Call, CallInv',
         UNCHANGED <<cancelled, children, registered, finished>>
  PROVE  TInv'
<1>0. TypeOK /\ CallInv /\ \A u \in Tasks : TaskInv(u)
  BY DEF TInv
<1>1. CleanupClosure(t) \notin left /\ left \in SUBSET Closure
  BY <1>0 DEF TaskInv, NotDone, TypeOK
<1>2. /\ state' \in [Tasks -> {"none", "ACTIVE", "PREPARED", "DONE"}]
      /\ holds' \in [Tasks -> Nat]
      /\ closures' \subseteq Closure
      /\ holds'[t] = h
      /\ \A u \in Tasks \ {t} :
           /\ state'[u] = state[u] /\ holds'[u] = holds[u]
           /\ CleanupClosure(u) \in closures' <=> CleanupClosure(u) \in left
      /\ \A u \in Tasks : DoneClosure(u) \in closures' <=> DoneClosure(u) \in left
      /\ \A u \in Tasks, cb \in Callbacks :
           CancelClosure(u, cb) \in closures' <=> CancelClosure(u, cb) \in left
      /\ \/ /\ s = "PREPARED" /\ h = 0 /\ state'[t] = "DONE"
            /\ CleanupClosure(t) \in closures'
         \/ /\ s # "PREPARED" \/ h # 0
            /\ state'[t] = s /\ CleanupClosure(t) \notin closures'
  BY <1>0, <1>1, Transition
<1>3. TypeOK'
  BY <1>0, <1>2 DEF TypeOK
<1>4. state[t] # "none" /\ state'[t] # "none" /\ t \notin finished
  BY <1>0, <1>2 DEF NotDone, TaskInv
<1>5. ASSUME NEW u \in Tasks \ {t} PROVE TaskInv(u)'
  <2>1. cancelCbs'[u] = cancelCbs[u] /\ userHolds'[u] = userHolds[u]
    BY <1>0 DEF TypeOK
  <2>2. QED BY <1>0, <1>2, <1>4, <2>1, Untouched DEF OnlyCancelsGone
<1>6. TaskInv(t)'
  <2>1. cancelCbs'[t] = C /\ userHolds'[t] = n
    BY <1>0 DEF TypeOK
  <2>2. PendingCancels(t)' \subseteq PendingCancels(t)
    BY <1>2 DEF PendingCancels
  <2>0. TaskInv(t)
    BY <1>0
  <2>3. OwnChildren(t)'
    <3>1. \A c \in Tasks : state'[c] = "none" <=> state[c] = "none"
      BY <1>2, <1>4
    <3>2. QED BY <2>0, <3>1 DEF TaskInv, OwnChildren
  <2>4. DoneClosure(t) \notin closures'
    BY <2>0, <1>2 DEF TaskInv, NotDone, OnlyCancelsGone
  <2>5. ~NotDone(t)' => holds'[t] = 0
    BY <1>2 DEF NotDone
  <2>6. state'[t] # "ACTIVE" \/ cancelled'[t] => cancelCbs'[t] = {}
    BY <2>0, <1>2, <2>1 DEF TaskInv
  <2>7. /\ ~cancelled'[t] => PendingCancels(t)' = {}
        /\ PendingCancels(t)' \cup cancelCbs'[t] \subseteq registered'[t]
    BY <2>0, <2>1, <2>2 DEF TaskInv
  <2>8. CleanupClosure(t) \in closures' => state'[t] = "DONE"
    BY <1>2
  <2>9. Exact(t)'
    BY <1>2, <2>1 DEF Exact
  <2>10. QED BY <1>4, <2>3, <2>4, <2>5, <2>6, <2>7, <2>8, <2>9 DEF TaskInv
<1>7. QED BY <1>3, <1>5, <1>6 DEF TInv

LEMMA ReturnTInv == ASSUME TInv, NEW t \in Tasks, Return(t) PROVE TInv'
<1>0. TypeOK /\ CallInv /\ \A u \in Tasks : TaskInv(u)
  BY DEF TInv
<1>1. /\ state[t] = "ACTIVE" /\ NotDone(t) /\ holds[t] \in Nat
      /\ userHolds[t] \in 0..MaxHolds
      /\ userHolds' = [userHolds EXCEPT ![t] = userHolds[t]]
      /\ CleanupClosure(t) \notin closures /\ closures \subseteq Closure
  BY <1>0 DEF Return, NotDone, TypeOK, TaskInv, history
<1>2. children[t] \subseteq Tasks /\ \A c \in children[t] : state[c] # "none"
  BY <1>0 DEF TypeOK, TaskInv, OwnChildren
<1>3. calls' \subseteq Call
  <2>1. calls \subseteq Call /\ CancelAll("Return", children[t]) \subseteq Call
    BY <1>0, <1>2 DEF CancelAll, TypeOK, Call
  <2>2. QED BY <2>1 DEF Return
<1>4. /\ \A u \in Tasks : state'[u] = "none" <=> state[u] = "none"
      /\ \A cb \in Callbacks :
           CancelClosure(t, cb) \in closures' <=> CancelClosure(t, cb) \in closures
  BY <1>0, <1>1, Transition DEF Return
<1>5. CallInv'
  BY <1>0, <1>2, <1>3, <1>4 DEF Return, CancelAll, CallInv, Call
<1>6. PendingCancels(t)' = PendingCancels(t)
  BY <1>4 DEF PendingCancels
<1>7. holds[t] = userHolds[t] + Cardinality(PendingCancels(t)')
                               + Cardinality(children[t])
  BY <1>0, <1>6 DEF TaskInv, Exact
<1>8. OnlyCancelsGone(t, closures)
  BY DEF OnlyCancelsGone
<1>9. QED BY <1>1, <1>3, <1>5, <1>7, <1>8, TransitionTInv DEF Return, history

LEMMA AddHoldTInv == ASSUME TInv, NEW t \in Tasks, AddHold(t) PROVE TInv'
<1>0. TypeOK /\ CallInv /\ \A u \in Tasks : TaskInv(u)
  BY DEF TInv
<1>1. TypeOK' /\ CallInv'
  BY <1>0, TaskAssumption DEF AddHold, TypeOK, CallInv
<1>2. ASSUME NEW u \in Tasks PROVE TaskInv(u)'
  <2>1. CASE u # t
    <3>1. holds'[u] = holds[u] /\ userHolds'[u] = userHolds[u]
      BY <1>0, <2>1 DEF AddHold, TypeOK
    <3>2. QED BY <1>0, <3>1, Untouched DEF AddHold
  <2>2. CASE u = t
    <3>1. PendingCancels(t)' = PendingCancels(t)
      BY DEF AddHold, PendingCancels
    <3>2. /\ holds'[t] = holds[t] + 1 /\ userHolds'[t] = userHolds[t] + 1
          /\ holds[t] \in Nat /\ userHolds[t] \in Nat /\ NotDone(t)
      BY <1>0, TaskAssumption DEF AddHold, TypeOK
    <3>3. /\ Cardinality(PendingCancels(t)) \in Nat
          /\ Cardinality(children[t]) \in Nat
      BY <1>0, Counts DEF TypeOK, PendingCancels
    <3>4. holds[t] = userHolds[t] + Cardinality(PendingCancels(t))
                                  + Cardinality(children[t])
      BY <1>0 DEF TaskInv, Exact
    <3>5. holds'[t] = userHolds'[t] + Cardinality(PendingCancels(t))
                                    + Cardinality(children[t])
      BY <3>2, <3>3, <3>4
    <3>6. TaskInv(t)
      BY <1>0
    <3>7. Exact(t)' /\ OwnChildren(t)'
      BY <3>1, <3>5, <3>6 DEF AddHold, TaskInv, Exact, OwnChildren
    <3>8. QED BY <2>2, <3>1, <3>2, <3>6, <3>7 DEF AddHold, TaskInv, NotDone
  <2>3. QED BY <2>1, <2>2
<1>3. QED BY <1>1, <1>2 DEF TInv

LEMMA RemoveHoldTInv == ASSUME TInv, NEW t \in Tasks, RemoveHold(t) PROVE TInv'
<1>0. TypeOK /\ CallInv /\ \A u \in Tasks : TaskInv(u)
  BY DEF TInv
<1>1. /\ Cardinality(PendingCancels(t)) \in Nat
      /\ Cardinality(children[t]) \in Nat
  BY <1>0, Counts DEF TypeOK, PendingCancels
<1>2. /\ userHolds[t] \in 0..MaxHolds /\ userHolds[t] > 0 /\ holds[t] \in Nat
      /\ cancelCbs' = [cancelCbs EXCEPT ![t] = cancelCbs[t]]
      /\ closures \subseteq Closure
  BY <1>0 DEF RemoveHold, TypeOK
<1>3. holds[t] = userHolds[t] + Cardinality(PendingCancels(t))
                              + Cardinality(children[t])
  BY <1>0 DEF TaskInv, Exact
<1>4. holds[t] - 1 \in Nat /\ holds[t] > 0 /\ userHolds[t] - 1 \in 0..MaxHolds
  BY <1>1, <1>2, <1>3, TaskAssumption
<1>5. NotDone(t) /\ CleanupClosure(t) \notin closures
  BY <1>0, <1>4 DEF TaskInv, NotDone
<1>6. /\ \A u \in Tasks : state'[u] = "none" <=> state[u] = "none"
      /\ \A cb \in Callbacks :
           CancelClosure(t, cb) \in closures' <=> CancelClosure(t, cb) \in closures
  BY <1>0, <1>2, <1>4, <1>5, Transition DEF RemoveHold, NotDone
<1>7. CallInv' /\ calls' \subseteq Call
  BY <1>0, <1>6 DEF RemoveHold, CallInv, TypeOK, Call
<1>8. PendingCancels(t)' = PendingCancels(t)
  BY <1>6 DEF PendingCancels
<1>9. holds[t] - 1 = (userHolds[t] - 1) + Cardinality(PendingCancels(t)')
                                        + Cardinality(children[t])
  BY <1>1, <1>2, <1>3, <1>8
<1>10. state[t] # "ACTIVE" => cancelCbs[t] = {}
  BY <1>0 DEF TaskInv
<1>11. /\ state[t] \in {"ACTIVE", "PREPARED"}
       /\ TryDoneTransition(t, state[t], holds[t] - 1, closures)
       /\ userHolds' = [userHolds EXCEPT ![t] = userHolds[t] - 1]
       /\ UNCHANGED <<cancelled, children, registered, finished>>
  BY <1>5 DEF RemoveHold, NotDone
<1>12. OnlyCancelsGone(t, closures)
  BY DEF OnlyCancelsGone
<1>13. QED
  BY <1>2, <1>4, <1>5, <1>7, <1>9, <1>10, <1>11, <1>12, TransitionTInv

LEMMA RunCancelCallbackTInv ==
  ASSUME TInv, NEW t \in Tasks, NEW cb \in Callbacks, RunCancelCallback(t, cb)
  PROVE  TInv'
<1> DEFINE left == closures \ {CancelClosure(t, cb)}
<1>0. TypeOK /\ CallInv /\ \A u \in Tasks : TaskInv(u)
  BY DEF TInv
<1>1. cb \in PendingCancels(t) /\ PendingCancels(t) \subseteq Callbacks
  BY DEF RunCancelCallback, PendingCancels
<1>2. /\ Cardinality(PendingCancels(t)) \in Nat
      /\ Cardinality(PendingCancels(t)) > 0
      /\ Cardinality(PendingCancels(t) \ {cb}) = Cardinality(PendingCancels(t)) - 1
      /\ Cardinality(children[t]) \in Nat
  BY <1>0, <1>1, Counts DEF TypeOK
<1>3. /\ userHolds[t] \in 0..MaxHolds /\ holds[t] \in Nat
      /\ cancelCbs' = [cancelCbs EXCEPT ![t] = cancelCbs[t]]
      /\ userHolds' = [userHolds EXCEPT ![t] = userHolds[t]]
      /\ left \subseteq Closure
  BY <1>0 DEF RunCancelCallback, TypeOK, history
<1>4. holds[t] = userHolds[t] + Cardinality(PendingCancels(t))
                              + Cardinality(children[t])
  BY <1>0 DEF TaskInv, Exact
<1>5. holds[t] - 1 \in Nat /\ holds[t] > 0
  BY <1>2, <1>3, <1>4
<1>6. NotDone(t) /\ CleanupClosure(t) \notin left
  BY <1>0, <1>5 DEF TaskInv, NotDone
<1>7. TryDoneTransition(t, state[t], holds[t] - 1, left)
  BY DEF RunCancelCallback
<1>8. /\ \A u \in Tasks : state'[u] = "none" <=> state[u] = "none"
      /\ \A d \in Callbacks :
           CancelClosure(t, d) \in closures' <=> CancelClosure(t, d) \in left
  BY <1>0, <1>3, <1>5, <1>6, <1>7, Transition DEF NotDone
<1>9. CallInv' /\ calls' \subseteq Call
  BY <1>0, <1>8 DEF RunCancelCallback, CallInv, TypeOK, Call
<1>10. OnlyCancelsGone(t, left)
  BY ClosuresDiffer DEF OnlyCancelsGone
<1>11. PendingCancels(t)' = PendingCancels(t) \ {cb}
  <2>1. \A d \in Callbacks : CancelClosure(t, d) \in left
          <=> CancelClosure(t, d) \in closures /\ d # cb
    BY ClosuresDiffer
  <2> HIDE DEF left
  <2>2. QED BY <1>8, <2>1 DEF PendingCancels
<1>12. holds[t] - 1 = userHolds[t] + Cardinality(PendingCancels(t)')
                                   + Cardinality(children[t])
  BY <1>2, <1>3, <1>4, <1>11
<1>13. state[t] # "ACTIVE" => cancelCbs[t] = {}
  BY <1>0 DEF TaskInv
<1>14. /\ state[t] \in {"ACTIVE", "PREPARED"}
       /\ UNCHANGED <<cancelled, children, registered, finished>>
       /\ cancelCbs[t] \in SUBSET cancelCbs[t]
  BY <1>6 DEF RunCancelCallback, NotDone, history
<1>15. left \in SUBSET closures
  OBVIOUS
<1> HIDE DEF left
<1>16. QED
  BY <1>3, <1>5, <1>6, <1>7, <1>9, <1>10, <1>12, <1>13, <1>14, <1>15, TransitionTInv

=============================================================================
