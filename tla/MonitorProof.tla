---------------------------- MODULE MonitorProof ----------------------------
(***************************************************************************)
(* Proofs about the monitor, for every set of trees and tree heads, any    *)
(* number of faults and scans, with and without torn writes.               *)
(***************************************************************************)
EXTENDS Monitor, TLAPS

(* The bound on the unverified tree: nothing beyond the pending STH has    *)
(* been fetched, and nothing beyond the verified one if none is pending.   *)
Bound(s) == IF s.psth # NoSTH THEN TreeSize(s.psth) ELSE TreeSize(s.vsth)

(* What holds of the state in memory and of the one in the file.  A write  *)
(* that fails while the pending STH is promoted leaves the tree of the     *)
(* pending STH as the verified tree.                                       *)
Sound(s) ==
  /\ Ahead(s)
  /\ \/ s.vtree \in {Empty, Root(s.vsth)}
     \/ s.psth # NoSTH /\ s.vtree = Root(s.psth)
  /\ Size(s.utree) <= Bound(s)

(* What holds at each place of an update.                                  *)
Control ==
  /\ pc \in {"get_sth", "check_sth"} => mem.psth = NoSTH
  /\ pc = "check_sth" => cand \in STHs
  /\ pc \in {"fetch", "verify"} => mem.psth # NoSTH
  /\ pc = "fetch" => Size(ctree) <= TreeSize(mem.psth)
  /\ pc = "verify" => Size(ctree) = TreeSize(mem.psth)
  /\ \A i \in 1..MaxScans : scans[i].live => pc = "fetch"
  /\ \A i, j \in 1..MaxScans : scans[i].live /\ scans[j].live => i = j

IInv ==
  /\ TypeOK
  /\ Sound(mem)
  /\ Sound(file.state)
  /\ Control

-----------------------------------------------------------------------------
(* Tree heads: an unset one counts as the empty tree.                      *)
LEMMA SthFacts ==
  /\ NoSTH \notin STHs
  /\ Root(NoSTH) = Empty /\ TreeSize(NoSTH) = 0 /\ NoSTH.ts = 0
  /\ NoSTH.root = NoRoot
  /\ \A s \in STHs : /\ s.ts \in Nat /\ s.root \in Tree
                     /\ Root(s) = s.root /\ TreeSize(s) = Size(s.root)
                     /\ TreeSize(s) \in Nat
BY TreeAssumption, MonitorAssumption DEF NoSTH, STH, Root, TreeSize

LEMMA RootFacts ==
  \A s \in STHs \cup {NoSTH} : /\ s.ts \in Nat
                               /\ Root(s) \in Tree
                               /\ TreeSize(s) = Size(Root(s))
                               /\ TreeSize(s) \in Nat
<1> TAKE s \in STHs \cup {NoSTH}
<1>1. CASE s = NoSTH
  BY <1>1, SthFacts, TreeAssumption
<1>2. CASE s \in STHs
  BY <1>2, SthFacts
<1> QED BY <1>1, <1>2

(* What verify_sth_consistency establishes.                                *)
LEMMA ConsistentFacts ==
  ASSUME NEW old \in STHs \cup {NoSTH}, NEW new \in STHs,
         NEW proofOk \in BOOLEAN, Consistent(old, new, proofOk)
  PROVE  /\ TreeSize(old) <= TreeSize(new)
         /\ Prefix(Root(old), Root(new))
         /\ TreeSize(old) = TreeSize(new) => old.root = new.root
         /\ old.ts = new.ts => TreeSize(old) = TreeSize(new)
<1>1. CASE old = NoSTH
  BY <1>1, SthFacts, RootFacts, TreeAssumption DEF Consistent
<1>2. CASE old \in STHs
  BY <1>2, SthFacts, RootFacts, TreeAssumption DEF Consistent
<1> QED BY <1>1, <1>2

(* Whatever part of a sound state a torn write leaves is sound: dropping   *)
(* fields from the end keeps the pending STH next to the verified one.     *)
LEMMA TornSound ==
  ASSUME NEW s \in State, Sound(s), NEW f \in Torn(s)
  PROVE  f \in [state : State, intact : BOOLEAN] /\ Sound(f.state)
<1> DEFINE A == [NoState EXCEPT !.vsth = s.vsth]
           B == [NoState EXCEPT !.vsth = s.vsth, !.psth = s.psth]
           C == [s EXCEPT !.utree = Empty]
<1>1. NoState \in State /\ A \in State /\ B \in State /\ C \in State
  BY TreeAssumption DEF State, NoState
<1>2. /\ NoState.vsth = NoSTH /\ NoState.psth = NoSTH
      /\ NoState.vtree = Empty /\ NoState.utree = Empty
  BY DEF NoState
<1>3. /\ A.vsth = s.vsth /\ A.psth = NoSTH
      /\ A.vtree = Empty /\ A.utree = Empty
  BY DEF NoState
<1>4. /\ B.vsth = s.vsth /\ B.psth = s.psth
      /\ B.vtree = Empty /\ B.utree = Empty
  BY DEF NoState
<1>5. /\ C.vsth = s.vsth /\ C.psth = s.psth
      /\ C.vtree = s.vtree /\ C.utree = Empty
  BY DEF State
<1>6. Size(Empty) = 0
  BY TreeAssumption
<1>7. s.vsth \in STHs \cup {NoSTH} /\ s.psth \in STHs \cup {NoSTH}
  BY DEF State
<1>8. Sound(NoState)
  BY <1>2, <1>6, SthFacts DEF Sound, Ahead, Bound
<1>9. Sound(A)
  BY <1>3, <1>6, <1>7, RootFacts DEF Sound, Ahead, Bound
<1>10. Sound(B)
  BY <1>4, <1>6, <1>7, RootFacts DEF Sound, Ahead, Bound
<1>11. Sound(C)
  BY <1>5, <1>6, <1>7, RootFacts DEF Sound, Ahead, Bound
<1>12. f \in {[state |-> NoState, intact |-> TRUE],
               [state |-> A, intact |-> TRUE], [state |-> B, intact |-> TRUE],
               [state |-> C, intact |-> TRUE],
               [state |-> NoState, intact |-> FALSE]}
  BY DEF Torn
<1> HIDE DEF A, B, C
<1>13. PICK t \in {NoState, A, B, C}, b \in BOOLEAN :
         f = [state |-> t, intact |-> b]
  BY <1>12, Zenon
<1>14. t \in State /\ Sound(t)
  BY <1>1, <1>8, <1>9, <1>10, <1>11
<1>15. f.state = t
  BY <1>13
<1> QED BY <1>13, <1>14, <1>15

LEMMA TornParts ==
  ASSUME NEW s \in State, NEW f \in Torn(s)
  PROVE  f.state.vsth \in {NoSTH, s.vsth} /\ f.state.psth \in {NoSTH, s.psth}
<1>1. CASE f.state = NoState
  BY <1>1 DEF NoState
<1>2. CASE f.state = [NoState EXCEPT !.vsth = s.vsth]
  BY <1>2 DEF NoState
<1>3. CASE f.state = [NoState EXCEPT !.vsth = s.vsth, !.psth = s.psth]
  BY <1>3 DEF NoState
<1>4. CASE f.state = [s EXCEPT !.utree = Empty]
  BY <1>4 DEF State
<1> QED BY <1>1, <1>2, <1>3, <1>4 DEF Torn

(* __update_state keeps memory and file sound when it saves a sound state, *)
(* and also when the write fails.                                          *)
LEMMA SaveSound ==
  ASSUME NEW s \in State, Sound(s), Save(s)
  PROVE  /\ mem' = s /\ mem' \in State /\ Sound(mem')
         /\ file' \in [state : State, intact : BOOLEAN]
         /\ file'.state = s /\ Sound(file'.state)
BY DEF Save

LEMMA SaveFailsSound ==
  ASSUME TypeOK, Sound(file.state), NEW s \in State, Sound(s), SaveFails(s)
  PROVE  /\ mem' = [s EXCEPT !.vsth = mem.vsth, !.psth = mem.psth]
         /\ mem' \in State
         /\ file' \in [state : State, intact : BOOLEAN]
         /\ Sound(file'.state)
         /\ faults' \in 0..MaxFaults
<1>1. /\ mem' = [s EXCEPT !.vsth = mem.vsth, !.psth = mem.psth]
      /\ mem' \in State
  BY DEF SaveFails, TypeOK, State
<1>2. faults' \in 0..MaxFaults
  BY MonitorAssumption DEF SaveFails, Fault, TypeOK
<1>3. file' \in {file, [state |-> s, intact |-> TRUE]} \cup Torn(s)
  BY DEF SaveFails
<1>4. ASSUME file' = file
      PROVE  file' \in [state : State, intact : BOOLEAN] /\ Sound(file'.state)
  BY <1>4 DEF TypeOK
<1>5. ASSUME file' = [state |-> s, intact |-> TRUE]
      PROVE  file' \in [state : State, intact : BOOLEAN] /\ Sound(file'.state)
  BY <1>5
<1>6. ASSUME file' \in Torn(s)
      PROVE  file' \in [state : State, intact : BOOLEAN] /\ Sound(file'.state)
  BY <1>6, TornSound
<1> QED BY <1>1, <1>2, <1>3, <1>4, <1>5, <1>6

(* The three states the monitor saves, besides one with a new batch.       *)
LEMMA RollBackSound ==
  ASSUME TypeOK, NEW s, s = [mem EXCEPT !.utree = mem.vtree], Sound(mem)
  PROVE  /\ s \in State /\ Sound(s)
         /\ [s EXCEPT !.vsth = mem.vsth, !.psth = mem.psth] = s
<1>1. /\ s \in State /\ s.vsth = mem.vsth /\ s.psth = mem.psth
      /\ s.vtree = mem.vtree /\ s.utree = mem.vtree
  BY DEF TypeOK, State
<1>2. [s EXCEPT !.vsth = mem.vsth, !.psth = mem.psth] = s
  BY <1>1 DEF State
<1>3. mem.vsth \in STHs \cup {NoSTH} /\ mem.psth \in STHs \cup {NoSTH}
  BY DEF TypeOK, State
<1>4. Size(mem.vtree) <= Bound(mem)
  BY <1>3, RootFacts, TreeAssumption DEF Sound, Ahead, Bound
<1>5. Sound(s)
  BY <1>1, <1>4 DEF Sound, Ahead, Bound
<1> QED BY <1>1, <1>2, <1>5

LEMMA NewSthSound ==
  ASSUME TypeOK, Sound(mem), mem.psth = NoSTH, NEW sth \in STHs,
         Consistent(mem.vsth, sth, TRUE), sth.ts > mem.vsth.ts,
         NEW s, s = IF TreeSize(sth) > TreeSize(mem.vsth)
                    THEN [mem EXCEPT !.psth = sth]
                    ELSE [mem EXCEPT !.vsth = sth]
  PROVE  /\ s \in State /\ Sound(s)
         /\ [s EXCEPT !.vsth = mem.vsth, !.psth = mem.psth] = mem
<1>1. mem.vsth \in STHs \cup {NoSTH} /\ sth # NoSTH
  BY SthFacts DEF TypeOK, State
<1>2. /\ TreeSize(mem.vsth) <= TreeSize(sth)
      /\ Prefix(Root(mem.vsth), Root(sth))
      /\ TreeSize(mem.vsth) = TreeSize(sth) => mem.vsth.root = sth.root
  BY <1>1, ConsistentFacts
<1>3. s \in State /\ [s EXCEPT !.vsth = mem.vsth, !.psth = mem.psth] = mem
  BY DEF TypeOK, State
<1>4. CASE TreeSize(sth) > TreeSize(mem.vsth)
  <2>1. /\ s.vsth = mem.vsth /\ s.psth = sth
        /\ s.vtree = mem.vtree /\ s.utree = mem.utree
    BY <1>4 DEF TypeOK, State
  <2>2. Size(mem.utree) \in Nat
    BY TreeAssumption DEF TypeOK, State
  <2> QED BY <1>1, <1>2, <1>3, <1>4, <2>1, <2>2, RootFacts
          DEF Sound, Ahead, Bound
<1>5. CASE ~(TreeSize(sth) > TreeSize(mem.vsth))
  <2>1. /\ s.vsth = sth /\ s.psth = NoSTH
        /\ s.vtree = mem.vtree /\ s.utree = mem.utree
    BY <1>5 DEF TypeOK, State
  <2>2. TreeSize(mem.vsth) = TreeSize(sth)
    BY <1>1, <1>2, <1>5, RootFacts
  <2>3. Root(mem.vsth) = Root(sth)
    BY <1>2, <2>2 DEF Root
  <2> QED BY <1>3, <2>1, <2>2, <2>3 DEF Sound, Ahead, Bound
<1> QED BY <1>4, <1>5

LEMMA PromotedSound ==
  ASSUME TypeOK, Sound(mem), mem.psth # NoSTH,
         Size(ctree) = TreeSize(mem.psth),
         Consistent(Projected(ctree), mem.psth, TRUE),
         NEW s, s = [mem EXCEPT !.vtree = ctree, !.vsth = mem.psth,
                                !.psth = NoSTH]
  PROVE  /\ s \in State /\ Sound(s)
         /\ Sound([s EXCEPT !.vsth = mem.vsth, !.psth = mem.psth])
<1> DEFINE t == [s EXCEPT !.vsth = mem.vsth, !.psth = mem.psth]
<1>1. mem.psth \in STHs /\ mem.vsth \in STHs \cup {NoSTH} /\ ctree \in Tree
  BY DEF TypeOK, State
<1>2. TreeSize(Projected(ctree)) = Size(ctree) /\ Projected(ctree).root = ctree
  BY <1>1, TreeAssumption DEF Projected, TreeSize
<1>3. ctree = Root(mem.psth)
  BY <1>1, <1>2, SthFacts, RootFacts DEF Consistent
<1>4. /\ s \in State /\ s.vsth = mem.psth /\ s.psth = NoSTH
      /\ s.vtree = ctree /\ s.utree = mem.utree
  BY <1>1 DEF TypeOK, State
<1>5. /\ t.vsth = mem.vsth /\ t.psth = mem.psth
      /\ t.vtree = ctree /\ t.utree = mem.utree
  BY <1>1 DEF TypeOK, State
<1>6. Sound(s)
  BY <1>3, <1>4 DEF Sound, Ahead, Bound
<1> HIDE DEF t
<1>7. Sound(t)
  BY <1>3, <1>5 DEF Sound, Ahead, Bound
<1> QED BY <1>4, <1>6, <1>7 DEF t

LEMMA BatchSound ==
  ASSUME TypeOK, Sound(mem), mem.psth # NoSTH, NEW t \in Tree,
         Size(t) <= TreeSize(mem.psth), NEW s, s = [mem EXCEPT !.utree = t]
  PROVE  /\ s \in State /\ Sound(s)
         /\ [s EXCEPT !.vsth = mem.vsth, !.psth = mem.psth] = s
<1>1. /\ s \in State /\ s.vsth = mem.vsth /\ s.psth = mem.psth
      /\ s.vtree = mem.vtree /\ s.utree = t
  BY DEF TypeOK, State
<1>2. [s EXCEPT !.vsth = mem.vsth, !.psth = mem.psth] = s
  BY <1>1 DEF State
<1> QED BY <1>1, <1>2 DEF Sound, Ahead, Bound

LEMMA RecordType ==
  ASSUME TypeOK, NEW sth, NEW ok \in BOOLEAN, Record(sth, ok)
  PROVE  audit' \in [STHs -> SUBSET Status]
BY DEF TypeOK, Record, store_sth, Status

(* The outcome of a check of a new STH.                                    *)
LEMMA CheckNewSthSound ==
  ASSUME IInv, mem.psth = NoSTH, NEW sth \in STHs, CheckNewSth(sth, TRUE)
  PROVE  /\ mem' \in State /\ Sound(mem')
         /\ file' \in [state : State, intact : BOOLEAN] /\ Sound(file'.state)
         /\ audit' \in [STHs -> SUBSET Status]
         /\ faults' \in 0..MaxFaults
         /\ pc' \in {"idle", "entries"}
<1>1. Consistent(mem.vsth, sth, TRUE) \in BOOLEAN
  BY DEF Consistent
<1>2. audit' \in [STHs -> SUBSET Status]
  BY <1>1, RecordType DEF CheckNewSth, IInv
<1> DEFINE s == IF TreeSize(sth) > TreeSize(mem.vsth)
                THEN [mem EXCEPT !.psth = sth]
                ELSE [mem EXCEPT !.vsth = sth]
<1>3. CASE UNCHANGED <<mem, file, faults>> /\ pc' = "idle"
  BY <1>2, <1>3 DEF IInv, TypeOK
<1>4. ASSUME Consistent(mem.vsth, sth, TRUE), sth.ts > mem.vsth.ts
      PROVE  /\ s \in State /\ Sound(s)
             /\ [s EXCEPT !.vsth = mem.vsth, !.psth = mem.psth] = mem
  BY <1>4, NewSthSound DEF IInv
<1> HIDE DEF s
<1>5. CASE /\ Consistent(mem.vsth, sth, TRUE) /\ sth.ts > mem.vsth.ts
           /\ Save(s) /\ pc' = "entries" /\ UNCHANGED faults
  BY <1>2, <1>4, <1>5, SaveSound DEF IInv, TypeOK
<1>6. CASE /\ Consistent(mem.vsth, sth, TRUE) /\ sth.ts > mem.vsth.ts
           /\ SaveFails(s) /\ pc' = "idle"
  <2>1. s \in State /\ Sound(s) /\ mem' = mem
        /\ file' \in [state : State, intact : BOOLEAN] /\ Sound(file'.state)
        /\ faults' \in 0..MaxFaults
    BY <1>4, <1>6, SaveFailsSound DEF IInv
  <2> QED BY <1>2, <1>6, <2>1 DEF IInv, TypeOK
<1> QED BY <1>3, <1>5, <1>6 DEF CheckNewSth, SetPendingSth, s

-----------------------------------------------------------------------------
LEMMA InitSound == Init => IInv
<1> SUFFICES ASSUME Init PROVE IInv
  OBVIOUS
<1>1. NoState \in State
  BY TreeAssumption DEF NoState, State
<1>2. NoScan \in Scan /\ ~NoScan.live
  BY TreeAssumption DEF NoScan, Scan
<1>3. TypeOK
  BY <1>1, <1>2, MonitorAssumption, TreeAssumption DEF Init, TypeOK
<1>4. Sound(NoState)
  BY SthFacts, TreeAssumption DEF Sound, Ahead, Bound, NoState
<1>5. Control
  BY <1>2 DEF Init, Control
<1> QED BY <1>3, <1>4, <1>5 DEF Init, IInv

(* Each action preserves the invariant.                                    *)
LEMMA NextSound == IInv /\ [Next]_vars => IInv'
<1> SUFFICES ASSUME IInv, [Next]_vars PROVE IInv'
  OBVIOUS
<1> USE DEF IInv
<1>1. CASE Update
  BY <1>1 DEF Update, TypeOK, Control, log, report
<1>2. CASE GetSthFails
  BY <1>2, MonitorAssumption DEF GetSthFails, Fault, TypeOK, Control, log, report
<1>3. CASE SameSth
  BY <1>3 DEF SameSth, TypeOK, Control, log, report
<1>4. ASSUME NEW sth \in STHs, OlderSth(sth) PROVE IInv'
  <2>1. audit' \in [STHs -> SUBSET Status]
    <3>1. Consistent(sth, mem.vsth, TRUE) \in BOOLEAN
      BY DEF Consistent
    <3> QED BY <1>4, <3>1, RecordType DEF OlderSth, TypeOK, log
  <2>2. oldChecks' \subseteq (STHs \X STHs)
    <3>1. mem.vsth \in STHs
      BY <1>4 DEF OlderSth, IsOlder, TypeOK, State
    <3>2. oldChecks' = oldChecks \/ oldChecks' = oldChecks \cup {<<sth, mem.vsth>>}
      BY <1>4 DEF OlderSth, log
    <3> QED BY <3>1, <3>2 DEF TypeOK
  <2> QED BY <1>4, <2>1, <2>2 DEF OlderSth, TypeOK, Control, report
<1>5. ASSUME NEW sth \in STHs, NewerSth(sth) PROVE IInv'
  <2>1. mem.psth = NoSTH /\ \A i \in 1..MaxScans : ~scans[i].live
    BY <1>5 DEF NewerSth, Control
  <2>2. CASE pc' = "idle" /\ UNCHANGED <<mem, file, cand, audit, faults>>
    BY <1>5, <2>1, <2>2 DEF NewerSth, TypeOK, Control, report
  <2>3. CASE CheckNewSth(sth, TRUE) /\ UNCHANGED cand
    BY <1>5, <2>1, <2>3, CheckNewSthSound DEF NewerSth, TypeOK, Control, report
  <2>4. CASE /\ pc' = "check_sth" /\ cand' = sth
             /\ UNCHANGED <<mem, file, audit, faults>>
    BY <1>5, <2>1, <2>4 DEF NewerSth, TypeOK, Control, report
  <2> QED BY <1>5, <2>2, <2>3, <2>4 DEF NewerSth
<1>6. ASSUME NEW check \in oldChecks, NEW proofOk \in BOOLEAN,
             OldSthProof(check, proofOk)
      PROVE  IInv'
  <2>1. audit' \in [STHs -> SUBSET Status]
    <3>1. Consistent(check[1], check[2], proofOk) \in BOOLEAN
      BY DEF Consistent
    <3> QED BY <1>6, <3>1, RecordType DEF OldSthProof
  <2> QED BY <1>6, <2>1, MonitorAssumption
          DEF OldSthProof, Fault, TypeOK, Control, report
<1>7. ASSUME NEW check \in oldChecks, OldSthProofFails(check) PROVE IInv'
  BY <1>7, MonitorAssumption
     DEF OldSthProofFails, Fault, TypeOK, Control, report
<1>8. CASE GoodProof
  <2>1. /\ mem.psth = NoSTH /\ cand \in STHs
        /\ \A i \in 1..MaxScans : ~scans[i].live
    BY <1>8 DEF GoodProof, Control
  <2> QED BY <1>8, <2>1, CheckNewSthSound DEF GoodProof, TypeOK, Control, report
<1>9. CASE BadProof
  <2>1. audit' \in [STHs -> SUBSET Status]
    BY <1>9, RecordType DEF BadProof
  <2> QED BY <1>9, <2>1, MonitorAssumption
          DEF BadProof, Fault, TypeOK, Control, report
<1>10. CASE ProofRequestFails
  BY <1>10, MonitorAssumption
     DEF ProofRequestFails, Fault, TypeOK, Control, log, report
<1>11. CASE UpdateEntries
  <2>1. /\ mem.psth \in STHs \cup {NoSTH} /\ TreeSize(mem.psth) \in Nat
        /\ mem.utree \in Tree /\ Size(mem.utree) \in Nat
    BY RootFacts, TreeAssumption DEF TypeOK, State
  <2>2. mem.psth # NoSTH => Size(mem.utree) <= TreeSize(mem.psth)
    BY DEF Sound, Bound
  <2> QED BY <1>11, <2>1, <2>2, SMTT(30) DEF UpdateEntries, TypeOK, Control, log, report
<1>12. ASSUME NEW t \in Tree, Consume(t) PROVE IInv'
  <2> DEFINE s == [mem EXCEPT !.utree = t]
  <2>1. /\ mem.psth # NoSTH /\ Size(t) <= TreeSize(mem.psth)
        /\ pc = "fetch" /\ ctree' = t /\ ~LiveScan
        /\ UNCHANGED <<cand, log, report>>
    BY <1>12 DEF Consume, Control
  <2>2. /\ s \in State /\ Sound(s)
        /\ [s EXCEPT !.vsth = mem.vsth, !.psth = mem.psth] = s
    BY <2>1, BatchSound
  <2>3. s.psth = mem.psth
    BY DEF TypeOK, State
  <2> HIDE DEF s
  <2>4. ASSUME NEW live \in BOOLEAN, StartScan(live, t)
        PROVE  /\ scans' \in [1..MaxScans -> Scan]
               /\ ~live => \A i \in 1..MaxScans : ~scans'[i].live
               /\ \A i, j \in 1..MaxScans :
                    scans'[i].live /\ scans'[j].live => i = j
    <3>1. PICK k \in 1..MaxScans :
            scans' = [scans EXCEPT ![k] =
                        [live |-> live, from |-> ctree, to |-> t]]
      BY <2>4 DEF StartScan, FreeScans
    <3>2. [live |-> live, from |-> ctree, to |-> t] \in Scan
      BY DEF Scan, TypeOK
    <3>3. \A i \in 1..MaxScans :
            /\ i # k => scans'[i] = scans[i]
            /\ i = k => scans'[i].live = live
      BY <3>1 DEF TypeOK
    <3> QED BY <3>1, <3>2, <3>3, <2>1 DEF LiveScan, TypeOK
  <2>5. CASE Save(s) /\ StartScan(TRUE, t) /\ UNCHANGED pc
    <3>1. faults' \in 0..MaxFaults
      BY <1>12, <2>5, MonitorAssumption DEF Consume, SaveFails, Fault, TypeOK
    <3> QED BY <2>1, <2>2, <2>3, <2>4, <2>5, <3>1, SaveSound
            DEF TypeOK, Control, log, report
  <2>6. CASE SaveFails(s) /\ StartScan(FALSE, t) /\ pc' = "idle"
    <3>1. mem' = s /\ file' \in [state : State, intact : BOOLEAN]
          /\ Sound(file'.state) /\ faults' \in 0..MaxFaults
      BY <2>2, <2>6, SaveFailsSound
    <3> QED BY <2>1, <2>2, <2>4, <2>6, <3>1 DEF TypeOK, Control, log, report
  <2> QED BY <1>12, <2>5, <2>6 DEF Consume, s
<1>13. CASE FetchFails
  <2>1. Orphaned \in [1..MaxScans -> Scan]
        /\ \A i \in 1..MaxScans : ~Orphaned[i].live
    BY DEF Orphaned, TypeOK, Scan
  <2> QED BY <1>13, <2>1, MonitorAssumption
          DEF FetchFails, Fault, TypeOK, Control, log, report
<1>14. ASSUME NEW i \in 1..MaxScans, scans' = [scans EXCEPT ![i] = NoScan]
       PROVE  /\ scans' \in [1..MaxScans -> Scan]
              /\ \A j \in 1..MaxScans : scans'[j].live
                    => j # i /\ scans[j].live
  BY <1>14, TreeAssumption DEF TypeOK, NoScan, Scan
<1>15. ASSUME NEW i \in 1..MaxScans, ScanDone(i) PROVE IInv'
  <2>1. queued' \subseteq Tree
    BY <1>15 DEF ScanDone, Entries, TypeOK
  <2>2. scans' = [scans EXCEPT ![i] = NoScan]
        /\ pc' = (IF scans[i].live /\ Size(ctree) = TreeSize(mem.psth)
                  THEN "verify" ELSE pc)
        /\ UNCHANGED <<mem, file, cand, ctree, log, reported, faults>>
    BY <1>15 DEF ScanDone
  <2>3. Control'
    BY <1>14, <2>2 DEF Control
  <2> QED BY <1>14, <2>1, <2>2, <2>3 DEF TypeOK, log
<1>16. ASSUME NEW i \in 1..MaxScans, ScanFails(i) PROVE IInv'
  <2> DEFINE s == [mem EXCEPT !.utree = mem.vtree]
  <2>1. /\ s \in State /\ Sound(s)
        /\ [s EXCEPT !.vsth = mem.vsth, !.psth = mem.psth] = s
    BY RollBackSound
  <2>2. s.psth = mem.psth
    BY DEF TypeOK, State
  <2>3. SaveFails(s)
    BY <1>16 DEF ScanFails
  <2> HIDE DEF s
  <2>4. mem' = s /\ file' \in [state : State, intact : BOOLEAN]
        /\ Sound(file'.state) /\ faults' \in 0..MaxFaults
    BY <2>1, <2>3, SaveFailsSound
  <2>5. scans' = [scans EXCEPT ![i] = NoScan]
        /\ pc' = (IF scans[i].live THEN "idle" ELSE pc)
        /\ UNCHANGED <<cand, ctree, log, report>>
        /\ pc \notin {"entries", "verify", "down"}
    BY <1>16 DEF ScanFails, Reactor
  <2>6. Control'
    BY <1>14, <2>2, <2>4, <2>5 DEF Control
  <2> QED BY <1>14, <2>1, <2>4, <2>5, <2>6 DEF TypeOK, log, report
<1>17. CASE VerifyNewTree
  <2> DEFINE ok == Consistent(Projected(ctree), mem.psth, TRUE)
  <2>1. /\ pc = "verify" /\ Record(mem.psth, ok) /\ pc' = "idle"
        /\ IF ok THEN SetVerifiedTree ELSE RollBack
        /\ UNCHANGED <<cand, ctree, scans, oldChecks>>
        /\ mem.psth # NoSTH /\ Size(ctree) = TreeSize(mem.psth)
        /\ \A i \in 1..MaxScans : ~scans[i].live
    BY <1>17 DEF VerifyNewTree, Control
  <2>2. audit' \in [STHs -> SUBSET Status]
    <3>1. ok \in BOOLEAN
      BY DEF Consistent
    <3> QED BY <2>1, <3>1, RecordType
  <2>3. ASSUME /\ mem' \in State /\ Sound(mem')
               /\ file' \in [state : State, intact : BOOLEAN]
               /\ Sound(file'.state) /\ faults' \in 0..MaxFaults
               /\ queued' \subseteq Tree /\ reported' \subseteq Tree
        PROVE  IInv'
    BY <2>1, <2>2, <2>3 DEF TypeOK, Control
  <2>4. CASE ok
    <3> DEFINE s == [mem EXCEPT !.vtree = ctree, !.vsth = mem.psth,
                                !.psth = NoSTH]
    <3>1. /\ s \in State /\ Sound(s)
          /\ Sound([s EXCEPT !.vsth = mem.vsth, !.psth = mem.psth])
      BY <2>1, <2>4, PromotedSound
    <3>2. queued' \subseteq Tree /\ reported' \subseteq Tree
      BY <2>1, <2>4 DEF SetVerifiedTree, report, TypeOK
    <3>3. (Save(s) /\ UNCHANGED faults) \/ SaveFails(s)
      BY <2>1, <2>4 DEF SetVerifiedTree
    <3> HIDE DEF s
    <3>4. CASE Save(s) /\ UNCHANGED faults
      BY <2>3, <3>1, <3>2, <3>4, SaveSound DEF TypeOK
    <3>5. CASE SaveFails(s)
      BY <2>3, <3>1, <3>2, <3>5, SaveFailsSound
    <3> QED BY <3>3, <3>4, <3>5
  <2>5. CASE ~ok
    <3> DEFINE s == [mem EXCEPT !.utree = mem.vtree]
    <3>1. /\ s \in State /\ Sound(s)
          /\ [s EXCEPT !.vsth = mem.vsth, !.psth = mem.psth] = s
      BY RollBackSound
    <3>2. queued' \subseteq Tree /\ reported' \subseteq Tree
      BY <2>1, <2>5 DEF RollBack, report, TypeOK
    <3>3. (Save(s) /\ UNCHANGED faults) \/ SaveFails(s)
      BY <2>1, <2>5 DEF RollBack
    <3> HIDE DEF s
    <3>4. CASE Save(s) /\ UNCHANGED faults
      BY <2>3, <3>1, <3>2, <3>4, SaveSound DEF TypeOK
    <3>5. CASE SaveFails(s)
      BY <2>3, <3>1, <3>2, <3>5, SaveFailsSound
    <3> QED BY <3>3, <3>4, <3>5
  <2> QED BY <2>4, <2>5
<1>18. CASE ReporterWrites
  BY <1>18 DEF ReporterWrites, TypeOK, Control, log
<1>19. CASE Crash
  <2>1. [i \in 1..MaxScans |-> NoScan] \in [1..MaxScans -> Scan]
        /\ ~NoScan.live
    BY TreeAssumption DEF NoScan, Scan
  <2>2. TypeOK'
    BY <1>19, <2>1, MonitorAssumption DEF Crash, Fault, TypeOK
  <2>3. Control'
    BY <1>19, <2>1 DEF Crash, Control
  <2> QED BY <1>19, <2>2, <2>3 DEF Crash
<1>20. CASE Restart
  BY <1>20 DEF Restart, TypeOK, Control, log, report
<1>21. ASSUME NEW sth \in STHs, StoreSthFails(sth) PROVE IInv'
  <2>1. audit' \in [STHs -> SUBSET Status]
    BY <1>21 DEF StoreSthFails, store_sth, Status, TypeOK
  <2>2. pc \in {"get_sth", "check_sth", "verify"}
    BY <1>21 DEF StoreSthFails
  <2> QED BY <1>21, <2>1, <2>2, MonitorAssumption
          DEF StoreSthFails, Fault, TypeOK, Control, report
<1>22. CASE UNCHANGED vars
  BY <1>22 DEF vars, TypeOK, Control
<1> QED BY <1>1, <1>2, <1>3, <1>4, <1>5, <1>6, <1>7, <1>8, <1>9, <1>10, <1>11,
           <1>12, <1>13, <1>15, <1>16, <1>17, <1>18, <1>19, <1>20, <1>21,
           <1>22
        DEF Next

(* The inductive invariant holds in every reachable state.                 *)
THEOREM MonitorSound == Spec => []IInv
BY InitSound, NextSound, PTL DEF Spec

(* The values of the variables are always of their types.                  *)
THEOREM TypeCorrect == Spec => []TypeOK
<1>1. IInv => TypeOK
  BY DEF IInv
<1> QED BY <1>1, MonitorSound, PTL

(* A pending STH is always newer and bigger than the verified one and      *)
(* extends it, in memory and in the state file, torn or not.               *)
THEOREM PendingAlwaysAhead == Spec => []PendingAhead
<1>1. IInv => PendingAhead
  BY DEF IInv, Sound, PendingAhead
<1> QED BY <1>1, MonitorSound, PTL

(* The verified tree is always consistent with the verified STH.           *)
THEOREM VerifiedTreeAlwaysConsistent == Spec => []VerifiedTreeConsistent
<1>1. IInv => VerifiedTreeConsistent
  <2> SUFFICES ASSUME IInv, NEW s \in State, Sound(s)
               PROVE  Prefix(s.vtree, Root(s.vsth)) \/ Prefix(Root(s.vsth), s.vtree)
    BY DEF IInv, TypeOK, VerifiedTreeConsistent
  <2>1. s.vsth \in STHs \cup {NoSTH} /\ s.psth \in STHs \cup {NoSTH}
    BY DEF State
  <2> QED BY <2>1, RootFacts, TreeAssumption DEF Sound, Ahead
<1> QED BY <1>1, MonitorSound, PTL

(* The monitor compares a tree with the pending STH only when the tree has *)
(* the pending size, and never fetches beyond it.                          *)
THEOREM AlwaysVerifiesWholeTree == Spec => []VerifiesWholeTree
<1>1. IInv => VerifiesWholeTree
  BY DEF IInv, Sound, Bound, Control, VerifiesWholeTree
<1> QED BY <1>1, MonitorSound, PTL

-----------------------------------------------------------------------------
(* Every change of the two STHs goes through __update_state, in one of     *)
(* three ways, or is a restart.                                            *)
Adopts(s, sth) ==
  /\ "VERIFIED" \in audit'[sth]
  /\ \/ s.psth = sth /\ s.vsth = mem.vsth
     \/ s.vsth = sth /\ s.psth = mem.psth /\ View!Extends(sth, mem.vsth)

Writes(s) ==
  /\ Save(s) \/ SaveFails(s)
  /\ \/ s.vsth = mem.vsth /\ s.psth = mem.psth
     \/ \E sth \in STHs : Adopts(s, sth)
     \/ mem.psth # NoSTH /\ s.vsth = mem.psth /\ s.psth = NoSTH

LEMMA CheckNewSthWrites ==
  ASSUME IInv, mem.psth = NoSTH, NEW sth \in STHs, CheckNewSth(sth, TRUE)
  PROVE  UNCHANGED <<mem, file>> \/ \E s \in State : Writes(s)
<1> DEFINE s == IF TreeSize(sth) > TreeSize(mem.vsth)
                THEN [mem EXCEPT !.psth = sth]
                ELSE [mem EXCEPT !.vsth = sth]
<1>1. SUFFICES ASSUME Consistent(mem.vsth, sth, TRUE), sth.ts > mem.vsth.ts,
                      Save(s) \/ SaveFails(s)
               PROVE  s \in State /\ Adopts(s, sth)
  BY DEF CheckNewSth, SetPendingSth, Writes
<1>2. s \in State
  BY DEF IInv, TypeOK, State
<1>3. "VERIFIED" \in audit'[sth]
  BY <1>1 DEF CheckNewSth, Record, store_sth, IInv, TypeOK
<1>4. CASE TreeSize(sth) > TreeSize(mem.vsth)
  <2>1. s.psth = sth /\ s.vsth = mem.vsth
    BY <1>4 DEF IInv, TypeOK, State
  <2> QED BY <1>2, <1>3, <2>1 DEF Adopts
<1>5. CASE ~(TreeSize(sth) > TreeSize(mem.vsth))
  <2>1. s.vsth = sth /\ s.psth = mem.psth
    BY <1>5 DEF IInv, TypeOK, State
  <2>2. CASE mem.vsth = NoSTH
    BY <1>1, <1>2, <1>3, <2>1, <2>2
       DEF Adopts, View!Extends, View!NoSTH, NoSTH
  <2>3. CASE mem.vsth \in STHs
    <3>1. Prefix(mem.vsth.root, sth.root)
      BY <1>1, <2>3, ConsistentFacts, SthFacts
    <3> QED BY <1>1, <1>2, <1>3, <2>1, <3>1 DEF Adopts, View!Extends
  <2> QED BY <2>2, <2>3 DEF IInv, TypeOK, State
<1> QED BY <1>4, <1>5

LEMMA NextWrites ==
  ASSUME IInv, [Next]_vars
  PROVE  \/ UNCHANGED <<mem, file>>
         \/ mem' = file.state /\ UNCHANGED file
         \/ \E s \in State : Writes(s)
<1>1. ASSUME NEW sth \in STHs, NewerSth(sth)
      PROVE  UNCHANGED <<mem, file>> \/ \E s \in State : Writes(s)
  <2>1. mem.psth = NoSTH
    BY <1>1 DEF NewerSth, IInv, Control
  <2> QED BY <1>1, <2>1, CheckNewSthWrites DEF NewerSth
<1>2. CASE GoodProof
  <2>1. mem.psth = NoSTH /\ cand \in STHs
    BY <1>2 DEF GoodProof, IInv, Control
  <2> QED BY <1>2, <2>1, CheckNewSthWrites DEF GoodProof
<1>3. ASSUME NEW t \in Tree, Consume(t) PROVE \E s \in State : Writes(s)
  <2> DEFINE s == [mem EXCEPT !.utree = t]
  <2>1. s \in State /\ s.vsth = mem.vsth /\ s.psth = mem.psth
    BY DEF IInv, TypeOK, State
  <2>2. Save(s) \/ SaveFails(s)
    BY <1>3 DEF Consume
  <2> QED BY <2>1, <2>2 DEF Writes
<1>4. ASSUME \/ \E i \in 1..MaxScans : ScanFails(i)
             \/ VerifyNewTree /\ RollBack
      PROVE  \E s \in State : Writes(s)
  <2> DEFINE s == [mem EXCEPT !.utree = mem.vtree]
  <2>1. s \in State /\ s.vsth = mem.vsth /\ s.psth = mem.psth
    BY DEF IInv, TypeOK, State
  <2>2. Save(s) \/ SaveFails(s)
    BY <1>4 DEF ScanFails, RollBack
  <2> QED BY <2>1, <2>2 DEF Writes
<1>5. CASE VerifyNewTree /\ SetVerifiedTree
  <2> DEFINE s == [mem EXCEPT !.vtree = ctree, !.vsth = mem.psth,
                              !.psth = NoSTH]
  <2>1. s \in State /\ s.vsth = mem.psth /\ s.psth = NoSTH
    BY DEF IInv, TypeOK, State
  <2>2. mem.psth # NoSTH
    BY <1>5 DEF VerifyNewTree, IInv, Control
  <2>3. Save(s) \/ SaveFails(s)
    BY <1>5 DEF SetVerifiedTree
  <2> QED BY <2>1, <2>2, <2>3 DEF Writes
<1>6. CASE VerifyNewTree
  BY <1>4, <1>5, <1>6 DEF VerifyNewTree
<1>7. CASE Restart
  BY <1>7 DEF Restart
<1>8. ASSUME NEW check \in oldChecks, NEW proofOk \in BOOLEAN,
             OldSthProof(check, proofOk) \/ OldSthProofFails(check)
      PROVE  UNCHANGED <<mem, file>>
  BY <1>8 DEF OldSthProof, OldSthProofFails
<1>9. CASE \/ Update \/ GetSthFails \/ SameSth \/ BadProof
           \/ ProofRequestFails \/ UpdateEntries \/ FetchFails
           \/ ReporterWrites \/ Crash \/ UNCHANGED vars
           \/ \E sth \in STHs : OlderSth(sth) \/ StoreSthFails(sth)
           \/ \E i \in 1..MaxScans : ScanDone(i)
  BY <1>9 DEF Update, GetSthFails, SameSth, BadProof, ProofRequestFails,
              UpdateEntries, FetchFails, ReporterWrites, Crash, vars, OlderSth,
              StoreSthFails, ScanDone
<1> QED BY <1>1, <1>2, <1>3, <1>4, <1>6, <1>7, <1>8, <1>9 DEF Next

-----------------------------------------------------------------------------
(* Audit records are only added.                                           *)
LEMMA AuditGrows ==
  ASSUME TypeOK, [Next]_vars, NEW sth \in STHs
  PROVE  audit[sth] \subseteq audit'[sth]
<1>1. ASSUME NEW x, NEW ok, Record(x, ok) PROVE audit[sth] \subseteq audit'[sth]
  BY <1>1 DEF Record, store_sth, TypeOK
<1>2. ASSUME NEW x, StoreSthFails(x) PROVE audit[sth] \subseteq audit'[sth]
  BY <1>2 DEF StoreSthFails, store_sth, TypeOK
<1>3. \/ UNCHANGED audit
      \/ \E x, ok : Record(x, ok)
      \/ \E x : StoreSthFails(x)
  BY Zenon DEF Next, vars, log, Update, GetSthFails, SameSth, OlderSth, NewerSth,
         OldSthProof, OldSthProofFails, GoodProof, BadProof, ProofRequestFails,
         CheckNewSth, UpdateEntries, Consume, FetchFails, ScanDone, ScanFails,
         VerifyNewTree, ReporterWrites, Crash, Restart
<1> QED BY <1>1, <1>2, <1>3

Adopted(s) == {s.vsth, s.psth} \ {NoSTH}

Recorded == {sth \in STHs : "VERIFIED" \in audit[sth]}

(* An STH is adopted, in memory or on disk, only with a VERIFIED record.   *)
THEOREM AdoptedAlwaysRecorded == Spec => []AdoptedIsRecorded
<1> DEFINE J == Adopted(mem) \cup Adopted(file.state) \subseteq Recorded
<1>1. Init => J
  BY DEF Init, NoState, Adopted
<1>2. IInv /\ J /\ [Next]_vars => J'
  <2> SUFFICES ASSUME IInv, J, [Next]_vars PROVE J'
    OBVIOUS
  <2>1. Recorded \subseteq Recorded'
    BY AuditGrows DEF Recorded, IInv
  <2>2. CASE UNCHANGED <<mem, file>>
    BY <2>1, <2>2 DEF Adopted
  <2>3. CASE mem' = file.state /\ UNCHANGED file
    BY <2>1, <2>3 DEF Adopted
  <2>4. ASSUME NEW s \in State, Writes(s) PROVE J'
    <3>1. Adopted(s) \subseteq Recorded'
      BY <2>1, <2>4 DEF Writes, Adopts, Adopted, Recorded
    <3>2. CASE Save(s)
      BY <3>1, <3>2 DEF Save, Adopted
    <3>3. CASE SaveFails(s)
      <4>1. Adopted(mem') = Adopted(mem)
        BY <3>3 DEF SaveFails, Adopted, State, IInv, TypeOK
      <4>2. file' \in {file, [state |-> s, intact |-> TRUE]} \cup Torn(s)
        BY <3>3 DEF SaveFails
      <4>3. ASSUME NEW f \in Torn(s) PROVE Adopted(f.state) \subseteq Adopted(s)
        BY <4>3, TornParts DEF Adopted
      <4>4. CASE file' \in Torn(s)
        <5>1. Adopted(file'.state) \subseteq Adopted(s)
          BY <4>3, <4>4
        <5>2. QED BY <4>1, <5>1, <3>1, <2>1 DEF Adopted
      <4>5. CASE file' = file
        BY <4>1, <4>5, <2>1 DEF Adopted
      <4>6. CASE file' = [state |-> s, intact |-> TRUE]
        <5>1. file'.state = s
          BY <4>6
        <5>2. QED BY <4>1, <5>1, <3>1, <2>1 DEF Adopted
      <4> QED BY <4>2, <4>4, <4>5, <4>6
    <3> QED BY <2>4, <3>2, <3>3 DEF Writes
  <2> QED BY <2>2, <2>3, <2>4, NextWrites
<1>3. J => AdoptedIsRecorded
  BY DEF AdoptedIsRecorded, Adopted, Recorded
<1> QED BY <1>1, <1>2, <1>3, MonitorSound, PTL DEF Spec

-----------------------------------------------------------------------------
(* The STH in the file is the verified one, or a successor whose write was *)
(* reported as failed: a restart can only advance.                         *)
FileNotBehind ==
  \/ file.state.vsth = mem.vsth
  \/ file.state.vsth \in STHs /\ View!Extends(file.state.vsth, mem.vsth)

(* When a failed write leaves the old or the new file, the verified STH    *)
(* never rewinds, whatever fails and however often the monitor restarts.   *)
THEOREM MonitorImplementsLogView ==
  ASSUME TornWrites = FALSE
  PROVE  Spec => NeverRewinds
<1>1. Init => FileNotBehind /\ View!ViewInit
  BY DEF Init, FileNotBehind, View!ViewInit, NoState, NoSTH, View!NoSTH
<1>2. IInv /\ FileNotBehind /\ [Next]_vars
        => FileNotBehind' /\ [View!ViewNext]_(mem.vsth)
  <2> SUFFICES ASSUME IInv, FileNotBehind, [Next]_vars
               PROVE  FileNotBehind' /\ [View!ViewNext]_(mem.vsth)
    OBVIOUS
  <2>1. CASE UNCHANGED <<mem, file>>
    BY <2>1 DEF FileNotBehind, View!Extends
  <2>2. CASE mem' = file.state /\ UNCHANGED file
    BY <2>2 DEF FileNotBehind, View!ViewNext, View!Advance
  <2>3. ASSUME NEW s \in State, Writes(s)
        PROVE  FileNotBehind' /\ [View!ViewNext]_(mem.vsth)
    <3>1. \/ s.vsth = mem.vsth
          \/ s.vsth \in STHs /\ View!Extends(s.vsth, mem.vsth)
      <4>1. CASE mem.psth # NoSTH /\ s.vsth = mem.psth
        <5>1. mem.psth \in STHs /\ mem.vsth \in STHs \cup {NoSTH}
          BY <4>1 DEF IInv, TypeOK, State
        <5>2. CASE mem.vsth = NoSTH
          BY <4>1, <5>1, <5>2 DEF IInv, Sound, Ahead, View!Extends, NoSTH,
                                  View!NoSTH
        <5>3. CASE mem.vsth \in STHs
          BY <4>1, <5>1, <5>3, SthFacts DEF IInv, Sound, Ahead, View!Extends
        <5> QED BY <5>1, <5>2, <5>3
      <4> QED BY <2>3, <4>1 DEF Writes, Adopts
    <3>2. CASE Save(s)
      BY <3>1, <3>2 DEF Save, FileNotBehind, View!ViewNext, View!Advance
    <3>3. CASE SaveFails(s)
      <4>1. mem'.vsth = mem.vsth
        BY <3>3 DEF SaveFails, State
      <4>2. file' = file \/ file'.state = s
        BY <3>3 DEF SaveFails
      <4> QED BY <3>1, <4>1, <4>2 DEF FileNotBehind, View!Extends
    <3> QED BY <2>3, <3>2, <3>3 DEF Writes
  <2> QED BY <2>1, <2>2, <2>3, NextWrites
<1> QED BY <1>1, <1>2, MonitorSound, PTL
        DEF Spec, NeverRewinds, View!ViewSpec

=============================================================================
