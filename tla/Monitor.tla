------------------------------ MODULE Monitor ------------------------------
(***************************************************************************)
(* The log monitor, src/python/ct/client/monitor.py, with its state file   *)
(* (state.py), the STH audit records it keeps in the log database and the  *)
(* certificate reporter it feeds.                                          *)
(*                                                                         *)
(* Monitor.update runs on the Twisted reactor: a chain of callbacks that   *)
(* waits for the log (get-sth, get-sth-consistency, get-entries) and for   *)
(* the thread that scans a fetched batch.  The prober starts the next      *)
(* update only when the previous one has returned, but a scan thread and   *)
(* the check of an old STH outlive the update that started them.  Every    *)
(* action below is one run of the reactor between two such waits.  The     *)
(* process can crash at any point and restart from the state file.         *)
(***************************************************************************)
EXTENDS LogTree, FiniteSets

CONSTANTS
  STHs,           \* the signed tree heads the log serves, in any order
  LogTrees,       \* the trees whose leaves the log serves as entries
  Crashes,        \* whether the process may crash
  TornWrites,     \* whether an interrupted write may leave a partial file
  MaxFaults,      \* bound: failed calls, bad answers, write errors, crashes
  MaxScans,       \* bound: scan threads that are running at the same time
  MaxOldChecks    \* bound: unfinished checks of old STHs

ASSUME MonitorAssumption ==
  /\ STHs \subseteq STH
  /\ \A s \in STHs : s.root # NoRoot
  /\ LogTrees \subseteq Tree
  /\ Crashes \in BOOLEAN /\ TornWrites \in BOOLEAN
  /\ MaxFaults \in Nat /\ MaxScans \in Nat /\ MaxOldChecks \in Nat

VARIABLES
  mem,        \* __state's two STHs, _verified_tree and _unverified_tree
  file,       \* the state file: a saved mem, and whether it can be parsed
  pc,         \* where the current update is
  cand,       \* the STH whose consistency with the verified one is checked
  ctree,      \* the tree of the EntryConsumer
  scans,      \* the scan threads: a slot is free when from = to
  oldChecks,  \* unfinished checks that an old STH leads to a verified one
  audit,      \* the log database: the statuses stored for each STH
  queued,     \* entries handed to the reporter and not yet in the cert DB
  reported,   \* entries in the certificate DB
  faults

log == <<audit, oldChecks>>
report == <<queued, reported>>
vars == <<mem, file, pc, cand, ctree, scans, oldChecks, audit, queued,
          reported, faults>>

Status == {"UNVERIFIED", "VERIFY_ERROR", "VERIFIED"}

(* MonitorState and its default value, that of a first run.                *)
State == [vsth : STHs \cup {NoSTH}, psth : STHs \cup {NoSTH},
          vtree : Tree, utree : Tree]

NoState == [vsth |-> NoSTH, psth |-> NoSTH, vtree |-> Empty, utree |-> Empty]

Scan == [live : BOOLEAN, from : Tree, to : Tree]

NoScan == [live |-> FALSE, from |-> Empty, to |-> Empty]

TypeOK ==
  /\ mem \in State
  /\ file \in [state : State, intact : BOOLEAN]
  /\ pc \in {"idle", "get_sth", "check_sth", "entries", "fetch", "verify",
             "down"}
  /\ cand \in STHs \cup {NoSTH}
  /\ ctree \in Tree
  /\ scans \in [1..MaxScans -> Scan]
  /\ oldChecks \subseteq (STHs \X STHs)
  /\ audit \in [STHs -> SUBSET Status]
  /\ queued \subseteq Tree
  /\ reported \subseteq Tree
  /\ faults \in 0..MaxFaults

Init ==
  /\ mem = NoState
  /\ file = [state |-> NoState, intact |-> TRUE]
  /\ pc = "idle"
  /\ cand = NoSTH
  /\ ctree = Empty
  /\ scans = [i \in 1..MaxScans |-> NoScan]
  /\ oldChecks = {}
  /\ audit = [s \in STHs |-> {}]
  /\ queued = {}
  /\ reported = {}
  /\ faults = 0

Fault == faults < MaxFaults /\ faults' = faults + 1

(* The reactor can run a callback: the process is up and no chain of       *)
(* callbacks is in the middle of its synchronous part.                     *)
Reactor == pc \notin {"down", "entries", "verify"}

-----------------------------------------------------------------------------
(* StateKeeper and __update_state.                                         *)

(* What is left of a state whose write was cut short: the fields are       *)
(* serialized in the order of their numbers, a cut between two of them     *)
(* still parses and a cut inside one does not.                             *)
Torn(s) ==
  {[state |-> NoState, intact |-> TRUE],
   [state |-> [NoState EXCEPT !.vsth = s.vsth], intact |-> TRUE],
   [state |-> [NoState EXCEPT !.vsth = s.vsth, !.psth = s.psth],
    intact |-> TRUE],
   [state |-> [s EXCEPT !.utree = Empty], intact |-> TRUE],
   [state |-> NoState, intact |-> FALSE]}

Save(new) ==
  /\ mem' = new
  /\ file' = [state |-> new, intact |-> TRUE]

(* Mutant: __state is assigned before the file is written.                 *)
SaveFailsLate(new) ==
  /\ Fault
  /\ mem' = new
  /\ file' \in {file, [state |-> new, intact |-> TRUE]}

(* write raises WriteError: the trees are already replaced in memory,      *)
(* __state is not.  A crash in the middle of write is this and a Crash.    *)
SaveFails(new) ==
  /\ Fault
  /\ mem' = [new EXCEPT !.vsth = mem.vsth, !.psth = mem.psth]
  /\ file' \in {file, [state |-> new, intact |-> TRUE]}
               \cup (IF TornWrites THEN Torn(new) ELSE {})

-----------------------------------------------------------------------------
(* Consistency of two STHs.                                                *)

(* get_sth_consistency answers by itself when no proof is needed.          *)
NoProofNeeded(old, new) == TreeSize(old) \in {0, TreeSize(new)}

(* Mutant: two trees of the same size are taken to be equal.               *)
ConsistentBySize(old, new, proofOk) ==
  /\ old.ts = new.ts => TreeSize(old) = TreeSize(new)
  /\ \/ TreeSize(old) = TreeSize(new)
     \/ TreeSize(old) = 0 /\ TreeSize(new) > 0
     \/ /\ TreeSize(old) > 0
        /\ TreeSize(old) < TreeSize(new)
        /\ Prefix(old.root, new.root)
        /\ proofOk

(* verify_sth_consistency returns True for a proof that is right or wrong. *)
Consistent(old, new, proofOk) ==
  /\ old.ts = new.ts => TreeSize(old) = TreeSize(new)
  /\ \/ TreeSize(old) = TreeSize(new) /\ old.root = new.root
     \/ TreeSize(old) = 0 /\ TreeSize(new) > 0
     \/ /\ TreeSize(old) > 0
        /\ TreeSize(old) < TreeSize(new)
        /\ Prefix(old.root, new.root)
        /\ proofOk

(* Mutant: a duplicate STH is ignored even if the audit data differs.      *)
store_sthOnce(rows, status) == IF rows = {} THEN {status} ELSE rows

(* store_sth of the log database, on the rows of one STH: a row is unique  *)
(* in the STH and its audit info, so an insert adds one unless an exact    *)
(* copy is there.  (The comment above store_sth says a duplicate STH is    *)
(* ignored "even if the audit data differs"; the table's UNIQUE clause and *)
(* store_sth's own docstring say what is modelled.)                        *)
store_sth(rows, status) == rows \cup {status}

(* __verify_consistency_callback: the audit records it leaves for sth.     *)
Record(sth, ok) ==
  audit' = [audit EXCEPT ![sth] =
              store_sth(store_sth(@, "UNVERIFIED"),
                        IF ok THEN "VERIFIED" ELSE "VERIFY_ERROR")]

IsOlder(sth) == mem.vsth # NoSTH /\ sth.ts < mem.vsth.ts

(* The log database raises in the middle of these, which ends the update.  *)
(* It is no VerifyError: nothing is rolled back.                           *)
StoreSthFails(sth) ==
  /\ \/ pc = "get_sth" /\ ~IsOlder(sth) /\ NoProofNeeded(mem.vsth, sth)
     \/ pc = "check_sth" /\ sth = cand
     \/ pc = "verify" /\ sth = mem.psth
  /\ Fault
  /\ \/ UNCHANGED audit
     \/ audit' = [audit EXCEPT ![sth] = store_sth(@, "UNVERIFIED")]
  /\ pc' = "idle"
  /\ cand' = NoSTH
  /\ UNCHANGED <<mem, file, ctree, scans, oldChecks, report>>

(* _set_pending_sth.  The ValueError of a timestamp that is not newer ends *)
(* the update.                                                             *)
SetPendingSth(sth) ==
  LET new == IF TreeSize(sth) > TreeSize(mem.vsth)
             THEN [mem EXCEPT !.psth = sth]
             ELSE [mem EXCEPT !.vsth = sth]
  IN  \/ sth.ts <= mem.vsth.ts /\ pc' = "idle" /\ UNCHANGED <<mem, file, faults>>
      \/ /\ sth.ts > mem.vsth.ts
         /\ Save(new)
         /\ pc' = "entries"
         /\ UNCHANGED faults
      \/ sth.ts > mem.vsth.ts /\ SaveFails(new) /\ pc' = "idle"

(* The verified STH against the new one, and what follows.                 *)
CheckNewSth(sth, proofOk) ==
  /\ Record(sth, Consistent(mem.vsth, sth, proofOk))
  /\ IF Consistent(mem.vsth, sth, proofOk)
     THEN SetPendingSth(sth)
     ELSE pc' = "idle" /\ UNCHANGED <<mem, file, faults>>

-----------------------------------------------------------------------------
(* _update_sth: get-sth and its callback.                                  *)

Update ==
  /\ pc = "idle"
  /\ pc' = IF mem.psth # NoSTH THEN "entries" ELSE "get_sth"
  /\ UNCHANGED <<mem, file, cand, ctree, scans, log, report, faults>>

(* The request fails, or the answer is not older and its signature is bad. *)
GetSthFails ==
  /\ pc = "get_sth"
  /\ Fault
  /\ pc' = "idle"
  /\ UNCHANGED <<mem, file, cand, ctree, scans, log, report>>

SameSth ==
  /\ pc = "get_sth"
  /\ mem.vsth # NoSTH
  /\ pc' = "entries"
  /\ UNCHANGED <<mem, file, cand, ctree, scans, log, report, faults>>

(* An older STH is checked against the verified one, nobody waits for the  *)
(* result, and the update returns False.  One that is bigger makes         *)
(* get_sth_consistency raise, with the same result and no check.           *)
OlderSth(sth) ==
  /\ pc = "get_sth"
  /\ IsOlder(sth)
  /\ pc' = "idle"
  /\ \/ /\ TreeSize(sth) > TreeSize(mem.vsth)
        /\ UNCHANGED log
     \/ /\ NoProofNeeded(sth, mem.vsth)
        /\ Record(mem.vsth, Consistent(sth, mem.vsth, TRUE))
        /\ UNCHANGED oldChecks
     \/ /\ TreeSize(sth) < TreeSize(mem.vsth)
        /\ ~NoProofNeeded(sth, mem.vsth)
        /\ Cardinality(oldChecks) < MaxOldChecks
        /\ oldChecks' = oldChecks \cup {<<sth, mem.vsth>>}
        /\ UNCHANGED audit
  /\ UNCHANGED <<mem, file, cand, ctree, scans, report, faults>>

(* The proof for an old STH arrives, or never does.                        *)
OldSthProof(check, proofOk) ==
  /\ Reactor
  /\ oldChecks' = oldChecks \ {check}
  /\ Record(check[2], Consistent(check[1], check[2], proofOk))
  /\ IF proofOk THEN UNCHANGED faults ELSE Fault
  /\ UNCHANGED <<mem, file, pc, cand, ctree, scans, report>>

OldSthProofFails(check) ==
  /\ Reactor
  /\ oldChecks' = oldChecks \ {check}
  /\ Fault
  /\ UNCHANGED <<mem, file, pc, cand, ctree, scans, audit, report>>

(* A validly signed STH that is not older; it may be the verified one      *)
(* signed again.  A smaller one makes get_sth_consistency raise.           *)
NewerSth(sth) ==
  /\ pc = "get_sth"
  /\ ~IsOlder(sth)
  /\ \/ /\ TreeSize(sth) < TreeSize(mem.vsth)
        /\ pc' = "idle"
        /\ UNCHANGED <<mem, file, cand, audit, faults>>
     \/ /\ NoProofNeeded(mem.vsth, sth)
        /\ CheckNewSth(sth, TRUE)
        /\ UNCHANGED cand
     \/ /\ TreeSize(sth) > TreeSize(mem.vsth)
        /\ ~NoProofNeeded(mem.vsth, sth)
        /\ pc' = "check_sth"
        /\ cand' = sth
        /\ UNCHANGED <<mem, file, audit, faults>>
  /\ UNCHANGED <<ctree, scans, oldChecks, report>>

(* get-sth-consistency answers with a right or a wrong proof, or fails.    *)
GoodProof ==
  /\ pc = "check_sth"
  /\ CheckNewSth(cand, TRUE)
  /\ cand' = NoSTH
  /\ UNCHANGED <<ctree, scans, oldChecks, report>>

BadProof ==
  /\ pc = "check_sth"
  /\ Record(cand, FALSE)
  /\ Fault
  /\ pc' = "idle"
  /\ cand' = NoSTH
  /\ UNCHANGED <<mem, file, ctree, scans, oldChecks, report>>

ProofRequestFails ==
  /\ pc = "check_sth"
  /\ Fault
  /\ pc' = "idle"
  /\ cand' = NoSTH
  /\ UNCHANGED <<mem, file, ctree, scans, log, report>>

-----------------------------------------------------------------------------
(* _update_entries: fetching, scanning and verifying the pending entries.  *)

UpdateEntries ==
  /\ pc = "entries"
  /\ \/ mem.psth = NoSTH /\ pc' = "idle" /\ UNCHANGED ctree
     \/ /\ mem.psth # NoSTH
        /\ pc' = IF TreeSize(mem.psth) > Size(mem.utree) THEN "fetch"
                                                         ELSE "verify"
        /\ ctree' = mem.utree
  /\ UNCHANGED <<mem, file, cand, scans, log, report, faults>>

LiveScan == \E i \in 1..MaxScans : scans[i].live

Orphaned == [i \in 1..MaxScans |-> [scans[i] EXCEPT !.live = FALSE]]

FreeScans == {i \in 1..MaxScans : scans[i].from = scans[i].to}

(* deferToThread(_scan_entries, batch).                                    *)
StartScan(live, t) ==
  \E i \in FreeScans :
    scans' = [scans EXCEPT ![i] = [live |-> live, from |-> ctree, to |-> t]]

(* EntryConsumer.consume: a batch extends the consumer's tree to t.  The   *)
(* producer hands over the next batch when the scan of the last is over.   *)
(* A batch that does not hold the log's entries is a fault.  When the      *)
(* state cannot be written the producer fails and the scan runs on.        *)
Consume(t) ==
  LET new == [mem EXCEPT !.utree = t]
      wrong == ctree \in LogTrees /\ t \notin LogTrees
  IN  /\ pc = "fetch"
      /\ ~LiveScan
      /\ Prefix(ctree, t)
      /\ Size(t) > Size(ctree)
      /\ Size(t) <= TreeSize(mem.psth)
      /\ ctree' = t
      /\ \/ /\ Save(new)
            /\ IF wrong THEN Fault ELSE UNCHANGED faults
            /\ StartScan(TRUE, t)
            /\ UNCHANGED pc
         \/ /\ SaveFails(new)
            /\ StartScan(FALSE, t)
            /\ pc' = "idle"
      /\ UNCHANGED <<cand, log, report>>

(* The producer gives up; a scan it was waiting for runs on.               *)
FetchFails ==
  /\ pc = "fetch"
  /\ Fault
  /\ pc' = "idle"
  /\ scans' = Orphaned
  /\ UNCHANGED <<mem, file, cand, ctree, log, report>>

(* Mutant: every batch is taken for the last.                              *)
ScanDoneAlwaysLast(i) ==
  /\ Reactor
  /\ i \notin FreeScans
  /\ queued' = queued \cup Entries(scans[i].from, scans[i].to)
  /\ scans' = [scans EXCEPT ![i] = NoScan]
  /\ pc' = IF scans[i].live THEN "verify" ELSE pc
  /\ UNCHANGED <<mem, file, cand, ctree, log, reported, faults>>

(* _scan_entries has queued the certificates of its batch.  When the       *)
(* producer waited for it and the batch was the last, done verifies.       *)
ScanDone(i) ==
  /\ Reactor
  /\ i \notin FreeScans
  /\ queued' = queued \cup Entries(scans[i].from, scans[i].to)
  /\ scans' = [scans EXCEPT ![i] = NoScan]
  /\ pc' = IF scans[i].live /\ Size(ctree) = TreeSize(mem.psth)
           THEN "verify" ELSE pc
  /\ UNCHANGED <<mem, file, cand, ctree, log, reported, faults>>

(* _scan_entries raised: _scan_entries_errback rolls the unverified tree   *)
(* back, whether or not the state can be written, and fails the producer   *)
(* if that waits for this scan.                                            *)
ScanFails(i) ==
  /\ Reactor
  /\ i \notin FreeScans
  /\ SaveFails([mem EXCEPT !.utree = mem.vtree])
  /\ scans' = [scans EXCEPT ![i] = NoScan]
  /\ pc' = IF scans[i].live THEN "idle" ELSE pc
  /\ UNCHANGED <<cand, ctree, log, report>>

(* _verify_new_tree.  It is only called with a tree of the pending size    *)
(* (VerifiesWholeTree), so the check needs no proof from the log.          *)
Projected(t) == [ts |-> 0, root |-> t]

(* Mutant: ClearField("pending_sth") is forgotten.                         *)
SetVerifiedTreeKeepsPending ==
  LET new == [mem EXCEPT !.vtree = ctree, !.vsth = mem.psth]
  IN  /\ Save(new)
      /\ reported' = reported \cup queued
      /\ queued' = {}
      /\ UNCHANGED faults

(* _set_verified_tree: the report is flushed once the state is saved.      *)
SetVerifiedTree ==
  LET new == [mem EXCEPT !.vtree = ctree, !.vsth = mem.psth, !.psth = NoSTH]
  IN  \/ /\ Save(new)
         /\ reported' = reported \cup queued
         /\ queued' = {}
         /\ UNCHANGED faults
      \/ SaveFails(new) /\ UNCHANGED report

(* Mutant: back to the root of the verified STH, which may be unset.       *)
RollBackToSth ==
  /\ Save([mem EXCEPT !.utree = mem.vsth.root])
  /\ UNCHANGED <<report, faults>>

(* Mutant: the state is saved and the unverified tree kept.                *)
RollBackNothing == Save(mem) /\ UNCHANGED <<report, faults>>

(* _verify_new_tree_errback.                                               *)
RollBack ==
  LET new == [mem EXCEPT !.utree = mem.vtree]
  IN  /\ (Save(new) /\ UNCHANGED faults) \/ SaveFails(new)
      /\ UNCHANGED report

(* Mutant: a mismatch is retried on the spot.                              *)
VerifyNewTreeRetries ==
  LET ok == Consistent(Projected(ctree), mem.psth, TRUE)
  IN  /\ pc = "verify"
      /\ Record(mem.psth, ok)
      /\ \/ ok /\ SetVerifiedTree /\ pc' = "idle"
         \/ ~ok /\ pc' = "entries" /\ UNCHANGED <<mem, file, report, faults>>
      /\ UNCHANGED <<cand, ctree, scans, oldChecks>>

VerifyNewTree ==
  LET ok == Consistent(Projected(ctree), mem.psth, TRUE)
  IN  /\ pc = "verify"
      /\ Size(ctree) = TreeSize(mem.psth)
      /\ Record(mem.psth, ok)
      /\ IF ok THEN SetVerifiedTree ELSE RollBack
      /\ pc' = "idle"
      /\ UNCHANGED <<cand, ctree, scans, oldChecks>>

(* The reporter's pool and writer threads finish the queued certificates.  *)
ReporterWrites ==
  /\ pc # "down"
  /\ queued # {}
  /\ \E p \in queued : queued' = queued \ {p} /\ reported' = reported \cup {p}
  /\ UNCHANGED <<mem, file, pc, cand, ctree, scans, log, faults>>

-----------------------------------------------------------------------------
Crash ==
  /\ Crashes
  /\ pc # "down"
  /\ Fault
  /\ pc' = "down"
  /\ cand' = NoSTH
  /\ scans' = [i \in 1..MaxScans |-> NoScan]
  /\ oldChecks' = {}
  /\ queued' = {}
  /\ UNCHANGED <<mem, file, ctree, audit, reported>>

(* Monitor.__init__.  A state file that cannot be parsed raises.           *)
Restart ==
  /\ pc = "down"
  /\ file.intact
  /\ mem' = file.state
  /\ pc' = "idle"
  /\ UNCHANGED <<file, cand, ctree, scans, log, report, faults>>

Next ==
  \/ Update \/ GetSthFails \/ SameSth
  \/ \E sth \in STHs : OlderSth(sth) \/ NewerSth(sth) \/ StoreSthFails(sth)
  \/ \E check \in oldChecks :
       \/ \E proofOk \in BOOLEAN : OldSthProof(check, proofOk)
       \/ OldSthProofFails(check)
  \/ GoodProof \/ BadProof \/ ProofRequestFails
  \/ UpdateEntries
  \/ \E t \in Tree : Consume(t)
  \/ FetchFails
  \/ \E i \in 1..MaxScans : ScanDone(i) \/ ScanFails(i)
  \/ VerifyNewTree
  \/ ReporterWrites
  \/ Crash \/ Restart

Spec == Init /\ [][Next]_vars

(* The reactor runs the callbacks that are due, threads run, the log       *)
(* answers (with an answer that is a fault as long as faults remain), the  *)
(* prober calls update again, and a supervisor restarts the process.  That *)
(* the log answers is an assumption: no response timeout is set.           *)
Answer == \/ SameSth \/ \E sth \in STHs : OlderSth(sth) \/ NewerSth(sth)

Fairness ==
  /\ WF_vars(Update)
  /\ WF_vars(Answer)
  /\ WF_vars(GoodProof)
  /\ WF_vars(UpdateEntries)
  /\ WF_vars(\E t \in Tree : Consume(t))
  /\ \A i \in 1..MaxScans : WF_vars(ScanDone(i))
  /\ WF_vars(VerifyNewTree)
  /\ WF_vars(Restart)

FairSpec == Spec /\ Fairness

-----------------------------------------------------------------------------
(* Properties.                                                             *)

Root(sth) == IF sth.root = NoRoot THEN Empty ELSE sth.root

(* A pending STH is newer and bigger than the verified one and extends its *)
(* tree, in memory and in the file that a restart will read, whatever      *)
(* writes failed (client.proto, MonitorState.pending_sth).                 *)
Ahead(s) ==
  s.psth # NoSTH =>
    /\ s.psth.ts > s.vsth.ts
    /\ TreeSize(s.psth) > TreeSize(s.vsth)
    /\ Prefix(Root(s.vsth), Root(s.psth))

PendingAhead == Ahead(mem) /\ Ahead(file.state)

(* The verified tree is consistent with the verified STH                   *)
(* (client.proto, MonitorState.verified_tree), also after a failed write   *)
(* has replaced one of the two and a restart has read back a part of them. *)
VerifiedTreeConsistent ==
  \A s \in {mem, file.state} :
    Prefix(s.vtree, Root(s.vsth)) \/ Prefix(Root(s.vsth), s.vtree)

(* Whatever scans of earlier updates have done to the unverified tree, it  *)
(* is never bigger than the pending STH, and a tree is compared with the   *)
(* pending STH only when all its entries are there: get_sth_consistency    *)
(* does not raise out of _update_entries, which no errback would catch, so *)
(* update returns and the prober goes on.                                  *)
VerifiesWholeTree ==
  /\ mem.psth # NoSTH => Size(mem.utree) <= TreeSize(mem.psth)
  /\ pc \in {"fetch", "verify"} => mem.psth # NoSTH
  /\ pc = "verify" => Size(ctree) = TreeSize(mem.psth)

(* An STH that is verified or pending, in memory or in the state file, has *)
(* its VERIFIED record in the log database: the database is written first  *)
(* and a crash between the two writes cannot leave it behind.  It rests on *)
(* the database keeping VERIFIED beside the UNVERIFIED of the same STH.    *)
AdoptedIsRecorded ==
  \A s \in {mem, file.state} : \A sth \in {s.vsth, s.psth} \ {NoSTH} :
    "VERIFIED" \in audit[sth]

(* When no scan is running and no certificate is queued, every entry under *)
(* the verified STH is in the certificate DB (_set_verified_tree: "we just *)
(* set new verified tree, so we report all changes").                      *)
QuietMeansReported ==
  /\ pc = "idle"
  /\ FreeScans = 1..MaxScans
  /\ queued = {}
  => Entries(Empty, Root(mem.vsth)) \subseteq reported

View == INSTANCE LogView WITH view <- mem.vsth

(* The verified STH only moves forward to newer STHs that extend it, over  *)
(* all updates, failed writes, crashes and restarts ("we should not rewind *)
(* to older data").                                                        *)
NeverRewinds == View!ViewSpec

(* Every update returns, so that the prober can start the next one.        *)
UpdateReturns == pc # "idle" ~> pc = "idle"

(* Once faults stop, what is pending gets verified: no sequence of failed  *)
(* fetches, scans, writes, proofs and crashes leaves a state the monitor   *)
(* cannot get out of.                                                      *)
PendingIsVerified == mem.psth # NoSTH ~> mem.psth = NoSTH

=============================================================================
