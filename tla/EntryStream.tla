---------------------------- MODULE EntryStream ----------------------------
(***************************************************************************)
(* What a producer of log entries promises to its consumer: the entries    *)
(* Start..End in order and once each, one batch at a time, and one result. *)
(* This is the producer as Monitor sees it in Consume, FetchFails and      *)
(* ScanDone.                                                               *)
(***************************************************************************)
EXTENDS Integers

CONSTANTS Start, End

VARIABLES
  next,       \* the first entry that is not yet written
  writing,    \* the consumer is still busy with the last batch
  result      \* "none", and then "all" or "failed"

Write ==
  /\ result = "none" /\ ~writing
  /\ \E n \in next + 1 .. End + 1 : next' = n
  /\ writing' = TRUE
  /\ UNCHANGED result

Written ==
  /\ writing
  /\ writing' = FALSE
  /\ UNCHANGED <<next, result>>

Finish ==
  /\ result = "none" /\ ~writing
  /\ next = End + 1
  /\ result' = "all"
  /\ UNCHANGED <<next, writing>>

(* The consumer may be what failed.                                        *)
Fail ==
  /\ result = "none"
  /\ result' = "failed"
  /\ writing' \in {writing, FALSE}
  /\ UNCHANGED next

StreamInit == next = Start /\ writing = FALSE /\ result = "none"

StreamNext == Write \/ Written \/ Finish \/ Fail

StreamSpec == StreamInit /\ [][StreamNext]_<<next, writing, result>>

=============================================================================
