-------------------------- MODULE MCEntryProducer --------------------------
(***************************************************************************)
(* Instances of EntryProducer for TLC.                                     *)
(***************************************************************************)
EXTENDS EntryProducer

NoneCached == {}

(* An earlier run was cut off inside the second batch.                     *)
SomeCached == 0..3

=============================================================================
