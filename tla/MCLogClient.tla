---------------------------- MODULE MCLogClient -----------------------------
(***************************************************************************)
(* Three operations against one host, so that they can find each other's   *)
(* connections in the pool: GetEntries of one caller, and QueryAuditProof  *)
(* of another, which is GetSTH and then QueryInclusionProof.               *)
(***************************************************************************)
EXTENDS LogClient

MCFetches == 1..3
MCHostOf == <<"a", "a", "a">>
MCKind == <<"GetEntries", "GetSTH", "QueryInclusionProof">>
MCAfter == <<None, None, 2>>

=============================================================================
