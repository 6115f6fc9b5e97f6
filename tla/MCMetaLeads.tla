---------------------------- MODULE MCMetaLeads ----------------------------
(* Small instances of MetaLeads for TLC; each cfg picks its constants. *)
EXTENDS MetaLeads, TLC

CONSTANTS p1, p2

\* 1 and 2 left one number, 3 left none.
Numbers == [l \in Leads |-> IF l = 3 THEN NoPhone ELSE "same"]

Events == "fail" :> 2 @@ "crash" :> 1
=============================================================================
