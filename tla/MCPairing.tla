----------------------------- MODULE MCPairing -----------------------------
(* Small instances of Pairing for TLC; each cfg picks its constants. *)
EXTENDS Pairing, TLC

CONSTANTS c1, c2

PressAndScan == "press" :> 1 @@ "scan" :> 1 @@ "mishap" :> 2
=============================================================================
