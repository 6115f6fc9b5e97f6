--------------------------- MODULE MCGatewayFeed ---------------------------
(* Small instances of GatewayFeed for TLC; each cfg picks its constants. *)
EXTENDS GatewayFeed

CONSTANTS g1, g2

\* Two messages of one group and one of another.
TwoGroups == [m \in {1, 2, 3} |-> IF m = 3 THEN g2 ELSE g1]
OneGroup == [m \in {1, 2, 3} |-> g1]
OneSecondApart == [m \in {1, 2, 3} |-> m]
\* The two groups of TwoGroups, in two seconds.
TwoSeconds == [m \in {1, 2, 3} |-> IF m = 2 THEN 2 ELSE 1]

NoFaults == [k \in Kinds |-> 0]
NothingTwice == [k \in Kinds |-> IF k \in {"torn", "repeat"} THEN 0 ELSE 1]
CrashLostRepeat == [NoFaults EXCEPT !["crash"] = 1, !["lost"] = 1, !["repeat"] = 1]
=============================================================================
