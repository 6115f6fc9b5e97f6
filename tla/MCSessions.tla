----------------------------- MODULE MCSessions -----------------------------
(* A small instance of Sessions for TLC: the owner 1 manages the account of  *)
(* the agent 2.                                                              *)
EXTENDS Sessions, TLC

CONSTANTS p, q

Team == {1, 2}
TheOwner == {1}
BothIn == <<1, 2>>
Duties == ({1} \X Managing) \cup ({2} \X (Ops \ Managing))

Alike == Permutations(Requests)
=============================================================================
