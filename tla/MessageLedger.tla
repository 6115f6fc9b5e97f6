--------------------------- MODULE MessageLedger ---------------------------
(***************************************************************************)
(* What the extraction queue promises the inventory, with workers, claims, *)
(* retries and transactions abstracted away: a set of sightings that only  *)
(* ever grows, and only by all the flats of whole messages at a time.      *)
(* ("The message is the unit of work and the unit of failure",             *)
(* backend/app/ingestion.py.)                                              *)
(***************************************************************************)
CONSTANTS Messages, Flats, FlatsOf

VARIABLE sightings    \* pairs: this message was recorded as listing this flat

FlatsOfAll(S) == UNION {{m} \X FlatsOf[m] : m \in S}

Init == sightings = {}

\* One transaction records the messages of S; any of them may be known.
Record(S) == sightings' = sightings \cup FlatsOfAll(S)

Next == \E S \in SUBSET Messages : Record(S)

Spec == Init /\ [][Next]_sightings

=============================================================================
