------------------------- MODULE MCExtractionQueue -------------------------
(* Small instances of ExtractionQueue for TLC; each cfg picks its constants. *)
EXTENDS ExtractionQueue, TLC

CONSTANTS a, b, w1, w2

WorkerSymmetry == Permutations({w1, w2})

\* 1 and 2 are postings of one flat, 3 is a good morning, 4 will be unreadable.
Backlog == [m \in Messages |-> IF m = 3 THEN {} ELSE {a}]
\* Two postings that share both flats, for two workers.
Reposts == [m \in {1, 2} |-> CASE m = 1 -> {a} [] m = 2 -> {a, b}]
OneRepost == [m \in {1, 2} |-> {a}]

NoFaults == [k \in Kinds |-> 0]
\* What goes wrong while results are applied, besides the unreadable message.
ApplyingFaults ==
    [k \in Kinds |-> IF k \in {"crash", "owner", "apply", "misread"} THEN 1 ELSE 0]
CrashOwnerApply == [k \in Kinds |-> IF k \in {"crash", "owner", "apply"} THEN 1 ELSE 0]
NetAndRate == [k \in Kinds |-> IF k \in {"net", "rate"} THEN 2 ELSE 0]
=============================================================================
