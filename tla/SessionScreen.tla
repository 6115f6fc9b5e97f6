---------------------------- MODULE SessionScreen ---------------------------
(* What the owner's pairing screen says of the gateway: the reports the      *)
(* gateway sends of its state, which nothing orders and which may be lost    *)
(* (gateway/src/index.js, reportSession of ingest.js), the row they end up   *)
(* in, and what is answered from it (report_session and get_session of       *)
(* routers/whatsapp.py).  Pairing has the sockets behind the states.  Left   *)
(* out: the account's name and number, and the text of the last error.       *)
(*                                                                           *)
(* Time passes in ticks of ten seconds, and is kept as ages.                 *)
EXTENDS Naturals, FiniteSets

CONSTANTS
    TTL,          \* a code may be shown this long after its report (qr_ttl_seconds)
    Beat,         \* between two heartbeats
    StaleAfter,   \* SESSION_STALE_AFTER
    Rotation,     \* bound: WhatsApp replaces a code, or gives up, at this age
    Delay,        \* bound: how long a report travels
    MaxAir        \* bound: reports under way

VARIABLES
    gate,         \* the gateway: is it up, currentState, the age of its code
    down,         \* history: how long it has been down
    beat,         \* since the last heartbeat was due
    air,          \* reports on their way
    row,          \* whatsapp_session
    steady,       \* history: since the state changed, or a report was lost
    missed        \* history: reports lost since one arrived; many, when it starts

vars == <<gate, beat, air, row, down, steady, missed>>

States == {"connecting", "qr", "connected", "disconnected", "logged_out"}

Settled == Beat + 2 * Delay
OldestCode == Delay + TTL

(* Two heartbeats may go missing, or two codes, before a report is stale,    *)
(* and a report arrives before the next heartbeat is due.                    *)
TimesAreReal ==
    /\ {TTL, Beat, StaleAfter, Rotation, Delay, MaxAir} \subseteq Nat
    /\ 2 * Beat + Delay <= StaleAfter /\ 2 * Rotation + Delay <= StaleAfter
    /\ Delay <= Beat

Least(a, b) == IF a < b THEN a ELSE b

TypeOK ==
    /\ gate \in [up : BOOLEAN, state : States, turn : 0 .. Rotation]
    /\ down \in 0 .. StaleAfter + Delay + 1 /\ beat \in 0 .. Beat
    /\ air \subseteq [state : States, code : BOOLEAN, age : 0 .. Delay]
    /\ \A r \in air : r.code => r.state = "qr"
    /\ Cardinality(air) <= MaxAir
    /\ row \in [state : States, code : BOOLEAN, born : 0 .. OldestCode + 1,
                left : 0 .. TTL, age : 0 .. StaleAfter + 1]
    /\ steady \in 0 .. Settled + 1 /\ missed \in 0 .. 3

(* The row of the migration, before a gateway has ever run.                  *)
Init ==
    /\ gate = [up |-> FALSE, state |-> "connecting", turn |-> 0]
    /\ beat = 0 /\ air = {} /\ down = 0 /\ steady = 0 /\ missed = 0
    /\ row = [state |-> "disconnected", code |-> FALSE, born |-> 0, left |-> 0, age |-> 0]

-----------------------------------------------------------------------------
(* The gateway                                                               *)

(* void reportSession: nobody waits for it.                                  *)
Report(state, code) ==
    /\ Cardinality(air) < MaxAir
    /\ air' = air \cup {[state |-> state, code |-> code, age |-> 0]}

(* Every change of currentState is reported where it is made.                *)
Turns(state, code) ==
    /\ gate.up
    /\ Report(state, code)
    /\ gate' = [gate EXCEPT !.state = state, !.turn = 0]
    /\ steady' = IF state = gate.state THEN steady ELSE 0
    /\ UNCHANGED <<beat, row, down, missed>>

QrShown == gate.state \in {"connecting", "qr"} /\ Turns("qr", TRUE)
Opened == gate.state \in {"connecting", "qr"} /\ Turns("connected", FALSE)
Connecting == gate.state \notin {"qr", "logged_out"} /\ Turns("connecting", FALSE)

(* Logged out, the restart after a scan, or any other end of the socket.     *)
Closed ==
    /\ gate.state \in {"connecting", "qr", "connected"}
    /\ \E state \in {"logged_out", "connecting", "disconnected"} : Turns(state, FALSE)

(* startFreshPairing, which may fail, as may the first connect of main.      *)
Repairs == Turns("connecting", FALSE)
ConnectFails == gate.state \in {"connecting", "disconnected"} /\ Turns("disconnected", FALSE)

(* unhandledRejection and uncaughtException: whatever the state, no code.    *)
Carries == Turns(gate.state, FALSE)

(* A code is not interrupted by a heartbeat.                                 *)
Heartbeat ==
    /\ gate.up /\ beat = Beat
    /\ beat' = 0
    /\ IF gate.state = "qr" THEN UNCHANGED air ELSE Report(gate.state, FALSE)
    /\ UNCHANGED <<gate, row, down, steady, missed>>

(* A killed gateway says nothing; main starts by connecting.                 *)
Dies ==
    /\ gate.up
    /\ gate' = [up |-> FALSE, state |-> "connecting", turn |-> 0]
    /\ beat' = 0 /\ steady' = 0
    /\ UNCHANGED <<air, row, down, missed>>

Starts ==
    /\ ~gate.up
    /\ gate' = [gate EXCEPT !.up = TRUE]
    /\ down' = 0 /\ missed' = 3
    /\ UNCHANGED <<beat, air, row, steady>>

-----------------------------------------------------------------------------
(* The API                                                                   *)

\* Mutant: a report without a code leaves the one there is, and dates it anew.
WrittenKeeping(r) ==
    [row EXCEPT !.state = r.state, !.code = r.code \/ @, !.age = 0,
                !.born = IF r.code THEN r.age ELSE @, !.left = TTL]

(* report_session: only a report of "qr" carries a code, dated by arrival.   *)
Written(r) ==
    [state |-> r.state, code |-> r.code, age |-> 0,
     born |-> IF r.code THEN r.age ELSE 0,
     left |-> IF r.state = "qr" THEN TTL ELSE 0]

Arrives ==
    \E r \in air :
      /\ row' = Written(r) /\ missed' = 0
      /\ air' = air \ {r}
      /\ UNCHANGED <<gate, beat, down, steady>>

(* Best effort: a report that fails is not sent again.                       *)
Lost ==
    \E r \in air :
      /\ missed' = Least(3, missed + 1) /\ steady' = 0
      /\ air' = air \ {r}
      /\ UNCHANGED <<gate, beat, row, down>>

(* get_session                                                               *)
Stale == row.age > StaleAfter
CodeShown == row.code /\ row.left > 0 /\ ~Stale

-----------------------------------------------------------------------------
(* Ten seconds pass; whoever is due by then has been.                        *)
Tick ==
    /\ \A r \in air : r.age < Delay
    /\ gate.up => beat < Beat /\ (gate.state = "qr" => gate.turn < Rotation)
    /\ air' = {[r EXCEPT !.age = @ + 1] : r \in air}
    /\ row' = [row EXCEPT !.age = Least(@ + 1, StaleAfter + 1),
                          !.left = IF @ = 0 THEN 0 ELSE @ - 1,
                          !.born = IF row.code THEN Least(@ + 1, OldestCode + 1) ELSE 0]
    /\ gate' = [gate EXCEPT !.turn = IF gate.up /\ gate.state = "qr" THEN @ + 1 ELSE 0]
    /\ down' = IF gate.up THEN 0 ELSE Least(down + 1, StaleAfter + Delay + 1)
    /\ beat' = IF gate.up THEN beat + 1 ELSE 0
    /\ steady' = IF gate.up THEN Least(steady + 1, Settled + 1) ELSE 0
    /\ UNCHANGED missed

Next ==
    \/ QrShown \/ Opened \/ Connecting \/ Closed \/ Repairs \/ ConnectFails \/ Carries
    \/ Heartbeat \/ Dies \/ Starts
    \/ Arrives \/ Lost \/ Tick

Spec == Init /\ [][Next]_vars

-----------------------------------------------------------------------------
(* Properties                                                                *)

(* In whatever order reports arrive, the heartbeat puts the screen right: a  *)
(* state that has lasted, with no report lost, is the one on the screen, and *)
(* no code is next to it.                                                    *)
ScreenSettles ==
    gate.up /\ gate.state # "qr" /\ steady > Settled =>
      row.state = gate.state /\ ~CodeShown

(* "Never hand back a QR that has already rotated": none is shown for longer *)
(* than a late report can make it last.                                      *)
CodesPass == CodeShown => row.born < OldestCode

(* "The process is gone, not idle": a gateway that has been down for so long *)
(* shows as stale; one that is up does not, unless two reports in a row were  *)
(* lost, or none has arrived since it started.                               *)
StaleIsGone ==
    /\ down > StaleAfter + Delay => Stale
    /\ gate.up /\ Stale => missed >= 2

ScreenHolds == ScreenSettles /\ CodesPass /\ StaleIsGone
=============================================================================
