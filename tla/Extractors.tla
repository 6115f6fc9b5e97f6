----------------------------- MODULE Extractors -----------------------------
(* The processes that run the extraction loop (workers/whatsapp.py, the      *)
(* thread of main.py's lifespan), the one heartbeat row they share           *)
(* (heartbeat.py), and what the owner's feed screen says of them             *)
(* (ingestion_status of routers/whatsapp.py).  What a batch does to the      *)
(* queue is ExtractionQueue; here it takes time and ends in one of four      *)
(* ways.                                                                     *)
(*                                                                           *)
(* Time passes in ticks of thirty seconds, and is kept as ages.              *)
EXTENDS Naturals, FiniteSets

CONSTANTS
    Processes,    \* hosts and pids a loop may run as
    KindsOf,      \* how each may be started: "forever", alone or in the API, or "once"
    Keyed,        \* those that find a GROQ_API_KEY
    NoOne,        \* no heartbeat row
    StaleAfter,   \* STALE_AFTER of heartbeat.py
    ReclaimEvery, \* RECLAIM_EVERY_SECONDS
    ErrorSleep,   \* ERROR_SLEEP_SECONDS; IDLE_SLEEP_SECONDS is less than a tick
    Waits,        \* what RateLimited may ask for, five seconds to five minutes
    MaxBatch,     \* bound: how long a batch takes
    MaxStarts     \* bound: starts of a process

VARIABLES
    loop,         \* per process: see Loop
    beat,         \* the row of worker_heartbeats: who wrote it, and its age
    gone,         \* history: how long each process has not been running
    extra,        \* history: batches each began after it was asked to stop
    starts        \* history: starts so far

vars == <<loop, beat, gone, extra, starts>>

Kinds == {"forever", "once"}
Stages == {"down", "top", "beating", "batch", "asleep"}

ProcessesAreReal ==
    KindsOf \in [Processes -> SUBSET Kinds] /\ NoOne \notin Processes

TimesAreReal ==
    /\ StaleAfter \in Nat /\ ReclaimEvery \in Nat \ {0} /\ ErrorSleep \in Nat
    /\ MaxBatch \in Nat /\ MaxStarts \in Nat /\ Waits \subseteq Nat

(* "Two minutes is generous enough that a slow extraction batch is never     *)
(* mistaken for a dead process", also when the pause after an error follows. *)
BatchesAreShort == MaxBatch + ErrorSleep <= StaleAfter

(* quiet: since the batch began; since: since stalled claims were looked *)
(* for; left: of the sleep; heard: the last touch was written; limited: the  *)
(* sleep is one a rate limit asked for; stopping: _shutdown.                 *)
Loop == [kind : Kinds, stage : Stages, quiet : Nat, since : Nat, left : Nat,
         heard : BOOLEAN, limited : BOOLEAN, stopping : BOOLEAN]

(* last_reclaim is far in the past, so that the first pass always looks.     *)
Fresh(kind) == [kind |-> kind, stage |-> "top", quiet |-> 0, since |-> ReclaimEvery,
                left |-> 0, heard |-> FALSE, limited |-> FALSE, stopping |-> FALSE]

Down == [Fresh("forever") EXCEPT !.stage = "down"]

Up(p) == loop[p].stage # "down"
Forever(p) == Up(p) /\ loop[p].kind # "once"

Least(a, b) == IF a < b THEN a ELSE b
Age == 0 .. StaleAfter + 1

TypeOK ==
    /\ loop \in [Processes -> Loop]
    /\ beat \in [by : Processes \cup {NoOne}, age : Age]
    /\ gone \in [Processes -> Age] /\ \A p \in Processes : Up(p) => gone[p] = 0
    /\ extra \in [Processes -> Nat] /\ starts \in Nat
    /\ \A p \in Processes : loop[p].heard => beat.by # NoOne

Init ==
    /\ loop = [p \in Processes |-> Down]
    /\ beat = [by |-> NoOne, age |-> StaleAfter + 1]
    /\ gone = [p \in Processes |-> StaleAfter + 1]
    /\ extra = [p \in Processes |-> 0] /\ starts = 0

Goes(p, next) == loop' = [loop EXCEPT ![p] = next]

-----------------------------------------------------------------------------
(* A process                                                                 *)

(* main, or lifespan with extraction_in_api: without a key there is no loop. *)
Starts(p) ==
    /\ ~Up(p) /\ p \in Keyed
    /\ starts < MaxStarts /\ starts' = starts + 1
    /\ \E kind \in KindsOf[p] : Goes(p, Fresh(kind))
    /\ gone' = [gone EXCEPT ![p] = 0]
    /\ extra' = [extra EXCEPT ![p] = 0]
    /\ UNCHANGED beat

(* SIGTERM and SIGINT, or lifespan's end: a flag.                            *)
AskedToStop(p) ==
    /\ Up(p) /\ ~loop[p].stopping
    /\ Goes(p, [loop[p] EXCEPT !.stopping = TRUE])
    /\ UNCHANGED <<beat, gone, extra, starts>>

(* Killed, wherever it is; a daemon thread is abandoned when the API ends.   *)
Dies(p) ==
    /\ Up(p)
    /\ Goes(p, Down)
    /\ UNCHANGED <<beat, gone, extra, starts>>

-----------------------------------------------------------------------------
(* run_forever and run_once                                                  *)

(* while not _shutdown; --once keeps no heartbeat.                           *)
Top(p) ==
    /\ loop[p].stage = "top"
    /\ Goes(p, IF loop[p].stopping THEN Down
               ELSE [loop[p] EXCEPT !.stage = IF loop[p].kind = "once" THEN "batch"
                                              ELSE "beating"])
    /\ UNCHANGED <<beat, gone, extra, starts>>

(* insert ... on_conflict_do_update: one row, and the last one's note.       *)
Upserted(p) == [by |-> p, age |-> 0]

(* touch, which may fail and is not missed, then reclaim_stalled if it is    *)
(* due; then the batch begins, whatever the flag says by now.                *)
Beats(p) ==
    /\ loop[p].stage = "beating"
    /\ \E heard \in BOOLEAN :
         /\ beat' = IF heard THEN Upserted(p) ELSE beat
         /\ Goes(p, [loop[p] EXCEPT !.stage = "batch", !.heard = heard,
                                    !.since = IF @ >= ReclaimEvery THEN 0 ELSE @])
    /\ extra' = IF loop[p].stopping THEN [extra EXCEPT ![p] = @ + 1] ELSE extra
    /\ UNCHANGED <<gone, starts>>

Sleeps(p, left, limited) ==
    Goes(p, [loop[p] EXCEPT !.stage = "asleep", !.left = left, !.limited = limited,
                            !.quiet = 0])

(* Something was processed and nothing failed: no pause.                     *)
GoesOn(p) ==
    /\ loop[p].stage = "batch"
    /\ Goes(p, [loop[p] EXCEPT !.stage = "top", !.quiet = 0])
    /\ UNCHANGED <<beat, gone, extra, starts>>

(* Nothing pending, a failure, or an exception from any part of the pass:    *)
(* the loop pauses, and --once is over.                                      *)
Pauses(p) ==
    /\ loop[p].stage = "batch"
    /\ IF loop[p].kind = "once" THEN Goes(p, Down)
       ELSE \E left \in {0, ErrorSleep} : Sleeps(p, left, FALSE)
    /\ UNCHANGED <<beat, gone, extra, starts>>

(* Every model is rate limited: the loop waits as long as it was asked to.   *)
IsLimited(p) ==
    /\ loop[p].stage = "batch"
    /\ IF loop[p].kind = "once" THEN Goes(p, Down)
       ELSE \E left \in Waits : Sleeps(p, left, TRUE)
    /\ UNCHANGED <<beat, gone, extra, starts>>

Wakes(p) ==
    /\ loop[p].stage = "asleep" /\ loop[p].left = 0
    /\ Goes(p, [loop[p] EXCEPT !.stage = "top", !.limited = FALSE])
    /\ UNCHANGED <<beat, gone, extra, starts>>

-----------------------------------------------------------------------------
(* Thirty seconds pass, in a batch or in a sleep; the rest takes no time.    *)
Passed(q) ==
    IF q.stage = "down" THEN q
    ELSE [q EXCEPT !.quiet = IF q.stage = "batch" THEN @ + 1 ELSE 0,
                   !.since = Least(@ + 1, ReclaimEvery + MaxBatch),
                   !.left = IF q.stage = "asleep" THEN @ - 1 ELSE @]

Tick ==
    /\ \A p \in Processes :
         \/ loop[p].stage = "down"
         \/ loop[p].stage = "batch" /\ loop[p].quiet < MaxBatch
         \/ loop[p].stage = "asleep" /\ loop[p].left > 0
    /\ loop' = [p \in Processes |-> Passed(loop[p])]
    /\ beat' = [beat EXCEPT !.age = Least(@ + 1, StaleAfter + 1)]
    /\ gone' = [p \in Processes |-> IF Up(p) THEN 0 ELSE Least(gone[p] + 1, StaleAfter + 1)]
    /\ UNCHANGED <<extra, starts>>

Next ==
    \/ \E p \in Processes :
          \/ Starts(p) \/ AskedToStop(p) \/ Dies(p)
          \/ Top(p) \/ Beats(p) \/ GoesOn(p) \/ Pauses(p) \/ IsLimited(p) \/ Wakes(p)
    \/ Tick

Spec == Init /\ [][Next]_vars

-----------------------------------------------------------------------------
(* Properties                                                                *)

(* ingestion_status: extractor_running.                                      *)
Running == beat.by # NoOne /\ beat.age <= StaleAfter

(* "Absence of a recent beat is a fact about the deployment": the process    *)
(* that the screen names as running was running when two minutes ago at      *)
(* most, whatever other loop has died, been killed or started meanwhile.     *)
NamedWasAlive == Running => gone[beat.by] <= StaleAfter

(* A loop that runs, and whose last beat was written, shows as running       *)
(* unless it waits out a rate limit: those waits are longer than a heartbeat *)
(* is believed.                                                              *)
LiveIsRunning ==
    \A p \in Processes :
        Forever(p) /\ loop[p].stage \in {"batch", "asleep"} /\ loop[p].heard /\ ~loop[p].limited
            => Running

(* No loop begins a batch without having looked for stalled claims within    *)
(* the last minute, and none begins two after it was asked to stop.          *)
BatchesAreOrderly ==
    \A p \in Processes :
        /\ Forever(p) /\ loop[p].stage = "batch" =>
             loop[p].since < ReclaimEvery + loop[p].quiet
        /\ extra[p] <= 1

(* What the feed screen says of the extractors is so.                        *)
FeedScreenHolds == NamedWasAlive /\ LiveIsRunning /\ BatchesAreOrderly
=============================================================================
