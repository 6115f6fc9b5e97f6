------------------------------ MODULE Pairing ------------------------------
(***************************************************************************)
(* How a WhatsApp account gets linked and stays linked: the sockets of the *)
(* gateway (connect, startFreshPairing, pollCommands and the watchdog of   *)
(* gateway/src/index.js, gateway/src/pairing.js), the session on its disk, *)
(* and the row through which the owner asks for a new pairing (the pairing *)
(* endpoints of backend/app/routers/whatsapp.py).  What the gateway reports *)
(* back is left out: nothing here reads it.                                *)
(*                                                                         *)
(* Instants are abstracted to their order and counters to comparisons: of  *)
(* a generation only "is it still the newest" is kept (mine), of a request *)
(* whether the process or the connection is younger than it.               *)
(***************************************************************************)
EXTENDS Integers, FiniteSets

CONSTANTS
    Creds,        \* credentials WhatsApp ever issues
    NoCreds,      \* an empty session directory
    FirstCreds,   \* what the directory holds at the beginning
    Budget        \* how often the owner presses and scans, and how many mishaps occur

Kinds == {"press", "scan", "mishap"}

ASSUME CredsAssumption == IsFiniteSet(Creds) /\ NoCreds \notin Creds
ASSUME FirstAssumption == FirstCreds \in Creds \cup {NoCreds}
ASSUME BudgetAssumption == Budget \in [Kinds -> Nat]

VARIABLES
    up,            \* is the gateway process running?
    loading,       \* calls of connect waiting for the session and the version
    sockets,       \* sockets that exist, superseded ones included
    timer,         \* has a close of the newest socket scheduled a reconnect?
    retry,         \* is main waiting to call connect again?
    connected,     \* connected, and whether connectedAt is set
    repairing,     \* is startFreshPairing waiting for its connect?
    cooling,       \* less than repairCooldownMs since lastPairAt?
    stalled,       \* STALL_AFTER_MS or more since lastConnectionChange?
    claimed,       \* requests on their way from the API to pollCommands
    disk,          \* the session directory
    linked,        \* credentials the phone accepts
    issued,        \* credentials scans have produced so far
    pressed,       \* whatsapp_session.pair_requested_at, {} for NULL
    wipes,         \* (history) how often a session directory was cleared
    budget         \* what is left of Budget

process == <<up, retry, repairing, cooling>>
requests == <<pressed, claimed>>
connection == <<connected, stalled, timer>>
account == <<disk, linked, issued>>

vars == <<process, loading, sockets, connection, account, requests, wipes, budget>>

----------------------------------------------------------------------------
\* A call of connect: is its generation the newest, and who waits for it?
Call == [mine : BOOLEAN, caller : {"main", "pair", "nobody"},
         creds : Creds \cup {NoCreds}]

\* A socket: held says whether the variable socket refers to it.
Stages == {"starting", "qr", "scanned", "open"}
Socket == [mine : BOOLEAN, held : BOOLEAN, creds : Creds \cup {NoCreds}, stage : Stages]

\* When a request was made, against startedAt and the last connectedAt, and
\* whether the gateway was running.
Request == [at : {"beforeStart", "beforeOpen", "since"}, down : BOOLEAN]

\* At most one of them has the current number.
OneNewest(S) == \A x, y \in S : x.mine /\ y.mine => x = y

\* The types, and that a generation is claimed by one call or socket only
\* ("two overlapping calls to connect must not both believe they own the live
\* socket").
TypeOK ==
    /\ up \in BOOLEAN /\ retry \in BOOLEAN /\ repairing \in BOOLEAN /\ cooling \in BOOLEAN
    /\ connected \in BOOLEAN /\ stalled \in BOOLEAN /\ timer \in BOOLEAN
    /\ loading \subseteq Call
    /\ sockets \subseteq Socket
    /\ OneNewest(loading) /\ OneNewest(sockets)
    /\ \A call \in loading, s \in sockets : ~(call.mine /\ s.mine)
    /\ claimed \subseteq Request
    /\ disk \in Creds \cup {NoCreds}
    /\ linked \subseteq Creds /\ issued \subseteq Creds
    /\ pressed \subseteq Request /\ \A q, r \in pressed : q = r
    /\ wipes \in Nat
    /\ budget \in [Kinds -> Nat]

Spend(kind) == budget[kind] > 0 /\ budget' = [budget EXCEPT ![kind] = @ - 1]

\* The process has just started: main has called connect.
Init ==
    /\ up = TRUE
    /\ loading = {[mine |-> TRUE, caller |-> "main", creds |-> FirstCreds]}
    /\ sockets = {}
    /\ timer = FALSE
    /\ retry = FALSE
    /\ connected = FALSE
    /\ repairing = FALSE
    /\ cooling = FALSE
    /\ stalled = FALSE
    /\ claimed = {}
    /\ disk = FirstCreds
    /\ linked = {FirstCreds} \ {NoCreds}
    /\ issued = {FirstCreds} \ {NoCreds}
    /\ pressed = {}
    /\ wipes = 0
    /\ budget = Budget

----------------------------------------------------------------------------
(* connect *)

\* Mutation of Superseded: ++generation is forgotten.
SupersededKept(S) == S

Superseded(S) == {[x EXCEPT !.mine = FALSE] : x \in S}

\* ++generation, up to the first await; ended are the sockets closed before.
Connect(caller, session, ended) ==
    /\ loading' = Superseded(loading) \cup
                    {[mine |-> TRUE, caller |-> caller, creds |-> session]}
    /\ sockets' = Superseded(sockets \ ended)
    /\ timer' = FALSE

\* The variable socket refers to none of them any more.
LetGo(S) == {[s EXCEPT !.held = FALSE] : s \in S}

\* The awaits are over.  The session may have been read before or after a
\* change on disk in between; nothing looks at the generation again.
SocketMade ==
    /\ \E call \in loading :
          /\ \E session \in {call.creds, disk} :
                sockets' = LetGo(sockets) \cup
                             {[mine |-> call.mine, held |-> TRUE,
                               creds |-> session, stage |-> "starting"]}
          /\ loading' = loading \ {call}
          /\ repairing' = (repairing /\ call.caller # "pair")
    /\ UNCHANGED <<up, retry, cooling, connection, account, requests, wipes, budget>>

\* connect throws: main tries again in 15 seconds, startFreshPairing gives up,
\* and for the others unhandledRejection carries on.
ConnectThrows ==
    /\ Spend("mishap")
    /\ \E call \in loading :
          /\ loading' = loading \ {call}
          /\ retry' = (retry \/ call.caller = "main")
          /\ repairing' = (repairing /\ call.caller # "pair")
    /\ UNCHANGED <<up, cooling, sockets, connection, account, requests, wipes>>

\* main's loop, which asks neither for the generation nor for a connection.
MainRetries ==
    /\ retry
    /\ retry' = FALSE
    /\ Connect("main", disk, {})
    /\ UNCHANGED <<up, repairing, cooling, connected, stalled, account, requests,
                   wipes, budget>>

----------------------------------------------------------------------------
(* connection.update, creds.update *)

\* Mutation of Heard: events of superseded sockets are acted on as well.
HeardAlways(s) == TRUE

\* mine !== generation: a superseded socket still emits, and is ignored.
Heard(s) == s.mine

Moved(s, stage) == (sockets \ {s}) \cup {[s EXCEPT !.stage = stage]}

\* A socket without credentials shows a code.
ShowsCode ==
    /\ \E s \in sockets :
          /\ s.creds = NoCreds
          /\ s.stage = "starting"
          /\ sockets' = Moved(s, "qr")
    /\ UNCHANGED <<process, loading, connection, account, requests, wipes, budget>>

\* connectedAt is now: requests made since the last one are older than it.
Opened(R) == {IF r.at = "since" THEN [r EXCEPT !.at = "beforeOpen"] ELSE r : r \in R}

Opens(s) ==
    /\ s \in sockets
    /\ s.stage = "starting"
    /\ s.creds \in linked
    /\ sockets' = Moved(s, "open")
    /\ IF Heard(s)
       THEN /\ connected' = TRUE
            /\ stalled' = FALSE
            /\ pressed' = Opened(pressed)
            /\ claimed' = Opened(claimed)
       ELSE UNCHANGED <<connected, stalled, requests>>
    /\ UNCHANGED <<process, loading, timer, account, wipes, budget>>

\* What the close handler does first for a socket that is heard.
Closed ==
    /\ connected' = FALSE
    /\ stalled' = FALSE

\* The connection fails: a reconnect is scheduled.
Drops ==
    /\ Spend("mishap")
    /\ \E s \in sockets :
          /\ sockets' = sockets \ {s}
          /\ IF Heard(s) THEN Closed /\ timer' = TRUE ELSE UNCHANGED connection
    /\ UNCHANGED <<process, loading, account, requests, wipes>>

\* The phone does not know these credentials any more: nothing is scheduled,
\* and socket is null, whichever it was.
LoggedOut ==
    /\ \E s \in sockets :
          /\ s.creds \in Creds \ linked
          /\ s.stage \in {"starting", "open"}
          /\ IF Heard(s)
             THEN Closed /\ sockets' = LetGo(sockets \ {s})
             ELSE sockets' = sockets \ {s} /\ UNCHANGED <<connected, stalled>>
    /\ UNCHANGED <<process, loading, timer, account, requests, wipes, budget>>

\* The last step of a pairing (515): straight into the next connect.
RestartRequired ==
    /\ \E s \in sockets :
          /\ s.stage = "scanned"
          /\ IF Heard(s)
             THEN Closed /\ Connect("nobody", disk, {s})
             ELSE sockets' = sockets \ {s} /\ UNCHANGED <<loading, connection>>
    /\ UNCHANGED <<process, account, requests, wipes, budget>>

\* saveCreds, which no generation guards.
SavesCreds ==
    /\ \E s \in sockets : s.stage = "open" /\ disk' = s.creds
    /\ disk' # disk
    /\ UNCHANGED <<process, loading, sockets, connection, linked, issued, requests,
                   wipes, budget>>

TimerFires ==
    /\ timer
    /\ Connect("nobody", disk, {})
    /\ UNCHANGED <<process, connected, stalled, account, requests, wipes, budget>>

\* Mutation of WatchdogDue: a socket that exists is taken to be alive.
WatchdogDueNoSocket == stalled /\ ~repairing /\ ~connected /\ sockets = {}

WatchdogDue == stalled /\ ~repairing /\ ~connected

Watchdog ==
    /\ WatchdogDue
    /\ stalled' = FALSE
    /\ Connect("nobody", disk, {})
    /\ UNCHANGED <<process, connected, account, requests, wipes, budget>>

----------------------------------------------------------------------------
(* pollCommands and startFreshPairing *)

\* What gateway_commands leaves in the row: claim on read.
Unclaimed == {}

PollClaims ==
    /\ up
    /\ pressed # {}
    /\ claimed' = claimed \cup pressed
    /\ pressed' = Unclaimed
    /\ UNCHANGED <<process, loading, sockets, connection, account, wipes, budget>>

\* fetchCommands fails, after the API has handed the request over.
PollLost ==
    /\ Spend("mishap")
    /\ \E r \in claimed : claimed' = claimed \ {r}
    /\ UNCHANGED <<process, loading, sockets, connection, account, pressed, wipes>>

\* Mutation of Ignored: the fallback to startedAt is forgotten.
IgnoredConnected(r) == disk # NoCreds /\ connected /\ r.at # "since"

\* shouldIgnorePairRequest: aliveSince is connectedAt, or else startedAt.
Ignored(r) ==
    /\ disk # NoCreds
    /\ (r.at = "beforeStart" \/ (connected /\ r.at = "beforeOpen"))

PollIgnores ==
    /\ \E r \in claimed :
          /\ (Ignored(r) \/ repairing \/ cooling)
          /\ claimed' = claimed \ {r}
    /\ UNCHANGED <<process, loading, sockets, connection, account, pressed, wipes, budget>>

\* startFreshPairing up to the await of its connect.
StartsFreshPairing(r) ==
    /\ r \in claimed
    /\ ~Ignored(r) /\ ~repairing /\ ~cooling
    /\ claimed' = claimed \ {r}
    /\ repairing' = TRUE
    /\ cooling' = TRUE
    /\ Closed
    /\ disk' = NoCreds
    /\ Connect("pair", NoCreds, {s \in sockets : s.held})
    /\ wipes' = wipes + 1
    /\ UNCHANGED <<up, retry, linked, issued, pressed, budget>>

----------------------------------------------------------------------------
(* The owner *)

\* request_pairing
Press ==
    /\ Spend("press")
    /\ pressed' = {[at |-> "since", down |-> ~up]}
    /\ UNCHANGED <<process, loading, sockets, connection, account, claimed, wipes>>

\* cancel_pairing
Cancel ==
    /\ Spend("mishap")
    /\ pressed' = {}
    /\ UNCHANGED <<process, loading, sockets, connection, account, claimed, wipes>>

\* The owner scans the code a socket shows; creds.update saves the result.
Scan ==
    /\ Spend("scan")
    /\ \E s \in sockets, c \in Creds \ issued :
          /\ s.stage = "qr"
          /\ sockets' = (sockets \ {s}) \cup {[s EXCEPT !.stage = "scanned", !.creds = c]}
          /\ disk' = c
          /\ linked' = linked \cup {c}
          /\ issued' = issued \cup {c}
    /\ UNCHANGED <<process, loading, connection, requests, wipes>>

\* The owner removes a linked device on the phone.
Unlink ==
    /\ Spend("mishap")
    /\ \E c \in linked : linked' = linked \ {c}
    /\ UNCHANGED <<process, loading, sockets, connection, disk, issued, requests, wipes>>

----------------------------------------------------------------------------
(* The process, and time *)

Crash ==
    /\ up
    /\ Spend("mishap")
    /\ up' = FALSE
    /\ loading' = {}
    /\ sockets' = {}
    /\ timer' = FALSE
    /\ retry' = FALSE
    /\ connected' = FALSE
    /\ repairing' = FALSE
    /\ cooling' = FALSE
    /\ stalled' = FALSE
    /\ claimed' = {}
    /\ UNCHANGED <<account, pressed, wipes>>

\* startedAt is now: every request there is is older.
Start ==
    /\ ~up
    /\ up' = TRUE
    /\ pressed' = {[r EXCEPT !.at = "beforeStart"] : r \in pressed}
    /\ Connect("main", disk, {})
    /\ UNCHANGED <<retry, repairing, cooling, connected, stalled, account, claimed,
                   wipes, budget>>

\* The two minutes outlast a call of connect and a scheduled reconnect, but not
\* main's attempts, which leave lastConnectionChange alone when they fail.
Stalls ==
    /\ up
    /\ ~connected /\ ~stalled
    /\ loading = {} /\ ~timer
    /\ stalled' = TRUE
    /\ UNCHANGED <<process, loading, sockets, connected, timer, account, requests,
                   wipes, budget>>

\* repairCooldownMs have passed since lastPairAt.
Cools ==
    /\ cooling
    /\ cooling' = FALSE
    /\ UNCHANGED <<up, retry, repairing, loading, sockets, connection, account, requests,
                   wipes, budget>>

----------------------------------------------------------------------------
Next ==
    \/ SocketMade \/ ConnectThrows \/ MainRetries
    \/ ShowsCode \/ Drops \/ LoggedOut \/ RestartRequired \/ SavesCreds
    \/ \E s \in sockets : Opens(s)
    \/ TimerFires \/ Watchdog
    \/ PollClaims \/ PollLost \/ PollIgnores
    \/ \E r \in claimed : StartsFreshPairing(r)
    \/ Press \/ Cancel \/ Scan \/ Unlink
    \/ Crash \/ Start \/ Stalls \/ Cools

Spec == Init /\ [][Next]_vars

\* connect returns, timers fire and the supervisor starts the process; a
\* socket that could open is not superseded for ever before it does, because
\* the watchdog leaves it two minutes.  Nothing is assumed of the owner, and
\* mishaps end because the budget does.
Fairness ==
    /\ WF_vars(SocketMade) /\ WF_vars(MainRetries) /\ WF_vars(TimerFires)
    /\ WF_vars(RestartRequired) /\ WF_vars(LoggedOut)
    /\ WF_vars(Watchdog) /\ WF_vars(Stalls) /\ WF_vars(Start)
    /\ SF_vars(\E s \in sockets : s.mine /\ Opens(s))

FairSpec == Spec /\ Fairness

----------------------------------------------------------------------------
(* Properties *)

\* "A gateway that was merely not running still holds a perfectly good
\* session" (pairing.js): a press made while the gateway was down never clears
\* a session, whatever restarts, drops and lost answers come before it is read.
WakeUpKeepsSession ==
    [][\A r \in claimed : StartsFreshPairing(r) /\ r.down => disk = NoCreds]_vars

\* "a gateway that restarts mid-pairing wipes its WhatsApp session again on
\* boot, and again after that" is what claim-on-read is to prevent
\* (gateway_commands): the owner's presses bound the wipes.
OneWipePerPress == wipes <= Budget["press"] - budget["press"]

\* The session is wiped only for presses that asked for it, once each.
WipesAreAsked == []OneWipePerPress /\ WakeUpKeepsSession

\* "Acting on it would ... reconnect creds we just wiped" (connect): while the
\* gateway reports a linked account, the session that survives a restart is on
\* disk, whatever sockets of wiped sessions still do.
ConnectedHasSession == connected => disk # NoCreds

\* The newest socket is open.
IsLive == \E s \in sockets : s.mine /\ s.stage = "open"

\* "the gateway recovers by itself" (startStallWatchdog): with a session the
\* phone accepts on disk, the newest socket opens, or the session goes.
Recovers == disk \in linked ~> (IsLive \/ disk \notin linked)

=============================================================================
