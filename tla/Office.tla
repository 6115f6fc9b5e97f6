------------------------------- MODULE Office -------------------------------
(* The parts around a desk, put together so that they can be checked at      *)
(* once: the browser (BrowserSession), the reminders (Reminders) and the     *)
(* client of the language model (ExtractionClient).  They share nothing but  *)
(* the clock: a behaviour is one of either, and what holds of a part here    *)
(* holds of it beside the others.                                            *)
EXTENDS ExtractionClient

CONSTANTS
    Grace, Lifetime, Cap, Tabs, MaxRows, MaxMinutes, MaxFaults,   \* BrowserSession
    Tasks, Users, Devices, Dispatchers, Editors,                  \* Reminders
    AssigneeOf, DeviceOf, Batch, StaleAfter, Dues, Asks,
    MaxEdits, MaxMishaps

VARIABLES part,
    row, jar, tab, since, lost, faults,
    task, sub, gone, run, edit, tally, raced, edits, mishaps

browser == <<row, jar, tab, since, lost, faults>>
agenda == <<task, sub, gone, run, edit, tally, raced, edits, mishaps>>
client == <<per_item, modes, ready, call, outcome, unlucky>>

B == INSTANCE BrowserSession WITH Idle <- Lifetime, MaxTime <- MaxMinutes

R == INSTANCE Reminders

(* A token lasts longer than it goes on working once it has been renewed.    *)
ASSUME LifetimeAssumption ==
    {Grace, Lifetime, Cap, MaxFaults} \subseteq Nat /\ 0 < Grace /\ Grace < Lifetime

ASSUME AgendaAssumption == R!TasksAreReal

OfficeInit == part \in {"browser", "reminders", "calls"} /\ B!Init /\ R!Init /\ Init

OfficeNext ==
    \/ part = "browser" /\ B!Next /\ UNCHANGED <<part, agenda, client>>
    \/ part = "reminders" /\ R!Next /\ UNCHANGED <<part, browser, client>>
    \/ part = "calls" /\ Next /\ UNCHANGED <<part, browser, agenda>>

officevars == <<part, vars, browser, agenda>>

(* At rest a part has no action that fairness could ask for.                 *)
OfficeSpec == OfficeInit /\ [][OfficeNext]_officevars /\ B!Fairness /\ R!Fairness

(* What rows, tokens, tabs, tasks, claims, subscriptions and calls may be:   *)
(* BrowserSession, Reminders and ExtractionClient.                           *)
OfficeTypeOK == B!TypeOK /\ R!TypeOK /\ TypeOK

(* No renewal signs anybody out: BrowserSession.                             *)
RenewalEndsNothing == B!RenewalEndsNothing

(* A browser whose cookie is refused can sign in again: BrowserSession.      *)
NoRedirectLoop == B!NoRedirectLoop

(* A reminder is claimed once for each time it was set, a moved one is armed *)
(* again, and no claim goes missing without a mishap: Reminders.             *)
EachReminderOnce == R!EachReminderOnce

(* What is due is claimed: Reminders.                                        *)
DueIsClaimed == R!DueIsClaimed
=============================================================================
