----------------------------- MODULE GroupPicker ----------------------------
(* The list the owner picks groups from: asked for by pressing Refresh, read *)
(* off WhatsApp by the gateway, uploaded, and kept in                        *)
(* whatsapp_group_candidates (syncDirectory and pollCommands of              *)
(* gateway/src/index.js; request_group_sync, gateway_commands,               *)
(* report_directory and available_groups of routers/whatsapp.py).  Whether a *)
(* press of Connect is obeyed is Pairing's; here it either is or is not.     *)
EXTENDS Naturals, FiniteSets

CONSTANTS
    Groups,
    MaxLists      \* bound: uploads and commands under way

VARIABLES
    account,      \* the groups the account is in, and the names WhatsApp gives
    connected,    \* the gateway's connected
    wants,        \* pair_requested_at and sync_requested_at, where set
    poll,         \* the commands that gateway_commands has read
    told,         \* answers on their way to the gateway
    lists,        \* uploads on their way to the API
    picker,       \* whatsapp_group_candidates
    watched,      \* the groups of whatsapp_groups that are not deleted
    owed,         \* history: a press of Refresh is not answered by an upload yet
    excused,      \* history: ... for a reason it is not going to be
    named         \* history: groups an upload has named

vars == <<account, connected, wants, poll, told, lists, picker, watched,
          owed, excused, named>>

Absent == "absent"
Names == {"", "name"}

Listing == UNION {[S -> Names] : S \in SUBSET Groups}

TypeOK ==
    /\ account \in Listing /\ connected \in BOOLEAN
    /\ wants \subseteq {"pair", "sync"}
    /\ poll \subseteq wants \cup {"pair"}
    /\ told \subseteq (SUBSET {"pair", "sync"}) \ {{}}
    /\ \A l \in lists : l.rows \in Listing /\ l.fresh \in BOOLEAN
    /\ Cardinality(told) + Cardinality(lists) <= MaxLists
    /\ picker \in [Groups -> Names \cup {Absent}]
    /\ watched \subseteq Groups /\ named \subseteq Groups
    /\ owed \in BOOLEAN /\ excused \in BOOLEAN /\ (excused => owed)

Init ==
    /\ account = [g \in Groups |-> ""] /\ connected = FALSE
    /\ wants = {} /\ poll = {} /\ told = {} /\ lists = {}
    /\ picker = [g \in Groups |-> Absent] /\ watched = {}
    /\ owed = FALSE /\ excused = FALSE /\ named = {}

Room == Cardinality(told) + Cardinality(lists) < MaxLists

-----------------------------------------------------------------------------
(* WhatsApp and the gateway                                                  *)

(* The account is taken out of a group or back in, or a subject syncs.       *)
AccountChanges ==
    /\ \E g \in Groups, n \in Names :
         account' \in {[h \in DOMAIN account \ {g} |-> account[h]],
                       [h \in DOMAIN account \cup {g} |-> IF h = g THEN n ELSE account[h]]}
    /\ UNCHANGED <<connected, wants, poll, told, lists, picker, watched, owed,
                   excused, named>>

(* syncDirectory, which everybody forces: what WhatsApp lists, which may be  *)
(* a part of it, is uploaded.                                                *)
Uploads(S) == lists' = lists \cup {[rows |-> [g \in S |-> account[g]], fresh |-> TRUE]}

(* The socket opens: groups are read without being asked for.                *)
Opens ==
    /\ ~connected /\ Room
    /\ connected' = TRUE
    /\ \E S \in SUBSET DOMAIN account : Uploads(S)
    /\ UNCHANGED <<account, wants, poll, told, picker, watched, owed, excused, named>>

Drops ==
    /\ connected
    /\ connected' = FALSE
    /\ UNCHANGED <<account, wants, poll, told, lists, picker, watched, owed,
                   excused, named>>

(* pollCommands: a command to pair comes before one to read the groups, and  *)
(* whether it is obeyed or ignored, the other is dropped.                    *)
Obeys ==
    \E cmd \in told :
      /\ told' = told \ {cmd}
      /\ IF "pair" \in cmd
         THEN /\ connected' \in {connected, FALSE}
              /\ UNCHANGED lists
         ELSE /\ UNCHANGED connected
              /\ IF connected
                 THEN \E S \in SUBSET DOMAIN account : Uploads(S)
                 ELSE UNCHANGED lists
      /\ excused' = (excused \/ (owed /\ "sync" \in cmd /\ ("pair" \in cmd \/ ~connected)))
      /\ UNCHANGED <<account, wants, poll, picker, watched, owed, named>>

(* What could not be read or uploaded is not tried again.                    *)
UploadLost ==
    \E l \in lists :
      /\ lists' = lists \ {l}
      /\ excused' = (excused \/ (owed /\ l.fresh))
      /\ UNCHANGED <<account, connected, wants, poll, told, picker, watched, owed, named>>

-----------------------------------------------------------------------------
(* The API                                                                   *)

(* request_group_sync                                                        *)
AskSync ==
    /\ wants' = wants \cup {"sync"}
    /\ lists' = {[l EXCEPT !.fresh = FALSE] : l \in lists}
    /\ owed' = TRUE /\ excused' = FALSE
    /\ UNCHANGED <<account, connected, poll, told, picker, watched, named>>

(* request_pairing and cancel_pairing                                        *)
AskPair ==
    /\ wants' \in {wants \cup {"pair"}, wants \ {"pair"}}
    /\ UNCHANGED <<account, connected, poll, told, lists, picker, watched, owed,
                   excused, named>>

(* gateway_commands reads what is wanted ...                                 *)
ClaimReads ==
    /\ poll = {} /\ wants # {}
    /\ poll' = wants
    /\ UNCHANGED <<account, connected, wants, told, lists, picker, watched, owed,
                   excused, named>>

\* Mutant: both are cleared, whatever was read.
LeftNothing(seen) == {}

(* ... and clears what it has read of them, the update naming only the       *)
(* columns that change.                                                      *)
Left(seen) == wants \ seen

(* The answer may be lost.                                                   *)
ClaimCommits ==
    /\ poll # {} /\ Room
    /\ wants' = Left(poll) /\ poll' = {}
    /\ \/ told' = told \cup {poll} /\ UNCHANGED excused
       \/ excused' = (excused \/ (owed /\ "sync" \in poll)) /\ UNCHANGED told
    /\ UNCHANGED <<account, connected, lists, picker, watched, owed, named>>

(* report_directory: an upsert; a blank name replaces no name.               *)
Arrives ==
    \E l \in lists :
      /\ picker' = [g \in Groups |->
           IF g \notin DOMAIN l.rows THEN picker[g]
           ELSE IF l.rows[g] = "" /\ picker[g] # Absent THEN picker[g]
           ELSE l.rows[g]]
      /\ named' = named \cup {g \in DOMAIN l.rows : l.rows[g] # ""}
      /\ lists' = lists \ {l}
      /\ owed' = (owed /\ ~l.fresh) /\ excused' = (excused /\ ~l.fresh)
      /\ UNCHANGED <<account, connected, wants, poll, told, watched>>

(* available_groups: the candidates, and the watched ones that are not.      *)
Listed(watchedOnly) ==
    {g \in Groups : picker[g] # Absent \/ g \in watched}
        \ (IF watchedOnly THEN Groups \ watched ELSE {})

(* A group is picked from the list or its id typed, and may be given up.     *)
Watches ==
    /\ \/ \E g \in Groups \ watched : watched' = watched \cup {g}
       \/ \E g \in Listed(TRUE) : watched' = watched \ {g}
    /\ UNCHANGED <<account, connected, wants, poll, told, lists, picker, owed,
                   excused, named>>

Next ==
    \/ AccountChanges \/ Opens \/ Drops \/ Obeys \/ UploadLost
    \/ AskSync \/ AskPair \/ ClaimReads \/ ClaimCommits \/ Arrives \/ Watches

Spec == Init /\ [][Next]_vars

-----------------------------------------------------------------------------
(* Properties                                                                *)

(* "Losing a command costs one more press": a press of Refresh is somewhere  *)
(* on its way, whatever else is pressed while the gateway is claiming it,    *)
(* until a list read after it has arrived; or its answer or its upload was   *)
(* lost, the gateway was not connected, or it came along with a press of     *)
(* Connect.                                                                  *)
RefreshIsAnswered ==
    owed => \/ excused
            \/ "sync" \in wants \cup poll \cup UNION told
            \/ \E l \in lists : l.fresh

(* "A later sync with no subject yet must not blank a name", nor a partial   *)
(* one empty the picker; and what is read from can be seen, and switched off,*)
(* even when the account has left it.                                        *)
NamesStay == \A g \in Groups : g \in named => picker[g] \notin {"", Absent}

PickerHolds == RefreshIsAnswered /\ NamesStay /\ watched \subseteq Listed(TRUE)
=============================================================================
