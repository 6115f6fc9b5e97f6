-------------------------------- MODULE Desk --------------------------------
(* What is worked on at a desk, put together so that it can be checked at    *)
(* once: the lead book (LeadDesk), the Meta connection (MetaAds), the        *)
(* inventory (Inventory), the pairing screen (SessionScreen), the group      *)
(* picker (GroupPicker) and the extraction loops behind the feed screen      *)
(* (Extractors).  They share nothing: a behaviour is one of either, and what *)
(* holds of a part here holds of it beside the others.                       *)
EXTENDS LeadDesk

CONSTANTS
    Logins, AccountsOf, PagesOf, MaxCalls, MaxCampaigns,        \* MetaAds
    Workers, Posts, Similar, Contains, Deeds, Ids, MaxDeeds,    \* Inventory
    TTL, Beat, ScreenStale, Rotation, Delay, MaxAir,            \* SessionScreen
    Groups, MaxLists,                                           \* GroupPicker
    Processes, KindsOf, Keyed, NoOne, BeatStale, ReclaimEvery,  \* Extractors
    ErrorSleep, Waits, MaxBatch, MaxStarts

VARIABLES part, row, token, campaign, handler, states, spent, torn, cut, calls

connection == <<row, token, campaign, handler, states, spent, torn, cut, calls>>

M == INSTANCE MetaAds WITH
         MaxAsked <- MaxCalls, request <- handler, asked <- calls

VARIABLES rows, taken, sighted, count, todo, tx, desk, deeds, loose, lapped

inventory == <<rows, taken, sighted, count, todo, tx, desk, deeds, loose, lapped>>

I == INSTANCE Inventory

VARIABLES gate, beat, air, screen, down, steady, missed

reports == <<gate, beat, air, screen, down, steady, missed>>

S == INSTANCE SessionScreen WITH StaleAfter <- ScreenStale, row <- screen

VARIABLES account, connected, wants, poll, told, lists, picker, watched,
          owed, excused, named

directory == <<account, connected, wants, poll, told, lists, picker, watched,
               owed, excused, named>>

G == INSTANCE GroupPicker

VARIABLES loop, pulse, gone, extra, starts

extractors == <<loop, pulse, gone, extra, starts>>

X == INSTANCE Extractors WITH StaleAfter <- BeatStale, beat <- pulse

ASSUME PartsAssumption ==
    /\ M!LoginsAreReal /\ S!TimesAreReal
    /\ I!NamesAreReal /\ I!PostsAreReal /\ I!DeedsAreReal
    /\ MaxDeeds \in Nat /\ MaxLists \in Nat
    /\ X!ProcessesAreReal /\ X!TimesAreReal /\ X!BatchesAreShort

DeskInit ==
    /\ Init /\ M!Init /\ I!Init /\ S!Init /\ G!Init /\ X!Init
    /\ part \in {"leads", "ads", "flats", "screen", "picker", "loops"}

DeskNext ==
    /\ UNCHANGED part
    /\ \/ /\ part = "leads" /\ Next
          /\ UNCHANGED <<connection, inventory, reports, directory, extractors>>
       \/ /\ part = "ads" /\ M!Next
          /\ UNCHANGED <<vars, inventory, reports, directory, extractors>>
       \/ /\ part = "flats" /\ I!Next
          /\ UNCHANGED <<vars, connection, reports, directory, extractors>>
       \/ /\ part = "screen" /\ S!Next
          /\ UNCHANGED <<vars, connection, inventory, directory, extractors>>
       \/ /\ part = "picker" /\ G!Next
          /\ UNCHANGED <<vars, connection, inventory, reports, extractors>>
       \/ /\ part = "loops" /\ X!Next
          /\ UNCHANGED <<vars, connection, inventory, reports, directory>>

deskvars == <<part, vars, connection, inventory, reports, directory, extractors>>

DeskSpec == DeskInit /\ [][DeskNext]_deskvars

(* What leads, assignments, tasks, the connection, its tokens and campaigns, *)
(* rows, sightings, sessions, reports, lists and loops may be: the modules.  *)
DeskTypeOK ==
    /\ part = "leads" => TypeOK
    /\ part = "ads" => M!TypeOK
    /\ part = "flats" => I!TypeOK
    /\ part = "screen" => S!TypeOK
    /\ part = "picker" => G!TypeOK
    /\ part = "loops" => X!TypeOK

(* No spent OAuth state comes back; and unless a commit fell upon a changed  *)
(* row, a login holds until it is ended and the ad account is its: MetaAds.  *)
ConnectionHolds == M!ConnectionHolds

(* What was half built is deleted: MetaAds.                                  *)
HalfBuiltIsDeleted == M!HalfBuiltIsDeleted

(* Reposts merge, counts add up, and merges fill gaps only: Inventory.       *)
InventoryHolds == I!InventoryHolds

(* What the owner's screens say of processes is so.  The pairing screen      *)
(* settles, codes pass, and only what is gone is stale: SessionScreen.  The  *)
(* loop that the feed screen names as running was, and one that works is not *)
(* missed: Extractors.                                                       *)
ScreenHolds == S!ScreenHolds /\ X!FeedScreenHolds

(* A press of Refresh is accounted for, and names stay: GroupPicker.         *)
PickerHolds == G!PickerHolds
=============================================================================
