----------------------------- MODULE MetaLeads -----------------------------
(***************************************************************************)
(* Meta Lead Ads into contacts: the webhook (routers/meta_webhook.py), the *)
(* owner's sync (sync_leads of routers/meta_ads.py) and what both call in  *)
(* meta_leads.py: store_event, process_lead with convert and _mark_failed, *)
(* sync_forms and retry_pending.                                           *)
(*                                                                         *)
(* Each request is a database session of its own, and every statement that *)
(* another session can tell from the next is a step.  A lead is what its   *)
(* leadgen_id names; of its answers only the telephone number matters,     *)
(* since convert acts on an exact match of numbers and on nothing else.    *)
(***************************************************************************)
EXTENDS Integers, FiniteSets

CONSTANTS
    Leads,         \* leads Meta has
    Phones,        \* telephone numbers
    NoPhone,       \* of a lead that left none
    PhoneOf,       \* the number each lead left
    Sessions,      \* requests and background tasks that may run at once
    MaxAttempts,   \* MAX_ATTEMPTS
    RetryLimit,    \* the limit of retry_pending
    Null,
    Budget         \* how often failures and crashes occur

Kinds == {"fail", "crash"}

ASSUME LeadsAssumption == Null \notin Leads /\ Null \notin Leads \X Nat
ASSUME PhoneAssumption == PhoneOf \in [Leads -> Phones \cup {NoPhone}] /\ NoPhone \notin Phones
ASSUME LimitsAssumption == MaxAttempts \in Nat \ {0} /\ RetryLimit \in Nat \ {0}
ASSUME BudgetAssumption == Budget \in [Kinds -> Nat]

VARIABLES
    status,      \* meta_leads.status, "none" before there is a row
    attempts,    \* meta_leads.attempts
    contact_id,  \* meta_leads.contact_id
    contacts,    \* contacts made of leads: the n-th made of lead l is <<l, n>>
    run,         \* what each session is doing
    shared,      \* (history) leads a session took in hand while another had
                 \* them or one with their number, or from a row out of date
    budget       \* events still to come

rows == <<status, attempts, contact_id, contacts>>
vars == <<rows, run, shared, budget>>

----------------------------------------------------------------------------
Status == {"pending", "created", "linked", "failed"}

\* The loops a session may be in: the webhook's over its events and over the
\* rows that were new, sync_forms' and retry_pending's.
Jobs == {"idle", "receive", "task", "sync", "retry"}

\* Where a session is with the lead in hand.
Points == {"next", "insert", "loaded", "searched", "failing"}

Contacts == Leads \X (Nat \ {0})

\* seen and tries are the row of the lead in hand as it was read.  row is the
\* last lead sync_forms stored: its object stays in the identity map, with the
\* status this session left in it, Null once a rollback has expired it.
Session ==
    [job : Jobs, todo : SUBSET Leads, new : SUBSET Leads, at : Points,
     lead : Leads \cup {Null}, seen : Status \cup {"none"}, tries : Nat,
     found : Contacts \cup {Null}, row : Leads \cup {Null}, known : Status \cup {Null}]

Idle == [job |-> "idle", todo |-> {}, new |-> {}, at |-> "next", lead |-> Null,
         seen |-> "pending", tries |-> 0, found |-> Null, row |-> Null, known |-> Null]

TypeOK ==
    /\ status \in [Leads -> Status \cup {"none"}]
    /\ attempts \in [Leads -> Nat]
    /\ contact_id \in [Leads -> Contacts \cup {Null}]
    /\ contacts \subseteq Contacts /\ IsFiniteSet(contacts)
    /\ run \in [Sessions -> Session]
    /\ shared \subseteq Leads
    /\ budget \in [Kinds -> Nat]

Init ==
    /\ status = [l \in Leads |-> "none"]
    /\ attempts = [l \in Leads |-> 0]
    /\ contact_id = [l \in Leads |-> Null]
    /\ contacts = {}
    /\ run = [p \in Sessions |-> Idle]
    /\ shared = {}
    /\ budget = Budget

Spend(kind) == budget[kind] > 0 /\ budget' = [budget EXCEPT ![kind] = @ - 1]

Becomes(p, r) == run' = [run EXCEPT ![p] = r]

At(p, point) == run[p].job # "idle" /\ run[p].at = point

\* p is done with lead l, which it leaves with status s.
Onward(p, l, s) ==
    [run[p] EXCEPT !.todo = @ \ {l}, !.at = "next", !.lead = Null, !.seen = "pending",
                   !.tries = 0, !.found = Null, !.known = IF run[p].row = l THEN s ELSE @]

Alike(l, m) == l = m \/ (PhoneOf[l] # NoPhone /\ PhoneOf[l] = PhoneOf[m])

InHand(q) == {l \in Leads : run[q].lead = l /\ run[q].at # "insert"}

\* p takes l in hand, as s says it is.
Takes(p, l, s) ==
    shared' = IF s # status'[l] \/ \E q \in Sessions \ {p} : \E m \in InHand(q) : Alike(l, m)
              THEN shared \cup {l} ELSE shared

\* The status of lead l as db.get in session p returns it.
Seen(p, l) == IF run[p].row = l /\ run[p].known # Null THEN run[p].known ELSE status[l]

----------------------------------------------------------------------------
(* Storing: receive with store_event, and the loop of sync_forms *)

\* Meta delivers what it likes, as often as it likes.  receive never awaits
\* while it stores: no two of them overlap.
Deliver(p) ==
    /\ run[p] = Idle
    /\ \A q \in Sessions : run[q].job # "receive"
    /\ \E events \in SUBSET Leads \ {{}} :
          Becomes(p, [Idle EXCEPT !.job = "receive", !.todo = events])
    /\ UNCHANGED <<rows, shared, budget>>

\* The owner may press sync at any time, and again while it runs.
Syncs(p) ==
    /\ run[p] = Idle
    /\ Becomes(p, [Idle EXCEPT !.job = "sync", !.todo = Leads])
    /\ UNCHANGED <<rows, shared, budget>>

\* The search for the leadgen_id.
Looks(p, l) ==
    /\ run[p].job \in {"receive", "sync"} /\ At(p, "next")
    /\ l \in run[p].todo
    /\ Becomes(p, IF status[l] # "none" THEN Onward(p, l, run[p].known)
                  ELSE [run[p] EXCEPT !.at = "insert", !.lead = l])
    /\ UNCHANGED <<rows, shared, budget>>

\* The insert and its commit.  A sync goes on to process_lead with the row it
\* has just made, which its session does not read again.
Inserts(p, l) ==
    /\ At(p, "insert") /\ run[p].lead = l
    /\ status[l] = "none"
    /\ status' = [status EXCEPT ![l] = "pending"]
    /\ IF run[p].job = "receive"
       THEN /\ Becomes(p, [Onward(p, l, "pending") EXCEPT !.new = @ \cup {l}])
            /\ UNCHANGED shared
       ELSE /\ Becomes(p, [run[p] EXCEPT !.at = "loaded", !.row = l, !.known = "pending"])
            /\ Takes(p, l, "pending")
    /\ UNCHANGED <<attempts, contact_id, contacts, budget>>

\* leadgen_id is unique: the request ends with an error.
InsertFails(p, l) ==
    /\ At(p, "insert") /\ run[p].lead = l
    /\ status[l] # "none"
    /\ Becomes(p, Idle)
    /\ UNCHANGED <<rows, shared, budget>>

\* receive answers, and leaves the new rows to a background task.
Answers(p) ==
    /\ run[p].job = "receive" /\ At(p, "next") /\ run[p].todo = {}
    /\ Becomes(p, IF run[p].new = {} THEN Idle
                  ELSE [Idle EXCEPT !.job = "task", !.todo = run[p].new])
    /\ UNCHANGED <<rows, shared, budget>>

\* Mutation of Retried: what has failed is retried, what is pending waits.
RetriedFailed == {l \in Leads : status[l] = "failed"}

\* The rows retry_pending selects from.
Retried == {l \in Leads : status[l] = "pending"}

\* sync_forms is through: retry_pending reads the ids, in no order.
Retries(p) ==
    /\ run[p].job = "sync" /\ At(p, "next") /\ run[p].todo = {}
    /\ \E ids \in SUBSET Retried :
          /\ Cardinality(ids) <= RetryLimit
          /\ Cardinality(ids) < RetryLimit => ids = Retried
          /\ Becomes(p, [run[p] EXCEPT !.job = "retry", !.todo = ids])
    /\ UNCHANGED <<rows, shared, budget>>

Ends(p) ==
    /\ run[p].job \in {"task", "retry"} /\ At(p, "next") /\ run[p].todo = {}
    /\ Becomes(p, Idle)
    /\ UNCHANGED <<rows, shared, budget>>

----------------------------------------------------------------------------
(* process_lead *)

\* Mutation of Converted: only a lead that was created counts as done.
ConvertedCreated(s) == s = "created"

\* There is nothing left to do for a lead of this status.
Converted(s) == s \in {"created", "linked"}

Reads(p, l) ==
    /\ run[p].job \in {"task", "retry"} /\ At(p, "next")
    /\ l \in run[p].todo
    /\ UNCHANGED <<rows, budget>>
    /\ IF Converted(Seen(p, l))
       THEN Becomes(p, Onward(p, l, Seen(p, l))) /\ UNCHANGED shared
       ELSE /\ Becomes(p, [run[p] EXCEPT !.at = "loaded", !.lead = l, !.seen = Seen(p, l)])
            /\ Takes(p, l, Seen(p, l))

\* Mutation of Same: the search for the number is left out.
SameNever(l) == {}

\* Contacts with the number the lead left.
Same(l) == {c \in contacts : PhoneOf[l] # NoPhone /\ PhoneOf[c[1]] = PhoneOf[l]}

\* The answers are there; convert looks for a contact with the same number.
Searches(p, l) ==
    /\ At(p, "loaded") /\ run[p].lead = l
    /\ \E c \in IF Same(l) = {} THEN {Null} ELSE Same(l) :
          Becomes(p, [run[p] EXCEPT !.at = "searched", !.found = c])
    /\ UNCHANGED <<rows, shared, budget>>

Made(l) == <<l, Cardinality({c \in contacts : c[1] = l}) + 1>>

\* Linked to the contact found, or a new contact: one commit.
Converts(p, l) ==
    /\ At(p, "searched") /\ run[p].lead = l
    /\ IF run[p].found # Null
       THEN /\ contact_id' = [contact_id EXCEPT ![l] = run[p].found]
            /\ status' = [status EXCEPT ![l] = "linked"]
            /\ Becomes(p, Onward(p, l, "linked"))
            /\ UNCHANGED contacts
       ELSE /\ contacts' = contacts \cup {Made(l)}
            /\ contact_id' = [contact_id EXCEPT ![l] = Made(l)]
            /\ status' = [status EXCEPT ![l] = "created"]
            /\ Becomes(p, Onward(p, l, "created"))
    /\ UNCHANGED <<attempts, shared, budget>>

\* Meta, the token, the connection or the mapping fails: everything is rolled
\* back, and _mark_failed reads the row again.
Fails(p, l) ==
    /\ Spend("fail")
    /\ run[p].at \in {"loaded", "searched"} /\ run[p].lead = l
    /\ Becomes(p, [run[p] EXCEPT !.at = "failing", !.found = Null, !.known = Null,
                                 !.seen = status[l], !.tries = attempts[l]])
    /\ UNCHANGED <<rows, shared>>

\* Mutation of FailedAs: a word that is no status of a lead.
FailedAsError(tries) == IF tries >= MaxAttempts THEN "error" ELSE "pending"

FailedAs(tries) == IF tries >= MaxAttempts THEN "failed" ELSE "pending"

\* The update names the columns that changed since the row was read.
MarksFailed(p, l) ==
    /\ At(p, "failing") /\ run[p].lead = l
    /\ LET tries == run[p].tries + 1
       IN  /\ attempts' = [attempts EXCEPT ![l] = tries]
           /\ status' = IF FailedAs(tries) = run[p].seen THEN status
                        ELSE [status EXCEPT ![l] = FailedAs(tries)]
    /\ Becomes(p, Onward(p, l, FailedAs(run[p].tries + 1)))
    /\ UNCHANGED <<contact_id, contacts, shared, budget>>

----------------------------------------------------------------------------
\* The API process dies: rows stay, requests and background tasks do not.
Crash ==
    /\ Spend("crash")
    /\ run' = [p \in Sessions |-> Idle]
    /\ UNCHANGED <<rows, shared>>

\* What a session does by itself.
Works(p) ==
    \/ Answers(p) \/ Retries(p) \/ Ends(p)
    \/ \E l \in Leads : \/ Looks(p, l) \/ Inserts(p, l) \/ InsertFails(p, l)
                        \/ Reads(p, l) \/ Searches(p, l) \/ Converts(p, l)
                        \/ MarksFailed(p, l)

Next ==
    \/ \E p \in Sessions : Works(p) \/ Deliver(p) \/ Syncs(p)
    \/ \E p \in Sessions, l \in Leads : Fails(p, l)
    \/ Crash

Spec == Init /\ [][Next]_vars

\* A request that runs goes on; deliveries and presses are up to Meta and the
\* owner.
FairSpec == Spec /\ \A p \in Sessions : WF_vars(Works(p))

----------------------------------------------------------------------------
(* Properties *)

\* "leadgen_id is unique so webhook redelivery and the backfill can never
\* create a contact twice" (MetaLead), as far as it goes: redeliveries, retries,
\* syncs and crashes make no second contact of a lead, nor of a number that is
\* in the CRM (convert), where two sessions did not process them at once.
RepeatsAreLinked ==
    \A c, d \in contacts :
        Alike(c[1], d[1]) /\ {c[1], d[1]} \cap shared = {} => c = d

\* A lead that two sessions did not process at once keeps pointing at the
\* contact that was made of it: a repeated answer or a failure after the
\* commit does not part them (convert, _mark_failed).
PointsAtContact ==
    \A c \in contacts : c[1] \notin shared =>
        contact_id[c[1]] = c /\ status[c[1]] = "created"

\* A lead that became a contact is not taken back by a failure (_mark_failed),
\* unless two sessions processed it at once.
ConvertedStays ==
    [][\A l \in Leads \ shared :
          status[l] \in {"created", "linked"} => status'[l] = status[l]]_vars

\* What a lead was converted to holds, however often it comes back.
ConversionHolds == []PointsAtContact /\ ConvertedStays

\* sync_forms "is the backstop for a webhook that was missed": if syncs are
\* pressed again and again, every lead Meta has becomes a contact or is shown
\* as failed.
EveryLeadSettles ==
    ([]<><<\E p \in Sessions : Syncs(p)>>_vars) =>
        \A l \in Leads : <>[](status[l] \in {"created", "linked", "failed"})

=============================================================================
