------------------------------ MODULE LeadDesk ------------------------------
(***************************************************************************)
(* The lead book (routers/contacts.py, calls.py, showings.py,              *)
(* activities.py, tasks.py, lead_batches.py and the handover and           *)
(* deactivation of users.py; scoping.py, rbac.py, dedup.py).  Every        *)
(* handler runs in a thread of its own: it reads and checks, and later     *)
(* writes and commits what follows from what it READ.  Begin is the first  *)
(* half, an action per kind of request the second; a handler that refuses  *)
(* changes nothing and has no action.                                      *)
(*                                                                         *)
(* Names are told apart well enough by phone numbers here: the fuzzy match *)
(* on names finds no more than the numbers do.                             *)
(***************************************************************************)
EXTENDS Naturals, Sequences, FiniteSets

CONSTANTS
    Users, RoleOf,          \* staff, and the role of each
    Phones,
    Requests,               \* handlers that may overlap
    Asks,                   \* what is asked for: records, see Ask
    Dates,                  \* what people enter as the date of an event
    Book, Assigned, Work,   \* the contacts, assignments and tasks to begin with
    MaxContacts,            \* bound: contacts
    MaxAsked                \* bound: requests

VARIABLES
    active,     \* users whose deleted_at is null
    contact,    \* the contacts, by id
    assignment, \* contact_assignments: lead, user and the task made with it
    task,       \* the tasks, by id
    call,       \* the call logs, in order
    request,    \* per handler: what it was asked, when, and what it has read
    clock,      \* history: begins and commits so far
    left,       \* history: when each user left
    asked,      \* history: requests so far
    handed,     \* history: users whose book was handed over after they left
    late,       \* history: leads given to somebody who had left
    crossed     \* history: leads last moved by two transactions at once

vars == <<active, contact, assignment, task, call, request, clock, left,
          asked, handed, late, crossed>>

Stages == {"new", "contacted", "site_visit_scheduled", "visited",
           "negotiating", "closed", "lost", "null"}

Contact == [owner : Users, live : BOOLEAN, stage : Stages, lead : BOOLEAN,
            batch : Nat, phone : Phones,
            \* history: when it got its number, when that was asked for, and
            \* whether on purpose; what stage the events tell, the date of the
            \* newest that does, whether people have dated or written one by
            \* hand, and when the stage was last written
            since : Nat, began : Nat, forced : BOOLEAN,
            told : Stages, toldAt : Nat, byhand : BOOLEAN, moved : Nat]

Statuses == {"pending", "done", "cancelled"}

Task == [lead : Nat, to : Users, kind : {"assigned", "follow_up", "own"},
         status : Statuses, reopened : BOOLEAN]

Ask == [kind : STRING, by : Users, lead : Nat, to : Seq(Users), arg : STRING,
        phones : Seq(Phones), flag : BOOLEAN]

NoRequest == [stage |-> "idle", at |-> 0, ask |-> 0, found |-> {}, orphans |-> {}]

TypeOK ==
    /\ active \subseteq Users
    /\ contact \in Seq(Contact) /\ Len(contact) <= MaxContacts
    /\ assignment \subseteq [lead : DOMAIN contact, user : Users, task : DOMAIN task]
    \* uq_assignment_pair
    /\ \A a, b \in assignment : a.lead = b.lead /\ a.user = b.user => a = b
    /\ task \in Seq(Task)
    /\ \A j \in DOMAIN task : task[j].lead \in DOMAIN contact
    /\ handed \subseteq Users
    /\ late \cup crossed \subseteq DOMAIN contact
    /\ \A q \in Requests : request[q].stage \in {"idle", "read", "scanned"}

Init ==
    /\ active = Users
    /\ contact = Book
    /\ assignment = Assigned
    /\ task = Work
    /\ call = <<>>
    /\ request = [q \in Requests |-> NoRequest]
    /\ clock = 1 /\ asked = 0 /\ left = [u \in Users |-> 0]
    /\ handed = {} /\ late = {} /\ crossed = {}

-----------------------------------------------------------------------------
(* Who may do what to which lead                                           *)

Everyone == {"owner", "agent", "cold_caller"}

(* CAPABILITIES, and the fields a role may not write.                      *)
Can(a) == RoleOf[a.by] \in
    CASE a.kind \in {"create", "call", "stage", "visit", "said", "task", "own_task"} -> Everyone
      [] a.kind \in {"phone", "show"} -> {"owner", "agent"}
      [] OTHER -> {"owner"}

(* ScopedQuery.contacts: one's own leads and those one is assigned to.     *)
Visible(u, c) ==
    /\ c \in DOMAIN contact /\ contact[c].live
    /\ \/ RoleOf[u] = "owner"
       \/ contact[c].owner = u
       \/ \E a \in assignment : a.lead = c /\ a.user = u

\* Mutant: only what the caller may see is searched.
DuplicatesVisible(u, phone) ==
    {c \in DOMAIN contact : Visible(u, c) /\ contact[c].phone = phone}

(* find_duplicates: the whole table, whoever asks.                         *)
Duplicates(u, phone) ==
    {c \in DOMAIN contact : contact[c].live /\ contact[c].phone = phone}

Listed(s) == {s[j] : j \in DOMAIN s}

(* The places where a list says something it has not said before.          *)
Firsts(s) == {j \in DOMAIN s : \A i \in 1 .. j - 1 : s[i] # s[j]}

(* Places in a list, first to last.                                        *)
InOrder(places) ==
    {f \in [1 .. Cardinality(places) -> places] :
        \A i, j \in DOMAIN f : i < j => f[i] < f[j]}

(* "stage NOT IN ('closed', 'lost')", which a NULL does not satisfy.       *)
InRotation(c) == contact[c].live /\ contact[c].stage \notin {"closed", "lost", "null"}

\* Mutant: numbers nobody has flagged as leads are left behind.
BookOfLeads(u) ==
    {c \in DOMAIN contact : contact[c].owner = u /\ InRotation(c) /\ contact[c].lead}

(* What reassign_leads moves.                                              *)
BookOf(u) == {c \in DOMAIN contact : contact[c].owner = u /\ InRotation(c)}

(* The rows of an import that are new.                                     *)
FreshRows(a) == {j \in DOMAIN a.phones : Duplicates(a.by, a.phones[j]) = {}}

(* The checks of a handler before it writes, beyond Can.                   *)
Accepts(a) ==
    /\ CASE a.kind = "create" -> a.flag \/ Duplicates(a.by, a.phones[1]) = {}
         [] a.kind = "task" -> /\ a.lead \in DOMAIN task
                               /\ RoleOf[a.by] = "owner" \/ task[a.lead].to = a.by
         [] a.kind \in {"import", "handover", "deactivate", "reactivate"} -> TRUE
         [] OTHER -> Visible(a.by, a.lead)
    \* whoever is named has to be active, except the owner_id of a create or
    \* an edit, the source of a handover, and the subject of an update
    /\ a.kind \in {"import", "reassign", "assign"} => Listed(a.to) \subseteq active
    /\ a.kind = "handover" => a.to[2] \in active /\ a.to[1] # a.to[2]
    /\ a.kind = "deactivate" => a.to[1] # a.by
    /\ a.kind = "reactivate" => a.to[1] \notin active

(* What a handler reads and writes by.                                     *)
Found(a) ==
    CASE a.kind = "handover" -> BookOf(a.to[1])
      [] a.kind = "assign" -> {x \in assignment : x.lead = a.lead}
      [] a.kind = "import" -> FreshRows(a)
      [] a.kind = "task" -> task[a.lead].status
      [] a.kind \in {"stage", "show", "visit", "call"} -> contact[a.lead].stage
      [] OTHER -> {}

Begin(q, a) ==
    /\ request[q].stage = "idle"
    /\ asked < MaxAsked
    /\ a.by \in active /\ Can(a) /\ Accepts(a)
    /\ request' = [request EXCEPT ![q] =
           [stage |-> "read", at |-> clock, ask |-> a, found |-> Found(a), orphans |-> {}]]
    /\ clock' = clock + 1 /\ asked' = asked + 1
    /\ UNCHANGED <<active, left, contact, assignment, task, call, handed, late, crossed>>

-----------------------------------------------------------------------------
(* Writing                                                                 *)

Asked(q, kinds) == request[q].stage = "read" /\ request[q].ask.kind \in kinds

Ends(q) ==
    /\ request' = [request EXCEPT ![q] = NoRequest]
    /\ clock' = clock + 1
    /\ UNCHANGED asked

(* A lead in somebody's book who has left, by this commit.                 *)
Strays(u, cs) == late' = IF u \in active THEN late ELSE late \cup cs

(* A write of the stage may bring a lead back into a book that has been    *)
(* emptied.                                                                *)
Reopens(c) == Strays(contact[c].owner, IF InRotation(c) THEN {} ELSE {c})

NewTask(lead, to, kind) ==
    [lead |-> lead, to |-> to, kind |-> kind, status |-> "pending", reopened |-> FALSE]

NewContact(q, owner, phone, batch) ==
    [owner |-> owner, live |-> TRUE, stage |-> "new", lead |-> batch = 0,
     batch |-> batch, phone |-> phone,
     since |-> clock, began |-> request[q].at, forced |-> request[q].ask.flag,
     told |-> "new", toldAt |-> 0, byhand |-> FALSE, moved |-> clock]

(* create_contact: in one's own name, or, the Owner, in anybody's.         *)
Create(q) ==
    LET a == request[q].ask IN
    /\ Asked(q, {"create"})
    /\ Len(contact) < MaxContacts
    /\ contact' = Append(contact, NewContact(q, a.to[1], a.phones[1], 0))
    /\ Strays(a.to[1], {Len(contact) + 1})
    /\ Ends(q)
    /\ UNCHANGED <<active, left, assignment, task, call, handed, crossed>>

\* Mutant: contiguous slices of a size rounded up.
DealtInSlices(rows, targets) ==
    LET size == (Len(rows) + Len(targets) - 1) \div Len(targets)
    IN [j \in DOMAIN rows |-> targets[1 + ((j - 1) \div size)]]

(* distribute: round-robin over the recipients.                            *)
Dealt(rows, targets) == [j \in DOMAIN rows |-> targets[1 + ((j - 1) % Len(targets))]]

(* _resolve_assignees: the list of those named, each once, in their order; *)
(* the Owner's own where nobody is.                                        *)
Recipients(a) ==
    IF a.to = <<>> THEN {<<a.by>>}
    ELSE {[j \in DOMAIN place |-> a.to[place[j]]] : place \in InOrder(Firsts(a.to))}

Batches == {contact[c].batch : c \in DOMAIN contact} \ {0}

Imported(q, rows, to) ==
    [j \in DOMAIN rows |-> NewContact(q, to[j], rows[j], Cardinality(Batches) + 1)]

(* bulk_import_contacts: the fresh rows, in the order of the file, under a *)
(* batch of their own.                                                     *)
Import(q) ==
    LET a == request[q].ask IN
    /\ Asked(q, {"import"})
    /\ Len(contact) + Cardinality(request[q].found) <= MaxContacts
    /\ \E place \in InOrder(request[q].found), targets \in Recipients(a) :
         LET rows == [j \in DOMAIN place |-> a.phones[place[j]]]
             to == Dealt(rows, targets) IN
         /\ contact' = contact \o Imported(q, rows, to)
         /\ late' = late \cup
                {Len(contact) + j : j \in {i \in DOMAIN rows : to[i] \notin active}}
    /\ Ends(q)
    /\ UNCHANGED <<active, left, assignment, task, call, handed, crossed>>

(* An event that tells a stage, dated by a clock or by hand.  The timeline  *)
(* goes by the dates of events.                                            *)
Tells(lead, stage, when, by) ==
    LET newest == when > lead.toldAt IN
    [lead EXCEPT !.told = IF newest THEN stage ELSE @,
                 !.toldAt = IF newest THEN when ELSE @,
                 !.byhand = @ \/ by = "hand"]

(* When a transaction began, which is what now() says in it: with the      *)
(* check of the caller's credentials, some time before the handler's reads.*)
BeganIn(q) == 1 .. request[q].at

(* The lead was moved after the handler had read its stage.                *)
Stale(q, c) == contact[c].moved > request[q].at

(* A handler moves the stage it has read: an UPDATE, and an event with its *)
(* date.  The same stage is neither.                                       *)
MovesStage(q, stage, when, by) ==
    LET c == request[q].ask.lead IN
    IF stage = request[q].found THEN UNCHANGED <<contact, crossed, late>>
    ELSE /\ contact' = [contact EXCEPT
                ![c] = Tells([@ EXCEPT !.stage = stage, !.moved = clock], stage, when, by)]
         /\ crossed' = IF Stale(q, c) \/ contact[c].moved >= when
                       THEN crossed \cup {c} ELSE crossed \ {c}
         /\ Reopens(c)

(* update_contact with a stage: its event has the date of the transaction. *)
SetStage(q) ==
    /\ Asked(q, {"stage"})
    /\ \E when \in BeganIn(q) : MovesStage(q, request[q].ask.arg, when, "clock")
    /\ Ends(q)
    /\ UNCHANGED <<active, left, assignment, task, call, handed>>

(* STAGE_FOR_LEVEL.                                                        *)
StageFor(level) ==
    CASE level = "inquired" -> "contacted"
      [] level = "site_visit_done" -> "visited"
      [] OTHER -> level

\* Mutant: the showing moves the stage without an event of its own.
ShownSilently(q) ==
    LET c == request[q].ask.lead  stage == StageFor(request[q].ask.arg) IN
    /\ contact' = [contact EXCEPT ![c].stage = stage, ![c].moved = clock]
    /\ UNCHANGED <<crossed, late>>

Shown(q) ==
    \E when \in BeganIn(q) : MovesStage(q, StageFor(request[q].ask.arg), when, "clock")

(* log_showing: whatever the stage was, it follows the level.  What was    *)
(* shown when is an event of its own, which tells no stage.                *)
Show(q) ==
    /\ Asked(q, {"show"})
    /\ Shown(q)
    /\ Ends(q)
    /\ UNCHANGED <<active, left, assignment, task, call, handed>>

\* Mutant: a site visit moves a lead wherever it has got to.
BeforeAnything == Stages

(* Stages from which a site visit moves a lead.                            *)
BeforeVisit == {"new", "contacted", "site_visit_scheduled"}

(* When an event happened: as the request says, or by the handler's clock  *)
(* some time before the commit.                                            *)
Occurred(q) == IF request[q].ask.flag THEN Dates ELSE request[q].at .. clock

(* Whose date that is.                                                     *)
By(q) == IF request[q].ask.flag THEN "hand" ELSE "clock"

(* create_activity: a site visit moves a lead that has not been further; a *)
(* stage change somebody writes down moves nothing.                        *)
CreateActivity(q) ==
    LET a == request[q].ask IN
    /\ Asked(q, {"visit", "said"})
    /\ \E when \in Occurred(q) :
         IF a.kind = "visit"
         THEN MovesStage(q, IF request[q].found \in BeforeVisit THEN "visited"
                            ELSE request[q].found,
                         when, By(q))
         ELSE /\ contact' = [contact EXCEPT ![a.lead] = Tells(@, a.arg, when, "hand")]
              /\ UNCHANGED <<crossed, late>>
    /\ Ends(q)
    /\ UNCHANGED <<active, left, assignment, task, call, handed>>

(* log_call: the first call moves a new lead, without an event that says   *)
(* so; a flag makes a number a lead; a callback becomes a task of the      *)
(* caller's.                                                               *)
Call(q) ==
    LET a == request[q].ask  c == a.lead  first == request[q].found = "new" IN
    /\ Asked(q, {"call"})
    /\ \E when \in BeganIn(q) :
         call' = Append(call, [lead |-> c, by |-> a.by, at |-> when, outcome |-> a.arg])
    /\ contact' = [contact EXCEPT
           ![c].lead = @ \/ a.flag,
           ![c].stage = IF first THEN "contacted" ELSE @,
           ![c].moved = IF first THEN clock ELSE @]
    /\ crossed' = IF first /\ Stale(q, c) THEN crossed \cup {c} ELSE crossed
    /\ IF first THEN Reopens(c) ELSE UNCHANGED late
    /\ task' = IF a.arg \in {"callback_requested", "interested"}
               THEN Append(task, NewTask(c, a.by, "follow_up")) ELSE task
    /\ Ends(q)
    /\ UNCHANGED <<active, left, assignment, handed>>

(* update_contact with a phone: no search for duplicates.                  *)
SetPhone(q) ==
    LET a == request[q].ask IN
    /\ Asked(q, {"phone"})
    /\ contact' = [contact EXCEPT ![a.lead].phone = a.phones[1], ![a.lead].since = clock,
                                  ![a.lead].forced = TRUE]
    /\ Ends(q)
    /\ UNCHANGED <<active, left, assignment, task, call, handed, late, crossed>>

(* reassign_contact, and update_contact with an owner_id.                  *)
Reassign(q) ==
    LET a == request[q].ask IN
    /\ Asked(q, {"reassign", "owner"})
    /\ contact' = [contact EXCEPT ![a.lead].owner = a.to[1]]
    /\ Strays(a.to[1], {a.lead})
    /\ Ends(q)
    /\ UNCHANGED <<active, left, assignment, task, call, handed, crossed>>

Delete(q) ==
    /\ Asked(q, {"delete"})
    /\ contact' = [contact EXCEPT ![request[q].ask.lead].live = FALSE]
    /\ Ends(q)
    /\ UNCHANGED <<active, left, assignment, task, call, handed, late, crossed>>

Removed(q) == {x \in request[q].found : x.user \notin Listed(request[q].ask.to)}

(* Where the request names those whom the handler has to insert.           *)
Added(q) ==
    LET to == request[q].ask.to IN
    {j \in Firsts(to) : \A x \in request[q].found : x.user # to[j]}

\* Mutant: an unticked person keeps the work.
OrphanedNone(q) == {}

Orphaned(q) ==
    {j \in DOMAIN task : /\ task[j].lead = request[q].ask.lead
                         /\ task[j].status = "pending"
                         /\ \E x \in Removed(q) : x.user = task[j].to}

(* set_assignees looks for the open tasks of those it removes in a         *)
(* statement of its own.                                                   *)
Scan(q) ==
    /\ Asked(q, {"assign"})
    /\ request' = [request EXCEPT ![q].stage = "scanned", ![q].orphans = Orphaned(q)]
    /\ UNCHANGED <<active, left, contact, assignment, task, call, clock, asked, handed,
                   late, crossed>>

\* Mutant: without uq_assignment_pair.
TakenNever(q) == FALSE

(* Somebody else has inserted one of the pairs.                            *)
Taken(q) == \E x \in assignment, j \in Added(q) :
    x.lead = request[q].ask.lead /\ x.user = request[q].ask.to[j]

(* set_assignees commits rows and tasks together, or, when a pair is       *)
(* taken, fails as a whole.  A row that is gone already is deleted again   *)
(* to no effect.                                                           *)
Assign(q) ==
    LET a == request[q].ask IN
    /\ request[q].stage = "scanned"
    /\ IF Taken(q) THEN UNCHANGED <<assignment, task>>
       ELSE \E place \in InOrder(Added(q)) :
            LET to == [j \in DOMAIN place |-> a.to[place[j]]] IN
            /\ assignment' = (assignment \ Removed(q)) \cup
                   {[lead |-> a.lead, user |-> to[j], task |-> Len(task) + j] : j \in DOMAIN to}
            /\ task' = [j \in 1 .. Len(task) + Cardinality(Added(q)) |->
                   IF j > Len(task) THEN NewTask(a.lead, to[j - Len(task)], "assigned")
                   ELSE IF j \in request[q].orphans THEN [task[j] EXCEPT !.status = "cancelled"]
                   ELSE task[j]]
    /\ Ends(q)
    /\ UNCHANGED <<active, left, contact, call, handed, late, crossed>>

(* reassign_leads: every lead it read in the book goes to the other.       *)
Handover(q) ==
    LET a == request[q].ask IN
    /\ Asked(q, {"handover"})
    /\ contact' = [c \in DOMAIN contact |->
           IF c \in request[q].found THEN [contact[c] EXCEPT !.owner = a.to[2]] ELSE contact[c]]
    /\ Strays(a.to[2], request[q].found)
    /\ handed' = IF a.to[1] \notin active /\ request[q].at > left[a.to[1]] THEN handed \cup {a.to[1]} ELSE handed
    /\ Ends(q)
    /\ UNCHANGED <<active, left, assignment, task, call, crossed>>

(* update_user's deactivate; Sessions has what it does to the sessions.    *)
SetActive(q) ==
    LET u == request[q].ask.to[1] IN
    /\ Asked(q, {"deactivate", "reactivate"})
    /\ IF request[q].ask.kind = "deactivate"
       THEN /\ active' = active \ {u}
            /\ left' = IF u \in active THEN [left EXCEPT ![u] = clock] ELSE left
            /\ UNCHANGED handed
       ELSE active' = active \cup {u} /\ handed' = handed \ {u} /\ UNCHANGED left
    /\ Ends(q)
    /\ UNCHANGED <<contact, assignment, task, call, late, crossed>>

(* update_task with a status; what equals the one read is not written.     *)
SetTask(q) ==
    LET a == request[q].ask IN
    /\ Asked(q, {"task"})
    /\ task' = IF a.arg = request[q].found THEN task
               ELSE [task EXCEPT ![a.lead].status = a.arg, ![a.lead].reopened = @ \/ a.arg = "pending"]
    /\ Ends(q)
    /\ UNCHANGED <<active, left, contact, assignment, call, handed, late, crossed>>

(* create_task about a lead.                                               *)
OwnTask(q) ==
    LET a == request[q].ask IN
    /\ Asked(q, {"own_task"})
    /\ task' = Append(task, NewTask(a.lead, a.by, "own"))
    /\ Ends(q)
    /\ UNCHANGED <<active, left, contact, assignment, call, handed, late, crossed>>

Commit(q) ==
    \/ Create(q) \/ Import(q) \/ SetStage(q) \/ Show(q) \/ CreateActivity(q)
    \/ Call(q) \/ SetPhone(q) \/ Reassign(q) \/ Delete(q) \/ Scan(q) \/ Assign(q)
    \/ Handover(q) \/ SetActive(q) \/ SetTask(q) \/ OwnTask(q)

Next == \E q \in Requests : (\E a \in Asks : Begin(q, a)) \/ Commit(q)

Spec == Init /\ [][Next]_vars

-----------------------------------------------------------------------------
(* What the constants may be                                               *)

ASSUME AsksAssumption ==
    /\ Asks \subseteq Ask
    /\ \A a \in Asks :
         /\ a.kind \in {"create", "reassign", "owner", "deactivate", "reactivate"} => a.to # <<>>
         /\ a.kind = "handover" => Len(a.to) = 2
         /\ a.kind \in {"create", "phone"} => a.phones # <<>>
         /\ a.kind \in {"stage", "said"} => a.arg \in Stages
         /\ a.kind = "show" => StageFor(a.arg) \in Stages
         /\ a.kind = "task" => a.arg \in Statuses

(* An assignment's task is the assignee's, on that lead.                   *)
Matches(x, work) ==
    /\ work[x.task].kind = "assigned"
    /\ work[x.task].lead = x.lead /\ work[x.task].to = x.user

ASSUME BookAssumption ==
    /\ MaxContacts \in Nat /\ Dates \subseteq Nat
    /\ Book \in Seq(Contact) /\ Len(Book) <= MaxContacts
    \* the history begins here, and the timeline tells the stage so far
    /\ \A c \in DOMAIN Book :
         /\ Book[c].since = 0 /\ Book[c].moved = 0 /\ Book[c].toldAt = 0
         /\ Book[c].told = Book[c].stage
    \* nobody has called yet, and it takes a call to flag an imported number
    /\ \A c \in DOMAIN Book : Book[c].lead => Book[c].batch = 0
    /\ Work \in Seq(Task) /\ \A j \in DOMAIN Work : Work[j].lead \in DOMAIN Book
    /\ Assigned \subseteq [lead : DOMAIN Book, user : Users, task : DOMAIN Work]
    /\ \A x \in Assigned : Matches(x, Work)
    /\ \A x, y \in Assigned : x.lead = y.lead /\ x.user = y.user => x = y
    /\ \A j \in DOMAIN Work :
         Work[j].kind = "assigned" /\ Work[j].status = "pending" /\ ~Work[j].reopened
         => \E x \in Assigned : x.task = j

-----------------------------------------------------------------------------
(* Reports                                                                 *)

(* Per-database performance, as list_batches counts it.                    *)
RowsOf(b) == {c \in DOMAIN contact : contact[c].batch = b /\ contact[c].live}
CallsOn(c) == {j \in DOMAIN call : call[j].lead = c}
ReachedOutcomes == {"connected", "interested", "callback_requested"}
CalledOf(b) == {c \in RowsOf(b) : CallsOn(c) # {}}
ReachedOf(b) ==
    {c \in RowsOf(b) : \E j \in CallsOn(c) : call[j].outcome \in ReachedOutcomes}
LeadsOf(b) == {c \in RowsOf(b) : contact[c].lead}

(* call_queue: the leads in the caller's scope, but for those whose last   *)
(* call, of the calls in the caller's scope, found them dead.  The last is *)
(* the one whose transaction began last.                                   *)
VisibleCalls(u, c) ==
    {j \in CallsOn(c) : RoleOf[u] = "owner" \/ call[j].by = u \/ contact[c].owner = u}

DeadOutcomes == {"not_interested", "wrong_number"}

Dead(u, c) == \E j \in VisibleCalls(u, c) :
    /\ \A k \in VisibleCalls(u, c) : call[k].at <= call[j].at
    /\ call[j].outcome \in DeadOutcomes

CallQueue(u) == {c \in DOMAIN contact : Visible(u, c) /\ InRotation(c) /\ ~Dead(u, c)}

-----------------------------------------------------------------------------
(* Properties                                                              *)

(* A number that is in the book does not get a second contact without      *)
(* anybody saying so: the earlier one was not there yet when the later one *)
(* was asked for, or the duplicate was confirmed or typed in by an edit.   *)
NoSilentDuplicate ==
    \A c, d \in DOMAIN contact :
        /\ c # d /\ contact[c].live /\ contact[d].live
        /\ contact[c].phone = contact[d].phone
        /\ contact[c].since < contact[d].since
        => contact[d].forced \/ contact[c].since > contact[d].began

(* An open task that came with an assignment belongs to an assignment that *)
(* stands, however the desired sets overlap, unless somebody reopened it.  *)
WorkFollowsAssignment ==
    \A j \in DOMAIN task :
        task[j].kind = "assigned" /\ task[j].status = "pending" /\ ~task[j].reopened
        => \E x \in assignment :
               x.task = j /\ x.lead = task[j].lead /\ x.user = task[j].to

(* Whoever has left and been relieved of their book has no lead in         *)
(* rotation, except one that was given or reopened to them later.          *)
LeaversHoldNothing == \A u \in handed : BookOf(u) \subseteq late

(* The newest event of a lead's timeline tells the stage it is in, but for *)
(* a first call, which moves a new lead without one, unless people have    *)
(* dated or written events by hand, or two transactions moved the lead at  *)
(* once and nobody has since: each has an event dated when it began, or by *)
(* its own clock, and the one that committed last may be the older.        *)
TimelineTellsStage ==
    \A c \in DOMAIN contact :
        \/ contact[c].told = contact[c].stage
        \/ contact[c].told = "new" /\ contact[c].stage = "contacted"
        \/ contact[c].byhand \/ c \in crossed

(* Stages from which a call or a site visit moves a lead.                  *)
Early(kind) == IF kind = "call" THEN {"new"} ELSE {"new", "contacted", "site_visit_scheduled"}

(* A call or a site visit takes no lead back: one that has come further is *)
(* moved by it only where somebody else moved it after the handler had     *)
(* read its stage.                                                         *)
NobodyGoesBack ==
    [][\A q \in Requests : \A c \in DOMAIN contact :
         /\ request[q].stage = "read" /\ request[q].ask.kind \in {"call", "visit"}
         /\ request'[q].stage = "idle"
         /\ contact'[c].stage # contact[c].stage
         /\ contact[c].stage \notin Early(request[q].ask.kind)
         => contact[c].moved > request[q].at]_vars

(* What a lead's page shows of its way: where it is, and how it got there. *)
JourneyHolds == []TimelineTellsStage /\ NobodyGoesBack

(* The rates of a batch are rates: leads and reached numbers are among the *)
(* called ones.                                                            *)
RatesAreRates ==
    \A b \in Batches : LeadsOf(b) \cup ReachedOf(b) \subseteq CalledOf(b)

(* A number whose last call found it dead is in nobody's queue, whoever    *)
(* called and however it changed hands, but for those assigned to it, who  *)
(* see neither their colleagues' calls nor what came of them.              *)
DeadNumbersRest ==
    \A u \in Users : \A c \in CallQueue(u) : \A j \in CallsOn(c) :
        (\A k \in CallsOn(c) : call[k].at <= call[j].at) /\ call[j].outcome \in DeadOutcomes =>
            /\ u \notin {contact[c].owner, call[j].by}
            /\ \E x \in assignment : x.lead = c /\ x.user = u

(* An import deals all its fresh rows, and no recipient gets two more than *)
(* another.                                                                *)
SharesAreEven ==
    [][\A q \in Requests : Import(q) =>
         LET fresh == Len(contact) + 1 .. Len(contact')
             Share(u) == Cardinality({c \in fresh : contact'[c].owner = u})
             a == request[q].ask
             named == IF a.to = <<>> THEN {a.by} ELSE Listed(a.to) IN
         /\ Cardinality(fresh) = Cardinality(request[q].found)
         /\ \A u, v \in named : Share(u) <= Share(v) + 1]_vars

(* What is computed from the book agrees with it: batch reports, call      *)
(* queues and the shares of an import.                                     *)
ListsAgree == []RatesAreRates /\ []DeadNumbersRest /\ SharesAreEven
=============================================================================
