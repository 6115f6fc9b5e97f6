----------------------------- MODULE Reminders -----------------------------
(***************************************************************************)
(* Reminders and their pushes (reminders.py, push.py, routers/tasks.py,    *)
(* routers/notifications.py).  dispatch_due claims what is due, commits,   *)
(* and then sends; it runs in a loop of the API and for an outside         *)
(* scheduler, so several dispatchers may be at it, and any may die.  Tasks *)
(* are edited meanwhile by handlers that read, then write what changed     *)
(* against what they READ.  Browsers drop subscriptions.                   *)
(*                                                                         *)
(* The claim is one step: FOR UPDATE SKIP LOCKED holds its rows until its  *)
(* commit, and a competing dispatcher skips them.                          *)
(***************************************************************************)
EXTENDS Naturals, FiniteSets

CONSTANTS
    Tasks, Users, Devices,
    Dispatchers,    \* runs of dispatch_due that may overlap
    Editors,        \* handlers of PATCH /tasks that may overlap
    AssigneeOf,     \* each task's user
    DeviceOf,       \* the user who has each device
    Batch,          \* reminders claimed at once
    StaleAfter,     \* a reminder older than this is not pushed
    Dues,           \* due times a new task may have, 0 for none
    Asks,           \* what an edit may ask for: records of status and due
    MaxTime,        \* bound: the clock
    MaxEdits,       \* bound: edits of tasks
    MaxMishaps      \* bound: crashes, exceptions, dropped devices

VARIABLES
    now,
    task,       \* rows: status, due_at and notified_at, 0 for null
    sub,        \* push_subscriptions: is there a row, is it revoked
    gone,       \* devices whose browser dropped the subscription
    run,        \* per dispatcher: its time, the claimed reminders to send,
                \* and the revocations it has not committed
    edit,       \* per editor: the task, the row it read, the row it wants
    tally,      \* history, per task: claims, handled, lost, moves
    raced,      \* history: tasks claimed between an edit's read and write
    edits, mishaps

vars == <<now, task, sub, gone, run, edit, tally, raced, edits, mishaps>>

NoSub == [stored |-> FALSE, revoked |-> FALSE]
AtRest == [at |-> 0, queue |-> {}, dropped |-> {}]
NoTask == [status |-> "none", due |-> 0, notified |-> 0]
NoEdit == [task |-> 0, read |-> NoTask, want |-> NoTask]

Row == [status : {"none", "pending", "done", "cancelled"}, due : Nat, notified : Nat]
Claim == [task : Tasks, due : Nat \ {0}]

TypeOK ==
    /\ now \in Nat /\ edits \in Nat /\ mishaps \in Nat
    /\ task \in [Tasks -> Row]
    /\ sub \in [Devices -> [stored : BOOLEAN, revoked : BOOLEAN]]
    /\ gone \subseteq Devices
    /\ run \in [Dispatchers -> [at : Nat, queue : SUBSET Claim, dropped : SUBSET Devices]]
    /\ edit \in [Editors -> [task : Tasks \cup {0}, read : Row, want : Row]]
    /\ tally \in [Tasks -> [claims : Nat, handled : Nat, lost : Nat, moves : Nat]]
    /\ raced \subseteq Tasks
    /\ \A r \in Dispatchers : /\ run[r].dropped \subseteq gone
                             /\ Cardinality(run[r].queue) <= Batch

Init ==
    /\ now = 1 /\ edits = 0 /\ mishaps = 0
    /\ task = [t \in Tasks |-> NoTask]
    /\ sub = [d \in Devices |-> NoSub]
    /\ gone = {}
    /\ run = [r \in Dispatchers |-> AtRest]
    /\ edit = [e \in Editors |-> NoEdit]
    /\ tally = [t \in Tasks |-> [claims |-> 0, handled |-> 0, lost |-> 0, moves |-> 0]]
    /\ raced = {}

(* Tasks are numbered, 0 is none; what an edit asks for is a task's.         *)
TasksAreReal ==
    /\ 0 \notin Tasks /\ IsFiniteSet(Tasks) /\ IsFiniteSet(Dispatchers)
    /\ {Batch, StaleAfter} \subseteq Nat /\ Dues \subseteq Nat
    /\ Asks \subseteq [status : {"pending", "done", "cancelled"}, due : Nat]

Mishap == mishaps < MaxMishaps /\ mishaps' = mishaps + 1

-----------------------------------------------------------------------------
(* Tasks                                                                   *)

(* create_task: with or without a due time.                                *)
CreateTask(t) ==
    /\ task[t].status = "none"
    /\ \E due \in Dues :
         task' = [task EXCEPT ![t] = [status |-> "pending", due |-> due, notified |-> 0]]
    /\ UNCHANGED <<now, sub, gone, run, edit, tally, raced, edits, mishaps>>

(* update_task reads the row and sets what the payload holds, and a moved  *)
(* reminder's notified_at to null.                                         *)
Edited(row, fields) ==
    [row EXCEPT !.status = fields.status, !.due = fields.due,
                !.notified = IF fields.due # row.due THEN 0 ELSE @]

EditReads(e, t) ==
    /\ edit[e].task = 0
    /\ task[t].status # "none"
    /\ edits < MaxEdits /\ edits' = edits + 1
    /\ \E fields \in Asks :
         edit' = [edit EXCEPT ![e] = [task |-> t, read |-> task[t],
                                      want |-> Edited(task[t], fields)]]
    /\ UNCHANGED <<now, task, sub, gone, run, tally, raced, mishaps>>

(* The UPDATE holds the columns whose value differs from the one read: one *)
(* set to what was read stays as it is in the table.                       *)
Written(row, read, want) ==
    [f \in DOMAIN row |-> IF want[f] # read[f] THEN want[f] ELSE row[f]]

EditWrites(e) ==
    LET x == edit[e]  t == x.task IN
    /\ t # 0
    /\ task' = [task EXCEPT ![t] = Written(@, x.read, x.want)]
    /\ edit' = [edit EXCEPT ![e] = NoEdit]
    /\ tally' = [tally EXCEPT ![t].moves = IF x.read.due # x.want.due THEN @ + 1 ELSE @]
    /\ raced' = IF task[t].notified # x.read.notified /\ x.read.due # x.want.due
                THEN raced \cup {t} ELSE raced
    /\ UNCHANGED <<now, sub, gone, run, edits, mishaps>>

-----------------------------------------------------------------------------
(* Devices                                                                 *)

(* A row that a dispatcher has revoked and not committed is locked.        *)
Locked(d) == \E r \in Dispatchers : d \in run[r].dropped

(* subscribe: the row of the endpoint is inserted or brought back.         *)
Subscribe(d) ==
    /\ d \notin gone /\ ~Locked(d)
    /\ sub' = [sub EXCEPT ![d] = [stored |-> TRUE, revoked |-> FALSE]]
    /\ UNCHANGED <<now, task, gone, run, edit, tally, raced, edits, mishaps>>

Unsubscribe(d) ==
    /\ sub[d].stored /\ ~Locked(d)
    /\ sub' = [sub EXCEPT ![d].revoked = TRUE]
    /\ UNCHANGED <<now, task, gone, run, edit, tally, raced, edits, mishaps>>

(* The browser throws a subscription away; the server learns of it from    *)
(* the answer to a push.                                                   *)
Drop(d) ==
    /\ sub[d].stored /\ d \notin gone
    /\ Mishap
    /\ gone' = gone \cup {d}
    /\ UNCHANGED <<now, task, sub, run, edit, tally, raced, edits>>

-----------------------------------------------------------------------------
(* Dispatching                                                             *)

\* Mutant: a reminder is due whether or not it has been claimed.
IsDueAgain(t) == task[t].status = "pending" /\ task[t].due # 0 /\ task[t].due <= now

\* Mutant: a task without a due time counts as due.
IsDueUndated(t) ==
    /\ task[t].status = "pending" /\ task[t].notified = 0 /\ task[t].due <= now

IsDue(t) ==
    /\ task[t].status = "pending"
    /\ task[t].notified = 0
    /\ task[t].due # 0 /\ task[t].due <= now

DueTasks == {t \in Tasks : IsDue(t)}

\* Mutant: the query leaves out what is too old to be pushed.
ClaimableFresh(ts) ==
    LET fresh == {t \in DueTasks : now <= task[t].due + StaleAfter} IN
    /\ ts \subseteq fresh
    /\ Cardinality(ts) <= Batch
    /\ Cardinality(ts) < Batch => ts = fresh

(* The oldest Batch of what is due.                                        *)
Claimable(ts) ==
    /\ ts \subseteq DueTasks
    /\ Cardinality(ts) <= Batch
    /\ Cardinality(ts) < Batch => ts = DueTasks
    /\ \A t \in ts, u \in DueTasks \ ts : task[t].due <= task[u].due

Claims(r) ==
    /\ run[r] = AtRest
    /\ \E ts \in SUBSET DueTasks \ {{}} :
         /\ Claimable(ts)
         /\ task' = [t \in Tasks |-> IF t \in ts THEN [task[t] EXCEPT !.notified = now]
                                                 ELSE task[t]]
         /\ tally' = [t \in Tasks |-> IF t \in ts THEN [tally[t] EXCEPT !.claims = @ + 1]
                                                  ELSE tally[t]]
         /\ run' = [run EXCEPT ![r] = [at |-> now, dropped |-> {},
                        queue |-> {[task |-> t, due |-> task[t].due] : t \in ts}]]
    /\ UNCHANGED <<now, sub, gone, edit, raced, edits, mishaps>>

(* The reminders of a batch are taken by due time.                         *)
IsNext(r, c) == c \in run[r].queue /\ \A d \in run[r].queue : c.due <= d.due

Handled(t) == tally' = [tally EXCEPT ![t].handled = @ + 1]

Stale(r, c) == run[r].at > c.due + StaleAfter

(* Too late to be of use: passed over, and the next one's turn comes.      *)
Passed(r, c) == run[r].queue \ {c}

Skips(r) == \E c \in run[r].queue :
    /\ IsNext(r, c) /\ Stale(r, c)
    /\ run' = [run EXCEPT ![r].queue = Passed(r, c)]
    /\ Handled(c.task)
    /\ UNCHANGED <<now, task, sub, gone, edit, raced, edits, mishaps>>

LiveSubs(u) == {d \in Devices : DeviceOf[d] = u /\ sub[d].stored /\ ~sub[d].revoked}

(* Answered with 404 or 410.                                               *)
Refused(live) == live \cap gone

Revoke(ds) == [d \in Devices |-> [sub[d] EXCEPT !.revoked = @ \/ d \in ds]]

(* send_to_users, for one reminder: every live subscription of its user is *)
(* tried; a dropped one is revoked.  The revocations, this call's and what *)
(* earlier calls left in the session, are committed if a push went out.    *)
Sends(r) == \E c \in run[r].queue :
    LET live == LiveSubs(AssigneeOf[c.task])
        dropped == run[r].dropped \cup Refused(live)
        sent == live \ gone
    IN
    /\ IsNext(r, c) /\ ~Stale(r, c)
    /\ \A d \in Refused(live), q \in Dispatchers \ {r} : d \notin run[q].dropped
    /\ sub' = IF sent # {} THEN Revoke(dropped) ELSE sub
    /\ run' = [run EXCEPT ![r].queue = @ \ {c},
                          ![r].dropped = IF sent # {} THEN {} ELSE dropped]
    /\ Handled(c.task)
    /\ UNCHANGED <<now, task, gone, edit, raced, edits, mishaps>>

(* push_test, and every other caller of send_to_users: nothing that is not *)
(* committed survives its request.                                         *)
PushTest(u) ==
    LET live == LiveSubs(u) IN
    /\ live \cap gone # {} /\ live \ gone # {}
    /\ \A d \in Refused(live) : ~Locked(d)
    /\ sub' = Revoke(Refused(live))
    /\ UNCHANGED <<now, task, gone, run, edit, tally, raced, edits, mishaps>>

(* The queue is empty: the session is closed, and what it has not          *)
(* committed is rolled back.                                               *)
Ends(r) ==
    /\ run[r] # AtRest /\ run[r].queue = {}
    /\ run' = [run EXCEPT ![r] = AtRest]
    /\ UNCHANGED <<now, task, sub, gone, edit, tally, raced, edits, mishaps>>

(* Any error but a WebPushException ends the loop, and a crash ends the    *)
(* process: the reminders claimed and not yet sent have been stamped.      *)
Breaks(r) ==
    /\ run[r].queue # {}
    /\ Mishap
    /\ LET left == {c.task : c \in run[r].queue} IN
         tally' = [t \in Tasks |-> IF t \in left THEN [tally[t] EXCEPT !.lost = @ + 1]
                                                 ELSE tally[t]]
    /\ run' = [run EXCEPT ![r] = AtRest]
    /\ UNCHANGED <<now, task, sub, gone, edit, raced, edits>>

Tick ==
    /\ now < MaxTime
    /\ now' = now + 1
    /\ UNCHANGED <<task, sub, gone, run, edit, tally, raced, edits, mishaps>>

Dispatch(r) == Claims(r) \/ Skips(r) \/ Sends(r) \/ Ends(r)

Next ==
    \/ Tick
    \/ \E t \in Tasks : CreateTask(t) \/ (\E e \in Editors : EditReads(e, t))
    \/ \E e \in Editors : EditWrites(e)
    \/ \E d \in Devices : Subscribe(d) \/ Unsubscribe(d) \/ Drop(d)
    \/ \E u \in Users : PushTest(u)
    \/ \E r \in Dispatchers : Dispatch(r) \/ Breaks(r)

Spec == Init /\ [][Next]_vars

(* The loop comes round every half minute, and handlers finish.            *)
Fairness ==
    /\ \A r \in Dispatchers : WF_vars(Dispatch(r))
    /\ \A e \in Editors : WF_vars(EditWrites(e))

FairSpec == Spec /\ Fairness

-----------------------------------------------------------------------------
(* Properties                                                              *)

InQueue(t) ==
    Cardinality({r \in Dispatchers : \E c \in run[r].queue : c.task = t})

(* Two dispatchers never push one reminder twice: it is claimed once, and  *)
(* once more for every time it was moved.                                  *)
ClaimedOnce == \A t \in Tasks : tally[t].claims <= 1 + tally[t].moves

(* Whatever was claimed is in a dispatcher's hands, was pushed or passed   *)
(* over as stale, or was lost in a mishap: no other reminder goes missing, *)
(* stale ones and dead devices in the batch included.                      *)
ClaimsAreAccounted ==
    \A t \in Tasks :
        tally[t].claims = InQueue(t) + tally[t].handled + tally[t].lost

(* "A moved reminder fires again at its new time": what is to come is      *)
(* armed, unless the move overlapped with a claim.                         *)
MovedIsArmed ==
    \A t \in Tasks : 
        /\ task[t].status = "pending" /\ task[t].due > now /\ task[t].notified # 0
        => t \in raced

(* "Delivery is exactly-once" (reminders.py), as far as it goes: no timing *)
(* of dispatchers and edits claims a reminder twice, loses a claim or      *)
(* leaves a moved reminder unarmed.                                        *)
EachReminderOnce == ClaimedOnce /\ ClaimsAreAccounted /\ MovedIsArmed

(* What is due is claimed, or done with, or moved, within finitely many    *)
(* rounds.                                                                 *)
DueIsClaimed == \A t \in Tasks : IsDue(t) ~> ~IsDue(t)
=============================================================================
