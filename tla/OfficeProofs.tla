---------------------------- MODULE OfficeProofs ----------------------------
(* What holds in an office of any size, with any lifetimes, tasks, devices,  *)
(* models and batches: of the reminders, of the browser and of the calls of  *)
(* the language model.  Each part keeps an invariant of its own, and what    *)
(* another part does (only the clock moves) disturbs none of them.           *)
EXTENDS Office, Integers, FiniteSetTheorems, SequenceTheorems, NaturalsInduction,
        WellFoundedInduction, TLAPS

-----------------------------------------------------------------------------
(* The reminders                                                             *)

Tally == [claims : Nat, handled : Nat, lost : Nat, moves : Nat]
Run == [at : Nat, queue : SUBSET R!Claim, dropped : SUBSET Devices]
Edit == [task : Tasks \cup {0}, read : R!Row, want : R!Row]

AgendaTyped ==
    /\ edits \in Nat /\ mishaps \in Nat
    /\ task \in [Tasks -> R!Row] /\ tally \in [Tasks -> Tally]
    /\ sub \in [Devices -> [stored : BOOLEAN, revoked : BOOLEAN]] /\ gone \subseteq Devices
    /\ run \in [Dispatchers -> Run] /\ edit \in [Editors -> Edit]
    /\ raced \subseteq Tasks

\* A batch is small, and has a reminder once.
QueueFine(r) ==
    /\ IsFiniteSet(run[r].queue) /\ Cardinality(run[r].queue) <= Batch
    /\ \A c, d \in run[r].queue : c.task = d.task => c = d
    /\ run[r].dropped \subseteq gone

\* What an edit wants: a moved reminder is armed, another stays as it was read.
EditFine(e) ==
    edit[e].task # 0 =>
        /\ task[edit[e].task].status # "none" /\ edit[e].want.status # "none"
        /\ edit[e].want.notified = IF edit[e].want.due # edit[e].read.due THEN 0
                                   ELSE edit[e].read.notified

\* An armed reminder may be claimed once more, and what is to come is armed.
TaskFine(t) ==
    /\ task[t].status = "none" => tally[t].claims = 0
    /\ tally[t].claims <= 1 + tally[t].moves
    /\ task[t].notified = 0 => tally[t].claims <= tally[t].moves
    /\ task[t].notified # 0 /\ task[t].due > now => t \in raced

AgendaInv ==
    /\ now \in Nat \ {0} /\ AgendaTyped
    /\ \A r \in Dispatchers : QueueFine(r)
    /\ \A e \in Editors : EditFine(e)
    /\ \A t \in Tasks : TaskFine(t)
    /\ R!ClaimsAreAccounted

LEMMA SameCardinalityR ==
    /\ \A S : R!IsFiniteSet(S) <=> IsFiniteSet(S)
    /\ \A S : R!Cardinality(S) = Cardinality(S)
BY DEF R!IsFiniteSet, IsFiniteSet, R!Cardinality, Cardinality

LEMMA AgendaConstants ==
    /\ 0 \notin Tasks /\ IsFiniteSet(Tasks) /\ IsFiniteSet(Dispatchers)
    /\ Batch \in Nat /\ StaleAfter \in Nat /\ Dues \subseteq Nat
    /\ Asks \subseteq [status : {"pending", "done", "cancelled"}, due : Nat]
BY AgendaAssumption, SameCardinalityR DEF R!TasksAreReal

LEMMA TaskFields ==
    ASSUME AgendaTyped, NEW t \in Tasks
    PROVE  /\ task[t] \in R!Row /\ task[t].due \in Nat /\ task[t].notified \in Nat
           /\ task[t].status \in {"none", "pending", "done", "cancelled"}
           /\ tally[t] \in Tally /\ tally[t].claims \in Nat /\ tally[t].handled \in Nat
           /\ tally[t].lost \in Nat /\ tally[t].moves \in Nat
<1>1. task[t] \in R!Row /\ tally[t] \in Tally
  BY DEF AgendaTyped
<1> QED
  BY <1>1 DEF R!Row, Tally

\* What is due, claimed and edited does not change: only the hour does.
LEMMA AgendaStays ==
    ASSUME AgendaInv, now' \in Nat, now' >= now,
           UNCHANGED <<task, tally, raced, edit, run>>,
           sub' \in [Devices -> [stored : BOOLEAN, revoked : BOOLEAN]],
           gone \subseteq gone', gone' \subseteq Devices, mishaps' \in Nat, edits' \in Nat
    PROVE  AgendaInv'
<1>1. now' \in Nat \ {0} /\ AgendaTyped'
  BY DEF AgendaInv, AgendaTyped
<1>2. ASSUME NEW r \in Dispatchers PROVE QueueFine(r)'
  BY DEF AgendaInv, QueueFine
<1>3. ASSUME NEW e \in Editors PROVE EditFine(e)'
  BY DEF AgendaInv, EditFine
<1>4. ASSUME NEW t \in Tasks PROVE TaskFine(t)'
  <2>1. AgendaTyped
    BY DEF AgendaInv
  <2> QED
    BY <2>1, TaskFields DEF AgendaInv, TaskFine
<1>5. R!ClaimsAreAccounted'
  BY DEF AgendaInv, R!ClaimsAreAccounted, R!InQueue
<1> QED
  BY <1>1, <1>2, <1>3, <1>4, <1>5 DEF AgendaInv

-----------------------------------------------------------------------------
\* Who has a reminder in its batch.
Holders(t) == {r \in Dispatchers : \E c \in run[r].queue : c.task = t}

LEMMA HoldersCount ==
    ASSUME NEW t \in Tasks
    PROVE  /\ IsFiniteSet(Holders(t)) /\ R!InQueue(t) = Cardinality(Holders(t))
           /\ R!InQueue(t) \in Nat
<1>1. Holders(t) \subseteq Dispatchers
  BY DEF Holders
<1> QED
  BY <1>1, AgendaConstants, FS_Subset, FS_CardinalityType, SameCardinalityR DEF Holders, R!InQueue

LEMMA HoldersCountNext ==
    ASSUME NEW t \in Tasks
    PROVE  /\ IsFiniteSet(Holders(t)') /\ R!InQueue(t)' = Cardinality(Holders(t)')
           /\ R!InQueue(t)' \in Nat
<1>1. Holders(t)' \subseteq Dispatchers
  BY DEF Holders
<1> QED
  BY <1>1, AgendaConstants, FS_Subset, FS_CardinalityType, SameCardinalityR DEF Holders, R!InQueue

\* A dispatcher's batch changes: each of its reminders has a holder more or less.
LEMMA BatchChanges ==
    ASSUME NEW r \in Dispatchers, NEW Q, run'[r].queue = Q,
           \A s \in Dispatchers \ {r} : run'[s] = run[s],
           NEW t \in Tasks
    PROVE  LET had == \E c \in run[r].queue : c.task = t
               has == \E c \in Q : c.task = t
           IN /\ (had <=> has) => R!InQueue(t)' = R!InQueue(t)
              /\ ~had /\ has => R!InQueue(t)' = R!InQueue(t) + 1
              /\ had /\ ~has => R!InQueue(t) = R!InQueue(t)' + 1
<1> DEFINE had == \E c \in run[r].queue : c.task = t
           has == \E c \in Q : c.task = t
<1>1. CASE had <=> has
  <2>1. Holders(t)' = Holders(t)
    BY <1>1 DEF Holders
  <2> QED
    BY <1>1, <2>1, HoldersCount, HoldersCountNext
<1>2. CASE ~had /\ has
  <2>1. r \notin Holders(t) /\ Holders(t)' = Holders(t) \cup {r}
    BY <1>2 DEF Holders
  <2> QED
    BY <1>2, <2>1, HoldersCount, HoldersCountNext, FS_AddElement
<1>3. CASE had /\ ~has
  <2>1. r \in Holders(t) /\ Holders(t)' = Holders(t) \ {r}
    BY <1>3 DEF Holders
  <2>2. Cardinality(Holders(t)') = Cardinality(Holders(t)) - 1
    BY <2>1, HoldersCount, FS_RemoveElement
  <2> QED
    BY <1>3, <2>2, HoldersCount, HoldersCountNext
<1> QED
  BY <1>1, <1>2, <1>3

\* A task is written, and nothing that dispatchers or editors hold of it.
LEMMA TaskIsWritten ==
    ASSUME AgendaInv, NEW t \in Tasks, NEW new \in R!Row, new.status # "none",
           task' = [task EXCEPT ![t] = new],
           tally' \in [Tasks -> Tally],
           \A u \in Tasks : /\ tally'[u].claims = tally[u].claims
                            /\ tally'[u].handled = tally[u].handled
                            /\ tally'[u].lost = tally[u].lost
                            /\ u # t => tally'[u].moves = tally[u].moves,
           raced \subseteq raced', raced' \subseteq Tasks,
           tally[t].claims <= 1 + tally'[t].moves,
           new.notified = 0 => tally[t].claims <= tally'[t].moves,
           new.notified # 0 /\ new.due > now => t \in raced',
           edit' \in [Editors -> Edit],
           \A e \in Editors : edit'[e].task # 0 => edit'[e] = edit[e],
           UNCHANGED <<now, sub, gone, run, edits, mishaps>>
    PROVE  AgendaInv'
<1>1. AgendaTyped
  BY DEF AgendaInv
<1>2. now' \in Nat \ {0} /\ AgendaTyped'
  BY <1>1 DEF AgendaInv, AgendaTyped
<1>3. ASSUME NEW r \in Dispatchers PROVE QueueFine(r)'
  BY DEF AgendaInv, QueueFine
<1>4. ASSUME NEW e \in Editors PROVE EditFine(e)'
  <2>1. SUFFICES ASSUME edit'[e].task # 0 PROVE EditFine(e)'
    BY DEF EditFine
  <2>2. edit'[e] = edit[e] /\ edit[e].task \in Tasks /\ EditFine(e)
    BY <1>1, <2>1 DEF AgendaInv, AgendaTyped, Edit
  <2>3. task'[edit[e].task].status # "none"
    BY <1>1, <2>1, <2>2 DEF AgendaTyped, EditFine
  <2> QED
    BY <2>2, <2>3 DEF EditFine
<1>5. ASSUME NEW u \in Tasks PROVE TaskFine(u)'
  <2>1. TaskFine(u)
    BY DEF AgendaInv
  <2>2. CASE u = t
    <3>1. task'[u] = new
      BY <1>1, <2>2 DEF AgendaTyped
    <3> QED
      BY <2>1, <2>2, <3>1 DEF TaskFine
  <2>3. CASE u # t
    <3>1. task'[u] = task[u]
      BY <1>1, <2>3 DEF AgendaTyped
    <3> QED
      BY <2>1, <2>3, <3>1 DEF TaskFine
  <2> QED
    BY <2>2, <2>3
<1>6. R!ClaimsAreAccounted'
  BY DEF AgendaInv, R!ClaimsAreAccounted, R!InQueue
<1> QED
  BY <1>2, <1>3, <1>4, <1>5, <1>6 DEF AgendaInv

LEMMA CreateTaskKeeps ==
    ASSUME AgendaInv, NEW t \in Tasks, R!CreateTask(t)
    PROVE  AgendaInv'
<1>1. AgendaTyped
  BY DEF AgendaInv
<1>2. PICK due \in Dues :
        task' = [task EXCEPT ![t] = [status |-> "pending", due |-> due, notified |-> 0]]
  BY DEF R!CreateTask
<1>3. PICK new \in R!Row : new = [status |-> "pending", due |-> due, notified |-> 0]
  BY AgendaConstants DEF R!Row
<1>4. tally[t].claims = 0
  BY DEF R!CreateTask, AgendaInv, TaskFine
<1>5. tally' = tally /\ tally \in [Tasks -> Tally]
  BY <1>1 DEF R!CreateTask, AgendaTyped
<1>6. task' = [task EXCEPT ![t] = new] /\ new.status # "none" /\ new.notified = 0
  BY <1>2, <1>3
<1> HIDE <1>2, <1>3
<1>7. UNCHANGED <<now, sub, gone, run, edit, raced, edits, mishaps>>
  BY DEF R!CreateTask
<1>8. edit' \in [Editors -> Edit] /\ raced' \subseteq Tasks
  BY <1>1, <1>7 DEF AgendaTyped
<1>9. tally[t].claims <= tally'[t].moves
  BY <1>1, <1>4, <1>5, TaskFields
<1>10. tally[t].claims <= 1 + tally'[t].moves
  BY <1>1, <1>4, <1>5, TaskFields
<1> QED
  BY <1>5, <1>6, <1>7, <1>8, <1>9, <1>10, TaskIsWritten

LEMMA EditReadsKeeps ==
    ASSUME AgendaInv, NEW e \in Editors, NEW t \in Tasks, R!EditReads(e, t)
    PROVE  AgendaInv'
<1>1. AgendaTyped
  BY DEF AgendaInv
<1>2. PICK fields \in Asks :
        edit' = [edit EXCEPT ![e] = [task |-> t, read |-> task[t],
                                     want |-> R!Edited(task[t], fields)]]
  BY DEF R!EditReads
<1>3. PICK was \in R!Row : was = task[t]
  BY <1>1, TaskFields
<1>4. PICK want \in R!Row : want = R!Edited(was, fields)
  BY AgendaConstants DEF R!Row, R!Edited
<1>5. /\ want.status = fields.status /\ want.due = fields.due
      /\ want.notified = IF want.due # was.due THEN 0 ELSE was.notified
      /\ want.status # "none"
  BY <1>4, AgendaConstants DEF R!Row, R!Edited
<1>6. PICK new \in Edit : new = [task |-> t, read |-> was, want |-> want]
  BY DEF Edit
<1>7. new.task = t /\ new.read = was /\ new.want = want
  BY <1>6
<1>8. /\ edit' = [edit EXCEPT ![e] = new]
      /\ edits' \in Nat /\ task[t].status # "none"
  <2>1. edit' = [edit EXCEPT ![e] = new]
    BY <1>2, <1>3, <1>4, <1>6
  <2>2. edits' \in Nat /\ task[t].status # "none"
    BY <1>1 DEF R!EditReads, AgendaTyped
  <2> QED
    BY <2>1, <2>2
<1> HIDE <1>2, <1>3, <1>4, <1>6
<1>9. UNCHANGED <<now, task, sub, gone, run, tally, raced, mishaps>>
  BY DEF R!EditReads
<1>10. now' \in Nat \ {0} /\ AgendaTyped'
  BY <1>1, <1>8, <1>9 DEF AgendaInv, AgendaTyped
<1>11. ASSUME NEW r \in Dispatchers PROVE QueueFine(r)'
  BY <1>9 DEF AgendaInv, QueueFine
<1>12. ASSUME NEW f \in Editors PROVE EditFine(f)'
  <2>1. CASE f = e
    <3>1. edit'[f] = new
      BY <1>1, <1>8, <2>1 DEF AgendaTyped
    <3> QED
      BY <1>5, <1>7, <1>8, <1>9, <3>1 DEF EditFine
  <2>2. CASE f # e
    <3>1. edit'[f] = edit[f]
      BY <1>1, <1>8, <2>2 DEF AgendaTyped
    <3> QED
      BY <1>9, <3>1 DEF AgendaInv, EditFine
  <2> QED
    BY <2>1, <2>2
<1>13. ASSUME NEW u \in Tasks PROVE TaskFine(u)'
  BY <1>9 DEF AgendaInv, TaskFine
<1>14. R!ClaimsAreAccounted'
  BY <1>9 DEF AgendaInv, R!ClaimsAreAccounted, R!InQueue
<1> QED
  BY <1>10, <1>11, <1>12, <1>13, <1>14 DEF AgendaInv

\* What a row is after an edit of it has been written.
LEMMA WrittenRow ==
    ASSUME NEW was \in R!Row, NEW read \in R!Row, NEW want \in R!Row,
           NEW new, new = R!Written(was, read, want)
    PROVE  /\ new \in R!Row
           /\ new.status = (IF want.status # read.status THEN want.status ELSE was.status)
           /\ new.due = (IF want.due # read.due THEN want.due ELSE was.due)
           /\ new.notified = (IF want.notified # read.notified THEN want.notified
                              ELSE was.notified)
BY DEF R!Row, R!Written

LEMMA EditWritesKeeps ==
    ASSUME AgendaInv, NEW e \in Editors, R!EditWrites(e)
    PROVE  AgendaInv'
<1>1. AgendaTyped
  BY DEF AgendaInv
<1>2. PICK t \in Tasks : t = edit[e].task
  BY <1>1 DEF R!EditWrites, AgendaTyped, Edit
<1>3. PICK read \in R!Row, want \in R!Row : read = edit[e].read /\ want = edit[e].want
  BY <1>1 DEF AgendaTyped, Edit
<1>4. PICK was \in R!Row : was = task[t]
  BY <1>1, TaskFields
<1>5. PICK new \in R!Row : new = R!Written(was, read, want)
  BY WrittenRow
<1>6. /\ task' = [task EXCEPT ![t] = new]
      /\ edit' = [edit EXCEPT ![e] = R!NoEdit]
      /\ tally' = [tally EXCEPT ![t].moves = IF read.due # want.due THEN @ + 1 ELSE @]
      /\ raced' = (IF was.notified # read.notified /\ read.due # want.due
                   THEN raced \cup {t} ELSE raced)
      /\ UNCHANGED <<now, sub, gone, run, edits, mishaps>>
  BY <1>1, <1>2, <1>3, <1>4, <1>5 DEF R!EditWrites, AgendaTyped
<1>7. /\ new.status = (IF want.status # read.status THEN want.status ELSE was.status)
      /\ new.due = (IF want.due # read.due THEN want.due ELSE was.due)
      /\ new.notified = (IF want.notified # read.notified THEN want.notified
                         ELSE was.notified)
  BY <1>5, WrittenRow
<1>8. /\ was.status # "none" /\ want.status # "none"
      /\ want.notified = IF want.due # read.due THEN 0 ELSE read.notified
  BY <1>2, <1>3, <1>4, AgendaConstants DEF AgendaInv, EditFine
<1>9. PICK more \in Nat : more = IF read.due # want.due THEN tally[t].moves + 1
                                                         ELSE tally[t].moves
  BY <1>1, TaskFields
<1>10. PICK told \in Tally : told = [tally[t] EXCEPT !.moves = more]
  BY <1>1, TaskFields DEF Tally
<1>11. /\ told.claims = tally[t].claims /\ told.handled = tally[t].handled
       /\ told.lost = tally[t].lost /\ told.moves = more
  BY <1>1, <1>10, TaskFields DEF Tally
<1>12. tally' = [tally EXCEPT ![t] = told]
  BY <1>1, <1>6, <1>9, <1>10 DEF AgendaTyped
<1>13. tally' \in [Tasks -> Tally] /\ tally'[t] = told
       /\ \A u \in Tasks : u # t => tally'[u] = tally[u]
  BY <1>1, <1>12 DEF AgendaTyped
<1>14. edit' \in [Editors -> Edit] /\ edit'[e] = R!NoEdit
       /\ \A f \in Editors : f # e => edit'[f] = edit[f]
  BY <1>1, <1>6 DEF AgendaTyped, Edit, R!NoEdit, R!NoTask, R!Row
<1>15. TaskFine(t)
  BY DEF AgendaInv
<1>16. /\ tally[t].claims \in Nat /\ tally[t].moves \in Nat /\ new.notified \in Nat
       /\ was.due \in Nat /\ was.notified \in Nat /\ want.due \in Nat /\ read.due \in Nat
  BY <1>1, TaskFields DEF R!Row
<1>17. /\ tally[t].claims <= 1 + more
       /\ new.notified = 0 => tally[t].claims <= more
       /\ new.notified # 0 /\ new.due > now => t \in raced'
  BY <1>4, <1>6, <1>7, <1>8, <1>9, <1>15, <1>16 DEF TaskFine
<1>18. raced \subseteq raced' /\ raced' \subseteq Tasks
  BY <1>1, <1>6 DEF AgendaTyped
<1>19. new.status # "none"
  BY <1>7, <1>8
<1>20. R!NoEdit.task = 0
  BY DEF R!NoEdit
<1> HIDE <1>9, <1>10, <1>5, <1>4, <1>3
<1>21. \A u \in Tasks : /\ tally'[u].claims = tally[u].claims
                        /\ tally'[u].handled = tally[u].handled
                        /\ tally'[u].lost = tally[u].lost
                        /\ u # t => tally'[u].moves = tally[u].moves
  BY <1>11, <1>13
<1>22. \A f \in Editors : edit'[f].task # 0 => edit'[f] = edit[f]
  BY <1>14, <1>20
<1>23. tally'[t].moves = more
  BY <1>11, <1>13
<1> QED
  BY <1>6, <1>13, <1>14, <1>17, <1>18, <1>19, <1>21, <1>22, <1>23, TaskIsWritten

LEMMA HourAndDevicesKeep ==
    ASSUME AgendaInv,
           \/ R!Tick
           \/ \E d \in Devices : R!Subscribe(d) \/ R!Unsubscribe(d) \/ R!Drop(d)
           \/ \E u \in Users : R!PushTest(u)
    PROVE  AgendaInv'
<1>1. AgendaTyped /\ now \in Nat
  BY DEF AgendaInv
<1>2. CASE R!Tick
  <2>1. now' \in Nat /\ now' >= now /\ UNCHANGED <<task, sub, gone, run, edit, tally, raced, edits, mishaps>>
    BY <1>1, <1>2 DEF R!Tick
  <2>2. /\ sub' \in [Devices -> [stored : BOOLEAN, revoked : BOOLEAN]]
        /\ gone \subseteq gone' /\ gone' \subseteq Devices /\ mishaps' \in Nat /\ edits' \in Nat
    BY <1>1, <2>1 DEF AgendaTyped
  <2> QED
    BY <2>1, <2>2, AgendaStays
<1>3. ASSUME NEW d \in Devices, R!Subscribe(d) \/ R!Unsubscribe(d) PROVE AgendaInv'
  <2>1. /\ UNCHANGED <<now, task, gone, run, edit, tally, raced, edits, mishaps>>
        /\ sub' \in [Devices -> [stored : BOOLEAN, revoked : BOOLEAN]]
    <3>1. CASE R!Subscribe(d)
      BY <1>1, <3>1 DEF R!Subscribe, AgendaTyped
    <3>2. CASE R!Unsubscribe(d)
      BY <1>1, <3>2 DEF R!Unsubscribe, AgendaTyped
    <3> QED
      BY <1>3, <3>1, <3>2
  <2> QED
    BY <1>1, <2>1, AgendaStays DEF AgendaTyped
<1>4. ASSUME NEW d \in Devices, R!Drop(d) PROVE AgendaInv'
  <2>1. /\ UNCHANGED <<now, task, sub, run, edit, tally, raced, edits>>
        /\ gone' = gone \cup {d} /\ mishaps' \in Nat
    BY <1>1, <1>4 DEF R!Drop, R!Mishap, AgendaTyped
  <2> QED
    BY <1>1, <2>1, AgendaStays DEF AgendaTyped
<1>5. ASSUME NEW u \in Users, R!PushTest(u) PROVE AgendaInv'
  <2>1. /\ UNCHANGED <<now, task, gone, run, edit, tally, raced, edits, mishaps>>
        /\ sub' = R!Revoke(R!Refused(R!LiveSubs(u)))
    BY <1>5 DEF R!PushTest
  <2>2. sub' \in [Devices -> [stored : BOOLEAN, revoked : BOOLEAN]]
    BY <1>1, <2>1 DEF R!Revoke, AgendaTyped
  <2> QED
    BY <1>1, <2>1, <2>2, AgendaStays DEF AgendaTyped
<1> QED
  BY <1>2, <1>3, <1>4, <1>5

-----------------------------------------------------------------------------
Holds(r, t) == \E c \in run[r].queue : c.task = t

LEMMA ClaimsAddUp ==
    ASSUME NEW c \in Nat, NEW q \in Nat, NEW h \in Nat, NEW l \in Nat,
           NEW d \in Nat, NEW p \in Nat, NEW g \in Nat, NEW k \in Nat,
           c = q + h + l,
           \/ d = c + 1 /\ p = q + 1 /\ g + k = h + l
           \/ d = c /\ q = p + 1 /\ g + k = h + l + 1
           \/ d = c /\ p = q /\ g + k = h + l
    PROVE  d = p + g + k
OBVIOUS

\* A reminder's claims are accounted for when a batch changes.
LEMMA ClaimFollows ==
    ASSUME AgendaTyped, NEW r \in Dispatchers, NEW Q, run'[r].queue = Q,
           \A s \in Dispatchers \ {r} : run'[s] = run[s],
           NEW t \in Tasks, tally' \in [Tasks -> Tally],
           tally[t].claims = R!InQueue(t) + tally[t].handled + tally[t].lost,
           NEW had \in BOOLEAN, NEW has \in BOOLEAN,
           had <=> Holds(r, t), has <=> \E c \in Q : c.task = t,
           tally'[t].claims = tally[t].claims + IF ~had /\ has THEN 1 ELSE 0,
           tally'[t].handled + tally'[t].lost
             = tally[t].handled + tally[t].lost + IF had /\ ~has THEN 1 ELSE 0
    PROVE  tally'[t].claims = R!InQueue(t)' + tally'[t].handled + tally'[t].lost
<1>1. /\ tally[t].claims \in Nat /\ tally[t].handled \in Nat /\ tally[t].lost \in Nat
      /\ tally'[t].claims \in Nat /\ tally'[t].handled \in Nat /\ tally'[t].lost \in Nat
      /\ R!InQueue(t) \in Nat /\ R!InQueue(t)' \in Nat
  BY TaskFields, HoldersCount, HoldersCountNext DEF Tally
<1>2. /\ (had <=> has) => R!InQueue(t)' = R!InQueue(t)
      /\ ~had /\ has => R!InQueue(t)' = R!InQueue(t) + 1
      /\ had /\ ~has => R!InQueue(t) = R!InQueue(t)' + 1
  BY BatchChanges DEF Holds
<1>3. \/ /\ tally'[t].claims = tally[t].claims + 1 /\ R!InQueue(t)' = R!InQueue(t) + 1
         /\ tally'[t].handled + tally'[t].lost = tally[t].handled + tally[t].lost
      \/ /\ tally'[t].claims = tally[t].claims /\ R!InQueue(t) = R!InQueue(t)' + 1
         /\ tally'[t].handled + tally'[t].lost = tally[t].handled + tally[t].lost + 1
      \/ /\ tally'[t].claims = tally[t].claims /\ R!InQueue(t)' = R!InQueue(t)
         /\ tally'[t].handled + tally'[t].lost = tally[t].handled + tally[t].lost
  BY <1>1, <1>2
<1> QED
  BY <1>1, <1>3, ClaimsAddUp

\* The reminders that come into a batch are due and claimed, those that leave it
\* are handled or lost.
BookKept(r, Q, t) ==
    LET gets == ~Holds(r, t) /\ (\E c \in Q : c.task = t)
        sheds == Holds(r, t) /\ ~(\E c \in Q : c.task = t)
    IN
    /\ tally'[t].moves = tally[t].moves /\ task'[t].status = task[t].status
    /\ task'[t].due = task[t].due
    /\ gets => /\ R!IsDue(t) /\ task'[t].notified = now
               /\ tally'[t].claims = tally[t].claims + 1
               /\ tally'[t].handled + tally'[t].lost = tally[t].handled + tally[t].lost
    /\ ~gets => /\ task'[t].notified = task[t].notified
                /\ tally'[t].claims = tally[t].claims
    /\ sheds => tally'[t].handled + tally'[t].lost
                  = tally[t].handled + tally[t].lost + 1
    /\ ~gets /\ ~sheds => tally'[t].handled + tally'[t].lost
                            = tally[t].handled + tally[t].lost

\* A dispatcher takes up reminders that are due, or is done with some.
LEMMA DispatcherMoves ==
    ASSUME AgendaInv, NEW r \in Dispatchers, NEW new \in Run, run' = [run EXCEPT ![r] = new],
           IsFiniteSet(new.queue), Cardinality(new.queue) <= Batch,
           \A c, d \in new.queue : c.task = d.task => c = d,
           new.dropped \subseteq gone,
           task' \in [Tasks -> R!Row], tally' \in [Tasks -> Tally],
           sub' \in [Devices -> [stored : BOOLEAN, revoked : BOOLEAN]], mishaps' \in Nat,
           UNCHANGED <<now, gone, edit, raced, edits>>,
           \A t \in Tasks : BookKept(r, new.queue, t)
    PROVE  AgendaInv'
<1>1. AgendaTyped
  BY DEF AgendaInv
<1>2. run' \in [Dispatchers -> Run] /\ run'[r] = new
      /\ \A s \in Dispatchers \ {r} : run'[s] = run[s]
  BY <1>1 DEF AgendaTyped
<1>3. now' \in Nat \ {0} /\ AgendaTyped'
  BY <1>1, <1>2 DEF AgendaInv, AgendaTyped
<1>4. ASSUME NEW s \in Dispatchers PROVE QueueFine(s)'
  <2>1. CASE s = r
    BY <1>2, <2>1 DEF QueueFine
  <2>2. CASE s # r
    <3>1. run'[s] = run[s]
      BY <1>2, <2>2
    <3> QED
      BY <3>1 DEF AgendaInv, QueueFine
  <2> QED
    BY <2>1, <2>2
<1>5. ASSUME NEW e \in Editors PROVE EditFine(e)'
  <2>1. SUFFICES ASSUME edit[e].task # 0 PROVE EditFine(e)'
    BY DEF EditFine
  <2>2. edit[e].task \in Tasks /\ EditFine(e)
    BY <1>1, <2>1 DEF AgendaInv, AgendaTyped, Edit
  <2>3. task'[edit[e].task].status = task[edit[e].task].status
    BY <2>2 DEF BookKept
  <2> QED
    BY <2>1, <2>2, <2>3 DEF EditFine
<1>6. ASSUME NEW t \in Tasks PROVE TaskFine(t)'
  <2>1. TaskFine(t) /\ now # 0 /\ now \in Nat
    BY DEF AgendaInv
  <2>2. tally[t].claims \in Nat /\ tally[t].moves \in Nat
    BY <1>1, TaskFields
  <2>3. CASE ~Holds(r, t) /\ \E c \in new.queue : c.task = t
    <3>1. /\ R!IsDue(t) /\ task'[t].notified = now
          /\ tally'[t].claims = tally[t].claims + 1 /\ tally'[t].moves = tally[t].moves
          /\ task'[t].due = task[t].due /\ task'[t].status = task[t].status
      BY <2>3 DEF BookKept
    <3>2. /\ task[t].notified = 0 /\ task[t].status = "pending"
          /\ task[t].due \in Nat /\ task[t].due <= now
      BY <1>1, <3>1, TaskFields DEF R!IsDue
    <3> QED
      BY <2>1, <2>2, <3>1, <3>2 DEF TaskFine
  <2>4. CASE ~(~Holds(r, t) /\ \E c \in new.queue : c.task = t)
    <3>1. /\ task'[t].notified = task[t].notified
          /\ tally'[t].claims = tally[t].claims /\ tally'[t].moves = tally[t].moves
          /\ task'[t].due = task[t].due /\ task'[t].status = task[t].status
      BY <2>4 DEF BookKept
    <3> QED
      BY <2>1, <3>1 DEF TaskFine
  <2> QED
    BY <2>3, <2>4
<1>7. ASSUME NEW t \in Tasks
      PROVE  tally'[t].claims = R!InQueue(t)' + tally'[t].handled + tally'[t].lost
  <2>1. tally[t].claims = R!InQueue(t) + tally[t].handled + tally[t].lost
    BY DEF AgendaInv, R!ClaimsAreAccounted
  <2> PICK had \in BOOLEAN : had <=> Holds(r, t)
    OBVIOUS
  <2> PICK has \in BOOLEAN : has <=> \E c \in new.queue : c.task = t
    OBVIOUS
  <2>2. tally[t].claims \in Nat /\ tally[t].handled \in Nat /\ tally[t].lost \in Nat
    BY <1>1, TaskFields
  <2>3. tally'[t].claims = tally[t].claims + IF ~had /\ has THEN 1 ELSE 0
    BY <2>2 DEF BookKept
  <2>4. tally'[t].handled + tally'[t].lost
          = tally[t].handled + tally[t].lost + IF had /\ ~has THEN 1 ELSE 0
    BY <2>2 DEF BookKept
  <2> QED
    BY <1>1, <1>2, <2>1, <2>3, <2>4, ClaimFollows
<1>8. R!ClaimsAreAccounted'
  BY <1>7 DEF R!ClaimsAreAccounted
<1> QED
  BY <1>3, <1>4, <1>5, <1>6, <1>8 DEF AgendaInv

LEMMA ClaimsKeeps ==
    ASSUME AgendaInv, NEW r \in Dispatchers, R!Claims(r)
    PROVE  AgendaInv'
<1>1. AgendaTyped /\ now \in Nat \ {0}
  BY DEF AgendaInv
<1>2. PICK ts \in SUBSET R!DueTasks :
        /\ R!Claimable(ts)
        /\ task' = [t \in Tasks |-> IF t \in ts THEN [task[t] EXCEPT !.notified = now]
                                                ELSE task[t]]
        /\ tally' = [t \in Tasks |-> IF t \in ts THEN [tally[t] EXCEPT !.claims = @ + 1]
                                                 ELSE tally[t]]
        /\ run' = [run EXCEPT ![r] = [at |-> now, dropped |-> {},
                       queue |-> {[task |-> t, due |-> task[t].due] : t \in ts}]]
  BY DEF R!Claims
<1>3. /\ run[r] = R!AtRest
      /\ UNCHANGED <<now, sub, gone, edit, raced, edits, mishaps>>
  BY DEF R!Claims
<1>4. \A t \in Tasks : ~Holds(r, t)
  BY <1>3 DEF Holds, R!AtRest
<1>5. ts \subseteq Tasks /\ Cardinality(ts) <= Batch /\ \A t \in ts : R!IsDue(t)
  BY <1>2, SameCardinalityR DEF R!Claimable, R!DueTasks
<1> DEFINE claim == [t \in ts |-> [task |-> t, due |-> task[t].due]]
           Q == {[task |-> t, due |-> task[t].due] : t \in ts}
<1>6. Q \subseteq R!Claim
  <2> SUFFICES ASSUME NEW t \in ts PROVE [task |-> t, due |-> task[t].due] \in R!Claim
    OBVIOUS
  <2>1. t \in Tasks /\ task[t].due \in Nat \ {0}
    BY <1>1, <1>5, TaskFields DEF R!IsDue
  <2> QED
    BY <2>1 DEF R!Claim
<1>7. IsFiniteSet(ts) /\ Cardinality(ts) \in Nat
  BY <1>5, AgendaConstants, FS_Subset, FS_CardinalityType
<1>8. claim \in Surjection(ts, Q)
  BY DEF Surjection
<1>9. IsFiniteSet(Q) /\ Cardinality(Q) <= Cardinality(ts) /\ Cardinality(Q) \in Nat
  <2> HIDE DEF claim, Q
  <2> QED  BY <1>7, <1>8, FS_Surjection, FS_CardinalityType
<1>10. \A c, d \in Q : c.task = d.task => c = d
  OBVIOUS
<1>11. \A t \in Tasks : (\E c \in Q : c.task = t) <=> t \in ts
  <2>1. ASSUME NEW t \in ts PROVE \E c \in Q : c.task = t
    <3>1. [task |-> t, due |-> task[t].due] \in Q
      OBVIOUS
    <3> HIDE DEF Q
    <3> QED  BY <3>1
  <2>2. ASSUME NEW c \in Q PROVE c.task \in ts
    OBVIOUS
  <2> HIDE DEF Q
  <2> QED  BY <2>1, <2>2
<1> HIDE DEF claim, Q
<1>12. PICK new \in Run : new = [at |-> now, dropped |-> {}, queue |-> Q]
  BY <1>1, <1>6 DEF Run
<1>13. new.queue = Q /\ new.dropped = {}
  BY <1>12
<1>14. run' = [run EXCEPT ![r] = new]
  BY <1>2, <1>12 DEF Q
<1> HIDE <1>12
<1>15. Cardinality(Q) <= Batch
  BY <1>5, <1>7, <1>9, AgendaConstants
<1>16. task' \in [Tasks -> R!Row] /\ tally' \in [Tasks -> Tally]
  <2>1. ASSUME NEW t \in Tasks PROVE [task[t] EXCEPT !.notified = now] \in R!Row
    BY <1>1, TaskFields DEF R!Row
  <2>2. ASSUME NEW t \in Tasks PROVE [tally[t] EXCEPT !.claims = @ + 1] \in Tally
    BY <1>1, TaskFields DEF Tally
  <2> QED
    BY <1>1, <1>2, <2>1, <2>2 DEF AgendaTyped
<1>17. ASSUME NEW t \in Tasks, t \in ts
       PROVE  /\ task'[t].status = task[t].status /\ task'[t].due = task[t].due
              /\ task'[t].notified = now /\ tally'[t].claims = tally[t].claims + 1
              /\ tally'[t].handled = tally[t].handled /\ tally'[t].lost = tally[t].lost
              /\ tally'[t].moves = tally[t].moves
  <2>1. task[t] \in R!Row /\ tally[t] \in Tally
    BY <1>1, TaskFields
  <2>2. task'[t] = [task[t] EXCEPT !.notified = now]
        /\ tally'[t] = [tally[t] EXCEPT !.claims = @ + 1]
    BY <1>2, <1>17
  <2> QED
    BY <2>1, <2>2 DEF R!Row, Tally
<1>18. ASSUME NEW t \in Tasks, t \notin ts
       PROVE  task'[t] = task[t] /\ tally'[t] = tally[t]
  BY <1>2, <1>18
<1>19. sub' \in [Devices -> [stored : BOOLEAN, revoked : BOOLEAN]] /\ mishaps' \in Nat
  BY <1>1, <1>3 DEF AgendaTyped
<1>20. ASSUME NEW t \in Tasks PROVE BookKept(r, new.queue, t)
  <2>1. ~Holds(r, t) /\ ((\E c \in new.queue : c.task = t) <=> t \in ts)
    BY <1>4, <1>11, <1>13
  <2>2. CASE t \in ts
    BY <1>5, <1>17, <2>1, <2>2 DEF BookKept
  <2>3. CASE t \notin ts
    BY <1>18, <2>1, <2>3 DEF BookKept
  <2> QED
    BY <2>2, <2>3
<1> QED
  BY <1>3, <1>9, <1>10, <1>13, <1>14, <1>15, <1>16, <1>19, <1>20, DispatcherMoves

\* A reminder leaves a batch.
LEMMA ReminderLeaves ==
    ASSUME AgendaInv, NEW r \in Dispatchers, NEW c \in run[r].queue,
           NEW new \in Run, run' = [run EXCEPT ![r] = new],
           new.queue = run[r].queue \ {c}, new.dropped \subseteq gone,
           tally' = [tally EXCEPT ![c.task].handled = @ + 1],
           sub' \in [Devices -> [stored : BOOLEAN, revoked : BOOLEAN]],
           UNCHANGED <<now, task, gone, edit, raced, edits, mishaps>>
    PROVE  AgendaInv'
<1>1. AgendaTyped /\ QueueFine(r)
  BY DEF AgendaInv
<1>2. c \in R!Claim /\ c.task \in Tasks
  BY <1>1 DEF AgendaTyped, Run, R!Claim
<1>3. /\ IsFiniteSet(new.queue) /\ Cardinality(new.queue) <= Batch
      /\ \A a, b \in new.queue : a.task = b.task => a = b
  <2>1. /\ IsFiniteSet(run[r].queue) /\ Cardinality(run[r].queue) \in Nat
        /\ Cardinality(run[r].queue) <= Batch
    BY <1>1, FS_CardinalityType DEF QueueFine
  <2>2. /\ IsFiniteSet(new.queue) /\ Cardinality(new.queue) = Cardinality(run[r].queue) - 1
    BY <2>1, FS_RemoveElement
  <2> QED
    BY <1>1, <2>1, <2>2, AgendaConstants DEF QueueFine
<1>4. task' \in [Tasks -> R!Row] /\ mishaps' \in Nat
  BY <1>1 DEF AgendaTyped
<1>5. PICK u \in Tasks : u = c.task
  BY <1>2
<1>6. PICK more \in Nat : more = tally[u].handled + 1
  BY <1>1, TaskFields
<1>7. PICK told \in Tally : told = [tally[u] EXCEPT !.handled = more]
  BY <1>1, TaskFields DEF Tally
<1>8. /\ told.claims = tally[u].claims /\ told.lost = tally[u].lost
      /\ told.moves = tally[u].moves /\ told.handled = more
  BY <1>1, <1>7, TaskFields DEF Tally
<1>9. tally' = [tally EXCEPT ![u] = told]
  BY <1>1, <1>5, <1>6, <1>7 DEF AgendaTyped
<1>10. tally' \in [Tasks -> Tally] /\ tally'[u] = told
       /\ \A t \in Tasks : t # u => tally'[t] = tally[t]
  BY <1>1, <1>9 DEF AgendaTyped
<1>11. \A t \in Tasks : Holds(r, t) /\ ~(\E d \in new.queue : d.task = t) <=> t = u
  BY <1>1, <1>5 DEF Holds, QueueFine
<1>12. \A t \in Tasks : (\E d \in new.queue : d.task = t) => Holds(r, t)
  BY DEF Holds
<1>13. tally'[u].handled + tally'[u].lost = tally[u].handled + tally[u].lost + 1
  <2>1. tally'[u].handled = tally[u].handled + 1 /\ tally'[u].lost = tally[u].lost
    BY <1>6, <1>8, <1>10
  <2>2. tally[u].handled \in Nat /\ tally[u].lost \in Nat
    BY <1>1, TaskFields
  <2> QED
    BY <2>1, <2>2
<1> HIDE <1>6, <1>7
<1>14. ASSUME NEW t \in Tasks PROVE BookKept(r, new.queue, t)
  <2>1. CASE t = u
    BY <1>8, <1>10, <1>11, <1>12, <1>13, <2>1 DEF BookKept
  <2>2. CASE t # u
    BY <1>10, <1>11, <1>12, <2>2 DEF BookKept
  <2> QED
    BY <2>1, <2>2
<1> QED
  BY <1>3, <1>4, <1>10, <1>14, DispatcherMoves

\* A dispatcher has seen what is left of its batch, and what devices it dropped.
LEMMA RunFields ==
    ASSUME AgendaTyped, NEW r \in Dispatchers
    PROVE  /\ run[r] \in Run /\ run[r].queue \subseteq R!Claim
           /\ run[r].dropped \subseteq Devices
<1>1. run[r] \in Run
  BY DEF AgendaTyped
<1> QED
  BY <1>1 DEF Run

LEMMA SkipsKeeps ==
    ASSUME AgendaInv, NEW r \in Dispatchers, R!Skips(r)
    PROVE  AgendaInv'
<1>1. AgendaTyped /\ QueueFine(r)
  BY DEF AgendaInv
<1>2. PICK c \in run[r].queue :
        /\ run' = [run EXCEPT ![r].queue = R!Passed(r, c)]
        /\ R!Handled(c.task)
        /\ UNCHANGED <<now, task, sub, gone, edit, raced, edits, mishaps>>
  BY DEF R!Skips
<1>3. PICK q \in SUBSET R!Claim : q = run[r].queue \ {c}
  BY <1>1, RunFields
<1>4. PICK new \in Run : new = [run[r] EXCEPT !.queue = q]
  BY <1>1, RunFields DEF Run
<1>5. new.queue = q /\ new.dropped = run[r].dropped
  BY <1>1, <1>4, RunFields DEF Run
<1>6. run' = [run EXCEPT ![r] = new]
  BY <1>1, <1>2, <1>3, <1>4 DEF AgendaTyped, R!Passed
<1>7. tally' = [tally EXCEPT ![c.task].handled = @ + 1]
  BY <1>2 DEF R!Handled
<1>8. sub' \in [Devices -> [stored : BOOLEAN, revoked : BOOLEAN]]
  BY <1>1, <1>2 DEF AgendaTyped
<1>9. new.queue = run[r].queue \ {c} /\ new.dropped \subseteq gone
  BY <1>1, <1>3, <1>5 DEF QueueFine
<1> HIDE <1>3, <1>4
<1> QED
  BY <1>2, <1>6, <1>7, <1>8, <1>9, ReminderLeaves

LEMMA SendsKeeps ==
    ASSUME AgendaInv, NEW r \in Dispatchers, R!Sends(r)
    PROVE  AgendaInv'
<1>1. AgendaTyped /\ QueueFine(r)
  BY DEF AgendaInv
<1>2. PICK c \in run[r].queue :
        LET live == R!LiveSubs(AssigneeOf[c.task])
            dropped == run[r].dropped \cup R!Refused(live)
            sent == live \ gone
        IN
        /\ sub' = IF sent # {} THEN R!Revoke(dropped) ELSE sub
        /\ run' = [run EXCEPT ![r].queue = @ \ {c},
                              ![r].dropped = IF sent # {} THEN {} ELSE dropped]
        /\ R!Handled(c.task)
        /\ UNCHANGED <<now, task, gone, edit, raced, edits, mishaps>>
  BY DEF R!Sends
<1> DEFINE live == R!LiveSubs(AssigneeOf[c.task])
           dropped == run[r].dropped \cup R!Refused(live)
           sent == live \ gone
<1>3. live \in SUBSET Devices /\ dropped \in SUBSET Devices /\ sent \in SUBSET Devices
  BY <1>1, RunFields DEF R!LiveSubs, R!Refused
<1>4. dropped \subseteq gone
  BY <1>1, <1>2 DEF QueueFine, R!Refused
<1>5. sub' = IF sent # {} THEN R!Revoke(dropped) ELSE sub
  BY <1>2
<1>6. run' = [run EXCEPT ![r].queue = @ \ {c},
                          ![r].dropped = IF sent # {} THEN {} ELSE dropped]
  BY <1>2
<1> HIDE DEF dropped, sent, live
<1>7. PICK q \in SUBSET R!Claim : q = run[r].queue \ {c}
  BY <1>1, RunFields
<1>8. PICK off \in SUBSET Devices : off = IF sent # {} THEN {} ELSE dropped
  BY <1>3
<1>9. PICK new \in Run : new = [run[r] EXCEPT !.queue = q, !.dropped = off]
  BY <1>1, RunFields DEF Run
<1>10. new.queue = q /\ new.dropped = off
  BY <1>1, <1>9, RunFields DEF Run
<1>11. run' = [run EXCEPT ![r] = new]
  <2>1. run' = [run EXCEPT ![r].queue = run[r].queue \ {c}, ![r].dropped = off]
    BY <1>1, <1>8, <1>6 DEF AgendaTyped
  <2> QED
    BY <1>1, <1>7, <1>9, <2>1 DEF AgendaTyped
<1>12. tally' = [tally EXCEPT ![c.task].handled = @ + 1]
  BY <1>2 DEF R!Handled
<1>13. sub' \in [Devices -> [stored : BOOLEAN, revoked : BOOLEAN]]
  <2>1. R!Revoke(dropped) \in [Devices -> [stored : BOOLEAN, revoked : BOOLEAN]]
    BY <1>1 DEF AgendaTyped, R!Revoke
  <2>2. sub \in [Devices -> [stored : BOOLEAN, revoked : BOOLEAN]]
    BY <1>1 DEF AgendaTyped
  <2> QED
    BY <1>5, <2>1, <2>2
<1>14. new.queue = run[r].queue \ {c} /\ new.dropped \subseteq gone
  BY <1>4, <1>7, <1>8, <1>10
<1> HIDE <1>7, <1>8, <1>9
<1> QED
  BY <1>2, <1>11, <1>12, <1>13, <1>14, ReminderLeaves

\* A dispatcher at rest again: what it has not handled it has lost.
LEMMA AtRestAgain ==
    ASSUME AgendaInv, NEW r \in Dispatchers, run' = [run EXCEPT ![r] = R!AtRest],
           tally' = [t \in Tasks |-> IF t \in {c.task : c \in run[r].queue}
                                     THEN [tally[t] EXCEPT !.lost = @ + 1] ELSE tally[t]],
           mishaps' \in Nat, UNCHANGED <<now, task, sub, gone, edit, raced, edits>>
    PROVE  AgendaInv'
<1>1. AgendaTyped
  BY DEF AgendaInv
<1>2. PICK new \in Run : new = R!AtRest
  BY DEF Run, R!AtRest
<1>3. new.queue = {} /\ new.dropped = {}
  BY <1>2 DEF R!AtRest
<1>4. IsFiniteSet(new.queue) /\ Cardinality(new.queue) <= Batch
  BY <1>3, AgendaConstants, FS_EmptySet
<1>5. tally' \in [Tasks -> Tally]
  <2>1. ASSUME NEW t \in Tasks PROVE [tally[t] EXCEPT !.lost = @ + 1] \in Tally
    BY <1>1, TaskFields DEF Tally
  <2> QED
    BY <1>1, <2>1 DEF AgendaTyped
<1>6. ASSUME NEW t \in Tasks PROVE BookKept(r, new.queue, t)
  <2>1. ~(\E c \in new.queue : c.task = t)
    BY <1>3
  <2>2. Holds(r, t) <=> t \in {c.task : c \in run[r].queue}
    BY DEF Holds
  <2>3. CASE Holds(r, t)
    <3>1. tally'[t] = [tally[t] EXCEPT !.lost = @ + 1] /\ tally[t] \in Tally
      BY <1>1, <2>2, <2>3, TaskFields
    <3>2. /\ tally'[t].moves = tally[t].moves /\ tally'[t].claims = tally[t].claims
          /\ tally'[t].handled = tally[t].handled /\ tally'[t].lost = tally[t].lost + 1
      BY <3>1 DEF Tally
    <3>3. tally[t].handled \in Nat /\ tally[t].lost \in Nat
      BY <1>1, TaskFields
    <3> QED
      BY <2>1, <2>3, <3>2, <3>3 DEF BookKept
  <2>4. CASE ~Holds(r, t)
    <3>1. tally'[t] = tally[t]
      BY <2>2, <2>4
    <3> QED
      BY <2>1, <2>4, <3>1 DEF BookKept
  <2> QED
    BY <2>3, <2>4
<1>7. /\ task' \in [Tasks -> R!Row]
      /\ sub' \in [Devices -> [stored : BOOLEAN, revoked : BOOLEAN]]
  BY <1>1 DEF AgendaTyped
<1>8. run' = [run EXCEPT ![r] = new] /\ new.dropped \subseteq gone
      /\ \A c, d \in new.queue : c.task = d.task => c = d
  BY <1>2, <1>3
<1> HIDE <1>2
<1> QED
  BY <1>4, <1>5, <1>6, <1>7, <1>8, DispatcherMoves

LEMMA EndsKeeps ==
    ASSUME AgendaInv, NEW r \in Dispatchers, R!Ends(r)
    PROVE  AgendaInv'
<1>1. AgendaTyped
  BY DEF AgendaInv
<1>2. /\ run' = [run EXCEPT ![r] = R!AtRest] /\ run[r].queue = {}
      /\ UNCHANGED <<now, task, sub, gone, edit, tally, raced, edits, mishaps>>
  BY DEF R!Ends
<1>3. tally' = [t \in Tasks |-> IF t \in {c.task : c \in run[r].queue}
                                THEN [tally[t] EXCEPT !.lost = @ + 1] ELSE tally[t]]
  BY <1>1, <1>2 DEF AgendaTyped
<1>4. mishaps' \in Nat
  BY <1>1, <1>2 DEF AgendaTyped
<1> QED
  BY <1>2, <1>3, <1>4, AtRestAgain

LEMMA BreaksKeeps ==
    ASSUME AgendaInv, NEW r \in Dispatchers, R!Breaks(r)
    PROVE  AgendaInv'
<1>1. AgendaTyped
  BY DEF AgendaInv
<1>2. /\ run' = [run EXCEPT ![r] = R!AtRest] /\ mishaps' = mishaps + 1
      /\ tally' = [t \in Tasks |-> IF t \in {c.task : c \in run[r].queue}
                                   THEN [tally[t] EXCEPT !.lost = @ + 1] ELSE tally[t]]
      /\ UNCHANGED <<now, task, sub, gone, edit, raced, edits>>
  BY DEF R!Breaks, R!Mishap
<1>3. mishaps' \in Nat
  BY <1>1, <1>2 DEF AgendaTyped
<1> QED
  BY <1>2, <1>3, AtRestAgain

-----------------------------------------------------------------------------
LEMMA AgendaStep == AgendaInv /\ R!Next => AgendaInv'
<1> SUFFICES ASSUME AgendaInv, R!Next PROVE AgendaInv'
  OBVIOUS
<1>1. ASSUME NEW t \in Tasks, R!CreateTask(t) PROVE AgendaInv'
  BY <1>1, CreateTaskKeeps
<1>2. ASSUME NEW t \in Tasks, NEW e \in Editors, R!EditReads(e, t) PROVE AgendaInv'
  BY <1>2, EditReadsKeeps
<1>3. ASSUME NEW e \in Editors, R!EditWrites(e) PROVE AgendaInv'
  BY <1>3, EditWritesKeeps
<1>4. ASSUME NEW r \in Dispatchers, R!Dispatch(r) \/ R!Breaks(r) PROVE AgendaInv'
  BY <1>4, ClaimsKeeps, SkipsKeeps, SendsKeeps, EndsKeeps, BreaksKeeps DEF R!Dispatch
<1>5. CASE \/ R!Tick
           \/ \E d \in Devices : R!Subscribe(d) \/ R!Unsubscribe(d) \/ R!Drop(d)
           \/ \E u \in Users : R!PushTest(u)
  BY <1>5, HourAndDevicesKeep
<1> QED
  BY <1>1, <1>2, <1>3, <1>4, <1>5 DEF R!Next

LEMMA AgendaInit == R!Init => AgendaInv
<1> SUFFICES ASSUME R!Init PROVE AgendaInv
  OBVIOUS
<1>1. now \in Nat \ {0} /\ AgendaTyped
  BY DEF R!Init, AgendaTyped, R!NoTask, R!Row, R!NoSub, R!AtRest, R!NoEdit, Run, Edit, Tally
<1>2. ASSUME NEW r \in Dispatchers PROVE QueueFine(r)
  <2>1. run[r].queue = {} /\ run[r].dropped = {}
    BY DEF R!Init, R!AtRest
  <2> QED
    BY <2>1, AgendaConstants, FS_EmptySet DEF QueueFine
<1>3. ASSUME NEW e \in Editors PROVE EditFine(e)
  BY DEF R!Init, R!NoEdit, EditFine
<1>4. ASSUME NEW t \in Tasks PROVE TaskFine(t)
  BY DEF R!Init, R!NoTask, TaskFine
<1>5. ASSUME NEW t \in Tasks
      PROVE  tally[t].claims = R!InQueue(t) + tally[t].handled + tally[t].lost
  <2>1. Holders(t) = {}
    BY DEF Holders, R!Init, R!AtRest
  <2>2. R!InQueue(t) = 0
    BY <2>1, HoldersCount, FS_EmptySet
  <2> QED
    BY <2>2 DEF R!Init
<1> QED
  BY <1>1, <1>2, <1>3, <1>4, <1>5 DEF AgendaInv, R!ClaimsAreAccounted

\* What the invariant says of the reminders.
LEMMA AgendaSays == AgendaInv => R!EachReminderOnce /\ R!TypeOK
<1> SUFFICES ASSUME AgendaInv PROVE R!EachReminderOnce /\ R!TypeOK
  OBVIOUS
<1>1. R!ClaimedOnce /\ R!MovedIsArmed
  BY DEF AgendaInv, TaskFine, R!ClaimedOnce, R!MovedIsArmed
<1>2. R!TypeOK
  <2>1. now \in Nat /\ AgendaTyped /\ \A r \in Dispatchers : QueueFine(r)
    BY DEF AgendaInv
  <2>2. \A r \in Dispatchers : /\ run[r].dropped \subseteq gone
                              /\ R!Cardinality(run[r].queue) <= Batch
    BY <2>1, SameCardinalityR DEF QueueFine
  <2> QED
    BY <2>1, <2>2 DEF AgendaTyped, R!TypeOK, Tally, Run, Edit
<1> QED
  BY <1>1, <1>2 DEF AgendaInv, R!EachReminderOnce

-----------------------------------------------------------------------------
(* The browser                                                               *)

Staff == B!Row({"staff"})

BrowserTyped ==
    /\ now \in Nat /\ now # 0
    /\ row \in Seq(Staff) /\ since \in Seq(Nat) /\ Len(since) = Len(row)
    /\ jar \in 0 .. Len(row) /\ tab \in [Tabs -> B!Request]
    /\ lost \subseteq DOMAIN row /\ faults \in 0 .. MaxFaults
    /\ \A t \in Tabs : tab[t].cookie <= Len(row) /\ tab[t].set <= Len(row)

\* A token is accepted until it runs out, or for the grace period after it was
\* first superseded.
FineRow(r, first) ==
    /\ r.issued <= now /\ r.expires <= B!Exp(r)
    /\ first = 0 => r.expires = B!Exp(r)
    /\ first # 0 => /\ first <= now /\ r.expires <= first + Grace
                    /\ r.expires \in {first + Grace, B!Exp(r)}

RowFine(j) == FineRow(row[j], since[j])

\* What is on its way to the browser has not been superseded, nobody else has
\* it, and it lasts as long as the token it takes the place of.
Coming(t) ==
    tab[t].set # 0 =>
        /\ tab[t].stage \in {"check", "answer"}
        /\ since[tab[t].set] = 0 /\ jar # tab[t].set
        /\ \A s \in Tabs : tab[s].cookie # tab[t].set /\ (s # t => tab[s].set # tab[t].set)
        /\ B!Exp(row[tab[t].cookie]) <= B!Exp(row[tab[t].set])
        /\ row[tab[t].set].revoked => row[tab[t].cookie].revoked

\* A page is refused for a token that was superseded long ago.
Refused(t) ==
    tab[t].stage = "expired" /\ B!Usable(tab[t].cookie) =>
        since[tab[t].cookie] # 0 /\ now >= since[tab[t].cookie] + Grace

TabFine(t) == /\ tab[t].stage # "idle" => tab[t].cookie # 0
              /\ Coming(t) /\ Refused(t)

SupersededIsReplaced ==
    jar # 0 /\ since[jar] # 0 => jar \in lost \/ B!Replacing(jar)

BrowserInv ==
    /\ BrowserTyped /\ \A j \in DOMAIN row : RowFine(j)
    /\ \A t \in Tabs : TabFine(t)
    /\ SupersededIsReplaced

LEMMA Lifetimes ==
    /\ Grace \in Nat \ {0} /\ Lifetime \in Nat /\ Cap \in Nat /\ MaxFaults \in Nat
BY LifetimeAssumption

LEMMA StaffFields ==
    ASSUME NEW r \in Staff
    PROVE  /\ r.issued \in Nat /\ r.expires \in Nat /\ r.chain \in Nat
           /\ r.renewed \in Nat /\ r.revoked \in BOOLEAN
           /\ B!Exp(r) = r.issued + Lifetime /\ B!Exp(r) \in Nat
BY Lifetimes DEF Staff, B!Row, B!Exp

LEMMA BrowserFields ==
    ASSUME BrowserTyped
    PROVE  /\ DOMAIN row = 1 .. Len(row) /\ DOMAIN since = 1 .. Len(row) /\ Len(row) \in Nat
           /\ \A j \in DOMAIN row : row[j] \in Staff /\ since[j] \in Nat
           /\ \A t \in Tabs : /\ tab[t] \in B!Request /\ tab[t].cookie \in 0 .. Len(row)
                              /\ tab[t].set \in 0 .. Len(row)
<1>1. \A t \in Tabs : tab[t] \in B!Request
  BY DEF BrowserTyped
<1> QED
  BY <1>1 DEF BrowserTyped, B!Request

\* What the browser sees of the rows only gets older: a row is issued once, it
\* stays revoked and superseded, and only the token that t sent is superseded.
RowsAge(t) ==
    /\ Len(row) <= Len(row')
    /\ \A j \in DOMAIN row :
         /\ row'[j].issued = row[j].issued
         /\ row[j].revoked => row'[j].revoked
         /\ since'[j] = since[j] \/ (since[j] = 0 /\ j = tab[t].cookie)
    /\ \A j \in DOMAIN row' : RowFine(j)'
    /\ \A s \in Tabs \ {t} :
         tab[s].set # 0 /\ row'[tab[s].set].revoked => row'[tab[s].cookie].revoked

\* A token that was issued just now.
Fresh == Len(row) + 1 .. Len(row')

\* One tab is at its next stage; the browser has what it had, nothing, what the
\* tab was sent, or what has been issued.
LEMMA TabMoves ==
    ASSUME BrowserInv, NEW t \in Tabs, NEW new \in B!Request,
           now' = now, tab' = [tab EXCEPT ![t] = new],
           row' \in Seq(Staff), since' \in Seq(Nat), Len(since') = Len(row'),
           RowsAge(t),
           new.cookie \in {0, tab[t].cookie, jar}, new.set \in {0} \cup Fresh,
           new.stage # "idle" => new.cookie # 0,
           new.set # 0 => /\ new.stage \in {"check", "answer"} /\ since'[new.set] = 0
                          /\ jar' = jar
                          /\ B!Exp(row'[new.cookie]) <= B!Exp(row'[new.set])
                          /\ row'[new.set].revoked => row'[new.cookie].revoked,
           new.stage = "expired" => Refused(t)',
           jar' \in {0, jar, tab[t].set} \cup Fresh,
           jar' \in Fresh => since'[jar'] = 0,
           jar' = jar /\ jar # 0 /\ since'[jar] # 0
             /\ (since[jar] = 0 \/ (tab[t].cookie = jar /\ tab[t].set # 0))
             => jar \in lost' \/ (new.set # 0 /\ new.cookie = jar),
           lost \subseteq lost', lost' \subseteq DOMAIN row', faults' \in 0 .. MaxFaults
    PROVE  BrowserInv'
<1>1. BrowserTyped /\ \A s \in Tabs : TabFine(s)
  BY DEF BrowserInv
<1>2. /\ DOMAIN row = 1 .. Len(row) /\ DOMAIN row' = 1 .. Len(row')
      /\ DOMAIN since' = 1 .. Len(row') /\ Len(row) \in Nat /\ Len(row') \in Nat
      /\ Len(row) <= Len(row') /\ jar \in 0 .. Len(row)
      /\ \A s \in Tabs : /\ tab[s] \in B!Request /\ tab[s].cookie \in 0 .. Len(row)
                         /\ tab[s].set \in 0 .. Len(row)
      /\ \A j \in DOMAIN row : row[j] \in Staff
      /\ \A j \in DOMAIN row' : row'[j] \in Staff
  BY <1>1, BrowserFields DEF BrowserTyped, RowsAge
<1>3. tab' \in [Tabs -> B!Request] /\ tab'[t] = new /\ \A s \in Tabs \ {t} : tab'[s] = tab[s]
  BY <1>1 DEF BrowserTyped
<1>4. jar' \in 0 .. Len(row') /\ new.cookie \in 0 .. Len(row) /\ new.set \in 0 .. Len(row')
  <2>1. Fresh = Len(row) + 1 .. Len(row')
    BY DEF Fresh
  <2>2. jar' \in {0, jar, tab[t].set} \/ jar' \in Len(row) + 1 .. Len(row')
    BY <2>1
  <2>3. new.set = 0 \/ new.set \in Len(row) + 1 .. Len(row')
    BY <2>1
  <2>4. \A x \in Len(row) + 1 .. Len(row') : x \in 0 .. Len(row')
    BY <1>2
  <2>5. \A x \in 0 .. Len(row) : x \in 0 .. Len(row')
    BY <1>2
  <2>6. /\ 0 \in 0 .. Len(row) /\ tab[t].cookie \in 0 .. Len(row)
        /\ tab[t].set \in 0 .. Len(row)
    BY <1>2
  <2>7. jar' \in 0 .. Len(row')
    BY <1>2, <2>2, <2>4, <2>5, <2>6
  <2>8. new.set \in 0 .. Len(row')
    BY <2>3, <2>4, <2>5, <2>6
  <2>9. new.cookie \in 0 .. Len(row)
    BY <1>2, <2>6
  <2> QED
    BY <2>7, <2>8, <2>9
<1>5. BrowserTyped'
  <2>1. \A s \in Tabs : tab'[s].cookie <= Len(row') /\ tab'[s].set <= Len(row')
    BY <1>2, <1>3, <1>4
  <2> QED
    BY <1>1, <1>3, <1>4, <2>1 DEF BrowserTyped
<1>6. ASSUME NEW s \in Tabs PROVE Coming(s)'
  <2>1. SUFFICES ASSUME tab'[s].set # 0 PROVE Coming(s)'
    BY DEF Coming
  <2>2. CASE s = t
    <3>1. new.set \in Fresh /\ jar' = jar /\ new.stage \in {"check", "answer"}
      BY <1>3, <2>1, <2>2
    <3>2. jar' # new.set
      BY <1>2, <3>1 DEF Fresh
    <3>3. \A u \in Tabs : tab'[u].cookie # new.set /\ (u # t => tab'[u].set # new.set)
      BY <1>2, <1>3, <1>4, <3>1 DEF Fresh
    <3> QED
      BY <1>3, <2>1, <2>2, <3>1, <3>2, <3>3 DEF Coming
  <2>3. CASE s # t
    <3> PICK k \in 1 .. Len(row) : k = tab[s].set
      BY <1>2, <1>3, <2>1, <2>3
    <3> PICK c \in 0 .. Len(row) : c = tab[s].cookie
      BY <1>2
    <3>1. tab'[s] = tab[s]
      BY <1>3, <2>3
    <3>2. /\ tab[s].stage \in {"check", "answer"} /\ since[k] = 0 /\ jar # k
          /\ \A u \in Tabs : tab[u].cookie # k /\ (u # s => tab[u].set # k)
          /\ B!Exp(row[c]) <= B!Exp(row[k]) /\ c # 0
      BY <1>1, <1>2, <2>3 DEF TabFine, Coming
    <3>3. since'[k] = 0 /\ row'[k].issued = row[k].issued /\ row'[c].issued = row[c].issued
      <4>1. c \in DOMAIN row /\ k \in DOMAIN row
        BY <1>2, <3>2
      <4>2. /\ row'[k].issued = row[k].issued /\ row'[c].issued = row[c].issued
            /\ since'[k] = since[k] \/ k = tab[t].cookie
        BY <4>1 DEF RowsAge
      <4>3. k # tab[t].cookie
        BY <3>2
      <4> QED
        BY <3>2, <4>2, <4>3
    <3>4. B!Exp(row'[c]) <= B!Exp(row'[k])
      <4>1. B!Exp(row'[c]) = B!Exp(row[c]) /\ B!Exp(row'[k]) = B!Exp(row[k])
        BY <3>3 DEF B!Exp
      <4> QED
        BY <3>2, <4>1
    <3>5. jar' # k
      BY <1>2, <2>3, <3>2 DEF Fresh
    <3>6. \A u \in Tabs : tab'[u].cookie # k /\ (u # s => tab'[u].set # k)
      BY <1>2, <1>3, <2>3, <3>2 DEF Fresh
    <3>7. row'[k].revoked => row'[c].revoked
      BY <2>3 DEF RowsAge
    <3> QED
      BY <3>1, <3>2, <3>3, <3>4, <3>5, <3>6, <3>7 DEF Coming
  <2> QED
    BY <2>2, <2>3
<1>7. ASSUME NEW s \in Tabs PROVE Refused(s)' /\ (tab'[s].stage # "idle" => tab'[s].cookie # 0)
  <2>1. CASE s = t
    BY <1>3, <2>1 DEF Refused
  <2>2. CASE s # t
    <3>1. tab'[s] = tab[s] /\ (tab[s].stage # "idle" => tab[s].cookie # 0)
      BY <1>1, <1>3, <2>2 DEF TabFine
    <3>2. SUFFICES ASSUME tab[s].stage = "expired", B!Usable(tab[s].cookie)'
                   PROVE  Refused(s)'
      BY <3>1 DEF Refused
    <3> PICK c \in 1 .. Len(row) : c = tab[s].cookie
      BY <1>2, <3>1, <3>2
    <3>3. B!Usable(c)
      BY <1>2, <3>1, <3>2 DEF B!Usable, B!Exp, RowsAge
    <3>4. since[c] # 0 /\ now >= since[c] + Grace
      BY <1>1, <3>2, <3>3 DEF TabFine, Refused
    <3>5. since'[c] = since[c]
      BY <1>2, <3>4 DEF RowsAge
    <3> QED
      BY <3>1, <3>4, <3>5 DEF Refused
  <2> QED
    BY <2>1, <2>2
<1>8. SupersededIsReplaced'
  <2>1. SUFFICES ASSUME jar' # 0, since'[jar'] # 0 PROVE jar' \in lost' \/ B!Replacing(jar)'
    BY DEF SupersededIsReplaced
  <2>2. CASE jar' = jar
    <3>1. CASE since[jar] = 0 \/ (tab[t].cookie = jar /\ tab[t].set # 0)
      <4>1. jar \in lost' \/ (new.set # 0 /\ new.cookie = jar)
        BY <2>1, <2>2, <3>1
      <4> QED
        BY <1>3, <2>2, <4>1 DEF B!Replacing
    <3>2. CASE ~(since[jar] = 0 \/ (tab[t].cookie = jar /\ tab[t].set # 0))
      <4>1. jar \in lost \/ B!Replacing(jar)
        BY <2>1, <2>2, <3>2 DEF BrowserInv, SupersededIsReplaced
      <4>2. CASE jar \in lost
        BY <2>2, <4>2
      <4>3. ASSUME NEW s \in Tabs, tab[s].cookie = jar, tab[s].set # 0 PROVE B!Replacing(jar)'
        <5>1. s # t
          BY <3>2, <4>3
        <5> QED
          BY <1>3, <2>2, <4>3, <5>1 DEF B!Replacing
      <4> QED
        BY <4>1, <4>2, <4>3 DEF B!Replacing
    <3> QED
      BY <3>1, <3>2
  <2>3. CASE jar' = tab[t].set /\ jar' # jar
    <3> PICK k \in 1 .. Len(row) : k = tab[t].set
      BY <1>2, <2>1, <2>3
    <3>1. since[k] = 0 /\ tab[t].cookie # k
      BY <1>1 DEF TabFine, Coming
    <3>2. since'[k] = 0
      BY <1>2, <3>1 DEF RowsAge
    <3> QED
      BY <2>1, <2>3, <3>2
  <2> QED
    BY <2>1, <2>2, <2>3
<1>9. \A j \in DOMAIN row' : RowFine(j)'
  BY DEF RowsAge
<1> QED
  BY <1>5, <1>6, <1>7, <1>8, <1>9 DEF BrowserInv, TabFine

\* The rows stay as they are, and a tab goes on to its next stage or is done.
LEMMA TabGoesOn ==
    ASSUME BrowserInv, NEW t \in Tabs, NEW new \in B!Request,
           UNCHANGED <<now, row, since>>, tab' = [tab EXCEPT ![t] = new],
           new.cookie \in {0, tab[t].cookie, jar}, new.set = 0,
           new.stage # "idle" => new.cookie # 0,
           new.stage = "expired" => Refused(t)',
           jar' \in {0, jar, tab[t].set},
           jar' = jar /\ jar # 0 /\ tab[t].cookie = jar /\ tab[t].set # 0 => jar \in lost',
           lost \subseteq lost', lost' \subseteq DOMAIN row, faults' \in 0 .. MaxFaults
    PROVE  BrowserInv'
<1>1. BrowserTyped /\ (\A j \in DOMAIN row : RowFine(j)) /\ \A s \in Tabs : TabFine(s)
  BY DEF BrowserInv
<1>2. row' \in Seq(Staff) /\ since' \in Seq(Nat) /\ Len(since') = Len(row')
  BY <1>1 DEF BrowserTyped
<1>3. Len(row) \in Nat /\ Fresh = {}
  BY <1>1, BrowserFields DEF Fresh
<1>4. RowsAge(t)
  <2>1. \A j \in DOMAIN row' : RowFine(j)'
    BY <1>1 DEF RowFine, FineRow, B!Exp
  <2>2. \A s \in Tabs : tab[s].set # 0 /\ row[tab[s].set].revoked => row[tab[s].cookie].revoked
    BY <1>1 DEF TabFine, Coming
  <2> QED
    BY <1>3, <2>1, <2>2 DEF RowsAge
<1>5. jar' = jar /\ jar # 0 /\ since'[jar] # 0
        /\ (since[jar] = 0 \/ (tab[t].cookie = jar /\ tab[t].set # 0))
        => jar \in lost' \/ (new.set # 0 /\ new.cookie = jar)
  OBVIOUS
<1>6. jar' \in {0, jar, tab[t].set} \cup Fresh /\ (jar' \in Fresh => since'[jar'] = 0)
      /\ new.set \in {0} \cup Fresh
  BY <1>3
<1> QED
  BY <1>2, <1>4, <1>5, <1>6, TabMoves

LEMMA EndsIdle == B!NoRequest \in B!Request /\ B!NoRequest.stage = "idle"
                  /\ B!NoRequest.cookie = 0 /\ B!NoRequest.set = 0
BY DEF B!NoRequest, B!Request

LEMMA OpenKeeps ==
    ASSUME BrowserInv, NEW t \in Tabs, B!Open(t)
    PROVE  BrowserInv'
<1>1. BrowserTyped /\ TabFine(t)
  BY DEF BrowserInv
<1>2. PICK new \in B!Request : new = [B!NoRequest EXCEPT !.stage = "proxy", !.cookie = jar]
  <2>1. jar \in Nat
    BY <1>1, BrowserFields DEF BrowserTyped
  <2> QED
    BY <2>1, EndsIdle DEF B!Request
<1>3. new.stage = "proxy" /\ new.cookie = jar /\ new.set = 0
  BY <1>2, EndsIdle DEF B!Request
<1>4. tab' = [tab EXCEPT ![t] = new] /\ jar # 0 /\ tab[t].set = 0
      /\ UNCHANGED <<now, row, jar, since, lost, faults>>
  BY <1>1, <1>2 DEF B!Open, TabFine, Coming
<1> HIDE <1>2
<1> QED
  BY <1>1, <1>3, <1>4, TabGoesOn DEF BrowserTyped

LEMMA SkipRenewalKeeps ==
    ASSUME BrowserInv, NEW t \in Tabs, B!SkipRenewal(t) \/ B!RenewalFails(t)
    PROVE  BrowserInv'
<1>1. BrowserTyped /\ TabFine(t)
  BY DEF BrowserInv
<1>2. /\ tab[t].stage = "proxy" /\ tab' = [tab EXCEPT ![t].stage = "check", ![t].set = 0]
      /\ UNCHANGED <<now, row, jar, since, lost>> /\ faults' \in 0 .. MaxFaults
  <2>1. CASE B!SkipRenewal(t)
    BY <1>1, <2>1 DEF B!SkipRenewal, B!Goes, BrowserTyped
  <2>2. CASE B!RenewalFails(t)
    BY <1>1, <2>2, Lifetimes DEF B!RenewalFails, B!Goes, B!Fails, BrowserTyped
  <2> QED
    BY <2>1, <2>2
<1>3. PICK new \in B!Request :
        /\ tab' = [tab EXCEPT ![t] = new]
        /\ new.stage = "check" /\ new.set = 0 /\ new.cookie = tab[t].cookie
  <2>1. tab[t] \in B!Request
    BY <1>1 DEF BrowserTyped
  <2>2. PICK new \in B!Request : new = [tab[t] EXCEPT !.stage = "check", !.set = 0]
    BY <2>1 DEF B!Request
  <2>3. new.stage = "check" /\ new.set = 0 /\ new.cookie = tab[t].cookie
    BY <2>1, <2>2 DEF B!Request
  <2>4. tab' = [tab EXCEPT ![t] = new]
    BY <1>1, <1>2, <2>2 DEF BrowserTyped
  <2> HIDE <2>2
  <2> QED
    BY <2>3, <2>4
<1>4. tab[t].cookie # 0 /\ tab[t].set = 0
  BY <1>1, <1>2 DEF TabFine, Coming
<1> QED
  BY <1>1, <1>2, <1>3, <1>4, TabGoesOn DEF BrowserTyped

LEMMA TabEnds ==
    ASSUME BrowserInv, NEW t \in Tabs, UNCHANGED <<now, row, since>>, B!Ends(t),
           \/ jar' = 0 \/ B!Receives(t)
           \/ jar' = jar /\ (tab[t].set # 0 => tab[t].cookie \in lost'),
           lost \subseteq lost', lost' \subseteq DOMAIN row, faults' \in 0 .. MaxFaults
    PROVE  BrowserInv'
<1>1. tab' = [tab EXCEPT ![t] = B!NoRequest]
  BY DEF B!Ends
<1>2. PICK new \in B!Request : new = B!NoRequest
  BY EndsIdle
<1>3. new.stage = "idle" /\ new.cookie = 0 /\ new.set = 0 /\ tab' = [tab EXCEPT ![t] = new]
  BY <1>1, <1>2, EndsIdle
<1> HIDE <1>2
<1>4. jar' \in {0, jar, tab[t].set}
  BY DEF B!Receives
<1>5. jar' = jar /\ jar # 0 /\ tab[t].cookie = jar /\ tab[t].set # 0 => jar \in lost'
  <2>1. tab[t].set # 0 => jar # tab[t].set
    BY DEF BrowserInv, TabFine, Coming
  <2> QED
    BY <2>1 DEF B!Receives
<1> QED
  BY <1>3, <1>4, <1>5, TabGoesOn

LEMMA AnswersKeep ==
    ASSUME BrowserInv, NEW t \in Tabs,
           \/ B!CheckUnavailable(t) \/ B!Abandon(t) \/ B!Expired(t)
           \/ B!SignedOut(t) \/ B!PasswordChanged(t)
    PROVE  BrowserInv'
<1>1. BrowserTyped /\ TabFine(t)
  BY DEF BrowserInv
<1>2. CASE B!CheckUnavailable(t)
  <2>1. /\ UNCHANGED <<now, row, since, lost>> /\ B!Ends(t) /\ B!Receives(t)
        /\ faults' \in 0 .. MaxFaults
    BY <1>1, <1>2, Lifetimes DEF B!CheckUnavailable, B!Fails, BrowserTyped
  <2> QED
    BY <1>1, <2>1, TabEnds DEF BrowserTyped
<1>3. CASE B!Abandon(t)
  <2>1. /\ UNCHANGED <<now, row, jar, since>> /\ B!Ends(t) /\ faults' \in 0 .. MaxFaults
        /\ lost' = IF tab[t].set # 0 THEN lost \cup {tab[t].cookie} ELSE lost
        /\ tab[t].stage = "check"
    BY <1>1, <1>3, Lifetimes DEF B!Abandon, B!Fails, BrowserTyped
  <2>2. tab[t].cookie \in DOMAIN row
    BY <1>1, <2>1, BrowserFields DEF TabFine
  <2>3. lost \subseteq lost' /\ lost' \subseteq DOMAIN row
        /\ (tab[t].set # 0 => tab[t].cookie \in lost')
    BY <1>1, <2>1, <2>2 DEF BrowserTyped
  <2> QED
    BY <2>1, <2>3, TabEnds
<1>4. CASE B!Expired(t) \/ B!SignedOut(t)
  <2>1. UNCHANGED <<now, row, since, lost, faults>> /\ B!Ends(t) /\ jar' = 0
    BY <1>4 DEF B!Expired, B!SignedOut
  <2> QED
    BY <1>1, <2>1, TabEnds DEF BrowserTyped
<1>5. CASE B!PasswordChanged(t)
  <2>1. UNCHANGED <<now, row, since, lost, faults>> /\ B!Ends(t) /\ B!Receives(t)
    BY <1>5 DEF B!PasswordChanged
  <2> QED
    BY <1>1, <2>1, TabEnds DEF BrowserTyped
<1> QED
  BY <1>2, <1>3, <1>4, <1>5

\* A token that is usable and not accepted was superseded the grace period ago.
LEMMA OnlyAfterGrace ==
    ASSUME BrowserTyped, NEW j \in DOMAIN row, RowFine(j), B!Usable(j), ~B!Live(j), j # 0
    PROVE  since[j] # 0 /\ now >= since[j] + Grace
<1>1. row[j] \in Staff /\ since[j] \in Nat /\ now \in Nat
  BY BrowserFields DEF BrowserTyped
<1>2. row[j].expires <= now /\ now < B!Exp(row[j])
  BY <1>1, StaffFields DEF B!Usable, B!Live, B!IsLive
<1> QED
  BY <1>1, <1>2, StaffFields, Lifetimes DEF RowFine, FineRow

LEMMA CheckOkKeeps ==
    ASSUME BrowserInv, NEW t \in Tabs, B!CheckOk(t)
    PROVE  BrowserInv'
<1>1. BrowserTyped /\ TabFine(t) /\ \A j \in DOMAIN row : RowFine(j)
  BY DEF BrowserInv
<1>2. UNCHANGED <<now, row, since, lost, faults>> /\ B!Receives(t) /\ tab[t].stage = "check"
  BY DEF B!CheckOk
<1> PICK c \in 1 .. Len(row) : c = tab[t].cookie
  BY <1>1, <1>2, BrowserFields DEF TabFine
<1> PICK j \in 1 .. Len(row) : j = IF tab[t].set # 0 THEN tab[t].set ELSE c
  BY <1>1, BrowserFields
<1>3. CASE B!Live(j)
  <2>1. B!Ends(t)
    BY <1>3 DEF B!CheckOk
  <2> QED
    BY <1>1, <1>2, <2>1, TabEnds DEF BrowserTyped
<1>4. CASE ~B!Live(j)
  <2>1. tab' = [tab EXCEPT ![t].stage = "expired", ![t].set = 0]
    BY <1>4 DEF B!CheckOk
  <2>2. PICK new \in B!Request :
          /\ tab' = [tab EXCEPT ![t] = new]
          /\ new.stage = "expired" /\ new.set = 0 /\ new.cookie = c
    <3>1. tab[t] \in B!Request
      BY <1>1 DEF BrowserTyped
    <3>2. PICK new \in B!Request : new = [tab[t] EXCEPT !.stage = "expired", !.set = 0]
      BY <3>1 DEF B!Request
    <3>3. new.stage = "expired" /\ new.set = 0 /\ new.cookie = tab[t].cookie
      BY <3>1, <3>2 DEF B!Request
    <3>4. tab' = [tab EXCEPT ![t] = new]
      BY <1>1, <2>1, <3>2 DEF BrowserTyped
    <3> HIDE <3>2
    <3> QED
      BY <3>3, <3>4
  <2>3. ASSUME B!Usable(c) PROVE since[c] # 0 /\ now >= since[c] + Grace
    <3>1. row[c] \in Staff /\ row[j] \in Staff /\ now \in Nat /\ since[j] \in Nat
          /\ c \in DOMAIN row /\ j \in DOMAIN row
      BY <1>1, BrowserFields DEF BrowserTyped
    <3>2. CASE j = c
      BY <1>1, <1>4, <2>3, <3>1, <3>2, OnlyAfterGrace
    <3>3. CASE j # c
      <4>1. tab[t].set = j
        BY <3>3
      <4>2. /\ since[j] = 0 /\ B!Exp(row[c]) <= B!Exp(row[j])
            /\ row[j].revoked => row[c].revoked
        BY <1>1, <4>1 DEF TabFine, Coming
      <4>3. row[j].expires = B!Exp(row[j])
        BY <1>1, <3>1, <4>2 DEF RowFine, FineRow
      <4>4. ~row[c].revoked /\ now < B!Exp(row[c])
        BY <2>3, <3>1, StaffFields DEF B!Usable
      <4>5. ~row[j].revoked /\ now < row[j].expires
        BY <3>1, <4>2, <4>3, <4>4, StaffFields
      <4>6. B!Live(j)
        BY <3>1, <4>5, StaffFields DEF B!Live, B!IsLive
      <4> QED
        BY <1>4, <4>6
    <3> QED
      BY <3>2, <3>3
  <2>4. Refused(t)'
    <3>1. tab'[t] = new
      BY <1>1, <2>2 DEF BrowserTyped
    <3>2. B!Usable(c)' => B!Usable(c)
      BY <1>2 DEF B!Usable, B!Exp
    <3> QED
      BY <1>2, <2>2, <2>3, <3>1, <3>2 DEF Refused
  <2>5. jar' \in {0, jar, tab[t].set}
    BY <1>2 DEF B!Receives
  <2>6. tab[t].set # 0 => jar' # jar
    BY <1>1, <1>2 DEF TabFine, Coming, B!Receives
  <2>7. c # 0 /\ lost' \subseteq DOMAIN row /\ faults' \in 0 .. MaxFaults
    BY <1>1, <1>2, BrowserFields DEF BrowserTyped
  <2> QED
    BY <1>2, <2>2, <2>4, <2>5, <2>6, <2>7, TabGoesOn
<1> QED
  BY <1>3, <1>4

-----------------------------------------------------------------------------
LEMMA NewStaffRow ==
    ASSUME NEW chain \in Nat, NEW n \in Nat
    PROVE  LET new == B!NewRow("staff", chain, n) IN
           /\ new \in Staff /\ new.issued = n /\ ~new.revoked
           /\ new.expires = n + Lifetime /\ B!Exp(new) = n + Lifetime
<1> DEFINE new == B!NewRow("staff", chain, n)
<1>1. /\ new \in Staff /\ new.issued = n /\ new.revoked = FALSE /\ new.expires = n + Lifetime
  BY Lifetimes DEF B!NewRow, Staff, B!Row
<1> HIDE DEF new
<1>2. B!Exp(new) = n + Lifetime
  BY <1>1 DEF B!Exp
<1>3. new \in Staff /\ new.issued = n /\ ~new.revoked /\ new.expires = n + Lifetime
  BY <1>1
<1> QED
  BY <1>2, <1>3 DEF new

\* What a write may make of the rows there are.
RowsMayBe(t, base, old) ==
    /\ \A j \in 1 .. Len(row) :
         /\ base[j].issued = row[j].issued
         /\ row[j].revoked => base[j].revoked
         /\ old[j] = since[j] \/ (since[j] = 0 /\ j = tab[t].cookie)
         /\ FineRow(base[j], old[j])
    /\ \A s \in Tabs \ {t} :
         tab[s].set # 0 /\ base[tab[s].set].revoked => base[tab[s].cookie].revoked

\* A new row behind them.
Issued(t, base, old) ==
    /\ RowsAge(t) /\ row' \in Seq(Staff) /\ since' \in Seq(Nat)
    /\ Len(row') = Len(row) + 1 /\ Len(since') = Len(row')
    /\ Fresh = {Len(row) + 1} /\ since'[Len(row) + 1] = 0
    /\ ~row'[Len(row) + 1].revoked
    /\ B!Exp(row'[Len(row) + 1]) = now + Lifetime
    /\ \A j \in 1 .. Len(row) : row'[j] = base[j] /\ since'[j] = old[j]

\* A token is issued, and the rows there are have aged.
LEMMA TokenIssued ==
    ASSUME BrowserInv, now' = now, NEW t \in Tabs,
           NEW base \in Seq(Staff), NEW old \in Seq(Nat), NEW chain \in Nat,
           Len(base) = Len(row), Len(old) = Len(row), RowsMayBe(t, base, old),
           row' = Append(base, B!NewRow("staff", chain, now)), since' = Append(old, 0)
    PROVE  Issued(t, base, old)
<1>1. BrowserTyped /\ now \in Nat /\ Len(row) \in Nat /\ \A s \in Tabs : TabFine(s)
  BY BrowserFields DEF BrowserInv, BrowserTyped
<1> PICK n \in Nat : n = Len(row) + 1
  BY <1>1
<1> PICK new \in Staff : new = B!NewRow("staff", chain, now)
  BY <1>1, NewStaffRow
<1>2. /\ new.issued = now /\ ~new.revoked /\ new.expires = now + Lifetime
      /\ B!Exp(new) = now + Lifetime
  BY <1>1, NewStaffRow
<1>3. row' = Append(base, new)
  OBVIOUS
<1>4. /\ row' \in Seq(Staff) /\ Len(row') = n /\ row'[n] = new
      /\ \A j \in 1 .. Len(row) : row'[j] = base[j]
  BY <1>1, <1>3, AppendProperties
<1>5. /\ since' \in Seq(Nat) /\ Len(since') = n /\ since'[n] = 0
      /\ \A j \in 1 .. Len(row) : since'[j] = old[j]
  BY <1>1, AppendProperties
<1>6. Fresh = {n}
  BY <1>1, <1>4 DEF Fresh
<1>7. DOMAIN row = 1 .. Len(row) /\ DOMAIN row' = 1 .. n
  BY <1>1, <1>4, BrowserFields
<1>8. ASSUME NEW j \in DOMAIN row' PROVE RowFine(j)'
  <2>1. CASE j = n
    <3>1. FineRow(new, 0)
      BY <1>1, <1>2, Lifetimes DEF FineRow
    <3> QED
      BY <1>4, <1>5, <2>1, <3>1 DEF RowFine, FineRow, B!Exp
  <2>2. CASE j # n
    <3>1. j \in 1 .. Len(row)
      BY <1>1, <1>7, <2>2
    <3>2. FineRow(base[j], old[j])
      BY <3>1 DEF RowsMayBe
    <3> QED
      BY <1>4, <1>5, <3>1, <3>2 DEF RowFine, FineRow, B!Exp
  <2> QED
    BY <2>1, <2>2
<1>9. ASSUME NEW s \in Tabs \ {t}, tab[s].set # 0, row'[tab[s].set].revoked
      PROVE  row'[tab[s].cookie].revoked
  <2>1. tab[s].stage # "idle" => tab[s].cookie # 0
    BY <1>1, <1>9 DEF TabFine
  <2>2. tab[s].set \in 0 .. Len(row) /\ tab[s].cookie \in 0 .. Len(row)
    BY <1>1, BrowserFields
  <2>3. tab[s].stage # "idle"
    BY <1>1, <1>9 DEF TabFine, Coming
  <2>4. tab[s].set \in 1 .. Len(row) /\ tab[s].cookie \in 1 .. Len(row)
    BY <1>1, <1>9, <2>1, <2>2, <2>3
  <2> QED
    BY <1>4, <1>9, <2>4 DEF RowsMayBe
<1>10. RowsAge(t)
  <2>1. Len(row) <= Len(row')
    BY <1>1, <1>4
  <2> QED
    BY <1>4, <1>5, <1>7, <1>8, <1>9, <2>1 DEF RowsAge, RowsMayBe
<1> QED
  BY <1>1, <1>2, <1>4, <1>5, <1>6, <1>10 DEF Issued

LEMMA SignInKeeps ==
    ASSUME BrowserInv, NEW t \in Tabs, B!SignIn(t)
    PROVE  BrowserInv'
<1>1. BrowserTyped /\ TabFine(t) /\ now \in Nat /\ (\A j \in DOMAIN row : RowFine(j))
      /\ \A s \in Tabs : TabFine(s)
  BY DEF BrowserInv, BrowserTyped
<1>2. /\ row' = Append(row, B!NewRow("staff", now, now)) /\ since' = Append(since, 0)
      /\ tab[t].stage = "idle" /\ UNCHANGED <<now, tab, lost>>
      /\ jar' \in {jar, Len(row) + 1} /\ faults' \in 0 .. MaxFaults
  BY <1>1, Lifetimes DEF B!SignIn, B!Fails, BrowserTyped
<1>3. /\ RowsAge(t) /\ row' \in Seq(Staff) /\ since' \in Seq(Nat)
      /\ Len(row') = Len(row) + 1 /\ Len(since') = Len(row')
      /\ Fresh = {Len(row) + 1} /\ since'[Len(row) + 1] = 0
      /\ \A j \in 1 .. Len(row) : row'[j] = row[j] /\ since'[j] = since[j]
  <2>1. row \in Seq(Staff) /\ since \in Seq(Nat) /\ Len(since) = Len(row)
    BY <1>1 DEF BrowserTyped
  <2>2. \A j \in 1 .. Len(row) : FineRow(row[j], since[j])
    BY <1>1, BrowserFields DEF RowFine
  <2>3. \A s \in Tabs : tab[s].set # 0 /\ row[tab[s].set].revoked => row[tab[s].cookie].revoked
    BY <1>1 DEF TabFine, Coming
  <2>4. RowsMayBe(t, row, since)
    BY <2>2, <2>3 DEF RowsMayBe
  <2>5. Issued(t, row, since)
    BY <1>1, <1>2, <2>1, <2>4, TokenIssued
  <2> QED
    BY <2>5 DEF Issued
<1>4. PICK new \in B!Request : new = tab[t]
  BY <1>1, BrowserFields
<1>5. tab' = [tab EXCEPT ![t] = new] /\ new.set = 0 /\ new.stage = "idle"
      /\ new.cookie = tab[t].cookie
  BY <1>1, <1>2, <1>4 DEF BrowserTyped, TabFine, Coming
<1>6. Len(row) \in Nat /\ jar \in 0 .. Len(row) /\ lost' \subseteq DOMAIN row'
  BY <1>1, <1>2, <1>3, BrowserFields DEF BrowserTyped
<1>7. jar' = jar /\ jar # 0 /\ since'[jar] # 0
        /\ (since[jar] = 0 \/ (tab[t].cookie = jar /\ tab[t].set # 0))
        => jar \in lost' \/ (new.set # 0 /\ new.cookie = jar)
  BY <1>3, <1>4, <1>5, <1>6
<1> HIDE <1>4
<1> QED
  BY <1>2, <1>3, <1>5, <1>6, <1>7, TabMoves

LEMMA RevokedRow ==
    ASSUME NEW r \in Staff
    PROVE  /\ B!Revoked(r) \in Staff /\ B!Revoked(r).revoked
           /\ B!Revoked(r).issued = r.issued /\ B!Revoked(r).expires = r.expires
BY DEF Staff, B!Row, B!Revoked

LEMMA FineStays ==
    ASSUME NEW r \in Staff, NEW s \in Staff, NEW first \in Nat, FineRow(r, first),
           s.issued = r.issued, s.expires = r.expires
    PROVE  FineRow(s, first)
BY DEF FineRow, B!Exp

LEMMA SignOutKeeps ==
    ASSUME BrowserInv, NEW t \in Tabs, B!SignOut(t)
    PROVE  BrowserInv'
<1>1. BrowserTyped /\ now \in Nat /\ (\A j \in DOMAIN row : RowFine(j))
      /\ \A s \in Tabs : TabFine(s)
  BY DEF BrowserInv, BrowserTyped
<1>2. /\ tab[t].stage = "idle" /\ jar # 0 /\ UNCHANGED <<now, jar, since, lost>>
      /\ tab' = [tab EXCEPT ![t] = [B!NoRequest EXCEPT !.stage = "signout", !.cookie = jar]]
      /\ row' \in {row, [row EXCEPT ![jar] = B!Revoked(@)]}
      /\ faults' \in 0 .. MaxFaults
  BY <1>1, Lifetimes DEF B!SignOut, B!Fails, BrowserTyped
<1>3. PICK new \in B!Request : new = [B!NoRequest EXCEPT !.stage = "signout", !.cookie = jar]
  <2>1. jar \in Nat
    BY <1>1, BrowserFields DEF BrowserTyped
  <2> QED
    BY <2>1, EndsIdle DEF B!Request
<1>4. new.stage = "signout" /\ new.cookie = jar /\ new.set = 0
  BY <1>3, EndsIdle DEF B!Request
<1>5. tab' = [tab EXCEPT ![t] = new] /\ tab[t].set = 0
  BY <1>1, <1>2, <1>3 DEF TabFine, Coming
<1>6. /\ DOMAIN row = 1 .. Len(row) /\ Len(row) \in Nat /\ jar \in DOMAIN row
      /\ \A j \in DOMAIN row : row[j] \in Staff /\ since[j] \in Nat
      /\ \A s \in Tabs : tab[s].set \in 0 .. Len(row) /\ tab[s].cookie \in 0 .. Len(row)
  BY <1>1, <1>2, BrowserFields DEF BrowserTyped
<1>7. /\ row' \in Seq(Staff) /\ Len(row') = Len(row) /\ DOMAIN row' = DOMAIN row
      /\ \A j \in DOMAIN row : j # jar => row'[j] = row[j]
      /\ row'[jar] \in {row[jar], B!Revoked(row[jar])}
  <2>1. B!Revoked(row[jar]) \in Staff
    BY <1>6, RevokedRow
  <2>2. row \in Seq(Staff)
    BY <1>1 DEF BrowserTyped
  <2>3. CASE row' = row
    BY <1>6, <2>2, <2>3
  <2>4. CASE row' = [row EXCEPT ![jar] = B!Revoked(row[jar])]
    <3> PICK out \in Staff : out = B!Revoked(row[jar])
      BY <2>1
    <3>1. row' = [row EXCEPT ![jar] = out]
      BY <2>4
    <3> QED
      BY <1>6, <2>2, <3>1, ExceptSeq
  <2> QED
    BY <1>2, <2>3, <2>4
<1>8. ASSUME NEW j \in DOMAIN row
      PROVE  /\ row'[j] \in Staff /\ row'[j].issued = row[j].issued
             /\ row'[j].expires = row[j].expires
             /\ row[j].revoked => row'[j].revoked
  <2>1. CASE j # jar
    BY <1>6, <1>7, <2>1
  <2>2. CASE j = jar
    BY <1>6, <1>7, <2>2, RevokedRow
  <2> QED
    BY <2>1, <2>2
<1>9. RowsAge(t)
  <2>1. ASSUME NEW j \in DOMAIN row' PROVE RowFine(j)'
    BY <1>1, <1>2, <1>6, <1>7, <1>8 DEF RowFine, FineRow, B!Exp
  <2>2. ASSUME NEW s \in Tabs, tab[s].set # 0, row'[tab[s].set].revoked
        PROVE  row'[tab[s].cookie].revoked
    <3>1. /\ tab[s].set # jar /\ (row[tab[s].set].revoked => row[tab[s].cookie].revoked)
          /\ tab[s].set \in DOMAIN row /\ tab[s].cookie \in DOMAIN row
      BY <1>1, <1>6, <2>2 DEF TabFine, Coming
    <3> QED
      BY <1>7, <1>8, <2>2, <3>1
  <2>3. Len(row) <= Len(row')
    BY <1>6, <1>7
  <2> QED
    BY <1>2, <1>8, <2>1, <2>2, <2>3 DEF RowsAge
<1>10. /\ since' \in Seq(Nat) /\ Len(since') = Len(row') /\ lost' \subseteq DOMAIN row'
       /\ jar # 0 /\ Fresh = {}
  BY <1>1, <1>2, <1>6, <1>7 DEF BrowserTyped, Fresh
<1>11. jar' = jar /\ jar # 0 /\ since'[jar] # 0
         /\ (since[jar] = 0 \/ (tab[t].cookie = jar /\ tab[t].set # 0))
         => jar \in lost' \/ (new.set # 0 /\ new.cookie = jar)
  BY <1>2, <1>5
<1> HIDE <1>3
<1> QED
  BY <1>2, <1>4, <1>5, <1>7, <1>9, <1>10, <1>11, TabMoves

LEMMA SupersededRow ==
    ASSUME NEW r \in Staff, NEW first \in Nat, FineRow(r, first), now \in Nat \ {0}
    PROVE  LET s == B!Superseded(r, now) IN
           /\ s \in Staff /\ s.issued = r.issued /\ s.revoked = r.revoked
           /\ FineRow(s, IF first = 0 THEN now ELSE first)
<1> DEFINE s == B!Superseded(r, now)
<1>1. /\ s \in Staff /\ s.issued = r.issued /\ s.revoked = r.revoked
      /\ s.expires = IF r.expires > now + Grace THEN now + Grace ELSE r.expires
  <2>1. now + Grace \in Nat
    BY Lifetimes
  <2> QED
    BY <2>1 DEF B!Superseded, Staff, B!Row
<1> HIDE DEF s
<1>2. B!Exp(s) = B!Exp(r) /\ B!Exp(r) \in Nat /\ r.expires \in Nat /\ r.issued \in Nat
  BY <1>1, StaffFields DEF B!Exp
<1>3. ASSUME first = 0 PROVE FineRow(s, now)
  BY <1>1, <1>2, <1>3, Lifetimes DEF FineRow
<1>4. ASSUME first # 0 PROVE FineRow(s, first)
  BY <1>1, <1>2, <1>4, Lifetimes DEF FineRow
<1> QED
  BY <1>1, <1>3, <1>4 DEF s

LEMMA RenewKeeps ==
    ASSUME BrowserInv, NEW t \in Tabs, B!Renew(t)
    PROVE  BrowserInv'
<1> DEFINE j == tab[t].cookie
           base == [row EXCEPT ![j] = B!Superseded(row[j], now)]
           old == [since EXCEPT ![j] = IF since[j] = 0 THEN now ELSE since[j]]
<1>1. /\ BrowserTyped /\ now \in Nat \ {0} /\ (\A k \in DOMAIN row : RowFine(k))
      /\ \A s \in Tabs : TabFine(s)
  BY DEF BrowserInv, BrowserTyped
<1>2. /\ tab[t].stage = "proxy" /\ UNCHANGED <<now, jar>>
      /\ row' = Append(base, B!Successor(row[j], now)) /\ since' = Append(old, 0)
      /\ \/ B!Goes(t, "check", Len(row) + 1) /\ UNCHANGED <<lost, faults>>
         \/ B!Goes(t, "check", 0) /\ lost' = lost \cup {j} /\ B!Fails
  BY DEF B!Renew
<1>3. /\ DOMAIN row = 1 .. Len(row) /\ DOMAIN since = 1 .. Len(row) /\ Len(row) \in Nat
      /\ row \in Seq(Staff) /\ since \in Seq(Nat)
      /\ \A k \in DOMAIN row : row[k] \in Staff /\ since[k] \in Nat
      /\ \A s \in Tabs : /\ tab[s] \in B!Request /\ tab[s].set \in 0 .. Len(row)
                         /\ tab[s].cookie \in 0 .. Len(row)
  BY <1>1, BrowserFields DEF BrowserTyped
<1>4. j \in DOMAIN row /\ tab[t].set = 0
  <2>1. j # 0
    BY <1>1, <1>2 DEF TabFine
  <2>2. tab[t].set = 0
    BY <1>1, <1>2 DEF TabFine, Coming
  <2> QED
    BY <1>3, <2>1, <2>2
<1>5. /\ B!Superseded(row[j], now) \in Staff
      /\ B!Superseded(row[j], now).issued = row[j].issued
      /\ B!Superseded(row[j], now).revoked = row[j].revoked
      /\ FineRow(B!Superseded(row[j], now), IF since[j] = 0 THEN now ELSE since[j])
  BY <1>1, <1>3, <1>4, SupersededRow DEF RowFine
<1>6. /\ base \in Seq(Staff) /\ Len(base) = Len(row)
      /\ \A k \in 1 .. Len(row) : base[k] = IF k = j THEN B!Superseded(row[j], now) ELSE row[k]
  BY <1>3, <1>4, <1>5, ExceptSeq
<1>7. /\ old \in Seq(Nat) /\ Len(old) = Len(row)
      /\ \A k \in 1 .. Len(row) :
           old[k] = IF k = j THEN IF since[j] = 0 THEN now ELSE since[j] ELSE since[k]
  <2>1. (IF since[j] = 0 THEN now ELSE since[j]) \in Nat /\ Len(since) = Len(row)
    BY <1>1, <1>3, <1>4 DEF BrowserTyped
  <2> QED
    BY <1>3, <1>4, <2>1, ExceptSeq
<1> PICK first \in Seq(Nat) : first = old
  BY <1>7
<1> PICK aged \in Seq(Staff) : aged = base
  BY <1>6
<1>8. ASSUME NEW k \in 1 .. Len(row)
      PROVE  /\ aged[k].issued = row[k].issued /\ aged[k].revoked = row[k].revoked
             /\ first[k] = since[k] \/ (since[k] = 0 /\ k = j)
             /\ FineRow(aged[k], first[k])
  <2>1. CASE k = j
    BY <1>5, <1>6, <1>7, <2>1
  <2>2. CASE k # j
    BY <1>1, <1>3, <1>6, <1>7, <2>2 DEF RowFine
  <2> QED
    BY <2>1, <2>2
<1>9. ASSUME NEW s \in Tabs \ {t}, tab[s].set # 0, aged[tab[s].set].revoked
      PROVE  aged[tab[s].cookie].revoked
  <2>1. tab[s].stage # "idle" => tab[s].cookie # 0
    BY <1>1 DEF TabFine
  <2>2. tab[s].stage # "idle" /\ (row[tab[s].set].revoked => row[tab[s].cookie].revoked)
    BY <1>1, <1>9 DEF TabFine, Coming
  <2>3. tab[s].set \in 1 .. Len(row) /\ tab[s].cookie \in 1 .. Len(row)
    BY <1>3, <1>9, <2>1, <2>2
  <2> QED
    BY <1>8, <1>9, <2>2, <2>3
<1> PICK chain \in Nat : chain = row[j].chain
  BY <1>3, <1>4, StaffFields
<1>10. row' = Append(aged, B!NewRow("staff", chain, now)) /\ since' = Append(first, 0)
  <2>1. row[j].user = "staff"
    BY <1>3, <1>4 DEF Staff, B!Row
  <2> QED
    BY <1>2, <2>1 DEF B!Successor
<1>11. Len(aged) = Len(row) /\ Len(first) = Len(row)
  BY <1>6, <1>7
<1>12. /\ RowsAge(t) /\ row' \in Seq(Staff) /\ since' \in Seq(Nat)
       /\ Len(row') = Len(row) + 1 /\ Len(since') = Len(row')
       /\ Fresh = {Len(row) + 1} /\ since'[Len(row) + 1] = 0
       /\ ~row'[Len(row) + 1].revoked
       /\ B!Exp(row'[Len(row) + 1]) = now + Lifetime
       /\ \A k \in 1 .. Len(row) : row'[k] = aged[k] /\ since'[k] = first[k]
  <2>1. \A k \in 1 .. Len(row) :
          /\ aged[k].issued = row[k].issued
          /\ row[k].revoked => aged[k].revoked
          /\ first[k] = since[k] \/ (since[k] = 0 /\ k = tab[t].cookie)
          /\ FineRow(aged[k], first[k])
    BY <1>8
  <2>2. \A s \in Tabs \ {t} :
          tab[s].set # 0 /\ aged[tab[s].set].revoked => aged[tab[s].cookie].revoked
    BY <1>9
  <2>3. now' = now
    BY <1>2
  <2>4. RowsMayBe(t, aged, first)
    BY <2>1, <2>2 DEF RowsMayBe
  <2> HIDE DEF base, old, j
  <2>5. Issued(t, aged, first)
    BY <1>10, <1>11, <2>3, <2>4, TokenIssued
  <2> QED
    BY <2>5 DEF Issued
<1>13. PICK set \in {0, Len(row) + 1} : /\ B!Goes(t, "check", set) /\ lost \subseteq lost'
                                        /\ set = 0 => j \in lost'
  BY <1>2
<1>14. lost' \subseteq DOMAIN row' /\ faults' \in 0 .. MaxFaults
  <2>1. lost \subseteq DOMAIN row /\ faults \in 0 .. MaxFaults
    BY <1>1 DEF BrowserTyped
  <2>2. lost' \subseteq DOMAIN row
    BY <1>2, <1>4, <2>1
  <2>3. DOMAIN row' = 1 .. Len(row) + 1
    BY <1>12
  <2> QED
    BY <1>2, <1>3, <2>1, <2>2, <2>3, Lifetimes DEF B!Fails
<1>15. PICK new \in B!Request :
         /\ tab' = [tab EXCEPT ![t] = new]
         /\ new.stage = "check" /\ new.set = set /\ new.cookie = j
  <2>1. tab[t] \in B!Request /\ set \in Nat /\ tab \in [Tabs -> B!Request]
    BY <1>1, <1>3 DEF BrowserTyped
  <2>2. PICK new \in B!Request : new = [tab[t] EXCEPT !.stage = "check", !.set = set]
    BY <2>1 DEF B!Request
  <2>3. new.stage = "check" /\ new.set = set /\ new.cookie = tab[t].cookie
    BY <2>1, <2>2 DEF B!Request
  <2>4. tab' = [tab EXCEPT ![t] = new]
    BY <1>13, <2>1, <2>2 DEF B!Goes
  <2> HIDE <2>2
  <2> QED
    BY <2>3, <2>4
<1>16. jar' = jar /\ jar # 0 /\ since'[jar] # 0
         /\ (since[jar] = 0 \/ (tab[t].cookie = jar /\ tab[t].set # 0))
         => jar \in lost' \/ (new.set # 0 /\ new.cookie = jar)
  <2>1. SUFFICES ASSUME jar # 0, since'[jar] # 0, since[jar] = 0
                 PROVE  jar \in lost' \/ (new.set # 0 /\ new.cookie = jar)
    BY <1>4
  <2>2. jar \in 1 .. Len(row)
    BY <1>1, <1>3, <2>1 DEF BrowserTyped
  <2>3. jar = j
    BY <1>8, <1>12, <2>1, <2>2
  <2> QED
    BY <1>13, <1>15, <2>3
<1>17. ASSUME new.set # 0
       PROVE  /\ since'[new.set] = 0 /\ B!Exp(row'[new.cookie]) <= B!Exp(row'[new.set])
              /\ ~row'[new.set].revoked
  <2>1. new.set = Len(row) + 1 /\ new.cookie = j /\ j \in 1 .. Len(row)
    BY <1>3, <1>4, <1>13, <1>15, <1>17
  <2>2. row'[j].issued = row[j].issued /\ row[j].issued <= now /\ row[j].issued \in Nat
    BY <1>1, <1>3, <1>4, <1>8, <1>12, StaffFields DEF RowFine, FineRow
  <2>3. B!Exp(row'[j]) <= now + Lifetime
    BY <1>1, <2>2, Lifetimes DEF B!Exp
  <2> QED
    BY <1>12, <2>1, <2>3
<1>18. new.set \in {0} \cup Fresh /\ j # 0
  BY <1>3, <1>4, <1>12, <1>15
<1>19. jar' = jar /\ now' = now /\ new.stage # "idle" /\ new.stage # "expired"
       /\ new.stage \in {"check", "answer"}
  BY <1>2, <1>15
<1>20. new.cookie \in {0, tab[t].cookie, jar} /\ new.cookie # 0 /\ lost \subseteq lost'
  BY <1>13, <1>15, <1>18
<1>21. jar \notin Fresh /\ jar' \in {0, jar, tab[t].set} \cup Fresh
  BY <1>1, <1>2, <1>3, <1>12 DEF BrowserTyped
<1>22. tab' = [tab EXCEPT ![t] = new]
  BY <1>15
<1> HIDE DEF j
<1> QED
  BY <1>12, <1>14, <1>16, <1>17, <1>18, <1>19, <1>20, <1>21, <1>22, TabMoves

LEMMA ChangePasswordKeeps ==
    ASSUME BrowserInv, NEW t \in Tabs, B!ChangePassword(t)
    PROVE  BrowserInv'
<1> DEFINE base == [k \in DOMAIN row |-> B!Revoked(row[k])]
<1>1. /\ BrowserTyped /\ now \in Nat \ {0} /\ (\A k \in DOMAIN row : RowFine(k))
      /\ \A s \in Tabs : TabFine(s)
  BY DEF BrowserInv, BrowserTyped
<1>2. /\ tab[t].stage = "idle" /\ jar # 0 /\ UNCHANGED <<now, jar>>
      /\ row' = Append(base, B!NewRow("staff", now, now)) /\ since' = Append(since, 0)
      /\ \/ /\ tab' = [tab EXCEPT ![t] = [stage |-> "answer", cookie |-> jar,
                                          set |-> Len(row) + 1]]
            /\ UNCHANGED <<lost, faults>>
         \/ B!Fails /\ lost' = lost \cup {jar} /\ UNCHANGED tab
  BY DEF B!ChangePassword, B!Live
<1>3. /\ DOMAIN row = 1 .. Len(row) /\ Len(row) \in Nat /\ jar \in 1 .. Len(row)
      /\ row \in Seq(Staff) /\ since \in Seq(Nat) /\ Len(since) = Len(row)
      /\ \A k \in DOMAIN row : row[k] \in Staff /\ since[k] \in Nat
      /\ \A s \in Tabs : /\ tab[s] \in B!Request /\ tab[s].set \in 0 .. Len(row)
                         /\ tab[s].cookie \in 0 .. Len(row)
  BY <1>1, <1>2, BrowserFields DEF BrowserTyped
<1>4. tab[t].set = 0
  BY <1>1, <1>2 DEF TabFine, Coming
<1>5. ASSUME NEW k \in 1 .. Len(row)
      PROVE  /\ base[k] \in Staff /\ base[k].issued = row[k].issued /\ base[k].revoked
             /\ FineRow(base[k], since[k])
  <2>1. base[k] = B!Revoked(row[k])
    BY <1>3
  <2>2. row[k] \in Staff /\ since[k] \in Nat /\ FineRow(row[k], since[k])
    BY <1>1, <1>3 DEF RowFine
  <2>3. /\ B!Revoked(row[k]) \in Staff /\ B!Revoked(row[k]).revoked
        /\ B!Revoked(row[k]).issued = row[k].issued
        /\ B!Revoked(row[k]).expires = row[k].expires
    BY <2>2, RevokedRow
  <2>4. FineRow(B!Revoked(row[k]), since[k])
    BY <2>2, <2>3, FineStays
  <2> QED
    BY <2>1, <2>3, <2>4
<1>6. DOMAIN base = 1 .. Len(row)
  BY <1>3
<1> HIDE DEF base
<1>7. base \in Seq(Staff) /\ Len(base) = Len(row)
  <2>1. base = [k \in 1 .. Len(row) |-> base[k]]
    BY <1>3, <1>6 DEF base
  <2>2. base \in [1 .. Len(row) -> Staff]
    BY <1>5, <2>1
  <2>3. base \in Seq(Staff)
    <3>1. base \in UNION {[1 .. n -> Staff] : n \in Nat}
      BY <1>3, <2>2
    <3> QED
      BY <3>1, SeqDef
  <2> QED
    BY <1>3, <1>6, <2>3, LenProperties
<1> PICK aged \in Seq(Staff) : aged = base
  BY <1>7
<1> PICK first \in Seq(Nat) : first = since
  BY <1>3
<1>8. /\ RowsAge(t) /\ row' \in Seq(Staff) /\ since' \in Seq(Nat)
      /\ Len(row') = Len(row) + 1 /\ Len(since') = Len(row')
      /\ Fresh = {Len(row) + 1} /\ since'[Len(row) + 1] = 0
      /\ ~row'[Len(row) + 1].revoked
      /\ B!Exp(row'[Len(row) + 1]) = now + Lifetime
      /\ \A k \in 1 .. Len(row) : row'[k] = aged[k] /\ since'[k] = since[k]
  <2>1. \A k \in 1 .. Len(row) :
          /\ aged[k].issued = row[k].issued
          /\ row[k].revoked => aged[k].revoked
          /\ first[k] = since[k] \/ (since[k] = 0 /\ k = tab[t].cookie)
          /\ FineRow(aged[k], first[k])
    BY <1>5
  <2>2. ASSUME NEW s \in Tabs \ {t}, tab[s].set # 0 PROVE aged[tab[s].cookie].revoked
    <3>1. tab[s].stage # "idle" => tab[s].cookie # 0
      BY <1>1 DEF TabFine
    <3>2. tab[s].stage # "idle"
      BY <1>1, <2>2 DEF TabFine, Coming
    <3>3. tab[s].cookie \in 1 .. Len(row)
      BY <1>3, <3>1, <3>2
    <3> QED
      BY <1>5, <3>3
  <2>3. \A s \in Tabs \ {t} :
          tab[s].set # 0 /\ aged[tab[s].set].revoked => aged[tab[s].cookie].revoked
    BY <2>2
  <2>4. /\ now' = now /\ Len(aged) = Len(row) /\ Len(first) = Len(row) /\ now \in Nat
        /\ row' = Append(aged, B!NewRow("staff", now, now)) /\ since' = Append(first, 0)
    BY <1>1, <1>2, <1>3, <1>7
  <2>5. PICK chain \in Nat : row' = Append(aged, B!NewRow("staff", chain, now))
    BY <2>4
  <2>6. RowsMayBe(t, aged, first)
    BY <2>1, <2>3 DEF RowsMayBe
  <2>7. Issued(t, aged, first)
    BY <2>4, <2>5, <2>6, TokenIssued
  <2> QED
    BY <2>7 DEF Issued
<1>9. PICK new \in B!Request :
         /\ tab' = [tab EXCEPT ![t] = new] /\ lost \subseteq lost'
         /\ lost' \subseteq DOMAIN row /\ faults' \in 0 .. MaxFaults
         /\ \/ new.stage = "answer" /\ new.set = Len(row) + 1 /\ new.cookie = jar
            \/ /\ new.stage = "idle" /\ new.set = 0 /\ new.cookie = tab[t].cookie
               /\ jar \in lost'
  <2>1. /\ lost \subseteq DOMAIN row /\ faults \in 0 .. MaxFaults
        /\ tab \in [Tabs -> B!Request]
    BY <1>1 DEF BrowserTyped
  <2>2. CASE /\ tab' = [tab EXCEPT ![t] = [stage |-> "answer", cookie |-> jar,
                                           set |-> Len(row) + 1]]
             /\ UNCHANGED <<lost, faults>>
    <3> PICK c \in Nat : c = jar
      BY <1>3
    <3> PICK n \in Nat : n = Len(row) + 1
      BY <1>3
    <3>1. PICK new \in B!Request : new = [stage |-> "answer", cookie |-> c, set |-> n]
      BY DEF B!Request
    <3>2. new.stage = "answer" /\ new.set = Len(row) + 1 /\ new.cookie = jar
      BY <3>1
    <3>3. tab' = [tab EXCEPT ![t] = new]
      BY <2>2, <3>1
    <3> HIDE <3>1
    <3> QED
      BY <2>1, <2>2, <3>2, <3>3
  <2>3. CASE B!Fails /\ lost' = lost \cup {jar} /\ UNCHANGED tab
    <3>1. PICK new \in B!Request : new = tab[t]
      BY <1>3
    <3>2. tab' = [tab EXCEPT ![t] = new] /\ new.stage = "idle" /\ new.set = 0
          /\ new.cookie = tab[t].cookie
      BY <1>2, <1>4, <2>1, <2>3, <3>1
    <3>3. faults' \in 0 .. MaxFaults
      BY <2>1, <2>3, Lifetimes DEF B!Fails
    <3>4. lost \subseteq lost' /\ lost' \subseteq DOMAIN row /\ jar \in lost'
      BY <1>3, <2>1, <2>3
    <3> HIDE <3>1
    <3> QED
      BY <3>2, <3>3, <3>4
  <2> QED
    BY <1>2, <2>2, <2>3
<1>10. jar' = jar /\ jar # 0 /\ since'[jar] # 0
         /\ (since[jar] = 0 \/ (tab[t].cookie = jar /\ tab[t].set # 0))
         => jar \in lost' \/ (new.set # 0 /\ new.cookie = jar)
  BY <1>3, <1>9
<1>11. ASSUME new.set # 0
       PROVE  /\ since'[new.set] = 0 /\ B!Exp(row'[new.cookie]) <= B!Exp(row'[new.set])
              /\ ~row'[new.set].revoked
  <2>1. new.set = Len(row) + 1 /\ new.cookie = jar
    BY <1>9, <1>11
  <2>2. row'[jar].issued = row[jar].issued /\ row[jar].issued <= now /\ row[jar].issued \in Nat
    BY <1>1, <1>3, <1>5, <1>8, StaffFields DEF RowFine, FineRow
  <2>3. B!Exp(row'[jar]) <= now + Lifetime
    BY <1>1, <2>2, Lifetimes DEF B!Exp
  <2> QED
    BY <1>8, <2>1, <2>3
<1>12. /\ new.set \in {0} \cup Fresh /\ new.cookie \in {0, tab[t].cookie, jar}
       /\ new.stage # "idle" => new.cookie # 0
       /\ new.set # 0 => new.stage \in {"check", "answer"}
       /\ new.stage # "expired"
  BY <1>2, <1>8, <1>9
<1>13. jar' = jar /\ now' = now /\ jar \notin Fresh /\ jar' \in {0, jar, tab[t].set} \cup Fresh
  BY <1>2, <1>3, <1>8
<1>14. lost \subseteq lost' /\ lost' \subseteq DOMAIN row' /\ faults' \in 0 .. MaxFaults
       /\ tab' = [tab EXCEPT ![t] = new]
  <2>1. DOMAIN row' = 1 .. Len(row) + 1
    BY <1>8
  <2> QED
    BY <1>3, <1>9, <2>1
<1> QED
  BY <1>8, <1>10, <1>11, <1>12, <1>13, <1>14, TabMoves

-----------------------------------------------------------------------------
\* Time goes on, for the browser or for the other parts; a token that has run
\* out may leave the jar.
LEMMA BrowserWaits ==
    ASSUME BrowserInv, now' \in Nat, now <= now', jar' \in {0, jar},
           UNCHANGED <<row, tab, since, lost, faults>>
    PROVE  BrowserInv'
<1>1. BrowserTyped /\ (\A j \in DOMAIN row : RowFine(j)) /\ \A t \in Tabs : TabFine(t)
  BY DEF BrowserInv
<1>2. /\ now \in Nat /\ now # 0 /\ Len(row) \in Nat /\ DOMAIN row = 1 .. Len(row)
      /\ \A j \in DOMAIN row : row[j] \in Staff /\ since[j] \in Nat
      /\ \A t \in Tabs : /\ tab[t].cookie \in 0 .. Len(row) /\ tab[t].set \in 0 .. Len(row)
  BY <1>1, BrowserFields DEF BrowserTyped
<1>3. BrowserTyped'
  BY <1>1, <1>2 DEF BrowserTyped
<1>4. ASSUME NEW j \in DOMAIN row' PROVE RowFine(j)'
  <2>1. FineRow(row[j], since[j]) /\ row[j].issued \in Nat /\ since[j] \in Nat
    BY <1>1, <1>2, <1>4, StaffFields DEF RowFine
  <2> QED
    BY <1>2, <2>1 DEF RowFine, FineRow, B!Exp
<1>5. ASSUME NEW t \in Tabs PROVE TabFine(t)'
  <2>1. Coming(t)'
    BY <1>1 DEF TabFine, Coming, B!Exp
  <2>2. Refused(t)'
    <3>1. SUFFICES ASSUME tab[t].stage = "expired", B!Usable(tab[t].cookie)'
                   PROVE  since[tab[t].cookie] # 0 /\ now' >= since[tab[t].cookie] + Grace
      BY DEF Refused
    <3>2. tab[t].cookie \in DOMAIN row
      BY <1>1, <1>2, <3>1 DEF TabFine
    <3>3. B!Usable(tab[t].cookie)
      BY <1>2, <3>1, <3>2, StaffFields DEF B!Usable, B!Exp
    <3> QED
      BY <1>1, <1>2, <3>1, <3>2, <3>3, Lifetimes DEF TabFine, Refused
  <2> QED
    BY <1>1, <2>1, <2>2 DEF TabFine
<1>6. SupersededIsReplaced'
  BY DEF BrowserInv, SupersededIsReplaced, B!Replacing
<1> QED
  BY <1>3, <1>4, <1>5, <1>6 DEF BrowserInv

LEMMA BrowserStep ==
    ASSUME BrowserInv, B!Next
    PROVE  BrowserInv' /\ now' \in Nat /\ now <= now'
<1>1. now \in Nat
  BY DEF BrowserInv, BrowserTyped
<1>2. CASE B!Tick
  <2>1. now' = now + 1 /\ jar' \in {0, jar} /\ UNCHANGED <<row, tab, since, lost, faults>>
    BY <1>2 DEF B!Tick
  <2>2. now' \in Nat /\ now <= now'
    BY <1>1, <2>1
  <2> QED
    BY <2>1, <2>2, BrowserWaits
<1>3. ASSUME NEW t \in Tabs,
             \/ B!SignIn(t) \/ B!Open(t) \/ B!SignOut(t) \/ B!ChangePassword(t)
             \/ B!Answers(t) \/ B!CheckUnavailable(t) \/ B!Abandon(t)
      PROVE  BrowserInv' /\ now' = now
  <2>1. CASE B!SignIn(t)
    BY <2>1, SignInKeeps DEF B!SignIn
  <2>2. CASE B!Open(t)
    BY <2>2, OpenKeeps DEF B!Open
  <2>3. CASE B!SignOut(t)
    BY <2>3, SignOutKeeps DEF B!SignOut
  <2>4. CASE B!ChangePassword(t)
    BY <2>4, ChangePasswordKeeps DEF B!ChangePassword
  <2>5. CASE B!SkipRenewal(t)
    BY <2>5, SkipRenewalKeeps DEF B!SkipRenewal
  <2>6. CASE B!RenewalFails(t)
    BY <2>6, SkipRenewalKeeps DEF B!RenewalFails
  <2>7. CASE B!Renew(t)
    BY <2>7, RenewKeeps DEF B!Renew
  <2>8. CASE B!CheckOk(t)
    BY <2>8, CheckOkKeeps DEF B!CheckOk
  <2>9. CASE B!Expired(t)
    BY <2>9, AnswersKeep DEF B!Expired
  <2>10. CASE B!SignedOut(t)
    BY <2>10, AnswersKeep DEF B!SignedOut
  <2>11. CASE B!PasswordChanged(t)
    BY <2>11, AnswersKeep DEF B!PasswordChanged
  <2>12. CASE B!CheckUnavailable(t)
    BY <2>12, AnswersKeep DEF B!CheckUnavailable
  <2>13. CASE B!Abandon(t)
    BY <2>13, AnswersKeep DEF B!Abandon
  <2> QED
    BY <1>3, <2>1, <2>2, <2>3, <2>4, <2>5, <2>6, <2>7, <2>8, <2>9, <2>10, <2>11, <2>12,
       <2>13 DEF B!Answers
<1> QED
  BY <1>1, <1>2, <1>3 DEF B!Next

LEMMA BrowserStarts ==
    ASSUME B!Init
    PROVE  BrowserInv
<1>1. /\ now = 1 /\ row = <<>> /\ since = <<>> /\ jar = 0 /\ lost = {} /\ faults = 0
      /\ tab = [t \in Tabs |-> B!NoRequest]
  BY DEF B!Init
<1>2. /\ Len(row) = 0 /\ DOMAIN row = {} /\ Len(since) = 0
      /\ row \in Seq(Staff) /\ since \in Seq(Nat)
  BY <1>1, EmptySeq
<1>3. \A t \in Tabs : tab[t] = B!NoRequest
  BY <1>1
<1>4. BrowserTyped
  BY <1>1, <1>2, <1>3, EndsIdle, Lifetimes DEF BrowserTyped
<1>5. \A t \in Tabs : TabFine(t)
  BY <1>3, EndsIdle DEF TabFine, Coming, Refused
<1> QED
  BY <1>1, <1>2, <1>4, <1>5 DEF BrowserInv, SupersededIsReplaced

LEMMA BrowserSays ==
    ASSUME BrowserInv
    PROVE  B!RenewalEndsNothing /\ B!TypeOK
<1>1. BrowserTyped /\ (\A j \in DOMAIN row : RowFine(j)) /\ \A t \in Tabs : TabFine(t)
  BY DEF BrowserInv
<1>2. B!KeptSignedIn
  <2>1. SUFFICES ASSUME jar # 0, B!Usable(jar), ~B!Live(jar)
                 PROVE  jar \in lost \/ B!Replacing(jar)
    BY DEF B!KeptSignedIn
  <2>2. jar \in DOMAIN row
    BY <1>1, <2>1, BrowserFields DEF BrowserTyped
  <2>3. since[jar] # 0
    BY <1>1, <2>1, <2>2, OnlyAfterGrace
  <2> QED
    BY <2>1, <2>3 DEF BrowserInv, SupersededIsReplaced
<1>3. B!RefusedFairly
  BY <1>1 DEF B!RefusedFairly, TabFine, Refused
<1>4. B!TypeOK
  <2>1. \A j \in DOMAIN row : row[j].expires <= B!Exp(row[j])
    BY <1>1 DEF RowFine, FineRow
  <2> QED
    BY <1>1, <2>1 DEF BrowserTyped, B!TypeOK, Staff
<1> QED
  BY <1>2, <1>3, <1>4 DEF B!RenewalEndsNothing

-----------------------------------------------------------------------------
(* The client of the language model                                          *)

Call == [stage : {"idle", "next", "asking"}, batch : Seq(Messages), opening : Nat,
         k : Nat, todo : Seq(Piece), done : Seq(Nat), cooling : SUBSET Nat,
         second : BOOLEAN]
Outcome == [kind : {"none", "answers", "limited", "failed"}, batch : Seq(Messages),
            done : Seq(Nat), wait : Nat,
            why : {"none", "size", "downgrade", "error"}]

ClientTyped ==
    /\ now \in Nat /\ per_item \in OutputPerItem .. PerItemCap /\ unlucky \in Nat
    /\ modes \in [Range(Models) -> {"auto", "json_object"}]
    /\ ready \in [Range(Models) -> Nat]
    /\ call \in Call /\ outcome \in Outcome

Fits(p) == 1 <= p.from /\ p.from <= p.to /\ 1 <= p.budget /\ p.budget <= Ceiling

\* Pieces that follow one another to the end of the batch.
Follow(todo, end) ==
    /\ todo # <<>>
    /\ \A i \in DOMAIN todo :
         /\ Fits(todo[i]) /\ todo[i].to <= end
         /\ todo[i].to = IF i = Len(todo) THEN end ELSE todo[i + 1].from - 1

\* Where one message is asked for with more room than the account lets a model
\* reserve, half of that room has been too little for it.
Deserved(p, m, batch) ==
    Size(p) = 1 => p.budget <= Allowance[m] \/ p.budget < 2 * Need[batch[p.from]]

Counted(n) == [i \in 1 .. n |-> i]

BigMessage(batch) ==
    \E i \in DOMAIN batch :
        \/ Need[batch[i]] > Ceiling
        \/ \E m \in Range(Models) : 2 * Need[batch[i]] > Allowance[m]

\* A call as it may be, and how the last one ended.
CallFine(c, o) ==
    /\ c.batch \in Batches \cup {<<>>} /\ c.k <= Len(Models) + 1 /\ c.opening <= Ceiling
    /\ c.stage # "idle" =>
         /\ c.batch \in Batches /\ 1 <= c.k /\ 1 <= c.opening /\ o.kind = "none"
         /\ Len(c.batch) = 1 => c.opening <= PerItemCap + Envelope
         /\ c.k > 1 => c.cooling # {}
    /\ c.stage # "asking" => c.todo = <<>> /\ ~c.second
    /\ c.stage = "asking" =>
         /\ c.k <= Len(Models)
         /\ Follow(c.todo, Len(c.batch))
         /\ c.done = Counted(Head(c.todo).from - 1)
         /\ \A i \in DOMAIN c.todo : Deserved(c.todo[i], Models[c.k], c.batch)
    /\ o.kind = "answers" => o.done = Counted(Len(o.batch))
    /\ o.kind = "failed" /\ o.why = "size" => BigMessage(o.batch)

ClientInv == ClientTyped /\ CallFine(call, outcome)

-----------------------------------------------------------------------------
LEMMA Sizes ==
    /\ Models \in Seq(Range(Models)) /\ Len(Models) \in Nat /\ Len(Models) >= 1
    /\ DOMAIN Models = 1 .. Len(Models) /\ \A k \in 1 .. Len(Models) : Models[k] \in Range(Models)
    /\ OutputPerItem \in Nat \ {0} /\ Envelope \in Nat \ {0} /\ Ceiling \in Nat \ {0}
    /\ PerItemCap \in Nat \ {0} /\ OutputPerItem <= PerItemCap
    /\ \A m \in Range(Models) : Allowance[m] \in Nat /\ PerItemCap + Envelope <= Allowance[m]
    /\ \A w \in Waits : w \in Nat
    /\ Shortest \in Nat \ {0} /\ Longest \in Nat /\ Need \in [Messages -> Nat]
<1>1. Models \in Seq(Range(Models)) /\ Models # <<>>
  BY SizesAssumption
<1>2. Len(Models) \in Nat \ {0} /\ DOMAIN Models = 1 .. Len(Models)
  BY <1>1, LenProperties, EmptySeq
<1>3. \A k \in 1 .. Len(Models) : Models[k] \in Range(Models)
  BY <1>2 DEF Range
<1> QED
  BY <1>1, <1>2, <1>3, SizesAssumption

LEMMA BatchFields ==
    ASSUME NEW b \in Batches
    PROVE  /\ b \in Seq(Messages) /\ Len(b) \in Nat /\ Len(b) >= 1 /\ DOMAIN b = 1 .. Len(b)
           /\ \A i \in 1 .. Len(b) : Need[b[i]] \in Nat
<1>1. b \in Seq(Messages) /\ b # <<>>
  BY SizesAssumption
<1>2. Len(b) \in Nat \ {0} /\ DOMAIN b = 1 .. Len(b)
  BY <1>1, LenProperties, EmptySeq
<1>3. \A i \in 1 .. Len(b) : b[i] \in Messages
  BY <1>1, ElementOfSeq
<1> QED
  BY <1>1, <1>2, <1>3, Sizes

LEMMA CallFields ==
    ASSUME NEW c \in Call
    PROVE  /\ c.stage \in {"idle", "next", "asking"} /\ c.batch \in Seq(Messages)
           /\ c.opening \in Nat /\ c.k \in Nat /\ c.todo \in Seq(Piece)
           /\ c.done \in Seq(Nat) /\ c.cooling \in SUBSET Nat /\ c.second \in BOOLEAN
BY DEF Call

LEMMA OutcomeFields ==
    ASSUME NEW o \in Outcome
    PROVE  /\ o.kind \in {"none", "answers", "limited", "failed"}
           /\ o.batch \in Seq(Messages) /\ o.done \in Seq(Nat) /\ o.wait \in Nat
           /\ o.why \in {"none", "size", "downgrade", "error"}
BY DEF Outcome

LEMMA PieceFields ==
    ASSUME NEW p \in Piece
    PROVE  /\ p.from \in Nat /\ p.to \in Nat /\ p.budget \in Nat
           /\ Size(p) = p.to - p.from + 1 /\ Size(p) \in Int
           /\ Fits(p) => Size(p) \in Nat /\ Size(p) >= 1
BY DEF Piece, Size, Fits

LEMMA IdleFields ==
    /\ Idle \in Call /\ Idle.stage = "idle" /\ Idle.batch = <<>> /\ Idle.opening = 0
    /\ Idle.k = 0 /\ Idle.todo = <<>> /\ Idle.done = <<>> /\ Idle.cooling = {}
    /\ Idle.second = FALSE
    /\ None \in Outcome /\ None.kind = "none" /\ None.batch = <<>> /\ None.done = <<>>
    /\ None.wait = 0 /\ None.why = "none"
<1>1. <<>> \in Seq(Messages) /\ <<>> \in Seq(Piece) /\ <<>> \in Seq(Nat)
  BY EmptySeq
<1> QED
  BY <1>1 DEF Idle, None, Call, Outcome

-----------------------------------------------------------------------------
(* Counting, and pieces that follow one another                              *)

LEMMA OneOnly ==
    ASSUME NEW S, NEW x \in S
    PROVE  /\ <<x>> \in Seq(S) /\ Len(<<x>>) = 1 /\ <<x>>[1] = x /\ DOMAIN <<x>> = 1 .. 1
           /\ Head(<<x>>) = x /\ <<x>> # <<>>
OBVIOUS

LEMMA TwoOnly ==
    ASSUME NEW S, NEW x \in S, NEW y \in S
    PROVE  /\ <<x, y>> \in Seq(S) /\ Len(<<x, y>>) = 2 /\ DOMAIN <<x, y>> = 1 .. 2
           /\ <<x, y>>[1] = x /\ <<x, y>>[2] = y /\ <<x, y>> # <<>>
OBVIOUS

LEMMA FunctionIsSeq ==
    ASSUME NEW S, NEW n \in Nat, NEW f \in [1 .. n -> S]
    PROVE  f \in Seq(S) /\ Len(f) = n
<1>1. f \in UNION {[1 .. m -> S] : m \in Nat}
  OBVIOUS
<1>2. f \in Seq(S)
  BY <1>1, SeqDef
<1>3. 1 .. Len(f) = 1 .. n /\ Len(f) \in Nat
  BY <1>2, LenProperties
<1> QED
  BY <1>2, <1>3

LEMMA CountedProperties ==
    ASSUME NEW n \in Nat
    PROVE  /\ Counted(n) \in Seq(Nat) /\ Len(Counted(n)) = n
           /\ \A i \in 1 .. n : Counted(n)[i] = i
<1>1. Counted(n) \in [1 .. n -> Nat] /\ \A i \in 1 .. n : Counted(n)[i] = i
  BY DEF Counted
<1> HIDE DEF Counted
<1> QED
  BY <1>1, FunctionIsSeq

LEMMA CountedOn ==
    ASSUME NEW from \in Nat, NEW to \in Nat, 1 <= from, from <= to
    PROVE  Counted(from - 1) \o [i \in 1 .. to - from + 1 |-> from + i - 1] = Counted(to)
<1> PICK n \in Nat : n = to - from + 1
  OBVIOUS
<1> PICK m \in Nat : m = from - 1
  OBVIOUS
<1>1. m + n = to
  OBVIOUS
<1>2. \A i \in 1 .. n : from + i - 1 = m + i /\ m + i \in Nat
  OBVIOUS
<1> PICK some \in [1 .. n -> Nat] : some = [i \in 1 .. to - from + 1 |-> from + i - 1]
  BY <1>2
<1>3. \A i \in 1 .. n : some[i] = m + i
  BY <1>2
<1>4. some \in Seq(Nat) /\ Len(some) = n
  BY FunctionIsSeq
<1> PICK first \in Seq(Nat) : first = Counted(m)
  BY CountedProperties
<1> PICK both \in Seq(Nat) : both = Counted(to)
  BY CountedProperties
<1>5. /\ Len(first) = m /\ \A i \in 1 .. m : first[i] = i
      /\ Len(both) = to /\ \A i \in 1 .. to : both[i] = i
  BY CountedProperties
<1> PICK all \in Seq(Nat) : all = first \o some
  BY <1>4, ConcatProperties
<1>6. Len(all) = to /\ \A i \in 1 .. to : all[i] = IF i <= m THEN first[i] ELSE some[i - m]
  <2>1. /\ Len(all) = Len(first) + Len(some)
        /\ \A i \in 1 .. Len(first) + Len(some) :
             all[i] = IF i <= Len(first) THEN first[i] ELSE some[i - Len(first)]
    BY <1>4, ConcatProperties
  <2>2. Len(first) + Len(some) = to /\ Len(first) = m
    BY <1>1, <1>4, <1>5
  <2> QED
    BY <2>1, <2>2
<1>7. \A i \in 1 .. to : all[i] = both[i]
  <2>1. TAKE i \in 1 .. to
  <2>2. CASE i <= m
    <3>1. i \in 1 .. m
      BY <2>2
    <3> QED
      BY <1>5, <1>6, <2>2, <3>1
  <2>3. CASE ~(i <= m)
    <3>1. i - m \in 1 .. n /\ m + (i - m) = i
      BY <2>3
    <3> QED
      BY <1>3, <1>5, <1>6, <2>3, <3>1
  <2> QED
    BY <2>2, <2>3
<1> QED
  BY <1>5, <1>6, <1>7, SeqEqual

\* New pieces in the place of the first one.
Joined(all, new, todo, end) ==
    /\ all \in Seq(Piece) /\ Follow(all, end) /\ Head(all) = new[1]
    /\ Len(all) = Len(new) + Len(todo) - 1
    /\ \A i \in 1 .. Len(new) : all[i] = new[i]
    /\ \A i \in 1 .. Len(todo) - 1 : all[Len(new) + i] = todo[i + 1]

\* What is asked instead of the first piece takes its place.
LEMMA FollowOn ==
    ASSUME NEW todo \in Seq(Piece), NEW end \in Nat, Follow(todo, end),
           NEW new \in Seq(Piece), Follow(new, Head(todo).to)
    PROVE  Joined(new \o Tail(todo), new, todo, end)
<1>1. todo # <<>> /\ new # <<>>
  BY DEF Follow
<1> PICK n \in Nat : n = Len(todo)
  BY LenProperties
<1> PICK m \in Nat : m = Len(new)
  BY LenProperties
<1>2. /\ n >= 1 /\ m >= 1 /\ DOMAIN todo = 1 .. n /\ DOMAIN new = 1 .. m
      /\ Head(todo) = todo[1] /\ Tail(todo) \in Seq(Piece) /\ Len(Tail(todo)) = n - 1
      /\ \A i \in 1 .. n - 1 : Tail(todo)[i] = todo[i + 1]
  BY <1>1, HeadTailProperties, LenProperties, EmptySeq
<1>3. /\ m = m + n - 1 <=> n = 1
      /\ \A j \in 1 .. n - 1 : j + 1 = n <=> m + j = m + n - 1
  BY <1>2
<1>4. \A i \in 1 .. m : new[i].to <= end
  <2>1. /\ 1 \in DOMAIN todo /\ todo[1] \in Piece
        /\ \A i \in 1 .. m : i \in DOMAIN new /\ new[i] \in Piece
    BY <1>2, ElementOfSeq
  <2>2. todo[1].to <= end /\ \A i \in 1 .. m : new[i].to <= todo[1].to
    BY <1>2, <2>1 DEF Follow
  <2> QED
    BY <2>1, <2>2, PieceFields
<1> DEFINE all == new \o Tail(todo)
<1>5. /\ all \in Seq(Piece) /\ Len(all) = m + n - 1
      /\ \A i \in 1 .. m + n - 1 : all[i] = IF i <= m THEN new[i] ELSE Tail(todo)[i - m]
  <2>1. /\ all \in Seq(Piece) /\ Len(all) = m + (n - 1)
        /\ \A i \in 1 .. m + (n - 1) : all[i] = IF i <= m THEN new[i] ELSE Tail(todo)[i - m]
    BY <1>2, ConcatProperties
  <2> QED
    BY <2>1
<1> HIDE DEF all
<1>6. \A i \in 1 .. m : all[i] = new[i]
  BY <1>2, <1>5
<1>7. \A i \in 1 .. n - 1 : all[m + i] = todo[i + 1]
  <2>1. TAKE i \in 1 .. n - 1
  <2>2. m + i \in 1 .. m + n - 1 /\ ~(m + i <= m) /\ (m + i) - m = i
    OBVIOUS
  <2> QED
    BY <1>2, <1>5, <2>2
<1>8. Head(all) = new[1] /\ all # <<>> /\ DOMAIN all = 1 .. m + n - 1
  <2>1. Len(all) >= 1 /\ DOMAIN all = 1 .. m + n - 1
    BY <1>2, <1>5, LenProperties
  <2>2. all # <<>>
    BY <2>1, EmptySeq
  <2> QED
    BY <1>2, <1>6, <2>1, <2>2
<1>9. Follow(all, end)
  <2>1. ASSUME NEW i \in DOMAIN all
        PROVE  /\ Fits(all[i]) /\ all[i].to <= end
               /\ all[i].to = IF i = Len(all) THEN end ELSE all[i + 1].from - 1
    <3>1. CASE i < m
      <4>1. i \in 1 .. m /\ i + 1 \in 1 .. m /\ i # Len(all)
        BY <1>2, <1>5, <1>8, <2>1, <3>1
      <4>2. Fits(new[i]) /\ new[i].to <= end /\ new[i].to = new[i + 1].from - 1
        BY <1>2, <1>4, <3>1, <4>1 DEF Follow
      <4> QED
        BY <1>6, <4>1, <4>2
    <3>2. CASE i = m
      <4>1. m \in DOMAIN new /\ 1 \in DOMAIN todo
        BY <1>2
      <4>2. Fits(new[m]) /\ new[m].to = todo[1].to /\ new[m].to <= end
        BY <1>2, <1>4, <4>1 DEF Follow
      <4>3. todo[1].to = IF n = 1 THEN end ELSE todo[2].from - 1
        BY <4>1 DEF Follow
      <4>4. n # 1 => all[m + 1] = todo[2]
        BY <1>2, <1>7
      <4>5. all[i] = new[m] /\ (i = Len(all) <=> n = 1)
        <5>1. m \in 1 .. m /\ Len(all) = m + n - 1
          BY <1>2, <1>5
        <5> QED
          BY <1>6, <1>3, <3>2, <5>1
      <4> QED
        BY <3>2, <4>3, <4>4, <4>2, <4>5
    <3>3. CASE i > m
      <4> PICK j \in 1 .. n - 1 : j = i - m
        BY <1>2, <1>8, <2>1, <3>3
      <4>1. Fits(todo[j + 1]) /\ j + 1 \in DOMAIN todo /\ todo[j + 1].to <= end
            /\ todo[j + 1].to = IF j + 1 = n THEN end ELSE todo[j + 2].from - 1
        BY <1>2 DEF Follow
      <4>2. all[i] = todo[j + 1] /\ (j + 1 = n <=> i = Len(all))
        <5>1. i = m + j
          BY <1>8, <2>1
        <5>2. Len(all) = m + n - 1 /\ (j + 1 = n <=> m + j = m + n - 1)
          BY <1>5, <1>3
        <5> QED
          BY <1>7, <5>1, <5>2
      <4>3. j + 1 # n => all[i + 1] = todo[j + 2]
        <5>1. j + 1 # n => j + 1 \in 1 .. n - 1 /\ m + (j + 1) = i + 1 /\ (j + 1) + 1 = j + 2
          BY <1>8, <2>1
        <5> QED
          BY <1>7, <5>1
      <4> QED
        BY <4>1, <4>2, <4>3
    <3> QED
      BY <1>2, <1>8, <2>1, <3>1, <3>2, <3>3
  <2> QED
    BY <1>8, <2>1 DEF Follow
<1>10. Joined(all, new, todo, end)
  <2>1. Len(all) = Len(new) + Len(todo) - 1
    BY <1>5, <1>6, <1>7, <1>8, <1>9
  <2> QED
    BY <1>5, <1>6, <1>7, <1>8, <1>9, <2>1 DEF Joined
<1> QED
  BY <1>10 DEF all

\* What is left when the first piece is answered begins where it ended.
LEMMA FollowTail ==
    ASSUME NEW todo \in Seq(Piece), NEW end \in Nat, Follow(todo, end), Len(todo) > 1
    PROVE  /\ Tail(todo) \in Seq(Piece) /\ Follow(Tail(todo), end)
           /\ Len(Tail(todo)) = Len(todo) - 1
           /\ Head(Tail(todo)).from = Head(todo).to + 1
           /\ \A i \in 1 .. Len(todo) - 1 : Tail(todo)[i] = todo[i + 1]
<1> PICK n \in Nat : n = Len(todo) /\ n > 1
  BY LenProperties
<1> PICK rest \in Seq(Piece) : rest = Tail(todo)
  BY HeadTailProperties DEF Follow
<1>1. /\ DOMAIN todo = 1 .. n /\ Head(todo) = todo[1] /\ Len(rest) = n - 1
      /\ \A i \in 1 .. n - 1 : rest[i] = todo[i + 1]
  BY HeadTailProperties, LenProperties DEF Follow
<1>2. DOMAIN rest = 1 .. n - 1 /\ rest # <<>> /\ Head(rest) = rest[1]
  <2>1. DOMAIN rest = 1 .. n - 1
    BY <1>1, LenProperties
  <2>2. rest # <<>>
    BY <1>1, EmptySeq
  <2> QED
    BY <1>1, <2>1, <2>2
<1>3. ASSUME NEW i \in DOMAIN rest
      PROVE  /\ Fits(rest[i]) /\ rest[i].to <= end
             /\ rest[i].to = IF i = Len(rest) THEN end ELSE rest[i + 1].from - 1
  <2>1. i + 1 \in DOMAIN todo /\ rest[i] = todo[i + 1] /\ (i + 1 = n <=> i = Len(rest))
    BY <1>1, <1>2
  <2>2. i + 1 # n => rest[i + 1] = todo[(i + 1) + 1]
    BY <1>1, <1>2
  <2> QED
    BY <2>1, <2>2 DEF Follow
<1>4. rest[1] = todo[2] /\ todo[1].to = todo[2].from - 1 /\ todo[2] \in Piece
      /\ todo[1] \in Piece
  BY <1>1, ElementOfSeq DEF Follow
<1> QED
  <2>1. Follow(rest, end)
    BY <1>2, <1>3 DEF Follow
  <2>2. Head(rest).from = Head(todo).to + 1
    BY <1>1, <1>2, <1>4, PieceFields
  <2> QED
    BY <1>1, <2>1, <2>2

-----------------------------------------------------------------------------
(* What a message needs                                                      *)

LEMMA SumOfOne ==
    ASSUME NEW a, Need[call.batch[a]] \in Nat
    PROVE  MapThenSumSet(LAMBDA i : Need[call.batch[i]], {a}) = Need[call.batch[a]]
<1> DEFINE S == {a}
           Goes(g) == g = [s \in SUBSET S |-> IF s = {} THEN 0
                          ELSE LET x == CHOOSE x \in s : TRUE
                               IN  Need[call.batch[x]] + g[s \ {x}]]
           h == [s \in SUBSET S |-> IF s = {} THEN 0 ELSE Need[call.batch[a]]]
           iter == CHOOSE g : Goes(g)
<1>1. ASSUME NEW s \in SUBSET S, s # {}
      PROVE  (CHOOSE x \in s : TRUE) = a /\ s \ {a} = {}
  BY <1>1
<1>2. Goes(h)
  <2>1. ASSUME NEW s \in SUBSET S
        PROVE  h[s] = IF s = {} THEN 0
                      ELSE LET x == CHOOSE x \in s : TRUE
                           IN  Need[call.batch[x]] + h[s \ {x}]
    <3>1. CASE s = {}
      BY <3>1
    <3>2. CASE s # {}
      <4>1. h[{}] = 0 /\ h[s] = Need[call.batch[a]]
        BY <3>2
      <4> QED
        BY <1>1, <3>2, <4>1
    <3> QED
      BY <3>1, <3>2
  <2> HIDE DEF h
  <2>2. DOMAIN h = SUBSET S /\ h = [s \in DOMAIN h |-> h[s]]
    BY DEF h
  <2> QED
    BY <2>1, <2>2
<1>3. Goes(iter)
  BY <1>2
<1> HIDE DEF iter
<1>4. iter[{}] = 0
  BY <1>3
<1>5. iter[S] = Need[call.batch[a]]
  <2>1. iter[S] = LET x == CHOOSE x \in S : TRUE IN Need[call.batch[x]] + iter[S \ {x}]
    BY <1>3
  <2>2. iter[S] = Need[call.batch[a]] + iter[{}]
    BY <1>1, <2>1
  <2> QED
    BY <1>4, <2>2
<1>6. MapThenSumSet(LAMBDA i : Need[call.batch[i]], S) = iter[S]
  BY DEF iter, MapThenSumSet, MapThenFoldSet
<1> QED
  BY <1>5, <1>6

LEMMA BudgetIsFair ==
    ASSUME ClientTyped, NEW n \in Nat
    PROVE  /\ BudgetFor(n) \in Nat /\ 1 <= BudgetFor(n) /\ BudgetFor(n) <= Ceiling
           /\ n = 1 => BudgetFor(n) <= PerItemCap + Envelope
<1>1. per_item \in Nat /\ per_item <= PerItemCap
  BY Sizes DEF ClientTyped
<1>2. per_item * n \in Nat /\ per_item * 1 = per_item
  BY <1>1
<1> PICK e \in Nat : e = per_item * n
  BY <1>2
<1>3. BudgetFor(n) = Least(Ceiling, e + Envelope)
  BY DEF BudgetFor
<1>4. n = 1 => e = per_item
  BY <1>2
<1> QED
  BY <1>1, <1>3, <1>4, Sizes DEF Least

LEMMA AtLeastOne == \A n \in Nat \ {0} : n >= 1 /\ (~(n > 1) => n = 1)
OBVIOUS

\* What is known of a call that waits for an answer.
LEMMA WhileAsking ==
    ASSUME ClientInv, Asking
    PROVE  /\ call.stage = "asking" /\ call.batch \in Batches /\ outcome.kind = "none"
           /\ call.k \in 1 .. Len(Models) /\ Model \in Range(Models)
           /\ call.todo \in Seq(Piece) /\ call.todo # <<>> /\ Len(call.todo) >= 1
           /\ Len(call.todo) \in Nat /\ DOMAIN call.todo = 1 .. Len(call.todo)
           /\ ~(Len(call.todo) > 1) => Len(call.todo) = 1
           /\ Asked = call.todo[1] /\ Asked \in Piece /\ Fits(Asked)
           /\ Asked.to <= Len(call.batch) /\ Asked.from \in 1 .. Len(call.batch)
           /\ Follow(call.todo, Len(call.batch))
           /\ call.done = Counted(Asked.from - 1)
           /\ \A i \in DOMAIN call.todo : Deserved(call.todo[i], Model, call.batch)
           /\ Size(Asked) = 1 => Needed = Need[call.batch[Asked.from]]
<1>1. /\ call \in Call /\ call.stage = "asking" /\ call.batch \in Batches
      /\ outcome.kind = "none"
      /\ 1 <= call.k /\ call.k <= Len(Models) /\ Follow(call.todo, Len(call.batch))
      /\ call.done = Counted(Head(call.todo).from - 1)
      /\ \A i \in DOMAIN call.todo : Deserved(call.todo[i], Models[call.k], call.batch)
  BY DEF ClientInv, ClientTyped, CallFine, Asking
<1>2. call.k \in 1 .. Len(Models) /\ Model \in Range(Models) /\ call.todo \in Seq(Piece)
  BY <1>1, CallFields, Sizes DEF Model
<1>3. /\ call.todo # <<>> /\ Len(call.todo) >= 1 /\ Len(call.todo) \in Nat
      /\ DOMAIN call.todo = 1 .. Len(call.todo) /\ 1 \in DOMAIN call.todo
      /\ ~(Len(call.todo) > 1) => Len(call.todo) = 1
  <2>1. call.todo # <<>>
    BY <1>1 DEF Follow
  <2>2. Len(call.todo) \in Nat \ {0}
    BY <1>2, <2>1, EmptySeq
  <2>3. Len(call.todo) >= 1 /\ (~(Len(call.todo) > 1) => Len(call.todo) = 1)
    BY <2>2, AtLeastOne
  <2> QED
    BY <1>2, <2>1, <2>2, <2>3, LenProperties
<1>4. Asked = call.todo[1] /\ Asked \in Piece
  BY <1>2, <1>3, ElementOfSeq DEF Asked
<1>5. Fits(Asked) /\ Asked.to <= Len(call.batch)
  BY <1>1, <1>3, <1>4 DEF Follow
<1>6. Len(call.batch) \in Nat /\ \A i \in 1 .. Len(call.batch) : Need[call.batch[i]] \in Nat
  BY <1>1, BatchFields
<1>7. Asked.from \in 1 .. Len(call.batch)
  BY <1>4, <1>5, <1>6, PieceFields DEF Fits
<1>8. Size(Asked) = 1 => Needed = Need[call.batch[Asked.from]]
  <2>1. SUFFICES ASSUME Size(Asked) = 1 PROVE Needed = Need[call.batch[Asked.from]]
    OBVIOUS
  <2>2. Asked.from = Asked.to /\ Asked.from \in Nat
    BY <1>4, <2>1, PieceFields
  <2>3. Asked.from .. Asked.to = {Asked.from}
    BY <2>2
  <2>4. Need[call.batch[Asked.from]] \in Nat
    BY <1>6, <1>7
  <2> QED
    BY <2>3, <2>4, SumOfOne, Zenon DEF Needed
<1> QED
  BY <1>1, <1>2, <1>3, <1>4, <1>5, <1>7, <1>8 DEF Asked, Model

-----------------------------------------------------------------------------
(* How a call goes on                                                        *)

ClientSteps ==
    /\ now' \in Nat /\ per_item' \in OutputPerItem .. PerItemCap /\ unlucky' \in Nat
    /\ modes' \in [Range(Models) -> {"auto", "json_object"}]
    /\ ready' \in [Range(Models) -> Nat]

\* A call has ended.
LEMMA CallEnds ==
    ASSUME ClientInv, ClientSteps, NEW o \in Outcome, outcome' = o, call' = Idle,
           o.kind = "answers" => o.done = Counted(Len(o.batch)),
           o.kind = "failed" /\ o.why = "size" => BigMessage(o.batch)
    PROVE  ClientInv' /\ AsksForLess
<1>1. ClientTyped'
  BY IdleFields DEF ClientSteps, ClientTyped
<1>2. CallFine(Idle, o)
  BY IdleFields, Sizes DEF CallFine
<1>3. AsksForLess
  BY IdleFields DEF AsksForLess
<1> QED
  BY <1>1, <1>2, <1>3 DEF ClientInv

\* The next model's turn.
LEMMA ModelIsNext ==
    ASSUME ClientInv, ClientSteps, NEW c \in Call, call' = c, UNCHANGED outcome,
           call.stage # "idle", call.k <= Len(Models),
           c.stage = "next", c.batch = call.batch, c.opening = call.opening,
           c.k = call.k + 1, c.todo = <<>>, ~c.second, c.cooling # {}
    PROVE  ClientInv' /\ AsksForLess
<1>1. CallFine(call, outcome) /\ call \in Call /\ call.k \in Nat
  BY CallFields DEF ClientInv, ClientTyped
<1>2. CallFine(c, outcome)
  BY <1>1, Sizes DEF CallFine
<1>3. ClientTyped'
  BY DEF ClientInv, ClientSteps, ClientTyped
<1>4. AsksForLess
  BY <1>1 DEF AsksForLess
<1> QED
  BY <1>2, <1>3, <1>4 DEF ClientInv

LEMMA LastPart ==
    ASSUME NEW S, NEW s \in Seq(S), NEW t \in Seq(S)
    PROVE  SubSeq(s \o t, Len(s) + 1, Len(s \o t)) = t
<1> PICK m \in Nat : m = Len(s)
  BY LenProperties
<1> PICK n \in Nat : n = Len(t)
  BY LenProperties
<1>1. Len(s \o t) = m + n
  BY ConcatProperties
<1>2. CASE n = 0
  <2>1. t = <<>>
    BY <1>2, EmptySeq
  <2>2. SubSeq(s \o t, m + 1, m + n) = <<>>
    BY <1>2, SubSeqEmpty
  <2> QED
    BY <1>1, <2>1, <2>2
<1>3. CASE n # 0
  <2>1. m + 1 \in Len(s) + 1 .. Len(s) + Len(t) /\ m + n \in Len(s) + 1 .. Len(s) + Len(t)
    BY <1>3
  <2>2. SubSeq(s \o t, m + 1, m + n) = SubSeq(t, (m + 1) - Len(s), (m + n) - Len(s))
    BY <2>1, SubSeqOfConcat2
  <2>3. SubSeq(s \o t, m + 1, m + n) = SubSeq(t, 1, n)
    BY <2>2
  <2> QED
    BY <1>1, <2>3, SubSeqFull
<1> QED
  BY <1>2, <1>3

Lesser(new) ==
    \A i \in DOMAIN new : Less(new[i], Asked) /\ Deserved(new[i], Model, call.batch)

\* Something less is asked instead of what was asked.
LEMMA AsksInstead ==
    ASSUME ClientInv, ClientSteps, UNCHANGED outcome, Asking,
           NEW new \in Seq(Piece), Follow(new, Asked.to), new[1].from = Asked.from,
           Lesser(new), call' = Then(new)
    PROVE  ClientInv' /\ AsksForLess
<1>1. /\ call.stage = "asking" /\ call.batch \in Batches /\ outcome.kind = "none"
      /\ call.k \in 1 .. Len(Models)
      /\ call.todo \in Seq(Piece) /\ call.todo # <<>> /\ Len(call.todo) >= 1
      /\ Len(call.todo) \in Nat /\ DOMAIN call.todo = 1 .. Len(call.todo)
      /\ Asked = call.todo[1] /\ Asked \in Piece /\ Asked = Head(call.todo)
      /\ Follow(call.todo, Len(call.batch))
      /\ call.done = Counted(Asked.from - 1)
      /\ \A i \in DOMAIN call.todo : Deserved(call.todo[i], Model, call.batch)
  BY WhileAsking DEF Asked
<1> PICK todo \in Seq(Piece) : todo = call.todo
  BY <1>1
<1> PICK end \in Nat : end = Len(call.batch)
  BY <1>1, BatchFields
<1>2. Follow(todo, end) /\ Follow(new, Head(todo).to) /\ Head(todo).from = new[1].from
  BY <1>1
<1>3. new \o Tail(todo) \in Seq(Piece)
  <2>1. Tail(todo) \in Seq(Piece)
    BY <1>1, HeadTailProperties
  <2> QED
    BY <2>1, ConcatProperties
<1> PICK all \in Seq(Piece) : all = new \o Tail(todo)
  BY <1>3
<1>4. /\ Follow(all, end) /\ Head(all) = new[1]
      /\ Len(all) = Len(new) + Len(todo) - 1
      /\ \A i \in 1 .. Len(new) : all[i] = new[i]
      /\ \A i \in 1 .. Len(todo) - 1 : all[Len(new) + i] = todo[i + 1]
  <2>1. Joined(new \o Tail(todo), new, todo, end)
    BY <1>2, FollowOn
  <2> QED
    BY <2>1 DEF Joined
<1>5. /\ Len(new) \in Nat /\ DOMAIN new = 1 .. Len(new) /\ Len(todo) \in Nat /\ Len(todo) >= 1
      /\ DOMAIN all = 1 .. Len(all)
  BY <1>1, LenProperties
<1>6. PICK c \in Call : c = [call EXCEPT !.todo = all, !.second = FALSE]
  <2>1. call \in Call
    BY DEF ClientInv, ClientTyped
  <2> QED
    BY <2>1 DEF Call
<1>7. call' = c
  BY <1>6 DEF Then
<1>8. /\ c.stage = "asking" /\ c.batch = call.batch /\ c.opening = call.opening
      /\ c.k = call.k /\ c.todo = all /\ c.done = call.done /\ ~c.second
      /\ c.cooling = call.cooling
  <2>1. call \in Call
    BY DEF ClientInv, ClientTyped
  <2> QED
    BY <1>1, <1>6, <2>1 DEF Call
<1> HIDE <1>6
<1>9. ASSUME NEW i \in DOMAIN all PROVE Deserved(all[i], Model, call.batch)
  <2>1. CASE i <= Len(new)
    BY <1>4, <1>5, <2>1 DEF Lesser
  <2>2. CASE ~(i <= Len(new))
    <3> PICK j \in 1 .. Len(todo) - 1 : i = Len(new) + j
      <4>1. i - Len(new) \in 1 .. Len(todo) - 1 /\ i = Len(new) + (i - Len(new))
        BY <1>4, <1>5, <2>2
      <4> QED
        BY <4>1
    <3>1. j + 1 \in DOMAIN call.todo /\ all[i] = call.todo[j + 1]
      BY <1>1, <1>4, <1>5
    <3> QED
      BY <1>1, <3>1
  <2> QED
    BY <2>1, <2>2
<1>10. CallFine(c, outcome)
  BY <1>1, <1>2, <1>4, <1>8, <1>9 DEF CallFine, ClientInv, Model
<1>11. ClientTyped'
  BY <1>7 DEF ClientInv, ClientSteps, ClientTyped
<1>12. AsksForLess
  <2> PICK rest \in Seq(Piece) : rest = Tail(todo)
    BY <1>1, HeadTailProperties
  <2> PICK put \in Nat : put = Len(new)
    BY <1>5
  <2>1. all = new \o rest /\ put = 1 + Len(all) - Len(todo)
    BY <1>4, <1>5
  <2>2. SubSeq(all, put + 1, Len(all)) = rest
    <3>1. SubSeq(new \o rest, Len(new) + 1, Len(new \o rest)) = rest
      BY LastPart
    <3>2. all = new \o rest /\ put = Len(new)
      BY <2>1
    <3> QED
      BY <3>1, <3>2, Zenon
  <2>3. ASSUME NEW i \in 1 .. put PROVE Less(all[i], Asked)
    <3>1. all[i] = new[i] /\ i \in DOMAIN new
      BY <1>4, <1>5
    <3> QED
      BY <3>1 DEF Lesser
  <2>4. /\ call'.todo = all /\ Tail(call.todo) = rest /\ call'.stage = "asking"
        /\ 1 + Len(call'.todo) - Len(call.todo) = put
    BY <1>7, <1>8, <2>1
  <2>5. /\ put >= 0 /\ SubSeq(call'.todo, put + 1, Len(call'.todo)) = Tail(call.todo)
        /\ \A i \in 1 .. put : Less(call'.todo[i], Asked)
    BY <2>2, <2>3, <2>4
  <2> QED
    BY <2>4, <2>5, Zenon DEF AsksForLess
<1> QED
  BY <1>7, <1>10, <1>11, <1>12 DEF ClientInv

-----------------------------------------------------------------------------
(* The actions of the client                                                 *)

LEMMA Untouched ==
    ASSUME ClientInv, UNCHANGED <<now, per_item, modes, ready, unlucky>>
    PROVE  ClientSteps
BY DEF ClientInv, ClientTyped, ClientSteps

LEMMA ExtractKeeps ==
    ASSUME ClientInv, Extract
    PROVE  ClientInv' /\ AsksForLess
<1>1. PICK b \in Batches :
        /\ call' = [Idle EXCEPT !.stage = "next", !.batch = b, !.k = 1,
                                !.opening = BudgetFor(Len(b))]
        /\ outcome' = None /\ call.stage = "idle"
        /\ UNCHANGED <<now, per_item, modes, ready, unlucky>>
  BY DEF Extract
<1>2. ClientTyped /\ CallFine(call, outcome) /\ ClientSteps
  BY <1>1, Untouched DEF ClientInv
<1>3. b \in Seq(Messages) /\ Len(b) \in Nat
  BY BatchFields
<1> PICK room \in Nat : room = BudgetFor(Len(b))
  BY <1>2, <1>3, BudgetIsFair
<1>4. 1 <= room /\ room <= Ceiling /\ (Len(b) = 1 => room <= PerItemCap + Envelope)
  BY <1>2, <1>3, BudgetIsFair
<1>5. PICK c \in Call :
        c = [Idle EXCEPT !.stage = "next", !.batch = b, !.k = 1, !.opening = room]
  BY <1>3, IdleFields DEF Call
<1>6. /\ c.stage = "next" /\ c.batch = b /\ c.k = 1 /\ c.opening = room
      /\ c.todo = <<>> /\ c.second = FALSE
  BY <1>5, IdleFields DEF Call
<1>7. call' = c
  BY <1>1, <1>5
<1> HIDE <1>5
<1>8. CallFine(c, None)
  BY <1>4, <1>6, IdleFields, Sizes DEF CallFine
<1>9. ClientInv'
  BY <1>1, <1>2, <1>7, <1>8, IdleFields DEF ClientInv, ClientTyped, ClientSteps
<1>10. AsksForLess
  BY <1>1 DEF AsksForLess
<1> QED
  BY <1>9, <1>10

LEMMA SkipsModelKeeps ==
    ASSUME ClientInv, SkipsModel
    PROVE  ClientInv' /\ AsksForLess
<1>1. /\ call.stage = "next" /\ call.k <= Len(Models) /\ ready[Model] > now
      /\ call' = [call EXCEPT !.k = @ + 1, !.cooling = @ \cup {ready[Model] - now}]
      /\ UNCHANGED <<now, per_item, modes, ready, outcome, unlucky>>
  BY DEF SkipsModel, Choosing
<1>2. ClientTyped /\ CallFine(call, outcome) /\ ClientSteps /\ call \in Call
  BY <1>1, Untouched DEF ClientInv, ClientTyped
<1>3. call.k \in 1 .. Len(Models) /\ Model \in Range(Models)
  BY <1>1, <1>2, CallFields, Sizes DEF CallFine, Model
<1> PICK wait \in Nat : wait = ready[Model] - now
  BY <1>1, <1>2, <1>3 DEF ClientTyped
<1> PICK next \in Nat : next = call.k + 1
  BY <1>3
<1> PICK cooling \in SUBSET Nat : cooling = call.cooling \cup {wait}
  BY <1>2, CallFields
<1>4. PICK c \in Call : c = [call EXCEPT !.k = next, !.cooling = cooling]
  BY <1>2 DEF Call
<1>5. /\ c.stage = "next" /\ c.batch = call.batch /\ c.opening = call.opening
      /\ c.k = call.k + 1 /\ c.todo = call.todo /\ c.second = call.second
      /\ c.cooling = cooling /\ cooling # {}
  BY <1>1, <1>2, <1>4 DEF Call
<1>6. call' = c
  <2>1. call' = [call EXCEPT !.k = call.k + 1, !.cooling = call.cooling \cup {ready[Model] - now}]
    BY <1>1
  <2> QED
    BY <1>4, <2>1
<1> HIDE <1>4
<1>7. c.todo = <<>> /\ ~c.second
  BY <1>1, <1>2, <1>5 DEF CallFine
<1> QED
  BY <1>1, <1>2, <1>5, <1>6, <1>7, ModelIsNext

LEMMA AsksModelKeeps ==
    ASSUME ClientInv, AsksModel
    PROVE  ClientInv' /\ AsksForLess
<1>1. /\ call.stage = "next" /\ call.k <= Len(Models)
      /\ call' = [call EXCEPT
           !.stage = "asking", !.done = <<>>, !.second = FALSE,
           !.todo = <<[from |-> 1, to |-> Len(call.batch), budget |-> call.opening]>>]
      /\ UNCHANGED <<now, per_item, modes, ready, outcome, unlucky>>
  BY DEF AsksModel, Choosing
<1>2. ClientTyped /\ CallFine(call, outcome) /\ ClientSteps /\ call \in Call
      /\ outcome \in Outcome
  BY <1>1, Untouched DEF ClientInv, ClientTyped
<1>3. /\ call.k \in 1 .. Len(Models) /\ Model \in Range(Models) /\ call.batch \in Batches
      /\ outcome.kind = "none" /\ 1 <= call.opening /\ call.opening <= Ceiling
      /\ call.opening \in Nat /\ (Len(call.batch) = 1 => call.opening <= PerItemCap + Envelope)
  BY <1>1, <1>2, CallFields, Sizes DEF CallFine, Model
<1> PICK n \in Nat : n = Len(call.batch) /\ n >= 1
  BY <1>3, BatchFields
<1> PICK room \in Nat : room = call.opening
  BY <1>3
<1>4. PICK p \in Piece : p = [from |-> 1, to |-> n, budget |-> room]
  BY DEF Piece
<1>5. p.from = 1 /\ p.to = n /\ p.budget = room
  BY <1>4
<1> PICK todo \in Seq(Piece) : todo = <<p>>
  BY OneOnly
<1>6. Len(todo) = 1 /\ todo[1] = p /\ DOMAIN todo = 1 .. 1 /\ Head(todo) = p /\ todo # <<>>
  BY OneOnly
<1>7. PICK c \in Call :
        c = [call EXCEPT !.stage = "asking", !.done = <<>>, !.second = FALSE, !.todo = todo]
  <2>1. <<>> \in Seq(Nat)
    BY EmptySeq
  <2> QED
    BY <1>2, <2>1 DEF Call
<1>8. /\ c.stage = "asking" /\ c.batch = call.batch /\ c.opening = call.opening
      /\ c.k = call.k /\ c.todo = todo /\ c.second = FALSE /\ c.done = <<>>
      /\ c.cooling = call.cooling
  BY <1>1, <1>2, <1>7 DEF Call
<1>9. call' = c
  BY <1>1, <1>4, <1>7
<1> HIDE <1>4, <1>7
<1>10. Follow(todo, n)
  BY <1>3, <1>5, <1>6 DEF Follow, Fits
<1>11. c.done = Counted(Head(todo).from - 1)
  <2>1. Counted(0) \in Seq(Nat) /\ Len(Counted(0)) = 0
    BY CountedProperties
  <2>2. Counted(0) = <<>>
    BY <2>1, EmptySeq
  <2> QED
    BY <1>5, <1>6, <1>8, <2>2
<1>12. Deserved(p, Model, call.batch)
  <2>1. SUFFICES ASSUME Size(p) = 1 PROVE p.budget <= Allowance[Model]
    BY DEF Deserved
  <2>2. n = 1
    <3>1. Size(p) = n - 1 + 1
      BY <1>5, PieceFields
    <3> QED
      BY <2>1, <3>1
  <2> QED
    BY <1>3, <1>5, <2>2, Sizes
<1>13. c.k > 1 => c.cooling # {}
  BY <1>1, <1>2, <1>8 DEF CallFine
<1>14. CallFine(c, outcome)
  BY <1>2, <1>3, <1>6, <1>8, <1>10, <1>11, <1>12, <1>13 DEF CallFine, Model
<1>15. ClientInv'
  BY <1>1, <1>2, <1>9, <1>14 DEF ClientInv, ClientTyped, ClientSteps
<1>16. AsksForLess
  BY <1>1, <1>8, <1>9 DEF AsksForLess
<1> QED
  BY <1>15, <1>16

LEMMA LeastOfSome ==
    ASSUME NEW T \in SUBSET Nat, T # {}
    PROVE  Min(T) \in T /\ \A y \in T : Min(T) <= y
<1>1. \E x \in T : \A y \in T : ~(<<y, x>> \in OpToRel(<, Nat))
  BY NatLessThanWellFounded, WFMin
<1>2. PICK x \in T : \A y \in T : ~(y < x)
  BY <1>1 DEF OpToRel
<1>3. \A y \in T : x <= y
  BY <1>2
<1> QED
  BY <1>3 DEF Min

LEMMA GivesUpKeeps ==
    ASSUME ClientInv, GivesUp
    PROVE  ClientInv' /\ AsksForLess
<1>1. /\ call.stage = "next" /\ call.k > Len(Models) /\ call' = Idle
      /\ outcome' = [None EXCEPT !.kind = "limited", !.batch = call.batch,
                                 !.wait = now + Min(call.cooling)]
      /\ UNCHANGED <<now, per_item, modes, ready, unlucky>>
  BY DEF GivesUp, Wait
<1>2. ClientTyped /\ CallFine(call, outcome) /\ ClientSteps /\ call \in Call
  BY <1>1, Untouched DEF ClientInv, ClientTyped
<1>3. call.cooling \in SUBSET Nat /\ call.cooling # {} /\ call.batch \in Seq(Messages)
  BY <1>1, <1>2, CallFields, Sizes DEF CallFine
<1> PICK wait \in Nat : wait = now + Min(call.cooling)
  BY <1>2, <1>3, LeastOfSome DEF ClientTyped
<1> PICK batch \in Seq(Messages) : batch = call.batch
  BY <1>3
<1>4. PICK o \in Outcome : o = [None EXCEPT !.kind = "limited", !.batch = batch, !.wait = wait]
  BY IdleFields DEF Outcome
<1>5. o.kind = "limited"
  BY <1>4, IdleFields DEF Outcome
<1>6. outcome' = o
  BY <1>1, <1>4
<1> HIDE <1>4
<1> QED
  BY <1>1, <1>2, <1>5, <1>6, CallEnds

LEMMA LimitedKeeps ==
    ASSUME ClientInv, Limited
    PROVE  ClientInv' /\ AsksForLess
<1>1. PICK w \in RetryAfter :
        /\ ready' = [ready EXCEPT ![Model] = now + w]
        /\ call' = [call EXCEPT !.stage = "next", !.k = @ + 1, !.todo = <<>>,
                                !.done = <<>>, !.cooling = @ \cup {w}]
        /\ Asking /\ ~call.second
        /\ UNCHANGED <<now, per_item, modes, outcome, unlucky>>
  BY DEF Limited
<1>2. ClientTyped /\ CallFine(call, outcome) /\ call \in Call
  BY DEF ClientInv, ClientTyped
<1>3. w \in Nat
  BY Sizes DEF RetryAfter, Most, Least
<1>4. call.k \in 1 .. Len(Models) /\ Model \in Range(Models) /\ call.stage = "asking"
  BY <1>1, WhileAsking
<1>5. ClientSteps
  <2> PICK until \in Nat : until = now + w
    BY <1>2, <1>3 DEF ClientTyped
  <2>1. ready' \in [Range(Models) -> Nat]
    BY <1>1, <1>2 DEF ClientTyped
  <2> QED
    BY <1>1, <1>2, <2>1 DEF ClientSteps, ClientTyped
<1> PICK next \in Nat : next = call.k + 1
  BY <1>4
<1> PICK cooling \in SUBSET Nat : cooling = call.cooling \cup {w}
  BY <1>2, <1>3, CallFields
<1>6. PICK c \in Call :
        c = [call EXCEPT !.stage = "next", !.k = next, !.todo = <<>>, !.done = <<>>,
                         !.cooling = cooling]
  <2>1. <<>> \in Seq(Nat) /\ <<>> \in Seq(Piece)
    BY EmptySeq
  <2> QED
    BY <1>2, <2>1 DEF Call
<1>7. /\ c.stage = "next" /\ c.batch = call.batch /\ c.opening = call.opening
      /\ c.k = call.k + 1 /\ c.todo = <<>> /\ ~c.second
      /\ c.cooling = cooling /\ cooling # {}
  BY <1>1, <1>2, <1>6 DEF Call
<1>8. call' = c
  <2>1. call' = [call EXCEPT !.stage = "next", !.k = call.k + 1, !.todo = <<>>,
                             !.done = <<>>, !.cooling = call.cooling \cup {w}]
    BY <1>1
  <2> QED
    BY <1>6, <2>1
<1> HIDE <1>6
<1>9. UNCHANGED outcome /\ call.stage # "idle" /\ call.k <= Len(Models) /\ c.cooling # {}
  BY <1>1, <1>4, <1>7, Sizes
<1> QED
  BY <1>5, <1>7, <1>8, <1>9, ModelIsNext

\* A call fails: for its size only if one message is to blame.
LEMMA FailsKeeps ==
    ASSUME ClientInv, ClientSteps, NEW why \in {"size", "downgrade", "error"}, Fails(why),
           why = "size" => BigMessage(call.batch)
    PROVE  ClientInv' /\ AsksForLess
<1>1. /\ outcome' = [None EXCEPT !.kind = "failed", !.batch = call.batch, !.why = why]
      /\ call' = Idle
  BY DEF Fails
<1> PICK batch \in Seq(Messages) : batch = call.batch
  BY CallFields DEF ClientInv, ClientTyped
<1>2. PICK o \in Outcome : o = [None EXCEPT !.kind = "failed", !.batch = batch, !.why = why]
  BY IdleFields DEF Outcome
<1>3. o.kind = "failed" /\ o.why = why /\ o.batch = call.batch
  BY <1>2, IdleFields DEF Outcome
<1>4. outcome' = o
  BY <1>1, <1>2
<1> HIDE <1>2
<1> QED
  BY <1>1, <1>3, <1>4, CallEnds

LEMMA HalvesFollow ==
    ASSUME NEW p \in Piece, Fits(p), Many(p), NEW room \in Nat, 1 <= room, room <= Ceiling
    PROVE  /\ Halves(p, room) \in Seq(Piece) /\ DOMAIN Halves(p, room) = 1 .. 2
           /\ Follow(Halves(p, room), p.to) /\ Halves(p, room)[1].from = p.from
           /\ \A i \in 1 .. 2 : /\ Halves(p, room)[i].budget = room
                                /\ Less(Halves(p, room)[i], p)
                                /\ Size(Halves(p, room)[i]) = 1 => Size(p) \div 2 = 1
<1>1. p.from \in Nat /\ p.to \in Nat /\ Size(p) = p.to - p.from + 1 /\ Size(p) > 1
  BY PieceFields DEF Many
<1> PICK half \in Nat : half = Size(p) \div 2 /\ 1 <= half /\ half < Size(p)
                        /\ (Size(p) - half = 1 => half = 1)
  BY <1>1
<1> PICK mid \in Nat : mid = p.from + half - 1
  BY <1>1
<1>2. p.from <= mid /\ mid + 1 <= p.to /\ mid - p.from + 1 = half
      /\ p.to - (mid + 1) + 1 = Size(p) - half
  BY <1>1
<1>3. PICK a \in Piece : a = [from |-> p.from, to |-> mid, budget |-> room]
  BY <1>1 DEF Piece
<1> PICK next \in Nat : next = mid + 1
  OBVIOUS
<1>4. PICK b \in Piece : b = [from |-> next, to |-> p.to, budget |-> room]
  BY <1>1 DEF Piece
<1>5. /\ a.from = p.from /\ a.to = mid /\ a.budget = room
      /\ b.from = mid + 1 /\ b.to = p.to /\ b.budget = room
  BY <1>3, <1>4
<1>6. Halves(p, room) = <<a, b>>
  BY <1>3, <1>4 DEF Halves
<1> HIDE <1>3, <1>4
<1> PICK both \in Seq(Piece) : both = <<a, b>>
  BY TwoOnly
<1>7. /\ Len(both) = 2 /\ DOMAIN both = 1 .. 2 /\ both[1] = a /\ both[2] = b /\ both # <<>>
  BY TwoOnly
<1>8. Size(a) = half /\ Size(b) = Size(p) - half
  BY <1>2, <1>5, PieceFields
<1>9. Fits(a) /\ Fits(b) /\ a.to <= p.to /\ b.to <= p.to /\ a.to = b.from - 1
  BY <1>1, <1>2, <1>5 DEF Fits
<1>10. Follow(both, p.to)
  <2>1. ASSUME NEW i \in DOMAIN both
        PROVE  /\ Fits(both[i]) /\ both[i].to <= p.to
               /\ both[i].to = IF i = Len(both) THEN p.to ELSE both[i + 1].from - 1
    <3>1. i = 1 \/ i = 2
      BY <1>7
    <3>2. CASE i = 1
      BY <1>7, <1>9, <3>2
    <3>3. CASE i = 2
      BY <1>5, <1>7, <1>9, <3>3
    <3> QED
      BY <3>1, <3>2, <3>3
  <2> QED
    BY <1>7, <2>1 DEF Follow
<1>11. ASSUME NEW i \in 1 .. 2
       PROVE  both[i].budget = room /\ Less(both[i], p) /\ (Size(both[i]) = 1 => half = 1)
  <2>1. Size(both[i]) < Size(p) /\ both[i].budget = room /\ (Size(both[i]) = 1 => half = 1)
    <3>1. i = 1 \/ i = 2
      OBVIOUS
    <3>2. CASE i = 1
      BY <1>5, <1>7, <1>8, <3>2
    <3>3. CASE i = 2
      BY <1>1, <1>5, <1>7, <1>8, <3>3
    <3> QED
      BY <3>1, <3>2, <3>3
  <2> QED
    BY <2>1 DEF Less
<1> QED
  BY <1>5, <1>6, <1>7, <1>10, <1>11

\* One message is to blame: half of what it was given was too little.
LEMMA OneToBlame ==
    ASSUME ClientInv, Asking, ~Many(Asked),
           IsTooLarge \/ (IsOutputTruncated /\ Asked.budget >= Ceiling)
    PROVE  BigMessage(call.batch)
<1>1. /\ call.batch \in Batches /\ Model \in Range(Models)
      /\ Asked \in Piece /\ Fits(Asked) /\ Asked.from \in 1 .. Len(call.batch)
      /\ 1 \in DOMAIN call.todo /\ Asked = call.todo[1]
      /\ \A i \in DOMAIN call.todo : Deserved(call.todo[i], Model, call.batch)
      /\ Size(Asked) = 1 => Needed = Need[call.batch[Asked.from]]
  BY WhileAsking
<1>2. Size(Asked) = 1 /\ Asked.budget \in Nat
  BY <1>1, PieceFields DEF Many
<1> PICK i \in DOMAIN call.batch : i = Asked.from
  BY <1>1, BatchFields
<1> PICK need \in Nat : need = Need[call.batch[i]]
  BY <1>1, BatchFields
<1> PICK room \in Nat : room = Asked.budget
  BY <1>2
<1>3. room <= Allowance[Model] \/ room < 2 * need
  BY <1>1, <1>2 DEF Deserved
<1>4. Allowance[Model] \in Nat /\ Ceiling \in Nat
  BY <1>1, Sizes
<1>5. CASE IsTooLarge
  <2>1. 2 * need > Allowance[Model]
    BY <1>3, <1>4, <1>5 DEF IsTooLarge
  <2> QED
    BY <1>1, <2>1 DEF BigMessage
<1>6. CASE IsOutputTruncated /\ Asked.budget >= Ceiling
  <2>1. need > Ceiling
    BY <1>1, <1>2, <1>4, <1>6 DEF IsOutputTruncated
  <2> QED
    BY <2>1 DEF BigMessage
<1> QED
  BY <1>5, <1>6

LEMMA TooLargeKeeps ==
    ASSUME ClientInv, TooLarge
    PROVE  ClientInv' /\ AsksForLess
<1>1. /\ Asking /\ IsTooLarge /\ ClientTyped /\ ClientSteps
      /\ UNCHANGED <<now, per_item, modes, ready, unlucky>>
      /\ \/ /\ Many(Asked) /\ UNCHANGED outcome
            /\ call' = Then(Halves(Asked, BudgetFor(Size(Asked) \div 2)))
         \/ ~Many(Asked) /\ Fails("size")
  BY Untouched DEF TooLarge, ClientInv
<1>2. CASE ~Many(Asked) /\ Fails("size")
  BY <1>1, <1>2, OneToBlame, FailsKeeps
<1>3. CASE /\ Many(Asked) /\ UNCHANGED outcome
           /\ call' = Then(Halves(Asked, BudgetFor(Size(Asked) \div 2)))
  <2>1. Asked \in Piece /\ Fits(Asked) /\ Model \in Range(Models)
    BY <1>1, WhileAsking
  <2> PICK half \in Nat : half = Size(Asked) \div 2
    BY <2>1, PieceFields
  <2> PICK room \in Nat : room = BudgetFor(half)
    BY <1>1, BudgetIsFair
  <2>2. 1 <= room /\ room <= Ceiling /\ (half = 1 => room <= PerItemCap + Envelope)
    BY <1>1, BudgetIsFair
  <2> PICK new \in Seq(Piece) : new = Halves(Asked, room)
    BY <1>3, <2>1, <2>2, HalvesFollow
  <2>3. /\ DOMAIN new = 1 .. 2 /\ Follow(new, Asked.to) /\ new[1].from = Asked.from
        /\ \A i \in 1 .. 2 : /\ new[i].budget = room /\ Less(new[i], Asked)
                             /\ Size(new[i]) = 1 => half = 1
    BY <1>3, <2>1, <2>2, HalvesFollow
  <2>4. room <= Allowance[Model] \/ half # 1
    BY <2>1, <2>2, Sizes
  <2>5. Lesser(new)
    BY <2>3, <2>4 DEF Lesser, Deserved
  <2>6. call' = Then(new) /\ UNCHANGED outcome
    BY <1>3
  <2> QED
    BY <1>1, <2>3, <2>5, <2>6, AsksInstead
<1> QED
  BY <1>1, <1>2, <1>3

LEMMA CutOffKeeps ==
    ASSUME ClientInv, CutOff
    PROVE  ClientInv' /\ AsksForLess
<1> PICK raised \in Int : raised = Least(Ceiling, 2 * Asked.budget)
  <2>1. Asked.budget \in Nat
    BY WhileAsking, PieceFields DEF CutOff
  <2> QED
    BY <2>1, Sizes DEF Least
<1>1. /\ Asking /\ ~IsTooLarge /\ IsOutputTruncated /\ ClientTyped
      /\ UNCHANGED <<now, modes, ready, unlucky>>
      /\ \/ /\ Asked.budget < Ceiling /\ UNCHANGED outcome
            /\ per_item' = Least(PerItemCap, Most(per_item, raised \div Size(Asked)))
            /\ call' = Then(<<[Asked EXCEPT !.budget = raised]>>)
         \/ /\ ~(Asked.budget < Ceiling) /\ UNCHANGED <<per_item, outcome>>
            /\ Many(Asked) /\ call' = Then(Halves(Asked, Asked.budget))
         \/ /\ ~(Asked.budget < Ceiling) /\ UNCHANGED per_item
            /\ ~Many(Asked) /\ Fails("size")
  BY DEF CutOff, ClientInv
<1>2. /\ Asked \in Piece /\ Fits(Asked) /\ Model \in Range(Models)
      /\ Size(Asked) = 1 => Needed = Need[call.batch[Asked.from]]
  BY <1>1, WhileAsking
<1> PICK room \in Nat : room = Asked.budget
  BY <1>2, PieceFields
<1>3. 1 <= room /\ room <= Ceiling /\ room <= Allowance[Model]
  BY <1>1, <1>2, Sizes DEF Fits, IsTooLarge
<1>4. CASE /\ Asked.budget < Ceiling /\ UNCHANGED outcome
           /\ per_item' = Least(PerItemCap, Most(per_item, raised \div Size(Asked)))
           /\ call' = Then(<<[Asked EXCEPT !.budget = raised]>>)
  <2>1. raised \in Nat /\ room < raised /\ raised <= 2 * room /\ raised <= Ceiling
    BY <1>3, <1>4, Sizes DEF Least
  <2>2. PICK p \in Piece : p = [Asked EXCEPT !.budget = raised]
    BY <1>2, <2>1 DEF Piece
  <2>3. p.from = Asked.from /\ p.to = Asked.to /\ p.budget = raised
    BY <1>2, <2>2 DEF Piece
  <2> PICK new \in Seq(Piece) : new = <<p>>
    BY OneOnly
  <2>4. new # <<>> /\ DOMAIN new = 1 .. 1 /\ Len(new) = 1 /\ new[1] = p
    BY OneOnly
  <2>5. call' = Then(new)
    BY <1>4, <2>2
  <2> HIDE <2>2
  <2>6. Follow(new, Asked.to)
    <3>1. Fits(p)
      BY <1>2, <1>3, <2>1, <2>3 DEF Fits
    <3> QED
      BY <1>2, <2>3, <2>4, <3>1, PieceFields DEF Follow
  <2>7. Size(p) = Size(Asked) /\ Less(p, Asked)
    BY <1>2, <2>1, <2>3, PieceFields DEF Size, Less
  <2>8. Deserved(p, Model, call.batch)
    <3>1. SUFFICES ASSUME Size(p) = 1 PROVE p.budget < 2 * Need[call.batch[p.from]]
      BY DEF Deserved
    <3> PICK need \in Nat : need = Need[call.batch[Asked.from]]
      BY <1>1, WhileAsking, BatchFields
    <3>2. Needed = need
      BY <1>2, <2>7, <3>1
    <3>3. room < need
      BY <1>1, <3>2 DEF IsOutputTruncated
    <3> QED
      BY <2>1, <2>3, <3>3
  <2>9. Lesser(new)
    BY <2>4, <2>7, <2>8 DEF Lesser
  <2>10. ClientSteps
    <3>1. Size(Asked) \in Nat /\ Size(Asked) >= 1
      BY <1>2, PieceFields
    <3> PICK more \in Int : more = raised \div Size(Asked)
      BY <2>1, <3>1
    <3>2. per_item' \in OutputPerItem .. PerItemCap
      BY <1>1, <1>4, Sizes DEF Least, Most, ClientTyped
    <3> QED
      BY <1>1, <3>2 DEF ClientSteps, ClientTyped
  <2> QED
    BY <1>1, <1>4, <2>3, <2>4, <2>5, <2>6, <2>9, <2>10, AsksInstead
<1>5. CASE /\ ~(Asked.budget < Ceiling) /\ UNCHANGED <<per_item, outcome>>
           /\ Many(Asked) /\ call' = Then(Halves(Asked, Asked.budget))
  <2> PICK new \in Seq(Piece) : new = Halves(Asked, room)
    BY <1>2, <1>3, <1>5, HalvesFollow
  <2>1. /\ DOMAIN new = 1 .. 2 /\ Follow(new, Asked.to) /\ new[1].from = Asked.from
        /\ \A i \in 1 .. 2 : new[i].budget = room /\ Less(new[i], Asked)
    BY <1>2, <1>3, <1>5, HalvesFollow
  <2>2. Lesser(new)
    BY <1>3, <2>1 DEF Lesser, Deserved
  <2>3. ClientSteps
    BY <1>1, <1>5, Untouched
  <2>4. UNCHANGED outcome /\ call' = Then(new)
    BY <1>5
  <2> QED
    BY <1>1, <2>1, <2>2, <2>3, <2>4, AsksInstead
<1>6. CASE /\ ~(Asked.budget < Ceiling) /\ UNCHANGED per_item
           /\ ~Many(Asked) /\ Fails("size")
  <2>1. Asked.budget >= Ceiling
    BY <1>3, <1>6, Sizes
  <2>2. ClientSteps
    BY <1>1, <1>6, Untouched
  <2> QED
    BY <1>1, <1>6, <2>1, <2>2, OneToBlame, FailsKeeps
<1> QED
  BY <1>1, <1>4, <1>5, <1>6

LEMMA DowngradesKeeps ==
    ASSUME ClientInv, Downgrades
    PROVE  ClientInv' /\ AsksForLess
<1>1. /\ Asking /\ ~call.second /\ modes' = [modes EXCEPT ![Model] = "json_object"]
      /\ call' = [call EXCEPT !.second = TRUE]
      /\ UNCHANGED <<now, per_item, ready, outcome, unlucky>>
  BY DEF Downgrades
<1>2. ClientTyped /\ CallFine(call, outcome) /\ call \in Call /\ call.stage = "asking"
  BY <1>1, WhileAsking DEF ClientInv, ClientTyped
<1>3. PICK c \in Call : c = [call EXCEPT !.second = TRUE]
  BY <1>2 DEF Call
<1>4. /\ c.stage = call.stage /\ c.batch = call.batch /\ c.opening = call.opening
      /\ c.k = call.k /\ c.todo = call.todo /\ c.done = call.done /\ c.cooling = call.cooling
  BY <1>2, <1>3 DEF Call
<1>5. call' = c
  BY <1>1, <1>3
<1> HIDE <1>3
<1>6. CallFine(c, outcome)
  BY <1>2, <1>4 DEF CallFine
<1>7. ClientInv'
  BY <1>1, <1>2, <1>5, <1>6 DEF ClientInv, ClientTyped
<1>8. AsksForLess
  <2>1. call'.stage # "next"
    BY <1>2, <1>4, <1>5
  <2> QED
    BY <1>1, <2>1 DEF AsksForLess
<1> QED
  BY <1>7, <1>8

LEMMA RefusalsKeep ==
    ASSUME ClientInv, RefusedAgain \/ Breaks
    PROVE  ClientInv' /\ AsksForLess
<1>1. ClientTyped
  BY DEF ClientInv
<1>2. CASE RefusedAgain
  <2>1. /\ Fails("downgrade") /\ unlucky' = unlucky + 1
        /\ UNCHANGED <<now, per_item, modes, ready>>
    BY <1>2 DEF RefusedAgain
  <2>2. ClientSteps
    BY <1>1, <2>1 DEF ClientSteps, ClientTyped
  <2> QED
    BY <2>1, <2>2, FailsKeeps
<1>3. CASE Breaks
  <2>1. Fails("error") /\ ClientSteps
    BY <1>3, Untouched DEF Breaks
  <2> QED
    BY <2>1, FailsKeeps
<1> QED
  BY <1>2, <1>3

LEMMA AnsweredKeeps ==
    ASSUME ClientInv, Answered
    PROVE  ClientInv' /\ AsksForLess
<1> DEFINE verdicts == [i \in 1 .. Size(Asked) |-> Asked.from + i - 1]
<1>1. /\ Asking /\ ClientTyped /\ ClientSteps
      /\ UNCHANGED <<now, per_item, modes, ready, unlucky>>
      /\ \/ /\ Len(call.todo) > 1 /\ UNCHANGED outcome
            /\ call' = [Then(<<>>) EXCEPT !.done = call.done \o verdicts]
         \/ /\ ~(Len(call.todo) > 1) /\ call' = Idle
            /\ outcome' = [None EXCEPT !.kind = "answers", !.batch = call.batch,
                                       !.done = call.done \o verdicts]
  BY Untouched DEF Answered, ClientInv
<1>2. /\ call.stage = "asking" /\ call.batch \in Batches
      /\ Asked \in Piece /\ Fits(Asked) /\ Asked = Head(call.todo)
      /\ call.todo \in Seq(Piece) /\ call.todo # <<>> /\ Len(call.todo) >= 1
      /\ Len(call.todo) \in Nat /\ DOMAIN call.todo = 1 .. Len(call.todo)
      /\ call.done = Counted(Asked.from - 1) /\ Asked = call.todo[1]
      /\ Follow(call.todo, Len(call.batch))
      /\ \A i \in DOMAIN call.todo : Deserved(call.todo[i], Model, call.batch)
  BY <1>1, WhileAsking DEF Asked
<1> PICK from \in Nat : from = Asked.from
  BY <1>2, PieceFields
<1> PICK to \in Nat : to = Asked.to
  BY <1>2, PieceFields
<1>3. (to + 1) - 1 = to
  OBVIOUS
<1>4. ~(Len(call.todo) > 1) => Len(call.todo) = 1
  BY <1>1, WhileAsking
<1>5. call.done \o verdicts = Counted(to)
  <2>1. Size(Asked) = to - from + 1 /\ 1 <= from /\ from <= to
    BY <1>2, PieceFields DEF Fits
  <2> QED
    BY <1>2, <2>1, CountedOn
<1> HIDE DEF verdicts
<1> PICK done \in Seq(Nat) : done = Counted(to)
  BY CountedProperties
<1> PICK todo \in Seq(Piece) : todo = call.todo
  BY <1>2
<1> PICK end \in Nat : end = Len(call.batch)
  BY <1>2, BatchFields
<1>6. CASE /\ Len(call.todo) > 1 /\ UNCHANGED outcome
           /\ call' = [Then(<<>>) EXCEPT !.done = call.done \o verdicts]
  <2>1. Follow(todo, end) /\ Len(todo) > 1
    BY <1>2, <1>6
  <2> PICK rest \in Seq(Piece) : rest = Tail(todo)
    BY <2>1, FollowTail
  <2>2. /\ Follow(rest, end) /\ Len(rest) = Len(todo) - 1 /\ Head(rest).from = to + 1
        /\ \A i \in 1 .. Len(todo) - 1 : rest[i] = todo[i + 1]
    BY <1>2, <2>1, FollowTail
  <2>3. <<>> \o rest = rest /\ SubSeq(rest, 1, Len(rest)) = rest
    BY ConcatEmptySeq, SubSeqFull
  <2>4. PICK c \in Call : c = [call EXCEPT !.todo = rest, !.second = FALSE, !.done = done]
    BY <1>1 DEF ClientTyped, Call
  <2>5. call' = c
    <3>1. Then(<<>>) = [call EXCEPT !.todo = rest, !.second = FALSE]
      BY <2>3 DEF Then
    <3> QED
      BY <1>1, <1>5, <1>6, <2>4, <3>1 DEF ClientTyped, Call
  <2>6. /\ c.stage = "asking" /\ c.batch = call.batch /\ c.opening = call.opening
        /\ c.k = call.k /\ c.todo = rest /\ c.done = done /\ ~c.second
        /\ c.cooling = call.cooling
    BY <1>1, <1>2, <2>4 DEF ClientTyped, Call
  <2> HIDE <2>4
  <2>7. \A i \in DOMAIN rest : Deserved(rest[i], Model, call.batch)
    <3>1. DOMAIN rest = 1 .. Len(todo) - 1
      BY <2>2, LenProperties
    <3>2. ASSUME NEW i \in 1 .. Len(todo) - 1 PROVE Deserved(rest[i], Model, call.batch)
      <4>1. i + 1 \in DOMAIN call.todo /\ rest[i] = call.todo[i + 1]
        BY <1>2, <2>2
      <4> QED
        BY <1>2, <4>1
    <3> QED
      BY <3>1, <3>2
  <2>8. c.done = Counted(Head(rest).from - 1)
    <3>1. Head(rest).from - 1 = to
      BY <1>3, <2>2
    <3> QED
      BY <2>6, <3>1
  <2>9. CallFine(c, outcome)
    <3>1. CallFine(call, outcome)
      BY DEF ClientInv
    <3> QED
      BY <1>2, <2>2, <2>6, <2>7, <2>8, <3>1 DEF CallFine, Model
  <2>10. ClientInv'
    BY <1>1, <1>6, <2>5, <2>9 DEF ClientInv, ClientSteps, ClientTyped
  <2>11. /\ call'.todo = rest /\ call'.stage = "asking" /\ Tail(call.todo) = rest
         /\ 1 + Len(call'.todo) - Len(call.todo) = 0
    BY <1>2, <2>2, <2>5, <2>6
  <2>12. /\ 0 >= 0 /\ SubSeq(call'.todo, 0 + 1, Len(call'.todo)) = Tail(call.todo)
         /\ \A i \in 1 .. 0 : Less(call'.todo[i], Asked)
    BY <2>3, <2>11
  <2>13. AsksForLess
    BY <2>11, <2>12, Zenon DEF AsksForLess
  <2> QED
    BY <2>10, <2>13
<1>7. CASE /\ ~(Len(call.todo) > 1) /\ call' = Idle
           /\ outcome' = [None EXCEPT !.kind = "answers", !.batch = call.batch,
                                      !.done = call.done \o verdicts]
  <2>1. to = end
    <3>1. Len(call.todo) = 1 /\ 1 \in DOMAIN call.todo
      BY <1>2, <1>7, <1>4
    <3> QED
      BY <1>2, <3>1 DEF Follow
  <2> PICK batch \in Seq(Messages) : batch = call.batch
    BY <1>2, BatchFields
  <2>2. PICK o \in Outcome : o = [None EXCEPT !.kind = "answers", !.batch = batch, !.done = done]
    BY IdleFields DEF Outcome
  <2>3. o.kind = "answers" /\ o.batch = call.batch /\ o.done = done
    BY <2>2, IdleFields DEF Outcome
  <2>4. outcome' = o
    BY <1>5, <1>7, <2>2
  <2> HIDE <2>2
  <2>5. o.done = Counted(Len(o.batch)) /\ call' = Idle
    BY <1>7, <2>1, <2>3
  <2> QED
    BY <1>1, <2>3, <2>4, <2>5, CallEnds
<1> QED
  BY <1>1, <1>6, <1>7

-----------------------------------------------------------------------------
(* What a step does to the wait and to what is charged                       *)

\* Every step of a call but three leaves the wait alone, and ends a call without
\* one or goes on with the model it had.
LEMMA SameModel ==
    ASSUME ClientInv,
           AsksModel \/ TooLarge \/ CutOff \/ Downgrades \/ RefusedAgain \/ Breaks \/ Answered
    PROVE  /\ UNCHANGED <<now, ready>>
           /\ \/ call' = Idle /\ outcome'.kind # "limited"
              \/ /\ UNCHANGED outcome /\ call'.k = call.k /\ call'.cooling = call.cooling
                 /\ call'.stage # "idle"
           /\ ~Downgrades => (call'.second => call.second)
           /\ ~RefusedAgain => UNCHANGED unlucky
           /\ ~Downgrades => UNCHANGED modes
<1>1. call \in Call
  BY DEF ClientInv, ClientTyped
<1>2. ASSUME NEW todo
      PROVE  /\ Then(todo).k = call.k /\ Then(todo).cooling = call.cooling
             /\ Then(todo).second = FALSE /\ Then(todo).stage = call.stage
  BY <1>1 DEF Then, Call
<1>3. ASSUME NEW why, Fails(why)
      PROVE  call' = Idle /\ outcome'.kind # "limited" /\ call'.second = FALSE
  BY <1>3, IdleFields DEF Fails, None, Idle
<1>4. CASE AsksModel
  BY <1>1, <1>4 DEF AsksModel, Choosing, Call
<1>5. CASE TooLarge
  BY <1>2, <1>3, <1>5, Zenon DEF TooLarge, Asking
<1>6. CASE CutOff
  <2>1. /\ Asking /\ UNCHANGED <<now, modes, ready, unlucky>>
        /\ \/ Fails("size")
           \/ UNCHANGED outcome /\ \E todo : call' = Then(todo)
    BY <1>6, Zenon DEF CutOff
  <2> QED
    BY <1>2, <1>3, <2>1 DEF Asking
<1>7. CASE Downgrades
  BY <1>1, <1>7 DEF Downgrades, Asking, Call
<1>8. CASE RefusedAgain
  BY <1>3, <1>8, Zenon DEF RefusedAgain
<1>9. CASE Breaks
  BY <1>3, <1>9, Zenon DEF Breaks
<1>10. CASE Answered
  <2>1. /\ Asking /\ UNCHANGED <<now, per_item, modes, ready, unlucky>>
        /\ \/ /\ UNCHANGED outcome
              /\ \E done : call' = [Then(<<>>) EXCEPT !.done = done]
           \/ /\ call' = Idle
              /\ \E done : outcome' = [None EXCEPT !.kind = "answers", !.batch = call.batch,
                                                   !.done = done]
    BY <1>10, Zenon DEF Answered
  <2>2. ASSUME NEW done, call' = [Then(<<>>) EXCEPT !.done = done]
        PROVE  /\ call'.k = call.k /\ call'.cooling = call.cooling
               /\ call'.second = FALSE /\ call'.stage = call.stage
    BY <1>1, <2>2 DEF Then, Call
  <2>3. ASSUME NEW done, outcome' = [None EXCEPT !.kind = "answers", !.batch = call.batch,
                                                   !.done = done]
        PROVE  outcome'.kind # "limited"
    BY <2>3 DEF None
  <2> QED
    BY <1>1, <2>1, <2>2, <2>3, IdleFields DEF Asking
<1> QED
  BY <1>4, <1>5, <1>6, <1>7, <1>8, <1>9, <1>10

-----------------------------------------------------------------------------
(* What is charged                                                           *)

Downgraded(md) == {m \in Range(Models) : md[m] = "json_object"}

\* A refusal that may still be charged has been paid for by its downgrade.
Charges ==
    /\ unlucky <= Cardinality(Downgraded(modes))
    /\ call.second => unlucky + 1 <= Cardinality(Downgraded(modes))

LEMMA FewModels == IsFiniteSet(Range(Models))
<1>1. Models \in [1 .. Len(Models) -> Range(Models)] /\ Len(Models) \in Nat
  BY Sizes, LenProperties
<1>2. Models \in Surjection(1 .. Len(Models), Range(Models))
  BY <1>1, Sizes DEF Surjection, Range
<1> QED
  BY <1>1, <1>2, FS_Interval, FS_Surjection

LEMMA DowngradedCount ==
    ASSUME NEW md
    PROVE  IsFiniteSet(Downgraded(md)) /\ Cardinality(Downgraded(md)) \in Nat
<1>1. Downgraded(md) \subseteq Range(Models)
  BY DEF Downgraded
<1> QED
  BY <1>1, FewModels, FS_Subset, FS_CardinalityType

LEMMA ChargesKept ==
    ASSUME ClientInv, Charges, Next
    PROVE  Charges'
<1>1. unlucky \in Nat /\ modes \in [Range(Models) -> {"auto", "json_object"}] /\ call \in Call
  BY DEF ClientInv, ClientTyped
<1> PICK n \in Nat : n = Cardinality(Downgraded(modes))
  BY DowngradedCount
<1>2. CASE Downgrades
  <2>1. /\ Asking /\ modes[Model] = "auto" /\ modes' = [modes EXCEPT ![Model] = "json_object"]
        /\ UNCHANGED unlucky
    BY <1>2 DEF Downgrades, IsSchemaRejection
  <2>2. Model \in Range(Models)
    BY <2>1, WhileAsking
  <2>3. Downgraded(modes') = Downgraded(modes) \cup {Model} /\ Model \notin Downgraded(modes)
    BY <1>1, <2>1, <2>2 DEF Downgraded
  <2>4. Cardinality(Downgraded(modes')) = n + 1
    BY <2>3, DowngradedCount, FS_AddElement
  <2> QED
    BY <1>1, <2>1, <2>4 DEF Charges
<1>3. CASE RefusedAgain
  <2>1. call.second /\ unlucky' = unlucky + 1 /\ UNCHANGED modes /\ call' = Idle
    BY <1>3 DEF RefusedAgain, Fails
  <2> QED
    BY <1>1, <2>1, IdleFields DEF Charges
<1>4. CASE UNCHANGED <<unlucky, modes>> /\ (call'.second => call.second)
  BY <1>4 DEF Charges
<1>5. CASE Extract \/ GivesUp \/ SkipsModel \/ Limited \/ Tick
  <2>1. UNCHANGED <<unlucky, modes>>
    BY <1>5 DEF Extract, GivesUp, SkipsModel, Limited, Tick
  <2>2. call'.second => call.second
    <3>1. CASE Extract
      <4>1. PICK b \in Batches :
              call' = [Idle EXCEPT !.stage = "next", !.batch = b, !.k = 1,
                                   !.opening = BudgetFor(Len(b))]
        BY <3>1 DEF Extract
      <4> QED
        BY <4>1 DEF Idle
    <3>2. CASE GivesUp \/ Tick
      BY <3>2, IdleFields DEF GivesUp, Tick
    <3>3. CASE SkipsModel
      BY <1>1, <3>3 DEF SkipsModel, Call
    <3>4. CASE Limited
      <4>1. PICK w \in RetryAfter :
              call' = [call EXCEPT !.stage = "next", !.k = @ + 1, !.todo = <<>>,
                                   !.done = <<>>, !.cooling = @ \cup {w}]
        BY <3>4 DEF Limited
      <4> QED
        BY <1>1, <4>1 DEF Call
    <3> QED
      BY <1>5, <3>1, <3>2, <3>3, <3>4
  <2> QED
    BY <1>4, <2>1, <2>2
<1>6. CASE AsksModel \/ TooLarge \/ CutOff \/ Breaks \/ Answered
  BY <1>2, <1>3, <1>4, <1>6, SameModel
<1> QED
  BY <1>2, <1>3, <1>5, <1>6 DEF Next, Works

-----------------------------------------------------------------------------
(* The wait                                                                  *)

NamedOnce == \A i, j \in DOMAIN Models : Models[i] = Models[j] => i = j

\* What is waited for is a model that has had its turn.
Cooled ==
    call.stage # "idle" =>
        \A w \in call.cooling : \E i \in 1 .. Len(Models) :
            i < call.k /\ ready[Models[i]] <= now + w

LEMMA WaitKept ==
    ASSUME ClientInv, NamedOnce, Cooled, WaitIsEnough, Next
    PROVE  Cooled' /\ WaitIsEnough'
<1>1. /\ call \in Call /\ ready \in [Range(Models) -> Nat] /\ now \in Nat /\ outcome \in Outcome
      /\ call.k \in Nat /\ call.cooling \in SUBSET Nat
      /\ call.stage # "idle" => outcome.kind = "none" /\ call.k >= 1
  BY CallFields DEF ClientInv, ClientTyped, CallFine
<1>2. DOMAIN Models = 1 .. Len(Models) /\ Len(Models) \in Nat
      /\ \A i \in 1 .. Len(Models) : Models[i] \in Range(Models) /\ ready[Models[i]] \in Nat
  BY <1>1, Sizes
<1>3. CASE Extract
  <2>1. PICK b \in Batches :
          /\ call' = [Idle EXCEPT !.stage = "next", !.batch = b, !.k = 1,
                                  !.opening = BudgetFor(Len(b))]
          /\ outcome' = None
    BY <1>3 DEF Extract
  <2>2. call'.cooling = {}
    BY <2>1 DEF Idle
  <2> QED
    BY <2>1, <2>2, IdleFields DEF Cooled, WaitIsEnough
<1>4. CASE SkipsModel
  <2>1. /\ call.k <= Len(Models) /\ call.stage = "next" /\ ready[Models[call.k]] > now
        /\ call' = [call EXCEPT !.k = @ + 1, !.cooling = @ \cup {ready[Models[call.k]] - now}]
        /\ UNCHANGED <<now, ready, outcome>>
    BY <1>4 DEF SkipsModel, Choosing, Model
  <2>2. call.k \in 1 .. Len(Models)
    BY <1>1, <1>2, <2>1
  <2>3. call'.k = call.k + 1 /\ call'.cooling = call.cooling \cup {ready[Models[call.k]] - now}
    BY <1>1, <2>1 DEF Call
  <2>4. ASSUME NEW w \in call'.cooling
        PROVE  \E i \in 1 .. Len(Models) : i < call'.k /\ ready'[Models[i]] <= now' + w
    <3>1. CASE w \in call.cooling
      <4>1. PICK i \in 1 .. Len(Models) : i < call.k /\ ready[Models[i]] <= now + w
        BY <2>1, <3>1 DEF Cooled
      <4>2. i < call'.k
        BY <1>1, <2>3, <4>1
      <4> QED
        BY <2>1, <4>1, <4>2
    <3>2. CASE w = ready[Models[call.k]] - now
      <4>1. ready[Models[call.k]] <= now + w /\ call.k < call'.k
        BY <1>1, <1>2, <2>2, <2>3, <3>2
      <4> QED
        BY <2>1, <2>2, <4>1
    <3> QED
      BY <2>3, <3>1, <3>2
  <2> QED
    BY <2>1, <2>4 DEF Cooled, WaitIsEnough
<1>5. CASE Limited
  <2>1. PICK w \in RetryAfter :
          /\ ready' = [ready EXCEPT ![Models[call.k]] = now + w]
          /\ call' = [call EXCEPT !.stage = "next", !.k = @ + 1, !.todo = <<>>,
                                  !.done = <<>>, !.cooling = @ \cup {w}]
          /\ Asking /\ UNCHANGED <<now, outcome>>
    BY <1>5 DEF Limited, Model
  <2>2. call.k \in 1 .. Len(Models) /\ outcome.kind = "none" /\ call.stage = "asking"
    BY <2>1, WhileAsking
  <2>3. call'.k = call.k + 1 /\ call'.cooling = call.cooling \cup {w}
    BY <1>1, <2>1 DEF Call
  <2>4. w \in Nat
    BY Sizes DEF RetryAfter, Most, Least
  <2>5. ASSUME NEW v \in call'.cooling
        PROVE  \E i \in 1 .. Len(Models) : i < call'.k /\ ready'[Models[i]] <= now' + v
    <3>1. CASE v \in call.cooling
      <4>1. PICK i \in 1 .. Len(Models) : i < call.k /\ ready[Models[i]] <= now + v
        BY <2>2, <3>1 DEF Cooled
      <4>2. i < call'.k /\ i # call.k
        BY <1>1, <2>3, <4>1
      <4>3. Models[i] # Models[call.k]
        BY <1>2, <2>2, <4>2 DEF NamedOnce
      <4>4. ready'[Models[i]] = ready[Models[i]]
        BY <1>1, <2>1, <4>3
      <4> QED
        BY <2>1, <4>1, <4>2, <4>4
    <3>2. CASE v = w
      <4>1. ready'[Models[call.k]] = now + w
        BY <1>1, <1>2, <2>1, <2>2
      <4>2. call.k < call'.k /\ now + w <= now' + v
        BY <1>1, <2>1, <2>3, <2>4, <3>2
      <4> QED
        BY <2>2, <4>1, <4>2
    <3> QED
      BY <2>3, <3>1, <3>2
  <2> QED
    BY <2>1, <2>2, <2>5 DEF Cooled, WaitIsEnough
<1>6. CASE GivesUp
  <2>1. /\ call.stage = "next" /\ call' = Idle /\ UNCHANGED <<now, ready>>
        /\ outcome' = [None EXCEPT !.kind = "limited", !.batch = call.batch,
                                   !.wait = now + Min(call.cooling)]
        /\ call.k > Len(Models)
    BY <1>6 DEF GivesUp, Wait
  <2>2. call.cooling # {}
    BY <1>1, <2>1, Sizes DEF ClientInv, CallFine
  <2>3. Min(call.cooling) \in call.cooling
    BY <1>1, <2>2, LeastOfSome
  <2>4. PICK i \in 1 .. Len(Models) : ready[Models[i]] <= now + Min(call.cooling)
    BY <2>1, <2>3 DEF Cooled
  <2>5. outcome'.wait = now + Min(call.cooling)
    BY <2>1 DEF None
  <2> QED
    BY <1>2, <2>1, <2>4, <2>5, IdleFields DEF Cooled, WaitIsEnough
<1>7. CASE Tick
  <2>1. now' = now + 1 /\ UNCHANGED <<ready, call, outcome>>
    BY <1>7 DEF Tick
  <2>2. ASSUME NEW w \in call.cooling, NEW i \in 1 .. Len(Models), ready[Models[i]] <= now + w
        PROVE  ready[Models[i]] <= now' + w
    BY <1>1, <1>2, <2>1, <2>2
  <2> QED
    BY <2>1, <2>2 DEF Cooled, WaitIsEnough
<1>8. CASE AsksModel \/ TooLarge \/ CutOff \/ Downgrades \/ RefusedAgain \/ Breaks \/ Answered
  <2>1. call.stage # "idle"
    BY <1>8 DEF AsksModel, Choosing, TooLarge, CutOff, Downgrades, RefusedAgain, Breaks,
                Answered, Asking
  <2>2. /\ UNCHANGED <<now, ready>>
        /\ \/ call' = Idle /\ outcome'.kind # "limited"
           \/ UNCHANGED outcome /\ call'.k = call.k /\ call'.cooling = call.cooling
    BY <1>8, SameModel
  <2>3. CASE call' = Idle /\ outcome'.kind # "limited"
    BY <2>3, IdleFields DEF Cooled, WaitIsEnough
  <2>4. CASE UNCHANGED outcome /\ call'.k = call.k /\ call'.cooling = call.cooling
    BY <2>1, <2>2, <2>4 DEF Cooled, WaitIsEnough
  <2> QED
    BY <2>2, <2>3, <2>4
<1> QED
  BY <1>3, <1>4, <1>5, <1>6, <1>7, <1>8 DEF Next, Works

-----------------------------------------------------------------------------
(* The client's step, and what its invariant says                            *)

LEMMA ClientWaits ==
    ASSUME ClientInv, Charges, now' \in Nat, now <= now',
           UNCHANGED <<per_item, modes, ready, call, outcome, unlucky>>
    PROVE  ClientInv' /\ Charges' /\ [AsksForLess]_call
BY DEF ClientInv, ClientTyped, Charges

LEMMA ClockStands ==
    ASSUME Extract \/ Works
    PROVE  now' = now
<1>1. CASE Extract
  BY <1>1 DEF Extract
<1>2. CASE SkipsModel \/ AsksModel \/ GivesUp
  BY <1>2 DEF SkipsModel, AsksModel, GivesUp
<1>3. CASE Limited
  BY <1>3 DEF Limited
<1>4. CASE TooLarge
  BY <1>4 DEF TooLarge
<1>5. CASE CutOff
  BY <1>5 DEF CutOff
<1>6. CASE Downgrades \/ RefusedAgain \/ Breaks
  BY <1>6 DEF Downgrades, RefusedAgain, Breaks
<1>7. CASE Answered
  BY <1>7 DEF Answered
<1> QED
  BY <1>1, <1>2, <1>3, <1>4, <1>5, <1>6, <1>7 DEF Works

LEMMA ClientStep ==
    ASSUME ClientInv, Charges, Next
    PROVE  ClientInv' /\ Charges' /\ [AsksForLess]_call /\ now' \in Nat /\ now <= now'
<1>1. now \in Nat
  BY DEF ClientInv, ClientTyped
<1>2. Charges'
  BY ChargesKept
<1>3. CASE Tick
  <2>1. /\ now' = now + 1
        /\ UNCHANGED <<per_item, modes, ready, call, outcome, unlucky>>
    BY <1>3 DEF Tick
  <2>2. now' \in Nat /\ now <= now'
    BY <1>1, <2>1
  <2> QED
    BY <1>2, <2>1, <2>2, ClientWaits
<1>4. CASE Extract \/ Works
  <2>1. ClientInv' /\ AsksForLess
    BY <1>4, ExtractKeeps, SkipsModelKeeps, AsksModelKeeps, GivesUpKeeps, LimitedKeeps,
       TooLargeKeeps, CutOffKeeps, DowngradesKeeps, RefusalsKeep, AnsweredKeeps, Zenon
       DEF Works
  <2>2. now' = now
    BY <1>4, ClockStands
  <2> QED
    BY <1>1, <1>2, <2>1, <2>2
<1> QED
  BY <1>3, <1>4 DEF Next

LEMMA ClientStarts ==
    ASSUME Init
    PROVE  ClientInv /\ Charges /\ Cooled /\ WaitIsEnough
<1>1. ClientTyped
  BY IdleFields, Sizes DEF Init, ClientTyped
<1>2. CallFine(Idle, None)
  BY IdleFields, Sizes DEF CallFine
<1>3. Charges
  <2>1. unlucky = 0 /\ ~call.second
    BY IdleFields DEF Init
  <2> QED
    BY <2>1, DowngradedCount DEF Charges
<1>4. Cooled /\ WaitIsEnough
  BY IdleFields DEF Init, Cooled, WaitIsEnough
<1> QED
  BY <1>1, <1>2, <1>3, <1>4 DEF ClientInv, Init

LEMMA ClientSays ==
    ASSUME ClientInv, Charges
    PROVE  TypeOK /\ NothingDropped /\ ChargedFairly
<1>1. ClientTyped /\ CallFine(call, outcome) /\ call \in Call /\ outcome \in Outcome
  BY DEF ClientInv, ClientTyped
<1>2. NothingDropped
  <2>1. ASSUME call.stage = "asking"
        PROVE  /\ call.done = [i \in 1 .. Asked.from - 1 |-> i]
               /\ \A i \in DOMAIN call.todo :
                    call.todo[i].to = IF i = Len(call.todo) THEN Len(call.batch)
                                      ELSE call.todo[i + 1].from - 1
    <3>1. call.done = Counted(Asked.from - 1) /\ Follow(call.todo, Len(call.batch))
      BY <2>1, WhileAsking DEF Asking
    <3> QED
      BY <3>1 DEF Follow, Counted
  <2> QED
    BY <1>1, <2>1 DEF NothingDropped, CallFine, Counted
<1>3. ChargedFairly
  BY <1>1 DEF ChargedFairly, Charges, Downgraded, CallFine, BigMessage
<1>4. TypeOK
  <2>1. ASSUME NEW i \in DOMAIN call.todo
        PROVE  call.todo[i] \in Piece /\ call.todo[i].budget <= Ceiling
    <3>1. call.stage = "asking" /\ call.todo \in Seq(Piece)
      BY <1>1, <2>1, CallFields DEF CallFine
    <3>2. Fits(call.todo[i])
      BY <1>1, <3>1 DEF CallFine, Follow
    <3> QED
      BY <2>1, <3>1, <3>2, ElementOfSeq, LenProperties DEF Fits
  <2>2. call.k \in 0 .. Len(Models) + 1 /\ call.opening \in 0 .. Ceiling
    BY <1>1, CallFields, Sizes DEF CallFine
  <2> QED
    BY <1>1, <2>1, <2>2, CallFields, OutcomeFields DEF TypeOK, ClientTyped, CallFine
<1> QED
  BY <1>2, <1>3, <1>4

-----------------------------------------------------------------------------
(* The office                                                                *)

OfficeInv == AgendaInv /\ BrowserInv /\ ClientInv /\ Charges

LEMMA OfficeStarts == OfficeInit => OfficeInv
<1> SUFFICES ASSUME OfficeInit PROVE OfficeInv
  OBVIOUS
<1>1. R!Init /\ B!Init /\ Init
  BY DEF OfficeInit
<1> QED
  BY <1>1, AgendaInit, BrowserStarts, ClientStarts DEF OfficeInv

LEMMA AgendaClock ==
    ASSUME AgendaInv, R!Next
    PROVE  now' \in Nat /\ now <= now'
<1>1. now \in Nat
  BY DEF AgendaInv
<1>2. now' = now \/ now' = now + 1
  BY DEF R!Next, R!CreateTask, R!EditReads, R!EditWrites, R!Dispatch, R!Claims, R!Skips,
         R!Sends, R!Ends, R!Breaks, R!Tick, R!Subscribe, R!Unsubscribe, R!Drop, R!PushTest
<1> QED
  BY <1>1, <1>2

LEMMA OfficeKeeps ==
    ASSUME OfficeInv, [OfficeNext]_officevars
    PROVE  OfficeInv' /\ [AsksForLess]_call
<1>1. AgendaInv /\ BrowserInv /\ ClientInv /\ Charges /\ now \in Nat
  BY DEF OfficeInv, AgendaInv
<1>2. ASSUME now' \in Nat, now <= now', UNCHANGED agenda
      PROVE  AgendaInv'
  BY <1>1, <1>2, AgendaStays DEF agenda, AgendaInv, AgendaTyped
<1>3. ASSUME now' \in Nat, now <= now', UNCHANGED browser
      PROVE  BrowserInv'
  BY <1>1, <1>3, BrowserWaits DEF browser
<1>4. ASSUME now' \in Nat, now <= now', UNCHANGED client
      PROVE  ClientInv' /\ Charges' /\ [AsksForLess]_call
  BY <1>1, <1>4, ClientWaits DEF client
<1>5. CASE B!Next /\ UNCHANGED <<part, agenda, client>>
  BY <1>1, <1>2, <1>4, <1>5, BrowserStep DEF OfficeInv
<1>6. CASE R!Next /\ UNCHANGED <<part, browser, client>>
  BY <1>1, <1>3, <1>4, <1>6, AgendaStep, AgendaClock DEF OfficeInv
<1>7. CASE Next /\ UNCHANGED <<part, browser, agenda>>
  BY <1>1, <1>2, <1>3, <1>7, ClientStep DEF OfficeInv
<1>8. CASE UNCHANGED officevars
  <2>1. now' \in Nat /\ now <= now' /\ UNCHANGED <<agenda, browser, client>>
    BY <1>1, <1>8 DEF officevars, vars, client
  <2> QED
    BY <1>2, <1>3, <1>4, <2>1 DEF OfficeInv
<1> QED
  BY <1>5, <1>6, <1>7, <1>8 DEF OfficeNext

LEMMA OfficeHolds == OfficeSpec => []OfficeInv
<1>1. OfficeInv /\ [OfficeNext]_officevars => OfficeInv'
  BY OfficeKeeps
<1> QED
  BY <1>1, OfficeStarts, PTL DEF OfficeSpec

(* Rows, tokens, requests, tasks, claims, batches of reminders, devices,     *)
(* pieces of a batch of messages and what a call ends with are what the code *)
(* lets them be: among others, a dispatch takes no more than its batch, a    *)
(* token never outlives its lifetime, no request asks for more room than the *)
(* ceiling (auth.py, reminders.py, extraction.py).                           *)
THEOREM OfficeIsTyped == OfficeSpec => []OfficeTypeOK
<1>1. OfficeInv => OfficeTypeOK
  BY AgendaSays, BrowserSays, ClientSays DEF OfficeInv, OfficeTypeOK
<1> QED
  BY <1>1, OfficeHolds, PTL

(* A reminder is claimed once for each time it was set, a moved one is armed *)
(* again unless an edit raced with its claim, and what was claimed is in a   *)
(* batch, was handled, or was lost with the process that claimed it          *)
(* (reminders.py dispatch_due_reminders, routers/tasks.py update_task).      *)
THEOREM RemindersAreSentOnce == OfficeSpec => []EachReminderOnce
<1>1. OfficeInv => EachReminderOnce
  BY AgendaSays DEF OfficeInv, EachReminderOnce
<1> QED
  BY <1>1, OfficeHolds, PTL

(* No renewal signs anybody out: a browser that holds a token which was not  *)
(* revoked and has not run out is refused only if the answer with the next   *)
(* token was lost or is on its way (middleware.ts, auth.py renew).           *)
THEOREM RenewalSignsNobodyOut == OfficeSpec => []RenewalEndsNothing
<1>1. OfficeInv => RenewalEndsNothing
  BY BrowserSays DEF OfficeInv, RenewalEndsNothing
<1> QED
  BY <1>1, OfficeHolds, PTL

(* A call answers for every message of its batch, once and in order, fails   *)
(* it for its size only where one message is to blame, and asks for less, or *)
(* with more room, each time it asks again, so that it comes to an end       *)
(* (extraction.py extract, _extract, _split, _grow_or_split, _align).        *)
THEOREM CallsAnswerForAll ==
    OfficeSpec => []NothingDropped /\ []ChargedFairly /\ [][AsksForLess]_call
<1>1. OfficeInv => NothingDropped /\ ChargedFairly
  BY ClientSays DEF OfficeInv
<1>2. OfficeInv /\ [OfficeNext]_officevars => [AsksForLess]_call
  BY OfficeKeeps
<1> QED
  BY <1>1, <1>2, OfficeHolds, PTL DEF OfficeSpec

LEMMA WaitHolds ==
    ASSUME NamedOnce, OfficeInv, Cooled /\ WaitIsEnough, [OfficeNext]_officevars
    PROVE  Cooled' /\ WaitIsEnough'
<1>1. ClientInv /\ BrowserInv /\ AgendaInv /\ now \in Nat
  BY DEF OfficeInv, AgendaInv
<1>2. CASE Next
  BY <1>1, <1>2, WaitKept
<1>3. CASE now' \in Nat /\ now <= now' /\ UNCHANGED client
  <2>1. /\ call \in Call /\ ready \in [Range(Models) -> Nat] /\ call.cooling \in SUBSET Nat
        /\ UNCHANGED <<ready, call, outcome>>
    BY <1>1, <1>3, CallFields DEF ClientInv, ClientTyped, client
  <2>2. ASSUME NEW w \in call.cooling, NEW i \in 1 .. Len(Models), ready[Models[i]] <= now + w
        PROVE  ready[Models[i]] <= now' + w
    <3>1. ready[Models[i]] \in Nat /\ w \in Nat
      BY <2>1, Sizes
    <3> QED
      BY <1>1, <1>3, <2>2, <3>1
  <2> QED
    BY <2>1, <2>2 DEF Cooled, WaitIsEnough
<1>4. CASE B!Next /\ UNCHANGED client
  BY <1>1, <1>3, <1>4, BrowserStep
<1>5. CASE R!Next /\ UNCHANGED client
  BY <1>1, <1>3, <1>5, AgendaClock
<1>6. CASE UNCHANGED officevars
  BY <1>1, <1>3, <1>6 DEF officevars, vars, client
<1> QED
  BY <1>2, <1>4, <1>5, <1>6 DEF OfficeNext

(* Where no model is named twice, the wait that RateLimited asks for is long *)
(* enough: after it some model is worth asking (extraction.py extract).      *)
THEOREM CallsTellTheTruth ==
    ASSUME NamedOnce
    PROVE  OfficeSpec => CallsEndWell
<1>1. OfficeInit => Cooled /\ WaitIsEnough
  BY ClientStarts DEF OfficeInit
<1>2. /\ OfficeInv /\ (Cooled /\ WaitIsEnough) /\ [OfficeNext]_officevars
      => (Cooled /\ WaitIsEnough)'
  BY WaitHolds
<1>3. OfficeSpec => [](Cooled /\ WaitIsEnough)
  BY <1>1, <1>2, OfficeHolds, PTL DEF OfficeSpec
<1> QED
  BY <1>3, CallsAnswerForAll, PTL DEF CallsEndWell
=============================================================================
