-------------------------- MODULE ExtractionQueue --------------------------
(***************************************************************************)
(* The database-backed queue that turns stored WhatsApp messages into      *)
(* inventory: backend/app/ingestion.py, the loop of                        *)
(* backend/app/workers/whatsapp.py that drives it, the two "reprocess"     *)
(* handlers of backend/app/routers/whatsapp.py and the result matching of  *)
(* backend/app/extraction.py.                                              *)
(*                                                                         *)
(* A worker holds one database session.  Its committed effects are the     *)
(* variables status, attempts, claimed_at, properties and sources; what it *)
(* has done and not committed is in run[w].  A flat stands for everything  *)
(* property_dedup.py compares: two listings of one flat are duplicates.    *)
(***************************************************************************)
EXTENDS Integers, FiniteSets

CONSTANTS
    Messages,     \* stored messages; the order of the numbers is received_at
    Workers,      \* extraction loops: the in-API thread, standalone processes
    Flats,        \* the flats the messages are about
    FlatsOf,      \* the flats each message lists, {} for a non-listing
    Chatter,      \* messages is_obvious_chatter settles without the model
    Unreadable,   \* messages no token ceiling is enough for
    MaxAttempts,  \* MAX_EXTRACTION_ATTEMPTS
    BatchSize,    \* BATCH_SIZE
    NoRef,        \* a ref in a reply that names no message of the batch
    LongBatches,  \* may a batch in flight outlive STALLED_CLAIM_AFTER?
    Budget        \* how many times each kind of fault or owner request occurs

Kinds == {"crash", "net", "rate", "apply", "misread", "owner"}

ASSUME MessagesAssumption == Messages \subseteq Nat /\ IsFiniteSet(Messages)
ASSUME FlatsAssumption == FlatsOf \in [Messages -> SUBSET Flats]
ASSUME ChatterAssumption ==
    Chatter \subseteq Messages /\ \A m \in Chatter : FlatsOf[m] = {}
ASSUME UnreadableAssumption == Unreadable \subseteq Messages \ Chatter
ASSUME LimitsAssumption == MaxAttempts \in Nat \ {0} /\ BatchSize \in Nat \ {0}
ASSUME NoRefAssumption == NoRef \notin Messages
ASSUME BudgetAssumption == LongBatches \in BOOLEAN /\ Budget \in [Kinds -> Nat]

VARIABLES
    status,       \* whatsapp_messages.status
    attempts,     \* whatsapp_messages.attempts
    claimed_at,   \* its age: "none" (NULL), "fresh", "stale" (over 15 minutes)
    properties,   \* committed rows of properties that extraction created
    sources,      \* committed rows of property_sources
    run,          \* each worker's batch and uncommitted transaction
    owner,        \* an owner's reprocess request between its read and write
    budget        \* faults and owner requests still to come

vars == <<status, attempts, claimed_at, properties, sources, run, owner, budget>>

----------------------------------------------------------------------------
(* Rows *)

Terminal == {"extracted", "duplicate", "not_listing", "failed"}
Status == {"pending", "processing"} \cup Terminal
Age == {"none", "fresh", "stale"}

\* A property row: the flat, the message it was created from, and the worker,
\* because two workers may each insert a row for one flat of one message.
Property == [flat : Flats, origin : Messages, by : Workers]
Sighting == [prop : Property, msg : Messages]

\* One element of the list _align returns: the message it names, and whether
\* the model produced it (FALSE: the "no result returned" filler).
Reply == [ref : Messages \cup {NoRef}, read : BOOLEAN]
NoReply == [ref |-> NoRef, read |-> FALSE]

Stages == {"idle", "extracting", "applying", "reclaiming"}
Session ==
    [stage : Stages,
     batch : SUBSET Messages,               \* the rows claimed, or to reclaim
     held : [Messages -> 0..MaxAttempts],   \* attempts as the claim left them
     answer : [Messages -> Reply],
     todo : SUBSET Messages,                \* results still to apply
     settled : [Messages -> Terminal \cup {"open"}],  \* status not committed
     props : SUBSET Property,               \* inserted, not committed
     sights : SUBSET Sighting]              \* added, not committed

Idle == [stage |-> "idle", batch |-> {}, held |-> [m \in Messages |-> 0],
         answer |-> [m \in Messages |-> NoReply], todo |-> {},
         settled |-> [m \in Messages |-> "open"], props |-> {}, sights |-> {}]

OwnerIdle == [stage |-> "idle", ids |-> {}, seen |-> "pending", tried |-> 0]
OwnerRequest == [stage : {"idle", "one", "failed"}, ids : SUBSET Messages,
                 seen : Status, tried : 0..MaxAttempts]

TypeOK ==
    /\ status \in [Messages -> Status]
    /\ attempts \in [Messages -> 0..MaxAttempts]
    /\ claimed_at \in [Messages -> Age]
    /\ properties \in SUBSET Property
    /\ sources \in SUBSET Sighting
    /\ run \in [Workers -> Session]
    /\ owner \in OwnerRequest
    /\ budget \in [Kinds -> Nat]

\* A backlog: everything the gateway delivered, nothing looked at yet.
Init ==
    /\ status = [m \in Messages |-> "pending"]
    /\ attempts = [m \in Messages |-> 0]
    /\ claimed_at = [m \in Messages |-> "none"]
    /\ properties = {}
    /\ sources = {}
    /\ run = [w \in Workers |-> Idle]
    /\ owner = OwnerIdle
    /\ budget = Budget

inventory == <<properties, sources>>
queue == <<status, attempts, claimed_at>>

Spend(kind) == budget[kind] > 0 /\ budget' = [budget EXCEPT ![kind] = @ - 1]

\* Mutation of Refund: the greatest(..., 0) is forgotten.
RefundBelowZero(n) == n - 1

\* func.greatest(attempts - 1, 0)
Refund(n) == IF n > 0 THEN n - 1 ELSE 0

\* f with g on the messages of S
On(f, S, g) == [m \in Messages |-> IF m \in S THEN g[m] ELSE f[m]]
AllTo(f, S, v) == [m \in Messages |-> IF m \in S THEN v ELSE f[m]]
Exhausted(n) == n >= MaxAttempts

Refunded(S) == [m \in Messages |-> IF m \in S THEN Refund(attempts[m]) ELSE attempts[m]]

\* The messages of w's batch that go to the model.
Asked(w) == run[w].batch \ Chatter

----------------------------------------------------------------------------
(* run_batch: claim *)

\* Mutation of Claimable: rows another worker is processing are not left out.
ClaimableTwice ==
    {m \in Messages : status[m] \in {"pending", "processing"} /\ ~Exhausted(attempts[m])}

Claimable == {m \in Messages : status[m] = "pending" /\ ~Exhausted(attempts[m])}
Oldest(S, n) == {m \in S : Cardinality({k \in S : k < m}) < n}

\* The session after the claim: chatter is settled in it, and not committed.
Opened(batch) ==
    [Idle EXCEPT
        !.stage = IF batch \subseteq Chatter THEN "applying" ELSE "extracting",
        !.batch = batch,
        !.held = [m \in Messages |-> IF m \in batch THEN attempts[m] + 1 ELSE 0],
        !.settled = AllTo(Idle.settled, batch \cap Chatter, "not_listing")]

\* claim_pending commits the claim by itself, before anything is extracted.
Claim(w) ==
    /\ run[w].stage = "idle"
    /\ Claimable # {}
    /\ LET batch == Oldest(Claimable, BatchSize)
       IN  /\ status' = AllTo(status, batch, "processing")
           /\ attempts' = [m \in Messages |-> IF m \in batch THEN attempts[m] + 1
                                                             ELSE attempts[m]]
           /\ claimed_at' = AllTo(claimed_at, batch, "fresh")
           /\ run' = [run EXCEPT ![w] = Opened(batch)]
    /\ UNCHANGED <<inventory, owner, budget>>

----------------------------------------------------------------------------
(* run_batch: extract, and _release when that fails *)

\* items are in received_at order, so a message's index is its rank.
Position(m, asked) == Cardinality({k \in asked : k <= m})

\* _align: by ref, else by position when the counts agree, else no result.
Align(asked, n, raw) ==
    [m \in Messages |->
        IF m \notin asked THEN NoReply
        ELSE IF \E i \in 1..n : raw[i] = m THEN [ref |-> m, read |-> TRUE]
        ELSE IF n = Cardinality(asked)
        THEN [ref |-> raw[Position(m, asked)], read |-> TRUE]
        ELSE [ref |-> m, read |-> FALSE]]

Answered(asked) ==
    [m \in Messages |-> IF m \in asked THEN [ref |-> m, read |-> TRUE] ELSE NoReply]

GotAnswer(w, answer) ==
    run' = [run EXCEPT ![w] = [@ EXCEPT !.stage = "applying",
                                        !.answer = answer,
                                        !.todo = Asked(w)]]

\* The model answers every message, or (a misread) returns fewer results or
\* refs that did not round-trip.
Extracted(w) ==
    /\ run[w].stage = "extracting"
    /\ Asked(w) \cap Unreadable = {}
    /\ \/ GotAnswer(w, Answered(Asked(w))) /\ UNCHANGED budget
       \/ /\ Spend("misread")
          /\ \E n \in 0..Cardinality(Asked(w)) :
               \E raw \in [1..n -> Asked(w) \cup {NoRef}] :
                  GotAnswer(w, Align(Asked(w), n, raw))
    /\ UNCHANGED <<queue, inventory, owner>>

\* _release: rollback, then put the messages the model was asked about back,
\* whatever their status is by now.
Release(w, charge) ==
    /\ status' = [m \in Messages |->
                    IF m \notin Asked(w) THEN status[m]
                    ELSE IF charge /\ Exhausted(attempts[m]) THEN "failed"
                    ELSE "pending"]
    /\ attempts' = IF charge THEN attempts ELSE Refunded(Asked(w))
    /\ claimed_at' = AllTo(claimed_at, Asked(w), "none")
    /\ run' = [run EXCEPT ![w] = Idle]
    /\ UNCHANGED <<inventory, owner>>

\* Every configured model is out of allowance.
ExtractRateLimited(w) ==
    /\ run[w].stage = "extracting"
    /\ Spend("rate")
    /\ Release(w, FALSE)

\* Any other exception: the network, a refusal, or one message of the batch
\* that cannot be read, which raises for all of them.
ExtractFails(w) ==
    /\ run[w].stage = "extracting"
    /\ \/ Asked(w) \cap Unreadable # {} /\ UNCHANGED budget
       \/ Spend("net")
    /\ Release(w, TRUE)

----------------------------------------------------------------------------
(* run_batch: apply the results one by one, in one transaction *)

IsNext(w, m) == m \in run[w].todo /\ \A k \in run[w].todo : m <= k

\* Mutation of Visible: the flush after an insert is forgotten.
VisibleCommitted(w) == properties

\* What find_duplicate can see: live rows, and this session's flushed inserts.
Visible(w) == properties \cup run[w].props

Skipped(w, m) == [run[w] EXCEPT !.todo = @ \ {m}]

\* A result whose ref is not in by_id is skipped.
ApplySkips(w) ==
    /\ run[w].stage = "applying"
    /\ \E m \in run[w].todo :
          /\ IsNext(w, m)
          /\ run[w].answer[m].ref \notin Asked(w)
          /\ run' = [run EXCEPT ![w] = Skipped(w, m)]
    /\ UNCHANGED <<queue, inventory, owner, budget>>

\* Mutation of SightedRows: only inserted rows get a sighting.
SightedInserts(made, match) == made

SightedRows(made, match) == made \cup {match[f] : f \in DOMAIN match}

\* _attach_source leaves an existing (property, message) pair alone.
Unattached(seen) == seen \ sources

\* The session after the result at m, which lists flats of message t and
\* matched a row for those in DOMAIN match: record_listing inserts the others
\* and adds a sighting per flat unless it is committed or in this session.
Recorded(w, m, t, flats, match) ==
    LET new == flats \ DOMAIN match
        made == {[flat |-> f, origin |-> t, by |-> w] : f \in new}
        seen == {[prop |-> p, msg |-> t] : p \in SightedRows(made, match)}
    IN  [run[w] EXCEPT
            !.props = @ \cup made,
            !.sights = @ \cup Unattached(seen),
            !.settled[t] = IF flats = {} THEN "not_listing"
                           ELSE IF new = {} THEN "duplicate" ELSE "extracted",
            !.todo = @ \ {m}]

\* process_message.  Which of several rows for one flat matches is the scan
\* order of the database.
Apply(w) ==
    /\ run[w].stage = "applying"
    /\ \E m \in run[w].todo :
          LET reply == run[w].answer[m]
              t == reply.ref
              flats == IF reply.read THEN FlatsOf[t] ELSE {}
              known == {f \in flats : \E p \in Visible(w) : p.flat = f}
          IN  /\ IsNext(w, m)
              /\ t \in Asked(w)
              /\ \E match \in [known -> Visible(w)] :
                    /\ \A f \in known : match[f].flat = f
                    /\ run' = [run EXCEPT ![w] = Recorded(w, m, t, flats, match)]
    /\ UNCHANGED <<queue, inventory, owner, budget>>

\* uq_property_source: another worker committed a sighting this one also added.
Conflict(w) == run[w].sights \cap sources # {}

\* process_message raises: the whole transaction is rolled back, the message
\* is marked by the attempts read before (_mark_failed), and the next access
\* to a message the rollback expired raises out of run_batch.
ApplyFails(w) ==
    /\ run[w].stage = "applying"
    /\ \E m \in run[w].todo :
          LET t == run[w].answer[m].ref
          IN  /\ IsNext(w, m)
              /\ t \in Asked(w)
              /\ status' = [status EXCEPT ![t] =
                              IF Exhausted(run[w].held[t]) THEN "failed" ELSE "pending"]
              /\ claimed_at' = [claimed_at EXCEPT ![t] = "none"]
    /\ \/ Spend("apply")
       \/ Conflict(w) /\ UNCHANGED budget
    /\ run' = [run EXCEPT ![w] = Idle]
    /\ UNCHANGED <<attempts, inventory, owner>>

\* Mutation of Persisted: what an earlier extraction recorded is replaced.
PersistedAfresh(w) == {s \in sources : s.msg \notin run[w].batch} \cup run[w].sights

Persisted(w) == sources \cup run[w].sights

\* db.commit() at the end of run_batch.  The rows are written by primary key:
\* nothing checks that they are still claimed, or by this worker.
Commit(w) ==
    /\ run[w].stage = "applying"
    /\ run[w].todo = {}
    /\ ~Conflict(w)
    /\ LET done == {m \in run[w].batch : run[w].settled[m] # "open"}
       IN  /\ status' = On(status, done, run[w].settled)
           /\ claimed_at' = AllTo(claimed_at, done, "none")
    /\ properties' = properties \cup run[w].props
    /\ sources' = Persisted(w)
    /\ run' = [run EXCEPT ![w] = Idle]
    /\ UNCHANGED <<attempts, owner, budget>>

\* The commit hits uq_property_source: run_forever rolls back and carries on.
CommitConflicts(w) ==
    /\ run[w].stage = "applying"
    /\ run[w].todo = {}
    /\ Conflict(w)
    /\ run' = [run EXCEPT ![w] = Idle]
    /\ UNCHANGED <<queue, inventory, owner, budget>>

----------------------------------------------------------------------------
(* reclaim_stalled: select the stalled claims, then update those ids *)

\* Mutation of Stalled: only rows without a claim time are looked for.
StalledUnclaimed(m) == status[m] = "processing" /\ claimed_at[m] = "none"

Stalled(m) == status[m] = "processing" /\ claimed_at[m] # "fresh"

ReclaimSelect(w) ==
    /\ run[w].stage = "idle"
    /\ \E m \in Messages : Stalled(m)
    /\ run' = [run EXCEPT ![w] = [@ EXCEPT !.stage = "reclaiming",
                                           !.batch = {m \in Messages : Stalled(m)}]]
    /\ UNCHANGED <<queue, inventory, owner, budget>>

ReclaimUpdate(w) ==
    /\ run[w].stage = "reclaiming"
    /\ status' = AllTo(status, run[w].batch, "pending")
    /\ claimed_at' = AllTo(claimed_at, run[w].batch, "none")
    /\ attempts' = Refunded(run[w].batch)
    /\ run' = [run EXCEPT ![w] = Idle]
    /\ UNCHANGED <<inventory, owner, budget>>

\* Fifteen minutes pass.  Without LongBatches every batch in flight is faster.
ClaimAges(m) ==
    /\ claimed_at[m] = "fresh"
    /\ LongBatches \/ \A w \in Workers : m \notin run[w].batch
    /\ claimed_at' = [claimed_at EXCEPT ![m] = "stale"]
    /\ UNCHANGED <<status, attempts, inventory, run, owner, budget>>

\* The process dies, is suspended for good, or its loop catches an exception:
\* the open transaction is gone, what was committed stays.
Crash(w) ==
    /\ run[w].stage # "idle"
    /\ Spend("crash")
    /\ run' = [run EXCEPT ![w] = Idle]
    /\ UNCHANGED <<queue, inventory, owner>>

----------------------------------------------------------------------------
(* The owner's two buttons; each reads, then writes in a later statement *)

OwnerReadsOne(m) ==
    /\ owner.stage = "idle"
    /\ Spend("owner")
    /\ owner' = [stage |-> "one", ids |-> {m}, seen |-> status[m],
                 tried |-> attempts[m]]
    /\ UNCHANGED <<queue, inventory, run>>

\* reprocess_message.  The ORM writes only the columns whose value differs
\* from the one it loaded; claimed_at is never among them.
OwnerWritesOne ==
    /\ owner.stage = "one"
    /\ status' = IF owner.seen = "pending" THEN status
                 ELSE AllTo(status, owner.ids, "pending")
    /\ attempts' = IF owner.tried = 0 THEN attempts
                   ELSE AllTo(attempts, owner.ids, 0)
    /\ owner' = OwnerIdle
    /\ UNCHANGED <<claimed_at, inventory, run, budget>>

GaveUp(m) == status[m] = "failed" \/ Stalled(m)

OwnerReadsFailed ==
    /\ owner.stage = "idle"
    /\ \E m \in Messages : GaveUp(m)
    /\ Spend("owner")
    /\ owner' = [stage |-> "failed", ids |-> {m \in Messages : GaveUp(m)},
                 seen |-> "failed", tried |-> 0]
    /\ UNCHANGED <<queue, inventory, run>>

\* reprocess_failed
OwnerWritesFailed ==
    /\ owner.stage = "failed"
    /\ status' = AllTo(status, owner.ids, "pending")
    /\ attempts' = AllTo(attempts, owner.ids, 0)
    /\ claimed_at' = AllTo(claimed_at, owner.ids, "none")
    /\ owner' = OwnerIdle
    /\ UNCHANGED <<inventory, run, budget>>

----------------------------------------------------------------------------
OwnerWrites == OwnerWritesOne \/ OwnerWritesFailed

\* What a live worker does by itself.
Works(w) ==
    \/ Claim(w)
    \/ Extracted(w)
    \/ ExtractFails(w)
    \/ ApplySkips(w)
    \/ Apply(w)
    \/ Commit(w)
    \/ CommitConflicts(w)
    \/ ReclaimUpdate(w)

Next ==
    \/ \E w \in Workers :
          \/ Works(w)
          \/ ReclaimSelect(w)
          \/ ExtractRateLimited(w)
          \/ ApplyFails(w)
          \/ Crash(w)
    \/ \E m \in Messages : ClaimAges(m) \/ OwnerReadsOne(m)
    \/ OwnerReadsFailed
    \/ OwnerWrites

Spec == Init /\ [][Next]_vars

\* run_forever never stops polling, reclaims once a minute, and time passes.
\* Nothing is assumed of the faults or of the owner's first click; a request
\* that has read the database goes on to write it.
Fairness ==
    /\ \A w \in Workers : WF_vars(Works(w)) /\ WF_vars(ReclaimSelect(w))
    /\ \A m \in Messages : WF_vars(ClaimAges(m))
    /\ WF_vars(OwnerWrites)

FairSpec == Spec /\ Fairness

----------------------------------------------------------------------------
(* Safety *)

\* The flats message m is committed as a sighting of.
FlatsSeenIn(m) == {s.prop.flat : s \in {x \in sources : x.msg = m}}

\* "A crash halfway through a six-listing message cannot leave three orphans
\* behind" (ingestion.py): a message is in the inventory as a whole or not at
\* all, whatever worker died, however often it was claimed and by how many.
WholeMessages == \A m \in Messages : FlatsSeenIn(m) \in {{}, FlatsOf[m]}

\* A message the feed shows as extracted or merged has every one of its flats
\* in the inventory, with the message as a source, also after rewinds, double
\* claims and conflicting commits.
SettledIsRecorded ==
    \A m \in Messages :
        status[m] \in {"extracted", "duplicate"} => FlatsSeenIn(m) = FlatsOf[m]

\* Every sighting points at a property row that exists, and a row nobody is
\* recorded as having posted does not exist: inserting the row and its origin
\* sighting cannot be separated.
EveryRowIsSighted == properties = {s.prop : s \in sources}

\* The committed inventory is whole: whole messages, all that the feed shows as
\* settled, and no row without its sighting.
InventoryIsWhole == WholeMessages /\ SettledIsRecorded /\ EveryRowIsSighted

\* README: "Reposts of the same flat merge into one listing rather than
\* duplicating it".
OneListingPerFlat ==
    \A p, q \in properties : p.flat = q.flat => p = q

\* SKIP LOCKED is there so that two workers do not both hold the same rows.
NoDoubleClaim ==
    \A v, w \in Workers :
        /\ v # w
        /\ {run[v].stage, run[w].stage} \cap {"idle", "reclaiming"} = {}
        => run[v].batch \cap run[w].batch = {}

\* A message that is settled is taken up again only because the owner asked.
SettledStays ==
    [][\A m \in Messages :
          status[m] \in Terminal /\ status'[m] # status[m] => OwnerWrites]_vars

\* Whatever the workers do to each other, the inventory they leave behind is
\* one of MessageLedger: it grows by whole messages and loses none.
Ledger == INSTANCE MessageLedger
            WITH sightings <- {<<s.msg, s.prop.flat>> : s \in sources}
RefinesLedger == Ledger!Spec

----------------------------------------------------------------------------
(* Liveness *)

\* Every message of the backlog is settled in the end, and stays settled.
Drains == \A m \in Messages : <>[](status[m] \in Terminal)

\* Every message is settled in the end, none of them by way of another
\* settlement that only the owner may undo.
SettlesForGood == Drains /\ SettledStays

=============================================================================
