---------------------------- MODULE GatewayFeed ----------------------------
(***************************************************************************)
(* The road of a WhatsApp group message from the linked account to the     *)
(* table the extraction queue works on: the gateway process                *)
(* (gateway/src/index.js, ingest.js, backfill.js) with its journal on disk *)
(* and its watch list, and the two internal endpoints of                   *)
(* backend/app/routers/whatsapp.py it talks to.                            *)
(*                                                                         *)
(* The gateway is one Node thread: its handlers interleave only where they *)
(* await, so each action below runs from one await to the next.  ingest is *)
(* an async handler with no await after the body is read, in a single      *)
(* uvicorn process (render.yaml): two ingest requests never interleave.    *)
(***************************************************************************)
EXTENDS Integers, Sequences, FiniteSets, FiniteSetsExt, Functions

CONSTANTS
    Groups,           \* WhatsApp groups
    Messages,         \* text messages others post in them
    GroupOf,          \* the group of each message
    SentAt,           \* the second each is posted in
    Undated,          \* messages whose envelope carries no timestamp
    MaxMessageAge,    \* MAX_MESSAGE_AGE_MS
    BackfillMaxAge,   \* BACKFILL_MAX_AGE_MS
    BatchSize,        \* BATCH_SIZE of the gateway
    Horizon,          \* when the clock of the model stops
    InOrder,          \* does WhatsApp hand over each group's messages in order?
    LateAppends,      \* may an append fall between a reread's end and the rewrite?
    Budget            \* how often each kind of fault or request occurs

Kinds == {"crash", "torn", "lost", "deaf", "repeat", "owner"}

ASSUME MessagesAssumption ==
    IsFiniteSet(Messages) /\ GroupOf \in [Messages -> Groups]
ASSUME TimesAssumption ==
    SentAt \in [Messages -> Nat \ {0}] /\ Undated \subseteq Messages
ASSUME AgesAssumption ==
    MaxMessageAge \in Nat /\ BackfillMaxAge \in Nat /\ Horizon \in Nat \ {0}
ASSUME BatchSizeAssumption == BatchSize \in Nat \ {0}
ASSUME SwitchesAssumption == {InOrder, LateAppends} \subseteq BOOLEAN
ASSUME BudgetAssumption == Budget \in [Kinds -> Nat]

VARIABLES
    now,              \* the clock, in seconds
    offered,          \* messages WhatsApp has handed over at least once
    up,               \* is the gateway process running?
    watched,          \* its copy of the watch list
    listing,          \* a watch-list answer on its way to it
    journal,          \* the complete records of the outbox file, oldest first
    torn,             \* does the file end in a record cut short?
    flush,            \* flushOutbox between two awaits
    late,             \* ingest requests the gateway has given up on
    active,           \* whatsapp_groups.is_active, of rows not deleted
    last_message_at,  \* whatsapp_groups.last_message_at, 0 for NULL
    message_count,    \* whatsapp_groups.message_count
    stored,           \* rows of whatsapp_messages
    accepted,         \* (history) messages appendToOutbox has returned for
    ignored,          \* (history) messages ingest dropped: their group was off
    budget            \* faults and requests still to come

memory == <<up, watched, listing>>
disk == <<journal, torn>>
groups == <<active, last_message_at, message_count>>
database == <<groups, stored>>
history == <<accepted, ignored>>

vars == <<now, offered, memory, disk, flush, late, database, history, budget>>

----------------------------------------------------------------------------
Batches == Seq(Messages)

\* What watchEntry makes of a row: a group that is not there is off, and 0
\* stands for a null lastMessageAt.
Entry == [on : BOOLEAN, last : Nat]
WatchList == [Groups -> Entry]
NoEntry == [on |-> FALSE, last |-> 0]
Deaf == [g \in Groups |-> NoEntry]

\* A flush reads the journal into pending and sends it batch by batch; "sent"
\* is a request whose handler has not run, "answered" one that has.
Flush == [stage : {"idle", "ready", "sent", "answered", "rewriting"},
          pending : Batches, delivered : Nat, current : Batches]
NoFlush == [stage |-> "idle", pending |-> <<>>, delivered |-> 0, current |-> <<>>]

TypeOK ==
    /\ now \in 1..Horizon
    /\ offered \subseteq Messages
    /\ up \in BOOLEAN
    /\ watched \in WatchList
    /\ listing \in Seq(WatchList) /\ Len(listing) <= 1
    /\ journal \in Batches
    /\ torn \in BOOLEAN
    /\ flush \in Flush /\ flush.delivered <= Len(flush.pending)
    /\ late \subseteq Batches
    /\ active \in [Groups -> BOOLEAN]
    /\ last_message_at \in [Groups -> Nat]
    /\ message_count \in [Groups -> Nat]
    /\ stored \subseteq Messages
    /\ accepted \subseteq Messages
    /\ ignored \subseteq Messages
    /\ budget \in [Kinds -> Nat]

\* The gateway has started and fetched the list of the groups switched on.
Init ==
    /\ now = 1
    /\ offered = {}
    /\ up = TRUE
    /\ watched = [g \in Groups |-> [on |-> TRUE, last |-> 0]]
    /\ listing = <<>>
    /\ journal = <<>>
    /\ torn = FALSE
    /\ flush = NoFlush
    /\ late = {}
    /\ active = [g \in Groups |-> TRUE]
    /\ last_message_at = [g \in Groups |-> 0]
    /\ message_count = [g \in Groups |-> 0]
    /\ stored = {}
    /\ accepted = {}
    /\ ignored = {}
    /\ budget = Budget

Spend(kind) == budget[kind] > 0 /\ budget' = [budget EXCEPT ![kind] = @ - 1]

Of(g) == {m \in Messages : GroupOf[m] = g}

----------------------------------------------------------------------------
(* The watch list *)

\* gateway_groups, and watchEntry on each of its rows
ActiveGroups ==
    [g \in Groups |-> IF active[g] THEN [on |-> TRUE, last |-> last_message_at[g]]
                                   ELSE NoEntry]

\* refreshWatchedGroups: the API answers ...
RefreshAsks ==
    /\ up
    /\ listing = <<>>
    /\ listing' = <<ActiveGroups>>
    /\ UNCHANGED <<now, offered, up, watched, disk, flush, late, database, history, budget>>

\* ... and the answer arrives, or is lost: then the previous list is kept.
RefreshArrives ==
    /\ listing # <<>>
    /\ \/ watched' = listing[1] /\ UNCHANGED budget
       \/ Spend("lost") /\ UNCHANGED watched
    /\ listing' = <<>>
    /\ UNCHANGED <<now, offered, up, disk, flush, late, database, history>>

----------------------------------------------------------------------------
(* handleMessage *)

\* Mutation of Cutoff: the message after the watermark is skipped as well.
CutoffLater(g) ==
    IF watched[g].last = 0 THEN now - MaxMessageAge
    ELSE Max({watched[g].last + 1, now - BackfillMaxAge})

\* resumePoint of the group's entry
Cutoff(g) ==
    IF watched[g].last = 0 THEN now - MaxMessageAge
    ELSE Max({watched[g].last, now - BackfillMaxAge})

\* history: replayed by WhatsApp rather than live
Wanted(m, backfill) ==
    /\ watched[GroupOf[m]].on
    /\ IF m \in Undated THEN ~backfill ELSE SentAt[m] > Cutoff(GroupOf[m])

\* WhatsApp hands a posted message over, live or out of its history, and may
\* do so again; in order, the first time, when InOrder.
Offered(m) ==
    /\ up
    /\ SentAt[m] <= now
    /\ InOrder => \A k \in Of(GroupOf[m]) : SentAt[k] < SentAt[m] => k \in offered
    /\ IF m \in offered THEN Spend("repeat") ELSE UNCHANGED budget
    /\ offered' = offered \cup {m}

\* appendToOutbox.  A record appended to a file that ends in half a record
\* shares its line, and readOutbox skips the two of them.
Forward(m) ==
    /\ Offered(m)
    /\ \E backfill \in BOOLEAN : Wanted(m, backfill)
    /\ LateAppends \/ flush.stage # "rewriting"
    /\ journal' = IF torn THEN journal ELSE Append(journal, m)
    /\ torn' = FALSE
    /\ accepted' = accepted \cup {m}
    /\ UNCHANGED <<now, memory, flush, late, database, ignored>>

Skip(m) ==
    /\ Offered(m)
    /\ \E backfill \in BOOLEAN : ~Wanted(m, backfill)
    /\ UNCHANGED <<now, memory, disk, flush, late, database, history>>

----------------------------------------------------------------------------
(* flushOutbox *)

\* The first readOutbox.  The timer may find another flush in progress.
FlushReads ==
    /\ up
    /\ flush.stage = "idle"
    /\ journal # <<>>
    /\ flush' = [NoFlush EXCEPT !.stage = "ready", !.pending = journal]
    /\ UNCHANGED <<now, offered, memory, disk, late, database, history, budget>>

Delivered == flush.delivered = Len(flush.pending)
Batch == SubSeq(flush.pending, flush.delivered + 1,
                Min({flush.delivered + BatchSize, Len(flush.pending)}))

\* Mutation of Sent: a last, short batch counts as a full one.
SentFull == BatchSize

\* batch.length
Sent == Len(Batch)

FlushSends ==
    /\ flush.stage = "ready"
    /\ ~Delivered
    /\ flush' = [flush EXCEPT !.stage = "sent"]
    /\ UNCHANGED <<now, offered, memory, disk, late, database, history, budget>>

FlushAdvances ==
    /\ flush.stage = "answered"
    /\ flush' = [flush EXCEPT !.stage = "ready", !.delivered = @ + Sent]
    /\ UNCHANGED <<now, offered, memory, disk, late, database, history, budget>>

\* The request fails, its answer is lost, or the gateway waits no longer: all
\* of pending stays journalled.  A request on its way may still be handled.
FlushFails ==
    /\ flush.stage \in {"sent", "answered"}
    /\ Spend("lost")
    /\ \/ UNCHANGED late
       \/ flush.stage = "sent" /\ late' = late \cup {Batch}
    /\ flush' = NoFlush
    /\ UNCHANGED <<now, offered, memory, disk, database, history>>

\* The second readOutbox, to the end of the file ...
FlushRereads ==
    /\ flush.stage = "ready"
    /\ Delivered
    /\ flush' = [flush EXCEPT !.stage = "rewriting", !.current = journal]
    /\ UNCHANGED <<now, offered, memory, disk, late, database, history, budget>>

\* Mutation of Remaining: everything read is dropped, not what was delivered.
RemainingNone == <<>>

Remaining == SubSeq(flush.current, flush.delivered + 1, Len(flush.current))

\* ... and rewriteOutbox, in a later turn of the event loop.
FlushRewrites ==
    /\ flush.stage = "rewriting"
    /\ journal' = Remaining
    /\ torn' = FALSE
    /\ flush' = NoFlush
    /\ UNCHANGED <<now, offered, memory, late, database, history, budget>>

----------------------------------------------------------------------------
(* ingest *)

\* Mutation of Fresh: rows already stored are inserted again.
FreshAgain(batch) == {m \in Range(batch) : active[GroupOf[m]]}

Fresh(batch) == {m \in Range(batch) : active[GroupOf[m]] /\ m \notin stored}

\* What a batch adds to message_count: each line of a message that is new.
Occurrences(batch, g) ==
    {i \in DOMAIN batch : batch[i] \in Fresh(batch) /\ GroupOf[batch[i]] = g}

Stamp(m) == IF m \in Undated THEN now ELSE SentAt[m]
Stamps(batch, g) == {Stamp(m) : m \in Fresh(batch) \cap Of(g)}

\* Mutation of Watermark: the newest stamp of the batch replaces the old one.
WatermarkOfBatch(batch, g) ==
    IF Stamps(batch, g) = {} THEN last_message_at[g] ELSE Max(Stamps(batch, g))

Watermark(batch, g) == Max(Stamps(batch, g) \cup {last_message_at[g]})

\* A row that is there already would break the unique wa_message_id: the whole
\* request fails.  Messages of groups that are off are dropped and acknowledged.
Ingest(batch) ==
    /\ Fresh(batch) \cap stored = {}
    /\ stored' = stored \cup Fresh(batch)
    /\ message_count' =
         [g \in Groups |-> message_count[g] + Cardinality(Occurrences(batch, g))]
    /\ last_message_at' = [g \in Groups |-> Watermark(batch, g)]
    /\ ignored' = ignored \cup {m \in Range(batch) : ~active[GroupOf[m]]}
    /\ UNCHANGED <<now, offered, memory, disk, active, accepted, budget>>

IngestSent ==
    /\ flush.stage = "sent"
    /\ Ingest(Batch)
    /\ flush' = [flush EXCEPT !.stage = "answered"]
    /\ UNCHANGED late

IngestLate ==
    \E batch \in late :
        /\ Ingest(batch)
        /\ late' = late \ {batch}
        /\ UNCHANGED flush

----------------------------------------------------------------------------
(* The owner, the process, and time *)

\* add_group, update_group or remove_group
OwnerSwitches(g) ==
    /\ Spend("owner")
    /\ active' = [active EXCEPT ![g] = ~@]
    /\ UNCHANGED <<now, offered, memory, disk, flush, late, last_message_at,
                   message_count, stored, history>>

\* The process dies.  The journal stays; a request on its way may still be
\* handled; an append under way may leave half a record.
Crash ==
    /\ up
    /\ \/ Spend("crash") /\ UNCHANGED torn
       \/ Spend("torn") /\ torn' = TRUE
    /\ up' = FALSE
    /\ watched' = Deaf
    /\ listing' = <<>>
    /\ flush' = NoFlush
    /\ \/ UNCHANGED late
       \/ flush.stage = "sent" /\ late' = late \cup {Batch}
    /\ UNCHANGED <<now, offered, journal, database, history>>

\* main() fetches the watch list before it connects, and connects without it
\* when the API does not answer.
Start ==
    /\ ~up
    /\ up' = TRUE
    /\ \/ watched' = ActiveGroups /\ UNCHANGED budget
       \/ watched' = Deaf /\ Spend("deaf")
    /\ UNCHANGED <<now, offered, listing, disk, flush, late, database, history>>

Tick ==
    /\ now < Horizon
    /\ now' = now + 1
    /\ UNCHANGED <<offered, memory, disk, flush, late, database, history, budget>>

----------------------------------------------------------------------------
\* flushOutbox and the handler that answers it, turn by turn.
Flushes ==
    \/ FlushReads
    \/ FlushSends
    \/ IngestSent
    \/ FlushAdvances
    \/ FlushRereads
    \/ FlushRewrites

Next ==
    \/ RefreshAsks
    \/ RefreshArrives
    \/ \E m \in Messages : Forward(m) \/ Skip(m)
    \/ Flushes
    \/ FlushFails
    \/ IngestLate
    \/ \E g \in Groups : OwnerSwitches(g)
    \/ Crash
    \/ Start
    \/ Tick

Spec == Init /\ [][Next]_vars

\* The flush timer fires every three seconds, a started flush runs on, and a
\* gateway that died is started again.  Nothing is assumed of WhatsApp, of the
\* owner, or of requests the gateway has given up on.
FairSpec == Spec /\ WF_vars(Flushes) /\ WF_vars(Start)

----------------------------------------------------------------------------
(* Properties *)

\* "every message is appended to a journal on arrival and only removed once
\* the API has taken responsibility for it" (ingest.js): what was appended is
\* journalled, stored, or was refused because the owner had the group off.
NothingLost == accepted \subseteq Range(journal) \cup stored \cup ignored

\* gateway_groups hands out "the newest message this group has actually
\* stored", whatever the order of arrival and however often it was sent.
WatermarkIsNewest ==
    \A g \in Groups :
        last_message_at[g] = Max({0} \cup {SentAt[m] : m \in stored \cap Of(g)})

\* The count the owner is shown is the number of messages the group delivered.
CountsMessages ==
    \A g \in Groups : message_count[g] = Cardinality(stored \cap Of(g))

\* What the group's row says of its messages is exact.
GroupRowIsExact == WatermarkIsNewest /\ CountsMessages

\* A message inside every age window
Recent(m) == SentAt[m] > now - MaxMessageAge /\ SentAt[m] > now - BackfillMaxAge

\* "Already stored, or older than we are willing to reach back for"
\* (handleMessage): a recent message the gateway skips is stored, or was
\* refused because its group was off.
SkippedIsStored ==
    [][\A m \in Messages :
          /\ Skip(m)
          /\ watched[GroupOf[m]].on
          /\ Recent(m)
          /\ m \notin Undated
          => m \in stored \cup ignored]_vars

\* "A crash, an API restart or a long outage costs a replay, never data"
\* (ingest.js): what is journalled reaches the database in the end.
Delivers ==
    \A m \in Messages : m \in accepted ~> m \in stored \cup ignored

=============================================================================
