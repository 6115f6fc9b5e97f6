# A TLA+ development of the property CRM

The repository is a CRM for a real-estate brokerage. A Node *gateway* linked to
a WhatsApp account journals the posts of broker groups; a FastAPI *backend*
stores them and serves a Next.js *web application*; an *extraction worker* turns
stored messages into property listings with a language model; further parts
keep leads, tasks, users, reminders and a connection to Meta's ads.

Modelled here is what keeps state and what several actors touch at once: the
road of a message from WhatsApp to a listing, the road of an answered lead form
to a contact, signing in and staying signed in, the lead book with its
assignments and tasks, reminders, the connection to Meta and the campaigns made
through it. Sources are named relative to the repository
(`backend/app/ingestion.py` is `src/backend/app/ingestion.py`). `PROJECT.json`
maps every definition to the lines it models, and lists the hazards of the code
with the properties that watch them.

## 1. Inventory

### From WhatsApp to the inventory

**Gateway feed** - `gateway/src/index.js`, `ingest.js`, `backfill.js`, and the
internal endpoints `ingest` and `gateway_groups` of
`backend/app/routers/whatsapp.py`.
State: the journal file, the in-memory watch list, the flush in progress, each
group's `is_active`, `last_message_at`, `message_count`, the message rows.
Operations: refresh the watch list; receive a message live or out of history
and journal or skip it; flush the journal batch by batch; ingest; switch a
group on or off; crash and start.
Hard: the flush reads the file, awaits several requests, reads again, and
replaces the file while handlers append to it; answers are lost and requests
handled late; the resume point is a stale copy; messages come out of order.
Correct when: nothing journalled is lost, everything journalled is delivered,
the resume point is the newest stored message, and it skips nothing newer than
what is stored, nor, while messages come in order, anything that is not stored.

**Extraction queue** - `backend/app/ingestion.py`, `workers/whatsapp.py`, and
`reprocess_message` / `reprocess_failed` of `routers/whatsapp.py`.
State: each message's `status`, `attempts`, `claimed_at`; property rows and
their sightings (`property_sources`); each worker's uncommitted session.
Operations: claim a batch; extract; release on failure; apply results one by
one; commit; reclaim stalled claims; the owner's two reprocess buttons; crash.
Hard: the claim is committed long before the results, so status and claim age
are all that keeps workers apart; a slow worker outlives its claim; the unique
constraint on sightings turns up at the flush or the commit; rollbacks undo
more than the handler means.
Correct when: messages enter the inventory whole, settled messages are in it,
reposts merge, every message is settled in the end and can be claimed until
then, and one message has one worker.

**Pairing** - `gateway/src/index.js` (`connect`, `startFreshPairing`,
`pollCommands`, the watchdog, `main`'s retries), `pairing.js`, and
`request_pairing`, `cancel_pairing`, `gateway_commands` of
`routers/whatsapp.py`.
State: the session directory; `generation`, `socket`, `connected`,
`connectedAt`, `lastConnectionChange`, `repairing`, `lastPairAt`; the pending
request in the session row; the sockets that still exist.
Operations: connect; a socket shows a code, opens, drops, is logged out or
restarted, saves credentials; reconnect by timer, watchdog or retry; press,
cancel, poll, wipe and pair afresh; crash and start.
Hard: five callers of `connect`, which awaits; sockets that were superseded and
not closed; a request read long after it was made, or handed over and lost.
Correct when: no press wipes twice, none made to wake a dead gateway wipes at
all, a connected gateway has its session on disk, and a session the phone
accepts comes up by itself.

**Session reports and the pairing screen** - the calls of `reportSession`, the
heartbeat and the crash guards of `gateway/src/index.js`; `report_session`, `get_session` of
`routers/whatsapp.py`.
State: the gateway's state and the age of its code, the reports under way, the
session row. Operations: every change of state reports itself, a heartbeat
repeats it, the row is overwritten, the screen is computed from row and clock.
Hard: reports carry no number, overtake each other and get lost; a dead gateway
says nothing. Correct when: a state that lasts ends up on the screen, no spent
code is shown, what is gone is stale and what is up is not.

**Group directory and picker** - `syncDirectory` and `pollCommands` of
`gateway/src/index.js`; `request_group_sync`, `gateway_commands`,
`report_directory`, `available_groups` of `routers/whatsapp.py`.
State: candidates, watched groups, the press of Refresh, uploads under way.
Hard: a command is cleared as it is read, together with another; partial
uploads. Correct when: every press is answered by a list read after it or
excused by a loss the code accepts, and names do not disappear.

**Extraction client** - `backend/app/extraction.py`. State: cooldowns, schema
modes and the estimate kept for the life of the process; the batch being asked.
Operations: rotate on a rate limit, grow the ceiling, split, downgrade the
schema, match results to messages. Correct when: every message of a batch is
answered once and in order, or the call fails for a reason that is not ours.

**Extraction loops and the feed screen** - `run_forever` of
`workers/whatsapp.py`, the thread `lifespan` of `main.py` starts it in,
`heartbeat.py`, `ingestion_status` of `routers/whatsapp.py`.
State: each process's loop, the one heartbeat row they share. Operations: start
alone, in the API or once; beat; look for stalled claims; work; sleep; be asked
to stop; die. Hard: several loops write one row, a batch or a sleep keeps one
from beating, and a beat that fails is not missed. Correct when: who shows as
running was running, who works shows, and no batch begins unlooked for or
unasked.

**Property inventory, deduplication and merge** - `property_dedup.py`,
`record_listing` of `ingestion.py`, `routers/properties.py`.
State: property rows, sightings, listing counts, the workers' sessions.
Operations: score, merge or insert, commit; enter, edit, review, delete by hand.
Hard: a merge fills gaps of a row read before other commits. Correct when:
reposts merge, merges fill gaps only, counts are the rows that began in a group.

### Leads and the people who work them

**Lead book** - `routers/contacts.py`, `calls.py`, `showings.py`,
`activities.py`, `tasks.py`, `lead_batches.py`, handover and deactivation in
`users.py`; `scoping.py`, `rbac.py`, `dedup.py`, `lead_import.py`.
State: contacts with owner, stage, number and batch; assignments, each with a
task; call logs; timelines; who is active.
Operations: create, import, edit, move a stage (by hand, by a call, a showing, a
visit), write an activity down, reassign, set the assignees, hand a book over,
deactivate, delete.
Hard: every handler decides on what it read and writes later. Correct when: no
number is entered twice unawares, tasks follow assignments, leavers hold
nothing, timelines tell the stage as far as clocks date them, calls and visits
take no lead back, reports and queues agree with the book.

**Authentication sessions** - `security.py`, `routers/auth.py`, `users.py`,
`deps.py`. State: session rows, accounts, the handlers and their row locks.
Hard: a renewal issues while a revocation runs; several requests renew one
token; two transactions lock in opposite orders. Correct when: what is revoked
stays revoked, no chain of renewals outlives its cap.

**The browser's cookie** - `web/proxy.ts`, `web/lib/session.ts`, `web/lib/api.ts`,
`web/app/api/auth/*`, `web/app/(app)/layout.tsx`. State: one cookie, the tabs'
requests.
Hard: answers arrive late or not at all. Correct when: no renewal signs anybody
out, and a refused cookie never loops.

**Reminders and push** - `reminders.py`, `push.py`, `routers/tasks.py`,
`routers/notifications.py`. State: `due_at`, `notified_at`, subscriptions, what
a dispatcher has claimed. Hard: the claim is committed before the push; tasks
are moved meanwhile. Correct when: a reminder is claimed once for each time it
was set, and nothing due is forgotten.

### Meta

**Meta leads and webhook** - `backend/app/meta_leads.py`,
`routers/meta_webhook.py`, `sync_leads` of `routers/meta_ads.py`.
State: each lead's row (`status`, `attempts`, `contact_id`), the contacts made
of leads, the request or background task each database session is in.
Operations: receive a delivery and store what is new; process what was stored in
a background task; sync every form; retry what is pending; link or create a
contact; record a failure; crash.
Hard: deliveries, tasks and syncs overlap and nothing locks a lead; the status
was read long before it is written; background tasks die with the process.
Correct when: a lead becomes one contact and keeps it, a number in the CRM gets
no second contact, and every lead is converted or shown as failed.

**Meta connection, ads and reels
campaigns** - `routers/meta_ads.py`, `meta_ads.py`, `meta_reels.py`,
`meta_crypto.py`. State: the connection row with token, account, Page and OAuth
state; Meta's tokens and campaigns. Hard: every handler reads the row, talks to
Meta and then writes what differs from what it read; a campaign takes four
requests. Correct when: a login holds, spent states stay spent, a half-built
campaign is deleted.

### Not modelled

Listing normalisation (`listing_normalize.py`), voice notes, the audit log,
masking and serialisation, configuration and seed scripts, deployment: section 5
says why. The web application is modelled
as far as its cookie goes.

### How the components interact

The gateway and the API talk over HTTP only, always on the gateway's
initiative: it fetches the watch list and commands, posts messages, reports its
session, uploads its groups. API and workers talk through the database only:
`ingest` inserts pending messages, workers claim them, people edit the rows
workers merge into. Inside the gateway there is one thread, and everything
between two awaits is atomic. API handlers that are `async` and do not await
(ingest) are serialised by the single uvicorn process of `render.yaml`; the
others run in threads and interleave at every statement, each in a READ
COMMITTED transaction whose UPDATEs write the columns that differ from what was
read (`SessionLocal` has `autoflush=False, expire_on_commit=False`). Workers
interleave with everything at every commit. The browser reaches the API through
the web application's proxy, which renews the cookie on the way. Meta calls the
webhook, whose background task and the owner's sync call Meta back; they meet in
the lead rows. Leads of Meta's become contacts of the lead book.

## 2. Modules

| Module | Role |
|---|---|
| `ExtractionQueue` | the queue, its workers, the owner's buttons |
| `MessageLedger` | what the queue promises: an inventory that grows by whole messages |
| `ExtractionClient` | one call of the language model: rotation, growing, splitting |
| `Inventory` | what flats do to the rows: scoring, merging, manual work |
| `GatewayFeed` | journal, watch list, flush, ingest, owner, restarts |
| `Pairing` | sockets, the session on disk, pairing requests |
| `SessionScreen` | reports, heartbeat, the row, what the owner sees |
| `GroupPicker` | Refresh, the directory upload, the list |
| `MetaLeads` | webhook, background task, sync and retry on one lead |
| `MetaAds` | the OAuth round trip, the connection row, the reels campaign |
| `SessionRows` | a session row and what becomes of it: used by the next two |
| `Sessions` | login, renewal, logout, passwords, deactivation, statement by statement |
| `BrowserSession` | one browser, its tabs, its cookie |
| `Reminders` | dispatchers, pushes, edits of tasks, subscriptions |
| `LeadDesk` | contacts, assignments, tasks, calls, stages, handover |
| `Extractors` | the extraction loops, their heartbeat, the feed screen |
| `Office` | `BrowserSession`, `Reminders` and `ExtractionClient` beside each other |
| `Desk` | `LeadDesk`, `MetaAds`, `Inventory`, `SessionScreen`, `GroupPicker` and `Extractors` beside each other |
| `MCExtractionQueue`, `MCGatewayFeed`, `MCPairing`, `MCMetaLeads`, `MCSessions`, `MCOffice`, `MCDesk` | small instances for TLC |
| `ExtractionQueueProofs`, `GatewayFeedProofs`, `PairingProofs`, `MetaLeadsProofs`, `SessionsProofs`, `LeadDeskProofs`, `DeskProofs`, `OfficeProofs` | theorems and proofs |

Modules refer to each other where one abstracts another: `ExtractionQueue` knows
of `ExtractionClient` how a call ends, and of `Inventory` which flats are one;
`BrowserSession` takes a handler of `Sessions` as one step, over the same rows;
`GroupPicker` leaves it open whether a press of Connect is obeyed, which
`Pairing` decides; `SessionScreen` moves through the states `Pairing` produces;
a batch of `Extractors` takes time and ends, and `ExtractionQueue` says how.

`Office` and `Desk` put modules that share no state into one specification: the
variable `part` says whose behaviour it is, the others rest. That lets one run
check several modules, and one module of proofs prove about them; a theorem about
`DeskSpec` says of each part what a theorem about the part's own `Spec` would.

### ExtractionQueue

*State.* `status`, `attempts`, `claimed_at`, `properties`, `sources` are
committed rows. `run[w]` is worker `w`'s batch with everything its session has
done and not committed: statuses (`settled`), inserted rows (`props`), sightings
(`sights`). `owner` is a reprocess request between its read and its write.
A claim's age is `none`, `fresh` or `stale` (past `STALLED_CLAIM_AFTER`).

*Actions.* `Claim` is `claim_pending` with its own commit. `Extracted`,
`ExtractRateLimited`, `ExtractFails` are the three ends of the model call; the
two failures include `_release`, its rollback and its update. `ApplySkips`,
`Apply`, `ApplyFails` are one iteration of the apply loop each; `Apply` is
`process_message` with every `record_listing` and `_attach_source` it calls.
`Commit` / `CommitConflicts` end the batch. `ReclaimSelect` and `ReclaimUpdate`
are the two statements of `reclaim_stalled`, and each reprocess handler is a
read and a write. `Crash` loses a session; `ClaimAges` passes the timeout.

*Abstractions.* A flat stands for everything `property_dedup.py` compares, so
scoring is exact: two listings are duplicates when they are of one flat.
`SELECT ... FOR UPDATE SKIP LOCKED` and its update are one action: the locks
last to the commit. Which of several matching rows wins is a free choice.
`uq_property_source` is the guard `Conflict`: it fails a flush (`ApplyFails`) or
the commit. Group counters, parsing and normalising are left out. The backlog
is the initial state: arrivals add nothing the workers can tell from messages
not yet claimed. `SIGTERM` is a crash at a batch boundary.

### GatewayFeed

*State.* `journal` and `torn` are the outbox file: complete records, and whether
it ends in half a one. `flush` is `flushOutbox` between two awaits, `late` the
requests the gateway has given up on and the API may still handle, `listing` a
watch-list answer on its way. `accepted` and `ignored` are history variables.

*Actions.* `Forward` / `Skip` are `handleMessage` by its outcome; `Offered` is
WhatsApp. `FlushReads`, `FlushSends`, `IngestSent`, `FlushAdvances`,
`FlushRereads`, `FlushRewrites` are the turns of one flush, `FlushFails` its
catch. `IngestLate` is a request handled after its gateway gave up or died.
`Crash` covers signals and kills alike: `shutdown` starts a flush, which
returns at once when one is running, and exits. `Start` is `main`, with or
without an answer from the API.

*Abstractions.* A message is its group and its second. `WatermarkIsNewest` and
the resume point use seconds; the age windows are constants of the same unit.
A journal is a sequence of messages: JSON and line splitting are left out but
for a torn last line. An API that refuses a record for ever is not modelled.
`LateAppends` says whether an append may fall between the last line of the
second read and the rewrite (it can: see the findings).

### Pairing

*State.* `sockets` holds every socket that exists, with its credentials and how
far it has come; `mine` says whether its generation is still the newest, `held`
whether the variable `socket` refers to it. `loading` holds the calls of
`connect` that await. `disk` is the session directory, `linked` what the phone
accepts. `pressed` is `pair_requested_at`, `claimed` what has left the API.

*Actions.* `Connect` is the synchronous start of `connect`, part of each of its
callers (`MainRetries`, `TimerFires`, `Watchdog`, `RestartRequired`,
`StartsFreshPairing`, `Start`); `SocketMade` and `ConnectThrows` are its two
ends. `ShowsCode`, `Opens`, `Drops`, `LoggedOut`, `RestartRequired` are the
branches of the `connection.update` handler, with a superseded socket's events
ignored, and `LoggedOut` gives up the variable `socket`; `SavesCreds` and `Scan`
write the session, which no generation guards.
`PollClaims` is the API's half of a poll, `PollIgnores` and `StartsFreshPairing`
the gateway's, `PollLost` an answer that does not arrive.

*Abstractions.* Of a generation only "newest or not" matters, of an instant only
its order against `startedAt` and `connectedAt`; the clocks of API and gateway
are taken to agree. `stalled` and `cooling` say that two minutes, or the
cooldown, have passed; two minutes outlast one call of `connect` and the
five-second timer, but not `main`'s attempts. A call of `connect` reads the
session before or after a change made meanwhile. What the gateway reports
is in `SessionScreen`, the group-sync command in `GroupPicker`.

### MetaLeads

*State.* `status`, `attempts`, `contact_id`, `contacts` are committed rows.
`run[p]` is what database session `p` is in: the webhook's loop (`receive`), its
background task, the loop of `sync_forms` or that of `retry_pending`, with the
lead in hand as it was read. `row` and `known` are the one row a sync reads out
of its identity map and not out of the database (`expire_on_commit=False`).
`shared` is history: leads taken in hand while another session had them, or one
with their number, or from a row that was out of date.

*Actions.* `Looks` is the search for the `leadgen_id`, `Inserts` / `InsertFails`
the insert and its commit. `Reads`, `Searches`, `Converts` are `process_lead` at
its three statements; `Fails` is any exception with the rollback and the reading
again in `_mark_failed`, `MarksFailed` its commit. `Answers` starts the
background task, `Retries` is the selection of `retry_pending`. `Crash` ends
every session and keeps every row.

*Abstractions.* A lead's answers are its telephone number: `convert` acts on an
exact match of numbers only. Which of several matching contacts wins is free.
Contacts made or changed elsewhere, names, the five best candidates that
`find_duplicates` keeps, budgets and notifications are left out. `Fails` stands
for Meta, the token, the connection and the mapping alike.

### ExtractionClient

*State.* `per_item`, `modes`, `ready` are the fields kept between batches; `call`
is `extract` with the pieces still to be asked. *Actions.* `Extract` begins a
batch; `SkipsModel`, `AsksModel`, `GivesUp` go through the models; each end of a
request is an action: `Limited` cools the model and moves on, `TooLarge` splits,
`CutOff` asks with twice the room or splits, `Downgrades` drops the schema,
`RefusedAgain` and `Breaks` fail the call, `Answered` keeps the piece. *Abstractions.* A
message is the room it needs; the estimate of a prompt is left out; waits are a
small set with the code's clamp. `unlucky` is history: refusals of the request
that follows a downgrade, which the code raises as they are.

### Inventory

*State.* Committed rows, sightings and counts; `tx[w]` is a worker's session
with the rows as read (`base`), as changed (`copy`), and new ones. *Actions.*
`Begin` and `Take` open
a session and take up a message; `Merge` or `Insert` is `record_listing` for its
next flat, `Commit` writes the columns that differ from what was read; `Create`,
`Edit`, `Review`, `Delete` are a person's requests, `Answer` their commit.
*Abstractions.* Facts are small numbers and names, `token_set_ratio` is the
constant `Similar`; a bhk of 0 is unknown; ties are free; row locks are left
out, which only allows more orders. `find_duplicate` looks at the 60 newest rows
that compete for a flat (`CANDIDATE_LIMIT`), and past that a repost can become a
second row: the limit is left out, so what is said of reposts is said of places
with no more rows than that. The search and the row that `db.get` reads again by
its id (`ingestion.py:256`) are two statements of a READ COMMITTED transaction
and one step here. A commit between them, which changes or deletes the row that
was scored, is left out; `loose` names rows that change from then on.
*Assumed.* A name is wholly like itself (`NamesAreReal`), postings are what
`build_facts` lets through (`PostsAreReal`), and people leave a row a row
(`DeedsAreReal`).

### SessionScreen

*State.* `gate` is the gateway, `air` the reports under way, `row` the session
row; time is kept as ages in ticks of ten seconds. *Actions.* Every place that
reports (`QrShown`, `Opened`, `Connecting`, `Closed`, `Repairs`, `ConnectFails`,
`Carries` for a crash guard, `Heartbeat`), `Arrives`, `Lost`, `Dies`, `Starts`.
*Assumed.* A report travels at most `Delay` (the client sets no timeout of its
own) and WhatsApp replaces a code within `Rotation`. Number, name and error text
are left out.

### GroupPicker

*State.* What the account is in, what the database lists, `wants` (the two
pending presses), `poll` (what a request has read and not committed), answers
and uploads under way. *Actions.* The presses, `ClaimReads` / `ClaimCommits` of
`gateway_commands`, `Obeys`, `Opens`, `Arrives`, `Watches`, losses. The
20-second limit of a sync never applies, as every caller forces it.

### Extractors

*State.* `loop[p]` is a process: started for ever or once, where its pass is, how
long the batch has taken, since when no stalled claim was looked for, what is
left of a sleep, whether the last beat was written. `beat` is the row of
`worker_heartbeats`; time is kept as ages in ticks of thirty seconds. *Actions.*
`Starts` is `main` or `lifespan`, `AskedToStop` a signal or lifespan's end,
`Dies` a kill; `Top`, `Beats`, `GoesOn`, `Pauses`, `IsLimited`, `Wakes` are one
pass of `run_forever` (with its catch-all: `Pauses`); `Tick` lets time pass where
the loop spends it. `Running` is what the screen says. *Assumed.* A batch and the
pause after an error fit into `STALE_AFTER` (`BatchesAreShort`), as the comment
there says. *Abstractions.* `IDLE_SLEEP_SECONDS` is less than a tick.

### MetaAds

*State.* `row` is the connection, `token` and `campaign` are Meta's side,
`request[q]` a handler between its read and its commit with the row as read and
as wanted. *Actions.* Start, callback, choice of account and Page, disconnect, a
call whose token is refused (`_mark_reauth`), switching a campaign, and the reels
campaign step by step with its compensation. Each commit writes the columns that
differ from the copy read. *History.* `torn` says that a commit fell upon a row
changed since its read; `cut` names campaigns whose making broke off.

### Sessions and SessionRows

*State.* `account` (active, times revoked), `session` (rows in order of
insertion), `request` (per handler: where it is, what it has read). *Actions.* A handler
is cut at every statement where another may come between; an UPDATE holds its
rows to the commit (`HoldsUser`, `HoldsRow`), and a handler goes on when it is
`Free`, with the snapshot its statement started from. Two that wait for each
other are a deadlock, of which the database aborts one (`DeadlockAborts`); a
property names the only pair that can. *Abstractions.*
Time counts in grace periods and the three periods keep their order only;
hashing and encoding are left out; a refused request changes nothing.

### BrowserSession

*State.* The browser's `jar`, per tab the request under way with the cookie it
was sent with and the one its answer will set. *Actions.* Signing in and out,
opening a page (`proxy.ts` with its renewal, the layout's check, the `expired`
route), changing the password, answers arriving or lost (`Abandon`). `lost` is
history: tokens whose successor never reached the browser, and so is `since`,
the minute the jar's token was issued in, from which its age is told.

### Reminders

*State.* Tasks with `due_at` and `notified_at`, subscriptions, each dispatcher's
claims, each editor's copy. *Actions.* `Dispatch` is the claim (one step: `FOR
UPDATE SKIP LOCKED` to its commit), then one push or passing-over at a time;
`Breaks` a crash or an exception; `EditReads` / `EditWrites`; subscribing,
unsubscribing, the test push, a browser dropping its subscription.

### LeadDesk

*State.* `contact`, `assignment`, `task`, `call`, `active`, and per handler what
it was asked and has read. *Actions.* `Begin` is the first half of every handler
- capability, visibility, checks, reads; one action per kind of request is the
second, with all it writes: `Create`, `Import`, `SetStage`, `Show`,
`CreateActivity`, `Call`, `SetPhone`, `Reassign`, `Delete`, `Scan` and `Assign`
(the two halves of `set_assignees`), `Handover`, `SetActive`, `SetTask`,
`OwnTask`. *Abstractions.* Duplicates are told by number (the fuzzy match on names
finds more candidates, no fewer); a contact is its owner, stage, number and
batch; a handler that refuses has no action. A create begins in `new`: one with a
stage of its own hands the model class the keyword twice and fails
(`contacts.py:219-231`).

*Dates.* The timeline goes by `occurred_at`, and each handler fills it in its own
way. `update_contact` and `log_showing` leave it to the database, whose `now()`
is the beginning of the transaction: the check of the credentials
(`current_principal`), some time before the handler reads the lead (`BeganIn`).
`create_activity` takes the client's date, any of `Dates`, which may lie in the
past or the future, or else the clock while it runs, any instant between its beginning and its commit
(`Occurred`). `log_call` moves a new lead without an event. A visit that moves
nothing, and the showing itself, tell no stage; a `stage_change` that somebody
writes down through `POST /activities` tells one and moves nothing. A call log,
and so which call is a lead's last, goes by the beginning of its transaction. The
clocks of API and database are taken to agree.

*History.* `since`, `began`, `forced` say when a contact got its number, when
that was asked and whether on purpose; `told` and `toldAt` are the stage the
newest telling event names and its date, `byhand` that people have dated or
written such an event, `moved` when the stage was last written; `late` names
leads given to somebody who had left, `crossed` those whose stage was last moved
by a transaction that had begun, or read it, before somebody else moved it.

## 3. Checks

`CHECK_DEADLOCK FALSE` is set where there is really nothing left to do: a
drained queue with its faults spent, an idle feed whose clock has stopped, an
account that stays connected, and behaviours whose requests are used up.

| Run | Question | Bounds |
|---|---|---|
| `QueueOneWorker` | Do reposts merge, does what is settled stay settled, is everything settled in the end? | 4 messages (two postings of a flat, chatter, one unreadable), batches of 2, 2 attempts; one crash, misread, unappliable result, owner request |
| `QueueTwoWorkers` | Does the inventory stay whole, and is it a `MessageLedger`, with two workers that outlive their claims? | 2 messages sharing a flat, one of two flats; one crash, owner request, unappliable result; workers symmetric |
| `QueueTwoLive` | Do workers within the timeout ever share a message? | 4 messages, batches of 1, two network failures, two rate limits |
| `FeedAnyOrder` | Is anything journalled lost, late or miscounted? | 3 messages, 2 groups, 2 seconds, batches of 2; one crash, lost answer, failed restart, owner switch |
| `FeedInOrder` | Does the resume point skip only what is stored? | 3 messages a second apart, one undated; one crash, lost answer, repeat |
| `PairingLinks` | Does a press ever wipe too much or twice, can a wiped session's sockets confuse the gateway, does it recover by itself? | one press, one scan, two mishaps |
| `MetaOneContact` | Does a lead, or a number, ever get a second contact or lose the one it has, and does every lead settle? | 2 leads of one number, 2 sessions, 2 attempts; any number of deliveries and syncs, two failures, one crash |
| `Accounts` | Does anything survive a revocation or its cap, and which handlers can deadlock? | an owner and an agent signed in, 2 handlers, 4 sessions, one revocation each, 3 grace periods |
| `Office` | Does the browser stay signed in and off redirect loops; is every reminder claimed once per setting and nothing due forgotten; does every call of the model end well? | 2 tabs, 3 sessions, one fault; 2 tasks, 2 devices, 2 dispatchers, one edit, one mishap; 2 models, batches of 1 to 4 |
| `Desk` | Do the book, its tasks, timelines, reports and queues agree; does the connection hold; do reposts merge; does the screen settle; is every Refresh answered; is what the feed screen says of the loops so? | 3 requests of 3 roles on 2 leads, 2 at a time, 25 kinds of request, two dates people enter; 4 requests on the connection, one campaign; 2 workers, 3 posts, one deed by hand; 2 reports and 2 uploads under way; 2 processes, 2 starts, batches of up to a minute, a rate limit of 150 seconds |
| `QueueDuplicates` | the finding below | 2 workers, 2 postings of one flat |
| `FeedFlushRace` | the finding below | an append may fall late |

In `Office` and `Desk` each part is explored in full and none is multiplied with
another.

Why these bounds are enough to meet the hard cases: two messages that share one
of two flats give partial matches, conflicts on one sighting and on one flat;
two attempts are the smallest cap at which a retry and the cap differ; three
messages in batches of two give a full batch, a short one and a flush that is
cut between them; one fault of each kind meets every stage, and faults of
different kinds meet in every order; two leads of one number are the fewest that
can be linked, two sessions the fewest that can meet. Two handlers are what a
race and a deadlock need, and a third request of the day shows what a race has
left behind; one revocation is the first, and the cap is passed in three ticks.
Five rows of an import over three recipients make shares that differ. A flat's
posting with less, one with more and another flat of the same building's
locality give a merge, a gap filled and a reject. The theorems of section 4
remove the bounds for most of it.

*Symmetry* is over workers, handlers and processes only, in runs without
liveness. In `Desk` all pairs change places at once: no part has more than one of
them at work, so that finds the same states alike, at less cost.

*Mutants.* Beside each mapped operator that a property watches, its module
defines the bug the property is there to find (`ClaimableTwice`,
`RemainingNone`, `OrphanedNone`, `DealtInSlices`, ...); with the mutant in place
of the operator TLC finds the property violated in the same run.

*What the properties except.* Some races go wrong in the code, or may; the property
about them says so by a history variable, and claims nothing of what that names.
It should not be read as if the race were covered.

| Excepted | By | What is left of the property |
|---|---|---|
| leads, or numbers, that two sessions have in hand at once get two contacts | `shared` | repeats one after the other, however delayed, link |
| a session issued by a renewal while the user's sessions are revoked stays | `raced` (`Sessions`) | what stood before, and what comes after, a committed revocation |
| a reminder moved while it is claimed may stay unarmed; a crash loses what was claimed | `raced` (`Reminders`), `lost` | never claimed more often than set; stale ones and dead devices lose nothing |
| two overlapping creates of one number both succeed | `began` | numbers in the book before the request began |
| what is given or reopened to somebody who has left | `late` | the rest of the book is handed over |
| two transactions that move a lead at once; dates and stage changes by hand | `crossed`, `byhand` | timelines kept by clocks, one mover at a time or after |
| a lead moved after a call or visit had read its stage | `moved` | no call or visit takes back a lead it has seen further |
| the connection row once a commit fell upon a changed one | `torn` | spent states stay spent in any case, and the row until then |
| a campaign whose making broke off | `cut` | what can be refused by Meta is undone |
| counts of groups whose batches overlapped; rows changed by people or under a merge | `lapped`, `loose` | merges write gaps only, in any case |
| presses of Refresh that were ignored, cooling or lost | `excused` | every other one is answered by a later list |
| claims that get stale | `QueueTwoLive` has none | two workers in time; what late ones do is `QueueTwoWorkers` |

*Fairness.* Queue: each worker's loop runs, the reclaim of stalled claims comes
round (`run_forever` polls for ever and reclaims every minute), time passes, and
a handler that has read goes on to write; of faults, rate limits and the owner's
clicks nothing is assumed. Feed: the three-second timer flushes, and a process
that died is started again (launchd or systemd, `gateway/install-autostart.sh`);
nothing is assumed of WhatsApp, the owner or abandoned requests. Pairing:
`connect` returns, timers and the watchdog fire, the process is started again,
and the newest socket opens if it can again and again (strong fairness: the
watchdog may replace a socket before it opens, but leaves each two minutes).
Meta leads: a request or task that runs goes on, and, for `EveryLeadSettles`
only, the owner presses sync again and again - nothing in the code retries by
itself. Browser: whoever has a cookie goes on opening pages, and pages are
answered. Reminders: the dispatcher's loop comes round (`main.py` starts it with
the API) and handlers finish.

### Findings: where the code and its own words part

Each has a run that TLC ends with a counterexample.

- `QueueDuplicates` - with two workers, two postings of one flat extracted at
  the same time both become listings (no lock, no unique key), though
  starting a second worker is the documented way to scale.
- `FeedFlushRace` - a record appended between the end of the second read and the
  rewrite is lost.

### Seen on the way

Without a run of their own; where a property would state one of them, its
statement or the module's history variables say what is excepted.

*Gateway.* After a torn append the next record shares its line and both are
skipped (`ingest.js:153`; the model has it, budget `torn`). `main`'s loop
connects again without looking: after two minutes of failures the watchdog may
connect during a wait, and the retry replaces the live socket without closing it
(`index.js:802`). A socket superseded while it loads writes a wiped session back
when it opens. A live message moves the resume point past older ones that
history has not delivered; of two messages of one second the later is skipped
once the first is stored; after a restart with the API down the watch list is
empty (`index.js:243`). The crash guards report the state without a code and
blank a QR the heartbeat's comment says must not be blanked (`index.js:851`,
`773-777`). "Connecting re-syncs the directory anyway" (`index.js:613`) does not
hold when the press is ignored or cooling: the Refresh claimed with it is
dropped. A heartbeat carries no `last_error`, so an error shows for half a
minute.

*Queue and inventory.* With two workers `_mark_failed` decides by attempts read
at the claim, and a message can be pending at the cap, where nobody claims it;
one result that cannot be applied rolls back those before it; a result placed by
position is later looked up by its foreign ref and dropped; chatter of a batch
whose extraction fails waits for the reclaim; `reclaim_stalled` can release a
message claimed between its two statements; a message twice in one payload is
counted twice. A rate limit on the second request after a schema downgrade is
raised as it is and charged (`extraction.py:698`); a message grown by doubling
past the allowance fails though room in between would do; `OUTPUT_PER_ITEM_CAP`
does not keep batches of six or more off the ceiling. A model named twice in the setting
makes the wait the client asks for too short by the time between the two tries;
`WaitIsEnough` is proved for a list without repetitions. A worker's gap fill can
overwrite a person's concurrent edit of a blank; `listing_count` loses
increments when batches of a group overlap; nothing records a price change
("handled by the caller", `property_dedup.py:300-301`); `find_duplicate` looks at
live rows, so a repost after a soft deletion arrives as new inventory, which
`delete_property` says it avoids; `PATCH review_state="rejected"` leaves the
listing live.

*Loops.* `heartbeat.py:27-34` says that a working process is never mistaken for a
dead one; a loop that waits out a rate limit sleeps for up to 300 seconds
(`extraction.py:356`, `workers/whatsapp.py:126-130`) and is believed for 120, so
the feed screen shows a healthy worker as stopped. `LiveIsRunning` excepts it.

*Leads.* `process_lead` decides by the status it read: a sync's retry takes up
the lead another session is converting, and both make a contact
(`meta_leads.py:312`). A lead that failed for good is retried by nothing; an
insert that fails on `leadgen_id` takes the background task of the leads stored
before it; `find_duplicates` keeps five candidates, and five of the very same
name hide the one with the number. Two overlapping creates of one number both
succeed; a `phone` edit is not screened. `reassign_leads` moves what has a stage
other than closed and lost, and misses a NULL; leads with a NULL stage are in no
queue. A stage written from an old read can undo "closed and lost leads stay
put". Numbers an assignee's colleague found dead stay in the assignee's queue.
`reassign`, handover and deletion leave the previous assignee's tasks. Nothing
checks that the `owner_id` of a create or an edit is active. An "inquired"
showing reopens a closed lead. The newest event of a timeline need not be the
stage: where two transactions move a lead at once, where a visit is entered with an
earlier date (it moves the lead and sorts behind what is there) or a later one,
where a `stage_change` is written through `POST /activities`, which moves nothing,
and after a first call, which moves the lead and says nothing. `POST /contacts`
with a stage fails (`contacts.py:219-231`).

*Sessions and reminders.* A lost answer of a renewal ends the session after the
grace period (`proxy.ts:57-58`); `/api/auth/expired` deletes a newer good cookie;
logout and "your password is unchanged" (`change-password/route.ts:51`) do not
hold when the API's answer is lost. The "exactly-once" of `reminders.py:9` is
at most once: a crash after the claim loses the push; a dropped subscription is
committed only if something was sent (`push.py:87-95`); `update_task` on a stale
read loses the reset of `notified_at`.

*Meta ads.* A reel's ad set and ad are created PAUSED and only the campaign is
switched on, so "ads start spending again" never comes true
(`routers/meta_ads.py:804`). "A half-built structure is never left"
(`meta_reels.py:215-217`) excepts a refused token, a timeout, a failed deletion;
the creative stays. Overlapping callback, disconnect and refused call leave a
fresh token under another status; two callbacks that have both read one state
are both accepted; a late callback clears the state of a newer
start; signing in as somebody with several Pages keeps the old Page.

## 4. Proofs

| Module | Theorem | Says | Assumes, besides the modules' named assumptions |
|---|---|---|---|
| `ExtractionQueueProofs` | `TypeCorrect` | `TypeOK` | |
| | `MessagesAreWhole`, `SettledMessagesAreRecorded`, `RowsAreSighted`; together `CommittedIsWhole` | `InventoryIsWhole` | |
| | `QueueRefinesLedger` | the queue implements `MessageLedger` | |
| | `OneWorkerOneListing` | `OneListingPerFlat` | a single worker |
| | `OneWorkerSettles` | `SettledStays`, the safety half of `SettlesForGood` | a single worker |
| | `WorkersKeepApart` | `NoDoubleClaim` | `ClaimsAreGivenBack`: batches end before their claims are stale; of faults only failing and rate-limited calls, and those only where a backlog has no chatter; no request of the owner |
| `GatewayFeedProofs` | `JournalLosesNothing` | `NothingLost` | `~LateAppends`, no torn record |
| | `TypeCorrect` | `TypeOK` | |
| | `RowIsExact` | `GroupRowIsExact` | every message dated, none handed over twice |
| | `NothingNewerSkipped` | `SkipsNothingNewer`: a gateway that watches a group skips of it no recent message newer than all that is stored | |
| `PairingProofs` | `TypeCorrect` | `TypeOK`: one newest call or socket | |
| | `ConnectedKeepsSession` | `ConnectedHasSession` | |
| | `WipesArePaid`, `WakeUpIsHarmless`; together `WipesOnlyWhenAsked` | `WipesAreAsked` | |
| `MetaLeadsProofs` | `TypeCorrect` | `TypeOK` | |
| | `RepeatsLink` | `RepeatsAreLinked` | |
| | `LeadsKeepContacts`, `ConversionStays`; together `ConversionsHold` | `ConversionHolds` | |
| `SessionsProofs` | `TypeCorrect` | `TypeOK` | |
| | `RevokeIsComplete` | `RevokeAllIsComplete` | |
| | `TokensAllDie` | `TokensDie`: caps, supersession, refusals | |
| | `DeadlocksAreKnown` | `DeadlocksNeedDeactivation` | |
| `LeadDeskProofs` | `TypeCorrect` | `TypeOK` | |
| | `NumbersEnteredOnce` | `NoSilentDuplicate` | |
| | `WorkFollows` | `WorkFollowsAssignment` | |
| | `LeaversAreRelieved` | `LeaversHoldNothing` | |
| | `JourneyIsTrue` | `JourneyHolds`: `TimelineTellsStage` and `NobodyGoesBack` | |
| | `ListsTellTheBook` | `ListsAgree`: reports, call queue, shares | `BookAssumption`: it takes a call to flag an imported number |
| `DeskProofs` | `DeskIsTyped` | `DeskTypeOK` | all of those below |
| | `TheConnectionHolds` | `ConnectionHolds` | `LoginsAreReal` |
| | `HalfBuiltCampaignsGo` | `HalfBuiltIsDeleted` | `LoginsAreReal` |
| | `RepostsMergeAndCount` | `InventoryHolds` | `NamesAreReal`, `PostsAreReal`, `DeedsAreReal` |
| | `ScreensSaySo` | `ScreenHolds` | both `TimesAreReal`, `ProcessesAreReal`, `BatchesAreShort` |
| | `PickerIsSound` | `PickerHolds` | |
| `OfficeProofs` | `OfficeIsTyped` | `OfficeTypeOK` | |
| | `RemindersAreSentOnce` | `EachReminderOnce` | `TasksAreReal` |
| | `RenewalSignsNobodyOut` | `RenewalEndsNothing` | `LifetimeAssumption` |
| | `CallsAnswerForAll` | `NothingDropped`, `ChargedFairly`, `AsksForLess`: all of `CallsEndWell` but the wait | `SizesAssumption` |
| | `CallsTellTheTruth` | `CallsEndWell` | no model is named twice |

They hold for every number of messages, workers, groups, credentials, leads,
sessions, accounts, staff, logins, tasks, devices, dispatchers, rows, posts,
models and requests, every batch size, cap, lifetime, delay and budget. The
assumptions are on what the program does not choose - what Meta returns, that a
name is like itself (`token_set_ratio`), that a posting has a type and a place
(`build_facts`), that a batch is shorter than its timeout - and on the order of
its time constants; the module that declares a constant states them, and TLC
evaluates them in the runs.

*The queue.* None of the three inventory invariants is inductive: they speak of
committed rows, and what a commit adds was put together over many steps while
other workers committed. The inductive invariant adds, for every worker, that
its session is sound (`Sound`): what the session has settled as extracted or
duplicate has all its flats among committed and uncommitted sightings, every
uncommitted sighting points at a committed or uncommitted row, and every
uncommitted row has a sighting. Sightings are only ever added, so other
workers' commits preserve it; with it `Commit` is the one step to look at, and
it maps to `Record` of the messages the session settled. All other steps leave
the ledger alone. With a single worker, rows inserted are of flats no visible
row has, which gives `OneWorkerOneListing`. `OneWorkerSettles` adds that a batch
holds nothing that is settled. `WorkersKeepApart` needs an invariant of its own
(`OneHolder`): what is processing is in one batch, and every batch is processing
and fresh. Its hypothesis is what the code relies on, and the proof shows where:
`_release` gives back only what is still in the batch it was given, so a failing
call leaves settled chatter of the batch claimed until it is stale, and a rewound
claim is taken again while it is held. `SKIP LOCKED` alone does not keep workers
apart, the timeout does.

*The feed.* `NothingLost` is not inductive either: the rewrite drops the
first `delivered` records. The invariant adds that while a flush is on, what it
read first is a prefix of the journal, that the delivered part of it is stored
or refused, that a request which was answered has its batch settled, and that
at the rewrite the second read is the journal. Types hold without the two
assumptions. For exact rows, journal, reads and requests hold no message twice
(`Good`, in `Papers`), and the watermark is an element of the stored stamps with
none above it (`Rows`): the maximum itself comes in at the end. `NothingNewerSkipped`
asks nothing of the order of arrival. Its invariant (`Marked`) says of every
resume point, in the gateway's memory or in an answer under way, that it is no
newer than the group's `last_message_at`, and of that one that it is unset, or no
newer than some stored message of the group, or that one without a date is
stored. So a message which the resume point skips has something stored that is
as new, or is dated by its arrival. More is not true: the watermark cannot tell a
message it has passed from one it has not seen, so an older message that comes late, or one of the same second, is
skipped for good. That what is skipped is itself stored (`SkippedIsStored`) is
checked by `FeedInOrder` for messages that come in order, a second apart, and is
not proved.

*Pairing.* Each of the three needs its own strengthening. `ConnectedHasSession`:
wiping supersedes everything that knows credentials, so no newest call or socket
has any unless the disk has (`SessionInv`). `OneWipePerPress`: wipes, requests in
flight and the pending one together never exceed the presses (`WipesInv`, by
cardinalities). `WakeUpKeepsSession`: a request made while the gateway was down
is older than whatever process reads it (`DownInv`), and that is what
`shouldIgnorePairRequest` falls back to.

*Meta leads.* The properties speak of the database, and what threatens them is
what sessions hold. `LeadInv` adds three things: of two sessions with leads alike
in hand one has a shared lead (`HandsApart`); a lead in hand is not converted
yet, unless it is shared (`HandsOpen`), so a conversion or a failure writes over
nothing; and what a session has found missing is missing still (`StillMissing`),
so that a new contact repeats none. `PointsAtContact` gives the step that is left:
a lead without a number is protected by its status alone.

*Sessions.* `RevokeAllIsComplete` speaks of committed revocations, and a
revocation works over several statements. `SInv` says what is true of a handler
in between (`Sound`): a revocation holds in its snapshot every live row of the
user but those issued while it runs (`raced`); the count of revocations a
handler took from its credentials is no newer than the account's, and where it
is as new the account is open. A row dies before its token and before the cap of
the sign-in it continues (`Timely`), and a closed account has no session left
(`ClosedIsRevoked`). The deadlock theorem follows from the order in which the
three revoking handlers lock.

*Inventory.* That a row is matched by every posting it was seen in is not
inductive: a merge changes the row, and a change might cost the score of an
older posting. It does not, because a row says something wherever such a posting
does (`Covers`), and a merge only fills gaps (`Fills`): the signals of the older
posting are those it had, and so is the score (`ScoreStill`, `FitsStill`). What a
posting fills in itself agrees with it, and full agreement in one more signal
cannot take the score under the threshold (`FitsFilled`; a new row fits its
own posting, `FitsOwn`). `StockInv` says this of committed rows and of what each
session holds: its copies differ from the stored rows only where merges fill
(`Kindred`), unless a person has changed the row, and a commit lands column by
column on what others have filled meanwhile (`CommitLands`, `LandedRows`). Counts
follow from each session's own tally (`OwnCount`).

*Screens.* Both are about ages. Pairing screen (`ScreenInv`): what a dead gateway
has sent is no younger than its death, a heartbeat that is due or on its way
brings the screen back (`SettleInv`), and the row cannot get older than two beats
and a delay while the gateway lives (`MissInv`). Feed screen (`LoopsInv`): the
process a beat names has been gone no longer than the beat is old, and in each
place of a pass the beat is no older than what the pass has spent (`LoopFine`).

*Group picker.* `RefreshIsAnswered` is inductive with the types; the proof has a
step per action, and the claim, which reads before it commits, is the long one.

*Reminders.* A task counts its claims and how often it was set (`tally`); a task
that is not yet notified has a claim left, and one that is notified though due
later was edited while it was claimed (`TaskFine`). What an editor has read may
be old, so the invariant says what it is going to write (`EditFine`). Claims are
accounted for by cardinalities of the dispatchers' queues (`QueueFine`).

*Browser.* A superseded token in the jar has its successor on the way, or lost
(`SupersededIsReplaced`); a successor on the way is nobody else's, not superseded
itself, and lasts as long as what it replaces (`Coming`). A page can then be
refused only for a token that was superseded long ago (`Refused`).

*The model's calls.* The pieces still to be asked follow one another to the end
of the batch, and what is answered is what comes before the first of them
(`Follow`, `Counted`): so nothing is dropped or doubled however a batch is split.
A piece of one message that has grown too large deserves it (`Deserved`). A
refusal that counts as unlucky has been paid for by a downgrade of a model
(`Charges`), and every wait is one of a model that has had its turn (`Cooled`);
the latter is where a model that is named twice would matter, as it would be
asked again and its cool-down moved.

*Lead book.* Everything a commit may do is put into three relations between a
state and the next: `LeadStep` (contacts keep number or are marked, new ones are
screened, books of leavers grow by `late` leads only), `WorkStep` (tasks and
assignments move together) and `StaffStep`. Each kind of request is shown to be
such a step, and `DeskInv` is kept by any of them. What makes it inductive is
what handlers hold: a number that was screened is in no contact older than the
handler (`Screened`), a scan covers every assignment that is going to be removed
(`Cleared`), a handover's list covers the book of whoever had left when it was
read (`Relieving`). Of what is computed from the book the reports need an
invariant (`Flagged`: a flagged number of a batch has a call); the queue is right
in every state; and an import deals round, so that what one recipient gets in a
round another got in the round before: one-to-one but for the first
(`HandsApartByOne`), whoever is named once or twice (`RecipientsAre`). A lead's
way has a relation too, `WayStep`: a commit leaves it alone, annotates it by hand
or moves it on. `JourneyInv` adds to the timeline that the newest event is no
younger than the last move, unless dated by hand: so a transaction that began
after the last move writes what is newest. And a handler that read a lead which
nobody has moved since still has its stage (`Recalls`): so a call or a visit moves
the lead from where it is.

*Meta connection.* The row alone says nothing of what is about to be written to
it. `IInv` says of every row a handler has read or wants that it is as good as the
stored one while nothing is torn (`Whole`, `Good`): a commit then leaves the row
it found or the one it wanted. A state that a start is going to write is known to
no other row, read, wanted or spent (`Fresh`); every other handler writes none or
the one it read. A campaign without an end has a handler, or was given up
(`Made`). What no step takes back (`Grows`: tokens do not revive, parts do not
vanish, a Page is not unchosen) carries all of this over the steps of others, so
that each action is looked at for its own handler only. `LoginsAreReal` (Meta
lists accounts, and a Page has an id) is an assumption about Meta; `MCDesk` has
TLC evaluate it.

*Checked, not proved:* `SkippedIsStored`, which needs messages in order
(`NothingNewerSkipped` is what holds without), and liveness, as fairness and
`ENABLED` are beyond the prover (`Delivers`, `Recovers`, `EveryLeadSettles`,
`NoRedirectLoop`, `DueIsClaimed`, and that everything settles in
`SettlesForGood`).

## 5. Not modelled

- *Text and number work*: `listing_normalize.py`, reading spreadsheets, the fuzzy
  match of names, prompts, masking and serialisation are functions of their
  input with unit tests; a constant stands for their result where it matters.
- *Stateless or append-only parts*: voice notes (the drafts are not stored), the
  audit log (one insert in a session of its own), searches, feeds, statistics.
- *Rows of one writer*: notifications.
- *Run by hand, once, alone*: migrations, seed, owner and key tools.
- *Rendering and deployment*: no state of the program; that the API is one
  process is an assumption of `GatewayFeed`.
- *Parts of modelled components*: the terminal modes of the gateway
  (`PAIR_ONLY`, `LIST_GROUPS`) and its health server; invitations and profiles;
  insights and the ranking of reels; `backfill_budgets`; the columns of contacts,
  tasks and properties that no property tells apart. The unscoped-query guard is
  modelled by what it does to the worker (`ApplyFails`) and by who sees what
  (`Visible`).
