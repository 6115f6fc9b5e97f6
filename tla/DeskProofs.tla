----------------------------- MODULE DeskProofs -----------------------------
(* What is proved of the parts of a desk, for any values of their constants: *)
(* that a press of Refresh is accounted for and no name is lost              *)
(* (GroupPicker), that half-built campaigns are deleted, spent OAuth states  *)
(* stay spent and a login holds (MetaAds), that what the screens say of the  *)
(* gateway (SessionScreen) and of the extractors (Extractors) is so, and     *)
(* that merges and edits of the inventory overwrite nothing (Inventory); and *)
(* the types of all of them.                                                 *)
EXTENDS Desk, LeadDeskProofs

PickerTyped ==
    /\ account \in G!Listing /\ connected \in BOOLEAN
    /\ \A l \in lists : l \in [rows : G!Listing, fresh : BOOLEAN]
    /\ picker \in [Groups -> G!Names \cup {G!Absent}]
    /\ watched \subseteq Groups /\ named \subseteq Groups

PickerInv == PickerTyped /\ G!RefreshIsAnswered /\ G!NamesStay

\* A listing names groups, each by a name or not yet.
LEMMA ListingRows ==
    ASSUME NEW listing \in G!Listing
    PROVE  DOMAIN listing \subseteq Groups /\ \A g \in DOMAIN listing : listing[g] \in G!Names
BY DEF G!Listing

LEMMA FunctionIsListing ==
    ASSUME NEW some \in SUBSET Groups, NEW listing \in [some -> G!Names]
    PROVE  listing \in G!Listing
BY DEF G!Listing

\* What is uploaded is part of what WhatsApp lists.
LEMMA UploadKeeps ==
    ASSUME PickerTyped, NEW some \in SUBSET DOMAIN account, G!Uploads(some)
    PROVE  /\ \A l \in lists' : l \in [rows : G!Listing, fresh : BOOLEAN]
           /\ lists \subseteq lists'
           /\ \E l \in lists' : l.fresh
<1> DEFINE listing == [g \in some |-> account[g]]
           new == [rows |-> listing, fresh |-> TRUE]
<1>1. some \in SUBSET Groups /\ \A g \in some : account[g] \in G!Names
  BY ListingRows DEF PickerTyped
<1>2. listing \in G!Listing
  <2>1. listing \in [some -> G!Names]
    BY <1>1
  <2> QED
    BY <1>1, <2>1, FunctionIsListing
<1>3. lists' = lists \cup {new}
  BY DEF G!Uploads
<1> HIDE DEF listing
<1>4. new \in [rows : G!Listing, fresh : BOOLEAN] /\ new.fresh
  BY <1>2
<1> HIDE DEF new
<1> QED
  BY <1>3, <1>4 DEF PickerTyped

LEMMA InitPicker == G!Init => PickerInv
<1> SUFFICES ASSUME G!Init PROVE PickerInv
  OBVIOUS
<1>1. account \in [Groups -> G!Names]
  BY DEF G!Init, G!Names
<1>2. account \in G!Listing
  BY <1>1, FunctionIsListing
<1> QED
  BY <1>2 DEF G!Init, PickerInv, PickerTyped, G!RefreshIsAnswered, G!NamesStay

\* The account gains, loses or names a group.
LEMMA AccountKeeps ==
    ASSUME PickerInv, G!AccountChanges
    PROVE  PickerInv'
<1>1. account' \in G!Listing
  <2>1. PICK g \in Groups, n \in G!Names :
          account' \in {[h \in DOMAIN account \ {g} |-> account[h]],
                        [h \in DOMAIN account \cup {g} |-> IF h = g THEN n ELSE account[h]]}
    BY DEF G!AccountChanges
  <2>2. DOMAIN account \subseteq Groups /\ \A h \in DOMAIN account : account[h] \in G!Names
    BY ListingRows DEF PickerInv, PickerTyped
  <2>3. CASE account' = [h \in DOMAIN account \ {g} |-> account[h]]
    <3>1. account' \in [DOMAIN account \ {g} -> G!Names]
      BY <2>2, <2>3
    <3> QED
      BY <2>2, <3>1, FunctionIsListing
  <2>4. CASE account' = [h \in DOMAIN account \cup {g} |-> IF h = g THEN n ELSE account[h]]
    <3>1. account' \in [DOMAIN account \cup {g} -> G!Names]
      BY <2>2, <2>4
    <3> QED
      BY <2>2, <3>1, FunctionIsListing
  <2> QED
    BY <2>1, <2>3, <2>4
<1>2. UNCHANGED <<connected, wants, poll, told, lists, picker, watched, owed, excused, named>>
  BY DEF G!AccountChanges
<1> QED
  BY <1>1, <1>2 DEF PickerInv, PickerTyped, G!RefreshIsAnswered, G!NamesStay

\* A command is obeyed, ignored or dropped: a Refresh among it becomes an
\* upload or is excused.
LEMMA ObeysKeeps ==
    ASSUME PickerInv, G!Obeys
    PROVE  PickerInv'
<1> PICK cmd \in told :
      /\ told' = told \ {cmd}
      /\ IF "pair" \in cmd
         THEN /\ connected' \in {connected, FALSE}
              /\ UNCHANGED lists
         ELSE /\ UNCHANGED connected
              /\ IF connected
                 THEN \E some \in SUBSET DOMAIN account : G!Uploads(some)
                 ELSE UNCHANGED lists
      /\ excused' = (excused \/ (owed /\ "sync" \in cmd /\ ("pair" \in cmd \/ ~connected)))
      /\ UNCHANGED <<account, wants, poll, picker, watched, owed, named>>
  BY DEF G!Obeys
<1>1. CASE "pair" \in cmd \/ ~connected
  <2>1. lists' = lists /\ connected' \in BOOLEAN
    BY <1>1 DEF PickerInv, PickerTyped
  <2>2. PickerTyped' /\ G!NamesStay'
    BY <2>1 DEF PickerInv, PickerTyped, G!NamesStay
  <2>3. UNION told \subseteq (UNION told') \cup cmd
    OBVIOUS
  <2>4. CASE owed /\ ~excused'
    <3>1. "sync" \notin cmd /\ ~excused
      BY <1>1, <2>4
    <3>2. \/ "sync" \in wants \cup poll \cup (UNION told)
          \/ \E l \in lists : l.fresh
      BY <2>4, <3>1 DEF PickerInv, G!RefreshIsAnswered
    <3>3. \/ "sync" \in wants' \cup poll' \cup (UNION told')
          \/ \E l \in lists' : l.fresh
      BY <2>1, <2>3, <3>1, <3>2
    <3> QED
      BY <2>2, <3>3 DEF PickerInv, G!RefreshIsAnswered
  <2>5. CASE ~owed \/ excused'
    BY <2>2, <2>5 DEF PickerInv, G!RefreshIsAnswered
  <2> QED
    BY <2>4, <2>5
<1>2. CASE "pair" \notin cmd /\ connected
  <2>1. PICK some \in SUBSET DOMAIN account : G!Uploads(some)
    BY <1>2
  <2>2. /\ \A l \in lists' : l \in [rows : G!Listing, fresh : BOOLEAN]
        /\ \E l \in lists' : l.fresh
    BY <2>1, UploadKeeps DEF PickerInv
  <2> QED
    BY <1>2, <2>2 DEF PickerInv, PickerTyped, G!RefreshIsAnswered, G!NamesStay
<1> QED
  BY <1>1, <1>2

\* A Refresh that is pressed while an earlier one is still under way.
LEMMA AskSyncKeeps ==
    ASSUME PickerInv, G!AskSync
    PROVE  PickerInv'
<1>1. \A l \in lists : [l EXCEPT !.fresh = FALSE] \in [rows : G!Listing, fresh : BOOLEAN]
  BY DEF PickerInv, PickerTyped
<1>2. \A l \in lists' : l \in [rows : G!Listing, fresh : BOOLEAN]
  BY <1>1 DEF G!AskSync
<1>3. G!RefreshIsAnswered'
  BY DEF G!AskSync, G!RefreshIsAnswered
<1> QED
  BY <1>2, <1>3 DEF G!AskSync, PickerInv, PickerTyped, G!NamesStay

\* gateway_commands clears what it has read, and no press made since.
LEMMA ClaimKeeps ==
    ASSUME PickerInv, G!ClaimCommits
    PROVE  PickerInv'
<1>1. PickerTyped' /\ G!NamesStay'
  BY DEF G!ClaimCommits, PickerInv, PickerTyped, G!NamesStay
<1>2. wants' = wants \ poll /\ poll' = {} /\ UNCHANGED <<lists, owed>>
  BY DEF G!ClaimCommits, G!Left
<1>3. CASE told' = told \cup {poll} /\ UNCHANGED excused
  <2>1. UNION told' = (UNION told) \cup poll
    BY <1>3
  <2> QED
    BY <1>1, <1>2, <1>3, <2>1 DEF PickerInv, G!RefreshIsAnswered
<1>4. CASE excused' = (excused \/ (owed /\ "sync" \in poll)) /\ UNCHANGED told
  BY <1>1, <1>2, <1>4 DEF PickerInv, G!RefreshIsAnswered
<1> QED
  BY <1>3, <1>4 DEF G!ClaimCommits

\* The upsert of one upload.
LEMMA ArrivesKeeps ==
    ASSUME PickerInv, G!Arrives
    PROVE  PickerInv'
<1> PICK l \in lists :
      /\ picker' = [g \in Groups |->
           IF g \notin DOMAIN l.rows THEN picker[g]
           ELSE IF l.rows[g] = "" /\ picker[g] # G!Absent THEN picker[g]
           ELSE l.rows[g]]
      /\ named' = named \cup {g \in DOMAIN l.rows : l.rows[g] # ""}
      /\ lists' = lists \ {l}
      /\ owed' = (owed /\ ~l.fresh) /\ excused' = (excused /\ ~l.fresh)
      /\ UNCHANGED <<account, connected, wants, poll, told, watched>>
  BY DEF G!Arrives
<1>1. DOMAIN l.rows \subseteq Groups /\ \A g \in DOMAIN l.rows : l.rows[g] \in {"", "name"}
  BY ListingRows DEF PickerInv, PickerTyped, G!Names
<1>2. G!Absent # "" /\ G!Absent # "name"
  BY DEF G!Absent
<1>3. PickerTyped'
  BY <1>1 DEF PickerInv, PickerTyped, G!Names
<1>4. G!NamesStay'
  BY <1>1, <1>2 DEF PickerInv, PickerTyped, G!NamesStay
<1>5. G!RefreshIsAnswered'
  BY DEF PickerInv, G!RefreshIsAnswered
<1> QED
  BY <1>3, <1>4, <1>5 DEF PickerInv

LEMMA StepPicker ==
    ASSUME PickerInv, [G!Next]_G!vars
    PROVE  PickerInv'
<1>1. CASE G!Opens
  <2>1. PICK some \in SUBSET DOMAIN account : G!Uploads(some)
    BY <1>1 DEF G!Opens
  <2>2. /\ \A l \in lists' : l \in [rows : G!Listing, fresh : BOOLEAN]
        /\ lists \subseteq lists'
    BY <2>1, UploadKeeps DEF PickerInv
  <2> QED
    BY <1>1, <2>2 DEF G!Opens, PickerInv, PickerTyped, G!RefreshIsAnswered, G!NamesStay
<1>2. CASE G!Drops
  BY <1>2 DEF G!Drops, PickerInv, PickerTyped, G!RefreshIsAnswered, G!NamesStay
<1>3. CASE G!UploadLost
  <2>1. PickerTyped' /\ G!NamesStay'
    BY <1>3 DEF G!UploadLost, PickerInv, PickerTyped, G!NamesStay
  <2>2. PICK l \in lists : /\ lists' = lists \ {l}
                           /\ excused' = (excused \/ (owed /\ l.fresh))
    BY <1>3 DEF G!UploadLost
  <2>3. UNCHANGED <<wants, poll, told, owed>>
    BY <1>3 DEF G!UploadLost
  <2>4. CASE owed /\ l.fresh
    BY <2>1, <2>2, <2>4 DEF PickerInv, G!RefreshIsAnswered
  <2>5. CASE owed /\ ~l.fresh
    BY <2>1, <2>2, <2>3, <2>5 DEF PickerInv, G!RefreshIsAnswered
  <2>6. CASE ~owed
    BY <2>1, <2>3, <2>6 DEF PickerInv, G!RefreshIsAnswered
  <2> QED
    BY <2>4, <2>5, <2>6
<1>4. CASE G!AskPair
  BY <1>4 DEF G!AskPair, PickerInv, PickerTyped, G!RefreshIsAnswered, G!NamesStay
<1>5. CASE G!ClaimReads
  BY <1>5 DEF G!ClaimReads, PickerInv, PickerTyped, G!RefreshIsAnswered, G!NamesStay
<1>6. CASE G!Watches
  BY <1>6 DEF G!Watches, G!Listed, PickerInv, PickerTyped, G!RefreshIsAnswered, G!NamesStay
<1>7. CASE UNCHANGED G!vars
  BY <1>7 DEF G!vars, PickerInv, PickerTyped, G!RefreshIsAnswered, G!NamesStay
<1> QED
  BY <1>1, <1>2, <1>3, <1>4, <1>5, <1>6, <1>7, AccountKeeps, ObeysKeeps, AskSyncKeeps,
     ClaimKeeps, ArrivesKeeps DEF G!Next

LEMMA PickerInvariant == DeskSpec => []PickerInv
<1>1. DeskInit => PickerInv
  BY InitPicker DEF DeskInit
<1>2. PickerInv /\ [DeskNext]_deskvars => PickerInv'
  BY StepPicker DEF DeskNext, deskvars, directory, G!vars
<1> QED
  BY <1>1, <1>2, PTL DEF DeskSpec

\* "Losing a command costs one more press": a press of Refresh is on its way,
\* answered by a list read after it, or excused; a name that was uploaded is
\* never blanked or dropped; and what is read from is listed (request_group_sync,
\* gateway_commands, report_directory and available_groups of
\* routers/whatsapp.py).
THEOREM PickerIsSound == DeskSpec => []PickerHolds
<1>1. PickerInv => PickerHolds
  BY DEF PickerInv, PickerTyped, PickerHolds, G!PickerHolds, G!Listed
<1> QED
  BY <1>1, PickerInvariant, PTL


Token == [login : Logins, works : BOOLEAN]
Campaign == [account : M!Accounts, status : {"PAUSED", "ACTIVE", "DELETED"}, parts : SUBSET M!Parts]
Handling == [stage : M!Stages, kind : M!Kinds, read : M!Row, want : M!Row, token : Nat, made : Nat]

Making == M!Parts \cup {"undo"}
Calling == {"calling"} \cup M!Parts
Off == {"none", "pending", "disconnected"}

\* The tokens a handler holds, and the stages it goes through with them.
Signed(r) ==
    /\ r.read.token <= Len(token) /\ r.want.token <= Len(token) /\ r.token <= Len(token)
    /\ r.stage \in Calling \cup {"pages"} => r.token # 0 /\ r.token = r.read.token
    /\ r.kind = "callback" /\ r.want.token # r.read.token =>
         r.token = r.want.token /\ r.token # 0
    /\ r.stage \in {"exchange", "pages"} => r.kind = "callback"
    /\ r.stage \in Calling \cup {"undo"} => r.kind \notin {"start", "callback"}

\* The campaign it makes: its own until it is complete, deleted or given up.
Made(r) ==
    /\ r.kind = "build" /\ r.stage = "calling" => r.read.account # M!None
    /\ r.made # 0 => r.kind = "build" /\ r.made \in DOMAIN campaign
    /\ r.made # 0 => r.stage \in Making \/ (r.stage = "commit" /\ r.made \in cut)
    /\ r.stage \in Making => r.made # 0
    /\ r.stage \in {"creative", "ad"} => "adset" \in campaign[r.made].parts
    /\ r.stage = "ad" => "creative" \in campaign[r.made].parts

\* The OAuth state it will write: a new one, none, or the one it read.
Stated(r) ==
    /\ r.read.state <= states /\ r.want.state <= states
    /\ r.kind = "start" => r.want.state # 0
    /\ r.kind # "start" => r.want.state \in {0, r.read.state}
    /\ r.kind = "callback" => r.want.state = 0

\* A Page that delivers has been chosen, and none is unchosen.
Delivers(r) ==
    /\ r.read.page # M!None => row.page # M!None
    /\ r.want.live => r.want.page # M!None
    /\ r.read.live => r.read.page # M!None
    /\ r.want.page # r.read.page => r.want.page # M!None

HandlerHolds(r) == Signed(r) /\ Made(r) /\ Stated(r) /\ Delivers(r)

\* A row as M!LoginHolds and M!AccountFollowsLogin want it.
Good(r) ==
    /\ r.token # 0 /\ token[r.token].works => r.status = "connected"
    /\ r.status \in Off <=> r.token = 0
    /\ r.token # 0 /\ r.account # M!None =>
         \E j \in DOMAIN AccountsOf[token[r.token].login] :
            AccountsOf[token[r.token].login][j] = r.account

AdsTyped ==
    /\ row \in M!Row /\ row.token <= Len(token) /\ row.state <= states
    /\ row.live => row.page # M!None
    /\ token \in Seq(Token) /\ campaign \in Seq(Campaign)
    /\ handler \in [Requests -> Handling]
    /\ states \in Nat /\ spent \subseteq 1 .. states /\ torn \in BOOLEAN
    /\ cut \subseteq DOMAIN campaign

Holding == \A q \in Requests : HandlerHolds(handler[q])

BuildsApart ==
    \A q, r \in Requests : handler[q].made # 0 /\ handler[q].made = handler[r].made => q = r

\* A state that is to be written is known to nobody yet.
StatesFresh ==
    /\ row.state \notin spent
    /\ \A q \in Requests : handler[q].kind = "start" =>
         /\ handler[q].want.state \notin spent /\ handler[q].want.state # row.state
         /\ \A p \in Requests :
              /\ handler[p].read.state # handler[q].want.state
              /\ p # q /\ handler[p].kind = "start" =>
                   handler[p].want.state # handler[q].want.state

\* Unless a commit has torn the row, everything read or wanted is good.
LoginWhole ==
    ~torn => /\ Good(row)
             /\ \A q \in Requests : Good(handler[q].read) /\ Good(handler[q].want)

AdsInv == AdsTyped /\ Holding /\ BuildsApart /\ StatesFresh /\ LoginWhole /\ M!HalfBuiltIsDeleted

-----------------------------------------------------------------------------
(* Handlers as records                                                     *)

\* One handler is now this.
Becomes(q, new) == handler' = [handler EXCEPT ![q] = new]

LEMMA Others ==
    ASSUME AdsTyped, NEW q \in Requests, NEW new \in Handling, Becomes(q, new)
    PROVE  /\ handler' \in [Requests -> Handling] /\ handler'[q] = new
           /\ \A p \in Requests : p # q => handler'[p] = handler[p]
BY DEF Becomes, AdsTyped

LEMMA RowFields ==
    ASSUME NEW r \in M!Row
    PROVE  /\ r.status \in M!Statuses /\ r.token \in Nat /\ r.account \in M!Accounts \cup {M!None}
           /\ r.page \in M!Pages \cup {M!None} /\ r.live \in BOOLEAN /\ r.state \in Nat
BY DEF M!Row

LEMMA RequestFields ==
    ASSUME NEW r \in Handling
    PROVE  /\ r.stage \in M!Stages /\ r.kind \in M!Kinds /\ r.read \in M!Row /\ r.want \in M!Row
           /\ r.token \in Nat /\ r.made \in Nat
BY DEF Handling

LEMMA NoRowIs ==
    /\ M!NoRow \in M!Row /\ M!NoRow.status = "none" /\ M!NoRow.token = 0 /\ M!NoRow.account = M!None
    /\ M!NoRow.page = M!None /\ M!NoRow.live = FALSE /\ M!NoRow.state = 0
BY DEF M!NoRow, M!Row, M!Statuses

LEMMA Resting ==
    /\ M!Idle \in Handling /\ M!Idle.stage = "idle" /\ M!Idle.made = 0 /\ M!Idle.token = 0
    /\ M!Idle.read = M!NoRow /\ M!Idle.want = M!NoRow /\ M!Idle.kind = "none"
<1>1. /\ M!Idle.stage = "idle" /\ M!Idle.made = 0 /\ M!Idle.token = 0
      /\ M!Idle.read = M!NoRow /\ M!Idle.want = M!NoRow /\ M!Idle.kind = "none"
  BY DEF M!Idle
<1>2. M!Idle \in Handling
  BY NoRowIs DEF M!Idle, Handling, M!Stages, M!Kinds
<1> QED
  BY <1>1, <1>2

\* What a handler that begins looks like.
LEMMA Opened ==
    ASSUME AdsTyped, NEW q \in Requests, NEW kind \in M!Kinds, NEW stage \in M!Stages,
           NEW want \in M!Row, M!Begins(q, M!Reads(kind, stage, want))
    PROVE  \E new \in Handling :
             /\ Becomes(q, new) /\ handler[q].stage = "idle"
             /\ new.stage = stage /\ new.kind = kind /\ new.read = row /\ new.want = want
             /\ new.token = row.token /\ new.made = 0
<1> DEFINE new == M!Reads(kind, stage, want)
<1>1. /\ new \in Handling
      /\ new.stage = stage /\ new.kind = kind /\ new.read = row /\ new.want = want
      /\ new.token = row.token /\ new.made = 0
  BY Resting, RowFields DEF M!Reads, Handling, AdsTyped
<1>2. Becomes(q, new) /\ handler[q].stage = "idle"
  BY DEF M!Begins, Becomes
<1> HIDE DEF new
<1> QED
  BY <1>1, <1>2

\* A handler that goes on, wanting something.
LEMMA GoesOn ==
    ASSUME AdsTyped, NEW q \in Requests, NEW stage \in M!Stages, M!Goes(q, stage)
    PROVE  \E new \in Handling :
             /\ Becomes(q, new) /\ new.stage = stage /\ new.kind = handler[q].kind
             /\ new.read = handler[q].read /\ new.want = handler[q].want
             /\ new.token = handler[q].token /\ new.made = handler[q].made
<1> DEFINE new == [handler[q] EXCEPT !.stage = stage]
<1>1. handler[q] \in Handling
  BY DEF AdsTyped
<1>2. /\ new \in Handling /\ new.stage = stage /\ new.kind = handler[q].kind
      /\ new.read = handler[q].read /\ new.want = handler[q].want
      /\ new.token = handler[q].token /\ new.made = handler[q].made
  BY <1>1 DEF Handling
<1>3. Becomes(q, new)
  BY DEF M!Goes, Becomes
<1> HIDE DEF new
<1> QED
  BY <1>2, <1>3

LEMMA WantsNow ==
    ASSUME AdsTyped, NEW q \in Requests, NEW want \in M!Row, M!Wants(q, want)
    PROVE  \E new \in Handling :
             /\ Becomes(q, new) /\ new.stage = "commit" /\ new.kind = handler[q].kind
             /\ new.read = handler[q].read /\ new.want = want
             /\ new.token = handler[q].token /\ new.made = handler[q].made
<1> DEFINE new == [handler[q] EXCEPT !.stage = "commit", !.want = want]
<1>1. handler[q] \in Handling
  BY DEF AdsTyped
<1>2. /\ new \in Handling /\ new.stage = "commit" /\ new.kind = handler[q].kind
      /\ new.read = handler[q].read /\ new.want = want
      /\ new.token = handler[q].token /\ new.made = handler[q].made
  BY <1>1 DEF Handling, M!Stages
<1>3. Becomes(q, new)
  BY <1>1 DEF M!Wants, Becomes, Handling
<1> HIDE DEF new
<1> QED
  BY <1>2, <1>3

\* What a commit makes of the row, column by column.
LEMMA Stored ==
    ASSUME AdsTyped, NEW r \in Handling, M!Stores(r)
    PROVE  /\ row' \in M!Row
           /\ row'.status = IF r.want.status # r.read.status THEN r.want.status ELSE row.status
           /\ row'.token = IF r.want.token # r.read.token THEN r.want.token ELSE row.token
           /\ row'.account = IF r.want.account # r.read.account
                             THEN r.want.account ELSE row.account
           /\ row'.page = IF r.want.page # r.read.page THEN r.want.page ELSE row.page
           /\ row'.state = IF r.want.state # r.read.state THEN r.want.state ELSE row.state
           /\ row'.live \in {r.want.live, row.live}
           /\ row'.live # row.live => r.want.live = row'.live
<1>1. DOMAIN row = {"status", "token", "account", "page", "live", "state"}
  BY DEF AdsTyped, M!Row
<1>2. /\ row'.status = IF r.want.status # r.read.status THEN r.want.status ELSE row.status
      /\ row'.token = IF r.want.token # r.read.token THEN r.want.token ELSE row.token
      /\ row'.account = IF r.want.account # r.read.account
                        THEN r.want.account ELSE row.account
      /\ row'.page = IF r.want.page # r.read.page THEN r.want.page ELSE row.page
      /\ row'.state = IF r.want.state # r.read.state THEN r.want.state ELSE row.state
      /\ row'.live \in {r.want.live, row.live}
      /\ row'.live # row.live => r.want.live = row'.live
  BY <1>1 DEF M!Stores, M!Changes
<1>3. row' = [status |-> row'.status, token |-> row'.token, account |-> row'.account,
              page |-> row'.page, live |-> row'.live, state |-> row'.state]
  BY <1>1 DEF M!Stores
<1>4. r.want \in M!Row /\ row \in M!Row
  BY RequestFields DEF AdsTyped
<1>5. row' \in M!Row
  BY <1>2, <1>3, <1>4 DEF M!Row
<1> QED
  BY <1>2, <1>5

-----------------------------------------------------------------------------
(* What no step takes back                                                 *)

\* Tokens keep their owner and do not come to life again.
TokensAge ==
    /\ token' \in Seq(Token) /\ Len(token) <= Len(token')
    /\ \A k \in 1 .. Len(token) :
         token'[k].login = token[k].login /\ (token'[k].works => token[k].works)

CampaignsGrow ==
    /\ campaign' \in Seq(Campaign) /\ Len(campaign) <= Len(campaign')
    /\ \A c \in 1 .. Len(campaign) : campaign[c].parts \subseteq campaign'[c].parts
    /\ cut \subseteq cut' /\ cut' \subseteq DOMAIN campaign'

\* The row stays a row, and a Page once chosen stays chosen.
RowHolds ==
    /\ row' \in M!Row /\ row'.token <= Len(token') /\ row'.state <= states'
    /\ row'.live => row'.page # M!None
    /\ row.page # M!None => row'.page # M!None

StatesGrow ==
    /\ states' \in Nat /\ states <= states' /\ spent' \subseteq 1 .. states'
    /\ torn' \in BOOLEAN /\ (torn => torn')

Grows == TokensAge /\ CampaignsGrow /\ RowHolds /\ StatesGrow

LEMMA Lengths ==
    ASSUME AdsTyped
    PROVE  /\ Len(token) \in Nat /\ Len(campaign) \in Nat
           /\ DOMAIN token = 1 .. Len(token) /\ DOMAIN campaign = 1 .. Len(campaign)
           /\ \A k \in 1 .. Len(token) : token[k] \in Token
           /\ \A c \in 1 .. Len(campaign) : campaign[c] \in Campaign
BY DEF AdsTyped

LEMMA TokensRest == ASSUME AdsTyped, UNCHANGED token PROVE TokensAge
BY DEF AdsTyped, TokensAge

LEMMA CampaignsRest == ASSUME AdsTyped, UNCHANGED <<campaign, cut>> PROVE CampaignsGrow
BY DEF AdsTyped, CampaignsGrow

LEMMA RowRests ==
    ASSUME AdsTyped, TokensAge, StatesGrow, UNCHANGED row PROVE RowHolds
<1>1. Len(token) \in Nat /\ Len(token') \in Nat /\ states' \in Nat
  BY DEF AdsTyped, TokensAge, StatesGrow
<1>2. row.token \in Nat /\ row.state \in Nat
  BY RowFields DEF AdsTyped
<1> QED
  BY <1>1, <1>2 DEF AdsTyped, TokensAge, RowHolds, StatesGrow

LEMMA StatesRest == ASSUME AdsTyped, UNCHANGED <<states, spent, torn>> PROVE StatesGrow
BY DEF AdsTyped, StatesGrow

\* What a handler holds it keeps, whatever the others do.
LEMMA HoldsOn ==
    ASSUME AdsTyped, Grows, NEW r \in Handling, HandlerHolds(r)
    PROVE  HandlerHolds(r)'
<1>1. /\ r.read.token \in Nat /\ r.want.token \in Nat /\ r.read.state \in Nat
      /\ r.want.state \in Nat /\ r.token \in Nat /\ r.made \in Nat
  BY RequestFields, RowFields
<1>2. /\ Len(token) \in Nat /\ Len(token') \in Nat /\ Len(campaign) \in Nat
      /\ Len(campaign') \in Nat /\ states \in Nat /\ states' \in Nat
      /\ DOMAIN campaign = 1 .. Len(campaign) /\ DOMAIN campaign' = 1 .. Len(campaign')
  BY DEF AdsTyped, Grows, TokensAge, CampaignsGrow, StatesGrow
<1>3. Signed(r)'
  BY <1>1, <1>2 DEF HandlerHolds, Signed, Grows, TokensAge
<1>4. Made(r)'
  <2>1. CASE r.made = 0
    BY <2>1 DEF HandlerHolds, Made, Making, M!Parts
  <2>2. CASE r.made # 0
    <3>1. r.made \in 1 .. Len(campaign) /\ r.made \in 1 .. Len(campaign')
      BY <1>1, <1>2, <2>2 DEF HandlerHolds, Made, Grows, CampaignsGrow
    <3>2. campaign[r.made].parts \subseteq campaign'[r.made].parts /\ cut \subseteq cut'
      BY <3>1 DEF Grows, CampaignsGrow
    <3> QED
      BY <1>2, <3>1, <3>2 DEF HandlerHolds, Made
  <2> QED
    BY <2>1, <2>2
<1>5. Stated(r)'
  BY <1>1, <1>2 DEF HandlerHolds, Stated, Grows, StatesGrow
<1>6. Delivers(r)'
  BY DEF HandlerHolds, Delivers, Grows, RowHolds
<1> QED
  BY <1>3, <1>4, <1>5, <1>6 DEF HandlerHolds

LEMMA GoodStays ==
    ASSUME AdsTyped, TokensAge, NEW r \in M!Row, r.token <= Len(token), Good(r)
    PROVE  Good(r)'
<1>1. r.token \in Nat /\ Len(token) \in Nat
  BY RowFields DEF AdsTyped
<1>2. CASE r.token = 0
  BY <1>2 DEF Good
<1>3. CASE r.token # 0
  <2>1. r.token \in 1 .. Len(token)
    BY <1>1, <1>3
  <2>2. token'[r.token].login = token[r.token].login
        /\ (token'[r.token].works => token[r.token].works)
    BY <2>1 DEF TokensAge
  <2> QED
    BY <2>2 DEF Good
<1> QED
  BY <1>2, <1>3

-----------------------------------------------------------------------------
(* What a step makes of its handler                                        *)

Newly(q, new) ==
    /\ Becomes(q, new)
    /\ HandlerHolds(new)'
    /\ ~torn' => Good(new.read)' /\ Good(new.want)'
    /\ new.made # 0 => new.made \in {handler[q].made, Len(campaign) + 1}
    /\ new.read.state \in {0, row.state, handler[q].read.state}
    /\ new.kind = "start" => new.want.state = states + 1

\* The row is good, and neither it nor the spent ones know a state to come.
RowServes(q) ==
    /\ ~torn' => Good(row)'
    /\ row'.state \notin spent'
    /\ \A p \in Requests \ {q} : handler[p].kind = "start" =>
         handler[p].want.state \notin spent' /\ handler[p].want.state # row'.state

LEMMA HoldingOn ==
    ASSUME AdsTyped, Holding, Grows, NEW q \in Requests, NEW new \in Handling, Newly(q, new)
    PROVE  Holding'
<1> SUFFICES ASSUME NEW p \in Requests PROVE HandlerHolds(handler[p])'
  BY DEF Holding
<1>1. handler'[q] = new /\ (p # q => handler'[p] = handler[p])
  BY Others DEF Newly
<1>2. \E r \in Handling : r = handler'[p] /\ HandlerHolds(r)'
  <2>1. CASE p = q
    BY <1>1, <2>1 DEF Newly
  <2>2. CASE p # q
    <3>1. PICK r \in Handling : r = handler[p]
      BY DEF AdsTyped
    <3>2. HandlerHolds(r)
      BY <3>1 DEF Holding
    <3>3. HandlerHolds(r)'
      BY <3>2, HoldsOn
    <3> QED
      BY <1>1, <2>2, <3>1, <3>3
  <2> QED
    BY <2>1, <2>2
<1>3. PICK r \in Handling : r = handler'[p] /\ HandlerHolds(r)'
  BY <1>2
<1> QED
  BY <1>3 DEF HandlerHolds, Signed, Made, Stated, Delivers

LEMMA ApartStill ==
    ASSUME AdsTyped, Holding, BuildsApart, NEW q \in Requests, NEW new \in Handling, Newly(q, new)
    PROVE  BuildsApart'
<1>1. handler'[q] = new /\ \A p \in Requests : p # q => handler'[p] = handler[p]
  BY Others DEF Newly
<1>2. \A p \in Requests : handler[p].made # Len(campaign) + 1
  <2> SUFFICES ASSUME NEW p \in Requests PROVE handler[p].made # Len(campaign) + 1
    OBVIOUS
  <2>1. handler[p].made # 0 => handler[p].made \in 1 .. Len(campaign)
    BY Lengths DEF Holding, HandlerHolds, Made
  <2> QED
    BY <2>1, Lengths
<1>3. new.made # 0 => new.made \in {handler[q].made, Len(campaign) + 1}
  BY DEF Newly
<1> QED
  BY <1>1, <1>2, <1>3 DEF BuildsApart

LEMMA FreshStill ==
    ASSUME AdsTyped, Holding, StatesFresh, StatesGrow, NEW q \in Requests, NEW new \in Handling,
           Newly(q, new), RowServes(q),
           new.kind = "start" => UNCHANGED <<row, spent>>
    PROVE  StatesFresh'
<1>1. handler'[q] = new /\ \A p \in Requests : p # q => handler'[p] = handler[p]
  BY Others DEF Newly
<1>2. /\ row.state \in Nat /\ row.state <= states /\ states \in Nat
      /\ \A p \in Requests :
           /\ handler[p].read.state \in Nat /\ handler[p].read.state <= states
           /\ handler[p].want.state \in Nat /\ handler[p].want.state <= states
  <2>1. \A p \in Requests : handler[p] \in Handling
    BY DEF AdsTyped
  <2>2. \A p \in Requests : handler[p].read \in M!Row /\ handler[p].want \in M!Row
    BY <2>1, RequestFields
  <2> QED
    BY <2>2, RowFields DEF AdsTyped, Holding, HandlerHolds, Stated
<1>3. new.read.state \in {0, row.state, handler[q].read.state}
  BY DEF Newly
<1>4. \A p \in Requests : handler[p].kind = "start" => handler[p].want.state # 0
  BY DEF Holding, HandlerHolds, Stated
<1>5. ASSUME NEW p \in Requests, p # q, handler[p].kind = "start"
      PROVE  /\ handler[p].want.state \notin spent' /\ handler[p].want.state # row'.state
             /\ \A o \in Requests :
                  /\ handler'[o].read.state # handler[p].want.state
                  /\ o # p /\ handler'[o].kind = "start" =>
                       handler'[o].want.state # handler[p].want.state
  <2>1. handler[p].want.state \notin spent' /\ handler[p].want.state # row'.state
    BY <1>5 DEF RowServes
  <2>2. new.read.state # handler[p].want.state
    BY <1>3, <1>4, <1>5 DEF StatesFresh
  <2>3. new.kind = "start" => new.want.state # handler[p].want.state
    BY <1>2 DEF Newly
  <2> QED
    BY <1>1, <1>5, <2>1, <2>2, <2>3 DEF StatesFresh
<1>6. ASSUME new.kind = "start"
      PROVE  /\ new.want.state \notin spent' /\ new.want.state # row'.state
             /\ \A o \in Requests :
                  /\ handler'[o].read.state # new.want.state
                  /\ o # q /\ handler'[o].kind = "start" =>
                       handler'[o].want.state # new.want.state
  <2>1. new.want.state = states + 1
    BY <1>6 DEF Newly
  <2>2. new.want.state \notin spent' /\ new.want.state # row'.state
    BY <1>2, <1>6, <2>1 DEF AdsTyped
  <2>3. new.read.state # new.want.state
    BY <1>2, <1>3, <2>1
  <2> QED
    BY <1>1, <1>2, <2>1, <2>2, <2>3
<1>7. row'.state \notin spent'
  BY DEF RowServes
<1> QED
  BY <1>1, <1>5, <1>6, <1>7 DEF StatesFresh

LEMMA WholeStill ==
    ASSUME AdsTyped, Holding, LoginWhole, Grows, NEW q \in Requests, NEW new \in Handling,
           Newly(q, new), RowServes(q)
    PROVE  LoginWhole'
<1> SUFFICES ASSUME ~torn', NEW p \in Requests
             PROVE  Good(handler[p].read)' /\ Good(handler[p].want)'
  BY DEF LoginWhole, RowServes
<1>1. handler'[q] = new /\ (p # q => handler'[p] = handler[p])
  BY Others DEF Newly
<1>2. ~torn
  BY DEF Grows, StatesGrow
<1>3. \E r \in Handling : r = handler'[p] /\ Good(r.read)' /\ Good(r.want)'
  <2>1. CASE p = q
    BY <1>1, <2>1 DEF Newly
  <2>2. CASE p # q
    <3>1. PICK r \in Handling : r = handler[p]
      BY DEF AdsTyped
    <3>2. /\ Good(r.read) /\ Good(r.want)
          /\ r.read.token <= Len(token) /\ r.want.token <= Len(token)
      BY <1>2, <3>1 DEF LoginWhole, Holding, HandlerHolds, Signed
    <3>3. Good(r.read)' /\ Good(r.want)'
      BY <3>2, RequestFields, GoodStays DEF Grows
    <3> QED
      BY <1>1, <2>2, <3>1, <3>3
  <2> QED
    BY <2>1, <2>2
<1>4. PICK r \in Handling : r = handler'[p] /\ Good(r.read)' /\ Good(r.want)'
  BY <1>3
<1> QED
  BY <1>4 DEF Good

LEMMA Onward ==
    ASSUME AdsInv, Grows, NEW q \in Requests, NEW new \in Handling, Newly(q, new), RowServes(q),
           new.kind = "start" => UNCHANGED <<row, spent>>, M!HalfBuiltIsDeleted'
    PROVE  AdsInv'
<1>1. AdsTyped'
  <2>1. handler' \in [Requests -> Handling]
    BY Others DEF Newly, AdsInv
  <2> QED
    BY <2>1 DEF AdsTyped, Grows, TokensAge, CampaignsGrow, RowHolds, StatesGrow
<1> QED
  BY <1>1, HoldingOn, ApartStill, FreshStill, WholeStill DEF AdsInv, Grows

\* What was good stays so.
LEMMA GoodLater ==
    ASSUME AdsInv, TokensAge, ~torn, NEW q \in Requests
    PROVE  \A r \in M!Row : r \in {row, handler[q].read, handler[q].want} =>
             Good(r)' /\ r.token <= Len(token) /\ r.token <= Len(token')
<1> SUFFICES ASSUME NEW r \in M!Row, r \in {row, handler[q].read, handler[q].want}
             PROVE  Good(r)' /\ r.token <= Len(token) /\ r.token <= Len(token')
  OBVIOUS
<1>1. Good(r)
  BY DEF AdsInv, LoginWhole
<1>2. r.token <= Len(token)
  BY DEF AdsInv, AdsTyped, Holding, HandlerHolds, Signed
<1>3. r.token \in Nat /\ Len(token) \in Nat /\ Len(token') \in Nat
      /\ Len(token) <= Len(token')
  BY RowFields DEF AdsInv, AdsTyped, TokensAge
<1>4. Good(r)'
  BY <1>1, <1>2, GoodStays DEF AdsInv
<1> QED
  BY <1>2, <1>3, <1>4

LEMMA RowKept ==
    ASSUME AdsInv, Grows, UNCHANGED <<row, spent>>, NEW q \in Requests
    PROVE  RowServes(q)
<1>1. ASSUME ~torn' PROVE Good(row)'
  <2>1. PICK r \in M!Row : r = row
    BY DEF AdsInv, AdsTyped
  <2>2. Good(r)'
    BY <1>1, <2>1, GoodLater DEF Grows, StatesGrow
  <2> QED
    BY <2>1, <2>2 DEF Good
<1>2. /\ row'.state \notin spent'
      /\ \A p \in Requests \ {q} : handler[p].kind = "start" =>
           handler[p].want.state \notin spent' /\ handler[p].want.state # row'.state
  BY DEF AdsInv, StatesFresh
<1> QED
  BY <1>1, <1>2 DEF RowServes

LEMMA HalfBuiltStill ==
    ASSUME AdsInv, NEW q \in Requests, NEW new \in Handling, Becomes(q, new),
           UNCHANGED campaign, cut \subseteq cut',
           handler[q].made # 0 => new.made = handler[q].made \/ handler[q].made \in cut'
    PROVE  M!HalfBuiltIsDeleted'
<1>1. handler'[q] = new /\ \A p \in Requests : p # q => handler'[p] = handler[p]
  BY Others DEF AdsInv
<1> SUFFICES ASSUME NEW c \in DOMAIN campaign \ cut', campaign[c].parts # M!Parts,
                    ~M!Building(c)'
             PROVE  campaign[c].status = "DELETED"
  BY DEF M!HalfBuiltIsDeleted
<1>2. c # 0
  BY Lengths DEF AdsInv
<1>3. ~M!Building(c)
  BY <1>1, <1>2 DEF M!Building
<1> QED
  BY <1>3 DEF AdsInv, M!HalfBuiltIsDeleted

\* A step in which only handlers, tokens and what is given up change.
LEMMA Steady ==
    ASSUME AdsInv, UNCHANGED <<row, campaign, spent, torn>>, TokensAge,
           states' \in {states, states + 1}, cut \subseteq cut', cut' \subseteq DOMAIN campaign,
           NEW q \in Requests, NEW new \in Handling, Newly(q, new),
           handler[q].made # 0 => new.made = handler[q].made \/ handler[q].made \in cut'
    PROVE  AdsInv'
<1>1. StatesGrow
  BY DEF AdsInv, AdsTyped, StatesGrow
<1>2. CampaignsGrow
  BY DEF AdsInv, AdsTyped, CampaignsGrow
<1>3. RowHolds
  BY <1>1, RowRests DEF AdsInv
<1>4. Grows
  BY <1>1, <1>2, <1>3 DEF Grows
<1>5. RowServes(q)
  BY <1>4, RowKept
<1>6. M!HalfBuiltIsDeleted'
  BY HalfBuiltStill DEF Newly
<1> QED
  BY <1>4, <1>5, <1>6, Onward

\* A handler begins.
LEMMA Begun ==
    ASSUME AdsInv, UNCHANGED <<row, campaign, spent, torn, cut>>, TokensAge,
           states' \in {states, states + 1},
           NEW q \in Requests, NEW kind \in M!Kinds, NEW want \in M!Row,
           NEW stage \in {"commit", "exchange", "calling"}, M!Begins(q, M!Reads(kind, stage, want)),
           want.token <= Len(token), want.state <= states',
           kind = "start" => want.state = states + 1 /\ stage = "commit",
           kind # "start" => want.state \in {0, row.state},
           kind = "callback" => want.state = 0 /\ want.token = row.token,
           stage = "exchange" => kind = "callback",
           stage = "calling" => kind \notin {"start", "callback"} /\ row.token # 0
                                /\ (kind = "build" => row.account # M!None),
           want.live = row.live, want.page = row.page,
           ~torn => Good(want)'
    PROVE  AdsInv'
<1>1. \E new \in Handling :
        /\ Becomes(q, new) /\ handler[q].stage = "idle"
        /\ new.stage = stage /\ new.kind = kind /\ new.read = row /\ new.want = want
        /\ new.token = row.token /\ new.made = 0
  BY Opened DEF AdsInv, M!Stages
<1> PICK new \in Handling :
        /\ Becomes(q, new) /\ handler[q].stage = "idle"
        /\ new.stage = stage /\ new.kind = kind /\ new.read = row /\ new.want = want
        /\ new.token = row.token /\ new.made = 0
  BY <1>1
<1>2. /\ row.token \in Nat /\ row.state \in Nat /\ want.token \in Nat /\ want.state \in Nat
      /\ Len(token) \in Nat /\ Len(token') \in Nat /\ Len(token) <= Len(token')
      /\ row.token <= Len(token) /\ row.state <= states /\ states \in Nat
  BY RowFields DEF AdsInv, AdsTyped, TokensAge
<1>3. Signed(new)'
  BY <1>2 DEF Signed, Calling, M!Parts
<1>4. Made(new)'
  BY DEF Made, Making, M!Parts
<1>5. Stated(new)'
  BY <1>2 DEF Stated
<1>6. Delivers(new)'
  BY DEF Delivers, AdsInv, AdsTyped
<1>7. ASSUME ~torn' PROVE Good(new.read)' /\ Good(new.want)'
  <2>1. Good(new.read)'
    BY <1>7, GoodLater, RequestFields
  <2> QED
    BY <1>7, <2>1 DEF Good
<1>8. Newly(q, new)
  BY <1>3, <1>4, <1>5, <1>6, <1>7 DEF Newly, HandlerHolds
<1>9. handler[q].made = 0
  BY DEF AdsInv, Holding, HandlerHolds, Made, Making, M!Parts
<1> QED
  BY <1>8, <1>9, Steady DEF AdsInv, AdsTyped

-----------------------------------------------------------------------------
(* Connecting                                                              *)

LEMMA StartStep == ASSUME AdsInv, NEW q \in Requests, M!Start(q) PROVE AdsInv'
<1> PICK r \in M!Row : r = row
  BY DEF AdsInv, AdsTyped
<1> PICK n \in Nat : n = states + 1
  BY DEF AdsInv, AdsTyped
<1> DEFINE status == IF r.status = "none" THEN "pending" ELSE r.status
           want == [r EXCEPT !.state = n, !.status = status]
<1>1. M!Begins(q, M!Reads("start", "commit", want)) /\ states' = states + 1
      /\ UNCHANGED <<row, token, campaign, spent, torn, cut>>
  BY DEF M!Start
<1>2. /\ states \in Nat /\ r.token \in Nat /\ Len(token) \in Nat /\ r.token <= Len(token)
  BY RowFields DEF AdsInv, AdsTyped
<1>3. status \in M!Statuses /\ (r.status \in Off <=> status \in Off)
      /\ (r.status = "connected" => status = "connected")
  BY RowFields DEF M!Statuses, Off
<1> HIDE DEF status
<1>4. /\ want \in M!Row /\ want.state = n /\ want.token = r.token
      /\ want.account = r.account /\ want.page = r.page /\ want.live = r.live
      /\ want.status = status
  BY <1>3 DEF M!Row
<1> HIDE DEF want
<1>5. TokensAge
  BY <1>1, TokensRest DEF AdsInv
<1>6. ASSUME ~torn PROVE Good(want)'
  <2>1. Good(r)'
    BY <1>5, <1>6, GoodLater
  <2> QED
    BY <2>1, <1>3, <1>4 DEF Good
<1>7. "start" \in M!Kinds
  BY DEF M!Kinds
<1> QED
  BY <1>1, <1>2, <1>4, <1>5, <1>6, <1>7, Begun

\* The row a callback leaves: its state is gone, and a first attempt may be.
LEMMA ReturnedRow ==
    ASSUME AdsInv, UNCHANGED token, NEW want, want \in {M!Returned(row), M!Failed(row)}
    PROVE  /\ want \in M!Row /\ want.state = 0 /\ want.token = row.token
           /\ want.page = row.page /\ want.live = row.live /\ want.account = row.account
           /\ want.token <= Len(token)
           /\ (~torn /\ \E q \in Requests : TRUE) => Good(want)'
<1> PICK r \in M!Row : r = row
  BY DEF AdsInv, AdsTyped
<1>1. /\ want \in M!Row /\ want.state = 0 /\ want.token = r.token
      /\ want.page = r.page /\ want.live = r.live /\ want.account = r.account
      /\ want.status = r.status \/ (r.status = "pending" /\ want.status = "disconnected")
  <2>1. CASE want = M!Returned(r)
    BY <2>1 DEF M!Returned, M!Row
  <2>2. CASE want = M!Failed(r)
    BY <2>2 DEF M!Failed, M!Returned, M!Row, M!Statuses
  <2> QED
    BY <2>1, <2>2
<1>2. want.token <= Len(token)
  BY <1>1 DEF AdsInv, AdsTyped
<1>3. ASSUME ~torn, NEW q \in Requests PROVE Good(want)'
  <2>1. Good(r)'
    BY <1>3, TokensRest, GoodLater DEF AdsInv
  <2> QED
    BY <2>1, <1>1 DEF Good, Off
<1> QED
  BY <1>1, <1>2, <1>3

LEMMA CallbackSteps ==
    ASSUME AdsInv, NEW q \in Requests, M!CallbackExpired(q) \/ M!Callback(q) PROVE AdsInv'
<1>1. UNCHANGED <<row, token, campaign, states, spent, torn, cut>>
  BY DEF M!CallbackExpired, M!Callback
<1>2. PICK want \in {M!Returned(row), M!Failed(row)}, stage \in {"commit", "exchange"} :
        M!Begins(q, M!Reads("callback", stage, want))
  BY DEF M!CallbackExpired, M!Callback
<1>3. /\ want \in M!Row /\ want.state = 0 /\ want.token = row.token
      /\ want.page = row.page /\ want.live = row.live
      /\ want.token <= Len(token) /\ (~torn => Good(want)')
  BY <1>1, ReturnedRow
<1>4. TokensAge
  BY <1>1, TokensRest DEF AdsInv
<1>5. "callback" \in M!Kinds
  BY DEF M!Kinds
<1>6. 0 <= states'
  BY <1>1 DEF AdsInv, AdsTyped
<1> QED
  BY <1>1, <1>2, <1>3, <1>4, <1>5, <1>6, Begun

LEMMA DisconnectStep == ASSUME AdsInv, NEW q \in Requests, M!Disconnect(q) PROVE AdsInv'
<1> PICK r \in M!Row : r = row
  BY DEF AdsInv, AdsTyped
<1> DEFINE want == [r EXCEPT !.status = "disconnected", !.token = 0, !.state = 0]
<1>1. M!Begins(q, M!Reads("disconnect", "commit", want))
      /\ UNCHANGED <<row, campaign, states, spent, torn, cut>>
  BY DEF M!Disconnect
<1>2. /\ want \in M!Row /\ want.state = 0 /\ want.token = 0 /\ want.status = "disconnected"
      /\ want.page = r.page /\ want.live = r.live
  BY DEF M!Row, M!Statuses
<1> HIDE DEF want
<1>3. TokensAge
  <2>1. CASE UNCHANGED token
    BY <2>1, TokensRest DEF AdsInv
  <2>2. CASE row.token # 0 /\ token' = [k \in DOMAIN token |->
                [token[k] EXCEPT !.works = @ /\ token[k].login # token[row.token].login]]
    <3> DEFINE dies(k) == [token[k] EXCEPT !.works = @ /\ token[k].login # token[row.token].login]
    <3>1. \A k \in 1 .. Len(token) : dies(k) \in Token /\ dies(k).login = token[k].login
                                    /\ (dies(k).works => token[k].works)
      BY Lengths DEF AdsInv, Token
    <3>2. token' = [k \in 1 .. Len(token) |-> dies(k)] /\ Len(token) \in Nat
      BY <2>2, Lengths DEF AdsInv
    <3> HIDE DEF dies
    <3>3. token' \in Seq(Token) /\ Len(token') = Len(token)
      BY <3>1, <3>2
    <3> QED
      BY <3>1, <3>2, <3>3 DEF TokensAge
  <2> QED
    BY <2>1, <2>2 DEF M!Disconnect
<1>4. Good(want)'
  BY <1>2 DEF Good, Off
<1>5. "disconnect" \in M!Kinds
  BY DEF M!Kinds
<1>6. 0 <= states' /\ 0 <= Len(token)
  BY <1>1, Lengths DEF AdsInv, AdsTyped
<1> QED
  BY <1>1, <1>2, <1>3, <1>4, <1>5, <1>6, Begun

LEMMA CallsStep ==
    ASSUME AdsInv, NEW q \in Requests, NEW kind \in {"account", "page", "switch", "build"},
           M!Call(q, kind)
    PROVE  AdsInv'
<1> PICK r \in M!Row : r = row
  BY DEF AdsInv, AdsTyped
<1>1. /\ UNCHANGED <<row, token, campaign, states, spent, torn, cut>>
      /\ M!Begins(q, M!Reads(kind, "calling", r))
      /\ r.token # 0 /\ (kind = "build" => r.account # M!None)
  BY DEF M!Call, M!StateOf
<1>2. TokensAge
  BY <1>1, TokensRest DEF AdsInv
<1>3. ~torn => Good(r)'
  BY <1>2, GoodLater
<1>4. kind \in M!Kinds /\ kind \notin {"start", "callback"}
  BY DEF M!Kinds
<1>5. r.token <= Len(token) /\ r.state <= states'
  BY <1>1 DEF AdsInv, AdsTyped
<1> QED
  BY <1>1, <1>2, <1>3, <1>4, <1>5, Begun

-----------------------------------------------------------------------------
(* Going on and ending                                                     *)

\* A handler that goes on as it was is still as it was.
LEMMA Going ==
    ASSUME AdsInv, Grows, NEW q \in Requests, NEW stage \in M!Stages, M!Goes(q, stage),
           \/ handler[q].stage = "exchange" /\ stage = "commit"
           \/ handler[q].stage \in M!Parts /\ stage \in Making,
           stage \in {"creative", "ad"} => "adset" \in campaign'[handler[q].made].parts,
           stage = "ad" => "creative" \in campaign'[handler[q].made].parts
    PROVE  \E new \in Handling :
             /\ Newly(q, new) /\ new.made = handler[q].made /\ new.kind # "start"
<1>1. PICK new \in Handling :
        /\ Becomes(q, new) /\ new.stage = stage /\ new.kind = handler[q].kind
        /\ new.read = handler[q].read /\ new.want = handler[q].want
        /\ new.token = handler[q].token /\ new.made = handler[q].made
  BY GoesOn DEF AdsInv
<1> PICK r \in Handling : r = handler[q]
  BY DEF AdsInv, AdsTyped
<1>2. HandlerHolds(r) /\ HandlerHolds(r)'
  BY HoldsOn DEF AdsInv, Holding
<1>3. r.kind # "start"
  BY <1>2 DEF HandlerHolds, Signed, Calling
<1>4. Signed(new)'
  BY <1>1, <1>2 DEF HandlerHolds, Signed, Calling, Making, M!Parts
<1>5. Made(new)'
  BY <1>1, <1>2 DEF HandlerHolds, Made, Making, M!Parts
<1>6. Stated(new)' /\ Delivers(new)'
  BY <1>1, <1>2 DEF HandlerHolds, Stated, Delivers
<1>7. ASSUME ~torn' PROVE Good(new.read)' /\ Good(new.want)'
  BY <1>1, <1>7, GoodLater, RequestFields DEF Grows, StatesGrow
<1> QED
  BY <1>1, <1>3, <1>4, <1>5, <1>6, <1>7 DEF Newly, HandlerHolds

LEMMA Ending ==
    ASSUME AdsInv, Grows, NEW q \in Requests, M!Ends(q)
    PROVE  Newly(q, M!Idle)
<1>1. Becomes(q, M!Idle)
  BY DEF M!Ends, Becomes
<1>2. 0 <= Len(token') /\ 0 <= states'
  BY DEF Grows, TokensAge, StatesGrow
<1>3. HandlerHolds(M!Idle)'
  BY <1>2, Resting, NoRowIs DEF HandlerHolds, Signed, Made, Stated, Delivers, Calling, Making, M!Parts
<1>4. Good(M!NoRow)'
  BY NoRowIs DEF Good, Off
<1> QED
  BY <1>1, <1>3, <1>4, Resting, NoRowIs DEF Newly

\* A step that touches none of the tables.
LEMMA StillGrows ==
    ASSUME AdsInv, UNCHANGED <<row, token, campaign, states, spent, torn>>,
           cut \subseteq cut', cut' \subseteq DOMAIN campaign
    PROVE  Grows
<1>1. TokensAge /\ StatesGrow
  BY TokensRest, StatesRest DEF AdsInv
<1>2. CampaignsGrow
  BY DEF AdsInv, AdsTyped, CampaignsGrow
<1> QED
  BY <1>1, <1>2, RowRests DEF Grows, AdsInv

LEMMA Quiet ==
    ASSUME AdsInv, UNCHANGED <<row, token, campaign, states, spent, torn>>,
           cut \subseteq cut', cut' \subseteq DOMAIN campaign, NEW q \in Requests,
           NEW new \in Handling, Newly(q, new),
           handler[q].made # 0 => new.made = handler[q].made \/ handler[q].made \in cut'
    PROVE  AdsInv'
BY TokensRest, Steady DEF AdsInv

LEMMA GivesUp ==
    ASSUME AdsInv, NEW q \in Requests,
           \/ UNCHANGED cut
           \/ cut' = IF handler[q].made # 0 THEN cut \cup {handler[q].made} ELSE cut
    PROVE  cut \subseteq cut' /\ cut' \subseteq DOMAIN campaign
BY DEF AdsInv, AdsTyped, Holding, HandlerHolds, Made

LEMMA DropStep ==
    ASSUME AdsInv, NEW q \in Requests, M!Drops(q) \/ M!LeavesPage(q) PROVE AdsInv'
<1>1. UNCHANGED <<row, token, campaign, states, spent, torn>> /\ M!Ends(q)
  BY DEF M!Drops, M!LeavesPage
<1>2. /\ \/ UNCHANGED cut
         \/ cut' = IF handler[q].made # 0 THEN cut \cup {handler[q].made} ELSE cut
      /\ handler[q].made # 0 => handler[q].made \in cut'
  BY DEF M!Drops, M!LeavesPage, AdsInv, Holding, HandlerHolds, Made, Making, M!Parts
<1>3. cut \subseteq cut' /\ cut' \subseteq DOMAIN campaign
  BY <1>2, GivesUp
<1>4. Grows
  BY <1>1, <1>3, StillGrows
<1> QED
  BY <1>1, <1>2, <1>3, <1>4, Ending, Resting, Quiet

LEMMA ExchangeFailsStep == ASSUME AdsInv, NEW q \in Requests, M!ExchangeFails(q) PROVE AdsInv'
<1>1. /\ UNCHANGED <<row, token, campaign, states, spent, torn, cut>>
      /\ handler[q].stage = "exchange" /\ M!Goes(q, "commit")
  BY DEF M!ExchangeFails
<1>2. Grows
  BY <1>1, StillGrows DEF AdsInv, AdsTyped
<1>3. \E new \in Handling : Newly(q, new) /\ new.made = handler[q].made
  BY <1>1, <1>2, Going DEF M!Stages
<1> QED
  BY <1>1, <1>3, Quiet DEF AdsInv, AdsTyped

LEMMA PartRefusedStep == ASSUME AdsInv, NEW q \in Requests, M!PartRefused(q) PROVE AdsInv'
<1>1. /\ UNCHANGED <<row, token, campaign, states, spent, torn, cut>>
      /\ handler[q].stage \in M!Parts /\ M!Goes(q, "undo")
  BY DEF M!PartRefused, M!Undone
<1>2. Grows
  BY <1>1, StillGrows DEF AdsInv, AdsTyped
<1>3. \E new \in Handling : Newly(q, new) /\ new.made = handler[q].made
  BY <1>1, <1>2, Going DEF M!Stages, Making
<1> QED
  BY <1>1, <1>3, Quiet DEF AdsInv, AdsTyped

-----------------------------------------------------------------------------
(* What calls and logins come to                                           *)

\* A call that works, or is refused, is followed by a commit.
LEMMA Resolved ==
    ASSUME AdsInv, UNCHANGED <<row, token, campaign, states, spent, torn>>,
           NEW q \in Requests, NEW want \in M!Row, NEW r \in Handling, r = handler[q],
           r.stage \in Calling, M!Wants(q, want),
           want.token = r.read.token, want.state = r.read.state,
           want.live => want.page # M!None, want.page # r.read.page => want.page # M!None,
           ~torn => Good(want),
           \/ UNCHANGED cut /\ r.made = 0
           \/ cut' = IF handler[q].made # 0 THEN cut \cup {handler[q].made} ELSE cut
    PROVE  AdsInv'
<1>1. PICK new \in Handling :
        /\ Becomes(q, new) /\ new.stage = "commit" /\ new.kind = r.kind
        /\ new.read = r.read /\ new.want = want
        /\ new.token = r.token /\ new.made = r.made
  BY WantsNow DEF AdsInv
<1>2. /\ cut \subseteq cut' /\ cut' \subseteq DOMAIN campaign
      /\ r.made # 0 => r.made \in cut'
  BY GivesUp
<1>3. Grows
  BY <1>2, StillGrows
<1>4. HandlerHolds(r) /\ HandlerHolds(r)'
  BY <1>3, HoldsOn DEF AdsInv, Holding
<1>5. r.kind \notin {"start", "callback"}
  BY <1>4 DEF HandlerHolds, Signed
<1>6. Signed(new)'
  BY <1>1, <1>4, <1>5 DEF HandlerHolds, Signed, Calling, M!Parts
<1>7. Made(new)'
  BY <1>1, <1>2, <1>4 DEF HandlerHolds, Made, Making, M!Parts
<1>8. Stated(new)' /\ Delivers(new)'
  BY <1>1, <1>4, <1>5 DEF HandlerHolds, Stated, Delivers
<1>9. ASSUME ~torn' PROVE Good(new.read)' /\ Good(new.want)'
  <2>1. Good(new.read)'
    BY <1>1, <1>3, <1>9, GoodLater, RequestFields DEF Grows, StatesGrow
  <2>2. Good(want)'
    BY <1>9 DEF Good
  <2> QED
    BY <1>1, <2>1, <2>2
<1>10. Newly(q, new)
  BY <1>1, <1>5, <1>6, <1>7, <1>8, <1>9 DEF Newly, HandlerHolds
<1> QED
  BY <1>1, <1>2, <1>10, Quiet

LEMMA TokenRefusedStep == ASSUME AdsInv, NEW q \in Requests, M!TokenRefused(q) PROVE AdsInv'
<1> PICK r \in Handling : r = handler[q]
  BY DEF AdsInv, AdsTyped
<1> PICK read \in M!Row : read = r.read
  BY RequestFields
<1> DEFINE want == [read EXCEPT !.status = "reauth_required"]
<1>1. /\ UNCHANGED <<row, token, campaign, states, spent, torn>>
      /\ r.stage \in Calling /\ ~token[r.token].works /\ M!Wants(q, want)
      /\ cut' = IF handler[q].made # 0 THEN cut \cup {handler[q].made} ELSE cut
  BY DEF M!TokenRefused, Calling, M!Parts
<1>2. /\ want \in M!Row /\ want.status = "reauth_required" /\ want.token = read.token
      /\ want.account = read.account /\ want.page = read.page /\ want.live = read.live
      /\ want.state = read.state
  BY DEF M!Row, M!Statuses
<1> HIDE DEF want
<1>3. Signed(r) /\ Delivers(r)
  BY DEF AdsInv, Holding, HandlerHolds
<1>4. ASSUME ~torn PROVE Good(want)
  <2>1. Good(read)
    BY <1>4 DEF AdsInv, LoginWhole
  <2>2. read.token # 0 /\ ~token[read.token].works
    BY <1>1, <1>3 DEF Signed
  <2> QED
    BY <1>2, <2>1, <2>2 DEF Good, Off
<1> QED
  BY <1>1, <1>2, <1>3, <1>4, Resolved DEF Delivers

LEMMA SelectAccountStep ==
    ASSUME AdsInv, NEW q \in Requests, M!SelectAccount(q), M!LoginsAreReal PROVE AdsInv'
<1> PICK r \in Handling : r = handler[q]
  BY DEF AdsInv, AdsTyped
<1> PICK read \in M!Row : read = r.read
  BY RequestFields
<1>1. Signed(r) /\ Delivers(r) /\ Made(r)
  BY DEF AdsInv, Holding, HandlerHolds
<1>2. /\ UNCHANGED <<row, token, campaign, states, spent, torn, cut>>
      /\ r.stage = "calling"
  BY DEF M!SelectAccount, M!Works
<1>3. r.stage \in Calling /\ r.token = read.token /\ r.token # 0 /\ r.made = 0
  BY <1>1, <1>2 DEF Calling, Signed, Made, Making, M!Parts
<1>4. PICK l \in Logins : l = token[read.token].login
  <2>1. read.token \in 1 .. Len(token)
    BY <1>1, <1>3, RowFields, Lengths DEF AdsInv, Signed
  <2>2. token[read.token] \in Token
    BY <2>1, Lengths DEF AdsInv
  <2> QED
    BY <2>2 DEF Token
<1>5. PICK j \in DOMAIN AccountsOf[l] : M!Wants(q, [read EXCEPT !.account = AccountsOf[l][j]])
  BY <1>3, <1>4 DEF M!SelectAccount
<1> DEFINE want == [read EXCEPT !.account = AccountsOf[l][j]]
<1>6. AccountsOf[l][j] \in M!Accounts
  BY <1>5 DEF M!Accounts
<1>7. /\ want \in M!Row /\ want.status = read.status /\ want.token = read.token
      /\ want.account = AccountsOf[l][j] /\ want.page = read.page /\ want.live = read.live
      /\ want.state = read.state
  BY <1>6 DEF M!Row
<1>8. M!Wants(q, want)
  BY <1>5
<1> HIDE DEF want
<1>9. ASSUME ~torn PROVE Good(want)
  <2>1. Good(read)
    BY <1>9 DEF AdsInv, LoginWhole
  <2> QED
    BY <1>4, <1>5, <1>7, <2>1 DEF Good
<1> QED
  BY <1>1, <1>2, <1>3, <1>7, <1>8, <1>9, Resolved DEF Delivers

\* The Page a login administers, on the row read.
LEMMA PagedRow ==
    ASSUME M!LoginsAreReal, NEW l \in Logins, NEW p \in PagesOf[l], NEW live \in BOOLEAN,
           NEW read \in M!Row, NEW want, want = M!Paged(read, p, live)
    PROVE  /\ want \in M!Row /\ want.status = read.status /\ want.token = read.token
           /\ want.account = read.account /\ want.page # M!None /\ want.state = read.state
<1>1. p \in M!Pages /\ p # M!None
  BY DEF M!Pages, M!LoginsAreReal
<1> QED
  BY <1>1 DEF M!Paged, M!Row

LEMMA SelectPageStep ==
    ASSUME AdsInv, NEW q \in Requests, M!SelectPage(q), M!LoginsAreReal PROVE AdsInv'
<1> PICK r \in Handling : r = handler[q]
  BY DEF AdsInv, AdsTyped
<1> PICK read \in M!Row : read = r.read
  BY RequestFields
<1>1. Signed(r) /\ Made(r)
  BY DEF AdsInv, Holding, HandlerHolds
<1>2. /\ UNCHANGED <<row, token, campaign, states, spent, torn, cut>>
      /\ r.stage = "calling"
  BY DEF M!SelectPage, M!Works
<1>3. r.stage \in Calling /\ r.token = read.token /\ r.token # 0 /\ r.made = 0
  BY <1>1, <1>2 DEF Calling, Signed, Made, Making, M!Parts
<1>4. PICK l \in Logins : l = token[r.token].login
  <2>1. r.token \in 1 .. Len(token)
    BY <1>1, <1>3, RowFields, Lengths DEF AdsInv, Signed
  <2>2. token[r.token] \in Token
    BY <2>1, Lengths DEF AdsInv
  <2> QED
    BY <2>2 DEF Token
<1>5. PICK p \in PagesOf[l], live \in BOOLEAN : M!Wants(q, M!Paged(read, p, live))
  BY <1>4 DEF M!SelectPage
<1>6. PICK want : want = M!Paged(read, p, live)
  OBVIOUS
<1>7. /\ want \in M!Row /\ want.status = read.status /\ want.token = read.token
      /\ want.account = read.account /\ want.page # M!None /\ want.state = read.state
  BY <1>5, <1>6, PagedRow
<1>8. ASSUME ~torn PROVE Good(want)
  <2>1. Good(read)
    BY <1>8 DEF AdsInv, LoginWhole
  <2> QED
    BY <1>7, <2>1 DEF Good
<1> QED
  BY <1>2, <1>3, <1>5, <1>6, <1>7, <1>8, Resolved

LEMMA ChosenIsOwn ==
    ASSUME M!LoginsAreReal, NEW l \in Logins, NEW acc \in M!Accounts \cup {M!None}
    PROVE  /\ M!Chosen(l, acc) \in M!Accounts \cup {M!None}
           /\ M!Chosen(l, acc) # M!None =>
                \E j \in DOMAIN AccountsOf[l] : AccountsOf[l][j] = M!Chosen(l, acc)
<1>1. AccountsOf[l] \in Seq(M!Accounts)
  BY DEF M!LoginsAreReal
<1>2. CASE AccountsOf[l] = <<>>
  BY <1>2 DEF M!Chosen
<1>3. CASE AccountsOf[l] # <<>>
  <2>1. 1 \in DOMAIN AccountsOf[l] /\ AccountsOf[l][1] \in M!Accounts
    BY <1>1, <1>3
  <2> QED
    BY <2>1 DEF M!Chosen
<1> QED
  BY <1>2, <1>3

LEMMA ExchangedStep ==
    ASSUME AdsInv, NEW q \in Requests, M!Exchanged(q), M!LoginsAreReal PROVE AdsInv'
<1> PICK r \in Handling : r = handler[q]
  BY DEF AdsInv, AdsTyped
<1> PICK read \in M!Row : read = r.read
  BY RequestFields
<1> PICK n \in Nat : n = Len(token) + 1
  BY Lengths DEF AdsInv
<1>1. PICK l \in Logins :
        /\ token' = Append(token, [login |-> l, works |-> TRUE])
        /\ handler' = [handler EXCEPT ![q].stage = "commit", ![q].token = n,
                                      ![q].want = M!Connected(read, n, l)]
  BY DEF M!Exchanged
<1>2. UNCHANGED <<row, campaign, states, spent, torn, cut>> /\ r.stage = "exchange"
  BY DEF M!Exchanged
<1>3. Signed(r) /\ Made(r) /\ Stated(r) /\ Delivers(r)
  BY DEF AdsInv, Holding, HandlerHolds
<1>4. /\ token' \in Seq(Token) /\ Len(token') = n /\ token'[n].login = l
      /\ \A k \in 1 .. Len(token) : token'[k] = token[k]
  <2>1. [login |-> l, works |-> TRUE] \in Token /\ [login |-> l, works |-> TRUE].login = l
    BY DEF Token
  <2>2. PICK t \in Token : t.login = l /\ token' = Append(token, t)
    BY <1>1, <2>1
  <2>3. /\ token' \in Seq(Token) /\ Len(token') = n /\ token'[n] = t
        /\ \A k \in 1 .. Len(token) : token'[k] = token[k]
    BY <2>2 DEF AdsInv, AdsTyped
  <2> QED
    BY <2>2, <2>3
<1>5. TokensAge
  BY <1>4, Lengths DEF TokensAge, AdsInv
<1>6. PICK acc \in M!Accounts \cup {M!None} :
        /\ acc = M!Chosen(l, read.account)
        /\ acc # M!None => \E j \in DOMAIN AccountsOf[l] : AccountsOf[l][j] = acc
  BY RowFields, ChosenIsOwn
<1> DEFINE want == [read EXCEPT !.state = 0, !.token = n, !.account = acc,
                                !.status = "connected"]
           new == [r EXCEPT !.stage = "commit", !.token = n, !.want = want]
<1>7. M!Connected(read, n, l) = want
  BY <1>6 DEF M!Connected, M!Returned, M!Row
<1>8. /\ want \in M!Row /\ want.state = 0 /\ want.token = n /\ want.account = acc
      /\ want.status = "connected" /\ want.page = read.page /\ want.live = read.live
  BY DEF M!Row, M!Statuses
<1>9. Becomes(q, new)
  BY <1>1, <1>7 DEF Becomes, Handling
<1> HIDE DEF want
<1>10. /\ new \in Handling /\ new.stage = "commit" /\ new.token = n /\ new.want = want
       /\ new.kind = r.kind /\ new.read = read /\ new.made = r.made
  BY <1>8 DEF Handling, M!Stages
<1> HIDE DEF new
<1>11. /\ n \in Nat /\ n # 0 /\ read.token \in Nat /\ read.token <= Len(token)
       /\ Len(token) \in Nat /\ states \in Nat
  BY <1>3, RowFields, Lengths DEF AdsInv, AdsTyped, Signed
<1>12. r.kind = "callback" /\ r.made = 0
  BY <1>2, <1>3 DEF Signed, Made
<1>13. Signed(new)'
  BY <1>4, <1>8, <1>10, <1>11, <1>12 DEF Signed, Calling, M!Parts
<1>14. Made(new)'
  BY <1>10, <1>12 DEF Made, Making, M!Parts
<1>15. Stated(new)'
  BY <1>2, <1>3, <1>8, <1>10, <1>11, <1>12 DEF Stated
<1>16. Delivers(new)'
  BY <1>2, <1>3, <1>8, <1>10 DEF Delivers
<1>17. ASSUME ~torn' PROVE Good(new.read)' /\ Good(new.want)'
  <2>1. Good(read)'
    BY <1>2, <1>5, <1>17, GoodLater
  <2>2. Good(want)'
    BY <1>4, <1>6, <1>8, <1>11 DEF Good, Off
  <2> QED
    BY <1>10, <2>1, <2>2
<1>18. Newly(q, new)
  BY <1>9, <1>10, <1>12, <1>13, <1>14, <1>15, <1>16, <1>17 DEF Newly, HandlerHolds
<1> QED
  BY <1>2, <1>5, <1>10, <1>12, <1>18, Steady DEF AdsInv, AdsTyped

LEMMA KeepsPageStep ==
    ASSUME AdsInv, NEW q \in Requests, M!KeepsPage(q), M!LoginsAreReal PROVE AdsInv'
<1> PICK r \in Handling : r = handler[q]
  BY DEF AdsInv, AdsTyped
<1> PICK read \in M!Row : read = r.read
  BY RequestFields
<1>1. Signed(r) /\ Made(r) /\ Stated(r) /\ Delivers(r)
  BY DEF AdsInv, Holding, HandlerHolds
<1>2. /\ UNCHANGED <<row, token, campaign, states, spent, torn, cut>> /\ r.stage = "pages"
  BY DEF M!KeepsPage
<1>3. r.token # 0 /\ r.token = read.token /\ r.made = 0
  BY <1>1, <1>2 DEF Signed, Made, Making, M!Parts
<1>4. PICK l \in Logins : l = token[r.token].login
  <2>1. r.token \in 1 .. Len(token)
    BY <1>1, <1>3, RowFields, Lengths DEF AdsInv, Signed
  <2>2. token[r.token] \in Token
    BY <2>1, Lengths DEF AdsInv
  <2> QED
    BY <2>2 DEF Token
<1>5. PICK p \in PagesOf[l], live \in BOOLEAN :
        handler' = [handler EXCEPT ![q].stage = "commit", ![q].kind = "page",
                                   ![q].want = M!Paged(read, p, live)]
  BY <1>4 DEF M!KeepsPage
<1>6. PICK want : want = M!Paged(read, p, live)
  OBVIOUS
<1>7. /\ want \in M!Row /\ want.status = read.status /\ want.token = read.token
      /\ want.account = read.account /\ want.page # M!None /\ want.state = read.state
  BY <1>5, <1>6, PagedRow
<1> DEFINE new == [r EXCEPT !.stage = "commit", !.kind = "page", !.want = want]
<1>8. Becomes(q, new)
  BY <1>5, <1>6 DEF Becomes, Handling
<1>9. /\ new \in Handling /\ new.stage = "commit" /\ new.kind = "page" /\ new.want = want
      /\ new.read = read /\ new.token = r.token /\ new.made = r.made
  BY <1>7 DEF Handling, M!Stages, M!Kinds
<1> HIDE DEF new
<1>10. Signed(new)' /\ Made(new)' /\ Stated(new)' /\ Delivers(new)'
  BY <1>1, <1>2, <1>3, <1>7, <1>9
     DEF Signed, Made, Stated, Delivers, Calling, Making, M!Parts
<1>11. ASSUME ~torn' PROVE Good(new.read)' /\ Good(new.want)'
  <2>1. Good(read)'
    BY <1>2, <1>11, TokensRest, GoodLater DEF AdsInv
  <2> QED
    BY <1>7, <1>9, <2>1 DEF Good
<1>12. Newly(q, new)
  BY <1>3, <1>8, <1>9, <1>10, <1>11 DEF Newly, HandlerHolds
<1> QED
  BY <1>2, <1>3, <1>9, <1>12, Quiet DEF AdsInv, AdsTyped

LEMMA TokenDiesStep == ASSUME AdsInv, NEW k \in DOMAIN token, M!TokenDies(k) PROVE AdsInv'
<1>1. UNCHANGED <<row, campaign, handler, states, spent, torn, cut, calls>>
  BY DEF M!TokenDies
<1>2. /\ token' \in Seq(Token) /\ Len(token') = Len(token)
      /\ \A i \in 1 .. Len(token) : token'[i].login = token[i].login
                                    /\ (token'[i].works => token[i].works)
  <2> DEFINE dead == [token[k] EXCEPT !.works = FALSE]
  <2>1. dead \in Token /\ dead.login = token[k].login /\ ~dead.works
    BY Lengths DEF Token, AdsInv
  <2>2. token' = [token EXCEPT ![k] = dead]
    BY DEF M!TokenDies
  <2> HIDE DEF dead
  <2> QED
    BY <2>1, <2>2 DEF AdsInv, AdsTyped
<1>3. TokensAge
  BY <1>2, Lengths DEF TokensAge, AdsInv
<1>4. AdsTyped' /\ Holding' /\ BuildsApart' /\ StatesFresh' /\ M!HalfBuiltIsDeleted'
  BY <1>1, <1>2 DEF AdsInv, AdsTyped, Holding, BuildsApart, StatesFresh, M!HalfBuiltIsDeleted, M!Building,
                    HandlerHolds, Signed, Made, Stated, Delivers
<1>5. LoginWhole'
  <2> SUFFICES ASSUME ~torn', NEW x \in M!Row, Good(x), x.token <= Len(token)
               PROVE  Good(x)'
    <3>1. ~torn' => Good(row)'
      <4>1. PICK x \in M!Row : x = row
        BY DEF AdsInv, AdsTyped
      <4>2. x.token <= Len(token) /\ (~torn => Good(x))
        BY <4>1 DEF AdsInv, AdsTyped, LoginWhole
      <4> QED
        BY <1>1, <4>1, <4>2 DEF Good
    <3>2. ASSUME NEW p \in Requests, ~torn'
          PROVE  Good(handler[p].read)' /\ Good(handler[p].want)'
      <4>1. PICK r \in Handling : r = handler[p]
        BY DEF AdsInv, AdsTyped
      <4>2. /\ r.read \in M!Row /\ r.want \in M!Row
            /\ r.read.token <= Len(token) /\ r.want.token <= Len(token)
            /\ Good(r.read) /\ Good(r.want)
        BY <1>1, <3>2, <4>1, RequestFields DEF AdsInv, Holding, HandlerHolds, Signed, LoginWhole
      <4>3. Good(r.read)' /\ Good(r.want)'
        BY <3>2, <4>2
      <4> QED
        BY <1>1, <4>1, <4>3 DEF Good
    <3> QED
      BY <3>1, <3>2 DEF LoginWhole
  <2> QED
    BY <1>3, GoodStays DEF AdsInv
<1> QED
  BY <1>4, <1>5 DEF AdsInv

-----------------------------------------------------------------------------
(* Campaigns                                                               *)

LEMMA OneCampaign ==
    ASSUME AdsInv, NEW c \in DOMAIN campaign, NEW d \in Campaign,
           campaign' = [campaign EXCEPT ![c] = d], campaign[c].parts \subseteq d.parts,
           UNCHANGED <<row, token, states, spent, torn>>,
           cut \subseteq cut', cut' \subseteq DOMAIN campaign
    PROVE  /\ Grows /\ Len(campaign') = Len(campaign) /\ campaign'[c] = d
           /\ DOMAIN campaign' = DOMAIN campaign
           /\ \A e \in DOMAIN campaign : e # c => campaign'[e] = campaign[e]
<1>1. /\ campaign' \in Seq(Campaign) /\ Len(campaign') = Len(campaign)
      /\ DOMAIN campaign' = DOMAIN campaign /\ campaign'[c] = d
      /\ \A e \in DOMAIN campaign : e # c => campaign'[e] = campaign[e]
  BY DEF AdsInv, AdsTyped
<1>2. CampaignsGrow
  BY <1>1, Lengths DEF CampaignsGrow, AdsInv
<1>3. TokensAge /\ StatesGrow
  BY TokensRest, StatesRest DEF AdsInv
<1> QED
  BY <1>1, <1>2, <1>3, RowRests DEF Grows, AdsInv

LEMMA CampaignFields ==
    ASSUME NEW d \in Campaign
    PROVE  /\ d.account \in M!Accounts /\ d.status \in {"PAUSED", "ACTIVE", "DELETED"}
           /\ d.parts \in SUBSET M!Parts
BY DEF Campaign

LEMMA SwitchStep == ASSUME AdsInv, NEW q \in Requests, M!Switch(q) PROVE AdsInv'
<1>1. PICK c \in DOMAIN campaign, s \in {"ACTIVE", "PAUSED"} :
        campaign[c].status # "DELETED" /\ campaign' = [campaign EXCEPT ![c].status = s]
  BY DEF M!Switch
<1>2. /\ UNCHANGED <<row, token, states, spent, torn, cut>> /\ M!Ends(q)
      /\ handler[q].stage = "calling"
  BY DEF M!Switch, M!Works
<1>3. PICK e \in Campaign : e = campaign[c]
  BY Lengths DEF AdsInv
<1> DEFINE d == [e EXCEPT !.status = s]
<1>4. d \in Campaign /\ d.parts = e.parts /\ campaign' = [campaign EXCEPT ![c] = d]
  BY <1>1, <1>3 DEF Campaign
<1> HIDE DEF d
<1>5. /\ Grows /\ campaign'[c] = d /\ DOMAIN campaign' = DOMAIN campaign
      /\ \A o \in DOMAIN campaign : o # c => campaign'[o] = campaign[o]
  BY <1>2, <1>3, <1>4, OneCampaign DEF AdsInv, AdsTyped
<1>6. Newly(q, M!Idle) /\ RowServes(q)
  BY <1>2, <1>5, Ending, RowKept
<1>7. handler[q].made = 0
  BY <1>2 DEF AdsInv, Holding, HandlerHolds, Made, Making, M!Parts
<1>8. \A o \in DOMAIN campaign : M!Building(o) => M!Building(o)'
  <2>1. \A p \in Requests : p # q => handler'[p] = handler[p]
    BY <1>6, Others, Resting DEF Newly, AdsInv
  <2> QED
    BY <1>7, <2>1, Lengths DEF M!Building, AdsInv
<1>9. M!HalfBuiltIsDeleted'
  BY <1>1, <1>2, <1>3, <1>4, <1>5, <1>8 DEF AdsInv, M!HalfBuiltIsDeleted
<1> QED
  BY <1>2, <1>5, <1>6, <1>9, Resting, Onward

LEMMA UndoStep == ASSUME AdsInv, NEW q \in Requests, M!Undo(q) PROVE AdsInv'
<1> PICK c \in DOMAIN campaign : c = handler[q].made
  BY DEF M!Undo, AdsInv, Holding, HandlerHolds, Made, Making
<1>1. /\ UNCHANGED <<row, token, states, spent, torn>> /\ M!Ends(q)
  BY DEF M!Undo
<1>2. CASE cut' = cut \cup {c} /\ UNCHANGED campaign
  <2>1. cut \subseteq cut' /\ cut' \subseteq DOMAIN campaign
    BY <1>2 DEF AdsInv, AdsTyped
  <2>2. Grows
    BY <1>1, <1>2, <2>1, StillGrows
  <2> QED
    BY <1>1, <1>2, <2>1, <2>2, Ending, Resting, Quiet
<1>3. CASE campaign' = [campaign EXCEPT ![c].status = "DELETED"] /\ UNCHANGED cut
  <2>1. PICK e \in Campaign : e = campaign[c]
    BY Lengths DEF AdsInv
  <2> DEFINE d == [e EXCEPT !.status = "DELETED"]
  <2>2. /\ d \in Campaign /\ d.parts = e.parts /\ d.status = "DELETED"
        /\ campaign' = [campaign EXCEPT ![c] = d]
    BY <1>3, <2>1 DEF Campaign
  <2> HIDE DEF d
  <2>3. /\ Grows /\ campaign'[c] = d /\ DOMAIN campaign' = DOMAIN campaign
        /\ \A o \in DOMAIN campaign : o # c => campaign'[o] = campaign[o]
    BY <1>1, <1>3, <2>1, <2>2, OneCampaign DEF AdsInv, AdsTyped
  <2>4. Newly(q, M!Idle) /\ RowServes(q)
    BY <1>1, <2>3, Ending, RowKept
  <2>5. \A o \in DOMAIN campaign : o # c /\ M!Building(o) => M!Building(o)'
    <3>1. \A p \in Requests : p # q => handler'[p] = handler[p]
      BY <2>4, Others, Resting DEF Newly, AdsInv
    <3> QED
      BY <3>1 DEF M!Building
  <2>6. M!HalfBuiltIsDeleted'
    BY <1>3, <2>2, <2>3, <2>5 DEF AdsInv, M!HalfBuiltIsDeleted
  <2> QED
    BY <1>1, <2>3, <2>4, <2>6, Resting, Onward
<1> QED
  BY <1>2, <1>3 DEF M!Undo

LEMMA CreatePartStep == ASSUME AdsInv, NEW q \in Requests, M!CreatePart(q) PROVE AdsInv'
<1> PICK r \in Handling : r = handler[q]
  BY DEF AdsInv, AdsTyped
<1>1. /\ UNCHANGED <<row, token, states, spent, torn, cut>> /\ r.stage \in M!Parts
      /\ campaign' = [campaign EXCEPT ![r.made].parts = @ \cup {r.stage}]
      /\ IF r.stage = "ad" THEN M!Ends(q) ELSE M!Goes(q, M!NextPart(r.stage))
  BY DEF M!CreatePart
<1>2. Made(r)
  BY DEF AdsInv, Holding, HandlerHolds
<1> PICK c \in DOMAIN campaign : c = r.made
  BY <1>1, <1>2 DEF Made, Making
<1>3. PICK e \in Campaign : e = campaign[c]
  BY Lengths DEF AdsInv
<1> DEFINE d == [e EXCEPT !.parts = @ \cup {r.stage}]
<1>4. /\ d \in Campaign /\ d.parts = e.parts \cup {r.stage} /\ d.status = e.status
      /\ campaign' = [campaign EXCEPT ![c] = d]
  BY <1>1, <1>3 DEF Campaign
<1> HIDE DEF d
<1>5. /\ Grows /\ campaign'[c] = d /\ DOMAIN campaign' = DOMAIN campaign
      /\ \A o \in DOMAIN campaign : o # c => campaign'[o] = campaign[o]
  BY <1>1, <1>3, <1>4, OneCampaign DEF AdsInv, AdsTyped
<1>6. RowServes(q)
  BY <1>1, <1>5, RowKept
<1>7. CASE r.stage = "ad"
  <2>1. Newly(q, M!Idle)
    BY <1>1, <1>5, <1>7, Ending
  <2>2. d.parts = M!Parts
    BY <1>2, <1>3, <1>4, <1>7, CampaignFields DEF Made, M!Parts
  <2>3. \A o \in DOMAIN campaign : o # c /\ M!Building(o) => M!Building(o)'
    <3>1. \A p \in Requests : p # q => handler'[p] = handler[p]
      BY <2>1, Others, Resting DEF Newly, AdsInv
    <3> QED
      BY <3>1 DEF M!Building
  <2>4. M!HalfBuiltIsDeleted'
    BY <1>1, <1>5, <2>2, <2>3 DEF AdsInv, M!HalfBuiltIsDeleted
  <2> QED
    BY <1>1, <1>5, <1>6, <2>1, <2>4, Resting, Onward
<1>8. CASE r.stage # "ad"
  <2>1. PICK stage \in {"creative", "ad"} :
          /\ M!Goes(q, stage) /\ stage \in Making /\ stage \in M!Stages
          /\ "adset" \in d.parts /\ (stage = "ad" => "creative" \in d.parts)
    <3>1. CASE r.stage = "adset"
      BY <1>1, <1>4, <1>8, <3>1 DEF M!NextPart, Making, M!Parts, M!Stages
    <3>2. CASE r.stage = "creative"
      BY <1>1, <1>2, <1>3, <1>4, <1>8, <3>2 DEF M!NextPart, Making, M!Parts, M!Stages, Made
    <3> QED
      BY <1>1, <1>8, <3>1, <3>2 DEF M!Parts
  <2>2. PICK new \in Handling : Newly(q, new) /\ new.made = r.made /\ new.kind # "start"
    BY <1>1, <1>5, <2>1, Going
  <2>3. \A o \in DOMAIN campaign : M!Building(o) => M!Building(o)'
    <3>1. handler'[q] = new /\ \A p \in Requests : p # q => handler'[p] = handler[p]
      BY <2>2, Others DEF Newly, AdsInv
    <3> QED
      BY <2>2, <3>1 DEF M!Building
  <2>4. M!Building(c)
    BY DEF M!Building
  <2>5. M!HalfBuiltIsDeleted'
    BY <1>1, <1>5, <2>3, <2>4 DEF AdsInv, M!HalfBuiltIsDeleted
  <2> QED
    BY <1>5, <1>6, <2>2, <2>5, Onward
<1> QED
  BY <1>7, <1>8

LEMMA CreateCampaignStep == ASSUME AdsInv, NEW q \in Requests, M!CreateCampaign(q) PROVE AdsInv'
<1> PICK r \in Handling : r = handler[q]
  BY DEF AdsInv, AdsTyped
<1> PICK n \in Nat : n = Len(campaign) + 1
  BY Lengths DEF AdsInv
<1>1. /\ UNCHANGED <<row, token, states, spent, torn, cut>>
      /\ r.stage = "calling" /\ r.kind = "build"
      /\ campaign' = Append(campaign, [account |-> r.read.account,
                                        status |-> "PAUSED", parts |-> {}])
      /\ handler' = [handler EXCEPT ![q].stage = "adset", ![q].made = n]
  BY DEF M!CreateCampaign, M!Works
<1>2. Signed(r) /\ Made(r) /\ Stated(r) /\ Delivers(r)
  BY DEF AdsInv, Holding, HandlerHolds
<1>3. r.read.account \in M!Accounts
  BY <1>1, <1>2, RequestFields, RowFields DEF Made
<1>4. /\ campaign' \in Seq(Campaign) /\ Len(campaign') = n
      /\ \A c \in 1 .. Len(campaign) : campaign'[c] = campaign[c]
  <2>1. [account |-> r.read.account, status |-> "PAUSED", parts |-> {}] \in Campaign
    BY <1>3 DEF Campaign
  <2>2. PICK d \in Campaign : campaign' = Append(campaign, d)
    BY <1>1, <2>1
  <2> QED
    BY <2>2 DEF AdsInv, AdsTyped
<1>5. /\ Len(campaign) \in Nat /\ DOMAIN campaign = 1 .. Len(campaign)
      /\ DOMAIN campaign' = 1 .. n
  BY <1>4, Lengths DEF AdsInv
<1>6. Grows
  <2>1. CampaignsGrow
    BY <1>1, <1>4, <1>5 DEF CampaignsGrow, AdsInv, AdsTyped
  <2>2. TokensAge /\ StatesGrow
    BY <1>1, TokensRest, StatesRest DEF AdsInv
  <2> QED
    BY <1>1, <2>1, <2>2, RowRests DEF Grows, AdsInv
<1> DEFINE new == [r EXCEPT !.stage = "adset", !.made = n]
<1>7. Becomes(q, new)
  BY <1>1 DEF Becomes, Handling
<1>8. /\ new \in Handling /\ new.stage = "adset" /\ new.made = n /\ new.kind = "build"
      /\ new.read = r.read /\ new.want = r.want /\ new.token = r.token
  BY <1>1 DEF Handling, M!Stages
<1> HIDE DEF new
<1>9. HandlerHolds(r)'
  BY <1>2, <1>6, HoldsOn DEF AdsInv, HandlerHolds
<1>10. Signed(new)'
  BY <1>1, <1>8, <1>9 DEF HandlerHolds, Signed, Calling, M!Parts
<1>11. Made(new)'
  BY <1>4, <1>5, <1>8 DEF Made, Making, M!Parts
<1>12. Stated(new)' /\ Delivers(new)'
  BY <1>1, <1>8, <1>9 DEF HandlerHolds, Stated, Delivers
<1>13. ASSUME ~torn' PROVE Good(new.read)' /\ Good(new.want)'
  BY <1>6, <1>8, <1>13, GoodLater, RequestFields DEF Grows, StatesGrow
<1>14. Newly(q, new)
  BY <1>7, <1>8, <1>10, <1>11, <1>12, <1>13 DEF Newly, HandlerHolds
<1>15. RowServes(q)
  BY <1>1, <1>6, RowKept
<1>16. r.made = 0
  BY <1>1, <1>2 DEF Made, Making, M!Parts
<1>17. M!HalfBuiltIsDeleted'
  <2>1. handler'[q] = new /\ \A p \in Requests : p # q => handler'[p] = handler[p]
    BY <1>8, <1>14, Others DEF Newly, AdsInv
  <2>2. M!Building(n)'
    BY <1>8, <2>1 DEF M!Building
  <2>3. \A c \in 1 .. Len(campaign) : M!Building(c) => M!Building(c)'
    BY <1>5, <1>16, <2>1 DEF M!Building
  <2> SUFFICES ASSUME NEW c \in DOMAIN campaign' \ cut', campaign'[c].parts # M!Parts,
                      ~M!Building(c)'
               PROVE  campaign'[c].status = "DELETED"
    BY DEF M!HalfBuiltIsDeleted
  <2>4. c # n
    BY <2>2
  <2>5. c \in 1 .. Len(campaign) /\ campaign'[c] = campaign[c] /\ ~M!Building(c)
    BY <1>4, <1>5, <2>3, <2>4
  <2> QED
    BY <1>1, <1>5, <2>5 DEF AdsInv, M!HalfBuiltIsDeleted
<1> QED
  BY <1>6, <1>8, <1>14, <1>15, <1>17, Onward

-----------------------------------------------------------------------------
(* The commit                                                              *)

\* A commit that does not tear leaves a good row.
LEMMA StoresGood ==
    ASSUME AdsInv, NEW q \in Requests, NEW r \in Handling, r = handler[q], M!Stores(r),
           UNCHANGED token
    PROVE  ~torn' => Good(row)'
<1> SUFFICES ASSUME ~torn' PROVE Good(row)'
  OBVIOUS
<1>1. ~torn /\ (row = r.read \/ r.want = r.read)
  BY DEF M!Stores
<1>2. /\ row' \in M!Row
      /\ row'.status = IF r.want.status # r.read.status THEN r.want.status ELSE row.status
      /\ row'.token = IF r.want.token # r.read.token THEN r.want.token ELSE row.token
      /\ row'.account = IF r.want.account # r.read.account
                         THEN r.want.account ELSE row.account
  BY Stored DEF AdsInv
<1>3. \E x \in M!Row : /\ x \in {row, r.want}
                     /\ row'.status = x.status /\ row'.token = x.token
                     /\ row'.account = x.account
  <2>1. CASE row = r.read
    BY <1>2, <2>1, RequestFields
  <2>2. CASE r.want = r.read
    BY <1>2, <2>2 DEF AdsInv, AdsTyped
  <2> QED
    BY <1>1, <2>1, <2>2
<1>4. PICK x \in M!Row : /\ x \in {row, r.want}
                      /\ row'.status = x.status /\ row'.token = x.token
                      /\ row'.account = x.account
  BY <1>3
<1>5. Good(x)'
  BY <1>1, <1>4, TokensRest, GoodLater DEF AdsInv
<1> QED
  BY <1>4, <1>5 DEF Good

\* A commit writes what a row may be, and never a state that is spent.
LEMMA StoresRow ==
    ASSUME AdsInv, NEW q \in Requests, NEW r \in Handling, r = handler[q], M!Stores(r),
           UNCHANGED <<token, states>>,
           spent' = IF r.kind = "callback" /\ r.read.state # 0
                    THEN spent \cup {r.read.state} ELSE spent
    PROVE  RowHolds /\ StatesGrow /\ RowServes(q)
<1>1. /\ row' \in M!Row
      /\ row'.token = IF r.want.token # r.read.token THEN r.want.token ELSE row.token
      /\ row'.page = IF r.want.page # r.read.page THEN r.want.page ELSE row.page
      /\ row'.state = IF r.want.state # r.read.state THEN r.want.state ELSE row.state
      /\ row'.live \in {r.want.live, row.live}
      /\ row'.live # row.live => r.want.live = row'.live
  BY Stored DEF AdsInv
<1>2. Signed(r) /\ Stated(r) /\ Delivers(r)
  BY DEF AdsInv, Holding, HandlerHolds
<1>3. /\ r.read.state \in Nat /\ r.want.state \in Nat /\ row.state \in Nat
      /\ states \in Nat /\ row.state <= states
      /\ r.want.live \in BOOLEAN /\ row.live \in BOOLEAN
  BY RequestFields, RowFields DEF AdsInv, AdsTyped
<1>4. torn' \in BOOLEAN /\ (torn => torn')
  BY DEF M!Stores, AdsInv, AdsTyped
<1>5. StatesGrow
  <2>1. spent \subseteq 1 .. states /\ r.read.state <= states
    BY <1>2 DEF AdsInv, AdsTyped, Stated
  <2>2. r.read.state # 0 => r.read.state \in 1 .. states
    BY <1>3, <2>1
  <2>3. spent' = spent \/ (r.read.state # 0 /\ spent' = spent \cup {r.read.state})
    OBVIOUS
  <2>4. spent' \subseteq 1 .. states
    BY <2>1, <2>2, <2>3
  <2> QED
    BY <1>3, <1>4, <2>4 DEF StatesGrow
<1>6. RowHolds
  <2>1. row'.token <= Len(token') /\ row'.state <= states'
    BY <1>1, <1>2 DEF Signed, Stated, AdsInv, AdsTyped
  <2>2. row.page # M!None => row'.page # M!None
    BY <1>1, <1>2 DEF Delivers
  <2>3. row'.live => row'.page # M!None
    <3>1. CASE row'.live = row.live
      BY <2>2, <3>1 DEF AdsInv, AdsTyped
    <3>2. CASE r.want.live = row'.live
      BY <1>1, <1>2, <3>2 DEF Delivers
    <3> QED
      BY <1>1, <3>1, <3>2
  <2> QED
    BY <1>1, <2>1, <2>2, <2>3 DEF RowHolds
<1>7. row'.state \notin spent'
  <2>1. CASE r.kind = "callback"
    <3>1. r.want.state = 0
      BY <1>2, <2>1 DEF Stated
    <3>2. r.read.state # 0 => row'.state = 0
      BY <1>1, <3>1
    <3>3. 0 \notin spent'
      BY <1>3, <1>5 DEF StatesGrow
    <3> QED
      BY <1>1, <2>1, <3>1, <3>2, <3>3 DEF AdsInv, StatesFresh
  <2>2. CASE r.kind = "start"
    BY <1>1, <2>2 DEF AdsInv, StatesFresh
  <2>3. CASE r.kind \notin {"start", "callback"}
    <3>1. row'.state \in {0, row.state}
      BY <1>1, <1>2, <2>3 DEF Stated
    <3> QED
      BY <1>3, <2>3, <3>1 DEF AdsInv, StatesFresh, AdsTyped
  <2> QED
    BY <2>1, <2>2, <2>3
<1>8. ASSUME NEW p \in Requests \ {q}, handler[p].kind = "start"
      PROVE  handler[p].want.state \notin spent' /\ handler[p].want.state # row'.state
  <2>1. /\ handler[p].want.state \notin spent /\ handler[p].want.state # row.state
        /\ r.read.state # handler[p].want.state
        /\ r.kind = "start" => r.want.state # handler[p].want.state
    BY <1>8 DEF AdsInv, StatesFresh
  <2>2. handler[p].want.state # 0
    BY <1>8 DEF AdsInv, Holding, HandlerHolds, Stated
  <2>3. r.want.state # handler[p].want.state
    BY <1>2, <2>1, <2>2 DEF Stated
  <2> QED
    BY <1>1, <2>1, <2>3
<1>9. ~torn' => Good(row)'
  BY StoresGood
<1> QED
  BY <1>5, <1>6, <1>7, <1>8, <1>9 DEF RowServes

LEMMA CommitsStep == ASSUME AdsInv, NEW q \in Requests, M!Commits(q) PROVE AdsInv'
<1> PICK r \in Handling : r = handler[q]
  BY DEF AdsInv, AdsTyped
<1> DEFINE login == r.kind = "callback" /\ r.want.token # r.read.token
           lost == r.kind = "start" /\ r.read.status = "none" /\ row.status # "none"
           new == [r EXCEPT !.stage = "pages", !.read = r.want]
<1>1. /\ UNCHANGED <<token, campaign, states, cut>> /\ r.stage = "commit"
      /\ IF lost THEN UNCHANGED <<row, torn>> ELSE M!Stores(r)
      /\ spent' = IF r.kind = "callback" /\ r.read.state # 0
                  THEN spent \cup {r.read.state} ELSE spent
      /\ handler' = [handler EXCEPT ![q] = IF login THEN new ELSE M!Idle]
  BY DEF M!Commits
<1>2. HandlerHolds(r)
  BY DEF AdsInv, Holding
<1>3. TokensAge /\ CampaignsGrow
  BY <1>1, TokensRest, CampaignsRest DEF AdsInv
<1>4. RowHolds /\ StatesGrow /\ RowServes(q)
  <2>1. CASE lost
    <3>1. UNCHANGED <<row, token, campaign, states, spent, torn, cut>>
      BY <1>1, <2>1
    <3>2. Grows
      BY <3>1, StillGrows DEF AdsInv, AdsTyped
    <3> QED
      BY <3>1, <3>2, RowKept DEF Grows
  <2>2. CASE ~lost
    BY <1>1, <2>2, StoresRow
  <2> QED
    BY <2>1, <2>2
<1>5. Grows
  BY <1>3, <1>4 DEF Grows
<1>6. r.made # 0 => r.made \in cut'
  BY <1>1, <1>2 DEF HandlerHolds, Made, Making, M!Parts
<1>7. CASE ~login
  <2>1. M!Ends(q)
    BY <1>1, <1>7 DEF M!Ends
  <2>2. Newly(q, M!Idle)
    BY <1>5, <2>1, Ending
  <2>3. M!HalfBuiltIsDeleted'
    BY <1>1, <1>6, <2>2, Resting, HalfBuiltStill DEF Newly
  <2> QED
    BY <1>4, <1>5, <2>2, <2>3, Resting, Onward
<1>8. CASE login
  <2>1. /\ r.kind = "callback" /\ r.want.token # r.read.token /\ Becomes(q, new)
    BY <1>1, <1>8 DEF Becomes
  <2>2. ~lost
    BY <2>1
  <2>3. /\ new \in Handling /\ new.stage = "pages" /\ new.read = r.want /\ new.want = r.want
        /\ new.kind = "callback" /\ new.token = r.token /\ new.made = r.made
    BY <2>1 DEF Handling, M!Stages
  <2> HIDE DEF new, lost, login
  <2>4. HandlerHolds(r)'
    BY <1>2, <1>5, HoldsOn DEF AdsInv
  <2>5. r.made = 0
    BY <1>2, <2>1 DEF HandlerHolds, Made
  <2>6. Signed(new)'
    BY <2>1, <2>3, <2>4 DEF HandlerHolds, Signed, Calling, M!Parts
  <2>7. Made(new)'
    BY <2>3, <2>5 DEF Made, Making, M!Parts
  <2>8. Stated(new)'
    BY <2>1, <2>3, <2>4 DEF HandlerHolds, Stated
  <2>9. Delivers(new)'
    <3>1. M!Stores(r)
      BY <1>1, <2>2
    <3>2. row'.page = IF r.want.page # r.read.page THEN r.want.page ELSE row.page
      BY <3>1, Stored DEF AdsInv
    <3>3. r.want.page # M!None => row'.page # M!None
      BY <1>2, <3>2 DEF HandlerHolds, Delivers
    <3> QED
      BY <2>3, <2>4, <3>3 DEF HandlerHolds, Delivers
  <2>10. ASSUME ~torn' PROVE Good(new.read)' /\ Good(new.want)'
    BY <1>5, <2>3, <2>10, GoodLater, RequestFields DEF Grows, StatesGrow
  <2>11. new.read.state = 0
    BY <1>2, <2>1, <2>3 DEF HandlerHolds, Stated
  <2>12. Newly(q, new)
    BY <2>1, <2>3, <2>5, <2>6, <2>7, <2>8, <2>9, <2>10, <2>11 DEF Newly, HandlerHolds
  <2>13. M!HalfBuiltIsDeleted'
    BY <1>1, <2>3, <2>5, <2>12, HalfBuiltStill DEF Newly
  <2> QED
    BY <1>4, <1>5, <2>3, <2>12, <2>13, Onward
<1> QED
  BY <1>7, <1>8

-----------------------------------------------------------------------------
(* The invariant, and what it says                                         *)

LEMMA HandlerStep ==
    ASSUME AdsInv, M!LoginsAreReal, NEW q \in Requests, M!Handler(q) PROVE AdsInv'
<1>1. CASE \E kind \in {"account", "page", "switch", "build"} : M!Call(q, kind)
  BY <1>1, CallsStep
<1>2. CASE M!Start(q) \/ M!CallbackExpired(q) \/ M!Callback(q) \/ M!ExchangeFails(q) \/ M!Exchanged(q)
  BY <1>2, StartStep, CallbackSteps, ExchangeFailsStep, ExchangedStep
<1>3. CASE M!Disconnect(q) \/ M!Commits(q) \/ M!KeepsPage(q) \/ M!LeavesPage(q) \/ M!Drops(q)
  BY <1>3, DisconnectStep, CommitsStep, KeepsPageStep, DropStep
<1>4. CASE M!TokenRefused(q) \/ M!SelectAccount(q) \/ M!SelectPage(q) \/ M!Switch(q)
  BY <1>4, TokenRefusedStep, SelectAccountStep, SelectPageStep, SwitchStep
<1>5. CASE M!CreateCampaign(q) \/ M!CreatePart(q) \/ M!PartRefused(q) \/ M!Undo(q)
  BY <1>5, CreateCampaignStep, CreatePartStep, PartRefusedStep, UndoStep
<1> QED
  BY <1>1, <1>2, <1>3, <1>4, <1>5 DEF M!Handler

LEMMA InitConnection == M!Init => AdsInv
<1> SUFFICES ASSUME M!Init PROVE AdsInv
  OBVIOUS
<1>1. /\ row = M!NoRow /\ token = <<>> /\ campaign = <<>> /\ states = 0 /\ spent = {}
      /\ torn = FALSE /\ cut = {} /\ handler = [q \in Requests |-> M!Idle]
  BY DEF M!Init
<1>2. AdsTyped
  <2>1. /\ token \in Seq(Token) /\ Len(token) = 0
        /\ campaign \in Seq(Campaign) /\ spent \subseteq 1 .. states
    BY <1>1
  <2>2. handler \in [Requests -> Handling]
    BY <1>1, Resting
  <2>3. row \in M!Row /\ row.token <= Len(token) /\ row.state <= states /\ ~row.live
    BY <1>1, <2>1, NoRowIs
  <2> QED
    BY <1>1, <2>1, <2>2, <2>3 DEF AdsTyped
<1>3. \A q \in Requests : handler[q] = M!Idle
  BY <1>1
<1>4. Holding
  BY <1>1, <1>3, NoRowIs, Resting
     DEF Holding, HandlerHolds, Signed, Made, Stated, Delivers, Calling, Making, M!Parts
<1>5. BuildsApart /\ StatesFresh
  BY <1>1, <1>3, Resting DEF BuildsApart, StatesFresh
<1>6. Good(M!NoRow)
  BY NoRowIs DEF Good, Off
<1>7. LoginWhole
  BY <1>1, <1>3, <1>6, Resting DEF LoginWhole
<1>8. M!HalfBuiltIsDeleted
  BY <1>1 DEF M!HalfBuiltIsDeleted
<1> QED
  BY <1>2, <1>4, <1>5, <1>7, <1>8 DEF AdsInv

LEMMA StepConnection == AdsInv /\ M!LoginsAreReal /\ [M!Next]_M!vars => AdsInv'
<1> SUFFICES ASSUME AdsInv, M!LoginsAreReal, [M!Next]_M!vars PROVE AdsInv'
  OBVIOUS
<1>1. CASE \E q \in Requests : M!Handler(q)
  BY <1>1, HandlerStep
<1>2. CASE \E k \in DOMAIN token : M!TokenDies(k)
  BY <1>2, TokenDiesStep
<1>3. CASE UNCHANGED M!vars
  BY <1>3 DEF M!vars, AdsInv, AdsTyped, Holding, BuildsApart, StatesFresh, LoginWhole, M!HalfBuiltIsDeleted, M!Building,
             HandlerHolds, Signed, Made, Stated, Delivers, Good
<1> QED
  BY <1>1, <1>2, <1>3 DEF M!Next

LEMMA ConnectionInvariant == DeskSpec => []AdsInv
<1>1. DeskInit => AdsInv
  BY InitConnection DEF DeskInit
<1>2. AdsInv /\ [DeskNext]_deskvars => AdsInv'
  BY StepConnection, PartsAssumption DEF DeskNext, deskvars, connection, M!vars
<1> QED
  BY <1>1, <1>2, PTL DEF DeskSpec

\* However starts, callbacks, disconnects and calls overlap, and whoever
\* signs in, a working token belongs to a row that says connected and has an
\* account of that login, unless a commit fell upon a changed row; and a
\* spent OAuth state never comes back.
THEOREM TheConnectionHolds == DeskSpec => []ConnectionHolds
<1>1. AdsInv => ConnectionHolds
  BY DEF AdsInv, AdsTyped, StatesFresh, LoginWhole, Good, Off, ConnectionHolds,
         M!ConnectionHolds, M!LoginHolds, M!AccountFollowsLogin, M!StatesAreSpent
<1> QED
  BY <1>1, ConnectionInvariant, PTL

\* A campaign that create_paused_campaign could not finish is deleted again,
\* unless its making broke off, however many of them are built at a time.
THEOREM HalfBuiltCampaignsGo == DeskSpec => []HalfBuiltIsDeleted
<1>1. AdsInv => HalfBuiltIsDeleted
  BY DEF AdsInv, HalfBuiltIsDeleted
<1> QED
  BY <1>1, ConnectionInvariant, PTL

-----------------------------------------------------------------------------
(* The extraction loops                                                      *)

\* What a loop may be in: g says how long the process has not been running,
\* x how many batches it began after it was asked to stop.
LoopFine(q, g, x) ==
    /\ q.stage # "down" => g = 0
    /\ q.heard => pulse.by # NoOne
    /\ q.stage # "batch" => q.quiet = 0
    /\ q.stage = "batch" =>
         /\ q.quiet <= MaxBatch
         /\ q.kind = "forever" => q.since < ReclaimEvery + q.quiet
    /\ q.kind = "forever" /\ q.heard =>
         /\ q.stage = "batch" => pulse.age <= q.quiet
         /\ q.stage = "asleep" /\ ~q.limited => pulse.age + q.left <= MaxBatch + ErrorSleep
    /\ x <= 1 /\ (x = 1 /\ q.stage # "down" => q.stopping /\ q.stage # "beating")

\* Whom the heartbeat names has not been gone for longer than it is old.
LoopsInv ==
    /\ loop \in [Processes -> X!Loop]
    /\ pulse \in [by : Processes \cup {NoOne}, age : 0 .. BeatStale + 1]
    /\ gone \in [Processes -> 0 .. BeatStale + 1]
    /\ extra \in [Processes -> Nat] /\ starts \in Nat
    /\ pulse.by # NoOne => gone[pulse.by] <= pulse.age
    /\ \A p \in Processes : LoopFine(loop[p], gone[p], extra[p])

LEMMA LoopFields ==
    ASSUME NEW q \in X!Loop
    PROVE  /\ q.stage \in {"down", "top", "beating", "batch", "asleep"}
           /\ q.kind \in {"forever", "once"} /\ q.quiet \in Nat /\ q.since \in Nat
           /\ q.left \in Nat /\ q.heard \in BOOLEAN /\ q.limited \in BOOLEAN
           /\ q.stopping \in BOOLEAN
BY DEF X!Loop, X!Stages, X!Kinds

LEMMA LoopTimes ==
    /\ BeatStale \in Nat /\ ReclaimEvery \in Nat \ {0} /\ ErrorSleep \in Nat
    /\ MaxBatch \in Nat /\ Waits \subseteq Nat /\ MaxStarts \in Nat
    /\ MaxBatch + ErrorSleep <= BeatStale
    /\ NoOne \notin Processes /\ \A p \in Processes : KindsOf[p] \subseteq {"forever", "once"}
BY PartsAssumption DEF X!ProcessesAreReal, X!TimesAreReal, X!BatchesAreShort, X!Kinds

LEMMA FreshLoop ==
    ASSUME NEW kind \in {"forever", "once"}
    PROVE  /\ X!Fresh(kind) \in X!Loop /\ X!Fresh(kind).stage = "top"
           /\ ~X!Fresh(kind).heard /\ X!Fresh(kind).quiet = 0
BY LoopTimes DEF X!Fresh, X!Loop, X!Stages, X!Kinds

LEMMA DownLoop == X!Down \in X!Loop /\ X!Down.stage = "down" /\ ~X!Down.heard /\ X!Down.quiet = 0
BY FreshLoop DEF X!Down, X!Loop, X!Stages

LEMMA InitLoops == X!Init => LoopsInv
<1> SUFFICES ASSUME X!Init PROVE LoopsInv
  OBVIOUS
<1>1. loop \in [Processes -> X!Loop] /\ \A p \in Processes : loop[p].stage = "down" /\ ~loop[p].heard /\ loop[p].quiet = 0
  BY DownLoop DEF X!Init
<1>2. /\ pulse.by = NoOne /\ pulse.age = BeatStale + 1 /\ starts = 0
      /\ pulse \in [by : Processes \cup {NoOne}, age : 0 .. BeatStale + 1]
      /\ gone = [p \in Processes |-> BeatStale + 1] /\ extra = [p \in Processes |-> 0]
  BY LoopTimes DEF X!Init
<1> QED
  BY <1>1, <1>2, LoopTimes DEF LoopsInv, LoopFine

\* A process goes on as new, by itself or with a beat of its own.
LEMMA LoopGoes ==
    ASSUME LoopsInv, NEW p \in Processes, NEW new \in X!Loop, NEW x \in Nat,
           loop' = [loop EXCEPT ![p] = new],
           gone' = [gone EXCEPT ![p] = 0],
           extra' = [extra EXCEPT ![p] = x], starts' \in Nat,
           \/ pulse' = pulse
           \/ pulse' = [by |-> p, age |-> 0],
           LoopFine(new, 0, x)'
    PROVE  LoopsInv'
<1>1. loop' \in [Processes -> X!Loop] /\ gone' \in [Processes -> 0 .. BeatStale + 1]
  BY LoopTimes DEF LoopsInv
<1>2. extra' \in [Processes -> Nat]
  BY DEF LoopsInv
<1>3. /\ pulse' \in [by : Processes \cup {NoOne}, age : 0 .. BeatStale + 1]
      /\ pulse'.by # NoOne => gone'[pulse'.by] <= pulse'.age
      /\ pulse'.age <= pulse.age /\ (pulse.by # NoOne => pulse'.by # NoOne)
  BY LoopTimes DEF LoopsInv
<1>4. ASSUME NEW o \in Processes
      PROVE  LoopFine(loop[o], gone[o], extra[o])'
  <2>1. CASE o = p
    BY <2>1 DEF LoopsInv
  <2>2. CASE o # p
    <3>1. loop'[o] = loop[o] /\ gone'[o] = gone[o] /\ extra'[o] = extra[o]
      BY <2>2 DEF LoopsInv
    <3>2. LoopFine(loop[o], gone[o], extra[o]) /\ loop[o] \in X!Loop
      BY DEF LoopsInv
    <3>3. pulse.age \in Nat /\ pulse'.age \in Nat
      BY <1>3, LoopTimes DEF LoopsInv
    <3> QED
      BY <1>3, <3>1, <3>2, <3>3, LoopFields, LoopTimes DEF LoopFine
  <2> QED
    BY <2>1, <2>2
<1> QED
  BY <1>1, <1>2, <1>3, <1>4 DEF LoopsInv

\* The same, when nothing is heard of it.
LEMMA LoopGoesOn ==
    ASSUME LoopsInv, NEW p \in Processes, NEW new \in X!Loop,
           loop' = [loop EXCEPT ![p] = new], UNCHANGED <<pulse, gone, extra, starts>>,
           X!Up(p), LoopFine(new, gone[p], extra[p])
    PROVE  LoopsInv'
<1>1. gone[p] = 0 /\ extra[p] \in Nat
  BY LoopFields DEF LoopsInv, LoopFine, X!Up
<1>2. gone' = [gone EXCEPT ![p] = 0]
  BY <1>1 DEF LoopsInv
<1>3. extra' = [extra EXCEPT ![p] = extra[p]] /\ starts' \in Nat
  BY DEF LoopsInv
<1>4. LoopFine(new, 0, extra[p])'
  BY <1>1, LoopTimes DEF LoopFine
<1> QED
  BY <1>1, <1>2, <1>3, <1>4, LoopGoes

LEMMA LoopStep == ASSUME LoopsInv, [X!Next]_(X!vars) PROVE LoopsInv'
<1> USE LoopTimes
<1>1. ASSUME NEW p \in Processes, X!Starts(p) PROVE LoopsInv'
  <2>1. PICK kind \in KindsOf[p] : loop' = [loop EXCEPT ![p] = X!Fresh(kind)]
    BY <1>1 DEF X!Starts, X!Goes
  <2>2. PICK new \in X!Loop : new = X!Fresh(kind) /\ new.stage = "top" /\ ~new.heard /\ new.quiet = 0
    BY FreshLoop
  <2> PICK x \in Nat : x = 0
    OBVIOUS
  <2>3. /\ gone' = [gone EXCEPT ![p] = 0] /\ extra' = [extra EXCEPT ![p] = x]
        /\ starts' \in Nat /\ pulse' = pulse
    BY <1>1 DEF X!Starts, LoopsInv
  <2>4. LoopFine(new, 0, x)'
    BY <2>2, LoopFields DEF LoopFine
  <2> QED
    BY <2>1, <2>2, <2>3, <2>4, LoopGoes
<1>2. ASSUME NEW p \in Processes, X!AskedToStop(p) PROVE LoopsInv'
  <2>1. PICK q \in X!Loop : q = loop[p]
    BY DEF LoopsInv
  <2> DEFINE new == [q EXCEPT !.stopping = TRUE]
  <2>2. /\ new \in X!Loop /\ new.stopping /\ new.stage = q.stage /\ new.heard = q.heard
        /\ new.quiet = q.quiet /\ new.kind = q.kind /\ new.since = q.since
        /\ new.left = q.left /\ new.limited = q.limited
    BY DEF X!Loop
  <2>3. loop' = [loop EXCEPT ![p] = new] /\ UNCHANGED <<pulse, gone, extra, starts>> /\ X!Up(p)
    BY <1>2, <2>1 DEF X!AskedToStop, X!Goes
  <2> HIDE DEF new
  <2>4. LoopFine(new, gone[p], extra[p])
    BY <2>1, <2>2 DEF LoopFine, LoopsInv
  <2> QED
    BY <2>2, <2>3, <2>4, LoopGoesOn
<1>3. ASSUME NEW p \in Processes, X!Up(p), loop' = [loop EXCEPT ![p] = X!Down],
             UNCHANGED <<pulse, gone, extra, starts>>
      PROVE LoopsInv'
  <2>1. LoopFine(X!Down, gone[p], extra[p])
    BY DownLoop DEF LoopFine, LoopsInv
  <2> QED
    BY <1>3, <2>1, DownLoop, LoopGoesOn
<1>4. ASSUME NEW p \in Processes, X!Dies(p) PROVE LoopsInv'
  BY <1>3, <1>4 DEF X!Dies, X!Goes
<1>5. ASSUME NEW p \in Processes, X!Top(p) PROVE LoopsInv'
  <2>1. PICK q \in X!Loop : q = loop[p] /\ q.stage = "top"
    BY <1>5 DEF LoopsInv, X!Top
  <2>2. UNCHANGED <<pulse, gone, extra, starts>> /\ X!Up(p)
    BY <1>5 DEF X!Top, X!Up
  <2>3. CASE q.stopping
    BY <1>3, <1>5, <2>1, <2>2, <2>3 DEF X!Top, X!Goes
  <2>4. CASE ~q.stopping
    <3> DEFINE new == [q EXCEPT !.stage = IF q.kind = "once" THEN "batch" ELSE "beating"]
    <3>1. /\ new \in X!Loop /\ new.stopping = q.stopping /\ new.heard = q.heard
          /\ new.stage \in {"batch", "beating"} /\ new.quiet = q.quiet /\ new.kind = q.kind
          /\ new.stage = "batch" => q.kind = "once"
      BY DEF X!Loop, X!Stages
    <3>2. loop' = [loop EXCEPT ![p] = new]
      BY <1>5, <2>1, <2>4 DEF X!Top, X!Goes
    <3> HIDE DEF new
    <3>3. q.quiet = 0
      BY <2>1 DEF LoopFine, LoopsInv
    <3>4. LoopFine(new, gone[p], extra[p])
      BY <2>1, <2>4, <3>1, <3>3, LoopFields DEF LoopFine, LoopsInv
    <3> QED
      BY <2>2, <3>1, <3>2, <3>4, LoopGoesOn
  <2> QED
    BY <2>3, <2>4
<1>6. ASSUME NEW p \in Processes, X!Beats(p) PROVE LoopsInv'
  <2>1. PICK q \in X!Loop : q = loop[p] /\ q.stage = "beating"
    BY <1>6 DEF LoopsInv, X!Beats
  <2>2. LoopFine(q, gone[p], extra[p]) /\ gone[p] = 0 /\ extra[p] \in Nat
    BY <2>1 DEF LoopsInv, LoopFine
  <2> PICK s \in Nat : s = (IF q.since >= ReclaimEvery THEN 0 ELSE q.since) /\ s < ReclaimEvery
    BY LoopFields
  <2>3. PICK heard \in BOOLEAN :
          /\ pulse' = IF heard THEN [by |-> p, age |-> 0] ELSE pulse
          /\ loop' = [loop EXCEPT ![p] = [q EXCEPT !.stage = "batch", !.heard = heard, !.since = s]]
    BY <1>6, <2>1 DEF X!Beats, X!Goes, X!Upserted
  <2>4. UNCHANGED <<gone, starts>> /\ extra' = IF q.stopping THEN [extra EXCEPT ![p] = @ + 1] ELSE extra
    BY <1>6, <2>1 DEF X!Beats
  <2> PICK x \in Nat : x = IF q.stopping THEN extra[p] + 1 ELSE extra[p]
    BY <2>2
  <2> DEFINE new == [q EXCEPT !.stage = "batch", !.heard = heard, !.since = s]
  <2>5. /\ new \in X!Loop /\ new.stage = "batch" /\ new.heard = heard /\ new.stopping = q.stopping
        /\ new.quiet = q.quiet /\ new.kind = q.kind /\ new.since = s
    BY DEF X!Loop, X!Stages
  <2>6. x <= 1 /\ (x = 1 => q.stopping)
    BY <2>1, <2>2 DEF LoopFine
  <2>7. loop' = [loop EXCEPT ![p] = new] /\ extra' = [extra EXCEPT ![p] = x] /\ starts' \in Nat
        /\ gone' = [gone EXCEPT ![p] = 0]
    BY <2>2, <2>3, <2>4 DEF LoopsInv
  <2> HIDE DEF new
  <2>8. LoopFine(new, 0, x)'
    <3>1. q.quiet = 0 /\ q.quiet <= MaxBatch
      BY <2>1, <2>2 DEF LoopFine
    <3>2. heard => pulse'.by # NoOne /\ pulse'.age = 0
      BY <2>3
    <3> QED
      BY <2>5, <2>6, <3>1, <3>2 DEF LoopFine
  <2>9. pulse' = pulse \/ pulse' = [by |-> p, age |-> 0]
    BY <2>3
  <2> QED
    BY <2>5, <2>7, <2>8, <2>9, LoopGoes
<1>7. ASSUME NEW p \in Processes, NEW q \in X!Loop, q = loop[p], q.stage \in {"batch", "asleep"},
             NEW rest \in Nat, NEW limited \in BOOLEAN, NEW stage \in {"top", "asleep"},
             stage = "asleep" => q.stage = "batch" /\ (limited \/ rest <= ErrorSleep),
             loop' = [loop EXCEPT ![p] = [q EXCEPT !.stage = stage, !.left = rest,
                                                   !.limited = limited, !.quiet = 0]],
             UNCHANGED <<pulse, gone, extra, starts>>
      PROVE LoopsInv'
  <2> DEFINE new == [q EXCEPT !.stage = stage, !.left = rest, !.limited = limited, !.quiet = 0]
  <2>1. /\ new \in X!Loop /\ new.stage = stage /\ new.left = rest /\ new.limited = limited
        /\ new.quiet = 0 /\ new.kind = q.kind /\ new.heard = q.heard /\ new.stopping = q.stopping
    BY <1>7 DEF X!Loop, X!Stages
  <2>2. loop' = [loop EXCEPT ![p] = new] /\ UNCHANGED <<pulse, gone, extra, starts>>
    BY <1>7
  <2> HIDE DEF new
  <2>3. LoopFine(q, gone[p], extra[p]) /\ pulse.age \in Nat /\ X!Up(p)
    BY <1>7, LoopTimes DEF LoopsInv, X!Up
  <2>4. LoopFine(new, gone[p], extra[p])
    BY <1>7, <2>1, <2>3, LoopFields DEF LoopFine
  <2> QED
    BY <2>1, <2>2, <2>3, <2>4, LoopGoesOn
<1>8. ASSUME NEW p \in Processes, X!GoesOn(p) PROVE LoopsInv'
  <2>1. PICK q \in X!Loop : q = loop[p] /\ q.stage = "batch"
    BY <1>8 DEF LoopsInv, X!GoesOn
  <2> PICK rest \in Nat, limited \in BOOLEAN : rest = q.left /\ limited = q.limited
    BY LoopFields
  <2>2. [q EXCEPT !.stage = "top", !.quiet = 0] =
          [q EXCEPT !.stage = "top", !.left = rest, !.limited = limited, !.quiet = 0]
    BY DEF X!Loop
  <2>3. loop' = [loop EXCEPT ![p] = [q EXCEPT !.stage = "top", !.left = rest,
                                              !.limited = limited, !.quiet = 0]]
        /\ UNCHANGED <<pulse, gone, extra, starts>>
    BY <1>8, <2>1, <2>2 DEF X!GoesOn, X!Goes
  <2> QED
    BY <1>7, <2>1, <2>3
<1>9. ASSUME NEW p \in Processes, NEW rest \in Nat, NEW limited \in BOOLEAN,
             loop[p].stage = "batch", limited \/ rest <= ErrorSleep,
             X!Sleeps(p, rest, limited), UNCHANGED <<pulse, gone, extra, starts>>
      PROVE LoopsInv'
  <2>1. PICK q \in X!Loop : q = loop[p] /\ q.stage = "batch"
    BY <1>9 DEF LoopsInv
  <2>2. loop' = [loop EXCEPT ![p] = [q EXCEPT !.stage = "asleep", !.left = rest,
                                              !.limited = limited, !.quiet = 0]]
    BY <1>9, <2>1 DEF X!Sleeps, X!Goes
  <2> QED
    BY <1>7, <1>9, <2>1, <2>2
<1>10. ASSUME NEW p \in Processes, X!Pauses(p) PROVE LoopsInv'
  <2>1. UNCHANGED <<pulse, gone, extra, starts>> /\ loop[p].stage = "batch" /\ X!Up(p)
    BY <1>10 DEF X!Pauses, X!Up
  <2>2. CASE loop[p].kind = "once"
    BY <1>3, <1>10, <2>1, <2>2 DEF X!Pauses, X!Goes
  <2>3. CASE loop[p].kind # "once"
    <3>1. PICK rest \in {0, ErrorSleep} : X!Sleeps(p, rest, FALSE)
      BY <1>10, <2>3 DEF X!Pauses
    <3>2. rest \in Nat /\ rest <= ErrorSleep
      OBVIOUS
    <3> QED
      BY <1>9, <2>1, <3>1, <3>2
  <2> QED
    BY <2>2, <2>3
<1>11. ASSUME NEW p \in Processes, X!IsLimited(p) PROVE LoopsInv'
  <2>1. UNCHANGED <<pulse, gone, extra, starts>> /\ loop[p].stage = "batch" /\ X!Up(p)
    BY <1>11 DEF X!IsLimited, X!Up
  <2>2. CASE loop[p].kind = "once"
    BY <1>3, <1>11, <2>1, <2>2 DEF X!IsLimited, X!Goes
  <2>3. CASE loop[p].kind # "once"
    <3>1. PICK rest \in Waits : X!Sleeps(p, rest, TRUE)
      BY <1>11, <2>3 DEF X!IsLimited
    <3> QED
      BY <1>9, <2>1, <3>1
  <2> QED
    BY <2>2, <2>3
<1>12. ASSUME NEW p \in Processes, X!Wakes(p) PROVE LoopsInv'
  <2>1. PICK q \in X!Loop : q = loop[p] /\ q.stage = "asleep"
    BY <1>12 DEF LoopsInv, X!Wakes
  <2>2. q.quiet = 0
    BY <2>1 DEF LoopsInv, LoopFine
  <2> PICK rest \in Nat : rest = q.left
    BY LoopFields
  <2>3. [q EXCEPT !.stage = "top", !.limited = FALSE] =
          [q EXCEPT !.stage = "top", !.left = rest, !.limited = FALSE, !.quiet = 0]
    BY <2>2 DEF X!Loop
  <2>4. loop' = [loop EXCEPT ![p] = [q EXCEPT !.stage = "top", !.left = rest,
                                              !.limited = FALSE, !.quiet = 0]]
        /\ UNCHANGED <<pulse, gone, extra, starts>>
    BY <1>12, <2>1, <2>3 DEF X!Wakes, X!Goes
  <2> QED
    BY <1>7, <2>1, <2>4
<1>13. CASE X!Tick
  <2>1. /\ loop' = [p \in Processes |-> X!Passed(loop[p])]
        /\ pulse' = [pulse EXCEPT !.age = X!Least(@ + 1, BeatStale + 1)]
        /\ gone' = [p \in Processes |-> IF X!Up(p) THEN 0 ELSE X!Least(gone[p] + 1, BeatStale + 1)]
        /\ UNCHANGED <<extra, starts>>
    BY <1>13 DEF X!Tick
  <2>2. /\ pulse' \in [by : Processes \cup {NoOne}, age : 0 .. BeatStale + 1]
        /\ pulse'.by = pulse.by /\ pulse'.age <= pulse.age + 1
        /\ pulse'.age = IF pulse.age + 1 < BeatStale + 1 THEN pulse.age + 1 ELSE BeatStale + 1
    BY <2>1 DEF LoopsInv, X!Least
  <2>3. gone' \in [Processes -> 0 .. BeatStale + 1]
    BY <2>1 DEF LoopsInv, X!Least
  <2>4. pulse'.by # NoOne => gone'[pulse'.by] <= pulse'.age
    <3> SUFFICES ASSUME pulse.by # NoOne PROVE gone'[pulse.by] <= pulse'.age
      BY <2>2
    <3>1. pulse.by \in Processes /\ gone[pulse.by] <= pulse.age /\ pulse.age \in Nat
          /\ gone[pulse.by] \in Nat
      BY DEF LoopsInv
    <3> QED
      BY <2>1, <2>2, <3>1 DEF X!Least
  <2>5. ASSUME NEW p \in Processes
        PROVE  loop'[p] \in X!Loop /\ LoopFine(loop[p], gone[p], extra[p])'
    <3>1. PICK q \in X!Loop : q = loop[p]
      BY DEF LoopsInv
    <3>2. \/ q.stage = "down"
          \/ q.stage = "batch" /\ q.quiet < MaxBatch
          \/ q.stage = "asleep" /\ q.left > 0
      BY <1>13, <3>1 DEF X!Tick
    <3>3. LoopFine(q, gone[p], extra[p]) /\ pulse.age \in Nat
      BY <3>1 DEF LoopsInv
    <3>4. loop'[p] = X!Passed(q) /\ extra'[p] = extra[p]
          /\ (q.stage # "down" => gone'[p] = 0)
      BY <2>1, <3>1 DEF X!Up
    <3>5. CASE q.stage = "down"
      BY <2>2, <3>3, <3>4, <3>5, LoopFields DEF X!Passed, LoopFine
    <3>6. CASE q.stage # "down"
      <4> PICK s \in Nat : s = X!Least(q.since + 1, ReclaimEvery + MaxBatch) /\ s <= q.since + 1
        BY LoopFields DEF X!Least
      <4> PICK z \in Nat : z = IF q.stage = "batch" THEN q.quiet + 1 ELSE 0
        BY LoopFields
      <4> PICK l \in Nat : l = IF q.stage = "asleep" THEN q.left - 1 ELSE q.left
        BY <3>2, LoopFields
      <4> DEFINE new == [q EXCEPT !.quiet = z, !.since = s, !.left = l]
      <4>1. X!Passed(q) = new
        BY <3>6 DEF X!Passed
      <4>2. /\ new \in X!Loop /\ new.stage = q.stage /\ new.kind = q.kind /\ new.quiet = z
            /\ new.since = s /\ new.left = l /\ new.heard = q.heard /\ new.limited = q.limited
            /\ new.stopping = q.stopping
        BY DEF X!Loop
      <4> HIDE DEF new
      <4>3. LoopFine(new, 0, extra[p])'
        <5>1. CASE q.stage = "batch"
          BY <2>1, <2>2, <3>2, <3>3, <4>2, <5>1, LoopFields DEF LoopFine
        <5>2. CASE q.stage = "asleep"
          BY <2>1, <2>2, <3>2, <3>3, <4>2, <5>2, LoopFields DEF LoopFine
        <5> QED
          BY <3>2, <3>6, <5>1, <5>2
      <4> QED
        BY <3>4, <3>6, <4>1, <4>2, <4>3
    <3> QED
      BY <3>5, <3>6
  <2>6. loop' \in [Processes -> X!Loop]
    BY <2>1, <2>5
  <2> QED
    BY <2>1, <2>2, <2>3, <2>4, <2>5, <2>6 DEF LoopsInv
<1>14. CASE UNCHANGED X!vars
  BY <1>14 DEF X!vars, LoopsInv, LoopFine
<1> QED
  BY <1>1, <1>2, <1>4, <1>5, <1>6, <1>8, <1>10, <1>11, <1>12, <1>13, <1>14 DEF X!Next

LEMMA LoopsInvariant == DeskSpec => []LoopsInv
<1>1. DeskInit => LoopsInv
  BY InitLoops DEF DeskInit
<1>2. LoopsInv /\ [DeskNext]_deskvars => LoopsInv'
  BY LoopStep DEF DeskNext, deskvars, extractors, X!vars
<1> QED
  BY <1>1, <1>2, PTL DEF DeskSpec

\* What the feed screen says of the extraction loops.
LEMMA FeedScreen == LoopsInv => X!FeedScreenHolds /\ X!TypeOK
<1> SUFFICES ASSUME LoopsInv PROVE X!FeedScreenHolds /\ X!TypeOK
  OBVIOUS
<1>1. X!NamedWasAlive
  BY LoopTimes DEF LoopsInv, X!NamedWasAlive, X!Running
<1>2. ASSUME NEW p \in Processes
      PROVE  /\ X!Forever(p) /\ loop[p].stage \in {"batch", "asleep"} /\ loop[p].heard
                 /\ ~loop[p].limited => X!Running
             /\ X!Forever(p) /\ loop[p].stage = "batch" =>
                 loop[p].since < ReclaimEvery + loop[p].quiet
             /\ extra[p] <= 1
             /\ X!Up(p) => gone[p] = 0
             /\ loop[p].heard => pulse.by # NoOne
  <2>1. loop[p] \in X!Loop /\ LoopFine(loop[p], gone[p], extra[p]) /\ pulse.age \in Nat
    BY DEF LoopsInv
  <2> QED
    BY <2>1, LoopFields, LoopTimes DEF LoopFine, X!Running, X!Forever, X!Up
<1> QED
  BY <1>1, <1>2 DEF LoopsInv, X!FeedScreenHolds, X!LiveIsRunning, X!BatchesAreOrderly,
                    X!TypeOK, X!Age

-----------------------------------------------------------------------------
(* The pairing screen                                                        *)

Gate == [up : BOOLEAN, state : S!States, turn : 0 .. Rotation]
Report == [state : S!States, code : BOOLEAN, age : 0 .. Delay]
Screen == [state : S!States, code : BOOLEAN, born : 0 .. Delay + TTL + 1,
           left : 0 .. TTL, age : 0 .. ScreenStale + 1]

ScreenTyped ==
    /\ gate \in Gate /\ beat \in 0 .. Beat
    /\ air \subseteq Report /\ IsFiniteSet(air) /\ Cardinality(air) <= MaxAir
    /\ screen \in Screen /\ down \in 0 .. ScreenStale + Delay + 1
    /\ steady \in 0 .. Beat + 2 * Delay + 1 /\ missed \in 0 .. 3

\* Since the gateway last sent a report, at most, and between two of them.
Gap == IF gate.state = "qr" THEN gate.turn ELSE beat
Between == IF Beat < Rotation THEN Rotation ELSE Beat

\* Only a report of "qr" carries a code, and a code is not shown for long.
CodesInv ==
    /\ \A r \in air : r.code => r.state = "qr"
    /\ screen.code => screen.state = "qr"
    /\ screen.code /\ screen.left > 0 => screen.born + screen.left <= Delay + TTL

\* What a gateway that is down has sent is at least as old as that.
AgesInv ==
    /\ gate.up => down = 0
    /\ down <= screen.age + Delay
    /\ \A r \in air : down <= r.age

\* The screen is right, the next heartbeat is due in time, or on its way.
SettleInv ==
    /\ ~gate.up => steady = 0
    /\ \A r \in air : steady <= r.age \/ r.state = gate.state
    /\ gate.up /\ gate.state # "qr" =>
         \/ screen.state = gate.state
         \/ steady <= Delay + beat
         \/ \E r \in air : r.state = gate.state /\ steady <= r.age + Delay + Beat

\* With no report lost since one arrived, the last that was sent is under way
\* and so is the first that was sent since; with one lost, the next but one.
MissInv ==
    gate.up =>
      /\ missed = 0 =>
           /\ screen.age <= Gap \/ \E r \in air : r.age <= Gap
           /\ screen.age <= Gap \/ \E r \in air : screen.age <= r.age + Between
      /\ missed = 1 =>
           screen.age <= Gap + Between \/ \E r \in air : screen.age <= r.age + 2 * Between

ScreenInv == ScreenTyped /\ CodesInv /\ AgesInv /\ SettleInv /\ MissInv

LEMMA ScreenTimes ==
    /\ TTL \in Nat /\ Beat \in Nat /\ ScreenStale \in Nat /\ Rotation \in Nat
    /\ Delay \in Nat /\ MaxAir \in Nat
    /\ 2 * Beat + Delay <= ScreenStale /\ 2 * Rotation + Delay <= ScreenStale
    /\ Delay <= Beat
BY PartsAssumption DEF S!TimesAreReal

LEMMA ScreenFields ==
    ASSUME ScreenTyped
    PROVE  /\ gate.up \in BOOLEAN /\ gate.state \in S!States /\ gate.turn \in Nat
           /\ gate.turn <= Rotation /\ beat \in Nat /\ beat <= Beat
           /\ \A r \in air : /\ r.state \in S!States /\ r.code \in BOOLEAN /\ r.age \in Nat
                             /\ r.age <= Delay
           /\ screen.state \in S!States /\ screen.code \in BOOLEAN /\ screen.born \in Nat
           /\ screen.left \in Nat /\ screen.left <= TTL /\ screen.age \in Nat
           /\ down \in Nat /\ steady \in Nat /\ missed \in Nat
           /\ Gap \in Nat /\ Gap <= Between /\ Between \in Nat /\ Delay <= Between
BY ScreenTimes DEF ScreenTyped, Gate, Report, Screen, Gap, Between

\* An instance has a Cardinality of its own.
LEMMA SameCardinality == \A T : S!Cardinality(T) = Cardinality(T)
BY DEF S!Cardinality, Cardinality

LEMMA InitScreen == S!Init => ScreenInv
<1> SUFFICES ASSUME S!Init PROVE ScreenInv
  OBVIOUS
<1>1. ScreenTyped
  BY ScreenTimes, FS_EmptySet DEF S!Init, ScreenTyped, Gate, Screen, S!States
<1>2. gate.up = FALSE /\ gate.state = "connecting" /\ screen.code = FALSE /\ screen.age = 0 /\ air = {}
      /\ down = 0 /\ steady = 0 /\ missed = 0
  BY DEF S!Init
<1> QED
  BY <1>1, <1>2, ScreenTimes DEF ScreenInv, CodesInv, AgesInv, SettleInv, MissInv

\* A report is sent.
LEMMA Sent ==
    ASSUME ScreenTyped, NEW state \in S!States, NEW code \in BOOLEAN, S!Report(state, code)
    PROVE  \E r \in Report :
             /\ r.state = state /\ r.code = code /\ r.age = 0
             /\ air' = air \cup {r}
             /\ air' \subseteq Report /\ IsFiniteSet(air') /\ Cardinality(air') <= MaxAir
<1> DEFINE new == [state |-> state, code |-> code, age |-> 0]
<1>1. new \in Report /\ new.state = state /\ new.code = code /\ new.age = 0
  BY ScreenTimes DEF Report
<1>2. air' = air \cup {new} /\ Cardinality(air) < MaxAir
  BY SameCardinality DEF S!Report
<1> HIDE DEF new
<1>3. IsFiniteSet(air') /\ Cardinality(air') <= MaxAir
  <2>1. /\ IsFiniteSet(air) /\ IsFiniteSet(air \cup {new}) /\ Cardinality(air) \in Nat
        /\ Cardinality(air \cup {new}) = IF new \in air THEN Cardinality(air) ELSE Cardinality(air) + 1
    BY FS_AddElement, FS_CardinalityType DEF ScreenTyped
  <2> QED
    BY <1>2, <2>1, ScreenTimes
<1> QED
  BY <1>1, <1>2, <1>3 DEF ScreenTyped

\* The gateway turns to a state, and says so.
LEMMA TurnsKeep ==
    ASSUME ScreenInv, NEW state \in S!States, NEW code \in BOOLEAN, code => state = "qr",
           S!Turns(state, code)
    PROVE  ScreenInv'
<1>1. PICK r \in Report :
        /\ r.state = state /\ r.code = code /\ r.age = 0
        /\ air' = air \cup {r}
        /\ air' \subseteq Report /\ IsFiniteSet(air') /\ Cardinality(air') <= MaxAir
  BY Sent DEF ScreenInv, S!Turns
<1>2. /\ gate.up /\ gate' = [gate EXCEPT !.state = state, !.turn = 0]
      /\ steady' = (IF state = gate.state THEN steady ELSE 0)
      /\ UNCHANGED <<beat, screen, down, missed>>
  BY DEF S!Turns
<1>3. gate' \in Gate /\ gate'.up = gate.up /\ gate'.state = state /\ gate'.turn = 0
  <2>1. gate \in Gate /\ 0 \in 0 .. Rotation
    BY ScreenTimes DEF ScreenInv, ScreenTyped
  <2> QED
    BY <1>2, <2>1 DEF Gate
<1>4. ScreenTyped'
  BY <1>1, <1>2, <1>3, ScreenTimes DEF ScreenInv, ScreenTyped
<1>5. CodesInv' /\ AgesInv'
  BY <1>1, <1>2, <1>3, ScreenFields DEF ScreenInv, CodesInv, AgesInv
<1>6. SettleInv'
  <2>1. CASE state = gate.state
    BY <1>1, <1>2, <1>3, <2>1, ScreenFields, ScreenTimes DEF ScreenInv, SettleInv
  <2>2. CASE state # gate.state
    BY <1>1, <1>2, <1>3, <2>2, ScreenFields, ScreenTimes DEF ScreenInv, SettleInv
  <2> QED
    BY <2>1, <2>2
<1>7. MissInv'
  <2>1. Gap' \in Nat /\ r \in air'
    BY <1>1, <1>2, <1>3, ScreenFields DEF ScreenInv, Gap
  <2>2. r.age <= Gap'
    BY <1>1, <2>1
  <2>3. missed = 0 => \E x \in air' : screen.age <= x.age + Between
    BY <1>1, <1>2, <2>1, ScreenFields DEF ScreenInv, MissInv
  <2>4. missed = 1 => \E x \in air' : screen.age <= x.age + 2 * Between
    BY <1>1, <1>2, <2>1, ScreenFields DEF ScreenInv, MissInv
  <2> QED
    BY <1>2, <2>1, <2>2, <2>3, <2>4 DEF MissInv, Between
<1> QED
  BY <1>4, <1>5, <1>6, <1>7 DEF ScreenInv

LEMMA HeartbeatKeeps == ASSUME ScreenInv, S!Heartbeat PROVE ScreenInv'
<1>1. /\ gate.up /\ beat = Beat /\ beat' = 0
      /\ IF gate.state = "qr" THEN UNCHANGED air ELSE S!Report(gate.state, FALSE)
      /\ UNCHANGED <<gate, screen, down, steady, missed>>
  BY DEF S!Heartbeat
<1>2. beat' \in 0 .. Beat
  BY <1>1, ScreenTimes
<1>3. CASE gate.state = "qr"
  <2>1. UNCHANGED air /\ Gap' = Gap
    BY <1>1, <1>3 DEF Gap
  <2> QED
    BY <1>1, <1>2, <1>3, <2>1 DEF ScreenInv, ScreenTyped, CodesInv, AgesInv, SettleInv, MissInv,
                              Between
<1>4. CASE gate.state # "qr"
  <2>1. PICK r \in Report :
          /\ r.state = gate.state /\ r.code = FALSE /\ r.age = 0
          /\ air' = air \cup {r}
          /\ air' \subseteq Report /\ IsFiniteSet(air') /\ Cardinality(air') <= MaxAir
    BY <1>1, <1>4, Sent, ScreenFields DEF ScreenInv
  <2>2. ScreenTyped' /\ CodesInv' /\ AgesInv'
    BY <1>1, <1>2, <2>1, ScreenFields DEF ScreenInv, ScreenTyped, CodesInv, AgesInv
  <2>3. SettleInv'
    BY <1>1, <1>4, <2>1, ScreenFields, ScreenTimes DEF ScreenInv, SettleInv
  <2>4. MissInv'
    <3>1. Gap' = 0 /\ r \in air'
      BY <1>1, <1>4, <2>1 DEF Gap
    <3>2. missed = 0 => \E x \in air' : screen.age <= x.age + Between
      BY <1>1, <2>1, <3>1, ScreenFields DEF ScreenInv, MissInv
    <3>3. missed = 1 => \E x \in air' : screen.age <= x.age + 2 * Between
      BY <1>1, <2>1, <3>1, ScreenFields DEF ScreenInv, MissInv
    <3> QED
      BY <1>1, <2>1, <3>1, <3>2, <3>3 DEF MissInv, Between
  <2> QED
    BY <2>2, <2>3, <2>4 DEF ScreenInv
<1> QED
  BY <1>3, <1>4

LEMMA Unsent ==
    ASSUME ScreenTyped, NEW r \in air, air' = air \ {r}
    PROVE  air' \subseteq Report /\ IsFiniteSet(air') /\ Cardinality(air') <= MaxAir
<1>1. /\ IsFiniteSet(air \ {r}) /\ Cardinality(air) \in Nat
      /\ Cardinality(air \ {r}) = IF r \in air THEN Cardinality(air) - 1 ELSE Cardinality(air)
  BY FS_RemoveElement, FS_CardinalityType DEF ScreenTyped
<1> QED
  BY <1>1, ScreenTimes DEF ScreenTyped

LEMMA ReportArrives == ASSUME ScreenInv, S!Arrives PROVE ScreenInv'
<1>1. PICK r \in air : /\ screen' = S!Written(r) /\ missed' = 0 /\ air' = air \ {r}
                       /\ UNCHANGED <<gate, beat, down, steady>>
  BY DEF S!Arrives
<1>2. /\ screen' \in Screen /\ screen'.state = r.state /\ screen'.code = r.code
      /\ screen'.age = 0 /\ screen'.left <= TTL /\ (r.code => screen'.born <= Delay)
  BY <1>1, ScreenFields, ScreenTimes DEF ScreenInv, S!Written, Screen
<1>3. ScreenTyped'
  BY <1>1, <1>2, Unsent DEF ScreenInv, ScreenTyped
<1>4. CodesInv'
  BY <1>1, <1>2, <1>3, ScreenFields, ScreenTimes DEF ScreenInv, CodesInv, ScreenTyped, Screen
<1>5. AgesInv'
  BY <1>1, <1>2, ScreenFields, ScreenTimes DEF ScreenInv, AgesInv
<1>6. SettleInv'
  <2>1. steady <= r.age \/ r.state = gate.state
    BY DEF ScreenInv, SettleInv
  <2> QED
    BY <1>1, <1>2, <2>1, ScreenFields, ScreenTimes DEF ScreenInv, SettleInv
<1>7. MissInv'
  <2>1. Gap' = Gap
    BY <1>1 DEF Gap
  <2> QED
    BY <1>1, <1>2, <2>1, ScreenFields DEF ScreenInv, MissInv
<1> QED
  BY <1>3, <1>4, <1>5, <1>6, <1>7 DEF ScreenInv

LEMMA ReportLost == ASSUME ScreenInv, S!Lost PROVE ScreenInv'
<1>1. PICK r \in air : /\ missed' = S!Least(3, missed + 1) /\ steady' = 0 /\ air' = air \ {r}
                       /\ UNCHANGED <<gate, beat, screen, down>>
  BY DEF S!Lost
<1>2. missed' \in 0 .. 3 /\ (missed' = 1 => missed = 0) /\ missed' # 0
  BY <1>1 DEF ScreenInv, ScreenTyped, S!Least
<1>3. ScreenTyped'
  <2>1. air' \subseteq Report /\ IsFiniteSet(air') /\ Cardinality(air') <= MaxAir
    BY <1>1, Unsent DEF ScreenInv
  <2>2. steady' \in 0 .. Beat + 2 * Delay + 1
    BY <1>1, ScreenTimes
  <2> QED
    BY <1>1, <1>2, <2>1, <2>2 DEF ScreenInv, ScreenTyped
<1>4. CodesInv' /\ AgesInv'
  BY <1>1 DEF ScreenInv, CodesInv, AgesInv
<1>5. SettleInv'
  BY <1>1, ScreenFields, ScreenTimes DEF ScreenInv, SettleInv
<1>6. MissInv'
  <2>1. Gap' = Gap /\ r \in air /\ air' = air \ {r}
    BY <1>1 DEF Gap
  <2> SUFFICES ASSUME gate.up, missed = 0
               PROVE  screen.age <= Gap + Between \/ \E x \in air' : screen.age <= x.age + 2 * Between
    BY <1>1, <1>2, <2>1 DEF MissInv, Between
  <2>2. CASE screen.age <= Gap
    BY <2>2, ScreenFields DEF ScreenInv
  <2>3. CASE screen.age > Gap
    <3>1. PICK last \in air : last.age <= Gap
      BY <2>3, ScreenFields DEF ScreenInv, MissInv
    <3>2. PICK first \in air : screen.age <= first.age + Between
      BY <2>3, ScreenFields DEF ScreenInv, MissInv
    <3>3. CASE r # first
      BY <2>1, <3>2, <3>3, ScreenFields DEF ScreenInv
    <3>4. CASE r = first /\ r = last
      BY <3>1, <3>2, <3>4, ScreenFields DEF ScreenInv
    <3>5. CASE r = first /\ r # last
      <4>1. first.age <= Between /\ last.age \in Nat /\ first.age \in Nat
        <5>1. /\ first.age \in Nat /\ first.age <= Delay /\ last.age \in Nat
              /\ Delay <= Between /\ Between \in Nat
          BY ScreenFields DEF ScreenInv
        <5> QED
          BY <5>1, ScreenTimes
      <4>2. screen.age <= last.age + 2 * Between
        BY <3>2, <4>1, ScreenFields DEF ScreenInv
      <4> QED
        BY <2>1, <3>5, <4>2
    <3> QED
      BY <3>3, <3>4, <3>5
  <2> QED
    BY <2>2, <2>3, ScreenFields DEF ScreenInv
<1> QED
  BY <1>3, <1>4, <1>5, <1>6 DEF ScreenInv

LEMMA DiesKeeps == ASSUME ScreenInv, S!Dies PROVE ScreenInv'
<1>1. /\ gate.up /\ gate' = [up |-> FALSE, state |-> "connecting", turn |-> 0]
      /\ beat' = 0 /\ steady' = 0 /\ UNCHANGED <<air, screen, down, missed>>
  BY DEF S!Dies
<1>2. ScreenTyped'
  BY <1>1, ScreenTimes DEF ScreenInv, ScreenTyped, Gate, S!States
<1>3. ~gate'.up
  BY <1>1
<1>4. CodesInv' /\ AgesInv' /\ MissInv'
  BY <1>1, <1>3 DEF ScreenInv, CodesInv, AgesInv, MissInv
<1>5. SettleInv'
  BY <1>1, <1>3, ScreenFields DEF ScreenInv, SettleInv
<1> QED
  BY <1>2, <1>4, <1>5 DEF ScreenInv

LEMMA StartsKeep == ASSUME ScreenInv, S!Starts PROVE ScreenInv'
<1>1. /\ ~gate.up /\ gate' = [gate EXCEPT !.up = TRUE]
      /\ down' = 0 /\ missed' = 3 /\ UNCHANGED <<beat, air, screen, steady>>
  BY DEF S!Starts
<1>2. gate' \in Gate /\ gate'.up /\ gate'.state = gate.state
  BY <1>1 DEF ScreenInv, ScreenTyped, Gate
<1>3. ScreenTyped'
  BY <1>1, <1>2, ScreenTimes DEF ScreenInv, ScreenTyped
<1>4. steady = 0
  BY <1>1 DEF ScreenInv, SettleInv
<1> QED
  BY <1>1, <1>2, <1>3, <1>4, ScreenFields, ScreenTimes
     DEF ScreenInv, CodesInv, AgesInv, SettleInv, MissInv

\* What is under way when a tick has passed.
LEMMA Older ==
    ASSUME ScreenTyped, \A r \in air : r.age < Delay,
           air' = {[r EXCEPT !.age = @ + 1] : r \in air}
    PROVE  /\ air' \subseteq Report /\ IsFiniteSet(air') /\ Cardinality(air') <= MaxAir
           /\ \A s \in air' : \E r \in air :
                s.state = r.state /\ s.code = r.code /\ s.age = r.age + 1
           /\ \A r \in air : \E s \in air' :
                s.state = r.state /\ s.code = r.code /\ s.age = r.age + 1
<1> DEFINE Old(r) == [r EXCEPT !.age = @ + 1]
           f == [r \in air |-> Old(r)]
<1>1. ASSUME NEW r \in air
      PROVE  /\ Old(r) \in Report /\ Old(r).state = r.state /\ Old(r).code = r.code
             /\ Old(r).age = r.age + 1
  <2>1. r \in Report /\ r.age < Delay
    BY DEF ScreenTyped
  <2> QED
    BY <2>1, ScreenTimes DEF Report
<1>2. air' = {Old(r) : r \in air}
  OBVIOUS
<1> HIDE DEF Old
<1>3. f \in Surjection(air, air')
  BY <1>2 DEF Surjection
<1>4. IsFiniteSet(air') /\ Cardinality(air') <= Cardinality(air)
  BY <1>3, FS_Surjection DEF ScreenTyped
<1>5. Cardinality(air) \in Nat /\ Cardinality(air') \in Nat /\ Cardinality(air) <= MaxAir
  BY <1>4, FS_CardinalityType DEF ScreenTyped
<1>6. Cardinality(air') <= MaxAir
  BY <1>4, <1>5, ScreenTimes
<1> QED
  BY <1>1, <1>2, <1>4, <1>6

LEMMA ScreenTick == ASSUME ScreenInv, S!Tick PROVE ScreenInv'
<1>1. /\ \A r \in air : r.age < Delay
      /\ gate.up => beat < Beat /\ (gate.state = "qr" => gate.turn < Rotation)
      /\ air' = {[r EXCEPT !.age = @ + 1] : r \in air}
      /\ UNCHANGED missed
  BY DEF S!Tick
<1>2. PICK n \in 0 .. Rotation :
        /\ gate' = [gate EXCEPT !.turn = n]
        /\ n = IF gate.up /\ gate.state = "qr" THEN gate.turn + 1 ELSE 0
  <2>1. PICK n \in 0 .. Rotation : n = IF gate.up /\ gate.state = "qr" THEN gate.turn + 1 ELSE 0
    BY <1>1, ScreenFields, ScreenTimes DEF ScreenInv
  <2>2. gate' = [gate EXCEPT !.turn = IF gate.up /\ gate.state = "qr" THEN @ + 1 ELSE 0]
    BY DEF S!Tick
  <2>3. gate \in Gate
    BY DEF ScreenInv, ScreenTyped
  <2>4. gate' = [gate EXCEPT !.turn = n]
    BY <2>1, <2>2, <2>3 DEF Gate
  <2> QED
    BY <2>1, <2>4
<1>3. gate' \in Gate /\ gate'.up = gate.up /\ gate'.state = gate.state /\ gate'.turn = n
  BY <1>2 DEF ScreenInv, ScreenTyped, Gate
<1>4. PICK a \in 0 .. ScreenStale + 1, b \in 0 .. Delay + TTL + 1, l \in 0 .. TTL :
        /\ screen' = [screen EXCEPT !.age = a, !.left = l, !.born = b]
        /\ a = (IF screen.age + 1 < ScreenStale + 1 THEN screen.age + 1 ELSE ScreenStale + 1)
        /\ l = (IF screen.left = 0 THEN 0 ELSE screen.left - 1)
        /\ b <= screen.born + 1
  <2>1. PICK a \in 0 .. ScreenStale + 1 :
          /\ a = S!Least(screen.age + 1, ScreenStale + 1)
          /\ a = (IF screen.age + 1 < ScreenStale + 1 THEN screen.age + 1 ELSE ScreenStale + 1)
    BY ScreenFields, ScreenTimes DEF ScreenInv, S!Least
  <2>2. PICK l \in 0 .. TTL : l = (IF screen.left = 0 THEN 0 ELSE screen.left - 1)
    BY ScreenFields, ScreenTimes DEF ScreenInv
  <2>3. PICK b \in 0 .. Delay + TTL + 1 :
          /\ b = (IF screen.code THEN S!Least(screen.born + 1, S!OldestCode + 1) ELSE 0)
          /\ b <= screen.born + 1
    BY ScreenFields, ScreenTimes DEF ScreenInv, S!Least, S!OldestCode
  <2>4. screen' = [screen EXCEPT !.age = a, !.left = l, !.born = b]
    <3>1. screen' = [screen EXCEPT !.age = S!Least(@ + 1, ScreenStale + 1),
                       !.left = IF @ = 0 THEN 0 ELSE @ - 1,
                       !.born = IF screen.code THEN S!Least(@ + 1, S!OldestCode + 1) ELSE 0]
      BY DEF S!Tick
    <3>2. screen \in Screen
      BY DEF ScreenInv, ScreenTyped
    <3> QED
      BY <2>1, <2>2, <2>3, <3>1, <3>2 DEF Screen
  <2> QED
    BY <2>1, <2>2, <2>3, <2>4
<1>5. /\ screen' \in Screen /\ screen'.state = screen.state /\ screen'.code = screen.code
      /\ screen'.age = a /\ screen'.left = l /\ screen'.born = b
  BY <1>4 DEF ScreenInv, ScreenTyped, Screen
<1>6. /\ down' = IF gate.up THEN 0 ELSE S!Least(down + 1, ScreenStale + Delay + 1)
      /\ beat' = IF gate.up THEN beat + 1 ELSE 0
      /\ steady' = IF gate.up THEN S!Least(steady + 1, S!Settled + 1) ELSE 0
  BY DEF S!Tick
<1>7. /\ down' \in 0 .. ScreenStale + Delay + 1 /\ down' <= down + 1
      /\ down' <= ScreenStale + Delay + 1 /\ (gate.up => down' = 0)
      /\ beat' \in 0 .. Beat /\ (gate.up => beat' = beat + 1)
      /\ steady' \in 0 .. Beat + 2 * Delay + 1 /\ steady' <= steady + 1
      /\ ~gate.up => steady' = 0
  BY <1>1, <1>6, ScreenFields, ScreenTimes DEF ScreenInv, S!Least, S!Settled
<1>8. /\ air' \subseteq Report /\ IsFiniteSet(air') /\ Cardinality(air') <= MaxAir
      /\ \A s \in air' : \E r \in air :
           s.state = r.state /\ s.code = r.code /\ s.age = r.age + 1
      /\ \A r \in air : \E s \in air' :
           s.state = r.state /\ s.code = r.code /\ s.age = r.age + 1
  BY <1>1, Older DEF ScreenInv
<1>9. ScreenTyped'
  BY <1>1, <1>3, <1>5, <1>7, <1>8 DEF ScreenInv, ScreenTyped
<1>10. CodesInv'
  BY <1>4, <1>5, <1>8, ScreenFields, ScreenTimes DEF ScreenInv, CodesInv
<1>11. AgesInv'
  <2>1. \A s \in air' : down' <= s.age
    BY <1>7, <1>8, ScreenFields DEF ScreenInv, AgesInv
  <2>2. down' <= a + Delay
    BY <1>4, <1>7, ScreenFields, ScreenTimes DEF ScreenInv, AgesInv
  <2> QED
    BY <1>3, <1>5, <1>7, <2>1, <2>2 DEF AgesInv
<1>12. SettleInv'
  <2>1. \A s \in air' : steady' <= s.age \/ s.state = gate'.state
    BY <1>3, <1>7, <1>8, ScreenFields DEF ScreenInv, SettleInv
  <2>2. ASSUME gate.up, gate.state # "qr", screen.state # gate.state
        PROVE  \/ steady' <= Delay + beat'
               \/ \E s \in air' : s.state = gate.state /\ steady' <= s.age + Delay + Beat
    <3>1. CASE steady <= Delay + beat
      BY <1>7, <2>2, <3>1, ScreenFields, ScreenTimes DEF ScreenInv
    <3>2. CASE \E r \in air : r.state = gate.state /\ steady <= r.age + Delay + Beat
      <4>1. PICK r \in air : r.state = gate.state /\ steady <= r.age + Delay + Beat
        BY <3>2
      <4>2. PICK s \in air' : s.state = r.state /\ s.age = r.age + 1
        BY <1>8
      <4>3. r.age \in Nat /\ steady \in Nat /\ steady' \in Nat
        BY <1>7, ScreenFields, ScreenTimes DEF ScreenInv
      <4>4. steady' <= s.age + Delay + Beat
        BY <1>7, <4>1, <4>2, <4>3, ScreenTimes
      <4> QED
        BY <4>1, <4>2, <4>4
    <3> QED
      BY <2>2, <3>1, <3>2 DEF ScreenInv, SettleInv
  <2> QED
    BY <1>3, <1>5, <1>7, <2>1, <2>2 DEF SettleInv
<1>13. MissInv'
  <2> SUFFICES ASSUME gate.up PROVE MissInv'
    BY <1>3 DEF MissInv
  <2>1. Gap' = Gap + 1 /\ a <= screen.age + 1 /\ Gap \in Nat
    BY <1>2, <1>3, <1>4, <1>7, ScreenFields, ScreenTimes DEF ScreenInv, Gap
  <2>2. Between' = Between
    BY DEF Between
  <2>3. ASSUME NEW r \in air PROVE \E s \in air' : s.age = r.age + 1 /\ r.age \in Nat
    BY <1>8, ScreenFields DEF ScreenInv
  <2>4. a \in Nat /\ screen.age \in Nat /\ Between \in Nat
    BY ScreenFields, ScreenTimes DEF ScreenInv
  <2>5. CASE missed = 0
    <3>1. a <= Gap + 1 \/ \E s \in air' : s.age <= Gap + 1
      BY <2>1, <2>3, <2>4, <2>5 DEF ScreenInv, MissInv
    <3>2. a <= Gap + 1 \/ \E s \in air' : a <= s.age + Between
      BY <2>1, <2>3, <2>4, <2>5 DEF ScreenInv, MissInv
    <3> QED
      BY <1>1, <1>5, <2>1, <2>2, <2>5, <3>1, <3>2 DEF MissInv
  <2>6. CASE missed = 1
    <3>1. a <= Gap + 1 + Between \/ \E s \in air' : a <= s.age + 2 * Between
      BY <2>1, <2>3, <2>4, <2>6 DEF ScreenInv, MissInv
    <3> QED
      BY <1>1, <1>5, <2>1, <2>2, <2>6, <3>1 DEF MissInv
  <2> QED
    BY <1>1, <2>5, <2>6 DEF MissInv
<1> QED
  BY <1>9, <1>10, <1>11, <1>12, <1>13 DEF ScreenInv

LEMMA ScreenStep == ASSUME ScreenInv, [S!Next]_(S!vars) PROVE ScreenInv'
<1>1. CASE S!QrShown \/ S!Opened \/ S!Connecting \/ S!Closed \/ S!Repairs \/ S!ConnectFails
           \/ S!Carries
  <2>1. \E state \in S!States, code \in BOOLEAN : (code => state = "qr") /\ S!Turns(state, code)
    BY <1>1, ScreenFields DEF ScreenInv, S!QrShown, S!Opened, S!Connecting, S!Closed, S!Repairs,
       S!ConnectFails, S!Carries, S!States
  <2> QED
    BY <2>1, TurnsKeep
<1>2. CASE UNCHANGED S!vars
  BY <1>2 DEF S!vars, ScreenInv, ScreenTyped, CodesInv, AgesInv, SettleInv, MissInv, Gap, Between
<1> QED
  BY <1>1, <1>2, HeartbeatKeeps, DiesKeeps, StartsKeep, ReportArrives, ReportLost, ScreenTick
     DEF S!Next

LEMMA ScreenInvariant == DeskSpec => []ScreenInv
<1>1. DeskInit => ScreenInv
  BY InitScreen DEF DeskInit
<1>2. ScreenInv /\ [DeskNext]_deskvars => ScreenInv'
  BY ScreenStep DEF DeskNext, deskvars, reports, S!vars
<1> QED
  BY <1>1, <1>2, PTL DEF DeskSpec

LEMMA PairingScreen == ScreenInv => S!ScreenHolds /\ S!TypeOK
<1> SUFFICES ASSUME ScreenInv PROVE S!ScreenHolds /\ S!TypeOK
  OBVIOUS
<1>1. S!ScreenSettles
  <2> SUFFICES ASSUME gate.up, gate.state # "qr", steady > Beat + 2 * Delay
               PROVE  screen.state = gate.state /\ ~S!CodeShown
    BY DEF S!ScreenSettles, S!Settled
  <2>1. screen.state = gate.state
    BY ScreenFields, ScreenTimes DEF ScreenInv, SettleInv
  <2> QED
    BY <2>1 DEF ScreenInv, CodesInv, S!CodeShown
<1>2. S!CodesPass
  BY ScreenFields, ScreenTimes DEF ScreenInv, CodesInv, S!CodesPass, S!CodeShown, S!OldestCode
<1>3. S!StaleIsGone
  <2>1. down > ScreenStale + Delay => S!Stale
    BY ScreenFields, ScreenTimes DEF ScreenInv, AgesInv, S!Stale
  <2>2. ASSUME gate.up, screen.age > ScreenStale PROVE missed >= 2
    <3>1. 2 * Between + Delay <= ScreenStale
      BY ScreenTimes DEF Between
    <3>2. missed # 0
      BY <2>2, <3>1, ScreenFields, ScreenTimes DEF ScreenInv, MissInv
    <3>3. missed # 1
      BY <2>2, <3>1, ScreenFields, ScreenTimes DEF ScreenInv, MissInv
    <3> QED
      BY <3>2, <3>3, ScreenFields DEF ScreenInv
  <2> QED
    BY <2>1, <2>2 DEF S!StaleIsGone, S!Stale
<1>4. S!TypeOK
  BY SameCardinality DEF ScreenInv, ScreenTyped, CodesInv, Gate, Report, Screen, S!TypeOK, S!Settled,
     S!OldestCode
<1> QED
  BY <1>1, <1>2, <1>3, <1>4 DEF S!ScreenHolds

-----------------------------------------------------------------------------
(* What the owner's screens say.  The pairing screen settles, a shown code   *)
(* passes, and a row is stale only when the gateway has been gone or nothing *)
(* came through (whatsapp.py session_status, session_report).  The loop the  *)
(* feed screen names was running, and one that works is not missed           *)
(* (heartbeat.py, ingestion_status).                                         *)
THEOREM ScreensSaySo == DeskSpec => []ScreenHolds
<1>1. ScreenInv /\ LoopsInv => ScreenHolds
  BY PairingScreen, FeedScreen DEF ScreenHolds
<1>. QED  BY <1>1, ScreenInvariant, LoopsInvariant, PTL

-----------------------------------------------------------------------------
(* The inventory.  A row that nobody has changed by hand is matched by every *)
(* posting it was seen in because a merge only adds what the row had not:    *)
(* what a posting says of its row is covered by the row, and stays.          *)

Columns == {"type", "loc", "building", "bhk", "price", "area", "phone", "live", "review", "key"}

\* s is r with some of its gaps filled.
Fills(r, s) ==
    \A a \in Columns : s[a] # r[a] => a \in I!Fillable /\ r[a] = I!Blank[a]

\* The row r says something wherever the posting f does.
Covers(r, f) == \A a \in I!Fillable : f[a] # I!Blank[a] => r[a] # I!Blank[a]

Fits(f, r) == I!IsCandidate(f, r) /\ I!Matches(f, r) /\ Covers(r, f)

\* r and s differ at most in what merges fill.
Kindred(r, s) == \A a \in Columns \ I!Fillable : r[a] = s[a]

\* What a session has of rows, and what it may hold.
Copies == {<<>>} \cup UNION {[some -> I!Row] : some \in SUBSET Ids}
Sighting == [row : Ids, msg : DOMAIN Posts, facts : I!Facts, relation : {"origin", "duplicate"}]
Tallies == {<<>>} \cup [Groups -> Nat]
Session == [open : BOOLEAN, msg : Nat, left : Seq(I!Facts), base : Copies, copy : Copies,
            new : Copies, seen : SUBSET Sighting, read : Tallies, made : Tallies]
Wish == [id : Ids, base : I!Row, sets : {d.sets : d \in Deeds}]

On(book) == {i \in Ids : book[i] # I!NoRow}

StockTyped ==
    /\ rows \in [Ids -> I!Row \cup {I!NoRow}]
    /\ On(rows) \subseteq taken /\ taken \subseteq Ids
    /\ sighted \in SUBSET Sighting /\ IsFiniteSet(sighted)
    /\ \A s \in sighted : s.row \in On(rows) /\ s.msg \notin todo
    /\ count \in [Groups -> Nat] /\ todo \subseteq DOMAIN Posts
    /\ tx \in [Workers -> Session]
    /\ desk = I!NoDeed \/ (desk \in Wish /\ desk.id \in On(rows))
    /\ deeds \in 0 .. MaxDeeds
    /\ loose \subseteq On(rows) /\ lapped \subseteq Groups

Of(seen, g) == {s \in seen : s.relation = "origin" /\ Posts[s.msg].group = g}

\* A session between two steps: at rest, or with a message in hand.
Orderly(t, undone) ==
    /\ ~t.open => t = I!AtRest
    /\ t.open => t.read \in [Groups -> Nat] /\ t.made \in [Groups -> Nat]
    /\ t.left # <<>> => t.open /\ t.msg # 0
    /\ t.msg # 0 => t.msg \in DOMAIN Posts \ undone

\* Its rows: those it has filled gaps of, and those it has inserted.
OwnRows(t, book, used, free) ==
    /\ DOMAIN t.base = DOMAIN t.copy /\ DOMAIN t.copy \subseteq On(book)
    /\ DOMAIN t.new \subseteq used \ On(book)
    /\ \A i \in DOMAIN t.copy :
         Fills(t.base[i], t.copy[i]) /\ (i \notin free => Kindred(book[i], t.copy[i]))

\* Its sightings, each of one of its rows that the posting still fits.
OwnSightings(t, undone, free) ==
    /\ IsFiniteSet(t.seen)
    /\ \A s \in t.seen :
         /\ s.msg \notin undone /\ s.row \in DOMAIN t.copy \cup DOMAIN t.new
         /\ s.relation = "origin" => s.row \in DOMAIN t.new
         /\ s.row \in DOMAIN t.new => Fits(s.facts, t.new[s.row])
         /\ s.row \in DOMAIN t.copy \ free => Fits(s.facts, t.copy[s.row])

\* What it has counted on top of what it read.
OwnCount(t, seen) ==
    t.open => \A g \in Groups :
      /\ t.made[g] = t.read[g] + Cardinality(Of(t.seen, g))
      /\ t.read[g] <= Cardinality(Of(seen, g))

Orders == \A w \in Workers : Orderly(tx[w], todo)
RowsHeld == \A w \in Workers : OwnRows(tx[w], rows, taken, loose)
SightingsHeld == \A w \in Workers : OwnSightings(tx[w], todo, loose)
CountsHeld == \A w \in Workers : OwnCount(tx[w], sighted)
NewApart == \A v, w \in Workers : v # w => DOMAIN tx[v].new \cap DOMAIN tx[w].new = {}
RowsFit == \A s \in sighted : s.row \notin loose => Fits(s.facts, rows[s.row])
Counted ==
    \A g \in Groups :
      /\ count[g] <= Cardinality(Of(sighted, g))
      /\ g \notin lapped => count[g] = Cardinality(Of(sighted, g))

StockInv ==
    /\ StockTyped /\ Orders /\ RowsHeld /\ SightingsHeld /\ CountsHeld /\ NewApart
    /\ RowsFit /\ Counted

LEMMA BlankIs ==
    /\ DOMAIN I!Blank = {"type", "loc", "building", "bhk", "price", "area", "phone"}
    /\ I!Blank.type = "" /\ I!Blank.loc = "" /\ I!Blank.building = "" /\ I!Blank.phone = ""
    /\ I!Blank.bhk = 0 /\ I!Blank.price = 0 /\ I!Blank.area = 0
BY DEF I!Blank

LEMMA NoStockIs ==
    /\ DOMAIN I!NoRow = Columns /\ I!NoRow.type = "" /\ ~I!NoRow.live
    /\ I!NoRow.loc = "" /\ I!NoRow.building = "" /\ I!NoRow.phone = ""
    /\ I!NoRow.bhk = 0 /\ I!NoRow.price = 0 /\ I!NoRow.area = 0
    /\ I!NoRow.review = "" /\ I!NoRow.key = <<>>
BY DEF I!NoRow, I!Over, I!Blank, Columns

LEMMA StockFields ==
    ASSUME NEW r \in I!Row
    PROVE  /\ DOMAIN r = Columns /\ r = [a \in Columns |-> r[a]] /\ r # I!NoRow
           /\ r.type \in STRING /\ r.type # "" /\ r.loc \in I!Words /\ r.building \in I!Words
           /\ r.bhk \in Nat /\ r.price \in Nat /\ r.area \in Nat /\ r.phone \in STRING
           /\ r.live \in BOOLEAN /\ r.review \in I!ReviewStates
           /\ r.key \in {<<>>} \cup ((STRING \ {""}) \X Nat \X I!Words)
BY NoStockIs DEF I!Row, Columns

LEMMA IsStockRow ==
    ASSUME NEW r, r = [a \in Columns |-> r[a]],
           r.type \in STRING, r.type # "", r.loc \in I!Words, r.building \in I!Words,
           r.bhk \in Nat, r.price \in Nat, r.area \in Nat, r.phone \in STRING,
           r.live \in BOOLEAN, r.review \in I!ReviewStates,
           r.key \in {<<>>} \cup ((STRING \ {""}) \X Nat \X I!Words)
    PROVE  r \in I!Row
BY DEF I!Row, Columns

LEMMA FactFields ==
    ASSUME NEW f \in I!Facts
    PROVE  /\ DOMAIN f = DOMAIN I!Blank
           /\ f.type \in STRING /\ f.type # "" /\ f.loc \in I!Words /\ f.loc # ""
           /\ f.building \in I!Words /\ f.bhk \in Nat /\ f.price \in Nat /\ f.area \in Nat
           /\ f.phone \in STRING
BY BlankIs DEF I!Facts

\* A merge leaves a row a row, with gaps filled, and all that f says in it.
LEMMA FilledRow ==
    ASSUME NEW r \in I!Row, NEW f \in I!Facts
    PROVE  /\ I!Filled(r, f) \in I!Row
           /\ \A a \in Columns :
                I!Filled(r, f)[a] = IF a \in I!Fillable /\ r[a] = I!Blank[a] THEN f[a] ELSE r[a]
           /\ Fills(r, I!Filled(r, f)) /\ Covers(I!Filled(r, f), f)
<1>1. \A a \in Columns :
        I!Filled(r, f)[a] = IF a \in I!Fillable /\ r[a] = I!Blank[a] THEN f[a] ELSE r[a]
  BY StockFields DEF I!Filled
<1>2. I!Filled(r, f) \in I!Row
  <2>1. I!Filled(r, f) = [a \in Columns |-> I!Filled(r, f)[a]]
    BY StockFields DEF I!Filled
  <2> QED
    BY <1>1, <2>1, IsStockRow, StockFields, FactFields, BlankIs DEF I!Fillable, Columns
<1> QED
  BY <1>1, <1>2 DEF Fills, Covers, I!Fillable, Columns

-----------------------------------------------------------------------------
(* Scores                                                                    *)

LEMMA Closest ==
    ASSUME NEW n \in Nat, n # 0 PROVE I!Closeness(n, n) = 100
<1>1. (100 * n) \div n = 100
  OBVIOUS
<1> QED
  BY <1>1 DEF I!Closeness, I!Least, I!Most

LEMMA IsCloseness ==
    ASSUME NEW m \in Nat, NEW n \in Nat, m # 0, n # 0
    PROVE  I!Closeness(m, n) \in Int
<1>1. \A a \in Nat, b \in Nat \ {0} : (100 * a) \div b \in Int
  OBVIOUS
<1> QED
  BY <1>1 DEF I!Closeness, I!Least, I!Most

LEMMA SignalIs ==
    ASSUME NEW f \in I!Facts, NEW r \in I!Row, NEW a \in DOMAIN I!Weight, I!Both(f, r, a)
    PROVE  /\ I!Signal(f, r, a) \in Int
           /\ f[a] = r[a] => I!Signal(f, r, a) = 100
<1>1. a \in {"building", "loc", "price", "area", "bhk"}
  BY DEF I!Weight
<1>2. CASE a \in {"building", "loc"}
  <2>1. f[a] \in I!Words \ {""} /\ r[a] \in I!Words
    <3>1. f.building \in I!Words /\ f.loc \in I!Words
      BY FactFields
    <3>2. r.building \in I!Words /\ r.loc \in I!Words
      BY StockFields
    <3>3. f[a] # ""
      BY <1>2, BlankIs DEF I!Both
    <3> QED
      BY <1>2, <3>1, <3>2, <3>3
  <2>2. Similar[<<f[a], r[a]>>] \in 0 .. 100 /\ Similar[<<f[a], f[a]>>] = 100
    <3>1. /\ Similar \in [I!Words \X I!Words -> 0 .. 100]
          /\ \A name \in I!Words \ {""} : Similar[<<name, name>>] = 100
      BY PartsAssumption, Zenon DEF I!NamesAreReal
    <3>2. Similar[<<f[a], f[a]>>] = 100
      BY <2>1, <3>1, Zenon
    <3>3. <<f[a], r[a]>> \in I!Words \X I!Words
      BY <2>1, Zenon
    <3> QED
      BY <3>1, <3>2, <3>3, Zenon
  <2>3. I!Signal(f, r, a) = Similar[<<f[a], r[a]>>]
    BY <1>2, Zenon DEF I!Signal
  <2>4. f[a] = r[a] => Similar[<<f[a], r[a]>>] = Similar[<<f[a], f[a]>>]
    BY Zenon
  <2> HIDE DEF I!Signal
  <2>5. I!Signal(f, r, a) \in Int
    BY <2>2, <2>3
  <2> QED
    BY <2>2, <2>3, <2>4, <2>5, Zenon
<1>3. CASE a \in {"price", "area", "bhk"}
  <2>1. f[a] \in Nat /\ r[a] \in Nat /\ f[a] # 0 /\ r[a] # 0
    BY <1>3, StockFields, FactFields, BlankIs DEF I!Both
  <2>2. I!Signal(f, r, a) = I!Closeness(f[a], r[a])
    <3>1. ~(a \in {"building", "loc"})
      BY <1>3
    <3> QED
      BY <3>1, Zenon DEF I!Signal
  <2>3. I!Closeness(f[a], r[a]) \in Int
    BY <2>1, IsCloseness, Zenon
  <2>4. f[a] = r[a] => I!Closeness(f[a], r[a]) = 100
    BY <2>1, Closest, Zenon
  <2> QED
    BY <2>2, <2>3, <2>4, Zenon
<1> QED
  BY <1>1, <1>2, <1>3

\* What a posting says of its row is not touched by what others fill in.
LEMMA BothStill ==
    ASSUME NEW f \in I!Facts, NEW r \in I!Row, NEW s \in I!Row, Fills(r, s), Covers(r, f),
           NEW a \in DOMAIN I!Blank
    PROVE  /\ I!Both(f, s, a) <=> I!Both(f, r, a)
           /\ I!Both(f, r, a) => s[a] = r[a]
BY BlankIs DEF Fills, Covers, I!Both, Columns

LEMMA ScoreStill ==
    ASSUME NEW f \in I!Facts, NEW r \in I!Row, NEW s \in I!Row, Fills(r, s), Covers(r, f)
    PROVE  I!Score(f, s) = I!Score(f, r)
<1>1. \A a \in DOMAIN I!Blank : /\ I!Both(f, s, a) <=> I!Both(f, r, a)
                                /\ I!Both(f, r, a) => s[a] = r[a]
  BY BothStill
<1>2. s.type = r.type
  BY DEF Fills, Columns, I!Fillable
<1>3. I!Rejected(f, s) <=> I!Rejected(f, r)
  BY <1>1, <1>2, BlankIs DEF I!Rejected, I!Drifts
<1>4. \A a \in DOMAIN I!Weight : /\ I!Both(f, s, a) <=> I!Both(f, r, a)
                                 /\ I!Both(f, r, a) => I!Signal(f, s, a) = I!Signal(f, r, a)
  BY <1>1, BlankIs DEF I!Signal, I!Weight
<1>5. [a \in DOMAIN I!Weight |-> IF I!Both(f, s, a) THEN I!Weight[a] ELSE 0]
        = [a \in DOMAIN I!Weight |-> IF I!Both(f, r, a) THEN I!Weight[a] ELSE 0]
  BY <1>4
<1>6. [a \in DOMAIN I!Weight |->
         IF I!Both(f, s, a) THEN I!Weight[a] * I!Signal(f, s, a) ELSE 0]
        = [a \in DOMAIN I!Weight |->
             IF I!Both(f, r, a) THEN I!Weight[a] * I!Signal(f, r, a) ELSE 0]
  BY <1>4
<1>7. (I!Both(f, s, "phone") /\ f.phone = s.phone) <=> (I!Both(f, r, "phone") /\ f.phone = r.phone)
  BY <1>1, BlankIs
<1> QED
  BY <1>3, <1>5, <1>6, <1>7 DEF I!Score

LEMMA FitsStill ==
    ASSUME NEW f \in I!Facts, NEW r \in I!Row, NEW s \in I!Row, Fills(r, s), Fits(f, r)
    PROVE  Fits(f, s)
<1>1. s.live = r.live /\ s.type = r.type /\ s.key = r.key /\ s.loc = r.loc
  BY DEF Fills, Columns, I!Fillable
<1>2. I!IsCandidate(f, s)
  BY <1>1 DEF I!IsCandidate, Fits
<1>3. I!Matches(f, s)
  BY ScoreStill DEF I!Matches, Fits
<1>4. Covers(s, f)
  BY BlankIs DEF Covers, Fits, Fills, Columns, I!Fillable
<1> QED
  BY <1>2, <1>3, <1>4 DEF Fits

-----------------------------------------------------------------------------
(* A row that has taken what it lacked from a posting fits the posting.      *)

\* The two sums of score_match, and their parts.
Part(f, r, a) == IF I!Both(f, r, a) THEN I!Weight[a] ELSE 0
Worth(f, r, a) == IF I!Both(f, r, a) THEN I!Weight[a] * I!Signal(f, r, a) ELSE 0
Total(f, r) == I!Sum([a \in DOMAIN I!Weight |-> Part(f, r, a)])
Evidence(f, r) == I!Sum([a \in DOMAIN I!Weight |-> Worth(f, r, a)])
SameBroker(f, r) == I!Both(f, r, "phone") /\ f.phone = r.phone
Lift(f, r) == IF SameBroker(f, r) THEN 10 * Total(f, r) ELSE 0

LEMMA WeightIs ==
    /\ DOMAIN I!Weight = {"building", "loc", "price", "area", "bhk"}
    /\ I!Weight["building"] = 35 /\ I!Weight["loc"] = 20 /\ I!Weight["price"] = 20
    /\ I!Weight["area"] = 10 /\ I!Weight["bhk"] = 15
BY DEF I!Weight

LEMMA TotalIs ==
    ASSUME NEW f, NEW r
    PROVE  /\ Total(f, r) = Part(f, r, "building") + Part(f, r, "loc") + Part(f, r, "price")
                              + Part(f, r, "area") + Part(f, r, "bhk")
           /\ Evidence(f, r) = Worth(f, r, "building") + Worth(f, r, "loc")
                + Worth(f, r, "price") + Worth(f, r, "area") + Worth(f, r, "bhk")
BY WeightIs DEF Total, Evidence, I!Sum

LEMMA PartsAre ==
    ASSUME NEW f \in I!Facts, NEW r \in I!Row, NEW a \in DOMAIN I!Weight
    PROVE  Part(f, r, a) \in Nat /\ Worth(f, r, a) \in Int
<1>1. I!Weight[a] \in Nat
  BY WeightIs
<1>2. I!Both(f, r, a) => I!Signal(f, r, a) \in Int
  BY SignalIs
<1>3. \A m \in Nat, n \in Int : m * n \in Int
  OBVIOUS
<1>4. 0 \in Nat /\ 0 \in Int
  OBVIOUS
<1> QED
  BY <1>1, <1>2, <1>3, <1>4, Zenon DEF Part, Worth

LEMMA SumsAre ==
    ASSUME NEW f \in I!Facts, NEW r \in I!Row
    PROVE  Total(f, r) \in Nat /\ Evidence(f, r) \in Int /\ Lift(f, r) \in Nat
<1>1. Total(f, r) \in Nat
  BY PartsAre, TotalIs, WeightIs
<1>2. Evidence(f, r) \in Int
  BY PartsAre, TotalIs, WeightIs
<1> QED
  BY <1>1, <1>2 DEF Lift

LEMMA MatchesWhen ==
    ASSUME NEW f \in I!Facts, NEW r \in I!Row
    PROVE  I!Matches(f, r) <=>
             /\ ~I!Rejected(f, r) /\ Total(f, r) >= 1
             /\ Evidence(f, r) + Lift(f, r) >= 82 * Total(f, r)
<1> DEFINE all == Total(f, r)  sum == Evidence(f, r)  lift == Lift(f, r)
<1>1. all \in Nat /\ sum \in Int /\ lift \in Nat
  BY SumsAre
<1>2. I!Score(f, r) = IF I!Rejected(f, r) THEN [got |-> 0, of |-> 1]
                      ELSE [got |-> I!Least(100 * all, sum + lift), of |-> I!Most(1, all)]
  BY Zenon DEF I!Score, Total, Evidence, Lift, SameBroker, Part, Worth
<1> HIDE DEF all, sum, lift
<1>3. \A a \in Int : I!Least(100 * all, a) >= 82 * I!Most(1, all) <=> all >= 1 /\ a >= 82 * all
  BY <1>1 DEF I!Least, I!Most
<1>4. sum + lift \in Int
  BY <1>1
<1>5. CASE I!Rejected(f, r)
  <2>1. I!Score(f, r) = [got |-> 0, of |-> 1]
    BY <1>2, <1>5
  <2> QED
    BY <1>5, <2>1 DEF I!Matches, I!Reaches
<1>6. CASE ~I!Rejected(f, r)
  <2>1. I!Score(f, r) = [got |-> I!Least(100 * all, sum + lift), of |-> I!Most(1, all)]
    BY <1>2, <1>6
  <2>2. I!Score(f, r).got = I!Least(100 * all, sum + lift) /\ I!Score(f, r).of = I!Most(1, all)
    BY <2>1
  <2>3. I!Matches(f, r) <=> I!Least(100 * all, sum + lift) >= 82 * I!Most(1, all)
    BY <2>2, Zenon DEF I!Matches, I!Reaches
  <2> QED
    BY <1>3, <1>4, <1>6, <2>3, Zenon DEF all, sum, lift
<1> QED
  BY <1>5, <1>6

LEMMA PartFilled ==
    ASSUME NEW f \in I!Facts, NEW r \in I!Row, NEW s \in I!Row, NEW a \in DOMAIN I!Weight,
           I!Both(f, r, a) => I!Both(f, s, a) /\ s[a] = r[a],
           I!Both(f, s, a) => I!Both(f, r, a) \/ s[a] = f[a]
    PROVE  /\ Part(f, s, a) >= Part(f, r, a)
           /\ Worth(f, s, a) = Worth(f, r, a) + 100 * (Part(f, s, a) - Part(f, r, a))
<1>1. /\ Part(f, s, a) \in Nat /\ Part(f, r, a) \in Nat /\ I!Weight[a] \in Nat
      /\ Worth(f, s, a) \in Int /\ Worth(f, r, a) \in Int
  BY PartsAre, WeightIs
<1>2. CASE I!Both(f, r, a)
  <2>1. I!Signal(f, s, a) = I!Signal(f, r, a)
    BY <1>2 DEF I!Signal
  <2>2. Part(f, s, a) = Part(f, r, a) /\ Worth(f, s, a) = Worth(f, r, a)
    BY <1>2, <2>1, Zenon DEF Part, Worth
  <2> QED
    BY <1>1, <2>2
<1>3. CASE ~I!Both(f, r, a) /\ I!Both(f, s, a)
  <2>1. I!Signal(f, s, a) = 100
    BY <1>3, SignalIs
  <2>2. /\ Part(f, s, a) = I!Weight[a] /\ Part(f, r, a) = 0
        /\ Worth(f, s, a) = I!Weight[a] * 100 /\ Worth(f, r, a) = 0
    BY <1>3, <2>1, Zenon DEF Part, Worth
  <2> QED
    BY <1>1, <2>2
<1>4. CASE ~I!Both(f, r, a) /\ ~I!Both(f, s, a)
  <2>1. Part(f, s, a) = 0 /\ Part(f, r, a) = 0 /\ Worth(f, s, a) = 0 /\ Worth(f, r, a) = 0
    BY <1>4, Zenon DEF Part, Worth
  <2> QED
    BY <2>1
<1> QED
  BY <1>2, <1>3, <1>4

\* What filling leaves of an attribute.
LEMMA FilledIs ==
    ASSUME NEW r \in I!Row, NEW f \in I!Facts, NEW a \in DOMAIN I!Blank
    PROVE  /\ I!Both(f, r, a) => I!Both(f, I!Filled(r, f), a) /\ I!Filled(r, f)[a] = r[a]
           /\ I!Both(f, I!Filled(r, f), a) => I!Both(f, r, a) \/ I!Filled(r, f)[a] = f[a]
<1>1. a \in Columns
  BY BlankIs DEF Columns
<1>2. I!Filled(r, f)[a] = IF a \in I!Fillable /\ r[a] = I!Blank[a] THEN f[a] ELSE r[a]
  BY <1>1, FilledRow
<1> QED
  BY <1>2, Zenon DEF I!Both

LEMMA NoDrift ==
    ASSUME NEW f \in I!Facts, NEW r \in I!Row, NEW percent \in Nat, NEW a \in {"price", "area"},
           f[a] = r[a]
    PROVE  ~I!Drifts(f, r, a, percent)
<1>1. CASE I!Both(f, r, a)
  <2>1. f[a] \in Nat /\ f[a] # 0
    BY <1>1, FactFields, BlankIs DEF I!Both
  <2>2. I!Closeness(f[a], r[a]) = 100
    BY <2>1, Closest
  <2> QED
    BY <2>2 DEF I!Drifts
<1> QED
  BY <1>1 DEF I!Drifts

LEMMA NotRejected ==
    ASSUME NEW r \in I!Row, NEW f \in I!Facts, ~I!Rejected(f, r)
    PROVE  ~I!Rejected(f, I!Filled(r, f))
<1> DEFINE s == I!Filled(r, f)
<1>1. s \in I!Row /\ Fills(r, s)
  BY FilledRow
<1>2. s.type = r.type /\ s.price = r.price
  BY <1>1 DEF Fills, Columns, I!Fillable
<1>3. f.type = r.type /\ ~(I!Both(f, r, "bhk") /\ f.bhk # r.bhk)
      /\ ~I!Drifts(f, r, "price", 20) /\ ~I!Drifts(f, r, "area", 15)
  BY Zenon DEF I!Rejected
<1>4. ~(I!Both(f, s, "bhk") /\ f.bhk # s.bhk)
  <2>1. I!Both(f, s, "bhk") => I!Both(f, r, "bhk") \/ s["bhk"] = f["bhk"]
    BY FilledIs, BlankIs
  <2>2. I!Both(f, r, "bhk") => s["bhk"] = r["bhk"]
    BY FilledIs, BlankIs
  <2> QED
    BY <1>3, <2>1, <2>2
<1>5. ~I!Drifts(f, s, "price", 20)
  BY <1>2, <1>3 DEF I!Drifts, I!Both
<1>6. ~I!Drifts(f, s, "area", 15)
  <2>1. I!Both(f, s, "area") => I!Both(f, r, "area") \/ s["area"] = f["area"]
    BY FilledIs, BlankIs
  <2>2. I!Both(f, r, "area") => s["area"] = r["area"]
    BY FilledIs, BlankIs
  <2>3. CASE ~I!Both(f, s, "area")
    BY <2>3, Zenon DEF I!Drifts
  <2>4. CASE I!Both(f, r, "area")
    BY <1>3, <2>2, <2>4 DEF I!Drifts
  <2>5. CASE s["area"] = f["area"]
    BY <1>1, <2>5, NoDrift
  <2> QED
    BY <2>1, <2>3, <2>4, <2>5
<1> HIDE DEF s
<1>7. ~I!Rejected(f, s)
  BY <1>2, <1>3, <1>4, <1>5, <1>6, Zenon DEF I!Rejected
<1> QED
  BY <1>7 DEF s

\* Filling the gaps of a match by the posting leaves a match.
LEMMA FitsFilled ==
    ASSUME NEW r \in I!Row, NEW f \in I!Facts, I!IsCandidate(f, r), I!Matches(f, r)
    PROVE  Fits(f, I!Filled(r, f))
<1> DEFINE s == I!Filled(r, f)
<1>1. s \in I!Row /\ Fills(r, s) /\ Covers(s, f)
  BY FilledRow
<1>2. s.live = r.live /\ s.type = r.type /\ s.key = r.key /\ s.loc = r.loc
  BY <1>1 DEF Fills, Columns, I!Fillable
<1>3. I!IsCandidate(f, s)
  BY <1>2 DEF I!IsCandidate
<1>4. ~I!Rejected(f, r) /\ Total(f, r) >= 1 /\ Evidence(f, r) + Lift(f, r) >= 82 * Total(f, r)
  BY MatchesWhen
<1>5. \A a \in DOMAIN I!Weight :
        /\ Part(f, s, a) >= Part(f, r, a) /\ Part(f, s, a) \in Nat /\ Part(f, r, a) \in Nat
        /\ Worth(f, r, a) \in Int
        /\ Worth(f, s, a) = Worth(f, r, a) + 100 * (Part(f, s, a) - Part(f, r, a))
  <2> TAKE a \in DOMAIN I!Weight
  <2>1. a \in DOMAIN I!Blank
    BY WeightIs, BlankIs
  <2>2. /\ I!Both(f, r, a) => I!Both(f, s, a) /\ s[a] = r[a]
        /\ I!Both(f, s, a) => I!Both(f, r, a) \/ s[a] = f[a]
    BY <2>1, FilledIs
  <2> HIDE DEF s
  <2>3. Part(f, s, a) \in Nat /\ Part(f, r, a) \in Nat /\ Worth(f, r, a) \in Int
    BY <1>1, PartsAre
  <2>4. /\ Part(f, s, a) >= Part(f, r, a)
        /\ Worth(f, s, a) = Worth(f, r, a) + 100 * (Part(f, s, a) - Part(f, r, a))
    BY <1>1, <2>2, PartFilled
  <2> QED
    BY <2>3, <2>4
<1>6. SameBroker(f, r) => SameBroker(f, s)
  <2>1. "phone" \in DOMAIN I!Blank
    BY BlankIs
  <2>2. I!Both(f, r, "phone") => I!Both(f, s, "phone") /\ s["phone"] = r["phone"]
    BY <2>1, FilledIs
  <2> QED
    BY <2>2 DEF SameBroker
<1> HIDE DEF s
<1>7. /\ Total(f, s) >= Total(f, r)
      /\ Evidence(f, s) = Evidence(f, r) + 100 * (Total(f, s) - Total(f, r))
  BY <1>5, TotalIs, WeightIs
<1>8. Lift(f, s) >= Lift(f, r)
  BY <1>1, <1>6, <1>7, SumsAre DEF Lift
<1>9. ~I!Rejected(f, s)
  BY <1>4, NotRejected DEF s
<1>10. /\ Total(f, s) \in Nat /\ Evidence(f, s) \in Int /\ Lift(f, s) \in Nat
       /\ Total(f, r) \in Nat /\ Evidence(f, r) \in Int /\ Lift(f, r) \in Nat
  BY <1>1, SumsAre
<1>11. Total(f, s) >= 1 /\ Evidence(f, s) + Lift(f, s) >= 82 * Total(f, s)
  BY <1>4, <1>7, <1>8, <1>10
<1>12. I!Matches(f, s)
  BY <1>1, <1>9, <1>11, MatchesWhen
<1> QED
  BY <1>1, <1>3, <1>12 DEF Fits, s

\* The row that Insert makes of a posting.
NewRow(f) == I!Over(f, [live |-> TRUE, review |-> "auto", key |-> I!Key(f)])

LEMMA NewRowIs ==
    ASSUME NEW f \in I!Facts
    PROVE  /\ NewRow(f) \in I!Row /\ NewRow(f).live /\ NewRow(f).key = I!Key(f)
           /\ \A a \in DOMAIN I!Blank : NewRow(f)[a] = f[a]
<1> DEFINE mark == [live |-> TRUE, review |-> "auto", key |-> I!Key(f)]
<1>1. /\ DOMAIN mark = {"live", "review", "key"} /\ mark["live"] = TRUE
      /\ mark["review"] = "auto" /\ mark["key"] = I!Key(f)
  OBVIOUS
<1> HIDE DEF mark
<1>2. NewRow(f) = [a \in DOMAIN f \cup DOMAIN mark |-> IF a \in DOMAIN f THEN f[a] ELSE mark[a]]
  BY DEF NewRow, I!Over, mark
<1>3. DOMAIN f \cup DOMAIN mark = Columns
  BY <1>1, FactFields, BlankIs DEF Columns
<1>4. NewRow(f) = [a \in Columns |-> IF a \in DOMAIN f THEN f[a] ELSE mark[a]]
  BY <1>2, <1>3
<1> HIDE DEF NewRow
<1>5. \A a \in Columns : NewRow(f)[a] = IF a \in DOMAIN f THEN f[a] ELSE mark[a]
  BY <1>4
<1>6. NewRow(f) = [a \in Columns |-> NewRow(f)[a]]
  BY <1>4
<1>7. \A a \in DOMAIN I!Blank : NewRow(f)[a] = f[a]
  BY <1>5, FactFields, BlankIs DEF Columns
<1>8. NewRow(f).live = TRUE /\ NewRow(f).review = "auto" /\ NewRow(f).key = I!Key(f)
  <2>1. \A a \in {"live", "review", "key"} : a \in Columns /\ a \notin DOMAIN f
    BY FactFields, BlankIs DEF Columns
  <2>2. \A a \in {"live", "review", "key"} : NewRow(f)[a] = mark[a]
    BY <1>5, <2>1
  <2> QED
    BY <1>1, <2>2
<1>9. I!Key(f) \in (STRING \ {""}) \X Nat \X I!Words
  BY FactFields DEF I!Key
<1>10. /\ NewRow(f).type = f.type /\ NewRow(f).loc = f.loc /\ NewRow(f).building = f.building
       /\ NewRow(f).bhk = f.bhk /\ NewRow(f).price = f.price /\ NewRow(f).area = f.area
       /\ NewRow(f).phone = f.phone
  BY <1>7, BlankIs
<1>11. NewRow(f) \in I!Row
  <2>1. /\ NewRow(f).type \in STRING /\ NewRow(f).type # "" /\ NewRow(f).loc \in I!Words
        /\ NewRow(f).building \in I!Words /\ NewRow(f).bhk \in Nat /\ NewRow(f).price \in Nat
        /\ NewRow(f).area \in Nat /\ NewRow(f).phone \in STRING
    BY <1>10, FactFields
  <2>2. /\ NewRow(f).live \in BOOLEAN /\ NewRow(f).review \in I!ReviewStates
        /\ NewRow(f).key \in {<<>>} \cup ((STRING \ {""}) \X Nat \X I!Words)
    <3>1. NewRow(f).live \in BOOLEAN
      BY <1>8, Zenon
    <3>2. NewRow(f).review \in I!ReviewStates
      <4>1. "auto" \in I!ReviewStates
        BY DEF I!ReviewStates
      <4> QED
        BY <1>8, <4>1, Zenon
    <3>3. NewRow(f).key \in {<<>>} \cup ((STRING \ {""}) \X Nat \X I!Words)
      BY <1>8, <1>9, Zenon
    <3> QED
      BY <3>1, <3>2, <3>3, Zenon
  <2> HIDE DEF mark
  <2> QED
    BY <1>6, <2>1, <2>2, IsStockRow
<1> QED
  BY <1>7, <1>8, <1>11

LEMMA FitsOwn ==
    ASSUME NEW f \in I!Facts
    PROVE  Fits(f, NewRow(f))
<1> DEFINE s == NewRow(f)
<1>1. s \in I!Row /\ s.live /\ s.key = I!Key(f) /\ \A a \in DOMAIN I!Blank : s[a] = f[a]
  BY NewRowIs
<1> HIDE DEF s
<1>2. I!IsCandidate(f, s)
  BY <1>1, BlankIs DEF I!IsCandidate, I!Keys
<1>3. Covers(s, f)
  BY <1>1, BlankIs DEF Covers, I!Fillable
<1>4. ~I!Rejected(f, s)
  <2>1. f.type = s.type /\ f.bhk = s.bhk /\ f["price"] = s["price"] /\ f["area"] = s["area"]
    BY <1>1, BlankIs
  <2>2. ~I!Drifts(f, s, "price", 20) /\ ~I!Drifts(f, s, "area", 15)
    BY <1>1, <2>1, NoDrift
  <2> QED
    BY <2>1, <2>2, Zenon DEF I!Rejected
<1>5. \A a \in DOMAIN I!Weight :
        Part(f, s, a) \in Nat /\ Worth(f, s, a) = 100 * Part(f, s, a)
  <2> TAKE a \in DOMAIN I!Weight
  <2>1. Part(f, s, a) \in Nat /\ I!Weight[a] \in Nat
    BY <1>1, PartsAre, WeightIs
  <2>2. CASE I!Both(f, s, a)
    <3>1. a \in DOMAIN I!Blank
      BY WeightIs, BlankIs
    <3>2. f[a] = s[a]
      BY <1>1, <3>1
    <3>3. I!Signal(f, s, a) = 100
      BY <1>1, <2>2, <3>2, SignalIs
    <3>4. Part(f, s, a) = I!Weight[a] /\ Worth(f, s, a) = I!Weight[a] * 100
      BY <2>2, <3>3, Zenon DEF Part, Worth
    <3> QED
      BY <2>1, <3>4
  <2>3. CASE ~I!Both(f, s, a)
    <3>1. Part(f, s, a) = 0 /\ Worth(f, s, a) = 0
      BY <2>3, Zenon DEF Part, Worth
    <3> QED
      BY <3>1
  <2> QED
    BY <2>2, <2>3
<1>6. Evidence(f, s) = 100 * Total(f, s)
  BY <1>5, TotalIs, WeightIs
<1>7. Part(f, s, "loc") = 20
  <2>1. I!Both(f, s, "loc")
    BY <1>1, FactFields, BlankIs DEF I!Both
  <2> QED
    BY <2>1, WeightIs DEF Part
<1>8. Total(f, s) >= 20
  BY <1>5, <1>7, TotalIs, WeightIs
<1>9. I!Matches(f, s)
  BY <1>1, <1>4, <1>6, <1>8, SumsAre, MatchesWhen
<1> QED
  BY <1>2, <1>3, <1>9 DEF Fits, s

-----------------------------------------------------------------------------
(* Copies, sessions and tallies                                              *)

LEMMA CopyIs ==
    ASSUME NEW c \in Copies
    PROVE  DOMAIN c \subseteq Ids /\ \A i \in DOMAIN c : c[i] \in I!Row
BY DEF Copies

LEMMA OverIs ==
    ASSUME NEW c, NEW d
    PROVE  /\ DOMAIN I!Over(c, d) = DOMAIN c \cup DOMAIN d
           /\ \A a \in DOMAIN c : I!Over(c, d)[a] = c[a]
           /\ \A a \in DOMAIN d \ DOMAIN c : I!Over(c, d)[a] = d[a]
BY DEF I!Over

LEMMA AtIs ==
    ASSUME NEW i, NEW value
    PROVE  DOMAIN I!At(i, value) = {i} /\ I!At(i, value)[i] = value
BY DEF I!At

LEMMA OverCopies ==
    ASSUME NEW c \in Copies, NEW d \in Copies
    PROVE  I!Over(c, d) \in Copies
<1> DEFINE some == DOMAIN c \cup DOMAIN d
<1>1. some \in SUBSET Ids
  BY CopyIs
<1>2. \A i \in some : (IF i \in DOMAIN c THEN c[i] ELSE d[i]) \in I!Row
  BY CopyIs
<1>3. I!Over(c, d) \in [some -> I!Row]
  BY <1>2, Zenon DEF I!Over
<1> HIDE DEF some
<1> QED
  BY <1>1, <1>3 DEF Copies

LEMMA AtCopies ==
    ASSUME NEW i \in Ids, NEW r \in I!Row
    PROVE  I!At(i, r) \in Copies
<1>1. I!At(i, r) \in [{i} -> I!Row] /\ {i} \in SUBSET Ids
  BY DEF I!At
<1> QED
  BY <1>1 DEF Copies

LEMMA SessionFields ==
    ASSUME NEW t \in Session
    PROVE  /\ DOMAIN t = {"open", "msg", "left", "base", "copy", "new", "seen", "read", "made"}
           /\ t.open \in BOOLEAN /\ t.msg \in Nat /\ t.left \in Seq(I!Facts)
           /\ t.base \in Copies /\ t.copy \in Copies /\ t.new \in Copies
           /\ t.seen \in SUBSET Sighting /\ t.read \in Tallies /\ t.made \in Tallies
BY DEF Session

LEMMA IsSession ==
    ASSUME NEW t,
           t = [a \in {"open", "msg", "left", "base", "copy", "new", "seen", "read", "made"} |-> t[a]],
           t.open \in BOOLEAN, t.msg \in Nat, t.left \in Seq(I!Facts), t.base \in Copies,
           t.copy \in Copies, t.new \in Copies, t.seen \in SUBSET Sighting,
           t.read \in Tallies, t.made \in Tallies
    PROVE  t \in Session
BY DEF Session

LEMMA AtRestIs ==
    /\ I!AtRest.open = FALSE /\ I!AtRest.msg = 0 /\ I!AtRest.left = <<>>
    /\ I!AtRest.base = <<>> /\ I!AtRest.copy = <<>> /\ I!AtRest.new = <<>>
    /\ I!AtRest.seen = {} /\ I!AtRest.read = <<>> /\ I!AtRest.made = <<>>
    /\ DOMAIN I!AtRest = {"open", "msg", "left", "base", "copy", "new", "seen", "read", "made"}
    /\ I!AtRest \in Session
<1>1. /\ I!AtRest.open = FALSE /\ I!AtRest.msg = 0 /\ I!AtRest.left = <<>>
      /\ I!AtRest.base = <<>> /\ I!AtRest.copy = <<>> /\ I!AtRest.new = <<>>
      /\ I!AtRest.seen = {} /\ I!AtRest.read = <<>> /\ I!AtRest.made = <<>>
      /\ DOMAIN I!AtRest = {"open", "msg", "left", "base", "copy", "new", "seen", "read", "made"}
  BY DEF I!AtRest
<1>2. <<>> \in Copies /\ <<>> \in Tallies /\ <<>> \in Seq(I!Facts) /\ {} \in SUBSET Sighting
  BY DEF Copies, Tallies
<1>3. I!AtRest \in Session
  BY <1>2 DEF I!AtRest, Session
<1> QED
  BY <1>1, <1>3

LEMMA RowOrNot ==
    ASSUME StockTyped, NEW i \in Ids
    PROVE  rows[i] \in I!Row \/ rows[i] = I!NoRow
BY DEF StockTyped

LEMMA RowThere ==
    ASSUME StockTyped, NEW i \in On(rows)
    PROVE  i \in Ids /\ i \in taken /\ rows[i] \in I!Row
BY RowOrNot DEF StockTyped, On

LEMMA ThereIs == I!There = On(rows)
BY DEF I!There, On

LEMMA SightingFields ==
    ASSUME NEW s \in Sighting
    PROVE  s.row \in Ids /\ s.msg \in DOMAIN Posts /\ s.facts \in I!Facts
           /\ s.relation \in {"origin", "duplicate"}
BY DEF Sighting

LEMMA PostFields ==
    ASSUME NEW m \in DOMAIN Posts
    PROVE  m \in Nat \ {0} /\ Posts[m].group \in Groups /\ Posts[m].flats \in Seq(I!Facts)
<1> DEFINE Post == [group : Groups, flats : Seq(I!Facts)]
<1>1. Posts \in Seq(Post)
  BY PartsAssumption, Zenon DEF I!PostsAreReal
<1> HIDE DEF Post
<1>2. m \in Nat \ {0} /\ Posts[m] \in Post
  BY <1>1
<1> QED
  BY <1>2 DEF Post

\* A session at rest has nothing that could be wrong.
LEMMA RestIsSound ==
    ASSUME NEW undone, NEW book, NEW used, NEW free, NEW seen
    PROVE  /\ Orderly(I!AtRest, undone) /\ OwnRows(I!AtRest, book, used, free)
           /\ OwnSightings(I!AtRest, undone, free) /\ OwnCount(I!AtRest, seen)
<1>1. DOMAIN <<>> = {}
  OBVIOUS
<1> QED
  BY <1>1, AtRestIs, FS_EmptySet DEF Orderly, OwnRows, OwnSightings, OwnCount

-----------------------------------------------------------------------------
(* A step of one worker                                                      *)

LEMMA LessUndone ==
    ASSUME NEW t, NEW undone, NEW less, less \subseteq undone, NEW free
    PROVE  /\ Orderly(t, undone) => Orderly(t, less)
           /\ OwnSightings(t, undone, free) => OwnSightings(t, less, free)
<1>1. Orderly(t, undone) => Orderly(t, less)
  BY DEF Orderly
<1>2. OwnSightings(t, undone, free) => OwnSightings(t, less, free)
  BY DEF OwnSightings
<1> QED
  BY <1>1, <1>2

LEMMA MoreUsed ==
    ASSUME NEW t, NEW book, NEW used, NEW more, used \subseteq more, NEW free
    PROVE  OwnRows(t, book, used, free) => OwnRows(t, book, more, free)
BY DEF OwnRows

LEMMA WorkerStep ==
    ASSUME StockInv, NEW w \in Workers, tx' \in [Workers -> Session],
           \A v \in Workers \ {w} : tx'[v] = tx[v],
           UNCHANGED <<rows, sighted, count, desk, deeds, loose, lapped>>,
           taken \subseteq taken', taken' \subseteq Ids, todo' \subseteq todo,
           Orderly(tx'[w], todo'), OwnRows(tx'[w], rows, taken', loose),
           OwnSightings(tx'[w], todo', loose), OwnCount(tx'[w], sighted),
           DOMAIN tx'[w].new \subseteq DOMAIN tx[w].new \cup (taken' \ taken)
    PROVE  StockInv'
<1>1. StockTyped'
  BY DEF StockInv, StockTyped
<1>2. Orders'
  <2>1. \A v \in Workers : Orderly(tx'[v], todo')
    BY LessUndone DEF StockInv, Orders
  <2> QED
    BY <2>1 DEF Orders
<1>3. RowsHeld'
  <2>1. \A v \in Workers : OwnRows(tx'[v], rows', taken', loose')
    BY MoreUsed DEF StockInv, RowsHeld
  <2> QED
    BY <2>1 DEF RowsHeld
<1>4. SightingsHeld'
  <2>1. \A v \in Workers : OwnSightings(tx'[v], todo', loose')
    BY LessUndone DEF StockInv, SightingsHeld
  <2> QED
    BY <2>1 DEF SightingsHeld
<1>5. CountsHeld'
  <2>1. \A v \in Workers : OwnCount(tx'[v], sighted')
    BY DEF StockInv, CountsHeld
  <2> QED
    BY <2>1 DEF CountsHeld
<1>6. NewApart'
  <2>1. \A v \in Workers : DOMAIN tx[v].new \subseteq taken
    BY DEF StockInv, RowsHeld, OwnRows
  <2>2. \A u, v \in Workers : u # v => DOMAIN tx[u].new \cap DOMAIN tx[v].new = {}
    BY DEF StockInv, NewApart
  <2>3. \A u, v \in Workers : u # v => DOMAIN tx'[u].new \cap DOMAIN tx'[v].new = {}
    BY <2>1, <2>2
  <2> QED
    BY <2>3 DEF NewApart
<1>7. RowsFit' /\ Counted'
  BY DEF StockInv, RowsFit, Counted
<1> QED
  BY <1>1, <1>2, <1>3, <1>4, <1>5, <1>6, <1>7 DEF StockInv

LEMMA BeginStep == ASSUME StockInv, NEW w \in Workers, I!Begin(w) PROVE StockInv'
<1>1. tx[w] \in Session /\ tx \in [Workers -> Session] /\ count \in [Groups -> Nat]
  BY DEF StockInv, StockTyped
<1>2. DOMAIN tx = Workers
  BY <1>1
<1>3. tx'[w] = [I!AtRest EXCEPT !.open = TRUE, !.read = count, !.made = count]
      /\ tx' = [tx EXCEPT ![w] = tx'[w]]
  BY <1>2 DEF I!Begin
<1>4. /\ tx'[w].open = TRUE /\ tx'[w].msg = 0 /\ tx'[w].left = <<>> /\ tx'[w].base = <<>>
      /\ tx'[w].copy = <<>> /\ tx'[w].new = <<>> /\ tx'[w].seen = {}
      /\ tx'[w].read = count /\ tx'[w].made = count
  BY <1>3, AtRestIs
<1>5. tx'[w] \in Session
  <2>1. count \in Tallies
    BY <1>1 DEF Tallies
  <2> QED
    BY <1>3, <2>1, AtRestIs DEF Session
<1>6. tx' \in [Workers -> Session] /\ \A v \in Workers \ {w} : tx'[v] = tx[v]
  BY <1>1, <1>3, <1>5
<1>7. UNCHANGED <<rows, taken, sighted, count, todo, desk, deeds, loose, lapped>>
  BY DEF I!Begin
<1>8. DOMAIN <<>> = {}
  OBVIOUS
<1>9. Orderly(tx'[w], todo') /\ OwnRows(tx'[w], rows, taken', loose)
      /\ OwnSightings(tx'[w], todo', loose)
  BY <1>1, <1>4, <1>8, FS_EmptySet DEF Orderly, OwnRows, OwnSightings
<1>10. OwnCount(tx'[w], sighted)
  <2>1. \A g \in Groups : count[g] <= Cardinality(Of(sighted, g)) /\ count[g] \in Nat
    BY <1>1 DEF StockInv, Counted
  <2>2. \A g \in Groups : Cardinality(Of({}, g)) = 0
    BY FS_EmptySet DEF Of
  <2>3. \A g \in Groups : count[g] = count[g] + Cardinality(Of({}, g))
    BY <2>1, <2>2
  <2> QED
    BY <1>4, <2>1, <2>3 DEF OwnCount
<1>11. taken' \subseteq Ids
  BY <1>7 DEF StockInv, StockTyped
<1> QED
  BY <1>4, <1>6, <1>7, <1>8, <1>9, <1>10, <1>11, WorkerStep

LEMMA TakeStep == ASSUME StockInv, NEW w \in Workers, I!Take(w) PROVE StockInv'
<1> DEFINE t == tx[w]
<1>1. t \in Session /\ tx \in [Workers -> Session] /\ todo \subseteq DOMAIN Posts
      /\ taken \subseteq Ids
  BY DEF StockInv, StockTyped
<1>2. DOMAIN tx = Workers
  BY <1>1
<1>3. t.open /\ UNCHANGED <<rows, taken, sighted, count, desk, deeds, loose, lapped>>
  BY DEF I!Take
<1>4. PICK m \in todo : /\ todo' = todo \ {m}
                        /\ tx' = [tx EXCEPT ![w].msg = m, ![w].left = Posts[m].flats]
  BY DEF I!Take
<1>5. m \in DOMAIN Posts /\ m \in Nat \ {0} /\ Posts[m].flats \in Seq(I!Facts)
  BY <1>1, PostFields
<1>6. tx'[w] = [t EXCEPT !.msg = m, !.left = Posts[m].flats] /\ tx' = [tx EXCEPT ![w] = tx'[w]]
  BY <1>2, <1>4
<1>7. /\ tx'[w].open = t.open /\ tx'[w].msg = m /\ tx'[w].left = Posts[m].flats
      /\ tx'[w].base = t.base /\ tx'[w].copy = t.copy /\ tx'[w].new = t.new
      /\ tx'[w].seen = t.seen /\ tx'[w].read = t.read /\ tx'[w].made = t.made
  BY <1>1, <1>6, SessionFields
<1>8. tx'[w] \in Session
  BY <1>1, <1>5, <1>6 DEF Session
<1>9. tx' \in [Workers -> Session] /\ \A v \in Workers \ {w} : tx'[v] = tx[v]
  BY <1>1, <1>6, <1>8
<1>10. Orderly(t, todo) /\ OwnRows(t, rows, taken, loose) /\ OwnSightings(t, todo, loose)
       /\ OwnCount(t, sighted)
  BY DEF StockInv, Orders, RowsHeld, SightingsHeld, CountsHeld
<1>11. Orderly(tx'[w], todo')
  <2>1. tx'[w].open
    BY <1>3, <1>7
  <2>2. tx'[w].read \in [Groups -> Nat] /\ tx'[w].made \in [Groups -> Nat]
    BY <1>3, <1>7, <1>10 DEF Orderly
  <2>3. tx'[w].msg # 0 /\ tx'[w].msg \in DOMAIN Posts \ todo'
    BY <1>4, <1>5, <1>7
  <2> QED
    BY <2>1, <2>2, <2>3, Zenon DEF Orderly
<1>12. OwnRows(tx'[w], rows, taken', loose)
  BY <1>3, <1>7, <1>10 DEF OwnRows
<1>13. OwnSightings(tx'[w], todo', loose)
  BY <1>4, <1>7, <1>10 DEF OwnSightings
<1>14. OwnCount(tx'[w], sighted)
  BY <1>7, <1>10 DEF OwnCount
<1>15. todo' \subseteq todo /\ taken \subseteq taken' /\ taken' \subseteq Ids
       /\ DOMAIN tx'[w].new \subseteq DOMAIN tx[w].new
  BY <1>1, <1>3, <1>4, <1>7
<1> HIDE <1>6
<1> QED
  BY <1>3, <1>9, <1>11, <1>12, <1>13, <1>14, <1>15, WorkerStep

-----------------------------------------------------------------------------
(* Merging                                                                   *)

\* What a message with a flat in hand is.
LEMMA InHand ==
    ASSUME StockInv, NEW w \in Workers, tx[w].left # <<>>
    PROVE  /\ tx[w] \in Session /\ tx[w].open /\ tx[w].msg \in DOMAIN Posts \ todo
           /\ Head(tx[w].left) \in I!Facts /\ Tail(tx[w].left) \in Seq(I!Facts)
           /\ tx[w].read \in [Groups -> Nat] /\ tx[w].made \in [Groups -> Nat]
           /\ Orderly(tx[w], todo) /\ OwnRows(tx[w], rows, taken, loose)
           /\ OwnSightings(tx[w], todo, loose) /\ OwnCount(tx[w], sighted)
<1>1. tx[w] \in Session /\ tx[w].left \in Seq(I!Facts)
  BY SessionFields DEF StockInv, StockTyped
<1>2. Orderly(tx[w], todo) /\ OwnRows(tx[w], rows, taken, loose)
      /\ OwnSightings(tx[w], todo, loose) /\ OwnCount(tx[w], sighted)
  BY DEF StockInv, Orders, RowsHeld, SightingsHeld, CountsHeld
<1>3. tx[w].open /\ tx[w].msg \in DOMAIN Posts \ todo
      /\ tx[w].read \in [Groups -> Nat] /\ tx[w].made \in [Groups -> Nat]
  BY <1>2, Zenon DEF Orderly
<1>4. Head(tx[w].left) \in I!Facts /\ Tail(tx[w].left) \in Seq(I!Facts)
  BY <1>1
<1> QED
  BY <1>1, <1>2, <1>3, <1>4

\* A sighting of row i by the message that w has in hand.
Sight(w, i, f, relation) == [row |-> i, msg |-> tx[w].msg, facts |-> f, relation |-> relation]

LEMMA SightIs ==
    ASSUME NEW w, NEW i, NEW f, NEW relation
    PROVE  /\ Sight(w, i, f, relation).row = i /\ Sight(w, i, f, relation).msg = tx[w].msg
           /\ Sight(w, i, f, relation).facts = f /\ Sight(w, i, f, relation).relation = relation
           /\ i \in Ids /\ tx[w].msg \in DOMAIN Posts /\ f \in I!Facts
                /\ relation \in {"origin", "duplicate"} => Sight(w, i, f, relation) \in Sighting
BY DEF Sight, Sighting

LEMMA AttachedIs ==
    ASSUME NEW w, NEW i, NEW f, NEW relation
    PROVE  /\ I!Attached(w, i, f, relation) = tx[w].seen
              \/ I!Attached(w, i, f, relation) = tx[w].seen \cup {Sight(w, i, f, relation)}
           /\ (\A s \in sighted \cup tx[w].seen : s.row # i) =>
                I!Attached(w, i, f, relation) = tx[w].seen \cup {Sight(w, i, f, relation)}
BY Zenon DEF I!Attached, Sight

\* A repost is a sighting, and no listing of its group.
LEMMA RepostSeen ==
    ASSUME StockInv, NEW w \in Workers, tx[w].left # <<>>, NEW i \in Ids, NEW f \in I!Facts,
           NEW seen, seen = I!Attached(w, i, f, "duplicate")
    PROVE  /\ seen \in SUBSET Sighting /\ IsFiniteSet(seen)
           /\ \A s \in seen : s \in tx[w].seen \/ s = Sight(w, i, f, "duplicate")
           /\ \A g \in Groups : Of(seen, g) = Of(tx[w].seen, g)
<1>1. tx[w].seen \in SUBSET Sighting /\ IsFiniteSet(tx[w].seen) /\ tx[w].msg \in DOMAIN Posts
  BY InHand, SessionFields DEF OwnSightings
<1>2. Sight(w, i, f, "duplicate") \in Sighting /\ Sight(w, i, f, "duplicate").relation = "duplicate"
  BY <1>1, SightIs
<1>3. seen = tx[w].seen \/ seen = tx[w].seen \cup {Sight(w, i, f, "duplicate")}
  BY AttachedIs
<1>4. IsFiniteSet(tx[w].seen \cup {Sight(w, i, f, "duplicate")})
  BY <1>1, FS_AddElement
<1>5. IsFiniteSet(seen)
  BY <1>1, <1>3, <1>4
<1>6. \A g \in Groups : Of(seen, g) = Of(tx[w].seen, g)
  BY <1>2, <1>3 DEF Of
<1> QED
  BY <1>1, <1>2, <1>3, <1>5, <1>6

\* The row that is merged into is stored, or one of the session's own.
LEMMA MergedIs ==
    ASSUME StockInv, NEW w \in Workers, tx[w].left # <<>>, NEW f \in I!Facts,
           NEW i \in I!Merged(w, f)
    PROVE  /\ i \in Ids /\ I!Matches(f, I!Has(w, i))
           /\ \/ /\ i \in DOMAIN tx[w].new /\ i \notin DOMAIN tx[w].copy
                 /\ I!Has(w, i) = tx[w].new[i] /\ I!IsCandidate(f, tx[w].new[i])
              \/ /\ i \in On(rows) /\ i \notin DOMAIN tx[w].new /\ I!IsCandidate(f, rows[i])
                 /\ i \in DOMAIN tx[w].copy => I!Has(w, i) = tx[w].copy[i]
                 /\ i \notin DOMAIN tx[w].copy => I!Has(w, i) = rows[i]
<1>1. i \in I!Candidates(w, f) /\ I!Matches(f, I!Has(w, i))
  BY DEF I!Merged, I!Best
<1>2. \/ i \in On(rows) /\ I!IsCandidate(f, rows[i])
      \/ i \in DOMAIN tx[w].new /\ I!IsCandidate(f, tx[w].new[i])
  BY <1>1, ThereIs DEF I!Candidates
<1>3. DOMAIN tx[w].copy \subseteq On(rows) /\ DOMAIN tx[w].new \cap On(rows) = {}
  BY InHand DEF OwnRows
<1>4. i \in Ids
  BY <1>2, InHand, SessionFields, CopyIs DEF On
<1>5. /\ i \in DOMAIN tx[w].copy => I!Has(w, i) = tx[w].copy[i]
      /\ i \in DOMAIN tx[w].new /\ i \notin DOMAIN tx[w].copy => I!Has(w, i) = tx[w].new[i]
      /\ i \notin DOMAIN tx[w].new /\ i \notin DOMAIN tx[w].copy => I!Has(w, i) = rows[i]
  BY <1>3 DEF I!Has
<1> QED
  BY <1>1, <1>2, <1>3, <1>4, <1>5

\* The session of a merge, apart from the rows.
Reposted(w, i, f, u) ==
    /\ u \in Session /\ u.open = tx[w].open /\ u.msg = tx[w].msg /\ u.left = Tail(tx[w].left)
    /\ u.seen = I!Attached(w, i, f, "duplicate") /\ u.read = tx[w].read /\ u.made = tx[w].made

LEMMA Reposting ==
    ASSUME StockInv, NEW w \in Workers, tx[w].left # <<>>, NEW f, f = Head(tx[w].left),
           NEW i \in I!Merged(w, f), tx' = [tx EXCEPT ![w] = tx'[w]],
           UNCHANGED <<rows, taken, sighted, count, todo, desk, deeds, loose, lapped>>,
           Reposted(w, i, f, tx'[w]), DOMAIN tx'[w].new = DOMAIN tx[w].new,
           OwnRows(tx'[w], rows, taken, loose), OwnSightings(tx'[w], todo, loose)
    PROVE  StockInv'
<1>1. /\ tx[w].open /\ tx[w].msg \in DOMAIN Posts \ todo /\ f \in I!Facts
      /\ tx[w].read \in [Groups -> Nat] /\ tx[w].made \in [Groups -> Nat]
      /\ OwnCount(tx[w], sighted)
  BY InHand
<1>2. tx'[w] \in Session /\ \A v \in Workers \ {w} : tx'[v] = tx[v]
  BY DEF Reposted, StockInv, StockTyped
<1>3. tx' \in [Workers -> Session]
  BY <1>2 DEF StockInv, StockTyped
<1>4. tx'[w].msg # 0
  BY <1>1, PostFields DEF Reposted
<1>5. Orderly(tx'[w], todo')
  BY <1>1, <1>4 DEF Orderly, Reposted
<1>6. OwnCount(tx'[w], sighted)
  <2>1. i \in Ids
    BY <1>1, MergedIs
  <2>2. \A g \in Groups : Of(tx'[w].seen, g) = Of(tx[w].seen, g)
    BY <1>1, <2>1, RepostSeen DEF Reposted
  <2> QED
    BY <1>1, <2>2 DEF OwnCount, Reposted
<1>7. taken \subseteq taken' /\ taken' \subseteq Ids /\ todo' \subseteq todo
      /\ DOMAIN tx'[w].new \subseteq DOMAIN tx[w].new
  BY DEF StockInv, StockTyped
<1>8. OwnRows(tx'[w], rows, taken', loose) /\ OwnSightings(tx'[w], todo', loose)
  OBVIOUS
<1> QED
  BY <1>2, <1>3, <1>5, <1>6, <1>7, <1>8, WorkerStep

LEMMA FilledFills ==
    ASSUME NEW r \in I!Row, NEW f \in I!Facts
    PROVE  I!Filled(r, f) \in I!Row /\ Fills(r, I!Filled(r, f)) /\ Kindred(r, I!Filled(r, f))
BY FilledRow DEF Fills, Kindred

LEMMA FillsOn ==
    ASSUME NEW r, NEW s, NEW u, Fills(r, s), Fills(s, u)
    PROVE  Fills(r, u)
<1> SUFFICES ASSUME NEW a \in Columns, u[a] # r[a]
             PROVE  a \in I!Fillable /\ r[a] = I!Blank[a]
  BY DEF Fills
<1>1. CASE s[a] = r[a]
  BY <1>1 DEF Fills
<1>2. CASE s[a] # r[a]
  BY <1>2 DEF Fills
<1> QED
  BY <1>1, <1>2

LEMMA KindredOn ==
    ASSUME NEW r, NEW s, NEW u, Kindred(r, s), Kindred(s, u)
    PROVE  Kindred(r, u)
BY DEF Kindred

LEMMA FillsKindred == ASSUME NEW r, NEW s, Fills(r, s) PROVE Kindred(r, s)
BY DEF Fills, Kindred

LEMMA KindredCandidate ==
    ASSUME NEW r, NEW s, NEW f, Kindred(r, s), I!IsCandidate(f, r)
    PROVE  I!IsCandidate(f, s)
<1>1. s.live = r.live /\ s.type = r.type /\ s.key = r.key /\ s.loc = r.loc
  BY DEF Kindred, Columns, I!Fillable
<1> QED
  BY <1>1 DEF I!IsCandidate

\* A repost of a flat that the session itself has inserted.
LEMMA MergeNew ==
    ASSUME StockInv, NEW w \in Workers, tx[w].left # <<>>, NEW f, f = Head(tx[w].left),
           NEW i \in I!Merged(w, f), i \in DOMAIN tx[w].new,
           tx' = [tx EXCEPT ![w] =
                    [tx[w] EXCEPT !.left = Tail(@), !.seen = I!Attached(w, i, f, "duplicate"),
                                  !.new[i] = I!Filled(I!Has(w, i), f)]],
           UNCHANGED <<rows, taken, sighted, count, todo, desk, deeds, loose, lapped>>
    PROVE  StockInv'
<1> DEFINE t == tx[w]  u == tx'[w]  filled == I!Filled(I!Has(w, i), f)
           seen == I!Attached(w, i, f, "duplicate")
<1>1. /\ t \in Session /\ f \in I!Facts /\ Tail(t.left) \in Seq(I!Facts)
      /\ t.msg \in DOMAIN Posts \ todo /\ OwnRows(t, rows, taken, loose)
      /\ OwnSightings(t, todo, loose)
  BY InHand
<1>2. /\ i \in Ids /\ i \notin DOMAIN t.copy /\ I!Has(w, i) = t.new[i]
      /\ I!IsCandidate(f, t.new[i]) /\ I!Matches(f, t.new[i])
  <2>1. i \notin On(rows)
    BY <1>1 DEF OwnRows
  <2> QED
    BY <1>1, <2>1, MergedIs
<1>3. t.new \in Copies /\ t.new[i] \in I!Row
  BY <1>1, SessionFields, CopyIs
<1>4. filled \in I!Row /\ Fills(t.new[i], filled) /\ Fits(f, filled)
  BY <1>1, <1>2, <1>3, FilledFills, FitsFilled
<1>5. seen \in SUBSET Sighting /\ IsFiniteSet(seen)
      /\ \A s \in seen : s \in t.seen \/ s = Sight(w, i, f, "duplicate")
  BY <1>1, <1>2, RepostSeen
<1> HIDE DEF filled, seen
<1>6. u = [t EXCEPT !.left = Tail(t.left), !.seen = seen, !.new = [t.new EXCEPT ![i] = filled]]
      /\ tx' = [tx EXCEPT ![w] = u]
  BY DEF StockInv, StockTyped, filled, seen
<1>7. /\ u.open = t.open /\ u.msg = t.msg /\ u.left = Tail(t.left) /\ u.base = t.base
      /\ u.copy = t.copy /\ u.new = [t.new EXCEPT ![i] = filled] /\ u.seen = seen
      /\ u.read = t.read /\ u.made = t.made
  <2> HIDE DEF t, u
  <2> QED
    BY <1>1, <1>6, SessionFields
<1>8. /\ DOMAIN u.new = DOMAIN t.new /\ u.new[i] = filled
      /\ \A j \in DOMAIN t.new \ {i} : u.new[j] = t.new[j]
  BY <1>3, <1>7
<1>9. u.new \in Copies
  BY <1>3, <1>4, <1>7 DEF Copies
<1>10. u \in Session
  <2>1. u = [a \in {"open", "msg", "left", "base", "copy", "new", "seen", "read", "made"} |-> u[a]]
    <3> HIDE DEF t, u
    <3> QED
      BY <1>1, <1>6, SessionFields
  <2> QED
    BY <1>1, <1>5, <1>7, <1>9, <2>1, SessionFields, IsSession
<1>11. Reposted(w, i, f, u)
  BY <1>7, <1>10 DEF Reposted, seen
<1>12. OwnRows(u, rows, taken, loose)
  BY <1>1, <1>7, <1>8 DEF OwnRows
<1>13. OwnSightings(u, todo, loose)
  <2> SUFFICES ASSUME NEW s \in seen
               PROVE  /\ s.msg \notin todo /\ s.row \in DOMAIN u.copy \cup DOMAIN u.new
                      /\ s.relation = "origin" => s.row \in DOMAIN u.new
                      /\ s.row \in DOMAIN u.new => Fits(s.facts, u.new[s.row])
                      /\ s.row \in DOMAIN u.copy \ loose => Fits(s.facts, u.copy[s.row])
    BY <1>5, <1>7 DEF OwnSightings
  <2>1. CASE s = Sight(w, i, f, "duplicate")
    <3>1. s.row = i /\ s.msg = t.msg /\ s.facts = f /\ s.relation = "duplicate"
      BY <2>1, SightIs
    <3> QED
      BY <1>1, <1>2, <1>4, <1>7, <1>8, <3>1
  <2>2. CASE s \in t.seen
    <3>1. /\ s.msg \notin todo /\ s.row \in DOMAIN t.copy \cup DOMAIN t.new
          /\ s.relation = "origin" => s.row \in DOMAIN t.new
          /\ s.row \in DOMAIN t.new => Fits(s.facts, t.new[s.row])
          /\ s.row \in DOMAIN t.copy \ loose => Fits(s.facts, t.copy[s.row])
      BY <1>1, <2>2 DEF OwnSightings
    <3>2. s.facts \in I!Facts
      BY <1>5, SightingFields
    <3>3. s.row = i => Fits(s.facts, u.new[i])
      BY <1>3, <1>4, <1>8, <3>1, <3>2, FitsStill
    <3> QED
      BY <1>7, <1>8, <3>1, <3>3
  <2> QED
    BY <1>5, <2>1, <2>2
<1> HIDE <1>6
<1> QED
  <2>1. tx' = [tx EXCEPT ![w] = tx'[w]]
    BY <1>6
  <2>2. DOMAIN tx'[w].new = DOMAIN tx[w].new
    BY <1>8
  <2> QED
    BY <1>11, <1>12, <1>13, <2>1, <2>2, Reposting

\* A repost of a stored flat: the session has a copy of the row from then on.
LEMMA MergeOld ==
    ASSUME StockInv, NEW w \in Workers, tx[w].left # <<>>, NEW f, f = Head(tx[w].left),
           NEW i \in I!Merged(w, f), i \notin DOMAIN tx[w].new,
           tx' = [tx EXCEPT ![w] =
                    [tx[w] EXCEPT !.left = Tail(@), !.seen = I!Attached(w, i, f, "duplicate"),
                                  !.copy = I!Over(I!At(i, I!Filled(I!Has(w, i), f)), @),
                                  !.base = I!Over(@, I!At(i, rows[i]))]],
           UNCHANGED <<rows, taken, sighted, count, todo, desk, deeds, loose, lapped>>
    PROVE  StockInv'
<1> DEFINE t == tx[w]  u == tx'[w]  r == I!Has(w, i)  filled == I!Filled(r, f)
           seen == I!Attached(w, i, f, "duplicate")
           copy == I!Over(I!At(i, filled), t.copy)
           base == I!Over(t.base, I!At(i, rows[i]))
<1>1. /\ t \in Session /\ f \in I!Facts /\ Tail(t.left) \in Seq(I!Facts)
      /\ t.msg \in DOMAIN Posts \ todo /\ OwnRows(t, rows, taken, loose)
      /\ OwnSightings(t, todo, loose)
  BY InHand
<1>2. /\ i \in Ids /\ i \in On(rows) /\ I!IsCandidate(f, rows[i]) /\ I!Matches(f, r)
      /\ i \in DOMAIN t.copy => r = t.copy[i]
      /\ i \notin DOMAIN t.copy => r = rows[i]
  BY <1>1, MergedIs
<1>3. /\ t.copy \in Copies /\ t.base \in Copies /\ rows[i] \in I!Row
      /\ i \in DOMAIN t.copy => t.copy[i] \in I!Row
  BY <1>1, <1>2, SessionFields, CopyIs, RowThere DEF StockInv
<1>4. r \in I!Row
  BY <1>2, <1>3
<1>5. filled \in I!Row /\ Fills(r, filled) /\ Kindred(r, filled)
  BY <1>1, <1>4, FilledFills
<1>6. i \in DOMAIN t.copy => Fills(t.base[i], t.copy[i])
                             /\ (i \notin loose => Kindred(rows[i], t.copy[i]))
  BY <1>1 DEF OwnRows
<1>7. i \notin loose => Fits(f, filled)
  <2>1. i \notin loose => I!IsCandidate(f, r)
    BY <1>2, <1>6, KindredCandidate
  <2> QED
    BY <1>1, <1>2, <1>4, <2>1, FitsFilled
<1>8. seen \in SUBSET Sighting /\ IsFiniteSet(seen)
      /\ \A s \in seen : s \in t.seen \/ s = Sight(w, i, f, "duplicate")
  BY <1>1, <1>2, RepostSeen
<1> HIDE DEF filled, seen, r
<1>9. /\ DOMAIN copy = DOMAIN t.copy \cup {i} /\ copy[i] = filled
      /\ \A j \in DOMAIN t.copy \ {i} : copy[j] = t.copy[j]
  <2> DEFINE one == I!At(i, filled)
  <2>1. /\ DOMAIN I!Over(one, t.copy) = DOMAIN one \cup DOMAIN t.copy
        /\ \A a \in DOMAIN one : I!Over(one, t.copy)[a] = one[a]
        /\ \A a \in DOMAIN t.copy \ DOMAIN one : I!Over(one, t.copy)[a] = t.copy[a]
    BY OverIs
  <2>2. DOMAIN one = {i} /\ one[i] = filled
    BY AtIs
  <2> HIDE DEF one
  <2>3. copy = I!Over(one, t.copy)
    BY DEF one
  <2> HIDE DEF copy
  <2> QED
    BY <2>1, <2>2, <2>3
<1>10. /\ DOMAIN base = DOMAIN t.base \cup {i}
       /\ \A j \in DOMAIN t.base : base[j] = t.base[j]
       /\ i \notin DOMAIN t.base => base[i] = rows[i]
  <2> DEFINE one == I!At(i, rows[i])
  <2>1. /\ DOMAIN I!Over(t.base, one) = DOMAIN t.base \cup DOMAIN one
        /\ \A a \in DOMAIN t.base : I!Over(t.base, one)[a] = t.base[a]
        /\ \A a \in DOMAIN one \ DOMAIN t.base : I!Over(t.base, one)[a] = one[a]
    BY OverIs
  <2>2. DOMAIN one = {i} /\ one[i] = rows[i]
    BY AtIs
  <2> HIDE DEF one
  <2>3. base = I!Over(t.base, one)
    BY DEF one
  <2> HIDE DEF base
  <2> QED
    BY <2>1, <2>2, <2>3
<1>11. copy \in Copies /\ base \in Copies
  BY <1>2, <1>3, <1>5, OverCopies, AtCopies
<1> HIDE DEF copy, base
<1>12. u = [t EXCEPT !.left = Tail(t.left), !.seen = seen, !.copy = copy, !.base = base]
       /\ tx' = [tx EXCEPT ![w] = u]
  BY DEF StockInv, StockTyped, filled, seen, copy, base, r
<1>13. /\ u.open = t.open /\ u.msg = t.msg /\ u.left = Tail(t.left) /\ u.base = base
       /\ u.copy = copy /\ u.new = t.new /\ u.seen = seen
       /\ u.read = t.read /\ u.made = t.made
       /\ u = [a \in {"open", "msg", "left", "base", "copy", "new", "seen", "read", "made"} |-> u[a]]
  <2> HIDE DEF t, u
  <2> QED
    BY <1>1, <1>12, SessionFields
<1>14. u \in Session
  BY <1>1, <1>8, <1>11, <1>13, SessionFields, IsSession
<1>15. Reposted(w, i, f, u)
  BY <1>13, <1>14 DEF Reposted, seen
<1>16. OwnRows(u, rows, taken, loose)
  <2>1. DOMAIN t.base = DOMAIN t.copy /\ DOMAIN t.copy \subseteq On(rows)
        /\ DOMAIN t.new \subseteq taken \ On(rows)
    BY <1>1 DEF OwnRows
  <2>2. \A j \in DOMAIN copy \ {i} : Fills(base[j], copy[j])
                                     /\ (j \notin loose => Kindred(rows[j], copy[j]))
    BY <1>1, <1>9, <1>10, <2>1 DEF OwnRows
  <2>3. Fills(base[i], copy[i])
    <3>1. CASE i \in DOMAIN t.copy
      BY <1>2, <1>5, <1>6, <1>9, <1>10, <2>1, <3>1, FillsOn
    <3>2. CASE i \notin DOMAIN t.copy
      BY <1>2, <1>5, <1>9, <1>10, <2>1, <3>2
    <3> QED
      BY <3>1, <3>2
  <2>4. i \notin loose => Kindred(rows[i], copy[i])
    <3>1. CASE i \in DOMAIN t.copy
      BY <1>2, <1>5, <1>6, <1>9, <3>1, KindredOn
    <3>2. CASE i \notin DOMAIN t.copy
      BY <1>2, <1>5, <1>9, <3>2
    <3> QED
      BY <3>1, <3>2
  <2>5. DOMAIN base = DOMAIN copy /\ DOMAIN copy \subseteq On(rows)
    BY <1>2, <1>9, <1>10, <2>1
  <2>6. \A j \in DOMAIN copy : Fills(base[j], copy[j])
                               /\ (j \notin loose => Kindred(rows[j], copy[j]))
    BY <2>2, <2>3, <2>4
  <2> QED
    BY <1>13, <2>1, <2>5, <2>6, Zenon DEF OwnRows
<1>17. OwnSightings(u, todo, loose)
  <2> SUFFICES ASSUME NEW s \in seen
               PROVE  /\ s.msg \notin todo /\ s.row \in DOMAIN u.copy \cup DOMAIN u.new
                      /\ s.relation = "origin" => s.row \in DOMAIN u.new
                      /\ s.row \in DOMAIN u.new => Fits(s.facts, u.new[s.row])
                      /\ s.row \in DOMAIN u.copy \ loose => Fits(s.facts, u.copy[s.row])
    BY <1>8, <1>13 DEF OwnSightings
  <2>1. CASE s = Sight(w, i, f, "duplicate")
    <3>1. s.row = i /\ s.msg = t.msg /\ s.facts = f /\ s.relation = "duplicate"
      BY <2>1, SightIs
    <3> QED
      BY <1>1, <1>7, <1>9, <1>13, <3>1
  <2>2. CASE s \in t.seen
    <3>1. /\ s.msg \notin todo /\ s.row \in DOMAIN t.copy \cup DOMAIN t.new
          /\ s.relation = "origin" => s.row \in DOMAIN t.new
          /\ s.row \in DOMAIN t.new => Fits(s.facts, t.new[s.row])
          /\ s.row \in DOMAIN t.copy \ loose => Fits(s.facts, t.copy[s.row])
      BY <1>1, <2>2 DEF OwnSightings
    <3>2. s.facts \in I!Facts
      BY <1>8, SightingFields
    <3>3. s.row = i /\ i \notin loose => Fits(s.facts, copy[i])
      <4> SUFFICES ASSUME s.row = i, i \notin loose PROVE Fits(s.facts, copy[i])
        OBVIOUS
      <4>1. i \in DOMAIN t.copy
        BY <3>1
      <4>2. r = t.copy[i] /\ Fits(s.facts, t.copy[i])
        BY <1>2, <3>1, <4>1
      <4> QED
        BY <1>4, <1>5, <1>9, <3>2, <4>2, FitsStill
    <3> QED
      BY <1>9, <1>13, <3>1, <3>3
  <2> QED
    BY <1>8, <2>1, <2>2
<1> QED
  <2>1. tx' = [tx EXCEPT ![w] = tx'[w]]
    BY <1>12
  <2>2. DOMAIN tx'[w].new = DOMAIN tx[w].new
    BY <1>13
  <2> HIDE <1>12
  <2> QED
    BY <1>15, <1>16, <1>17, <2>1, <2>2, Reposting

LEMMA MergeStep == ASSUME StockInv, NEW w \in Workers, I!Merge(w) PROVE StockInv'
<1> DEFINE f == Head(tx[w].left)
<1>1. tx[w].left # <<>>
      /\ UNCHANGED <<rows, taken, sighted, count, todo, desk, deeds, loose, lapped>>
  BY DEF I!Merge
<1>2. PICK i \in I!Merged(w, f) :
        LET filled == I!Filled(I!Has(w, i), f)
            at == [tx[w] EXCEPT !.left = Tail(@), !.seen = I!Attached(w, i, f, "duplicate")]
        IN tx' = [tx EXCEPT ![w] =
                    IF i \in DOMAIN at.new THEN [at EXCEPT !.new[i] = filled]
                    ELSE [at EXCEPT !.copy = I!Over(I!At(i, filled), @),
                                    !.base = I!Over(@, I!At(i, rows[i]))]]
  BY DEF I!Merge
<1> DEFINE at == [tx[w] EXCEPT !.left = Tail(@), !.seen = I!Attached(w, i, f, "duplicate")]
<1>3. tx[w] \in Session
  BY <1>1, InHand
<1>4. at.new = tx[w].new /\ at.copy = tx[w].copy /\ at.base = tx[w].base
  BY <1>3, SessionFields
<1>5. CASE i \in DOMAIN tx[w].new
  <2>1. tx' = [tx EXCEPT ![w] = [at EXCEPT !.new[i] = I!Filled(I!Has(w, i), f)]]
    BY <1>2, <1>4, <1>5
  <2>2. tx' = [tx EXCEPT ![w] =
                 [tx[w] EXCEPT !.left = Tail(@), !.seen = I!Attached(w, i, f, "duplicate"),
                               !.new[i] = I!Filled(I!Has(w, i), f)]]
    BY <2>1
  <2> QED
    BY <1>1, <1>5, <2>2, MergeNew
<1>6. CASE i \notin DOMAIN tx[w].new
  <2>1. tx' = [tx EXCEPT ![w] = [at EXCEPT !.copy = I!Over(I!At(i, I!Filled(I!Has(w, i), f)), @),
                                           !.base = I!Over(@, I!At(i, rows[i]))]]
    BY <1>2, <1>4, <1>6
  <2>2. tx' = [tx EXCEPT ![w] =
                 [tx[w] EXCEPT !.left = Tail(@), !.seen = I!Attached(w, i, f, "duplicate"),
                               !.copy = I!Over(I!At(i, I!Filled(I!Has(w, i), f)), @),
                               !.base = I!Over(@, I!At(i, rows[i]))]]
    BY <2>1
  <2> QED
    BY <1>1, <1>6, <2>2, MergeOld
<1> QED
  BY <1>5, <1>6

-----------------------------------------------------------------------------
(* Inserting                                                                 *)

LEMMA InsertStep == ASSUME StockInv, NEW w \in Workers, I!Insert(w) PROVE StockInv'
<1> DEFINE t == tx[w]  u == tx'[w]  f == Head(t.left)  home == Posts[t.msg].group
<1>1. /\ t.left # <<>> /\ UNCHANGED <<rows, sighted, count, todo, desk, deeds, loose, lapped>>
  BY DEF I!Insert
<1>2. /\ t \in Session /\ t.open /\ f \in I!Facts /\ Tail(t.left) \in Seq(I!Facts)
      /\ t.msg \in DOMAIN Posts \ todo /\ OwnRows(t, rows, taken, loose)
      /\ OwnSightings(t, todo, loose) /\ OwnCount(t, sighted)
      /\ t.read \in [Groups -> Nat] /\ t.made \in [Groups -> Nat]
  BY <1>1, InHand
<1>3. PICK i \in Ids \ taken :
        /\ taken' = taken \cup {i}
        /\ tx' = [tx EXCEPT
             ![w].left = Tail(@), ![w].seen = I!Attached(w, i, f, "origin"),
             ![w].made[home] = @ + 1,
             ![w].new = I!Over(@, I!At(i, NewRow(f)))]
  BY DEF I!Insert, NewRow
<1> DEFINE seen == I!Attached(w, i, f, "origin")  s0 == Sight(w, i, f, "origin")
           made == [t.made EXCEPT ![home] = t.made[home] + 1]
           new == I!Over(t.new, I!At(i, NewRow(f)))
<1>4. home \in Groups /\ t.msg \in Nat \ {0}
  BY <1>2, PostFields
<1>5. /\ On(rows) \subseteq taken /\ taken \subseteq Ids /\ tx \in [Workers -> Session]
      /\ \A s \in sighted : s.row \in On(rows)
  BY DEF StockInv, StockTyped
<1>6. /\ DOMAIN t.base = DOMAIN t.copy /\ DOMAIN t.copy \subseteq On(rows)
      /\ DOMAIN t.new \subseteq taken \ On(rows)
  BY <1>2, Zenon DEF OwnRows
<1>7. \A s \in t.seen : s.row \in DOMAIN t.copy \cup DOMAIN t.new
  BY <1>2 DEF OwnSightings
<1>8. seen = t.seen \cup {s0}
  BY <1>5, <1>6, <1>7, AttachedIs
<1>9. s0 \in Sighting /\ s0.row = i /\ s0.msg = t.msg /\ s0.facts = f /\ s0.relation = "origin"
  BY <1>2, SightIs
<1>10. t.seen \in SUBSET Sighting /\ IsFiniteSet(t.seen) /\ t.new \in Copies
  BY <1>2, SessionFields DEF OwnSightings
<1>11. seen \in SUBSET Sighting /\ IsFiniteSet(seen) /\ s0 \notin t.seen
  BY <1>5, <1>6, <1>7, <1>8, <1>9, <1>10, FS_AddElement
<1>12. NewRow(f) \in I!Row /\ Fits(f, NewRow(f))
  BY <1>2, NewRowIs, FitsOwn
<1> HIDE DEF seen, s0
<1>13. new \in Copies
  BY <1>10, <1>12, OverCopies, AtCopies
<1>14. /\ DOMAIN new = DOMAIN t.new \cup {i} /\ new[i] = NewRow(f)
       /\ \A j \in DOMAIN t.new : new[j] = t.new[j]
  <2> DEFINE one == I!At(i, NewRow(f))
  <2>1. /\ DOMAIN I!Over(t.new, one) = DOMAIN t.new \cup DOMAIN one
        /\ \A a \in DOMAIN t.new : I!Over(t.new, one)[a] = t.new[a]
        /\ \A a \in DOMAIN one \ DOMAIN t.new : I!Over(t.new, one)[a] = one[a]
    BY OverIs
  <2>2. DOMAIN one = {i} /\ one[i] = NewRow(f)
    BY AtIs
  <2> HIDE DEF one
  <2>3. new = I!Over(t.new, one)
    BY DEF one
  <2>4. i \notin DOMAIN t.new
    BY <1>6
  <2> HIDE DEF new
  <2> QED
    BY <2>1, <2>2, <2>3, <2>4
<1>15. /\ made \in [Groups -> Nat] /\ made[home] = t.made[home] + 1
       /\ \A g \in Groups \ {home} : made[g] = t.made[g]
  BY <1>2, <1>4
<1> HIDE DEF new, made
<1>16. u = [t EXCEPT !.left = Tail(t.left), !.seen = seen, !.made = made, !.new = new]
       /\ tx' = [tx EXCEPT ![w] = u]
  BY <1>3, <1>5 DEF seen, new, made
<1>17. /\ u.open = t.open /\ u.msg = t.msg /\ u.left = Tail(t.left) /\ u.base = t.base
       /\ u.copy = t.copy /\ u.new = new /\ u.seen = seen
       /\ u.read = t.read /\ u.made = made
       /\ u = [a \in {"open", "msg", "left", "base", "copy", "new", "seen", "read", "made"} |-> u[a]]
  <2> HIDE DEF t, u
  <2> QED
    BY <1>2, <1>16, SessionFields
<1>18. u \in Session
  <2>1. made \in Tallies
    BY <1>15 DEF Tallies
  <2> QED
    BY <1>2, <1>11, <1>13, <1>17, <2>1, SessionFields, IsSession
<1>19. tx' \in [Workers -> Session] /\ \A v \in Workers \ {w} : tx'[v] = tx[v]
  BY <1>5, <1>16, <1>18
<1>20. Orderly(u, todo')
  <2>1. u.open /\ u.msg # 0 /\ u.msg \in DOMAIN Posts \ todo'
    BY <1>1, <1>2, <1>4, <1>17
  <2> QED
    BY <1>2, <1>15, <1>17, <2>1 DEF Orderly
<1>21. OwnRows(u, rows, taken', loose)
  <2>1. DOMAIN new \subseteq taken' \ On(rows)
    BY <1>3, <1>5, <1>6, <1>14
  <2> QED
    BY <1>2, <1>6, <1>17, <2>1 DEF OwnRows
<1>22. OwnSightings(u, todo', loose)
  <2> SUFFICES ASSUME NEW s \in seen
               PROVE  /\ s.msg \notin todo /\ s.row \in DOMAIN u.copy \cup DOMAIN u.new
                      /\ s.relation = "origin" => s.row \in DOMAIN u.new
                      /\ s.row \in DOMAIN u.new => Fits(s.facts, u.new[s.row])
                      /\ s.row \in DOMAIN u.copy \ loose => Fits(s.facts, u.copy[s.row])
    BY <1>1, <1>11, <1>17 DEF OwnSightings
  <2>1. CASE s = s0
    BY <1>2, <1>5, <1>6, <1>9, <1>12, <1>14, <1>17, <2>1
  <2>2. CASE s \in t.seen
    <3>1. /\ s.msg \notin todo /\ s.row \in DOMAIN t.copy \cup DOMAIN t.new
          /\ s.relation = "origin" => s.row \in DOMAIN t.new
          /\ s.row \in DOMAIN t.new => Fits(s.facts, t.new[s.row])
          /\ s.row \in DOMAIN t.copy \ loose => Fits(s.facts, t.copy[s.row])
      BY <1>2, <2>2 DEF OwnSightings
    <3>2. s.row # i
      BY <1>5, <1>6, <3>1
    <3> QED
      BY <1>14, <1>17, <3>1, <3>2
  <2> QED
    BY <1>8, <2>1, <2>2
<1>23. OwnCount(u, sighted)
  <2>1. \A g \in Groups : /\ t.made[g] = t.read[g] + Cardinality(Of(t.seen, g))
                          /\ t.read[g] <= Cardinality(Of(sighted, g))
    BY <1>2 DEF OwnCount
  <2>2. \A g \in Groups : IsFiniteSet(Of(t.seen, g))
    BY <1>10, FS_Subset DEF Of
  <2>3. Of(seen, home) = Of(t.seen, home) \cup {s0} /\ s0 \notin Of(t.seen, home)
    BY <1>8, <1>9, <1>11 DEF Of
  <2>4. \A g \in Groups \ {home} : Of(seen, g) = Of(t.seen, g)
    BY <1>8, <1>9 DEF Of
  <2>5. Cardinality(Of(seen, home)) = Cardinality(Of(t.seen, home)) + 1
    BY <1>4, <2>2, <2>3, FS_AddElement
  <2>6. Cardinality(Of(t.seen, home)) \in Nat /\ t.read[home] \in Nat
    BY <1>2, <1>4, <2>2, FS_CardinalityType
  <2>7. made[home] = t.read[home] + Cardinality(Of(seen, home))
    BY <1>4, <1>15, <2>1, <2>5, <2>6
  <2>8. \A g \in Groups \ {home} : made[g] = t.read[g] + Cardinality(Of(seen, g))
    BY <1>15, <2>1, <2>4
  <2>9. \A g \in Groups : made[g] = t.read[g] + Cardinality(Of(seen, g))
    BY <2>7, <2>8
  <2> QED
    BY <1>17, <2>1, <2>9 DEF OwnCount
<1>24. taken \subseteq taken' /\ taken' \subseteq Ids /\ todo' \subseteq todo
       /\ DOMAIN tx'[w].new \subseteq DOMAIN tx[w].new \cup (taken' \ taken)
  BY <1>1, <1>3, <1>5, <1>14, <1>17
<1> HIDE <1>16
<1> QED
  BY <1>1, <1>19, <1>20, <1>21, <1>22, <1>23, <1>24, WorkerStep

-----------------------------------------------------------------------------
(* What is written                                                           *)

\* A row made of columns of two rows is a row.
LEMMA MixedRow ==
    ASSUME NEW p \in I!Row, NEW q \in I!Row, NEW r, r = [a \in Columns |-> r[a]],
           \A a \in Columns : r[a] = p[a] \/ r[a] = q[a]
    PROVE  r \in I!Row
<1>1. /\ r.type = p.type \/ r.type = q.type
      /\ r.loc = p.loc \/ r.loc = q.loc
      /\ r.building = p.building \/ r.building = q.building
      /\ r.bhk = p.bhk \/ r.bhk = q.bhk
      /\ r.price = p.price \/ r.price = q.price
      /\ r.area = p.area \/ r.area = q.area
      /\ r.phone = p.phone \/ r.phone = q.phone
      /\ r.live = p.live \/ r.live = q.live
      /\ r.review = p.review \/ r.review = q.review
      /\ r.key = p.key \/ r.key = q.key
  BY DEF Columns
<1>2. /\ r.type \in STRING /\ r.type # "" /\ r.loc \in I!Words /\ r.building \in I!Words
      /\ r.bhk \in Nat /\ r.price \in Nat /\ r.area \in Nat /\ r.phone \in STRING
  BY <1>1, StockFields
<1>3. r.live \in BOOLEAN
  BY <1>1, StockFields, Zenon
<1>4. r.review \in I!ReviewStates
  BY <1>1, StockFields, Zenon
<1>5. r.key \in {<<>>} \cup ((STRING \ {""}) \X Nat \X I!Words)
  BY <1>1, StockFields, Zenon
<1> QED
  BY <1>2, <1>3, <1>4, <1>5, IsStockRow

LEMMA WrittenIs ==
    ASSUME NEW base \in I!Row, NEW copy \in I!Row, NEW r \in I!Row
    PROVE  /\ I!Written(base, copy, r) \in I!Row
           /\ \A a \in Columns : I!Written(base, copy, r)[a] = IF copy[a] # base[a] THEN copy[a] ELSE r[a]
           /\ r = base => I!Written(base, copy, r) = copy
           /\ Fills(base, copy) => Kindred(r, I!Written(base, copy, r))
<1> DEFINE x == I!Written(base, copy, r)
<1>1. x = [a \in Columns |-> IF copy[a] # base[a] THEN copy[a] ELSE r[a]]
  BY StockFields DEF I!Written
<1>2. \A a \in Columns : x[a] = IF copy[a] # base[a] THEN copy[a] ELSE r[a]
  BY <1>1
<1>3. x = [a \in Columns |-> x[a]]
  BY <1>1
<1> HIDE DEF x
<1>4. x \in I!Row
  BY <1>2, <1>3, MixedRow
<1>5. r = base => x = copy
  <2> SUFFICES ASSUME r = base PROVE x = copy
    OBVIOUS
  <2>1. \A a \in Columns : x[a] = copy[a]
    BY <1>2
  <2>2. copy = [a \in Columns |-> copy[a]]
    BY StockFields
  <2> QED
    BY <1>3, <2>1, <2>2
<1>6. Fills(base, copy) => Kindred(r, x)
  BY <1>2 DEF Fills, Kindred
<1> QED
  BY <1>2, <1>4, <1>5, <1>6 DEF x

\* Answering a request leaves a row.
LEMMA AnsweredRow ==
    ASSUME NEW d \in Deeds, NEW base \in I!Row, NEW r \in I!Row
    PROVE  I!Written(base, I!Over(d.sets, base), r) \in I!Row
<1> DEFINE p == I!Over(d.sets, [I!NoRow EXCEPT !.type = "any"])
           made == I!Over(d.sets, base)
<1>1. DOMAIN d.sets \subseteq DOMAIN I!NoRow \ {"key"} /\ p \in I!Row
  BY PartsAssumption DEF I!DeedsAreReal
<1>2. \A b \in DOMAIN d.sets : p[b] = d.sets[b]
  BY OverIs
<1>3. /\ DOMAIN made = DOMAIN d.sets \cup DOMAIN base
      /\ \A a \in DOMAIN d.sets : made[a] = d.sets[a]
      /\ \A a \in DOMAIN base \ DOMAIN d.sets : made[a] = base[a]
  BY OverIs
<1>4. made = [a \in DOMAIN made |-> made[a]]
  BY DEF I!Over
<1> HIDE DEF p, made
<1>5. DOMAIN made = Columns
  BY <1>1, <1>3, StockFields, NoStockIs
<1>6. \A a \in Columns : made[a] = p[a] \/ made[a] = base[a]
  BY <1>2, <1>3, StockFields
<1>7. made \in I!Row
  BY <1>1, <1>4, <1>5, <1>6, MixedRow
<1> QED
  BY <1>7, WrittenIs DEF made

\* So does entering one by hand.
LEMMA EnteredRow ==
    ASSUME NEW d \in Deeds, d.kind = "create"
    PROVE  I!Over(d.sets, [I!NoRow EXCEPT !.live = TRUE]) \in I!Row
<1> DEFINE p == I!Over(d.sets, [I!NoRow EXCEPT !.type = "any"])
           bare == [I!NoRow EXCEPT !.live = TRUE]
           r == I!Over(d.sets, bare)
<1>1. /\ DOMAIN d.sets \subseteq DOMAIN I!NoRow \ {"key"} /\ p \in I!Row
      /\ "type" \in DOMAIN d.sets
  BY PartsAssumption DEF I!DeedsAreReal
<1>2. /\ \A a \in DOMAIN d.sets : p[a] = d.sets[a]
      /\ \A a \in Columns \ (DOMAIN d.sets \cup {"type"}) : p[a] = I!NoRow[a]
  <2> DEFINE typed == [I!NoRow EXCEPT !.type = "any"]
  <2>1. DOMAIN typed = Columns /\ \A a \in Columns \ {"type"} : typed[a] = I!NoRow[a]
    BY NoStockIs
  <2> HIDE DEF typed
  <2>2. /\ \A a \in DOMAIN d.sets : I!Over(d.sets, typed)[a] = d.sets[a]
        /\ \A a \in DOMAIN typed \ DOMAIN d.sets : I!Over(d.sets, typed)[a] = typed[a]
    BY OverIs
  <2>3. p = I!Over(d.sets, typed)
    BY DEF typed
  <2> HIDE DEF p
  <2> QED
    BY <2>1, <2>2, <2>3
<1>3. /\ DOMAIN bare = Columns /\ bare["live"] = TRUE
      /\ \A a \in Columns \ {"live"} : bare[a] = I!NoRow[a]
  BY NoStockIs DEF Columns
<1> HIDE DEF bare, p
<1>4. /\ DOMAIN r = DOMAIN d.sets \cup DOMAIN bare
      /\ \A a \in DOMAIN d.sets : r[a] = d.sets[a]
      /\ \A a \in DOMAIN bare \ DOMAIN d.sets : r[a] = bare[a]
  BY OverIs
<1>5. r = [a \in DOMAIN r |-> r[a]]
  BY DEF I!Over
<1> HIDE DEF r
<1>6. DOMAIN r = Columns
  BY <1>1, <1>3, <1>4, NoStockIs
<1> DEFINE q == [p EXCEPT !["live"] = TRUE]
<1>7. q \in I!Row /\ q["live"] = TRUE /\ \A a \in Columns \ {"live"} : q[a] = p[a]
  <2>1. p = [a \in Columns |-> p[a]] /\ "live" \in Columns
    BY <1>1, StockFields DEF Columns
  <2>2. q["live"] = TRUE /\ (\A a \in Columns \ {"live"} : q[a] = p[a]) /\ q = [a \in Columns |-> q[a]]
    BY <2>1
  <2> HIDE DEF q
  <2>3. /\ q.type = p.type /\ q.loc = p.loc /\ q.building = p.building /\ q.bhk = p.bhk
        /\ q.price = p.price /\ q.area = p.area /\ q.phone = p.phone
        /\ q.review = p.review /\ q.key = p.key
    BY <2>2 DEF Columns
  <2>4. /\ q.type \in STRING /\ q.type # "" /\ q.loc \in I!Words /\ q.building \in I!Words
        /\ q.bhk \in Nat /\ q.price \in Nat /\ q.area \in Nat /\ q.phone \in STRING
    BY <1>1, <2>3, StockFields
  <2>5. q.live \in BOOLEAN
    BY <2>2, Zenon
  <2>6. q.review \in I!ReviewStates /\ q.key \in {<<>>} \cup ((STRING \ {""}) \X Nat \X I!Words)
    BY <1>1, <2>3, StockFields, Zenon
  <2>7. q \in I!Row
    BY <2>2, <2>4, <2>5, <2>6, IsStockRow
  <2> QED
    BY <2>2, <2>7
<1> HIDE DEF q
<1>8. \A a \in Columns : r[a] = p[a] \/ r[a] = q[a]
  <2> TAKE a \in Columns
  <2>1. CASE a \in DOMAIN d.sets
    BY <1>2, <1>4, <2>1
  <2>2. CASE a \notin DOMAIN d.sets /\ a = "live"
    BY <1>3, <1>4, <1>7, <2>2
  <2>3. CASE a \notin DOMAIN d.sets /\ a # "live"
    BY <1>1, <1>2, <1>3, <1>4, <2>3
  <2> QED
    BY <2>1, <2>2, <2>3
<1>9. r \in I!Row
  BY <1>1, <1>5, <1>6, <1>7, <1>8, MixedRow
<1> QED
  BY <1>9 DEF r, bare

-----------------------------------------------------------------------------
(* A batch is committed                                                      *)

\* What w's commit makes of the rows.
Lands(w) ==
    /\ \A i \in Ids :
         /\ i \in DOMAIN tx[w].new => rows'[i] = tx[w].new[i]
         /\ i \in DOMAIN tx[w].copy =>
              rows'[i] = I!Written(tx[w].base[i], tx[w].copy[i], rows[i])
         /\ i \notin DOMAIN tx[w].new \cup DOMAIN tx[w].copy => rows'[i] = rows[i]
    /\ loose' = loose \cup {i \in DOMAIN tx[w].copy : rows[i] # tx[w].base[i]}

LEMMA InBatch ==
    ASSUME StockInv, NEW w \in Workers
    PROVE  /\ tx[w] \in Session /\ Orderly(tx[w], todo) /\ OwnCount(tx[w], sighted)
           /\ OwnSightings(tx[w], todo, loose) /\ OwnRows(tx[w], rows, taken, loose)
           /\ DOMAIN tx[w].base = DOMAIN tx[w].copy /\ DOMAIN tx[w].copy \subseteq On(rows)
           /\ DOMAIN tx[w].new \subseteq taken \ On(rows) /\ taken \subseteq Ids
           /\ \A i \in DOMAIN tx[w].copy :
                /\ tx[w].copy[i] \in I!Row /\ tx[w].base[i] \in I!Row /\ rows[i] \in I!Row
                /\ Fills(tx[w].base[i], tx[w].copy[i])
           /\ \A i \in DOMAIN tx[w].new : tx[w].new[i] \in I!Row
<1>1. tx[w] \in Session /\ Orderly(tx[w], todo) /\ OwnCount(tx[w], sighted)
      /\ OwnSightings(tx[w], todo, loose) /\ OwnRows(tx[w], rows, taken, loose)
      /\ taken \subseteq Ids
  BY DEF StockInv, StockTyped, Orders, RowsHeld, SightingsHeld, CountsHeld
<1>2. DOMAIN tx[w].base = DOMAIN tx[w].copy /\ DOMAIN tx[w].copy \subseteq On(rows)
      /\ DOMAIN tx[w].new \subseteq taken \ On(rows)
  BY <1>1, Zenon DEF OwnRows
<1>3. \A i \in DOMAIN tx[w].copy : Fills(tx[w].base[i], tx[w].copy[i])
  BY <1>1 DEF OwnRows
<1>4. tx[w].base \in Copies /\ tx[w].copy \in Copies /\ tx[w].new \in Copies
  BY <1>1, SessionFields
<1>5. \A i \in On(rows) : rows[i] \in I!Row
  BY RowThere DEF StockInv
<1>6. \A i \in DOMAIN tx[w].copy :
        tx[w].copy[i] \in I!Row /\ tx[w].base[i] \in I!Row /\ rows[i] \in I!Row
  BY <1>2, <1>4, <1>5, CopyIs
<1>7. \A i \in DOMAIN tx[w].new : tx[w].new[i] \in I!Row
  BY <1>4, CopyIs
<1> QED
  BY <1>1, <1>2, <1>3, <1>6, <1>7

LEMMA CommitLands == ASSUME StockInv, NEW w \in Workers, I!Commit(w) PROVE Lands(w)
<1>1. DOMAIN tx[w].copy \subseteq On(rows) /\ DOMAIN tx[w].new \cap On(rows) = {}
  BY InBatch
<1>2. rows' = [i \in Ids |->
         CASE i \in DOMAIN tx[w].new -> tx[w].new[i]
           [] i \in DOMAIN tx[w].copy -> I!Written(tx[w].base[i], tx[w].copy[i], rows[i])
           [] OTHER -> rows[i]]
  BY DEF I!Commit
<1>3. loose' = loose \cup {i \in DOMAIN tx[w].copy : rows[i] # tx[w].base[i]}
  BY DEF I!Commit
<1>4. \A i \in Ids :
         /\ i \in DOMAIN tx[w].new => rows'[i] = tx[w].new[i]
         /\ i \in DOMAIN tx[w].copy =>
              rows'[i] = I!Written(tx[w].base[i], tx[w].copy[i], rows[i])
         /\ i \notin DOMAIN tx[w].new \cup DOMAIN tx[w].copy => rows'[i] = rows[i]
  BY <1>1, <1>2
<1> QED
  BY <1>3, <1>4 DEF Lands

LEMMA LandedRows ==
    ASSUME StockInv, NEW w \in Workers, Lands(w)
    PROVE  /\ \A i \in Ids : rows'[i] \in I!Row \cup {I!NoRow}
           /\ On(rows') = On(rows) \cup DOMAIN tx[w].new
           /\ \A i \in DOMAIN tx[w].copy \ loose' :
                rows[i] = tx[w].base[i] /\ rows'[i] = tx[w].copy[i]
           /\ \A i \in On(rows) \ loose' : Fills(rows[i], rows'[i]) /\ Kindred(rows[i], rows'[i])
<1> DEFINE t == tx[w]
<1>1. /\ DOMAIN t.copy \subseteq On(rows) /\ DOMAIN t.new \subseteq taken \ On(rows)
      /\ taken \subseteq Ids
      /\ \A i \in DOMAIN t.copy :
           /\ t.copy[i] \in I!Row /\ t.base[i] \in I!Row /\ rows[i] \in I!Row
           /\ Fills(t.base[i], t.copy[i])
      /\ \A i \in DOMAIN t.new : t.new[i] \in I!Row
  BY InBatch
<1>2. /\ \A i \in Ids :
         /\ i \in DOMAIN t.new => rows'[i] = t.new[i]
         /\ i \in DOMAIN t.copy => rows'[i] = I!Written(t.base[i], t.copy[i], rows[i])
         /\ i \notin DOMAIN t.new \cup DOMAIN t.copy => rows'[i] = rows[i]
      /\ loose' = loose \cup {i \in DOMAIN t.copy : rows[i] # t.base[i]}
  BY DEF Lands
<1>3. \A i \in Ids : rows[i] \in I!Row \cup {I!NoRow}
  BY RowOrNot DEF StockInv
<1>4. \A r \in I!Row : r # I!NoRow
  BY StockFields
<1>5. On(rows) \subseteq Ids
  BY DEF On
<1> HIDE DEF t
<1>6. \A i \in DOMAIN t.copy : rows'[i] \in I!Row
  BY <1>1, <1>2, <1>5, WrittenIs
<1>7. \A i \in Ids : rows'[i] \in I!Row \cup {I!NoRow}
  BY <1>1, <1>2, <1>3, <1>6
<1>8. On(rows') = On(rows) \cup DOMAIN t.new
  <2>1. \A i \in Ids : rows'[i] # I!NoRow <=> (rows[i] # I!NoRow \/ i \in DOMAIN t.new)
    BY <1>1, <1>2, <1>4, <1>6
  <2> QED
    BY <1>1, <2>1 DEF On
<1>9. \A i \in DOMAIN t.copy \ loose' : rows[i] = t.base[i] /\ rows'[i] = t.copy[i]
  <2> TAKE i \in DOMAIN t.copy \ loose'
  <2>1. rows[i] = t.base[i]
    BY <1>2
  <2>2. rows'[i] = I!Written(t.base[i], t.copy[i], rows[i])
    BY <1>1, <1>2, <1>5
  <2>3. I!Written(t.base[i], t.copy[i], rows[i]) = t.copy[i]
    BY <1>1, <2>1, WrittenIs
  <2> QED
    BY <2>1, <2>2, <2>3
<1>10. \A i \in On(rows) \ loose' : Fills(rows[i], rows'[i])
  <2> TAKE i \in On(rows) \ loose'
  <2>1. CASE i \in DOMAIN t.copy
    BY <1>1, <1>9, <2>1
  <2>2. CASE i \notin DOMAIN t.copy
    <3>1. rows'[i] = rows[i]
      BY <1>1, <1>2, <1>5, <2>2
    <3> QED
      BY <3>1 DEF Fills
  <2> QED
    BY <2>1, <2>2
<1>11. \A i \in On(rows) \ loose' : Kindred(rows[i], rows'[i])
  BY <1>10, FillsKindred
<1> QED
  BY <1>7, <1>8, <1>9, <1>10, <1>11 DEF t

\* The counts, after a commit of a session that began with what it read.
LEMMA CommitCounts ==
    ASSUME StockInv, NEW w \in Workers, I!Commit(w)
    PROVE  /\ Counted'
           /\ \A g \in Groups : Cardinality(Of(sighted, g)) <= Cardinality(Of(sighted', g))
           /\ count' \in [Groups -> Nat] /\ lapped' \subseteq Groups
<1> DEFINE t == tx[w]  counted == {g \in Groups : t.made[g] # t.read[g]}
<1>1. /\ t.open /\ sighted' = sighted \cup t.seen
      /\ count' = [g \in Groups |-> IF g \in counted THEN t.made[g] ELSE count[g]]
      /\ lapped' = lapped \cup {g \in counted : count[g] # t.read[g]}
  BY DEF I!Commit
<1>2. /\ Orderly(t, todo) /\ OwnCount(t, sighted) /\ OwnSightings(t, todo, loose)
      /\ DOMAIN t.new \cap On(rows) = {}
  BY InBatch
<1>3. t.read \in [Groups -> Nat] /\ t.made \in [Groups -> Nat]
  BY <1>1, <1>2, Zenon DEF Orderly
<1>4. \A g \in Groups : t.made[g] = t.read[g] + Cardinality(Of(t.seen, g))
                        /\ t.read[g] <= Cardinality(Of(sighted, g))
  BY <1>1, <1>2, Zenon DEF OwnCount
<1>5. IsFiniteSet(t.seen) /\ \A s \in t.seen : s.relation = "origin" => s.row \in DOMAIN t.new
  BY <1>2 DEF OwnSightings
<1>6. /\ IsFiniteSet(sighted) /\ \A s \in sighted : s.row \in On(rows)
      /\ count \in [Groups -> Nat] /\ lapped \subseteq Groups
  BY DEF StockInv, StockTyped
<1>7. \A g \in Groups : count[g] <= Cardinality(Of(sighted, g))
                        /\ (g \notin lapped => count[g] = Cardinality(Of(sighted, g)))
  BY DEF StockInv, Counted
<1> HIDE DEF t
<1>8. \A g \in Groups : IsFiniteSet(Of(sighted, g)) /\ IsFiniteSet(Of(t.seen, g))
  BY <1>5, <1>6, FS_Subset DEF Of
<1>9. \A g \in Groups : Of(sighted', g) = Of(sighted, g) \cup Of(t.seen, g)
                        /\ Of(sighted, g) \cap Of(t.seen, g) = {}
  BY <1>1, <1>2, <1>5, <1>6 DEF Of
<1>10. \A g \in Groups :
         /\ Cardinality(Of(sighted', g)) = Cardinality(Of(sighted, g)) + Cardinality(Of(t.seen, g))
         /\ Cardinality(Of(sighted, g)) \in Nat /\ Cardinality(Of(t.seen, g)) \in Nat
  <2> TAKE g \in Groups
  <2>1. Cardinality(Of(sighted, g)) \in Nat /\ Cardinality(Of(t.seen, g)) \in Nat
    BY <1>8, FS_CardinalityType
  <2>2. Cardinality(Of(sighted, g) \cup Of(t.seen, g))
          = Cardinality(Of(sighted, g)) + Cardinality(Of(t.seen, g))
              - Cardinality(Of(sighted, g) \cap Of(t.seen, g))
    BY <1>8, FS_Union
  <2>3. Cardinality(Of(sighted, g) \cap Of(t.seen, g)) = 0
    BY <1>9, FS_EmptySet
  <2>4. Of(sighted', g) = Of(sighted, g) \cup Of(t.seen, g)
    BY <1>9
  <2> QED
    BY <2>1, <2>2, <2>3, <2>4
<1>11. \A g \in Groups : /\ count'[g] <= Cardinality(Of(sighted', g))
                         /\ g \notin lapped' => count'[g] = Cardinality(Of(sighted', g))
  <2> TAKE g \in Groups
  <2>1. count'[g] = IF g \in counted THEN t.made[g] ELSE count[g]
    BY <1>1
  <2>2. t.read[g] \in Nat /\ t.made[g] \in Nat /\ count[g] \in Nat
    BY <1>3, <1>6
  <2>3. CASE g \in counted
    <3>1. count'[g] = t.read[g] + Cardinality(Of(t.seen, g))
      BY <1>4, <2>1, <2>3
    <3>2. g \notin lapped' => count[g] = t.read[g] /\ g \notin lapped
      BY <1>1, <2>3
    <3> QED
      BY <1>4, <1>7, <1>10, <2>2, <3>1, <3>2
  <2>4. CASE g \notin counted
    <3>1. count'[g] = count[g] /\ t.made[g] = t.read[g]
      BY <2>1, <2>4
    <3>2. Cardinality(Of(t.seen, g)) = 0
      BY <1>4, <1>10, <2>2, <3>1
    <3>3. g \notin lapped' => g \notin lapped
      BY <1>1
    <3> QED
      BY <1>7, <1>10, <2>2, <3>1, <3>2, <3>3
  <2> QED
    BY <2>3, <2>4
<1>12. \A g \in Groups : Cardinality(Of(sighted, g)) <= Cardinality(Of(sighted', g))
  BY <1>10
<1>13. count' \in [Groups -> Nat]
  BY <1>1, <1>3, <1>6
<1>14. lapped' \subseteq Groups
  BY <1>1, <1>6
<1> QED
  BY <1>11, <1>12, <1>13, <1>14, Zenon DEF Counted

LEMMA CommitStep == ASSUME StockInv, NEW w \in Workers, I!Commit(w) PROVE StockInv'
<1> DEFINE t == tx[w]
<1>1. /\ sighted' = sighted \cup t.seen /\ tx' = [tx EXCEPT ![w] = I!AtRest]
      /\ loose' = loose \cup {i \in DOMAIN t.copy : rows[i] # t.base[i]}
      /\ UNCHANGED <<taken, todo, desk, deeds>>
  BY DEF I!Commit
<1>2. Lands(w)
  BY CommitLands
<1>3. /\ \A i \in Ids : rows'[i] \in I!Row \cup {I!NoRow}
      /\ On(rows') = On(rows) \cup DOMAIN t.new
      /\ \A i \in DOMAIN t.copy \ loose' : rows[i] = t.base[i] /\ rows'[i] = t.copy[i]
      /\ \A i \in On(rows) \ loose' : Fills(rows[i], rows'[i]) /\ Kindred(rows[i], rows'[i])
  BY <1>2, LandedRows
<1>4. /\ t \in Session /\ OwnSightings(t, todo, loose)
      /\ DOMAIN t.copy \subseteq On(rows) /\ DOMAIN t.new \subseteq taken \ On(rows)
      /\ \A i \in DOMAIN t.copy : t.copy[i] \in I!Row
      /\ \A i \in DOMAIN t.new : t.new[i] \in I!Row
  BY InBatch
<1>5. /\ Counted'
      /\ \A g \in Groups : Cardinality(Of(sighted, g)) <= Cardinality(Of(sighted', g))
      /\ count' \in [Groups -> Nat] /\ lapped' \subseteq Groups
  BY CommitCounts
<1>6. /\ IsFiniteSet(t.seen) /\ t.seen \in SUBSET Sighting
      /\ \A s \in t.seen :
           /\ s.msg \notin todo /\ s.row \in DOMAIN t.copy \cup DOMAIN t.new
           /\ s.row \in DOMAIN t.new => Fits(s.facts, t.new[s.row])
           /\ s.row \in DOMAIN t.copy \ loose => Fits(s.facts, t.copy[s.row])
  BY <1>4, SessionFields DEF OwnSightings
<1>7. tx' \in [Workers -> Session] /\ tx'[w] = I!AtRest /\ \A v \in Workers \ {w} : tx'[v] = tx[v]
  BY <1>1, AtRestIs DEF StockInv, StockTyped
<1>8. StockTyped'
  <2>1. rows' \in [Ids -> I!Row \cup {I!NoRow}]
    <3>1. rows' = [i \in Ids |-> rows'[i]]
      BY DEF I!Commit
    <3> QED
      BY <1>3, <3>1
  <2>2. sighted' \in SUBSET Sighting /\ IsFiniteSet(sighted')
    <3>1. sighted \in SUBSET Sighting /\ IsFiniteSet(sighted)
      BY DEF StockInv, StockTyped
    <3> QED
      BY <1>1, <1>6, <3>1, FS_Union
  <2>3. On(rows') \subseteq taken' /\ taken' \subseteq Ids /\ todo' \subseteq DOMAIN Posts
        /\ deeds' \in 0 .. MaxDeeds
    BY <1>1, <1>3, <1>4 DEF StockInv, StockTyped
  <2>4. \A s \in sighted' : s.row \in On(rows') /\ s.msg \notin todo'
    <3>1. \A s \in sighted : s.row \in On(rows) /\ s.msg \notin todo
      BY DEF StockInv, StockTyped
    <3> QED
      BY <1>1, <1>3, <1>4, <1>6, <3>1
  <2>5. desk' = I!NoDeed \/ (desk' \in Wish /\ desk'.id \in On(rows'))
    BY <1>1, <1>3 DEF StockInv, StockTyped
  <2>6. loose' \subseteq On(rows')
    BY <1>1, <1>3, <1>4 DEF StockInv, StockTyped
  <2> QED
    BY <1>5, <1>7, <2>1, <2>2, <2>3, <2>4, <2>5, <2>6 DEF StockTyped
<1>9. Orders'
  <2>1. \A v \in Workers : Orderly(tx'[v], todo')
    BY <1>1, <1>7, RestIsSound DEF StockInv, Orders
  <2> QED
    BY <2>1 DEF Orders
<1>10. RowsHeld'
  <2>1. OwnRows(tx'[w], rows', taken', loose')
    BY <1>7, RestIsSound
  <2>2. ASSUME NEW v \in Workers \ {w} PROVE OwnRows(tx'[v], rows', taken', loose')
    <3>1. /\ DOMAIN tx[v].base = DOMAIN tx[v].copy /\ DOMAIN tx[v].copy \subseteq On(rows)
          /\ DOMAIN tx[v].new \subseteq taken \ On(rows)
          /\ \A i \in DOMAIN tx[v].copy : Fills(tx[v].base[i], tx[v].copy[i])
                                          /\ (i \notin loose => Kindred(rows[i], tx[v].copy[i]))
      BY DEF StockInv, RowsHeld, OwnRows
    <3>2. DOMAIN tx[v].new \cap DOMAIN t.new = {}
      BY DEF StockInv, NewApart
    <3>3. \A i \in DOMAIN tx[v].copy : i \notin loose' => Kindred(rows'[i], tx[v].copy[i])
      <4> TAKE i \in DOMAIN tx[v].copy
      <4> HAVE i \notin loose'
      <4>1. Kindred(rows[i], rows'[i])
        BY <1>3, <3>1
      <4>2. Kindred(rows[i], tx[v].copy[i])
        BY <1>1, <3>1
      <4> QED
        BY <4>1, <4>2 DEF Kindred
    <3>4. DOMAIN tx[v].new \subseteq taken' \ On(rows') /\ DOMAIN tx[v].copy \subseteq On(rows')
      BY <1>1, <1>3, <3>1, <3>2
    <3>5. OwnRows(tx[v], rows', taken', loose')
      BY <3>1, <3>3, <3>4, Zenon DEF OwnRows
    <3> QED
      BY <1>7, <3>5
  <2>3. \A v \in Workers : OwnRows(tx'[v], rows', taken', loose')
    BY <2>1, <2>2
  <2> QED
    BY <2>3 DEF RowsHeld
<1>11. SightingsHeld'
  <2>1. OwnSightings(tx'[w], todo', loose')
    BY <1>7, RestIsSound
  <2>2. \A v \in Workers \ {w} : OwnSightings(tx[v], todo, loose)
    BY DEF StockInv, SightingsHeld
  <2>3. \A v \in Workers \ {w} : OwnSightings(tx[v], todo', loose')
    BY <1>1, <2>2 DEF OwnSightings
  <2>4. \A v \in Workers : OwnSightings(tx'[v], todo', loose')
    BY <1>7, <2>1, <2>3
  <2> QED
    BY <2>4 DEF SightingsHeld
<1>12. CountsHeld'
  <2>1. OwnCount(tx'[w], sighted')
    BY <1>7, RestIsSound
  <2>2. ASSUME NEW v \in Workers \ {w} PROVE OwnCount(tx[v], sighted')
    <3>1. OwnCount(tx[v], sighted) /\ Orderly(tx[v], todo)
      BY InBatch
    <3> SUFFICES ASSUME tx[v].open, NEW g \in Groups
                 PROVE  /\ tx[v].made[g] = tx[v].read[g] + Cardinality(Of(tx[v].seen, g))
                        /\ tx[v].read[g] <= Cardinality(Of(sighted', g))
      BY Zenon DEF OwnCount
    <3>2. /\ tx[v].made[g] = tx[v].read[g] + Cardinality(Of(tx[v].seen, g))
          /\ tx[v].read[g] <= Cardinality(Of(sighted, g))
      BY <3>1, Zenon DEF OwnCount
    <3>3. tx[v].read \in [Groups -> Nat]
      BY <3>1, Zenon DEF Orderly
    <3>4. IsFiniteSet(Of(sighted, g)) /\ IsFiniteSet(Of(sighted', g))
      <4>1. IsFiniteSet(sighted) /\ IsFiniteSet(sighted')
        BY <1>8 DEF StockInv, StockTyped
      <4> QED
        BY <4>1, FS_Subset DEF Of
    <3>5. Cardinality(Of(sighted, g)) \in Nat /\ Cardinality(Of(sighted', g)) \in Nat
      BY <3>4, FS_CardinalityType
    <3>6. Cardinality(Of(sighted, g)) <= Cardinality(Of(sighted', g)) /\ tx[v].read[g] \in Nat
      BY <1>5, <3>3
    <3> QED
      BY <3>2, <3>5, <3>6
  <2>3. \A v \in Workers : OwnCount(tx'[v], sighted')
    BY <1>7, <2>1, <2>2
  <2> QED
    BY <2>3 DEF CountsHeld
<1>13. NewApart'
  <2>1. DOMAIN tx'[w].new = {}
    BY <1>7, AtRestIs
  <2>2. \A u, v \in Workers : u # v => DOMAIN tx[u].new \cap DOMAIN tx[v].new = {}
    BY DEF StockInv, NewApart
  <2>3. \A u, v \in Workers : u # v => DOMAIN tx'[u].new \cap DOMAIN tx'[v].new = {}
    BY <1>7, <2>1, <2>2
  <2> QED
    BY <2>3 DEF NewApart
<1>14. RowsFit'
  <2> SUFFICES ASSUME NEW s \in sighted', s.row \notin loose' PROVE Fits(s.facts, rows'[s.row])
    BY DEF RowsFit
  <2>1. CASE s \in sighted
    <3>1. s.row \in On(rows) /\ Fits(s.facts, rows[s.row]) /\ s.facts \in I!Facts
      BY <1>1, <2>1, SightingFields DEF StockInv, StockTyped, RowsFit
    <3>2. rows[s.row] \in I!Row /\ Fills(rows[s.row], rows'[s.row])
      BY <1>3, <3>1, RowThere DEF StockInv
    <3>3. rows'[s.row] \in I!Row
      <4>1. rows'[s.row] # I!NoRow /\ s.row \in Ids
        BY <1>3, <3>1 DEF On
      <4> QED
        BY <1>3, <4>1
    <3> QED
      BY <3>1, <3>2, <3>3, FitsStill
  <2>2. CASE s \in t.seen
    <3>1. CASE s.row \in DOMAIN t.new
      <4>1. rows'[s.row] = t.new[s.row]
        BY <1>2, <1>6, <2>2, <3>1, SightingFields DEF Lands
      <4> QED
        BY <1>6, <2>2, <3>1, <4>1
    <3>2. CASE s.row \in DOMAIN t.copy
      <4>1. rows'[s.row] = t.copy[s.row] /\ s.row \notin loose
        BY <1>1, <1>3, <3>2
      <4> QED
        BY <1>6, <2>2, <3>2, <4>1
    <3> QED
      BY <1>6, <2>2, <3>1, <3>2
  <2> QED
    BY <1>1, <2>1, <2>2
<1> QED
  BY <1>5, <1>8, <1>9, <1>10, <1>11, <1>12, <1>13, <1>14 DEF StockInv

-----------------------------------------------------------------------------
(* People                                                                    *)

\* A step that changes rows by hand: the touched are loose afterwards.
LEMMA HandStep ==
    ASSUME StockInv, UNCHANGED <<sighted, count, todo, tx, lapped>>,
           rows' \in [Ids -> I!Row \cup {I!NoRow}], On(rows) \subseteq On(rows'),
           On(rows') \ On(rows) \subseteq taken' \ taken, taken \subseteq taken', taken' \subseteq Ids,
           loose \subseteq loose', loose' \subseteq On(rows'),
           \A i \in On(rows) \ loose' : rows'[i] = rows[i],
           desk' = I!NoDeed \/ (desk' \in Wish /\ desk'.id \in On(rows')),
           deeds' \in 0 .. MaxDeeds
    PROVE  StockInv'
<1>1. StockTyped'
  BY DEF StockInv, StockTyped
<1>2. Orders'
  BY DEF StockInv, Orders
<1>3. RowsHeld'
  <2> SUFFICES ASSUME NEW w \in Workers PROVE OwnRows(tx[w], rows', taken', loose')
    BY DEF RowsHeld
  <2>1. /\ DOMAIN tx[w].base = DOMAIN tx[w].copy /\ DOMAIN tx[w].copy \subseteq On(rows)
        /\ DOMAIN tx[w].new \subseteq taken \ On(rows)
        /\ \A i \in DOMAIN tx[w].copy : Fills(tx[w].base[i], tx[w].copy[i])
                                        /\ (i \notin loose => Kindred(rows[i], tx[w].copy[i]))
    BY DEF StockInv, RowsHeld, OwnRows
  <2>2. \A i \in DOMAIN tx[w].copy : i \notin loose' => Kindred(rows'[i], tx[w].copy[i])
    <3> TAKE i \in DOMAIN tx[w].copy
    <3> HAVE i \notin loose'
    <3>1. rows'[i] = rows[i] /\ i \notin loose
      BY <2>1
    <3> QED
      BY <2>1, <3>1
  <2>3. DOMAIN tx[w].new \subseteq taken' \ On(rows') /\ DOMAIN tx[w].copy \subseteq On(rows')
    BY <2>1
  <2> QED
    BY <2>1, <2>2, <2>3, Zenon DEF OwnRows
<1>4. SightingsHeld'
  <2>1. \A w \in Workers : OwnSightings(tx[w], todo, loose)
    BY DEF StockInv, SightingsHeld
  <2>2. \A w \in Workers : OwnSightings(tx[w], todo, loose')
    BY <2>1 DEF OwnSightings
  <2> QED
    BY <2>2 DEF SightingsHeld
<1>5. CountsHeld' /\ NewApart' /\ Counted'
  BY DEF StockInv, CountsHeld, NewApart, Counted
<1>6. RowsFit'
  <2> SUFFICES ASSUME NEW s \in sighted, s.row \notin loose' PROVE Fits(s.facts, rows'[s.row])
    BY DEF RowsFit
  <2>1. s.row \in On(rows) /\ Fits(s.facts, rows[s.row])
    BY DEF StockInv, StockTyped, RowsFit
  <2>2. rows'[s.row] = rows[s.row]
    BY <2>1
  <2> QED
    BY <2>1, <2>2
<1> QED
  BY <1>1, <1>2, <1>3, <1>4, <1>5, <1>6 DEF StockInv

LEMMA EnterStep == ASSUME StockInv, I!Create PROVE StockInv'
<1>1. PICK d \in Deeds, i \in Ids \ taken :
        /\ d.kind = "create"
        /\ rows' = [rows EXCEPT ![i] = I!Over(d.sets, [I!NoRow EXCEPT !.live = TRUE])]
        /\ taken' = taken \cup {i}
  BY DEF I!Create
<1>2. /\ UNCHANGED <<sighted, count, todo, tx, desk, loose, lapped>>
      /\ deeds < MaxDeeds /\ deeds' = deeds + 1
  BY DEF I!Create
<1> DEFINE r == I!Over(d.sets, [I!NoRow EXCEPT !.live = TRUE])
<1>3. r \in I!Row /\ r # I!NoRow
  BY <1>1, EnteredRow, StockFields
<1>4. rows' = [rows EXCEPT ![i] = r]
  BY <1>1
<1> HIDE DEF r
<1>5. /\ rows \in [Ids -> I!Row \cup {I!NoRow}] /\ On(rows) \subseteq taken /\ taken \subseteq Ids
      /\ desk = I!NoDeed \/ (desk \in Wish /\ desk.id \in On(rows))
      /\ deeds \in 0 .. MaxDeeds /\ loose \subseteq On(rows)
  BY DEF StockInv, StockTyped
<1>6. rows' \in [Ids -> I!Row \cup {I!NoRow}] /\ rows'[i] = r /\ \A j \in Ids \ {i} : rows'[j] = rows[j]
  BY <1>3, <1>4, <1>5
<1>7. On(rows') = On(rows) \cup {i}
  BY <1>3, <1>5, <1>6 DEF On
<1>8. deeds' \in 0 .. MaxDeeds
  BY <1>2, <1>5, PartsAssumption
<1>9. \A j \in On(rows) \ loose' : rows'[j] = rows[j]
  BY <1>5, <1>6 DEF On
<1>10. desk' = I!NoDeed \/ (desk' \in Wish /\ desk'.id \in On(rows'))
  BY <1>2, <1>5, <1>7
<1>11. /\ On(rows) \subseteq On(rows') /\ On(rows') \ On(rows) \subseteq taken' \ taken
       /\ taken \subseteq taken' /\ taken' \subseteq Ids
       /\ loose \subseteq loose' /\ loose' \subseteq On(rows')
  BY <1>1, <1>2, <1>5, <1>7
<1> HIDE <1>4
<1> QED
  BY <1>2, <1>6, <1>8, <1>9, <1>10, <1>11, HandStep

LEMMA ReadsStep == ASSUME StockInv, NEW kind, I!Reads(kind) PROVE StockInv'
<1>1. PICK d \in Deeds, i \in On(rows) : desk' = [id |-> i, base |-> rows[i], sets |-> d.sets]
  BY ThereIs DEF I!Reads
<1>2. /\ UNCHANGED <<rows, taken, sighted, count, todo, tx, loose, lapped>>
      /\ deeds < MaxDeeds /\ deeds' = deeds + 1
  BY DEF I!Reads
<1>3. /\ rows \in [Ids -> I!Row \cup {I!NoRow}] /\ On(rows) \subseteq taken /\ taken \subseteq Ids
      /\ deeds \in 0 .. MaxDeeds /\ loose \subseteq On(rows)
  BY DEF StockInv, StockTyped
<1>4. desk' \in Wish /\ desk'.id = i
  BY <1>1, RowThere DEF StockInv, Wish
<1>5. deeds' \in 0 .. MaxDeeds
  BY <1>2, <1>3, PartsAssumption
<1>6. /\ On(rows) \subseteq On(rows') /\ On(rows') \ On(rows) \subseteq taken' \ taken
      /\ taken \subseteq taken' /\ taken' \subseteq Ids
      /\ loose \subseteq loose' /\ loose' \subseteq On(rows')
      /\ rows' \in [Ids -> I!Row \cup {I!NoRow}]
      /\ \A j \in On(rows) \ loose' : rows'[j] = rows[j]
  BY <1>2, <1>3
<1>7. desk'.id \in On(rows')
  BY <1>1, <1>4, <1>6
<1> QED
  BY <1>2, <1>4, <1>5, <1>6, <1>7, HandStep

LEMMA AnswerStep == ASSUME StockInv, I!Answer PROVE StockInv'
<1>1. /\ desk # I!NoDeed /\ desk' = I!NoDeed /\ loose' = loose \cup {desk.id}
      /\ rows' = [rows EXCEPT ![desk.id] =
                    I!Written(desk.base, I!Over(desk.sets, desk.base), rows[desk.id])]
      /\ UNCHANGED <<taken, sighted, count, todo, tx, deeds, lapped>>
  BY DEF I!Answer
<1>2. /\ rows \in [Ids -> I!Row \cup {I!NoRow}] /\ On(rows) \subseteq taken /\ taken \subseteq Ids
      /\ desk \in Wish /\ desk.id \in On(rows)
      /\ deeds \in 0 .. MaxDeeds /\ loose \subseteq On(rows)
  BY <1>1 DEF StockInv, StockTyped
<1>3. desk.id \in Ids /\ rows[desk.id] \in I!Row /\ desk.base \in I!Row
      /\ \E d \in Deeds : desk.sets = d.sets
  BY <1>2, RowThere DEF StockInv, Wish
<1> DEFINE r == I!Written(desk.base, I!Over(desk.sets, desk.base), rows[desk.id])
<1>4. r \in I!Row /\ r # I!NoRow
  BY <1>3, AnsweredRow, StockFields
<1>5. rows' = [rows EXCEPT ![desk.id] = r]
  BY <1>1
<1> HIDE DEF r
<1>6. /\ rows' \in [Ids -> I!Row \cup {I!NoRow}] /\ rows'[desk.id] = r
      /\ \A j \in Ids \ {desk.id} : rows'[j] = rows[j]
  BY <1>2, <1>3, <1>4, <1>5
<1>7. On(rows') = On(rows)
  BY <1>2, <1>3, <1>4, <1>6 DEF On
<1>8. \A j \in On(rows) \ loose' : rows'[j] = rows[j]
  BY <1>1, <1>6 DEF On
<1>9. /\ On(rows) \subseteq On(rows') /\ On(rows') \ On(rows) \subseteq taken' \ taken
      /\ taken \subseteq taken' /\ taken' \subseteq Ids
      /\ loose \subseteq loose' /\ loose' \subseteq On(rows')
      /\ deeds' \in 0 .. MaxDeeds
  BY <1>1, <1>2, <1>7
<1> HIDE <1>5
<1> QED
  BY <1>1, <1>6, <1>8, <1>9, HandStep

-----------------------------------------------------------------------------
(* The invariant, and what it says                                           *)

LEMMA InitStock == I!Init => StockInv
<1> SUFFICES ASSUME I!Init PROVE StockInv
  OBVIOUS
<1>1. /\ rows = [i \in Ids |-> I!NoRow] /\ taken = {} /\ sighted = {}
      /\ count = [g \in Groups |-> 0] /\ todo = DOMAIN Posts
      /\ tx = [w \in Workers |-> I!AtRest]
      /\ desk = I!NoDeed /\ deeds = 0 /\ loose = {} /\ lapped = {}
  BY DEF I!Init
<1>2. On(rows) = {}
  BY <1>1 DEF On
<1>3. StockTyped
  <2>1. IsFiniteSet({})
    BY FS_EmptySet
  <2>2. deeds \in 0 .. MaxDeeds
    BY <1>1, PartsAssumption
  <2> QED
    BY <1>1, <1>2, <2>1, <2>2, AtRestIs DEF StockTyped
<1>4. Orders /\ RowsHeld /\ SightingsHeld /\ CountsHeld
  BY <1>1, RestIsSound DEF Orders, RowsHeld, SightingsHeld, CountsHeld
<1>5. NewApart
  BY <1>1, AtRestIs DEF NewApart
<1>6. RowsFit
  BY <1>1 DEF RowsFit
<1>7. Counted
  <2>1. \A g \in Groups : Cardinality(Of(sighted, g)) = 0
    BY <1>1, FS_EmptySet DEF Of
  <2> QED
    BY <1>1, <2>1 DEF Counted
<1> QED
  BY <1>3, <1>4, <1>5, <1>6, <1>7 DEF StockInv

LEMMA StepStock == StockInv /\ [I!Next]_(I!vars) => StockInv'
<1> SUFFICES ASSUME StockInv, [I!Next]_(I!vars) PROVE StockInv'
  OBVIOUS
<1>1. ASSUME NEW w \in Workers, I!Begin(w) \/ I!Take(w) \/ I!Merge(w) \/ I!Insert(w) \/ I!Commit(w)
      PROVE  StockInv'
  <2>1. CASE I!Begin(w)
    BY <2>1, BeginStep
  <2>2. CASE I!Take(w)
    BY <2>2, TakeStep
  <2>3. CASE I!Merge(w)
    BY <2>3, MergeStep
  <2>4. CASE I!Insert(w)
    BY <2>4, InsertStep
  <2>5. CASE I!Commit(w)
    BY <2>5, CommitStep
  <2> QED
    BY <1>1, <2>1, <2>2, <2>3, <2>4, <2>5
<1>2. CASE I!Create \/ I!Edit \/ I!Review \/ I!Delete \/ I!Answer
  BY <1>2, EnterStep, ReadsStep, AnswerStep DEF I!Edit, I!Review, I!Delete
<1>3. CASE UNCHANGED I!vars
  BY <1>3 DEF I!vars, StockInv, StockTyped, Orders, RowsHeld, SightingsHeld, CountsHeld,
              NewApart, RowsFit, Counted
<1> QED
  BY <1>1, <1>2, <1>3 DEF I!Next

LEMMA StockInvariant == DeskSpec => []StockInv
<1>1. DeskInit => StockInv
  BY InitStock DEF DeskInit
<1>2. StockInv /\ [DeskNext]_deskvars => StockInv'
  BY StepStock DEF DeskNext, deskvars, inventory, I!vars
<1> QED
  BY <1>1, <1>2, PTL DEF DeskSpec

LEMMA SameCount == \A T : I!Cardinality(T) = Cardinality(T)
BY DEF I!Cardinality, Cardinality

\* Only a commit closes a session.
LEMMA OnlyCommitsClose ==
    ASSUME StockInv, [I!Next]_(I!vars), NEW w \in Workers, tx[w].open, ~tx'[w].open
    PROVE  I!Commit(w)
<1>1. DOMAIN tx = Workers /\ \A v \in Workers : tx[v] \in Session
  BY DEF StockInv, StockTyped
<1>2. ASSUME NEW v \in Workers, v # w, tx'[w] = tx[w] PROVE FALSE
  BY <1>2
<1>3. CASE UNCHANGED tx
  BY <1>3
<1>4. ASSUME NEW v \in Workers, I!Begin(v) \/ I!Take(v) \/ I!Merge(v) \/ I!Insert(v) \/ I!Commit(v)
      PROVE  v = w /\ ~I!Begin(v)
  <2>1. \A u \in Workers \ {v} : tx'[u] = tx[u]
    BY <1>1, <1>4 DEF I!Begin, I!Take, I!Merge, I!Insert, I!Commit
  <2>2. v = w
    BY <2>1
  <2> QED
    BY <2>2 DEF I!Begin
<1>5. CASE I!Take(w)
  <2>1. tx'[w].open = tx[w].open
    BY <1>1, <1>5, SessionFields DEF I!Take
  <2> QED
    BY <2>1
<1>6. CASE I!Merge(w)
  <2>1. tx'[w].open = tx[w].open
    BY <1>1, <1>6, SessionFields DEF I!Merge
  <2> QED
    BY <2>1
<1>7. CASE I!Insert(w)
  <2>1. tx'[w].open = tx[w].open
    BY <1>1, <1>7, SessionFields DEF I!Insert
  <2> QED
    BY <2>1
<1>8. CASE I!Create \/ I!Edit \/ I!Review \/ I!Delete \/ I!Answer \/ UNCHANGED I!vars
  <2>1. UNCHANGED tx
    BY <1>8 DEF I!Create, I!Edit, I!Review, I!Delete, I!Reads, I!Answer, I!vars
  <2> QED
    BY <1>3, <2>1
<1> QED
  BY <1>4, <1>5, <1>6, <1>7, <1>8 DEF I!Next

LEMMA MergesAdd == ASSUME StockInv, [I!Next]_(I!vars) PROVE I!MergesAreAdditive
<1> SUFFICES ASSUME NEW w \in Workers, NEW i \in On(rows), tx[w].open, ~tx'[w].open,
                    NEW a \in Columns, rows'[i][a] # rows[i][a]
             PROVE  a \in I!Fillable /\ tx[w].base[i][a] = I!Blank[a]
  BY ThereIs, NoStockIs DEF I!MergesAreAdditive
<1>1. Lands(w)
  BY OnlyCommitsClose, CommitLands
<1>2. /\ DOMAIN tx[w].new \cap On(rows) = {} /\ i \in Ids
      /\ \A j \in DOMAIN tx[w].copy :
           /\ tx[w].copy[j] \in I!Row /\ tx[w].base[j] \in I!Row /\ rows[j] \in I!Row
           /\ Fills(tx[w].base[j], tx[w].copy[j])
  BY InBatch DEF On
<1>3. CASE i \in DOMAIN tx[w].copy
  <2>1. rows'[i] = I!Written(tx[w].base[i], tx[w].copy[i], rows[i])
    BY <1>1, <1>2, <1>3 DEF Lands
  <2>2. rows'[i][a] = IF tx[w].copy[i][a] # tx[w].base[i][a] THEN tx[w].copy[i][a] ELSE rows[i][a]
    BY <1>2, <1>3, <2>1, WrittenIs
  <2>3. tx[w].copy[i][a] # tx[w].base[i][a]
    BY <2>2
  <2> QED
    BY <1>2, <1>3, <2>3 DEF Fills
<1>4. CASE i \notin DOMAIN tx[w].copy
  <2>1. rows'[i] = rows[i]
    BY <1>1, <1>2, <1>4 DEF Lands
  <2> QED
    BY <2>1
<1> QED
  BY <1>3, <1>4

\* "Reposts of the same flat merge": a row that no person has changed and that
\* did not change under a merge is matched by every posting it was seen in,
\* however many have filled its gaps since (find_duplicate, score_match,
\* apply_listing_to_property).  listing_count never says more than there is,
\* and exactly that while no two batches of a group overlapped.  A commit
\* changes no column of a stored row but one that its session read empty.
THEOREM RepostsMergeAndCount == DeskSpec => InventoryHolds
<1>1. StockInv => I!RepostsMerge
  BY DEF StockInv, RowsFit, Fits, I!RepostsMerge
<1>2. StockInv => I!CountsAddUp
  BY SameCount DEF StockInv, Counted, Of, I!CountsAddUp
<1>3. StockInv /\ [DeskNext]_deskvars => [I!MergesAreAdditive]_(I!vars)
  <2> SUFFICES ASSUME StockInv, [DeskNext]_deskvars PROVE I!MergesAreAdditive
    BY Zenon
  <2>1. [I!Next]_(I!vars)
    BY DEF DeskNext, deskvars, inventory, I!vars
  <2> QED
    BY <2>1, MergesAdd
<1> QED
  BY <1>1, <1>2, <1>3, StockInvariant, PTL DEF DeskSpec, InventoryHolds, I!InventoryHolds

-----------------------------------------------------------------------------
(* Types                                                                     *)

\* Which presses are pending, and how much is on its way.
PickerKinds ==
    /\ wants \subseteq {"pair", "sync"} /\ poll \subseteq wants \cup {"pair"}
    /\ told \subseteq (SUBSET {"pair", "sync"}) \ {{}}
    /\ IsFiniteSet(told) /\ IsFiniteSet(lists)
    /\ Cardinality(told) + Cardinality(lists) <= MaxLists
    /\ owed \in BOOLEAN /\ excused \in BOOLEAN /\ (excused => owed)

LEMMA SameRoom ==
    G!Room <=> Cardinality(told) + Cardinality(lists) < MaxLists
BY DEF G!Room, G!Cardinality, Cardinality

\* One upload or command more, where there was room.
LEMMA OneMore ==
    ASSUME PickerKinds, G!Room, NEW x
    PROVE  /\ IsFiniteSet(lists \cup {x}) /\ IsFiniteSet(told \cup {x})
           /\ Cardinality(told) + Cardinality(lists \cup {x}) <= MaxLists
           /\ Cardinality(told \cup {x}) + Cardinality(lists) <= MaxLists
<1>1. Cardinality(told) \in Nat /\ Cardinality(lists) \in Nat /\ MaxLists \in Nat
  BY FS_CardinalityType, PartsAssumption DEF PickerKinds
<1>2. Cardinality(told) + Cardinality(lists) < MaxLists
  BY SameRoom
<1>3. /\ IsFiniteSet(lists \cup {x})
      /\ Cardinality(lists \cup {x}) \in {Cardinality(lists), Cardinality(lists) + 1}
  BY FS_AddElement DEF PickerKinds
<1>4. /\ IsFiniteSet(told \cup {x})
      /\ Cardinality(told \cup {x}) \in {Cardinality(told), Cardinality(told) + 1}
  BY FS_AddElement DEF PickerKinds
<1> QED
  BY <1>1, <1>2, <1>3, <1>4

\* One that has arrived, or is lost.
LEMMA OneLess ==
    ASSUME PickerKinds
    PROVE  /\ \A x \in lists : /\ IsFiniteSet(lists \ {x})
                               /\ Cardinality(told) + Cardinality(lists \ {x}) < MaxLists
           /\ \A x \in told : /\ IsFiniteSet(told \ {x})
                              /\ Cardinality(told \ {x}) + Cardinality(lists) < MaxLists
<1>1. Cardinality(told) \in Nat /\ Cardinality(lists) \in Nat /\ MaxLists \in Nat
  BY FS_CardinalityType, PartsAssumption DEF PickerKinds
<1>2. \A x \in lists : /\ IsFiniteSet(lists \ {x})
                       /\ Cardinality(lists \ {x}) = Cardinality(lists) - 1
  BY FS_RemoveElement DEF PickerKinds
<1>3. \A x \in told : /\ IsFiniteSet(told \ {x})
                      /\ Cardinality(told \ {x}) = Cardinality(told) - 1
  BY FS_RemoveElement DEF PickerKinds
<1>4. Cardinality(told) + Cardinality(lists) <= MaxLists
  BY DEF PickerKinds
<1>5. ASSUME NEW x \in lists
      PROVE  Cardinality(told) + Cardinality(lists \ {x}) < MaxLists
  <2>1. Cardinality(lists \ {x}) = Cardinality(lists) - 1
    BY <1>2
  <2> QED
    BY <1>1, <1>4, <2>1
<1>6. ASSUME NEW x \in told
      PROVE  Cardinality(told \ {x}) + Cardinality(lists) < MaxLists
  <2>1. Cardinality(told \ {x}) = Cardinality(told) - 1
    BY <1>3
  <2> QED
    BY <1>1, <1>4, <2>1
<1> QED
  BY <1>2, <1>3, <1>5, <1>6

\* A press makes the uploads under way old ones, and no more of them.
LEMMA AskSyncKinds == ASSUME PickerKinds, G!AskSync PROVE PickerKinds'
<1> DEFINE Old(l) == [l EXCEPT !.fresh = FALSE]
           f == [l \in lists |-> Old(l)]
<1>1. lists' = {Old(l) : l \in lists}
  BY DEF G!AskSync
<1> HIDE DEF Old
<1>2. f \in Surjection(lists, lists')
  BY <1>1 DEF Surjection
<1> HIDE DEF f
<1>3. IsFiniteSet(lists') /\ Cardinality(lists') <= Cardinality(lists)
  BY <1>2, FS_Surjection DEF PickerKinds
<1>4. /\ Cardinality(told) \in Nat /\ Cardinality(lists) \in Nat
      /\ Cardinality(lists') \in Nat /\ MaxLists \in Nat
  BY <1>3, FS_CardinalityType, PartsAssumption DEF PickerKinds
<1>5. told' = told /\ poll' = poll /\ wants' = wants \cup {"sync"} /\ owed' = TRUE /\ excused' = FALSE
  BY DEF G!AskSync
<1>6. Cardinality(told') + Cardinality(lists') <= MaxLists
  BY <1>3, <1>4, <1>5 DEF PickerKinds
<1> QED
  BY <1>3, <1>5, <1>6 DEF PickerKinds

LEMMA ObeysKinds == ASSUME PickerKinds, G!Obeys PROVE PickerKinds'
<1> PICK cmd \in told :
      /\ told' = told \ {cmd}
      /\ IF "pair" \in cmd
         THEN /\ connected' \in {connected, FALSE}
              /\ UNCHANGED lists
         ELSE /\ UNCHANGED connected
              /\ IF connected
                 THEN \E some \in SUBSET DOMAIN account : G!Uploads(some)
                 ELSE UNCHANGED lists
      /\ excused' = (excused \/ (owed /\ "sync" \in cmd /\ ("pair" \in cmd \/ ~connected)))
      /\ UNCHANGED <<account, wants, poll, picker, watched, owed, named>>
  BY DEF G!Obeys
<1>1. PICK x : lists' \in {lists, lists \cup {x}}
  BY Zenon DEF G!Uploads
<1>2. IsFiniteSet(told') /\ Cardinality(told') + Cardinality(lists) < MaxLists
  BY OneLess
<1>3. /\ Cardinality(told') \in Nat /\ Cardinality(lists) \in Nat /\ MaxLists \in Nat
      /\ IsFiniteSet(lists \cup {x})
      /\ Cardinality(lists \cup {x}) \in {Cardinality(lists), Cardinality(lists) + 1}
  BY <1>2, FS_CardinalityType, FS_AddElement, PartsAssumption DEF PickerKinds
<1>4. IsFiniteSet(lists') /\ Cardinality(lists') \in {Cardinality(lists), Cardinality(lists) + 1}
  BY <1>1, <1>3 DEF PickerKinds
<1>6. Cardinality(told') + Cardinality(lists') <= MaxLists
  <2>1. Cardinality(told') \in Nat /\ Cardinality(lists) \in Nat /\ MaxLists \in Nat
    BY <1>3
  <2>2. Cardinality(told') + Cardinality(lists) < MaxLists
    BY <1>2
  <2> QED
    BY <1>4, <2>1, <2>2
<1>5. excused' \in BOOLEAN /\ owed' \in BOOLEAN /\ (excused' => owed')
  BY Zenon DEF PickerKinds
<1> QED
  BY <1>2, <1>4, <1>5, <1>6 DEF PickerKinds

LEMMA UploadLostKinds == ASSUME PickerKinds, G!UploadLost PROVE PickerKinds'
<1> PICK l \in lists : /\ lists' = lists \ {l}
                       /\ excused' = (excused \/ (owed /\ l.fresh))
                       /\ UNCHANGED <<account, connected, wants, poll, told, picker,
                                      watched, owed, named>>
  BY DEF G!UploadLost
<1>1. IsFiniteSet(lists') /\ Cardinality(told) + Cardinality(lists') < MaxLists
  BY OneLess
<1>2. /\ Cardinality(told) \in Nat /\ Cardinality(lists') \in Nat /\ MaxLists \in Nat
  BY <1>1, FS_CardinalityType, PartsAssumption DEF PickerKinds
<1>3. Cardinality(told') + Cardinality(lists') <= MaxLists
  BY <1>1, <1>2
<1>4. excused' \in BOOLEAN /\ owed' \in BOOLEAN /\ (excused' => owed')
  BY Zenon DEF PickerKinds
<1> QED
  BY <1>1, <1>3, <1>4 DEF PickerKinds

LEMMA ArrivesKinds == ASSUME PickerKinds, G!Arrives PROVE PickerKinds'
<1> PICK l \in lists : /\ lists' = lists \ {l}
                       /\ owed' = (owed /\ ~l.fresh) /\ excused' = (excused /\ ~l.fresh)
                       /\ UNCHANGED <<account, connected, wants, poll, told, watched>>
  BY DEF G!Arrives
<1>1. IsFiniteSet(lists') /\ Cardinality(told) + Cardinality(lists') < MaxLists
  BY OneLess
<1>2. /\ Cardinality(told) \in Nat /\ Cardinality(lists') \in Nat /\ MaxLists \in Nat
  BY <1>1, FS_CardinalityType, PartsAssumption DEF PickerKinds
<1>3. Cardinality(told') + Cardinality(lists') <= MaxLists
  BY <1>1, <1>2
<1>4. excused' \in BOOLEAN /\ owed' \in BOOLEAN /\ (excused' => owed')
  BY Zenon DEF PickerKinds
<1> QED
  BY <1>1, <1>3, <1>4 DEF PickerKinds

\* What has been read of the presses is on its way to the gateway, or lost.
LEMMA ClaimKinds == ASSUME PickerKinds, G!ClaimCommits PROVE PickerKinds'
<1>1. /\ poll # {} /\ G!Room /\ wants' = wants \ poll /\ poll' = {} /\ UNCHANGED <<lists, owed>>
  BY DEF G!ClaimCommits, G!Left
<1>2. CASE told' = told \cup {poll} /\ UNCHANGED excused
  <2>1. /\ IsFiniteSet(told') /\ Cardinality(told') + Cardinality(lists') <= MaxLists
    BY <1>1, <1>2, OneMore
  <2>2. told' \subseteq (SUBSET {"pair", "sync"}) \ {{}}
    BY <1>1, <1>2 DEF PickerKinds
  <2> QED
    BY <1>1, <1>2, <2>1, <2>2 DEF PickerKinds
<1>3. CASE excused' = (excused \/ (owed /\ "sync" \in poll)) /\ UNCHANGED told
  <2>1. excused' \in BOOLEAN /\ owed' \in BOOLEAN /\ (excused' => owed')
    BY <1>1, <1>3, Zenon DEF PickerKinds
  <2> QED
    BY <1>1, <1>3, <2>1 DEF PickerKinds
<1> QED
  BY <1>2, <1>3 DEF G!ClaimCommits

LEMMA InitKinds == G!Init => PickerKinds
<1> SUFFICES ASSUME G!Init PROVE PickerKinds
  OBVIOUS
<1>1. /\ wants = {} /\ poll = {} /\ told = {} /\ lists = {} /\ owed = FALSE /\ excused = FALSE
  BY DEF G!Init
<1>2. IsFiniteSet({}) /\ Cardinality({}) = 0
  BY FS_EmptySet
<1>3. MaxLists \in Nat
  BY PartsAssumption
<1>4. Cardinality(told) + Cardinality(lists) <= MaxLists
  BY <1>1, <1>2, <1>3
<1> QED
  BY <1>1, <1>2, <1>4 DEF PickerKinds

LEMMA StepKinds == PickerKinds /\ [G!Next]_(G!vars) => PickerKinds'
<1> SUFFICES ASSUME PickerKinds, [G!Next]_(G!vars) PROVE PickerKinds'
  OBVIOUS
<1>1. CASE G!Opens
  <2>1. PICK x : lists' = lists \cup {x}
    BY <1>1, Zenon DEF G!Opens, G!Uploads
  <2>2. G!Room /\ UNCHANGED <<wants, poll, told, owed, excused>>
    BY <1>1 DEF G!Opens
  <2> QED
    BY <2>1, <2>2, OneMore DEF PickerKinds
<1>2. CASE UNCHANGED <<wants, poll, told, lists, owed, excused>>
  BY <1>2 DEF PickerKinds
<1>3. CASE G!AskPair
  BY <1>3 DEF G!AskPair, PickerKinds
<1>4. CASE G!ClaimReads
  BY <1>4 DEF G!ClaimReads, PickerKinds
<1>5. G!AccountChanges \/ G!Drops \/ G!Watches \/ UNCHANGED G!vars =>
        UNCHANGED <<wants, poll, told, lists, owed, excused>>
  BY DEF G!AccountChanges, G!Drops, G!Watches, G!vars
<1> QED
  BY <1>1, <1>2, <1>3, <1>4, <1>5, AskSyncKinds, ObeysKinds, UploadLostKinds,
     ArrivesKinds, ClaimKinds DEF G!Next

LEMMA KindsInvariant == DeskSpec => []PickerKinds
<1>1. DeskInit => PickerKinds
  BY InitKinds DEF DeskInit
<1>2. PickerKinds /\ [DeskNext]_deskvars => PickerKinds'
  BY StepKinds DEF DeskNext, deskvars, directory, G!vars
<1> QED
  BY <1>1, <1>2, PTL DEF DeskSpec

LEMMA BookInvariant == DeskSpec => []DeskInv
<1>1. DeskInit => DeskInv
  BY InitDesk DEF DeskInit
<1>2. DeskInv /\ [DeskNext]_deskvars => DeskInv'
  BY StepDesk DEF DeskNext, deskvars, vars
<1> QED
  BY <1>1, <1>2, PTL DEF DeskSpec

\* However the parts of a desk are used, for any values of their constants:
\* references of the lead book and the inventory lead somewhere, no pair is
\* assigned twice, a Page delivers only once it was chosen and no campaign is
\* built by two handlers, what a session of an extractor holds is there or
\* its own, reports, beats and uploads are those the code sends.
THEOREM DeskIsTyped == DeskSpec => []DeskTypeOK
<1>1. DeskInv => TypeOK
  BY DEF DeskInv, Typed, Tables, Assignments, TypeOK, Request
<1>2. AdsInv => M!TypeOK
  BY DEF AdsInv, AdsTyped, BuildsApart, Token, Campaign, Handling, M!TypeOK
<1>3. StockInv => I!TypeOK
  <2> SUFFICES ASSUME StockInv PROVE I!TypeOK
    OBVIOUS
  <2>1. \A i \in Ids : DOMAIN rows[i] = DOMAIN I!NoRow
    BY NoStockIs, StockFields DEF StockInv, StockTyped
  <2>2. \A s \in sighted : s.row \in On(rows) /\ s.msg \in DOMAIN Posts \ todo
    BY DEF StockInv, StockTyped, Sighting
  <2>3. \A w \in Workers :
          /\ DOMAIN tx[w].base = DOMAIN tx[w].copy /\ DOMAIN tx[w].base \subseteq On(rows)
          /\ DOMAIN tx[w].new \subseteq taken \ On(rows)
          /\ ~tx[w].open => tx[w] = I!AtRest
    BY DEF StockInv, Orders, Orderly, RowsHeld, OwnRows
  <2>4. desk.id \in On(rows) \cup {0}
    BY DEF StockInv, StockTyped, I!NoDeed
  <2>5. On(rows) \subseteq taken /\ taken \subseteq Ids /\ count \in [Groups -> Nat]
        /\ deeds \in 0 .. MaxDeeds /\ loose \subseteq On(rows) /\ lapped \subseteq Groups
    BY DEF StockInv, StockTyped
  <2> QED
    BY <2>1, <2>2, <2>3, <2>4, <2>5, ThereIs DEF I!TypeOK
<1>4. PickerInv /\ PickerKinds => G!TypeOK
  <2>1. \A T : G!Cardinality(T) = Cardinality(T)
    BY DEF G!Cardinality, Cardinality
  <2> QED
    BY <2>1 DEF PickerInv, PickerTyped, PickerKinds, G!TypeOK
<1>5. DeskInv /\ AdsInv /\ StockInv /\ ScreenInv /\ LoopsInv /\ PickerInv /\ PickerKinds => DeskTypeOK
  BY <1>1, <1>2, <1>3, <1>4, PairingScreen, FeedScreen DEF DeskTypeOK
<1> QED
  BY <1>5, BookInvariant, ConnectionInvariant, StockInvariant, ScreenInvariant,
     LoopsInvariant, PickerInvariant, KindsInvariant, PTL
=============================================================================
