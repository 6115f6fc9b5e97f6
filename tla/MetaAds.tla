------------------------------ MODULE MetaAds ------------------------------
(***************************************************************************)
(* One person's Meta connection and what is done with it (routers/         *)
(* meta_ads.py, meta_ads.py, meta_reels.py): the row of                    *)
(* meta_ad_connections, the OAuth round trip, the calls made with the      *)
(* stored token, and the campaign built from a reel in four calls.         *)
(*                                                                         *)
(* Every handler reads the row, talks to Meta, and then commits the        *)
(* columns whose value differs from what it READ; other handlers run in    *)
(* between.  Meta's side, its tokens and campaigns, is what the code takes *)
(* it to be.                                                               *)
(***************************************************************************)
EXTENDS Naturals, Sequences, FiniteSets

CONSTANTS
    Logins,         \* Meta users somebody may sign in as
    AccountsOf,     \* the ad accounts of each, in Meta's order
    PagesOf,        \* the Pages each administers
    Requests,       \* handlers that may overlap
    MaxAsked,       \* bound: requests
    MaxCampaigns    \* bound: campaigns created

VARIABLES
    row,        \* the connection: status, token, account, page, whether the
                \* Page delivers leads, and the OAuth state, 0 for null
    token,      \* Meta: whose each token is, and whether it still works
    campaign,   \* Meta: account, status and the parts that exist
    request,    \* per handler: what it does, the row read, the row wanted
    states,     \* history: OAuth states issued
    spent,      \* history: those a callback has committed
    torn,       \* history: a commit fell upon a row changed since its read
    cut,        \* history: campaigns whose making broke off without undoing
    asked       \* history: requests so far

vars == <<row, token, campaign, request, states, spent, torn, cut, asked>>

Statuses == {"none", "pending", "connected", "reauth_required", "disconnected"}
Accounts == UNION {{AccountsOf[l][j] : j \in DOMAIN AccountsOf[l]} : l \in Logins}
Pages == UNION {PagesOf[l] : l \in Logins}

None == ""

(* Meta lists accounts, and a Page has an id.                              *)
LoginsAreReal ==
    /\ \A l \in Logins : AccountsOf[l] \in Seq(Accounts)
    /\ None \notin Pages

NoRow == [status |-> "none", token |-> 0, account |-> None, page |-> None, live |-> FALSE, state |-> 0]

Idle == [stage |-> "idle", kind |-> "none", read |-> NoRow, want |-> NoRow, token |-> 0, made |-> 0]

Stages == {"idle", "commit", "calling", "exchange", "pages", "adset", "creative", "ad", "undo"}
Kinds == {"none", "start", "callback", "disconnect", "account", "page", "switch", "build"}
Row == [status : Statuses, token : Nat, account : Accounts \cup {None},
        page : Pages \cup {None}, live : BOOLEAN, state : Nat]
Parts == {"adset", "creative", "ad"}

TypeOK ==
    /\ row \in Row
    /\ token \in Seq([login : Logins, works : BOOLEAN])
    /\ row.token <= Len(token) /\ row.state <= states
    /\ campaign \in Seq([account : Accounts, status : {"PAUSED", "ACTIVE", "DELETED"},
                         parts : SUBSET Parts])
    /\ request \in [Requests -> [stage : Stages, kind : Kinds, read : Row, want : Row,
                                 token : Nat, made : Nat]]
    /\ spent \subseteq 1 .. states /\ cut \subseteq DOMAIN campaign
    \* a Page delivers only once it has been chosen
    /\ row.live => row.page # None
    \* two handlers never build one campaign
    /\ \A q, r \in Requests : request[q].made # 0 /\ request[q].made = request[r].made => q = r

Init ==
    /\ row = NoRow /\ token = <<>> /\ campaign = <<>>
    /\ request = [q \in Requests |-> Idle]
    /\ states = 0 /\ spent = {} /\ torn = FALSE /\ cut = {} /\ asked = 0

-----------------------------------------------------------------------------
(* The row                                                                 *)

(* _state_of; a token past its time counts as one that Meta refuses.       *)
StateOf(r) ==
    IF r.token = 0 \/ r.status \in {"none", "pending", "disconnected"} THEN "disconnected"
    ELSE r.status

(* The UPDATE: what differs from the row read.  A Page that is subscribed  *)
(* again is so at a new time.                                              *)
Changes(r, f) == r.want[f] # r.read[f] \/ (f = "live" /\ r.kind = "page" /\ r.want.live)

Stores(r) ==
    /\ row' = [f \in DOMAIN row |-> IF Changes(r, f) THEN r.want[f] ELSE row[f]]
    /\ torn' = (torn \/ (row # r.read /\ r.want # r.read))

Begins(q, r) ==
    /\ request[q].stage = "idle"
    /\ asked' = asked + 1 /\ asked < MaxAsked
    /\ request' = [request EXCEPT ![q] = r]

Reads(kind, stage, want) ==
    [Idle EXCEPT !.stage = stage, !.kind = kind, !.read = row, !.want = want,
                 !.token = row.token]

Ends(q) == request' = [request EXCEPT ![q] = Idle]
Goes(q, stage) == request' = [request EXCEPT ![q].stage = stage]
Wants(q, want) == request' = [request EXCEPT ![q].stage = "commit", ![q].want = want]

-----------------------------------------------------------------------------
(* Connecting and disconnecting                                            *)

(* oauth_start: each time a new state, which replaces the one before.      *)
Start(q) ==
    /\ Begins(q, Reads("start", "commit",
           [row EXCEPT !.state = states + 1,
                       !.status = IF @ = "none" THEN "pending" ELSE @]))
    /\ states' = states + 1
    /\ UNCHANGED <<row, token, campaign, spent, torn, cut>>

(* What every callback makes of the row it finds by its state.             *)
Returned(r) == [r EXCEPT !.state = 0]

\* Mutant: a failed attempt ends the connection there is.
FailedAlways(r) == [Returned(r) EXCEPT !.status = "disconnected"]

(* Cancelled, or refused by Meta: nothing but a first attempt ends.        *)
Failed(r) ==
    [Returned(r) EXCEPT !.status = IF @ = "pending" THEN "disconnected" ELSE @]

(* oauth_callback: too late, or of somebody who has left.                  *)
CallbackExpired(q) ==
    /\ row.state # 0
    /\ Begins(q, Reads("callback", "commit", Returned(row)))
    /\ UNCHANGED <<row, token, campaign, states, spent, torn, cut>>

Callback(q) ==
    /\ row.state # 0
    /\ Begins(q, Reads("callback", "exchange", Failed(row)))
    /\ UNCHANGED <<row, token, campaign, states, spent, torn, cut>>

(* Cancelled, a code that was used before, a failing call.                 *)
ExchangeFails(q) ==
    /\ request[q].stage = "exchange"
    /\ Goes(q, "commit")
    /\ UNCHANGED <<row, token, campaign, states, spent, torn, cut, asked>>

(* The account chosen before, if this login has it; else its first one.    *)
Chosen(l, account) ==
    IF \E j \in DOMAIN AccountsOf[l] : AccountsOf[l][j] = account THEN account
    ELSE IF AccountsOf[l] = <<>> THEN None ELSE AccountsOf[l][1]

Connected(r, k, l) ==
    [Returned(r) EXCEPT !.token = k, !.account = Chosen(l, @), !.status = "connected"]

(* exchange_code and the three reads: Meta issues a token to whoever       *)
(* signed in.                                                              *)
Exchanged(q) ==
    /\ request[q].stage = "exchange"
    /\ \E l \in Logins :
         /\ token' = Append(token, [login |-> l, works |-> TRUE])
         /\ request' = [request EXCEPT
                ![q].stage = "commit", ![q].token = Len(token) + 1,
                ![q].want = Connected(request[q].read, Len(token) + 1, l)]
    /\ UNCHANGED <<row, campaign, states, spent, torn, cut, asked>>

(* disconnect asks Meta to forget the login, which ends all its tokens,    *)
(* and wipes the row in any case.                                          *)
Disconnect(q) ==
    /\ row.status # "none"
    /\ Begins(q, Reads("disconnect", "commit",
           [row EXCEPT !.status = "disconnected", !.token = 0, !.state = 0]))
    /\ \/ UNCHANGED token
       \/ /\ row.token # 0
          /\ token' = [k \in DOMAIN token |->
                [token[k] EXCEPT !.works = @ /\ token[k].login # token[row.token].login]]
    /\ UNCHANGED <<row, campaign, states, spent, torn, cut>>

(* The commit of a handler.  A login goes on to the Pages; a first start   *)
(* that another has overtaken fails on the unique user.                    *)
Commits(q) ==
    LET r == request[q]
        login == r.kind = "callback" /\ r.want.token # r.read.token
        lost == r.kind = "start" /\ r.read.status = "none" /\ row.status # "none" IN
    /\ r.stage = "commit"
    /\ IF lost THEN UNCHANGED <<row, torn>> ELSE Stores(r)
    /\ spent' = IF r.kind = "callback" /\ r.read.state # 0 THEN spent \cup {r.read.state}
                ELSE spent
    /\ request' = [request EXCEPT ![q] =
           IF login THEN [r EXCEPT !.stage = "pages", !.read = r.want] ELSE Idle]
    /\ UNCHANGED <<token, campaign, states, cut, asked>>

(* _apply_page: the Page and whether its leads could be subscribed to.     *)
Paged(r, p, live) == [r EXCEPT !.page = p, !.live = live]

(* The Page chosen before, if this login has it, or the only one.          *)
KeepsPage(q) ==
    LET r == request[q]  pages == PagesOf[token[r.token].login] IN
    /\ r.stage = "pages"
    /\ \E p \in pages, live \in BOOLEAN :
         /\ p = r.read.page \/ pages = {p}
         /\ request' = [request EXCEPT ![q].stage = "commit", ![q].kind = "page",
                                       ![q].want = Paged(r.read, p, live)]
    /\ UNCHANGED <<row, token, campaign, states, spent, torn, cut, asked>>

(* Several Pages, none of them chosen, or Meta fails: nothing changes.     *)
LeavesPage(q) ==
    /\ request[q].stage = "pages"
    /\ Ends(q)
    /\ UNCHANGED <<row, token, campaign, states, spent, torn, cut, asked>>

-----------------------------------------------------------------------------
(* Working with the token                                                  *)

(* _live: whoever is connected calls Meta.                                 *)
Call(q, kind) ==
    /\ StateOf(row) = "connected"
    /\ kind = "build" => row.account # None /\ row.page # None
    /\ kind = "switch" => row.account # None
    /\ Begins(q, Reads(kind, "calling", row))
    /\ UNCHANGED <<row, token, campaign, states, spent, torn, cut>>

(* Meta refuses the token: _mark_reauth, from any of the calls.            *)
TokenRefused(q) ==
    LET r == request[q] IN
    /\ r.stage \in {"calling", "adset", "creative", "ad"}
    /\ ~token[r.token].works
    /\ Wants(q, [r.read EXCEPT !.status = "reauth_required"])
    /\ cut' = IF r.made # 0 THEN cut \cup {r.made} ELSE cut
    /\ UNCHANGED <<row, token, campaign, states, spent, torn, asked>>

Works(q, kind) ==
    /\ request[q].stage = "calling" /\ request[q].kind = kind
    /\ token[request[q].token].works

(* select_ad_account: one of the login's own.                              *)
SelectAccount(q) ==
    /\ Works(q, "account")
    /\ LET mine == AccountsOf[token[request[q].token].login] IN
         \E j \in DOMAIN mine : Wants(q, [request[q].read EXCEPT !.account = mine[j]])
    /\ UNCHANGED <<row, token, campaign, states, spent, torn, cut, asked>>

(* select_page, and _apply_page.                                           *)
SelectPage(q) ==
    /\ Works(q, "page")
    /\ \E p \in PagesOf[token[request[q].token].login], live \in BOOLEAN :
         Wants(q, Paged(request[q].read, p, live))
    /\ UNCHANGED <<row, token, campaign, states, spent, torn, cut, asked>>

(* change_status: a campaign of the connected account, by the hosted       *)
(* server or, whatever became of that, by the Graph API.                   *)
Switch(q) ==
    /\ Works(q, "switch")
    /\ \E c \in DOMAIN campaign, s \in {"ACTIVE", "PAUSED"} :
         /\ campaign[c].account = request[q].read.account
         /\ campaign[c].status # "DELETED"
         /\ campaign' = [campaign EXCEPT ![c].status = s]
    /\ Ends(q)
    /\ UNCHANGED <<row, token, states, spent, torn, cut, asked>>

(* Meta forgets a login, or its tokens come to their end.                  *)
TokenDies(k) ==
    /\ token[k].works
    /\ token' = [token EXCEPT ![k].works = FALSE]
    /\ UNCHANGED <<row, campaign, request, states, spent, torn, cut, asked>>

-----------------------------------------------------------------------------
(* create_paused_campaign                                                  *)

NextPart(part) == CASE part = "adset" -> "creative" [] part = "creative" -> "ad"

CreateCampaign(q) ==
    /\ Works(q, "build")
    /\ Len(campaign) < MaxCampaigns
    /\ campaign' = Append(campaign, [account |-> request[q].read.account,
                                     status |-> "PAUSED", parts |-> {}])
    /\ request' = [request EXCEPT ![q].stage = "adset", ![q].made = Len(campaign) + 1]
    /\ UNCHANGED <<row, token, states, spent, torn, cut, asked>>

CreatePart(q) ==
    LET r == request[q] IN
    /\ r.stage \in Parts /\ token[r.token].works
    /\ campaign' = [campaign EXCEPT ![r.made].parts = @ \cup {r.stage}]
    /\ IF r.stage = "ad" THEN Ends(q) ELSE Goes(q, NextPart(r.stage))
    /\ UNCHANGED <<row, token, states, spent, torn, cut, asked>>

\* Mutant: the ad is made outside the try.
UndoneParts == {"adset", "creative"}

(* The steps whose MetaApiError deletes the campaign.                      *)
Undone == Parts

PartRefused(q) ==
    /\ request[q].stage \in Parts
    /\ IF request[q].stage \in Undone THEN Goes(q, "undo") ELSE Ends(q)
    /\ UNCHANGED <<row, token, campaign, states, spent, torn, cut, asked>>

(* Deleted, at best.                                                       *)
Undo(q) ==
    LET c == request[q].made IN
    /\ request[q].stage = "undo"
    /\ \/ /\ token[request[q].token].works
          /\ campaign' = [campaign EXCEPT ![c].status = "DELETED"] /\ UNCHANGED cut
       \/ cut' = cut \cup {c} /\ UNCHANGED campaign
    /\ Ends(q)
    /\ UNCHANGED <<row, token, states, spent, torn, asked>>

(* A call that ends in none of these ways, a crash, a refusal of the       *)
(* handler: what has not been committed is not, and what is on Meta stays. *)
Drops(q) ==
    LET r == request[q] IN
    /\ r.stage # "idle"
    /\ cut' = IF r.made # 0 THEN cut \cup {r.made} ELSE cut
    /\ Ends(q)
    /\ UNCHANGED <<row, token, campaign, states, spent, torn, asked>>

Handler(q) ==
    \/ Start(q) \/ CallbackExpired(q) \/ Callback(q) \/ ExchangeFails(q) \/ Exchanged(q)
    \/ Disconnect(q) \/ Commits(q) \/ KeepsPage(q) \/ LeavesPage(q)
    \/ \E kind \in {"account", "page", "switch", "build"} : Call(q, kind)
    \/ TokenRefused(q) \/ SelectAccount(q) \/ SelectPage(q) \/ Switch(q)
    \/ CreateCampaign(q) \/ CreatePart(q) \/ PartRefused(q) \/ Undo(q)
    \/ Drops(q)

Next == (\E q \in Requests : Handler(q)) \/ (\E k \in DOMAIN token : TokenDies(k))

Spec == Init /\ [][Next]_vars

-----------------------------------------------------------------------------
(* Properties                                                              *)

(* A spent OAuth state stays spent: however starts, callbacks and          *)
(* disconnects overlap, none of them brings a state back with which a      *)
(* callback has committed.                                                 *)
StatesAreSpent == row.state \notin spent

(* A login holds: a token that works belongs to a row that says connected, *)
(* whatever was cancelled, refused or disconnected before, and a row that  *)
(* is disconnected keeps none, unless a commit fell upon a changed row.    *)
LoginHolds ==
    ~torn => /\ row.token # 0 /\ token[row.token].works => row.status = "connected"
             /\ row.status \in {"none", "pending", "disconnected"} <=> row.token = 0

(* The account that campaigns are read and changed in is one of the login  *)
(* whose token is used, whoever signed in before.                          *)
AccountFollowsLogin ==
    ~torn /\ row.token # 0 /\ row.account # None =>
        \E j \in DOMAIN AccountsOf[token[row.token].login] :
            AccountsOf[token[row.token].login][j] = row.account

(* The connection holds: the row says connected of the login whose token   *)
(* works, and of an account that is that login's, unless a commit fell     *)
(* upon a changed row; and in any case no spent state comes back.  (Two    *)
(* callbacks that have both read one state are both accepted.)             *)
ConnectionHolds == LoginHolds /\ AccountFollowsLogin /\ StatesAreSpent

Building(c) == \E q \in Requests : request[q].made = c

(* A campaign that could not be finished is deleted again, unless its      *)
(* making broke off: a token that is refused, a call without an answer, a  *)
(* deletion that fails.                                                    *)
HalfBuiltIsDeleted ==
    \A c \in DOMAIN campaign \ cut :
        campaign[c].parts # Parts /\ ~Building(c) => campaign[c].status = "DELETED"
=============================================================================
