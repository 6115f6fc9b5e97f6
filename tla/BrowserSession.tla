--------------------------- MODULE BrowserSession ---------------------------
(***************************************************************************)
(* How the web application keeps one person signed in (proxy.ts,           *)
(* lib/session.ts, lib/api.ts and the handlers under app/api/auth): one    *)
(* browser with one cookie, several tabs, and an API that may sleep, be    *)
(* out of reach, or answer too late.  A handler of the API is one step     *)
(* here; Sessions cuts it open.                                            *)
(*                                                                         *)
(* A tab's request carries the cookie the browser had when it was sent,    *)
(* and whatever the browser has by the time the response comes is          *)
(* overwritten by the response's cookie.                                   *)
(***************************************************************************)
EXTENDS SessionRows, FiniteSets

CONSTANTS
    Tabs,
    MaxRows,        \* bound: sessions ever issued
    MaxTime,        \* bound: the clock
    MaxFaults       \* bound: calls that fail and answers that are lost

VARIABLES
    now,
    row,        \* the rows of this person's sessions
    jar,        \* the session cookie: a token, or 0
    tab,        \* per tab: what it waits for, the cookie sent, the cookie to set
    since,      \* history: when each token was first superseded, 0 for not yet
    lost,       \* history: tokens whose replacement never reached the browser
    faults

vars == <<now, row, jar, tab, since, lost, faults>>

NoRequest == [stage |-> "idle", cookie |-> 0, set |-> 0]
Request == [stage : {"idle", "proxy", "check", "expired", "signout", "answer"},
            cookie : Nat, set : Nat]

TypeOK ==
    /\ now \in Nat
    /\ row \in Seq(Row({"staff"}))
    /\ \A j \in DOMAIN row : row[j].expires <= Exp(row[j])
    /\ jar \in 0 .. Len(row)
    /\ tab \in [Tabs -> Request]
    /\ since \in Seq(Nat) /\ Len(since) = Len(row)
    /\ lost \subseteq DOMAIN row
    /\ faults \in 0 .. MaxFaults
    \* what a tab holds are tokens the API has issued
    /\ \A t \in Tabs : tab[t].cookie <= Len(row) /\ tab[t].set <= Len(row)

Init ==
    /\ now = 1
    /\ row = <<>>
    /\ jar = 0
    /\ tab = [t \in Tabs |-> NoRequest]
    /\ since = <<>> /\ lost = {}
    /\ faults = 0

-----------------------------------------------------------------------------
Live(j) == j # 0 /\ IsLive(row[j], now)
Room == Len(row) < MaxRows
Fails == faults < MaxFaults /\ faults' = faults + 1
Goes(t, stage, set) == tab' = [tab EXCEPT ![t].stage = stage, ![t].set = set]
Ends(t) == tab' = [tab EXCEPT ![t] = NoRequest]

\* Mutant: the page's own response leaves the renewed cookie out.
ReceivesNone(t) == jar' = jar

(* A response reaches the browser with its Set-Cookie, if it has one.      *)
Receives(t) == jar' = IF tab[t].set # 0 THEN tab[t].set ELSE jar

(* POST /api/auth/login.  The login page may be open in any tab; without   *)
(* an answer the browser keeps the cookie it has.                          *)
SignIn(t) ==
    /\ tab[t].stage = "idle"
    /\ Room
    /\ row' = Append(row, NewRow("staff", now, now)) /\ since' = Append(since, 0)
    /\ \/ jar' = Len(row) + 1 /\ UNCHANGED faults
       \/ Fails /\ UNCHANGED jar
    /\ UNCHANGED <<now, tab, lost>>

(* A page is requested: without a cookie the proxy redirects to /login.    *)
Open(t) ==
    /\ tab[t].stage = "idle"
    /\ jar # 0
    /\ tab' = [tab EXCEPT ![t] = [NoRequest EXCEPT !.stage = "proxy", !.cookie = jar]]
    /\ UNCHANGED <<now, row, jar, since, lost, faults>>

(* maybeRenew asks once the token is past halfway of its life.             *)
Halfway(j) == row[j].issued + Idle \div 2
RenewalDue(j) == now >= Halfway(j)

SkipRenewal(t) ==
    /\ tab[t].stage = "proxy"
    /\ ~RenewalDue(tab[t].cookie)
    /\ Goes(t, "check", 0)
    /\ UNCHANGED <<now, row, jar, since, lost, faults>>

(* The API renews.  Its answer comes within ten seconds, or is not waited  *)
(* for: the page goes on without a new cookie.                             *)
Renew(t) ==
    LET j == tab[t].cookie IN
    /\ tab[t].stage = "proxy" /\ RenewalDue(j)
    /\ Live(j) /\ MayRenew(row[j], now) /\ Room
    /\ row' = Append([row EXCEPT ![j] = Superseded(@, now)], Successor(row[j], now))
    /\ since' = Append([since EXCEPT ![j] = IF @ = 0 THEN now ELSE @], 0)
    /\ \/ Goes(t, "check", Len(row) + 1) /\ UNCHANGED <<lost, faults>>
       \/ Goes(t, "check", 0) /\ lost' = lost \cup {j} /\ Fails
    /\ UNCHANGED <<now, jar>>

(* Refused, or out of reach: "every failure here is silent".               *)
RenewalFails(t) ==
    LET j == tab[t].cookie IN
    /\ tab[t].stage = "proxy" /\ RenewalDue(j)
    /\ IF Live(j) /\ MayRenew(row[j], now) THEN Fails ELSE UNCHANGED faults
    /\ Goes(t, "check", 0)
    /\ UNCHANGED <<now, row, jar, since, lost>>

(* checkSession, and api() for every read of the page: the renderer sees   *)
(* the renewed cookie when there is one.                                   *)
CheckOk(t) ==
    LET j == IF tab[t].set # 0 THEN tab[t].set ELSE tab[t].cookie IN
    /\ tab[t].stage = "check"
    /\ IF Live(j)
       THEN Ends(t)
       \* 401: the browser is sent to the route that clears the cookie
       ELSE tab' = [tab EXCEPT ![t].stage = "expired", ![t].set = 0]
    /\ Receives(t)
    /\ UNCHANGED <<now, row, since, lost, faults>>

(* The API cannot be reached: the page says so and the cookie stays.       *)
CheckUnavailable(t) ==
    /\ tab[t].stage = "check"
    /\ Fails
    /\ Receives(t)
    /\ Ends(t)
    /\ UNCHANGED <<now, row, since, lost>>

(* The browser gave up on the page: its response is not received.          *)
Abandon(t) ==
    /\ tab[t].stage = "check"
    /\ Fails
    /\ Ends(t)
    /\ lost' = IF tab[t].set # 0 THEN lost \cup {tab[t].cookie} ELSE lost
    /\ UNCHANGED <<now, row, jar, since>>

\* Mutant: a refused page goes straight to the login page.
ExpiredKeeps(t) ==
    /\ tab[t].stage = "expired"
    /\ Ends(t)
    /\ UNCHANGED <<now, row, jar, since, lost, faults>>

(* GET /api/auth/expired deletes the cookie, whichever it is by now.       *)
Expired(t) ==
    /\ tab[t].stage = "expired"
    /\ jar' = 0
    /\ Ends(t)
    /\ UNCHANGED <<now, row, since, lost, faults>>

(* POST /api/auth/logout: the row is revoked if the API can be reached;    *)
(* the cookie is cleared in any case.                                      *)
SignOut(t) ==
    /\ tab[t].stage = "idle" /\ jar # 0
    /\ tab' = [tab EXCEPT ![t] = [NoRequest EXCEPT !.stage = "signout", !.cookie = jar]]
    /\ \/ /\ row' = IF Live(jar) THEN [row EXCEPT ![jar] = Revoked(@)] ELSE row
          /\ UNCHANGED faults
       \/ Fails /\ UNCHANGED row
    /\ UNCHANGED <<now, jar, since, lost>>

SignedOut(t) ==
    /\ tab[t].stage = "signout"
    /\ jar' = 0
    /\ Ends(t)
    /\ UNCHANGED <<now, row, since, lost, faults>>

(* POST /api/auth/change-password: every session is revoked and the answer *)
(* holds a new token; a lost one reads "your password is unchanged".       *)
ChangePassword(t) ==
    /\ tab[t].stage = "idle" /\ Live(jar) /\ Room
    /\ row' = Append([j \in DOMAIN row |-> Revoked(row[j])], NewRow("staff", now, now))
    /\ since' = Append(since, 0)
    /\ \/ /\ tab' = [tab EXCEPT ![t] = [stage |-> "answer", cookie |-> jar,
                                        set |-> Len(row) + 1]]
          /\ UNCHANGED <<lost, faults>>
       \/ Fails /\ lost' = lost \cup {jar} /\ UNCHANGED tab
    /\ UNCHANGED <<now, jar>>

PasswordChanged(t) ==
    /\ tab[t].stage = "answer"
    /\ Receives(t)
    /\ Ends(t)
    /\ UNCHANGED <<now, row, since, lost, faults>>

(* A minute passes.  The cookie's maxAge ends with the token's exp.        *)
Tick ==
    /\ now < MaxTime
    /\ now' = now + 1
    /\ jar' = IF jar # 0 /\ Exp(row[jar]) <= now' THEN 0 ELSE jar
    /\ UNCHANGED <<row, tab, since, lost, faults>>

Answers(t) ==
    \/ SkipRenewal(t) \/ Renew(t) \/ RenewalFails(t)
    \/ CheckOk(t) \/ Expired(t)
    \/ SignedOut(t) \/ PasswordChanged(t)

Next ==
    \/ Tick
    \/ \E t \in Tabs :
         \/ SignIn(t) \/ Open(t) \/ SignOut(t) \/ ChangePassword(t)
         \/ Answers(t) \/ CheckUnavailable(t) \/ Abandon(t)

Spec == Init /\ [][Next]_vars

(* Whoever has a cookie goes on opening pages, and pages are answered.     *)
Fairness == \A t \in Tabs : WF_vars(Open(t)) /\ WF_vars(Answers(t))
FairSpec == Spec /\ Fairness

-----------------------------------------------------------------------------
(* Properties                                                              *)

Usable(j) == ~row[j].revoked /\ Exp(row[j]) > now

Replacing(j) == \E t \in Tabs : tab[t].cookie = j /\ tab[t].set # 0

(* Nobody is signed out while working: a cookie that was neither revoked   *)
(* nor used up is accepted, unless the answer of a renewal was lost or is  *)
(* still on its way.                                                       *)
KeptSignedIn ==
    jar # 0 /\ Usable(jar) /\ ~Live(jar) => jar \in lost \/ Replacing(jar)

(* A request that was in flight during a renewal is not refused for it: a  *)
(* page is refused only when its token was revoked, ran out, or had been   *)
(* superseded for the whole grace period.                                  *)
RefusedFairly ==
    \A t \in Tabs : tab[t].stage = "expired" /\ Usable(tab[t].cookie) =>
        /\ since[tab[t].cookie] # 0
        /\ now >= since[tab[t].cookie] + Grace

(* "This function may extend a session; it must never end one" (proxy.ts), *)
(* as far as it goes: neither the browser that works nor a request that is *)
(* on its way loses its session to a renewal whose answer arrives.         *)
RenewalEndsNothing == KeptSignedIn /\ RefusedFairly

(* No redirect loop: a browser whose cookie is not accepted gets rid of it *)
(* or gets a good one, so that it can reach the login page again.          *)
NoRedirectLoop == (jar # 0 /\ ~Live(jar)) ~> (jar = 0 \/ Live(jar))
=============================================================================
