------------------------------ MODULE Sessions ------------------------------
(***************************************************************************)
(* Signing in, renewing, signing out, changing and resetting passwords,    *)
(* deactivating and reactivating accounts (routers/auth.py,                *)
(* routers/users.py, security.py, deps.py), by handlers that run in the    *)
(* threads of one API process, each in a READ COMMITTED transaction of its *)
(* own.                                                                    *)
(*                                                                         *)
(* A handler is cut where another can come between: its token is looked up *)
(* by current_principal; it reads the rows it decides on; it sends its     *)
(* UPDATEs, which take row locks; it commits.  A statement that meets a    *)
(* lock waits for it with the snapshot it started from.  A request that is *)
(* refused changes nothing.  The fields "typed", "raced" and "cuts" are    *)
(* history: when the password behind a token was typed, whether the token  *)
(* was issued while a revocation was in progress, and how many revocations *)
(* its credentials had seen.                                               *)
(***************************************************************************)
EXTENDS SessionRows, FiniteSets

CONSTANTS
    Users,          \* accounts
    Owners,         \* those who hold users.manage
    Requests,       \* handlers that may be in progress at once
    Asks,           \* bound: who asks for what, pairs of a user and an operation
    SignedIn,       \* who has signed in before the behaviour starts
    MaxSessions,    \* bound: rows ever issued
    MaxCuts,        \* bound: revocations of one account
    MaxTime         \* bound: the clock

ASSUME SignedInAssumption == SignedIn \in Seq(Users)

VARIABLES
    now,
    account,    \* per user: active (deleted_at is null), and how often all
                \* sessions were revoked
    session,    \* the rows, in the order of their insertion
    request     \* per handler: where it is and what it has read

vars == <<now, account, session, request>>

Ops == {"login", "refresh", "logout", "change", "reset", "deactivate", "reactivate"}
Managing == {"reset", "deactivate", "reactivate"}
Revoking == {"change", "reset", "deactivate"}

\* Mutant: a reset writes the account last, like a deactivation.
AccountFirstInChange == {"change"}

(* A new password is flushed, and its account locked, before the sessions  *)
(* are revoked; a deactivation writes the account with its commit.         *)
AccountFirst == {"change", "reset"}
AccountLast == Revoking \ AccountFirst

Stages == {"idle", "called", "issue", "flush", "flushed", "revoking", "revoked"}

None == [stage |-> "idle", op |-> "login", jti |-> 0, target |-> 0,
         rows |-> {}, cuts |-> 0]

Account == [active : BOOLEAN, cuts : Nat]
IssuedRow == [row : Row(Users), typed : Nat, raced : BOOLEAN, cuts : Nat]
Request == [stage : Stages, op : Ops, jti : Nat, target : Users \cup {0},
            rows : SUBSET Nat, cuts : Nat]

TypeOK ==
    /\ now \in Nat
    /\ account \in [Users -> Account]
    /\ session \in Seq(IssuedRow)
    /\ request \in [Requests -> Request]
    \* a row never outlives the token it stands for
    /\ \A j \in DOMAIN session : session[j].row.expires <= Exp(session[j].row)

Init ==
    /\ now = 1
    /\ account = [u \in Users |-> [active |-> TRUE, cuts |-> 0]]
    /\ session = [j \in DOMAIN SignedIn |->
                    [row |-> NewRow(SignedIn[j], 1, 1), typed |-> 1,
                     raced |-> FALSE, cuts |-> 0]]
    /\ request = [p \in Requests |-> None]

-----------------------------------------------------------------------------
(* Who is let in, who holds which lock                                     *)

(* current_principal: the row behind the token and the account it joins.   *)
Accepted(j) ==
    /\ IsLive(session[j].row, now)
    /\ account[session[j].row.user].active

Busy(p, stages, ops) == request[p].stage \in stages /\ request[p].op \in ops

HoldsUser(p, u) ==
    /\ Busy(p, {"flushed", "revoking", "revoked"}, AccountFirst)
    /\ request[p].target = u

(* The rows a revocation has updated and not committed.                    *)
HoldsRow(p, j) == request[p].stage = "revoked" /\ j \in request[p].rows

(* p's next statement meets a lock that q holds.                           *)
WaitsFor(p, q) ==
    /\ p # q
    /\ LET r == request[p] IN
       \/ Busy(p, {"flush"}, AccountFirst) /\ HoldsUser(q, r.target)
       \/ r.stage = "revoking" /\ \E j \in r.rows : HoldsRow(q, j)
       \/ Busy(p, {"revoked"}, AccountLast) /\ HoldsUser(q, r.target)
       \/ Busy(p, {"called"}, {"reactivate"}) /\ HoldsUser(q, r.target)
       \/ Busy(p, {"called"}, {"logout"}) /\ HoldsRow(q, r.jti)
       \/ Busy(p, {"issue"}, {"refresh"}) /\ HoldsRow(q, r.jti)

Free(p) == \A q \in Requests : ~WaitsFor(p, q)

(* Someone else's revocation of u has taken its snapshot and is not over.  *)
InFlight(p, u) == \E q \in Requests \ {p} :
    request[q].stage \in {"revoking", "revoked"} /\ request[q].target = u

Done(p) == request' = [request EXCEPT ![p] = None]
Goes(p, stage) == request' = [request EXCEPT ![p].stage = stage]

Issued(p, row, typed) ==
    [row |-> row, typed |-> typed, cuts |-> request[p].cuts,
     raced |-> \/ request[p].cuts # account[row.user].cuts
               \/ InFlight(p, row.user)]

-----------------------------------------------------------------------------
(* Signing in and renewing                                                 *)

(* login: the account is read and the password verified; a deactivated     *)
(* one and a wrong password are refused alike.                             *)
Login(p, u) ==
    /\ request[p].stage = "idle"
    /\ <<u, "login">> \in Asks
    /\ account[u].active
    /\ request' = [request EXCEPT ![p] =
         [None EXCEPT !.stage = "issue", !.op = "login", !.target = u,
                      !.cuts = account[u].cuts]]
    /\ UNCHANGED <<now, account, session>>

(* Any other request: its token is accepted, and require("users.manage")   *)
(* lets only an owner manage.                                              *)
Call(p, j, op, u) ==
    /\ request[p].stage = "idle"
    /\ <<session[j].row.user, op>> \in Asks
    /\ Accepted(j)
    /\ IF op \in Managing THEN session[j].row.user \in Owners
                          ELSE u = session[j].row.user
    /\ request' = [request EXCEPT ![p] =
         [None EXCEPT !.stage = "called", !.op = op, !.jti = j, !.target = u,
                      !.cuts = account[u].cuts]]
    /\ UNCHANGED <<now, account, session>>

(* renew_session reads the row again and refuses or goes on.               *)
RenewReads(p) ==
    /\ Busy(p, {"called"}, {"refresh"})
    /\ MayRenew(session[request[p].jti].row, now)
    /\ Goes(p, "issue")
    /\ UNCHANGED <<now, account, session>>

(* issue_token and the commit, of a sign-in and of a renewal, which also   *)
(* shortens the old row's life.                                            *)
Issue(p) ==
    LET r == request[p] IN
    /\ r.stage = "issue"
    /\ Free(p)
    /\ Len(session) < MaxSessions
    /\ session' =
         IF r.op = "login"
         THEN Append(session, Issued(p, NewRow(r.target, now, now), now))
         ELSE Append([session EXCEPT ![r.jti].row = Superseded(@, now)],
                     Issued(p, Successor(session[r.jti].row, now), session[r.jti].typed))
    /\ Done(p)
    /\ UNCHANGED <<now, account>>

-----------------------------------------------------------------------------
(* Signing out, passwords, deactivation                                    *)

(* logout revokes the token's own row and no other.                        *)
Logout(p) ==
    /\ Busy(p, {"called"}, {"logout"})
    /\ Free(p)
    /\ session' = [session EXCEPT ![request[p].jti].row = Revoked(@)]
    /\ Done(p)
    /\ UNCHANGED <<now, account>>

(* change_password and reset_password read the account they change; an     *)
(* owner's password is never reset from here.                              *)
PasswordReads(p) ==
    /\ Busy(p, {"called"}, {"change", "reset"})
    /\ account[request[p].target].active
    /\ request[p].op = "reset" => request[p].target \notin Owners
    /\ Goes(p, "flush")
    /\ UNCHANGED <<now, account, session>>

Flush(p) ==
    /\ Busy(p, {"flush"}, AccountFirst)
    /\ Free(p)
    /\ Goes(p, "flushed")
    /\ UNCHANGED <<now, account, session>>

\* Mutant: superseded sessions are left to die by themselves.
LiveRowsInUse(u) == {j \in DOMAIN session :
    session[j].row.user = u /\ ~session[j].row.revoked /\ session[j].row.renewed = 0}

LiveRows(u) ==
    {j \in DOMAIN session : session[j].row.user = u /\ ~session[j].row.revoked}

(* update_user, asked to deactivate: nobody deactivates themselves.        *)
Deactivate(p) ==
    /\ Busy(p, {"called"}, {"deactivate"})
    /\ request[p].target # session[request[p].jti].row.user
    /\ Goes(p, "flush")
    /\ UNCHANGED <<now, account, session>>

(* revoke_all_for_user: the statement's snapshot.                          *)
RevokeSelects(p) ==
    LET r == request[p] IN
    /\ r.stage = "flushed" \/ Busy(p, {"flush"}, AccountLast)
    /\ request' = [request EXCEPT ![p].stage = "revoking", ![p].rows = LiveRows(r.target)]
    /\ UNCHANGED <<now, account, session>>

(* The statement gets its row locks, those rows still live.                *)
RevokeLocks(p) ==
    /\ request[p].stage = "revoking"
    /\ Free(p)
    /\ request' = [request EXCEPT ![p].stage = "revoked",
                                  ![p].rows = @ \cap LiveRows(request[p].target)]
    /\ UNCHANGED <<now, account, session>>

RevokedAll(p) ==
    [j \in DOMAIN session |->
       IF j \in request[p].rows THEN [session[j] EXCEPT !.row = Revoked(@)]
                                ELSE session[j]]

(* The commit of the three that revoke all: a change of password has also  *)
(* issued a new token to its caller, a deactivation closes the account.    *)
RevokeCommits(p) ==
    LET r == request[p] IN
    /\ r.stage = "revoked"
    /\ Free(p)
    /\ account[r.target].cuts < MaxCuts
    /\ r.op = "change" => Len(session) < MaxSessions
    /\ account' = [account EXCEPT ![r.target].cuts = @ + 1,
                                  ![r.target].active = @ /\ r.op # "deactivate"]
    /\ session' = IF r.op = "change"
                  THEN Append(RevokedAll(p),
                              [Issued(p, NewRow(r.target, now, now), now)
                                 EXCEPT !.cuts = account[r.target].cuts + 1])
                  ELSE RevokedAll(p)
    /\ Done(p)
    /\ UNCHANGED now

(* update_user with deactivate = false, on an account that is closed.      *)
Reactivate(p) ==
    /\ Busy(p, {"called"}, {"reactivate"})
    /\ Free(p)
    /\ account' = [account EXCEPT ![request[p].target].active = TRUE]
    /\ Done(p)
    /\ UNCHANGED <<now, session>>

-----------------------------------------------------------------------------
(* Requests that end without effect, deadlocks, time                       *)

(* A wrong or unchanged password, a renewal past the cap or of a token     *)
(* that was signed out meanwhile, an owner deactivating themselves, ...    *)
Refuse(p) ==
    LET r == request[p] IN
    /\ r.stage = "called"
    /\ \/ r.op = "refresh" /\ ~MayRenew(session[r.jti].row, now)
       \/ r.op = "change"
       \/ r.op = "reset" /\ (~account[r.target].active \/ r.target \in Owners)
       \/ r.op = "deactivate" /\ r.target = session[r.jti].row.user
    /\ Done(p)
    /\ UNCHANGED <<now, account, session>>

(* The database breaks a cycle of waiting transactions by aborting one.    *)
Deadlocked(p, q) == WaitsFor(p, q) /\ WaitsFor(q, p)

DeadlockAborts(p) ==
    /\ \E q \in Requests : Deadlocked(p, q)
    /\ Done(p)
    /\ UNCHANGED <<now, account, session>>

(* A minute passes.  A token is issued in the minute its row was read in.  *)
Tick ==
    /\ now < MaxTime
    /\ \A p \in Requests : request[p].stage # "issue"
    /\ now' = now + 1
    /\ UNCHANGED <<account, session, request>>

Handler(p) ==
    \/ \E u \in Users : Login(p, u)
    \/ \E j \in DOMAIN session, op \in Ops \ {"login"}, u \in Users : Call(p, j, op, u)
    \/ RenewReads(p) \/ Issue(p)
    \/ Logout(p)
    \/ PasswordReads(p) \/ Deactivate(p) \/ Flush(p)
    \/ RevokeSelects(p) \/ RevokeLocks(p) \/ RevokeCommits(p)
    \/ Reactivate(p)
    \/ Refuse(p) \/ DeadlockAborts(p)

Next == Tick \/ \E p \in Requests : Handler(p)

Spec == Init /\ [][Next]_vars

-----------------------------------------------------------------------------
(* Properties                                                              *)

(* Renewals cannot carry a sign-in past the cap: however many renewals lie *)
(* between, and whichever of them at once, a token dies within Cap + Idle  *)
(* of the moment its password was typed.                                   *)
ChainsAreCapped ==
    \A j \in DOMAIN session :
        session[j].row.expires < session[j].typed + Cap + Idle

(* A superseded token is dead within the grace period of its first         *)
(* renewal: renewing it again, which the grace period allows, does not     *)
(* prolong it.                                                             *)
SupersededDies ==
    [][\A j \in DOMAIN session : LET old == session[j].row  new == session'[j].row IN
         new.renewed # old.renewed =>
           /\ new.expires <= now + Grace
           /\ old.renewed # 0 => new.expires <= old.renewed + Grace]_vars

(* "Every live session is revoked": a session whose credentials were       *)
(* checked before a change of password, a reset or a deactivation is       *)
(* revoked by it, unless it was being issued while that was in progress.   *)
RevokeAllIsComplete ==
    \A j \in DOMAIN session : LET s == session[j] IN
        ~s.row.revoked /\ s.cuts # account[s.row.user].cuts => s.raced

(* A token that has been refused stays refused: no renewal, and no         *)
(* reactivation of the account, brings it back, unless it was issued       *)
(* while the account was being closed.                                     *)
RefusedStaysRefused ==
    [][\A j \in DOMAIN session : 
         ~Accepted(j) /\ ~session[j].raced => ~Accepted(j)']_vars

(* Every token dies, and for good: renewals carry no sign-in past the cap, *)
(* renewing a superseded token does not prolong it, and what has been      *)
(* refused once is not accepted again.                                     *)
TokensDie == []ChainsAreCapped /\ SupersededDies /\ RefusedStaysRefused

(* Two handlers wait for each other only when a deactivation, which takes  *)
(* the sessions before the account, meets a change or a reset of the same  *)
(* password, which takes the account first.                                *)
DeadlocksNeedDeactivation ==
    \A p, q \in Requests : 
        Deadlocked(p, q) => /\ "deactivate" \in {request[p].op, request[q].op}
                            /\ request[p].target = request[q].target
=============================================================================
