--------------------------- MODULE SessionsProofs ---------------------------
(***************************************************************************)
(* That tokens die and that revoking all of them is complete, for any      *)
(* number of accounts, handlers, renewals, revocations and minutes.        *)
(***************************************************************************)
EXTENDS Sessions, Integers, SequenceTheorems, TLAPS

Typed ==
    /\ now \in Nat
    /\ account \in [Users -> Account]
    /\ session \in Seq(IssuedRow)
    /\ request \in [Requests -> Request]

\* A row dies before its token, and before the cap of the sign-in it continues;
\* a superseded one within the grace period of its last renewal.
Timely(s) ==
    /\ s.row.expires <= s.row.issued + Idle
    /\ s.row.chain = s.typed
    /\ s.row.expires < s.typed + Cap + Idle
    /\ s.row.renewed # 0 => s.row.expires <= s.row.renewed + Grace

\* What a handler has read is true of the rows, or was overtaken by a
\* revocation it can tell from the count; a revocation holds in its snapshot
\* all that was not issued while it ran.
Sound(r) ==
    r.stage # "idle" =>
        /\ r.target \in Users
        /\ r.op # "login" => r.jti \in DOMAIN session
        /\ r.cuts <= account[r.target].cuts
        /\ r.op \in {"login", "refresh", "change"} /\ r.cuts = account[r.target].cuts
           => account[r.target].active
        /\ r.op = "refresh" => session[r.jti].row.user = r.target
        /\ r.stage = "issue" =>
             /\ r.op \in {"login", "refresh"}
             /\ r.op = "refresh" => now < session[r.jti].row.chain + Cap
        /\ r.stage \in {"revoking", "revoked"} =>
             \A j \in DOMAIN session :
                session[j].row.user = r.target /\ ~session[j].row.revoked => 
                    session[j].raced \/ j \in r.rows

\* A closed account has no session left that was not being issued meanwhile.
ClosedIsRevoked ==
    \A j \in DOMAIN session :
        ~account[session[j].row.user].active => session[j].row.revoked \/ session[j].raced

SInv ==
    /\ Typed
    /\ \A j \in DOMAIN session : Timely(session[j])
    /\ \A p \in Requests : Sound(request[p])
    /\ ClosedIsRevoked
    /\ RevokeAllIsComplete

\* What any step leaves of the rows there are.
Aging(later) ==
    /\ later \in Seq(IssuedRow)
    /\ Len(session) <= Len(later)
    /\ \A j \in DOMAIN session :
         LET s == session[j]  t == later[j] IN
         /\ t.row.user = s.row.user /\ t.row.chain = s.row.chain
         /\ t.row.issued = s.row.issued
         /\ t.typed = s.typed /\ t.raced = s.raced /\ t.cuts = s.cuts
         /\ s.row.revoked => t.row.revoked
         /\ t.row.expires <= s.row.expires
         /\ t.row.renewed # s.row.renewed =>
              t.row.renewed = now /\ t.row.expires <= now + Grace

Aged == Aging(session')

\* The rows with one of them rewritten.
Put(j, new) == [session EXCEPT ![j].row = new]

-----------------------------------------------------------------------------
\* The fields of a row and what is noted with it.
LEMMA RowFields ==
    ASSUME NEW s \in IssuedRow
    PROVE  /\ s.row \in Row(Users) /\ s.row.user \in Users
           /\ s.row.issued \in Nat /\ s.row.expires \in Nat /\ s.row.chain \in Nat
           /\ s.row.renewed \in Nat /\ s.row.revoked \in BOOLEAN
           /\ s.typed \in Nat /\ s.raced \in BOOLEAN /\ s.cuts \in Nat
BY DEF IssuedRow, Row

LEMMA SessionRow ==
    ASSUME Typed, NEW j \in DOMAIN session
    PROVE  session[j] \in IssuedRow
BY DEF Typed

\* A row that is rewritten, with what is noted of it.
LEMMA Rewritten ==
    ASSUME NEW s \in IssuedRow, NEW new \in Row(Users), NEW t, t = [s EXCEPT !.row = new]
    PROVE  /\ t \in IssuedRow /\ t.row = new
           /\ t.typed = s.typed /\ t.raced = s.raced /\ t.cuts = s.cuts
BY DEF IssuedRow

\* What is noted of a row that is issued.
Noted(u, chain, n, raced, cuts) ==
    [row |-> NewRow(u, chain, n), typed |-> chain, raced |-> raced, cuts |-> cuts]

\* A row that is issued within the cap of its sign-in.
LEMMA FreshRow ==
    ASSUME NEW u \in Users, NEW chain \in Nat, NEW n \in Nat, n < chain + Cap,
           NEW raced \in BOOLEAN, NEW cuts \in Nat
    PROVE  LET s == Noted(u, chain, n, raced, cuts) IN
           /\ s \in IssuedRow /\ Timely(s)
           /\ s.row.user = u /\ s.row.chain = chain /\ ~s.row.revoked
           /\ s.raced = raced /\ s.cuts = cuts
<1> DEFINE new == NewRow(u, chain, n)
           s == Noted(u, chain, n, raced, cuts)
<1>1. Idle \in Nat /\ Cap \in Nat /\ n + Idle \in Nat
  BY PeriodsAssumption
<1>2. /\ new \in Row(Users) /\ new.user = u /\ new.issued = n /\ new.expires = n + Idle
      /\ new.chain = chain /\ new.renewed = 0 /\ new.revoked = FALSE
  BY <1>1 DEF NewRow, Row
<1>3. s.row = new /\ s.typed = chain /\ s.raced = raced /\ s.cuts = cuts
  BY DEF Noted
<1>4. s \in IssuedRow
  <2> HIDE DEF new
  <2>1. s = [row |-> new, typed |-> chain, raced |-> raced, cuts |-> cuts]
    BY DEF new, Noted
  <2> QED
    BY <1>2, <2>1 DEF IssuedRow
<1> HIDE DEF new, s
<1>5. n + Idle < chain + Cap + Idle
  BY <1>1
<1>6. Timely(s)
  BY <1>1, <1>2, <1>3, <1>5 DEF Timely
<1>7. /\ s \in IssuedRow /\ Timely(s) /\ s.row.user = u /\ s.row.chain = chain
      /\ ~s.row.revoked /\ s.raced = raced /\ s.cuts = cuts
  BY <1>2, <1>3, <1>4, <1>6
<1> QED
  BY <1>7 DEF s

LEMMA NoneIsSound == None \in Request /\ Sound(None)
BY DEF None, Request, Stages, Ops, Sound

-----------------------------------------------------------------------------
LEMMA InitSInv == Init => SInv
<1> SUFFICES ASSUME Init PROVE SInv
  OBVIOUS
<1>1. /\ SignedIn \in Seq(Users)
      /\ session = [j \in 1..Len(SignedIn) |->
                     [row |-> NewRow(SignedIn[j], 1, 1), typed |-> 1,
                      raced |-> FALSE, cuts |-> 0]]
  BY SignedInAssumption DEF Init
<1>2. \A j \in 1..Len(SignedIn) : SignedIn[j] \in Users
  BY <1>1
<1>3. DOMAIN session = 1..Len(SignedIn) /\ Len(SignedIn) \in Nat
  BY <1>1
<1>4. ASSUME NEW j \in DOMAIN session
      PROVE  /\ session[j] \in IssuedRow /\ Timely(session[j])
             /\ session[j].cuts = 0 /\ session[j].row.user \in Users
  <2> PICK raced \in BOOLEAN : raced = FALSE
    OBVIOUS
  <2>1. session[j] = Noted(SignedIn[j], 1, 1, raced, 0)
    BY <1>1, <1>3 DEF Noted
  <2>2. SignedIn[j] \in Users
    BY <1>2, <1>3
  <2>3. 1 < 1 + Cap /\ 0 \in Nat /\ 1 \in Nat
    BY PeriodsAssumption
  <2> DEFINE s == Noted(SignedIn[j], 1, 1, raced, 0)
  <2>4. /\ s \in IssuedRow /\ Timely(s)
        /\ s.row.user = SignedIn[j] /\ s.cuts = 0
    BY <2>2, <2>3, FreshRow
  <2>5. session[j] = s
    BY <2>1
  <2> HIDE DEF s
  <2> QED
    BY <2>2, <2>4, <2>5 DEF Timely
<1>5. session \in Seq(IssuedRow)
  BY <1>1, <1>3, <1>4
<1>6. now = 1 /\ account = [u \in Users |-> [active |-> TRUE, cuts |-> 0]]
      /\ request = [p \in Requests |-> None]
  BY DEF Init
<1>7. Typed
  BY <1>5, <1>6, NoneIsSound DEF Typed, Account
<1>8. \A p \in Requests : Sound(request[p])
  BY <1>6, NoneIsSound
<1>9. \A u \in Users : account[u].active /\ account[u].cuts = 0
  BY <1>6
<1> QED
  BY <1>4, <1>7, <1>8, <1>9 DEF SInv, ClosedIsRevoked, RevokeAllIsComplete

\* A handler goes on, and nothing else happens.
LEMMA OnlyRequest ==
    ASSUME SInv, NEW p \in Requests, NEW r \in Request, Sound(r),
           request' = [request EXCEPT ![p] = r], UNCHANGED <<now, account, session>>
    PROVE  SInv' /\ Aged
<1>1. \A q \in Requests : request'[q] = IF q = p THEN r ELSE request[q]
  BY DEF SInv, Typed
<1>2. Typed'
  BY DEF SInv, Typed
<1>3. \A q \in Requests : Sound(request[q])'
  BY <1>1 DEF SInv, Sound
<1>4. ClosedIsRevoked' /\ RevokeAllIsComplete' /\ \A j \in DOMAIN session' : Timely(session[j])'
  BY DEF SInv, ClosedIsRevoked, RevokeAllIsComplete, Timely
<1>5. Aged
  <2>1. session \in Seq(IssuedRow) /\ session' = session
    BY DEF SInv, Typed
  <2>2. \A j \in DOMAIN session : session[j].row.expires \in Nat
    BY SessionRow, RowFields DEF SInv
  <2> QED
    BY <2>1, <2>2 DEF Aged, Aging
<1> QED
  BY <1>2, <1>3, <1>4, <1>5 DEF SInv

\* What a handler has read stays sound when rows are aged, appended or revoked
\* and when an account is closed with a new count.
LEMMA StaysSound ==
    ASSUME Typed, Typed', Aged, now' = now, NEW r \in Request, Sound(r),
           \A u \in Users : /\ account[u].cuts <= account'[u].cuts
                            /\ account[u].cuts = account'[u].cuts /\ account[u].active
                               => account'[u].active,
           r.stage \in {"revoking", "revoked"} =>
             \A j \in DOMAIN session' \ DOMAIN session :
                session'[j].row.user = r.target => session'[j].raced
    PROVE  Sound(r)'
<1> SUFFICES ASSUME r.stage # "idle" PROVE Sound(r)'
  BY DEF Sound
<1>1. /\ session \in Seq(IssuedRow) /\ session' \in Seq(IssuedRow)
      /\ Len(session) <= Len(session')
  BY DEF Typed, Aged, Aging
<1>2. DOMAIN session \subseteq DOMAIN session'
  BY <1>1
<1>3. r.target \in Users /\ r.cuts \in Nat
  BY DEF Sound, Request
<1>4. /\ account[r.target].cuts \in Nat /\ account'[r.target].cuts \in Nat
      /\ account[r.target].cuts <= account'[r.target].cuts
      /\ r.cuts <= account[r.target].cuts
  BY <1>3 DEF Typed, Account, Sound
<1>5. r.op \in {"login", "refresh", "change"} /\ r.cuts = account'[r.target].cuts
      => account'[r.target].active
  BY <1>3, <1>4 DEF Sound
<1>6. r.op # "login" => r.jti \in DOMAIN session' /\ r.jti \in DOMAIN session
  BY <1>2 DEF Sound
<1>7. r.op = "refresh" => session'[r.jti].row.user = r.target
                          /\ session'[r.jti].row.chain = session[r.jti].row.chain
  BY <1>6 DEF Sound, Aged, Aging
<1>8. r.stage = "issue" => /\ r.op \in {"login", "refresh"}
                           /\ r.op = "refresh" => now' < session'[r.jti].row.chain + Cap
  BY <1>7 DEF Sound
<1>9. ASSUME r.stage \in {"revoking", "revoked"}, NEW j \in DOMAIN session',
             session'[j].row.user = r.target, ~session'[j].row.revoked
      PROVE  session'[j].raced \/ j \in r.rows
  <2>1. CASE j \in DOMAIN session
    BY <1>9, <2>1 DEF Aged, Aging, Sound
  <2>2. CASE j \notin DOMAIN session
    BY <1>9, <2>2
  <2> QED
    BY <2>1, <2>2
<1> QED
  BY <1>3, <1>4, <1>5, <1>6, <1>7, <1>8, <1>9 DEF Sound

\* A handler that ends, or goes on to another stage, without more.
LEMMA DoneKeeps ==
    ASSUME SInv, NEW p \in Requests, Done(p), UNCHANGED <<now, account, session>>
    PROVE  SInv' /\ Aged
BY NoneIsSound, OnlyRequest DEF Done

LEMMA GoesKeeps ==
    ASSUME SInv, NEW p \in Requests, NEW stage \in Stages, Goes(p, stage),
           request[p].stage # "idle",
           stage = "issue" => /\ request[p].op = "refresh"
                              /\ now < session[request[p].jti].row.chain + Cap,
           stage \notin {"revoking", "revoked"}, UNCHANGED <<now, account, session>>
    PROVE  SInv' /\ Aged
<1> DEFINE r == [request[p] EXCEPT !.stage = stage]
<1>1. request[p] \in Request /\ Sound(request[p]) /\ request \in [Requests -> Request]
  BY DEF SInv, Typed
<1>2. /\ r \in Request /\ r.stage = stage /\ r.op = request[p].op
      /\ r.jti = request[p].jti /\ r.target = request[p].target
      /\ r.cuts = request[p].cuts
  BY <1>1 DEF Request
<1>3. request' = [request EXCEPT ![p] = r]
  BY DEF Goes
<1> HIDE DEF r
<1>4. Sound(r)
  BY <1>1, <1>2 DEF Sound
<1> QED
  BY <1>2, <1>3, <1>4, OnlyRequest

\* login reads the account, current_principal the row and its account.
LEMMA BeginKeeps ==
    ASSUME SInv, NEW p \in Requests,
           \/ \E u \in Users : Login(p, u)
           \/ \E j \in DOMAIN session, op \in Ops \ {"login"}, u \in Users : Call(p, j, op, u)
    PROVE  SInv' /\ Aged
<1>1. ASSUME NEW u \in Users, Login(p, u) PROVE SInv' /\ Aged
  <2> DEFINE r == [None EXCEPT !.stage = "issue", !.op = "login", !.target = u,
                               !.cuts = account[u].cuts]
  <2>1. account[u].cuts \in Nat /\ account[u].active
    BY <1>1 DEF Login, SInv, Typed, Account
  <2>2. /\ r \in Request /\ r.stage = "issue" /\ r.op = "login" /\ r.target = u
        /\ r.cuts = account[u].cuts
    BY <2>1, NoneIsSound DEF Request, Stages, Ops
  <2>4. Sound(r)
    <3> HIDE DEF r
    <3> QED
      BY <2>1, <2>2 DEF Sound
  <2>5. request' = [request EXCEPT ![p] = r] /\ UNCHANGED <<now, account, session>>
    BY <1>1 DEF Login
  <2> HIDE DEF r
  <2> QED
    BY <2>2, <2>4, <2>5, OnlyRequest
<1>2. ASSUME NEW j \in DOMAIN session, NEW op \in Ops \ {"login"}, NEW u \in Users,
             Call(p, j, op, u)
      PROVE  SInv' /\ Aged
  <2> DEFINE r == [None EXCEPT !.stage = "called", !.op = op, !.jti = j, !.target = u,
                               !.cuts = account[u].cuts]
  <2>1. account[u].cuts \in Nat
    BY DEF SInv, Typed, Account
  <2>3. j \in Nat
    BY DEF SInv, Typed
  <2>2. /\ r \in Request /\ r.stage = "called" /\ r.op = op /\ r.jti = j
        /\ r.target = u /\ r.cuts = account[u].cuts
    BY <2>1, <2>3, NoneIsSound DEF Request, Stages
  <2>5. op \in {"refresh", "change"} => session[j].row.user = u /\ account[u].active
    BY <1>2 DEF Call, Accepted, Managing
  <2>6. Sound(r)
    <3> HIDE DEF r
    <3> QED
      BY <2>1, <2>2, <2>5 DEF Sound
  <2>7. request' = [request EXCEPT ![p] = r] /\ UNCHANGED <<now, account, session>>
    BY <1>2 DEF Call
  <2> HIDE DEF r
  <2> QED
    BY <2>2, <2>6, <2>7, OnlyRequest
<1> QED
  BY <1>1, <1>2

\* The steps between, up to the statement that revokes all.
LEMMA MiddleKeeps ==
    ASSUME SInv, NEW p \in Requests,
           \/ RenewReads(p) \/ PasswordReads(p) \/ Deactivate(p) \/ Flush(p)
           \/ Refuse(p) \/ DeadlockAborts(p)
    PROVE  SInv' /\ Aged
<1>1. CASE RenewReads(p)
  <2>1. /\ request[p].stage = "called" /\ request[p].op = "refresh"
        /\ now < session[request[p].jti].row.chain + Cap
        /\ Goes(p, "issue") /\ UNCHANGED <<now, account, session>>
    BY <1>1 DEF RenewReads, Busy, MayRenew
  <2> QED
    BY <2>1, GoesKeeps DEF Stages
<1>2. CASE PasswordReads(p) \/ Deactivate(p)
  <2>1. request[p].stage # "idle" /\ Goes(p, "flush") /\ UNCHANGED <<now, account, session>>
    BY <1>2 DEF PasswordReads, Deactivate, Busy
  <2> QED
    BY <2>1, GoesKeeps DEF Stages
<1>3. CASE Flush(p)
  <2>1. request[p].stage # "idle" /\ Goes(p, "flushed") /\ UNCHANGED <<now, account, session>>
    BY <1>3 DEF Flush, Busy
  <2> QED
    BY <2>1, GoesKeeps DEF Stages
<1>4. CASE Refuse(p) \/ DeadlockAborts(p)
  BY <1>4, DoneKeeps DEF Refuse, DeadlockAborts
<1> QED
  BY <1>1, <1>2, <1>3, <1>4

LEMMA SnapshotKeeps ==
    ASSUME SInv, NEW p \in Requests, RevokeSelects(p) \/ RevokeLocks(p)
    PROVE  SInv' /\ Aged
<1>1. request[p] \in Request /\ Sound(request[p]) /\ request \in [Requests -> Request]
  BY DEF SInv, Typed
<1>2. \A u : LiveRows(u) \in SUBSET Nat
  BY DEF LiveRows, SInv, Typed
<1>3. CASE RevokeSelects(p)
  <2> DEFINE r == [request[p] EXCEPT !.stage = "revoking", !.rows = LiveRows(request[p].target)]
  <2>1. /\ r \in Request /\ r.stage = "revoking" /\ r.rows = LiveRows(request[p].target)
        /\ r.op = request[p].op /\ r.jti = request[p].jti
        /\ r.target = request[p].target /\ r.cuts = request[p].cuts
    BY <1>1, <1>2 DEF Request, Stages
  <2>2. request' = [request EXCEPT ![p] = r] /\ UNCHANGED <<now, account, session>>
    BY <1>1, <1>3 DEF RevokeSelects
  <2>3. request[p].stage # "idle"
    BY <1>3 DEF RevokeSelects, Busy
  <2> HIDE DEF r
  <2>4. Sound(r)
    BY <1>1, <2>1, <2>3 DEF Sound, LiveRows
  <2> QED
    BY <2>1, <2>2, <2>4, OnlyRequest
<1>4. CASE RevokeLocks(p)
  <2> DEFINE r == [request[p] EXCEPT !.stage = "revoked",
                                     !.rows = @ \cap LiveRows(request[p].target)]
  <2>1. /\ r \in Request /\ r.stage = "revoked"
        /\ r.rows = request[p].rows \cap LiveRows(request[p].target)
        /\ r.op = request[p].op /\ r.jti = request[p].jti
        /\ r.target = request[p].target /\ r.cuts = request[p].cuts
    BY <1>1, <1>2 DEF Request, Stages
  <2>2. request' = [request EXCEPT ![p] = r] /\ UNCHANGED <<now, account, session>>
    BY <1>1, <1>4 DEF RevokeLocks
  <2>3. request[p].stage = "revoking"
    BY <1>4 DEF RevokeLocks
  <2> HIDE DEF r
  <2>4. Sound(r)
    BY <1>1, <2>1, <2>3 DEF Sound, LiveRows
  <2> QED
    BY <2>1, <2>2, <2>4, OnlyRequest
<1> QED
  BY <1>3, <1>4

\* The rows, when whoever's count changes or whose account closes has all of
\* them revoked.
LEMMA RowsStay ==
    ASSUME SInv, Typed', Aged, now' = now,
           \A j \in DOMAIN session : LET u == session[j].row.user IN
              \/ session'[j].row.revoked \/ session[j].raced
              \/ /\ account'[u].cuts = account[u].cuts
                 /\ account[u].active => account'[u].active,
           \A j \in DOMAIN session' \ DOMAIN session :
             LET s == session'[j] IN
             /\ Timely(s)
             /\ s.cuts # account'[s.row.user].cuts \/ ~account'[s.row.user].active => s.raced
    PROVE  /\ \A j \in DOMAIN session' : Timely(session'[j])
           /\ ClosedIsRevoked' /\ RevokeAllIsComplete'
<1> SUFFICES ASSUME NEW j \in DOMAIN session'
             PROVE  LET s == session'[j] IN
                    /\ Timely(s)
                    /\ ~account'[s.row.user].active => s.row.revoked \/ s.raced
                    /\ ~s.row.revoked /\ s.cuts # account'[s.row.user].cuts => s.raced
  BY DEF ClosedIsRevoked, RevokeAllIsComplete
<1>1. CASE j \notin DOMAIN session
  BY <1>1
<1>2. CASE j \in DOMAIN session
  <2> DEFINE s == session[j]  t == session'[j]
  <2>1. s \in IssuedRow /\ t \in IssuedRow
    BY <1>2, SessionRow DEF SInv, Aged, Aging
  <2>2. /\ t.row.user = s.row.user /\ t.row.chain = s.row.chain
        /\ t.row.issued = s.row.issued
        /\ t.typed = s.typed /\ t.raced = s.raced /\ t.cuts = s.cuts
        /\ s.row.revoked => t.row.revoked
        /\ t.row.expires <= s.row.expires
        /\ t.row.renewed # s.row.renewed =>
              t.row.renewed = now /\ t.row.expires <= now + Grace
    BY <1>2 DEF Aged, Aging
  <2>3. /\ s.row.user \in Users /\ s.row.issued \in Nat /\ s.row.expires \in Nat
        /\ s.row.renewed \in Nat /\ s.typed \in Nat
        /\ t.row.expires \in Nat /\ t.row.renewed \in Nat
    BY <2>1, RowFields
  <2>4. Timely(s) /\ Grace \in Nat /\ Idle \in Nat /\ Cap \in Nat
    BY <1>2, PeriodsAssumption DEF SInv
  <2>5. \/ t.row.revoked \/ s.raced
        \/ /\ ~account'[s.row.user].active => s.row.revoked \/ s.raced
           /\ ~s.row.revoked /\ s.cuts # account'[s.row.user].cuts => s.raced
    BY <1>2, <2>3 DEF SInv, ClosedIsRevoked, RevokeAllIsComplete
  <2> HIDE DEF s, t
  <2>6. Timely(t)
    BY <2>2, <2>3, <2>4 DEF Timely
  <2>7. /\ ~account'[t.row.user].active => t.row.revoked \/ t.raced
        /\ ~t.row.revoked /\ t.cuts # account'[t.row.user].cuts => t.raced
    BY <2>2, <2>5
  <2> QED
    BY <2>6, <2>7 DEF t
<1> QED
  BY <1>1, <1>2

\* One row is rewritten in place: revoked, or superseded.
LEMMA PutAges ==
    ASSUME SInv, NEW j \in DOMAIN session, NEW new \in Row(Users),
           new.user = session[j].row.user, new.chain = session[j].row.chain,
           new.issued = session[j].row.issued, new.expires <= session[j].row.expires,
           session[j].row.revoked => new.revoked,
           new.renewed # session[j].row.renewed =>
              new.renewed = now /\ new.expires <= now + Grace
    PROVE  Aging(Put(j, new)) /\ Len(Put(j, new)) = Len(session)
<1>1. session \in Seq(IssuedRow) /\ session[j] \in IssuedRow
  BY SessionRow DEF SInv, Typed
<1> DEFINE t == [session[j] EXCEPT !.row = new]
           later == Put(j, new)
<1>2. /\ t \in IssuedRow /\ t.row = new /\ t.typed = session[j].typed
      /\ t.raced = session[j].raced /\ t.cuts = session[j].cuts
  BY <1>1, Rewritten
<1>3. later = [session EXCEPT ![j] = t]
  BY DEF Put
<1> HIDE DEF t, later
<1>4. /\ later \in Seq(IssuedRow) /\ Len(later) = Len(session)
      /\ \A k \in DOMAIN session : later[k] = IF k = j THEN t ELSE session[k]
  BY <1>1, <1>2, <1>3
<1>5. \A k \in DOMAIN session : session[k].row.expires \in Nat
  BY SessionRow, RowFields DEF SInv
<1>6. Len(session) <= Len(later)
  BY <1>1, <1>4
<1>7. Aging(later)
  BY <1>2, <1>4, <1>5, <1>6 DEF Aging
<1> QED
  BY <1>4, <1>7 DEF later

\* A row is appended.
LEMMA AppendAges ==
    ASSUME SInv, NEW t, Aging(t), Len(t) = Len(session), NEW s \in IssuedRow
    PROVE  /\ Aging(Append(t, s))
           /\ \A j \in DOMAIN Append(t, s) \ DOMAIN session : Append(t, s)[j] = s
<1> DEFINE later == Append(t, s)
<1>1. t \in Seq(IssuedRow) /\ session \in Seq(IssuedRow) /\ Len(session) \in Nat
  BY DEF Aging, SInv, Typed
<1>2. /\ later \in Seq(IssuedRow) /\ Len(later) = Len(t) + 1
      /\ later[Len(t) + 1] = s /\ \A j \in 1..Len(t) : later[j] = t[j]
  BY <1>1, AppendProperties
<1> HIDE DEF later
<1>3. \A j \in DOMAIN session : later[j] = t[j]
  BY <1>1, <1>2
<1>4. \A j \in DOMAIN later \ DOMAIN session : later[j] = s
  BY <1>1, <1>2
<1>5. Len(session) <= Len(later)
  BY <1>1, <1>2
<1>6. Aging(later)
  BY <1>2, <1>3, <1>5 DEF Aging
<1> QED
  BY <1>4, <1>6 DEF later

LEMMA RevokedRow ==
    ASSUME NEW old \in Row(Users)
    PROVE  LET new == Revoked(old) IN
           /\ new \in Row(Users) /\ new.user = old.user /\ new.chain = old.chain
           /\ new.issued = old.issued /\ new.revoked /\ new.expires = old.expires
           /\ new.renewed = old.renewed
BY DEF Revoked, Row

LEMMA SupersededRow ==
    ASSUME NEW old \in Row(Users), now \in Nat
    PROVE  LET new == Superseded(old, now) IN
           /\ new \in Row(Users) /\ new.user = old.user /\ new.chain = old.chain
           /\ new.issued = old.issued /\ new.revoked = old.revoked
           /\ new.expires <= old.expires /\ new.expires <= now + Grace
           /\ new.renewed = now
<1> DEFINE e == IF old.expires > now + Grace THEN now + Grace ELSE old.expires
<1>1. Superseded(old, now) = [old EXCEPT !.expires = e, !.renewed = now]
  BY DEF Superseded
<1>2. e \in Nat /\ e <= old.expires /\ e <= now + Grace
  BY PeriodsAssumption DEF Row
<1> HIDE DEF e
<1> QED
  BY <1>1, <1>2 DEF Row

\* A handler that commits and ends, and what the others have read.
LEMMA DoneSound ==
    ASSUME SInv, NEW p \in Requests, Done(p), Aged, now' = now,
           account' \in [Users -> Account],
           \A u \in Users : /\ account[u].cuts <= account'[u].cuts
                            /\ account[u].cuts = account'[u].cuts /\ account[u].active
                               => account'[u].active,
           \A q \in Requests \ {p} : request[q].stage \in {"revoking", "revoked"} =>
             \A j \in DOMAIN session' \ DOMAIN session :
                session'[j].row.user = request[q].target => session'[j].raced
    PROVE  Typed' /\ \A q \in Requests : Sound(request[q])'
<1>1. request' = [request EXCEPT ![p] = None]
  BY DEF Done
<1>2. Typed'
  BY <1>1, NoneIsSound DEF SInv, Typed, Aged, Aging
<1> SUFFICES ASSUME NEW q \in Requests PROVE Sound(request[q])'
  BY <1>2
<1>3. request'[q] = (IF q = p THEN None ELSE request[q]) /\ request[q] \in Request
  BY <1>1 DEF SInv, Typed
<1>4. Sound(request[q])
  BY DEF SInv
<1>5. CASE q = p
  BY <1>3, <1>5 DEF Sound, None
<1>6. CASE q # p
  <2>1. PICK r \in Request : r = request[q] /\ r = request'[q]
    BY <1>3, <1>6
  <2>2. Sound(r)
    BY <1>4, <2>1 DEF Sound
  <2>3. r.stage \in {"revoking", "revoked"} =>
             \A j \in DOMAIN session' \ DOMAIN session :
                session'[j].row.user = r.target => session'[j].raced
    BY <1>6, <2>1
  <2>4. Sound(r)'
    BY <1>2, <2>2, <2>3, StaysSound DEF SInv
  <2> QED
    BY <2>1, <2>4 DEF Sound
<1> QED
  BY <1>5, <1>6

LEMMA LogoutKeeps ==
    ASSUME SInv, NEW p \in Requests, Logout(p)
    PROVE  SInv' /\ Aged
<1> DEFINE j == request[p].jti
           old == session[j].row
           new == Revoked(old)
<1>1. request[p].stage = "called" /\ request[p].op = "logout"
  BY DEF Logout, Busy
<1>2. j \in DOMAIN session
  BY <1>1 DEF SInv, Sound
<1>3. old \in Row(Users) /\ session[j] \in IssuedRow /\ old.expires \in Nat
  BY <1>2, SessionRow, RowFields DEF SInv
<1>4. /\ new \in Row(Users) /\ new.user = old.user /\ new.chain = old.chain
      /\ new.issued = old.issued /\ new.revoked /\ new.expires = old.expires
      /\ new.renewed = old.renewed
  <2> HIDE DEF old
  <2> QED
    BY <1>3, RevokedRow
<1>5. session' = Put(j, new) /\ now' = now /\ account' = account
  BY DEF Logout, Put
<1>6. Aged /\ DOMAIN session' = DOMAIN session
  <2>1. old.expires <= old.expires
    BY <1>3
  <2>2. Aging(Put(j, new)) /\ Len(Put(j, new)) = Len(session)
    <3> HIDE DEF j, new
    <3> QED
      BY <1>2, <1>4, <2>1, PutAges DEF old
  <2>3. /\ session' \in Seq(IssuedRow) /\ session \in Seq(IssuedRow)
        /\ Len(session') = Len(session)
    BY <1>5, <2>2 DEF Aging, SInv, Typed
  <2> QED
    BY <1>5, <2>2, <2>3 DEF Aged
<1>7. request' = [request EXCEPT ![p] = None]
  BY DEF Logout, Done
<1>8. Typed' /\ \A q \in Requests : Sound(request[q])'
  <2>1. Done(p) /\ account' \in [Users -> Account]
        /\ \A u \in Users : account[u].cuts \in Nat
    BY <1>5 DEF Logout, SInv, Typed, Account
  <2> QED
    BY <1>5, <1>6, <2>1, DoneSound
<1> QED
  BY <1>5, <1>6, <1>8, RowsStay DEF SInv

\* The row of a sign-in or of a renewal.
LEMMA IssueKeeps ==
    ASSUME SInv, NEW p \in Requests, Issue(p)
    PROVE  SInv' /\ Aged
<1> DEFINE r == request[p]
<1>1. /\ r.stage = "issue" /\ Sound(r) /\ r \in Request /\ now \in Nat
      /\ Done(p) /\ now' = now /\ account' = account
  BY DEF Issue, SInv, Typed
<1>2. r.op \in {"login", "refresh"} /\ r.target \in Users /\ r.cuts \in Nat
  BY <1>1 DEF Sound, Request
<1> PICK u \in Users : u = r.target
  BY <1>2
<1> PICK raced \in BOOLEAN : raced = (r.cuts # account[u].cuts \/ InFlight(p, u))
  OBVIOUS
<1> PICK cuts \in Nat : cuts = r.cuts
  BY <1>2
<1>3. \E chain \in Nat : \E t :
         /\ Aging(t) /\ Len(t) = Len(session) /\ now < chain + Cap
         /\ session' = Append(t, Noted(u, chain, now, raced, cuts))
  <2>1. CASE r.op = "login"
    <3>1. session' = Append(session, Issued(p, NewRow(r.target, now, now), now))
      BY <2>1 DEF Issue
    <3>2. NewRow(u, now, now).user = u
      BY DEF NewRow
    <3>3. Issued(p, NewRow(u, now, now), now) = Noted(u, now, now, raced, cuts)
      BY <3>2 DEF Issued, Noted
    <3>4. Aging(session)
      <4>1. session \in Seq(IssuedRow)
        BY DEF SInv, Typed
      <4>2. \A j \in DOMAIN session : session[j].row.expires \in Nat
        BY SessionRow, RowFields DEF SInv
      <4> QED
        BY <4>1, <4>2 DEF Aging
    <3>5. now < now + Cap
      BY <1>1, PeriodsAssumption
    <3> QED
      BY <1>1, <3>1, <3>3, <3>4, <3>5
  <2>2. CASE r.op = "refresh"
    <3> PICK j \in DOMAIN session : j = r.jti
      BY <1>1, <2>2 DEF Sound
    <3> PICK old \in Row(Users) : old = session[j].row
      BY SessionRow, RowFields DEF SInv
    <3> PICK chain \in Nat : chain = old.chain
      BY DEF Row
    <3>1. /\ old.user = u /\ session[j].typed = chain /\ now < chain + Cap
      BY <1>1, <2>2 DEF Sound, SInv, Timely
    <3> PICK new \in Row(Users) : new = Superseded(old, now)
      BY <1>1, SupersededRow
    <3>2. /\ new.user = old.user /\ new.chain = old.chain /\ new.issued = old.issued
          /\ new.revoked = old.revoked /\ new.expires <= old.expires
          /\ new.expires <= now + Grace /\ new.renewed = now
      BY <1>1, SupersededRow
    <3>3. session' = Append(Put(j, new), Issued(p, Successor(old, now), chain))
      BY <2>2, <3>1 DEF Issue, Put
    <3>4. Successor(old, now) = NewRow(u, chain, now) /\ NewRow(u, chain, now).user = u
      BY <3>1 DEF Successor, NewRow
    <3>5. Issued(p, Successor(old, now), chain) = Noted(u, chain, now, raced, cuts)
      BY <3>4 DEF Issued, Noted
    <3>6. Aging(Put(j, new)) /\ Len(Put(j, new)) = Len(session)
      BY <3>2, PutAges
    <3> QED
      BY <3>1, <3>3, <3>5, <3>6
  <2> QED
    BY <1>2, <2>1, <2>2
<1> PICK chain \in Nat : \E t :
         /\ Aging(t) /\ Len(t) = Len(session) /\ now < chain + Cap
         /\ session' = Append(t, Noted(u, chain, now, raced, cuts))
  BY <1>3
<1> PICK t :
         /\ Aging(t) /\ Len(t) = Len(session) /\ now < chain + Cap
         /\ session' = Append(t, Noted(u, chain, now, raced, cuts))
  OBVIOUS
<1> DEFINE s == Noted(u, chain, now, raced, cuts)
<1>4. /\ s \in IssuedRow /\ Timely(s) /\ s.row.user = u /\ s.raced = raced /\ s.cuts = cuts
  <2>1. now \in Nat /\ now < chain + Cap
    BY <1>1
  <2>2. \A b \in BOOLEAN : LET v == Noted(u, chain, now, b, cuts) IN
           v \in IssuedRow /\ Timely(v) /\ v.row.user = u /\ v.raced = b /\ v.cuts = cuts
    BY ONLY <2>1, FreshRow, u \in Users, chain \in Nat, cuts \in Nat
  <2> QED
    BY <2>2
<1> HIDE DEF s
<1>5. Aged /\ \A j \in DOMAIN session' \ DOMAIN session : session'[j] = s
  BY <1>4, AppendAges DEF Aged, s
<1>6. Typed' /\ \A q \in Requests : Sound(request[q])'
  <2>1. account' \in [Users -> Account] /\ \A w \in Users : account[w].cuts \in Nat
    BY <1>1 DEF SInv, Typed, Account
  <2>2. ASSUME NEW q \in Requests \ {p}, request[q].stage \in {"revoking", "revoked"},
               request[q].target = u
        PROVE  s.raced
    BY <1>4, <2>2 DEF InFlight
  <2> QED
    BY <1>1, <1>4, <1>5, <2>1, <2>2, DoneSound
<1>7. s.cuts # account'[u].cuts \/ ~account'[u].active => s.raced
  BY <1>1, <1>2, <1>4 DEF Sound
<1> QED
  BY <1>1, <1>4, <1>5, <1>6, <1>7, RowsStay DEF SInv

\* The rows in a revocation's hands are revoked, the others stay.
LEMMA RevokedAllAges ==
    ASSUME SInv, NEW p \in Requests
    PROVE  /\ Aging(RevokedAll(p)) /\ Len(RevokedAll(p)) = Len(session)
           /\ \A j \in DOMAIN session :
                j \in request[p].rows => RevokedAll(p)[j].row.revoked
<1> DEFINE t == RevokedAll(p)
<1>1. session \in Seq(IssuedRow) /\ DOMAIN session = 1..Len(session) /\ Len(session) \in Nat
  BY DEF SInv, Typed
<1>2. DOMAIN t = DOMAIN session
  BY DEF RevokedAll
<1>3. ASSUME NEW j \in DOMAIN session
      PROVE  LET s == session[j] IN
             /\ t[j] \in IssuedRow
             /\ t[j].row.user = s.row.user /\ t[j].row.chain = s.row.chain
             /\ t[j].row.issued = s.row.issued
             /\ t[j].typed = s.typed /\ t[j].raced = s.raced /\ t[j].cuts = s.cuts
             /\ s.row.revoked => t[j].row.revoked
             /\ t[j].row.expires = s.row.expires /\ s.row.expires \in Nat
             /\ t[j].row.renewed = s.row.renewed
             /\ j \in request[p].rows => t[j].row.revoked
  <2> DEFINE s == session[j]
  <2>1. s \in IssuedRow /\ s.row \in Row(Users) /\ s.row.expires \in Nat
    BY SessionRow, RowFields DEF SInv
  <2>2. CASE j \in request[p].rows
    <3>1. t[j] = [s EXCEPT !.row = Revoked(s.row)]
      BY <2>2 DEF RevokedAll
    <3> PICK new \in Row(Users) : new = Revoked(s.row)
      BY <2>1, RevokedRow
    <3>2. /\ new.user = s.row.user /\ new.chain = s.row.chain /\ new.issued = s.row.issued
          /\ new.revoked /\ new.expires = s.row.expires /\ new.renewed = s.row.renewed
      BY <2>1, RevokedRow
    <3>3. t[j] = [s EXCEPT !.row = new]
      BY <3>1
    <3> HIDE DEF s, t
    <3>4. /\ t[j] \in IssuedRow /\ t[j].row = new
          /\ t[j].typed = s.typed /\ t[j].raced = s.raced /\ t[j].cuts = s.cuts
      BY <2>1, <3>3, Rewritten
    <3> QED
      BY <2>1, <3>2, <3>4 DEF s
  <2>3. CASE j \notin request[p].rows
    <3>1. t[j] = s
      BY <2>3 DEF RevokedAll
    <3> QED
      BY <2>1, <2>3, <3>1
  <2> QED
    BY <2>2, <2>3
<1>4. t = [j \in 1..Len(session) |-> t[j]]
  BY <1>1, <1>2 DEF RevokedAll
<1> HIDE DEF t
<1>5. t \in Seq(IssuedRow) /\ Len(t) = Len(session)
  BY <1>1, <1>3, <1>4
<1>6. Len(session) <= Len(t)
  BY <1>1, <1>5
<1>7. Aging(t)
  BY <1>3, <1>5, <1>6 DEF Aging
<1> QED
  BY <1>3, <1>5, <1>7 DEF t

\* The commit of a change of password, a reset or a deactivation.
LEMMA RevokeCommitsKeeps ==
    ASSUME SInv, NEW p \in Requests, RevokeCommits(p)
    PROVE  SInv' /\ Aged
<1> DEFINE r == request[p]
<1>1. /\ r.stage = "revoked" /\ Sound(r) /\ r \in Request /\ now \in Nat
      /\ Done(p) /\ now' = now /\ account \in [Users -> Account]
  BY DEF RevokeCommits, SInv, Typed
<1>2. r.target \in Users /\ r.cuts \in Nat
  BY <1>1 DEF Sound, Request
<1> PICK u \in Users : u = r.target
  BY <1>2
<1>3. /\ account[u].cuts \in Nat /\ account[u].active \in BOOLEAN
      /\ \A w \in Users : account[w].cuts \in Nat
  BY <1>1 DEF Account
<1>4. /\ account' \in [Users -> Account]
      /\ account'[u].cuts = account[u].cuts + 1
      /\ r.op = "change" => account'[u].active = account[u].active
      /\ \A w \in Users : w # u => account'[w] = account[w]
  <2>1. account' = [account EXCEPT ![u].cuts = @ + 1,
                                   ![u].active = @ /\ r.op # "deactivate"]
    BY DEF RevokeCommits
  <2>2. account'[u] = [active |-> account[u].active /\ r.op # "deactivate",
                       cuts |-> account[u].cuts + 1]
    BY <1>1, <2>1 DEF Account
  <2> QED
    BY <1>1, <1>3, <2>1, <2>2 DEF Account
<1>5. \A w \in Users : /\ account[w].cuts <= account'[w].cuts
                       /\ account[w].cuts = account'[w].cuts /\ account[w].active
                          => account'[w].active
  BY <1>3, <1>4
<1>6. /\ Aging(RevokedAll(p)) /\ Len(RevokedAll(p)) = Len(session)
      /\ \A j \in DOMAIN session : j \in r.rows => RevokedAll(p)[j].row.revoked
  BY RevokedAllAges
<1>7. \A j \in DOMAIN session :
         session[j].row.user = u /\ ~session[j].row.revoked => session[j].raced \/ j \in r.rows
  BY <1>1 DEF Sound
<1>8. /\ Aged
      /\ \A j \in DOMAIN session : session'[j] = RevokedAll(p)[j]
      /\ \A j \in DOMAIN session' \ DOMAIN session :
           LET s == session'[j] IN
           /\ Timely(s) /\ s.row.user = u /\ s.cuts = account'[u].cuts
           /\ ~account'[u].active => s.raced
           /\ \A q \in Requests \ {p} :
                request[q].stage \in {"revoking", "revoked"} /\ request[q].target = u => s.raced
  <2>1. CASE r.op # "change"
    <3>1. session' = RevokedAll(p)
      BY <2>1 DEF RevokeCommits
    <3>2. DOMAIN session' = DOMAIN session
      BY <1>6, <3>1 DEF Aging, SInv, Typed
    <3> QED
      BY <1>6, <3>1, <3>2 DEF Aged
  <2>2. CASE r.op = "change"
    <3>1. session' = Append(RevokedAll(p), [Issued(p, NewRow(r.target, now, now), now)
                                              EXCEPT !.cuts = account[r.target].cuts + 1])
      BY <2>2 DEF RevokeCommits
    <3>2. NewRow(u, now, now).user = u
      BY DEF NewRow
    <3>3. PICK raced \in BOOLEAN : raced = (r.cuts # account[u].cuts \/ InFlight(p, u))
      OBVIOUS
    <3> PICK cuts \in Nat : cuts = account[u].cuts + 1
      BY <1>3
    <3>4. Issued(p, NewRow(u, now, now), now) = Noted(u, now, now, raced, r.cuts)
      BY <3>2, <3>3 DEF Issued, Noted
    <3>5. [Noted(u, now, now, raced, r.cuts) EXCEPT !.cuts = cuts] = Noted(u, now, now, raced, cuts)
      BY DEF Noted
    <3> DEFINE s == Noted(u, now, now, raced, cuts)
    <3>6. session' = Append(RevokedAll(p), s)
      BY <3>1, <3>4, <3>5
    <3>7. /\ s \in IssuedRow /\ Timely(s) /\ s.row.user = u /\ s.raced = raced /\ s.cuts = cuts
      <4>1. now < now + Cap /\ now \in Nat
        BY <1>1, PeriodsAssumption
      <4>2. \A b \in BOOLEAN : LET v == Noted(u, now, now, b, cuts) IN
              v \in IssuedRow /\ Timely(v) /\ v.row.user = u /\ v.raced = b /\ v.cuts = cuts
        BY ONLY <4>1, FreshRow, u \in Users, cuts \in Nat
      <4> QED
        BY <4>2
    <3> HIDE DEF s
    <3>8. Aged /\ \A j \in DOMAIN session' \ DOMAIN session : session'[j] = s
      BY <1>6, <3>6, <3>7, AppendAges DEF Aged
    <3>9. \A j \in DOMAIN session : session'[j] = RevokedAll(p)[j]
      <4>1. RevokedAll(p) \in Seq(IssuedRow) /\ session \in Seq(IssuedRow)
        BY <1>6 DEF Aging, SInv, Typed
      <4> QED
        BY <1>6, <3>6, <3>7, <4>1, AppendProperties
    <3>10. ~account'[u].active => s.raced
      BY <1>1, <1>4, <2>2, <3>3, <3>7 DEF Sound
    <3>11. \A q \in Requests \ {p} :
             request[q].stage \in {"revoking", "revoked"} /\ request[q].target = u => s.raced
      BY <3>3, <3>7 DEF InFlight
    <3> QED
      BY <1>4, <3>7, <3>8, <3>9, <3>10, <3>11
  <2> QED
    BY <2>1, <2>2
<1>9. Typed' /\ \A q \in Requests : Sound(request[q])'
  BY <1>1, <1>4, <1>5, <1>8, DoneSound
<1>10. \A j \in DOMAIN session : LET w == session[j].row.user IN
         \/ session'[j].row.revoked \/ session[j].raced
         \/ /\ account'[w].cuts = account[w].cuts
            /\ account[w].active => account'[w].active
  <2> SUFFICES ASSUME NEW j \in DOMAIN session
               PROVE  LET w == session[j].row.user IN
                      \/ session'[j].row.revoked \/ session[j].raced
                      \/ /\ account'[w].cuts = account[w].cuts
                         /\ account[w].active => account'[w].active
    OBVIOUS
  <2>1. session[j].row.user \in Users
    BY SessionRow, RowFields DEF SInv
  <2>2. CASE session[j].row.user # u
    BY <1>4, <2>1, <2>2
  <2>3. CASE session[j].row.user = u
    BY <1>6, <1>7, <1>8, <2>3 DEF Aged, Aging
  <2> QED
    BY <2>2, <2>3
<1> QED
  BY <1>1, <1>8, <1>9, <1>10, RowsStay DEF SInv

\* Reactivation, and the clock.
LEMMA ReactivateKeeps ==
    ASSUME SInv, NEW p \in Requests, Reactivate(p)
    PROVE  SInv' /\ Aged
<1> DEFINE u == request[p].target
<1>1. /\ request[p].stage = "called" /\ Sound(request[p]) /\ Done(p)
      /\ now' = now /\ session' = session /\ session \in Seq(IssuedRow)
      /\ account \in [Users -> Account] /\ account' = [account EXCEPT ![u].active = TRUE]
  BY DEF Reactivate, Busy, SInv, Typed
<1>2. u \in Users
  BY <1>1 DEF Sound
<1> HIDE DEF u
<1>3. /\ account' \in [Users -> Account]
      /\ \A w \in Users : /\ account'[w].cuts = account[w].cuts /\ account[w].cuts \in Nat
                          /\ account[w].active => account'[w].active
  BY <1>1, <1>2 DEF Account
<1>4. Aged
  <2>1. \A j \in DOMAIN session : session[j].row.expires \in Nat
    BY SessionRow, RowFields DEF SInv
  <2> QED
    BY <1>1, <2>1 DEF Aged, Aging
<1>5. Typed' /\ \A q \in Requests : Sound(request[q])'
  <2>1. \A w \in Users : /\ account[w].cuts <= account'[w].cuts
                         /\ account[w].cuts = account'[w].cuts /\ account[w].active
                            => account'[w].active
    BY <1>3
  <2>2. \A q \in Requests \ {p} : request[q].stage \in {"revoking", "revoked"} =>
          \A j \in DOMAIN session' \ DOMAIN session :
            session'[j].row.user = request[q].target => session'[j].raced
    BY <1>1
  <2>3. Done(p) /\ now' = now
    BY <1>1
  <2>4. account' \in [Users -> Account]
    BY <1>3
  <2> QED
    BY <1>4, <2>1, <2>2, <2>3, <2>4, DoneSound
<1>6. \A j \in DOMAIN session : session[j].row.user \in Users
  BY SessionRow, RowFields DEF SInv
<1> QED
  BY <1>1, <1>3, <1>4, <1>5, <1>6, RowsStay DEF SInv

LEMMA TickKeeps ==
    ASSUME SInv, Tick
    PROVE  SInv' /\ Aged
<1>1. /\ UNCHANGED <<account, session, request>> /\ now' \in Nat
      /\ \A p \in Requests : request[p].stage # "issue"
  BY DEF Tick, SInv, Typed
<1>2. Typed'
  BY <1>1 DEF SInv, Typed
<1>3. \A p \in Requests : Sound(request[p])'
  BY <1>1 DEF SInv, Sound
<1>4. ClosedIsRevoked' /\ RevokeAllIsComplete' /\ \A j \in DOMAIN session' : Timely(session[j])'
  BY <1>1 DEF SInv, ClosedIsRevoked, RevokeAllIsComplete, Timely
<1>5. Aged
  <2>1. \A j \in DOMAIN session : session[j].row.expires \in Nat
    BY SessionRow, RowFields DEF SInv
  <2> QED
    BY <1>1, <2>1 DEF Aged, Aging, SInv, Typed
<1> QED
  BY <1>2, <1>3, <1>4, <1>5 DEF SInv

LEMMA StepSInv ==
    ASSUME SInv, [Next]_vars
    PROVE  SInv' /\ Aged
<1>1. CASE Tick
  BY <1>1, TickKeeps
<1>2. ASSUME NEW p \in Requests, Handler(p) PROVE SInv' /\ Aged
  BY <1>2, BeginKeeps, MiddleKeeps, SnapshotKeeps, IssueKeeps, LogoutKeeps,
     RevokeCommitsKeeps, ReactivateKeeps DEF Handler
<1>3. CASE UNCHANGED vars
  <2>1. \A j \in DOMAIN session : session[j].row.expires \in Nat
    BY SessionRow, RowFields DEF SInv
  <2>2. Aged
    BY <1>3, <2>1 DEF vars, Aged, Aging, SInv, Typed
  <2>3. SInv'
    BY <1>3 DEF vars, SInv, Typed, Sound, Timely, ClosedIsRevoked, RevokeAllIsComplete
  <2> QED
    BY <2>2, <2>3
<1> QED
  BY <1>1, <1>2, <1>3 DEF Next

-----------------------------------------------------------------------------
LEMMA ClockRuns ==
    ASSUME Typed, [Next]_vars
    PROVE  now' \in Nat /\ now <= now'
<1>1. now \in Nat
  BY DEF Typed
<1>2. CASE Tick
  BY <1>1, <1>2 DEF Tick
<1>3. ASSUME NEW p \in Requests, Handler(p) PROVE now' = now
  BY <1>3 DEF Handler, Login, Call, RenewReads, Issue, Logout, PasswordReads, Deactivate,
     Flush, RevokeSelects, RevokeLocks, RevokeCommits, Reactivate, Refuse, DeadlockAborts
<1>4. CASE UNCHANGED vars
  BY <1>1, <1>4 DEF vars
<1> QED
  BY <1>1, <1>2, <1>3, <1>4 DEF Next

LEMMA InvariantHolds == Spec => []SInv
<1>1. SInv /\ [Next]_vars => SInv'
  BY StepSInv
<1> QED
  BY <1>1, InitSInv, PTL DEF Spec

\* Every row, account and request is well formed, and no row outlives the
\* token it stands for (security.py, issue_token and renew_session).
THEOREM TypeCorrect == Spec => []TypeOK
<1>1. SInv => TypeOK
  BY DEF SInv, Typed, Timely, TypeOK, Exp
<1> QED
  BY <1>1, InvariantHolds, PTL

\* revoke_all_for_user is complete: what was issued from credentials older
\* than a committed revocation is revoked, unless it was being issued while
\* that ran, for any number of accounts, handlers and sessions.
THEOREM RevokeIsComplete == Spec => []RevokeAllIsComplete
<1>1. SInv => RevokeAllIsComplete
  BY DEF SInv
<1> QED
  BY <1>1, InvariantHolds, PTL

\* What a step does to a superseded row.
LEMMA StepSuperseded ==
    ASSUME SInv, Aged, NEW j \in DOMAIN session,
           session'[j].row.renewed # session[j].row.renewed
    PROVE  /\ session'[j].row.expires <= now + Grace
           /\ session[j].row.renewed # 0 =>
                session'[j].row.expires <= session[j].row.renewed + Grace
<1>1. /\ session'[j].row.expires <= now + Grace
      /\ session'[j].row.expires <= session[j].row.expires
      /\ session' \in Seq(IssuedRow) /\ j \in DOMAIN session'
  BY DEF Aged, Aging, SInv, Typed
<1>2. session'[j].row.expires \in Nat
  BY <1>1, RowFields
<1>3. session[j].row.expires \in Nat /\ session[j].row.renewed \in Nat
  BY SessionRow, RowFields DEF SInv
<1>4. session[j].row.renewed # 0 => session[j].row.expires <= session[j].row.renewed + Grace
  BY DEF SInv, Timely
<1> QED
  BY <1>1, <1>2, <1>3, <1>4, PeriodsAssumption

\* A refused token is revoked, or past its end, and stays so.
LEMMA StepRefused ==
    ASSUME SInv, Aged, now' \in Nat, now <= now', NEW j \in DOMAIN session,
           ~Accepted(j), ~session[j].raced
    PROVE  ~Accepted(j)'
<1>1. /\ session'[j].row.expires <= session[j].row.expires
      /\ session[j].row.revoked => session'[j].row.revoked
      /\ session' \in Seq(IssuedRow) /\ j \in DOMAIN session'
  BY DEF Aged, Aging, SInv, Typed
<1>2. session'[j].row.expires \in Nat
  BY <1>1, RowFields
<1>3. session[j].row.expires \in Nat /\ now \in Nat
  BY SessionRow, RowFields DEF SInv, Typed
<1>4. session[j].row.revoked \/ session[j].row.expires <= now
  BY <1>3 DEF Accepted, IsLive, SInv, ClosedIsRevoked
<1>5. session'[j].row.revoked \/ session'[j].row.expires <= now'
  BY <1>1, <1>2, <1>3, <1>4
<1> QED
  BY <1>2, <1>5 DEF Accepted, IsLive

\* Every token dies, and for good: MAX_SESSION_HOURS caps any chain of
\* renewals, renewing a superseded token does not prolong it, and no renewal
\* and no reactivation brings a refused token back (security.py, deps.py).
THEOREM TokensAllDie == Spec => TokensDie
<1>1. SInv => ChainsAreCapped
  BY DEF SInv, Timely, ChainsAreCapped
<1>2. SInv /\ [Next]_vars =>
        [\A j \in DOMAIN session : LET old == session[j].row  new == session'[j].row IN
           new.renewed # old.renewed =>
             /\ new.expires <= now + Grace
             /\ old.renewed # 0 => new.expires <= old.renewed + Grace]_vars
  BY StepSInv, StepSuperseded
<1>3. SInv /\ [Next]_vars =>
        [\A j \in DOMAIN session :
           ~Accepted(j) /\ ~session[j].raced => ~Accepted(j)']_vars
  BY StepSInv, ClockRuns, StepRefused DEF SInv
<1>4. Spec => []ChainsAreCapped
  BY <1>1, InvariantHolds, PTL
<1>5. Spec => SupersededDies
  BY <1>2, InvariantHolds, PTL DEF Spec, SupersededDies
<1>6. Spec => RefusedStaysRefused
  BY <1>3, InvariantHolds, PTL DEF Spec, RefusedStaysRefused
<1> QED
  BY <1>4, <1>5, <1>6, PTL DEF TokensDie

\* Two handlers wait for each other only when a deactivation, which takes the
\* sessions before the account, meets a change or a reset of that account's
\* password (users.py and auth.py); no other pair of handlers can.
THEOREM DeadlocksAreKnown == Spec => []DeadlocksNeedDeactivation
<1>1. SInv => DeadlocksNeedDeactivation
  <2> SUFFICES ASSUME SInv, NEW p \in Requests, NEW q \in Requests,
                      WaitsFor(p, q), WaitsFor(q, p)
               PROVE  /\ "deactivate" \in {request[p].op, request[q].op}
                      /\ request[p].target = request[q].target
    BY DEF DeadlocksNeedDeactivation, Deadlocked
  <2> QED
    BY DEF WaitsFor, HoldsUser, HoldsRow, Busy, AccountFirst, AccountLast, Revoking
<1> QED
  BY <1>1, InvariantHolds, PTL

=============================================================================
