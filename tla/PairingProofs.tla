--------------------------- MODULE PairingProofs ---------------------------
(***************************************************************************)
(* For any number of presses, scans and mishaps, and any credentials: the  *)
(* state is well typed and at most one call or socket has the current      *)
(* generation; a connected gateway has a session on disk; the owner's      *)
(* presses bound the sessions wiped.                                       *)
(***************************************************************************)
EXTENDS Pairing, FiniteSetTheorems, TLAPS

Sessions == Creds \cup {NoCreds}

\* TypeOK in two parts: what depends on calls and sockets, and the rest.
SocketTypes ==
    /\ loading \subseteq Call
    /\ sockets \subseteq Socket
    /\ OneNewest(loading) /\ OneNewest(sockets)
    /\ \A call \in loading, s \in sockets : ~(call.mine /\ s.mine)

GatewayTypes ==
    /\ up \in BOOLEAN /\ retry \in BOOLEAN /\ repairing \in BOOLEAN /\ cooling \in BOOLEAN
    /\ connected \in BOOLEAN /\ stalled \in BOOLEAN /\ timer \in BOOLEAN

RequestTypes ==
    /\ claimed \subseteq Request
    /\ pressed \subseteq Request /\ \A q, r \in pressed : q = r

AccountTypes ==
    /\ disk \in Sessions
    /\ linked \subseteq Creds /\ issued \subseteq Creds

CountTypes ==
    /\ wipes \in Nat
    /\ budget \in [Kinds -> Nat]

LEMMA TypeParts ==
    TypeOK <=> /\ SocketTypes /\ GatewayTypes /\ RequestTypes
               /\ AccountTypes /\ CountTypes
BY DEF TypeOK, SocketTypes, GatewayTypes, RequestTypes, AccountTypes, CountTypes, Sessions

----------------------------------------------------------------------------
\* What connect makes of the calls and sockets there are: all of them are
\* superseded, and the new call is the newest.
LEMMA ConnectTypes ==
    ASSUME SocketTypes, NEW caller \in {"main", "pair", "nobody"},
           NEW session \in Sessions, NEW ended, Connect(caller, session, ended)
    PROVE  SocketTypes' /\ timer' \in BOOLEAN
<1>1. \A x \in Superseded(loading) : x \in Call /\ ~x.mine
  BY DEF SocketTypes, Superseded, Call
<1>2. \A x \in sockets' : x \in Socket /\ ~x.mine
  BY DEF SocketTypes, Superseded, Socket, Connect
<1>3. [mine |-> TRUE, caller |-> caller, creds |-> session] \in Call
  BY DEF Call, Sessions
<1>4. loading' = Superseded(loading) \cup
                   {[mine |-> TRUE, caller |-> caller, creds |-> session]}
  BY DEF Connect
<1>5. loading' \subseteq Call /\ OneNewest(loading')
  BY <1>1, <1>3, <1>4 DEF OneNewest
<1>6. sockets' \subseteq Socket /\ OneNewest(sockets')
  BY <1>2 DEF OneNewest
<1>7. \A call \in loading', s \in sockets' : ~(call.mine /\ s.mine)
  BY <1>2
<1> QED
  BY <1>5, <1>6, <1>7 DEF SocketTypes, Connect

\* Fewer calls and sockets are still well typed.
LEMMA FewerTypes ==
    ASSUME SocketTypes, loading' \subseteq loading, sockets' \subseteq sockets
    PROVE  SocketTypes'
BY DEF SocketTypes, OneNewest

\* A socket that moves on keeps its number.
LEMMA MovedTypes ==
    ASSUME SocketTypes, NEW s \in sockets, NEW t \in Socket, t.mine = s.mine,
           sockets' = (sockets \ {s}) \cup {t}, loading' = loading
    PROVE  SocketTypes'
<1>1. sockets' \subseteq Socket
  BY DEF SocketTypes
<1>2. OneNewest(sockets')
  BY DEF SocketTypes, OneNewest
<1>3. \A call \in loading', x \in sockets' : ~(call.mine /\ x.mine)
  BY DEF SocketTypes
<1> QED
  BY <1>1, <1>2, <1>3 DEF SocketTypes

\* A socket the variable refers to no more keeps the rest of what it is.
LEMMA LetGoParts ==
    ASSUME SocketTypes, NEW S \in SUBSET sockets
    PROVE  /\ LetGo(S) \subseteq Socket /\ OneNewest(LetGo(S))
           /\ \A x \in LetGo(S) : \E s \in S : /\ x.mine = s.mine /\ x.creds = s.creds
                                               /\ x.stage = s.stage
<1>1. \A x \in LetGo(S) : \E s \in S : /\ x = [s EXCEPT !.held = FALSE] /\ x.mine = s.mine
                                       /\ x.creds = s.creds /\ x.stage = s.stage
  BY DEF LetGo, SocketTypes, Socket
<1>2. LetGo(S) \subseteq Socket
  BY DEF LetGo, SocketTypes, Socket
<1>3. \A x, y \in LetGo(S) : x.mine /\ y.mine => x = y
  <2> SUFFICES ASSUME NEW x \in LetGo(S), NEW y \in LetGo(S), x.mine, y.mine
               PROVE  x = y
    OBVIOUS
  <2>1. PICK s \in S : x = [s EXCEPT !.held = FALSE] /\ s.mine
    BY <1>1
  <2>2. PICK t \in S : y = [t EXCEPT !.held = FALSE] /\ t.mine
    BY <1>1
  <2>3. s = t
    BY <2>1, <2>2 DEF SocketTypes, OneNewest
  <2> QED
    BY <2>1, <2>2, <2>3
<1> QED
  BY <1>1, <1>2, <1>3 DEF OneNewest

\* Fewer sockets, and the variable refers to none.
LEMMA LetGoTypes ==
    ASSUME SocketTypes, NEW S \in SUBSET sockets, sockets' = LetGo(S), loading' = loading
    PROVE  SocketTypes'
<1>1. \A call \in loading, x \in LetGo(S) : ~(call.mine /\ x.mine)
  BY LetGoParts DEF SocketTypes
<1>2. OneNewest(loading') /\ OneNewest(sockets')
  BY LetGoParts DEF SocketTypes
<1> QED
  BY <1>1, <1>2, LetGoParts DEF SocketTypes

\* The socket that connect makes has the number of the call.
LEMMA MadeTypes ==
    ASSUME SocketTypes, NEW call \in loading, NEW session \in Sessions,
           sockets' = LetGo(sockets) \cup
                        {[mine |-> call.mine, held |-> TRUE,
                          creds |-> session, stage |-> "starting"]},
           loading' = loading \ {call}
    PROVE  SocketTypes'
<1> DEFINE made == [mine |-> call.mine, held |-> TRUE,
                    creds |-> session, stage |-> "starting"]
           old == LetGo(sockets)
<1>1. made \in Socket /\ made.mine = call.mine
  BY DEF SocketTypes, Call, Socket, Stages, Sessions
<1>2. \A x \in old : \E s \in sockets : x.mine = s.mine
  BY LetGoParts
<1>3. old \subseteq Socket /\ \A x, y \in old : x.mine /\ y.mine => x = y
  BY LetGoParts DEF OneNewest
<1>4. \A x \in old : ~(x.mine /\ call.mine)
  BY <1>2 DEF SocketTypes
<1>5. sockets' = old \cup {made}
  OBVIOUS
<1> HIDE DEF made, old
<1>6. sockets' \subseteq Socket /\ OneNewest(sockets')
  BY <1>1, <1>3, <1>4, <1>5 DEF OneNewest
<1>7. \A c \in loading', x \in sockets' : ~(c.mine /\ x.mine)
  <2> SUFFICES ASSUME NEW c \in loading', NEW x \in sockets'
               PROVE  ~(c.mine /\ x.mine)
    OBVIOUS
  <2>1. CASE x \in old
    BY <1>2, <2>1 DEF SocketTypes
  <2>2. CASE x = made
    BY <1>1, <2>2 DEF SocketTypes, OneNewest
  <2> QED
    BY <1>5, <2>1, <2>2
<1>8. loading' \subseteq Call /\ OneNewest(loading')
  BY DEF SocketTypes, OneNewest
<1> QED
  BY <1>6, <1>7, <1>8 DEF SocketTypes

----------------------------------------------------------------------------
LEMMA SpendTypes ==
    ASSUME CountTypes, NEW kind \in Kinds, Spend(kind)
    PROVE  budget' \in [Kinds -> Nat]
BY DEF CountTypes, Spend

\* The state is well typed, and the current generation belongs to one call of
\* connect or one socket at most.
THEOREM TypeCorrect == Spec => []TypeOK
<1>1. Init => TypeOK
  <2> SUFFICES ASSUME Init PROVE TypeOK
    OBVIOUS
  <2>1. SocketTypes
    BY FirstAssumption DEF Init, SocketTypes, Call, OneNewest
  <2>2. GatewayTypes /\ RequestTypes
    BY DEF Init, GatewayTypes, RequestTypes
  <2>3. AccountTypes
    BY FirstAssumption DEF Init, AccountTypes, Sessions
  <2>4. CountTypes
    BY BudgetAssumption DEF Init, CountTypes
  <2> QED
    BY <2>1, <2>2, <2>3, <2>4, TypeParts
<1>2. TypeOK /\ [Next]_vars => TypeOK'
  <2> SUFFICES ASSUME TypeOK, [Next]_vars PROVE TypeOK'
    OBVIOUS
  <2>1. SocketTypes /\ GatewayTypes /\ RequestTypes /\ AccountTypes /\ CountTypes
    BY TypeParts
  <2>2. SocketTypes'
    <3>1. CASE SocketMade
      BY <2>1, <3>1, MadeTypes DEF SocketMade, AccountTypes, SocketTypes, Call, Sessions
    <3>2. CASE ConnectThrows \/ Drops \/ Crash
      BY <2>1, <3>2, FewerTypes DEF ConnectThrows, Drops, Crash
    <3>3. CASE MainRetries \/ TimerFires \/ Watchdog \/ Start
      BY <2>1, <3>3, ConnectTypes DEF MainRetries, TimerFires, Watchdog, Start, AccountTypes
    <3>4. CASE ShowsCode
      <4>1. PICK s \in sockets : sockets' = Moved(s, "qr")
        BY <3>4 DEF ShowsCode
      <4> QED
        BY <2>1, <3>4, <4>1, MovedTypes DEF ShowsCode, Moved, SocketTypes, Socket, Stages
    <3>5. CASE \E s \in sockets : Opens(s)
      <4>1. PICK s \in sockets : Opens(s)
        BY <3>5
      <4> QED
        BY <2>1, <4>1, MovedTypes DEF Opens, Moved, SocketTypes, Socket, Stages
    <3>6. CASE RestartRequired
      <4>1. PICK s \in sockets :
              IF Heard(s) THEN Connect("nobody", disk, {s})
                          ELSE sockets' = sockets \ {s} /\ UNCHANGED loading
        BY <3>6 DEF RestartRequired
      <4> QED
        BY <2>1, <4>1, ConnectTypes, FewerTypes DEF AccountTypes
    <3>7. CASE \E r \in claimed : StartsFreshPairing(r)
      <4>1. Connect("pair", NoCreds, {s \in sockets : s.held})
        BY <3>7 DEF StartsFreshPairing
      <4> QED
        BY <2>1, <4>1, ConnectTypes DEF Sessions
    <3>8. CASE Scan
      <4>1. PICK s \in sockets, c \in Creds :
              sockets' = (sockets \ {s}) \cup
                           {[s EXCEPT !.stage = "scanned", !.creds = c]}
        BY <3>8 DEF Scan
      <4>2. [s EXCEPT !.stage = "scanned", !.creds = c] \in Socket
        BY <2>1 DEF SocketTypes, Socket, Stages
      <4>3. [s EXCEPT !.stage = "scanned", !.creds = c].mine = s.mine
        BY <2>1 DEF SocketTypes, Socket
      <4> QED
        BY <2>1, <3>8, <4>1, <4>2, <4>3, MovedTypes DEF Scan
    <3>9. CASE LoggedOut
      <4>1. PICK s \in sockets :
              /\ loading' = loading
              /\ sockets' = LetGo(sockets \ {s}) \/ sockets' = sockets \ {s}
        BY <3>9 DEF LoggedOut
      <4> QED
        BY <2>1, <4>1, LetGoTypes, FewerTypes
    <3>10. CASE UNCHANGED <<loading, sockets>>
      BY <2>1, <3>10, FewerTypes
    <3> QED
      BY <3>1, <3>2, <3>3, <3>4, <3>5, <3>6, <3>7, <3>8, <3>9, <3>10
      DEF Next, vars, SavesCreds, PollClaims, PollLost, PollIgnores, Press, Cancel,
          Unlink, Stalls, Cools
  <2>3. GatewayTypes'
    BY <2>1 DEF GatewayTypes, Next, vars, process, connection, Connect, Closed,
       SocketMade, ConnectThrows, MainRetries, ShowsCode, Drops, LoggedOut,
       RestartRequired, SavesCreds, Opens, TimerFires, Watchdog, PollClaims, PollLost,
       PollIgnores, StartsFreshPairing, Press, Cancel, Scan, Unlink, Crash, Start,
       Stalls, Cools
  <2>4. RequestTypes'
    <3>1. CASE \E s \in sockets : Opens(s)
      <4>1. \A R \in SUBSET Request : Opened(R) \subseteq Request
        BY DEF Opened, Request
      <4>2. PICK s \in sockets : Opens(s)
        BY <3>1
      <4>3. CASE Heard(s)
        BY <2>1, <4>1, <4>2, <4>3 DEF Opens, Opened, RequestTypes
      <4>4. CASE ~Heard(s)
        BY <2>1, <4>2, <4>4 DEF Opens, RequestTypes, requests
      <4> QED
        BY <4>3, <4>4
    <3>2. CASE Start
      <4>1. \A r \in Request : [r EXCEPT !.at = "beforeStart"] \in Request
        BY DEF Request
      <4> QED
        BY <2>1, <3>2, <4>1 DEF Start, RequestTypes
    <3>3. CASE PollClaims \/ PollLost \/ PollIgnores \/ Cancel \/ Crash
      BY <2>1, <3>3 DEF PollClaims, PollLost, PollIgnores, Cancel, Crash, RequestTypes, Unclaimed
    <3>4. CASE Press
      BY <2>1, <3>4 DEF Press, RequestTypes, GatewayTypes, Request
    <3>5. CASE \E r \in claimed : StartsFreshPairing(r)
      BY <2>1, <3>5 DEF StartsFreshPairing, RequestTypes
    <3>6. CASE UNCHANGED requests
      BY <2>1, <3>6 DEF requests, RequestTypes
    <3> QED
      BY <3>1, <3>2, <3>3, <3>4, <3>5, <3>6
      DEF Next, vars, SocketMade, ConnectThrows, MainRetries, ShowsCode, Drops, LoggedOut,
          RestartRequired, SavesCreds, TimerFires, Watchdog, Scan, Unlink, Stalls, Cools
  <2>5. AccountTypes'
    <3>1. CASE SavesCreds
      BY <2>1, <3>1 DEF SavesCreds, AccountTypes, SocketTypes, Socket, Sessions
    <3>2. CASE \E r \in claimed : StartsFreshPairing(r)
      BY <2>1, <3>2 DEF StartsFreshPairing, AccountTypes, Sessions
    <3>3. CASE Scan
      BY <2>1, <3>3 DEF Scan, AccountTypes, Sessions
    <3>4. CASE Unlink
      BY <2>1, <3>4 DEF Unlink, AccountTypes
    <3>5. CASE UNCHANGED account
      BY <2>1, <3>5 DEF account, AccountTypes
    <3> QED
      BY <3>1, <3>2, <3>3, <3>4, <3>5
      DEF Next, vars, SocketMade, ConnectThrows, MainRetries, ShowsCode, Drops, LoggedOut,
          RestartRequired, Opens, TimerFires, Watchdog, PollClaims, PollLost, PollIgnores,
          Press, Cancel, Crash, Start, Stalls, Cools
  <2>6. CountTypes'
    <3>1. wipes' \in Nat
      <4>1. wipes' = wipes + 1 \/ wipes' = wipes
        BY DEF Next, vars, SocketMade, ConnectThrows, MainRetries,
           ShowsCode, Drops, LoggedOut, RestartRequired, SavesCreds, Opens, TimerFires,
           Watchdog, PollClaims, PollLost, PollIgnores, StartsFreshPairing, Press, Cancel,
           Scan, Unlink, Crash, Start, Stalls, Cools
      <4> QED
        BY <2>1, <4>1 DEF CountTypes
    <3>2. (\E kind \in Kinds : Spend(kind)) \/ UNCHANGED budget
      BY DEF Kinds, Next, vars, SocketMade, ConnectThrows, MainRetries,
         ShowsCode, Drops, LoggedOut, RestartRequired, SavesCreds, Opens, TimerFires,
         Watchdog, PollClaims, PollLost, PollIgnores, StartsFreshPairing, Press, Cancel,
         Scan, Unlink, Crash, Start, Stalls, Cools
    <3>3. budget' \in [Kinds -> Nat]
      BY <2>1, <3>2, SpendTypes DEF CountTypes
    <3> QED
      BY <3>1, <3>3 DEF CountTypes
  <2>7. (SocketTypes /\ GatewayTypes /\ RequestTypes /\ AccountTypes /\ CountTypes)'
    BY <2>2, <2>3, <2>4, <2>5, <2>6
  <2> QED
    BY <2>7, TypeParts DEF TypeOK, SocketTypes, GatewayTypes, RequestTypes, AccountTypes,
       CountTypes, Sessions
<1> QED
  BY <1>1, <1>2, PTL DEF Spec

----------------------------------------------------------------------------
\* What keeps a connected gateway's session on disk: wiping it supersedes every
\* socket and call that still knows credentials.
SessionInv ==
    /\ connected => disk # NoCreds
    /\ \A call \in loading : call.mine /\ call.creds # NoCreds => disk # NoCreds
    /\ \A s \in sockets : s.mine /\ s.creds # NoCreds => disk # NoCreds
    /\ \A s \in sockets : s.stage = "open" => s.creds # NoCreds

\* connect with the session on disk, or with none.
LEMMA ConnectSession ==
    ASSUME SocketTypes, NEW caller, NEW session \in {disk', NoCreds}, NEW ended,
           \A s \in sockets : s.stage = "open" => s.creds # NoCreds,
           Connect(caller, session, ended)
    PROVE  /\ \A call \in loading' :
                 call.mine /\ call.creds # NoCreds => disk' # NoCreds
           /\ \A s \in sockets' : ~s.mine
           /\ \A s \in sockets' : s.stage = "open" => s.creds # NoCreds
<1>1. \A call \in Superseded(loading) : ~call.mine
  BY DEF SocketTypes, Superseded, Call
<1>2. \A s \in sockets' : ~s.mine /\ (s.stage = "open" => s.creds # NoCreds)
  BY DEF SocketTypes, Superseded, Socket, Connect
<1>3. \A call \in loading' :
         call \in Superseded(loading) \/ (call.creds = session)
  BY DEF Connect
<1> QED
  BY <1>1, <1>2, <1>3

\* A connected gateway has a session on disk, so a restart does not lose the
\* account it reports.
THEOREM ConnectedKeepsSession == Spec => []ConnectedHasSession
<1>1. Init => SessionInv
  BY DEF Init, SessionInv
<1>2. TypeOK /\ SessionInv /\ [Next]_vars => SessionInv'
  <2> SUFFICES ASSUME TypeOK, SessionInv, [Next]_vars PROVE SessionInv'
    OBVIOUS
  <2>1. SocketTypes /\ AccountTypes
    BY TypeParts
  <2>2. CASE SocketMade
    <3>1. PICK call \in loading : \E session \in {call.creds, disk} :
            /\ sockets' = LetGo(sockets) \cup
                             {[mine |-> call.mine, held |-> TRUE,
                               creds |-> session, stage |-> "starting"]}
            /\ loading' = loading \ {call}
      BY <2>2 DEF SocketMade
    <3>2. PICK session \in {call.creds, disk} :
            /\ sockets' = LetGo(sockets) \cup
                             {[mine |-> call.mine, held |-> TRUE,
                               creds |-> session, stage |-> "starting"]}
            /\ loading' = loading \ {call}
      BY <3>1
    <3> DEFINE made == [mine |-> call.mine, held |-> TRUE,
                        creds |-> session, stage |-> "starting"]
               old == LetGo(sockets)
    <3>3. \A x \in old : \E s \in sockets : /\ x.mine = s.mine /\ x.creds = s.creds
                                            /\ x.stage = s.stage
      BY <2>1, LetGoParts
    <3>4. made.mine = call.mine /\ made.creds = session /\ made.stage # "open"
      OBVIOUS
    <3>5. sockets' = old \cup {made} /\ disk' = disk /\ connected' = connected
      BY <2>2, <3>2 DEF SocketMade, account, connection
    <3>6. loading' \subseteq loading
      BY <3>2
    <3> HIDE DEF old, made
    <3> QED
      BY <3>3, <3>4, <3>5, <3>6 DEF SessionInv
  <2>3. CASE ConnectThrows \/ Crash
    BY <2>3 DEF ConnectThrows, Crash, SessionInv, connection, account
  <2>4. CASE MainRetries \/ TimerFires \/ Watchdog \/ Start
    <3>1. /\ \E caller : Connect(caller, disk, {})
          /\ disk' = disk /\ connected' = connected
      BY <2>4 DEF MainRetries, TimerFires, Watchdog, Start, account
    <3> QED
      BY <2>1, <3>1, ConnectSession DEF SessionInv
  <2>5. CASE ShowsCode
    BY <2>1, <2>5 DEF ShowsCode, Moved, SessionInv, SocketTypes, Socket, connection, account
  <2>6. CASE \E s \in sockets : Opens(s)
    <3>1. PICK s \in sockets : Opens(s)
      BY <2>6
    <3>2. s.creds # NoCreds /\ s \in Socket
      BY <2>1, <3>1, CredsAssumption DEF Opens, AccountTypes, SocketTypes
    <3>3. s.mine => disk # NoCreds
      BY <3>2 DEF SessionInv
    <3>4. /\ sockets' = Moved(s, "open") /\ UNCHANGED <<loading, disk>>
          /\ connected' => s.mine \/ connected
      BY <3>1 DEF Opens, Heard, account
    <3> QED
      BY <3>2, <3>3, <3>4 DEF SessionInv, Moved, Socket
  <2>7. CASE Drops \/ LoggedOut
    <3>1. CASE Drops
      BY <3>1 DEF Drops, Closed, SessionInv, connection, account
    <3>2. CASE LoggedOut
      <4>1. PICK s \in sockets :
              /\ UNCHANGED <<loading, disk>>
              /\ connected' = FALSE \/ connected' = connected
              /\ sockets' = LetGo(sockets \ {s}) \/ sockets' = sockets \ {s}
        BY <3>2 DEF LoggedOut, Closed, account
      <4>2. \A x \in sockets' : \E t \in sockets : /\ x.mine = t.mine /\ x.creds = t.creds
                                                   /\ x.stage = t.stage
        BY <2>1, <4>1, LetGoParts
      <4> QED
        BY <4>1, <4>2 DEF SessionInv
    <3> QED
      BY <2>7, <3>1, <3>2
  <2>8. CASE RestartRequired
    <3>1. PICK s \in sockets :
            IF Heard(s)
            THEN Closed /\ Connect("nobody", disk, {s})
            ELSE sockets' = sockets \ {s} /\ UNCHANGED <<loading, connection>>
      BY <2>8 DEF RestartRequired
    <3>2. disk' = disk
      BY <2>8 DEF RestartRequired, account
    <3>3. CASE Heard(s)
      BY <2>1, <3>1, <3>2, <3>3, ConnectSession DEF Closed, SessionInv
    <3>4. CASE ~Heard(s)
      BY <3>1, <3>2, <3>4 DEF SessionInv, connection
    <3> QED
      BY <3>3, <3>4
  <2>9. CASE SavesCreds
    BY <2>9 DEF SavesCreds, SessionInv, connection
  <2>10. CASE \E r \in claimed : StartsFreshPairing(r)
    <3>1. /\ ~connected' /\ disk' = NoCreds
          /\ Connect("pair", NoCreds, {s \in sockets : s.held})
      BY <2>10 DEF StartsFreshPairing, Closed
    <3> QED
      BY <2>1, <3>1, ConnectSession DEF SessionInv
  <2>11. CASE Scan
    <3>1. PICK s \in sockets, c \in Creds :
            /\ sockets' = (sockets \ {s}) \cup
                            {[s EXCEPT !.stage = "scanned", !.creds = c]}
            /\ disk' = c
      BY <2>11 DEF Scan
    <3>2. disk' # NoCreds /\ s \in Socket
      BY <2>1, <3>1, CredsAssumption DEF SocketTypes
    <3> QED
      BY <3>1, <3>2 DEF SessionInv, Socket
  <2>12. CASE UNCHANGED <<loading, sockets, connected, disk>>
    BY <2>12 DEF SessionInv
  <2> QED
    BY <2>2, <2>3, <2>4, <2>5, <2>6, <2>7, <2>8, <2>9, <2>10, <2>11, <2>12
    DEF Next, vars, PollClaims, PollLost, PollIgnores, Press, Cancel, Unlink, Stalls,
        Cools, connection, account
<1>3. SessionInv => ConnectedHasSession
  BY DEF SessionInv, ConnectedHasSession
<1> QED
  BY <1>1, <1>2, <1>3, TypeCorrect, PTL DEF Spec

----------------------------------------------------------------------------
\* Every session wiped so far, and every request still on its way, is paid for
\* by a press.
WipesInv ==
    /\ IsFiniteSet(claimed) /\ IsFiniteSet(pressed)
    /\ wipes + Cardinality(claimed) + Cardinality(pressed)
         <= Budget["press"] - budget["press"]

\* The image of a finite set is no larger than the set.
LEMMA ImageBound ==
    ASSUME NEW S, IsFiniteSet(S), NEW T, NEW f \in [S -> T], T = {f[x] : x \in S}
    PROVE  IsFiniteSet(T) /\ Cardinality(T) <= Cardinality(S)
<1>1. f \in Surjection(S, T)
  BY DEF Surjection
<1> QED
  BY <1>1, FS_Surjection

\* A pairing that starts was asked for: the wipes never exceed the presses,
\* whatever restarts and lost answers come between.
THEOREM WipesArePaid == Spec => []OneWipePerPress
<1>1. Init => WipesInv
  BY FS_EmptySet, BudgetAssumption DEF Init, WipesInv, Kinds
<1>2. TypeOK /\ WipesInv /\ [Next]_vars => WipesInv'
  <2> SUFFICES ASSUME TypeOK, WipesInv, [Next]_vars PROVE WipesInv'
    OBVIOUS
  <2> DEFINE spent == Budget["press"] - budget["press"]
  <2>1. /\ wipes \in Nat /\ budget \in [Kinds -> Nat] /\ claimed \subseteq Request
        /\ Budget["press"] \in Int /\ budget["press"] \in Int
        /\ pressed \subseteq Request
    BY TypeParts, BudgetAssumption DEF CountTypes, RequestTypes, Kinds
  <2>2. Cardinality(claimed) \in Nat /\ Cardinality(pressed) \in Nat
    BY FS_CardinalityType DEF WipesInv
  <2>3. ASSUME Spend("scan") \/ Spend("mishap") \/ UNCHANGED budget
        PROVE  budget'["press"] = budget["press"]
    BY <2>1, <2>3 DEF Spend, Kinds
  <2>4. CASE UNCHANGED <<requests, wipes>> /\ budget'["press"] = budget["press"]
    BY <2>4 DEF WipesInv, requests
  <2>5. CASE \E s \in sockets : Opens(s)
    <3>1. PICK s \in sockets : Opens(s)
      BY <2>5
    <3>2. wipes' = wipes /\ budget' = budget
      BY <3>1 DEF Opens
    <3>3. CASE ~Heard(s)
      BY <2>4, <3>1, <3>2, <3>3 DEF Opens
    <3>4. CASE Heard(s)
      <4> DEFINE older(r) == IF r.at = "since" THEN [r EXCEPT !.at = "beforeOpen"] ELSE r
      <4>1. ASSUME NEW R, IsFiniteSet(R)
            PROVE  IsFiniteSet(Opened(R)) /\ Cardinality(Opened(R)) <= Cardinality(R)
        <5> DEFINE f == [r \in R |-> older(r)]
        <5>1. f \in [R -> Opened(R)] /\ Opened(R) = {f[x] : x \in R}
          BY DEF Opened
        <5> HIDE DEF f
        <5> QED
          BY <4>1, <5>1, ImageBound
      <4>2. claimed' = Opened(claimed) /\ pressed' = Opened(pressed)
        BY <3>1, <3>4 DEF Opens
      <4>3. IsFiniteSet(claimed') /\ IsFiniteSet(pressed')
        BY <4>1, <4>2 DEF WipesInv
      <4>4. Cardinality(claimed') \in Nat /\ Cardinality(pressed') \in Nat
        BY <4>3, FS_CardinalityType
      <4>5. /\ Cardinality(claimed') <= Cardinality(claimed)
            /\ Cardinality(pressed') <= Cardinality(pressed)
        BY <4>1, <4>2 DEF WipesInv
      <4> QED
        BY <2>1, <2>2, <3>2, <4>3, <4>4, <4>5 DEF WipesInv
    <3> QED
      BY <3>3, <3>4
  <2>6. CASE Start
    <3> DEFINE older == [r \in pressed |-> [r EXCEPT !.at = "beforeStart"]]
    <3>1. pressed' = {older[r] : r \in pressed} /\ older \in [pressed -> pressed']
      BY <2>6 DEF Start
    <3> HIDE DEF older
    <3>2. IsFiniteSet(pressed)
      BY DEF WipesInv
    <3>3. IsFiniteSet(pressed') /\ Cardinality(pressed') <= Cardinality(pressed)
      BY <3>1, <3>2, ImageBound
    <3>4. Cardinality(pressed') \in Nat
      BY <3>3, FS_CardinalityType
    <3> QED
      BY <2>1, <2>2, <2>6, <3>3, <3>4 DEF Start, WipesInv
  <2>7. CASE PollClaims
    <3>1. IsFiniteSet(claimed \cup pressed)
          /\ Cardinality(claimed \cup pressed) =
               Cardinality(claimed) + Cardinality(pressed) - Cardinality(claimed \cap pressed)
      BY FS_Union DEF WipesInv
    <3>2. IsFiniteSet(claimed \cap pressed)
      BY FS_Subset DEF WipesInv
    <3>3. Cardinality(claimed \cap pressed) \in Nat
      BY <3>2, FS_CardinalityType
    <3>4. /\ claimed' = claimed \cup pressed /\ pressed' = {}
          /\ wipes' = wipes /\ budget' = budget
      BY <2>7 DEF PollClaims, Unclaimed
    <3>5. IsFiniteSet(claimed') /\ IsFiniteSet(pressed') /\ Cardinality(pressed') = 0
      BY <3>1, <3>4, FS_EmptySet
    <3>6. Cardinality(claimed') <= Cardinality(claimed) + Cardinality(pressed)
      BY <2>2, <3>1, <3>3, <3>4
    <3>7. Cardinality(claimed') \in Nat
      BY <3>5, FS_CardinalityType
    <3> QED
      BY <2>1, <2>2, <3>4, <3>5, <3>6, <3>7 DEF WipesInv
  <2>8. CASE PollLost \/ PollIgnores
    <3>1. PICK r \in claimed : claimed' = claimed \ {r}
      BY <2>8 DEF PollLost, PollIgnores
    <3>2. /\ pressed' = pressed /\ wipes' = wipes
          /\ budget'["press"] = budget["press"]
      BY <2>3, <2>8 DEF PollLost, PollIgnores
    <3>3. /\ IsFiniteSet(claimed')
          /\ Cardinality(claimed') = Cardinality(claimed) - 1
      BY <3>1, FS_RemoveElement DEF WipesInv
    <3> QED
      BY <2>1, <2>2, <3>2, <3>3 DEF WipesInv
  <2>9. CASE \E r \in claimed : StartsFreshPairing(r)
    <3>1. PICK r \in claimed : claimed' = claimed \ {r}
      BY <2>9 DEF StartsFreshPairing
    <3>2. pressed' = pressed /\ wipes' = wipes + 1 /\ budget' = budget
      BY <2>9 DEF StartsFreshPairing
    <3>3. /\ IsFiniteSet(claimed')
          /\ Cardinality(claimed') = Cardinality(claimed) - 1
      BY <3>1, FS_RemoveElement DEF WipesInv
    <3> QED
      BY <2>1, <2>2, <3>2, <3>3 DEF WipesInv
  <2>10. CASE Press
    <3>1. /\ \E r : pressed' = {r}
          /\ claimed' = claimed /\ wipes' = wipes
          /\ budget'["press"] = budget["press"] - 1
      BY <2>1, <2>10 DEF Press, Spend, Kinds
    <3>2. IsFiniteSet(pressed') /\ Cardinality(pressed') = 1
      BY <3>1, FS_Singleton
    <3> QED
      BY <2>1, <2>2, <3>1, <3>2 DEF WipesInv
  <2>11. CASE Cancel
    <3>1. /\ pressed' = {} /\ claimed' = claimed /\ wipes' = wipes
          /\ budget'["press"] = budget["press"]
      BY <2>3, <2>11 DEF Cancel
    <3>2. IsFiniteSet(pressed') /\ Cardinality(pressed') = 0
      BY <3>1, FS_EmptySet
    <3> QED
      BY <2>1, <2>2, <3>1, <3>2 DEF WipesInv
  <2>12. CASE Crash
    <3>1. /\ claimed' = {} /\ pressed' = pressed /\ wipes' = wipes
          /\ budget'["press"] = budget["press"]
      BY <2>3, <2>12 DEF Crash
    <3>2. IsFiniteSet(claimed') /\ Cardinality(claimed') = 0
      BY <3>1, FS_EmptySet
    <3> QED
      BY <2>1, <2>2, <3>1, <3>2 DEF WipesInv
  <2> QED
    <3>1. CASE \/ SocketMade \/ ConnectThrows \/ MainRetries \/ ShowsCode \/ Drops
               \/ LoggedOut \/ RestartRequired \/ SavesCreds \/ TimerFires \/ Watchdog
               \/ Scan \/ Unlink \/ Stalls \/ Cools \/ UNCHANGED vars
      <4>1. UNCHANGED <<requests, wipes>>
        BY <3>1 DEF SocketMade, ConnectThrows, MainRetries, ShowsCode, Drops, LoggedOut,
           RestartRequired, SavesCreds, TimerFires, Watchdog, Scan, Unlink, Stalls, Cools,
           vars
      <4>2. Spend("scan") \/ Spend("mishap") \/ UNCHANGED budget
        BY <3>1 DEF SocketMade, ConnectThrows, MainRetries, ShowsCode, Drops, LoggedOut,
           RestartRequired, SavesCreds, TimerFires, Watchdog, Scan, Unlink, Stalls, Cools,
           vars
      <4> QED
        BY <2>3, <2>4, <4>1, <4>2
    <3> QED
      BY <2>5, <2>6, <2>7, <2>8, <2>9, <2>10, <2>11, <2>12, <3>1 DEF Next
<1>3. TypeOK /\ WipesInv => OneWipePerPress
  <2> SUFFICES ASSUME TypeOK, WipesInv PROVE OneWipePerPress
    OBVIOUS
  <2>1. Cardinality(claimed) \in Nat /\ Cardinality(pressed) \in Nat
    BY FS_CardinalityType DEF WipesInv
  <2>2. wipes \in Nat /\ budget["press"] \in Int /\ Budget["press"] \in Int
    BY TypeParts, BudgetAssumption DEF CountTypes, Kinds
  <2> QED
    BY <2>1, <2>2 DEF WipesInv, OneWipePerPress
<1> QED
  BY <1>1, <1>2, <1>3, TypeCorrect, PTL DEF Spec

----------------------------------------------------------------------------
\* A press made while the gateway was down is older than the process that reads it.
DownInv ==
    /\ \A r \in claimed : r.down => r.at = "beforeStart"
    /\ up => \A r \in pressed : r.down => r.at = "beforeStart"

\* A press made while the gateway was down clears no session, however late and
\* in whatever state of the connection it is read.
THEOREM WakeUpIsHarmless == Spec => WakeUpKeepsSession
<1>1. Init => DownInv
  BY DEF Init, DownInv
<1>2. TypeOK /\ DownInv /\ [Next]_vars => DownInv'
  <2> SUFFICES ASSUME TypeOK, DownInv, [Next]_vars PROVE DownInv'
    OBVIOUS
  <2>1. claimed \subseteq Request /\ pressed \subseteq Request
    BY TypeParts DEF RequestTypes
  <2>2. CASE UNCHANGED <<up, requests>>
    BY <2>2 DEF DownInv, requests
  <2>3. CASE \E s \in sockets : Opens(s)
    <3>1. PICK s \in sockets : Opens(s)
      BY <2>3
    <3>2. up' = up
      BY <3>1 DEF Opens, process
    <3>3. CASE Heard(s)
      <4>1. claimed' = Opened(claimed) /\ pressed' = Opened(pressed)
        BY <3>1, <3>3 DEF Opens
      <4>2. \A R \in SUBSET Request : \A q \in Opened(R) :
              q \in R \/ \E r \in R : r.at = "since" /\ q = [r EXCEPT !.at = "beforeOpen"]
        BY DEF Opened
      <4>3. \A r \in Request : [r EXCEPT !.at = "beforeOpen"].down = r.down
        BY DEF Request
      <4>4. ASSUME NEW R \in SUBSET Request, \A r \in R : r.down => r.at = "beforeStart"
            PROVE  \A q \in Opened(R) : q.down => q.at = "beforeStart"
        BY <4>2, <4>3, <4>4
      <4> QED
        BY <2>1, <3>2, <4>1, <4>4 DEF DownInv
    <3>4. CASE ~Heard(s)
      BY <2>2, <3>1, <3>2, <3>4 DEF Opens
    <3> QED
      BY <3>3, <3>4
  <2>4. CASE Start
    <3>1. \A q \in pressed' : q.at = "beforeStart"
      BY <2>1, <2>4 DEF Start, Request
    <3> QED
      BY <2>4, <3>1 DEF Start, DownInv
  <2>5. CASE PollClaims \/ Crash
    BY <2>5 DEF PollClaims, Crash, process, Unclaimed, DownInv
  <2>6. CASE PollLost \/ PollIgnores \/ Cancel
    BY <2>6 DEF PollLost, PollIgnores, Cancel, process, DownInv
  <2>7. CASE Press
    <3>1. \A q \in pressed' : q.down = ~up
      BY <2>7 DEF Press
    <3>2. up' = up /\ claimed' = claimed
      BY <2>7 DEF Press, process
    <3> QED
      BY <3>1, <3>2 DEF DownInv
  <2>8. CASE \E r \in claimed : StartsFreshPairing(r)
    BY <2>8 DEF StartsFreshPairing, DownInv
  <2> QED
    BY <2>2, <2>3, <2>4, <2>5, <2>6, <2>7, <2>8
    DEF Next, vars, process, SocketMade, ConnectThrows, MainRetries, ShowsCode, Drops,
        LoggedOut, RestartRequired, SavesCreds, TimerFires, Watchdog, Scan, Unlink,
        Stalls, Cools
<1>3. DownInv => (\A r \in claimed : StartsFreshPairing(r) /\ r.down => disk = NoCreds)
  BY DEF DownInv, StartsFreshPairing, Ignored
<1> QED
  BY <1>1, <1>2, <1>3, TypeCorrect, PTL DEF Spec, WakeUpKeepsSession

\* The session goes only for presses that asked for it, once each.
THEOREM WipesOnlyWhenAsked == Spec => WipesAreAsked
BY WipesArePaid, WakeUpIsHarmless, PTL DEF WipesAreAsked

=============================================================================
