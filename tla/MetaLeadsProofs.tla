-------------------------- MODULE MetaLeadsProofs --------------------------
(***************************************************************************)
(* For any leads, numbers, sessions, limits and mishaps: the state is well *)
(* typed; leads that no two sessions process at once, and their numbers,   *)
(* have one contact each, keep it, and stay converted.                     *)
(***************************************************************************)
EXTENDS MetaLeads, FiniteSetTheorems, TLAPS

USE LeadsAssumption, BudgetAssumption

----------------------------------------------------------------------------
\* A session that becomes a well-typed one leaves all of them well typed.
LEMMA SessionTypes ==
    ASSUME TypeOK, NEW p \in Sessions, NEW r \in Session, Becomes(p, r)
    PROVE  run' \in [Sessions -> Session]
BY DEF TypeOK, Becomes

\* What is left when a session is done with a lead.
LEMMA OnwardType ==
    ASSUME TypeOK, NEW p \in Sessions, NEW l \in Leads, NEW s \in Status \cup {Null}
    PROVE  /\ Onward(p, l, s) \in Session
           /\ Onward(p, l, s).lead = Null /\ Onward(p, l, s).at = "next"
<1>1. run[p] \in Session
  BY DEF TypeOK
<1> DEFINE known == IF run[p].row = l THEN s ELSE run[p].known
<1>2. known \in Status \cup {Null}
  BY <1>1 DEF Session
<1>3. Onward(p, l, s) = [run[p] EXCEPT !.todo = @ \ {l}, !.at = "next", !.lead = Null,
                          !.seen = "pending", !.tries = 0, !.found = Null, !.known = known]
  BY DEF Onward
<1> DEFINE rest == run[p].todo \ {l}
<1>4. rest \in SUBSET Leads
  BY <1>1 DEF Session
<1>5. Onward(p, l, s) =
          [job |-> run[p].job, todo |-> rest, new |-> run[p].new, at |-> "next",
           lead |-> Null, seen |-> "pending", tries |-> 0, found |-> Null,
           row |-> run[p].row, known |-> known]
  <2> HIDE DEF known
  <2> QED
    BY <1>1, <1>3 DEF Session
<1> HIDE DEF known, rest
<1>6. /\ run[p].job \in Jobs /\ run[p].new \in SUBSET Leads
      /\ run[p].row \in Leads \cup {Null}
  BY <1>1 DEF Session
<1> QED
  BY <1>2, <1>4, <1>5, <1>6 DEF Session, Points, Status

\* An idle session is well typed and has no lead in hand.
LEMMA IdleType == Idle \in Session /\ Idle.lead = Null
BY DEF Idle, Session, Jobs, Points, Status

\* A failure or crash that happens comes off the budget.
LEMMA SpendTypes == ASSUME TypeOK, NEW kind \in Kinds, Spend(kind)
                    PROVE  budget' \in [Kinds -> Nat]
<1>1. budget \in [Kinds -> Nat]
  BY DEF TypeOK
<1>2. budget[kind] > 0 /\ budget' = [budget EXCEPT ![kind] = budget[kind] - 1]
  BY DEF Spend
<1> QED
  BY <1>1, <1>2

\* The number of a contact made of l.
LEMMA MadeType == ASSUME TypeOK, NEW l \in Leads PROVE Made(l) \in Contacts
<1>1. IsFiniteSet({c \in contacts : c[1] = l})
  BY FS_Subset DEF TypeOK
<1>2. Cardinality({c \in contacts : c[1] = l}) \in Nat
  BY <1>1, FS_CardinalityType
<1> QED
  BY <1>2 DEF Made, Contacts

----------------------------------------------------------------------------
\* Nothing is stored and nobody works.
LEMMA InitTypes == Init => TypeOK
<1> SUFFICES ASSUME Init PROVE TypeOK
  OBVIOUS
<1>1. run \in [Sessions -> Session]
  BY IdleType DEF Init
<1>2. IsFiniteSet(contacts)
  BY FS_EmptySet DEF Init
<1> QED
  BY <1>1, <1>2 DEF Init, TypeOK, Status



\* Steps that change no row of the database: without a lead in hand ...
LEMMA EmptyHandTypes ==
    ASSUME TypeOK, NEW p \in Sessions,
           Deliver(p) \/ Syncs(p) \/ Answers(p) \/ Retries(p) \/ Ends(p)
    PROVE  TypeOK'
<1>1. run[p] \in Session /\ UNCHANGED <<rows, shared, budget>>
  BY DEF TypeOK, Deliver, Syncs, Answers, Retries, Ends
<1>2. SUFFICES \E r \in Session : Becomes(p, r)
  BY <1>1, SessionTypes DEF TypeOK, rows
<1>3. CASE Deliver(p)
  BY <1>3, IdleType DEF Deliver, Session, Jobs
<1>4. CASE Syncs(p)
  BY <1>4, IdleType DEF Syncs, Session, Jobs
<1>5. CASE Answers(p)
  <2>1. CASE run[p].new = {}
    BY <1>5, <2>1, IdleType DEF Answers
  <2>2. CASE run[p].new # {}
    <3>1. [Idle EXCEPT !.job = "task", !.todo = run[p].new] \in Session
      BY <1>1, IdleType DEF Session, Jobs
    <3> QED
      BY <1>5, <2>2, <3>1 DEF Answers
  <2> QED
    BY <2>1, <2>2
<1>6. CASE Retries(p)
  <2>1. PICK ids \in SUBSET Retried :
            Becomes(p, [run[p] EXCEPT !.job = "retry", !.todo = ids])
    BY <1>6 DEF Retries
  <2>2. [run[p] EXCEPT !.job = "retry", !.todo = ids] \in Session
    BY <1>1 DEF Session, Jobs, Retried
  <2> QED
    BY <2>1, <2>2
<1>7. CASE Ends(p)
  BY <1>7, IdleType DEF Ends
<1> QED
  BY <1>3, <1>4, <1>5, <1>6, <1>7

\* ... and with one.
LEMMA LookingTypes ==
    ASSUME TypeOK, NEW p \in Sessions, NEW l \in Leads,
           Looks(p, l) \/ InsertFails(p, l)
    PROVE  TypeOK'
<1>1. /\ run[p] \in Session /\ run[p].known \in Status \cup {Null}
      /\ UNCHANGED <<rows, shared, budget>>
  BY DEF TypeOK, Session, Looks, InsertFails
<1>2. SUFFICES \E r \in Session : Becomes(p, r)
  BY <1>1, SessionTypes DEF TypeOK, rows
<1>3. CASE Looks(p, l)
  <2>1. CASE status[l] # "none"
    BY <1>1, <1>3, <2>1, OnwardType DEF Looks
  <2>2. CASE status[l] = "none"
    <3>1. [run[p] EXCEPT !.at = "insert", !.lead = l] \in Session
      BY <1>1 DEF Session, Points
    <3> QED
      BY <1>3, <2>2, <3>1 DEF Looks
  <2> QED
    BY <2>1, <2>2
<1>4. CASE InsertFails(p, l)
  BY <1>4, IdleType DEF InsertFails
<1> QED
  BY <1>3, <1>4

\* The steps of a session with a lead in hand.
LEMMA InsertsTypes ==
    ASSUME TypeOK, NEW p \in Sessions, NEW l \in Leads, Inserts(p, l)
    PROVE  TypeOK'
<1>1. run[p] \in Session
  BY DEF TypeOK
<1>2. status' \in [Leads -> Status \cup {"none"}]
  BY DEF TypeOK, Inserts, Status
<1>3. shared' \subseteq Leads
  BY DEF TypeOK, Inserts, Takes
<1>4. run' \in [Sessions -> Session]
  <2>1. CASE run[p].job = "receive"
    <3> DEFINE r == Onward(p, l, "pending")
    <3>1. r \in Session
      BY OnwardType DEF Status
    <3>2. [r EXCEPT !.new = r.new \cup {l}] \in Session
      <4> HIDE DEF r
      <4> QED
        BY <3>1 DEF Session
    <3>3. Becomes(p, [r EXCEPT !.new = r.new \cup {l}])
      BY <2>1 DEF Inserts
    <3> QED
      BY <3>2, <3>3, SessionTypes
  <2>2. CASE run[p].job # "receive"
    <3>1. [run[p] EXCEPT !.at = "loaded", !.row = l, !.known = "pending"] \in Session
      BY <1>1 DEF Session, Points, Status
    <3> QED
      BY <2>2, <3>1, SessionTypes DEF Inserts
  <2> QED
    BY <2>1, <2>2
<1> QED
  BY <1>2, <1>3, <1>4 DEF TypeOK, Inserts

\* process_lead reads the row, or finds it done.
LEMMA ReadsTypes ==
    ASSUME TypeOK, NEW p \in Sessions, NEW l \in Leads, Reads(p, l)
    PROVE  TypeOK'
<1>1. run[p] \in Session
  BY DEF TypeOK
<1>2. Seen(p, l) \in Status \cup {"none"}
  BY <1>1 DEF TypeOK, Seen, Session
<1>3. shared' \subseteq Leads
  BY DEF TypeOK, Reads, Takes
<1>4. run' \in [Sessions -> Session]
  <2>1. CASE Converted(Seen(p, l))
    <3>1. Seen(p, l) \in Status
      BY <2>1 DEF Converted, Status
    <3>2. Becomes(p, Onward(p, l, Seen(p, l)))
      BY <2>1 DEF Reads
    <3> QED
      BY <3>1, <3>2, OnwardType, SessionTypes
  <2>2. CASE ~Converted(Seen(p, l))
    <3> DEFINE seen == Seen(p, l)
    <3>1. Becomes(p, [run[p] EXCEPT !.at = "loaded", !.lead = l, !.seen = seen])
      BY <2>2 DEF Reads
    <3>2. [run[p] EXCEPT !.at = "loaded", !.lead = l, !.seen = seen] \in Session
      <4>1. seen \in Status \cup {"none"}
        BY <1>2
      <4> HIDE DEF seen
      <4> QED
        BY <1>1, <4>1 DEF Session, Points
    <3> QED
      BY <3>1, <3>2, SessionTypes
  <2> QED
    BY <2>1, <2>2
<1> QED
  BY <1>3, <1>4 DEF TypeOK, Reads, rows

\* The search leaves a contact, or Null, in found.
LEMMA SearchesTypes ==
    ASSUME TypeOK, NEW p \in Sessions, NEW l \in Leads, Searches(p, l)
    PROVE  TypeOK'
<1>1. run[p] \in Session
  BY DEF TypeOK
<1>2. PICK c \in Contacts \cup {Null} :
          Becomes(p, [run[p] EXCEPT !.at = "searched", !.found = c])
  BY DEF Searches, Same, TypeOK
<1>3. [run[p] EXCEPT !.at = "searched", !.found = c] \in Session
  BY <1>1 DEF Session, Points
<1>4. run' \in [Sessions -> Session]
  BY <1>2, <1>3, SessionTypes
<1> QED
  BY <1>4 DEF TypeOK, Searches, rows

\* The commit adds one contact at most, with a number that is free.
LEMMA ConvertsTypes ==
    ASSUME TypeOK, NEW p \in Sessions, NEW l \in Leads, Converts(p, l)
    PROVE  TypeOK'
<1>1. run[p] \in Session
  BY DEF TypeOK
<1>2. run[p].found \in Contacts \cup {Null}
  BY <1>1 DEF Session
<1>3. run' \in [Sessions -> Session]
  <2>1. PICK s \in {"linked", "created"} : Becomes(p, Onward(p, l, s))
    BY DEF Converts
  <2> QED
    BY <2>1, OnwardType, SessionTypes DEF Status
<1>4. CASE run[p].found # Null
  BY <1>2, <1>3, <1>4 DEF TypeOK, Converts, Status
<1>5. CASE run[p].found = Null
  <2>1. Made(l) \in Contacts
    BY MadeType
  <2>2. contacts' \subseteq Contacts /\ IsFiniteSet(contacts')
    <3>1. contacts' = contacts \cup {Made(l)}
      BY <1>5 DEF Converts
    <3>2. IsFiniteSet(contacts \cup {Made(l)})
      BY FS_AddElement DEF TypeOK
    <3> QED
      BY <2>1, <3>1, <3>2 DEF TypeOK
  <2> QED
    BY <1>3, <1>5, <2>1, <2>2 DEF TypeOK, Converts, Status
<1> QED
  BY <1>4, <1>5

\* _mark_failed reads a row of the right type.
LEMMA FailsTypes ==
    ASSUME TypeOK, NEW p \in Sessions, NEW l \in Leads, Fails(p, l)
    PROVE  TypeOK'
<1>1. run[p] \in Session /\ status[l] \in Status \cup {"none"} /\ attempts[l] \in Nat
  BY DEF TypeOK
<1>2. [run[p] EXCEPT !.at = "failing", !.found = Null, !.known = Null,
                     !.seen = status[l], !.tries = attempts[l]] \in Session
  BY <1>1 DEF Session, Points
<1>3. run' \in [Sessions -> Session]
  BY <1>2, SessionTypes DEF Fails
<1>4. budget' \in [Kinds -> Nat]
  BY SpendTypes DEF Fails, Kinds
<1> QED
  BY <1>3, <1>4 DEF TypeOK, Fails, rows

\* _mark_failed writes a status and a count.
LEMMA MarksFailedTypes ==
    ASSUME TypeOK, NEW p \in Sessions, NEW l \in Leads, MarksFailed(p, l)
    PROVE  TypeOK'
<1>1. run[p] \in Session
  BY DEF TypeOK
<1> DEFINE tries == run[p].tries + 1
<1>2. tries \in Nat
  BY <1>1 DEF Session
<1>3. FailedAs(tries) \in Status
  BY DEF FailedAs, Status
<1>4. run' \in [Sessions -> Session]
  BY <1>3, OnwardType, SessionTypes DEF MarksFailed
<1>5. /\ attempts' = [attempts EXCEPT ![l] = tries]
      /\ status' = status \/ status' = [status EXCEPT ![l] = FailedAs(tries)]
  BY DEF MarksFailed
<1>6. attempts' \in [Leads -> Nat] /\ status' \in [Leads -> Status \cup {"none"}]
  <2> HIDE DEF tries
  <2> QED
    BY <1>2, <1>3, <1>5 DEF TypeOK
<1> QED
  BY <1>4, <1>6 DEF TypeOK, MarksFailed

\* A crash leaves every session idle.
LEMMA CrashTypes == ASSUME TypeOK, Crash PROVE TypeOK'
<1>1. run' \in [Sessions -> Session]
  BY IdleType DEF Crash
<1>2. budget' \in [Kinds -> Nat]
  BY SpendTypes DEF Crash, Kinds
<1> QED
  BY <1>1, <1>2 DEF TypeOK, Crash, rows

\* The state is well typed: what the database holds of every lead, and what
\* every session has of the lead it is processing (process_lead, sync_forms).
THEOREM TypeCorrect == Spec => []TypeOK
<1>1. TypeOK /\ [Next]_vars => TypeOK'
  <2> SUFFICES ASSUME TypeOK, [Next]_vars PROVE TypeOK'
    OBVIOUS
  <2>1. CASE UNCHANGED vars
    BY <2>1 DEF TypeOK, vars, rows
  <2>2. ASSUME NEW p \in Sessions, Works(p) \/ Deliver(p) \/ Syncs(p) PROVE TypeOK'
    BY <2>2, EmptyHandTypes, LookingTypes, InsertsTypes, ReadsTypes, SearchesTypes,
       ConvertsTypes, MarksFailedTypes DEF Works
  <2> QED
    BY <2>1, <2>2, FailsTypes, CrashTypes DEF Next
<1> QED
  BY <1>1, InitTypes, PTL DEF Spec
----------------------------------------------------------------------------
(* One contact for each lead that two sessions do not have in hand at once *)

\* Two sessions with leads alike in hand: one of the leads is shared.
HandsApart ==
    \A p, q \in Sessions : \A l \in InHand(p), m \in InHand(q) :
        p # q /\ Alike(l, m) => l \in shared \/ m \in shared

\* A lead in hand has not been converted, unless it is shared.
HandsOpen ==
    \A p \in Sessions : \A l \in InHand(p) :
        l \notin shared => status[l] \notin {"created", "linked"}

\* What a session has found missing is missing still.
StillMissing ==
    \A p \in Sessions : \A l \in InHand(p) : \A c \in contacts :
        run[p].at = "searched" /\ run[p].found = Null /\ Alike(l, c[1])
            => l \in shared \/ c[1] \in shared

LeadInv == TypeOK /\ HandsApart /\ HandsOpen /\ StillMissing
                  /\ PointsAtContact /\ RepeatsAreLinked

\* A step after which nobody has anything new in hand, and that makes a row
\* pending or failed only if it is shared or was not converted.
LEMMA LettingGo ==
    ASSUME LeadInv, TypeOK',
           contacts' = contacts, contact_id' = contact_id, shared' = shared,
           \A l \in Leads \ shared :
               \/ status'[l] = status[l]
               \/ status[l] # "created" /\ status'[l] \in {"pending", "failed"},
           \A q \in Sessions : InHand(q)' \subseteq InHand(q),
           \A q \in Sessions : run'[q].at = "searched" => run'[q] = run[q]
    PROVE  LeadInv'
<1>1. HandsApart'
  BY DEF LeadInv, HandsApart, Alike
<1>2. HandsOpen'
  <2>1. \A l \in Leads \ shared :
            status'[l] \in {"created", "linked"} => status'[l] = status[l]
    OBVIOUS
  <2> QED
    BY <2>1 DEF LeadInv, HandsOpen, InHand
<1>3. StillMissing'
  BY DEF LeadInv, StillMissing, Alike
<1>4. PointsAtContact'
  <2>1. \A c \in contacts : c[1] \in Leads
    BY DEF LeadInv, TypeOK, Contacts
  <2> QED
    BY <2>1 DEF LeadInv, PointsAtContact
<1>5. RepeatsAreLinked'
  BY DEF LeadInv, RepeatsAreLinked, Alike
<1> QED
  BY <1>1, <1>2, <1>3, <1>4, <1>5 DEF LeadInv

\* p, which has nothing in hand or a lead to insert, takes l in hand.
LEMMA Taking ==
    ASSUME LeadInv, TypeOK', NEW p \in Sessions, NEW l \in Leads,
           NEW s, s \notin {"created", "linked"}, Takes(p, l, s),
           contacts' = contacts, contact_id' = contact_id,
           \A m \in Leads :
               \/ status'[m] = status[m]
               \/ status[m] # "created" /\ status'[m] = "pending",
           run'[p].lead = l, run'[p].at = "loaded",
           \A q \in Sessions \ {p} : run'[q] = run[q]
    PROVE  LeadInv'
<1>1. /\ shared \subseteq shared' /\ shared' \subseteq shared \cup {l}
      /\ \A q \in Sessions \ {p} : InHand(q)' = InHand(q)
      /\ InHand(p)' = {l}
  BY DEF Takes, InHand
<1>2. HandsApart'
  <2>1. \A q \in Sessions \ {p} : \A m \in InHand(q) : Alike(l, m) => l \in shared'
    BY DEF Takes
  <2> QED
    BY <1>1, <2>1 DEF LeadInv, HandsApart, Alike
<1>3. HandsOpen'
  <2>1. l \notin shared' => status'[l] = s
    BY DEF Takes
  <2>2. \A m \in Leads : status'[m] \in {"created", "linked"} => status'[m] = status[m]
    OBVIOUS
  <2>3. \A q \in Sessions : InHand(q) \subseteq Leads
    BY DEF InHand
  <2> QED
    BY <1>1, <2>1, <2>2, <2>3 DEF LeadInv, HandsOpen
<1>4. StillMissing'
  BY <1>1 DEF LeadInv, StillMissing, Alike
<1>5. PointsAtContact'
  <2>1. \A c \in contacts : c[1] \in Leads
    BY DEF LeadInv, TypeOK, Contacts
  <2> QED
    BY <1>1, <2>1 DEF LeadInv, PointsAtContact
<1>6. RepeatsAreLinked'
  BY <1>1 DEF LeadInv, RepeatsAreLinked, Alike
<1> QED
  BY <1>2, <1>3, <1>4, <1>5, <1>6 DEF LeadInv

\* What a search does not find is not there: a contact of the lead itself is
\* ruled out by its status, one with its number by the search.
LEMMA SearchesInv ==
    ASSUME LeadInv, NEW p \in Sessions, NEW l \in Leads, Searches(p, l)
    PROVE  LeadInv'
<1>1. TypeOK' /\ run[p] \in Session
  BY SearchesTypes DEF LeadInv, TypeOK
<1>2. PICK c \in IF Same(l) = {} THEN {Null} ELSE Same(l) :
          run' = [run EXCEPT ![p] = [run[p] EXCEPT !.at = "searched", !.found = c]]
  BY DEF Searches, Becomes
<1>3. run'[p] = [run[p] EXCEPT !.at = "searched", !.found = c]
  BY <1>2 DEF LeadInv, TypeOK
<1>4. \A q \in Sessions \ {p} : run'[q] = run[q]
  BY <1>2 DEF LeadInv, TypeOK
<1>5. /\ run[p].lead = l /\ run[p].at = "loaded" /\ run'[p].lead = l
      /\ run'[p].at = "searched" /\ run'[p].found = c
  BY <1>1, <1>3 DEF Searches, At, Session
<1>6. InHand(p) = {l} /\ \A q \in Sessions : InHand(q)' = InHand(q)
  BY <1>4, <1>5 DEF InHand
<1>7. UNCHANGED <<status, contact_id, contacts, shared>>
  BY DEF Searches, rows
<1>8. StillMissing'
  <2>1. ASSUME c = Null, NEW d \in contacts, Alike(l, d[1]), l \notin shared
        PROVE  FALSE
    <3>1. Same(l) = {}
      BY <1>2, <2>1 DEF Same, LeadInv, TypeOK, Contacts
    <3>2. d[1] = l
      BY <2>1, <3>1 DEF Same, Alike
    <3>3. status[l] # "created"
      BY <1>6, <2>1 DEF LeadInv, HandsOpen
    <3> QED
      BY <2>1, <3>2, <3>3 DEF LeadInv, PointsAtContact
  <2> QED
    BY <1>4, <1>5, <1>6, <1>7, <2>1 DEF LeadInv, StillMissing, Alike
<1> QED
  BY <1>1, <1>6, <1>7, <1>8
  DEF LeadInv, HandsApart, HandsOpen, PointsAtContact, RepeatsAreLinked, Alike

\* A conversion: whoever else has a lead like it in hand shares one of them.
LEMMA ConvertsInv ==
    ASSUME LeadInv, NEW p \in Sessions, NEW l \in Leads, Converts(p, l)
    PROVE  LeadInv'
<1>1. TypeOK'
  BY ConvertsTypes DEF LeadInv
<1>2. run[p].lead = l /\ run[p].at = "searched" /\ l \in InHand(p)
  BY DEF Converts, At, InHand
<1>3. \A q \in Sessions \ {p} : run'[q] = run[q] /\ InHand(q)' = InHand(q)
  BY DEF Converts, Becomes, LeadInv, TypeOK, InHand
<1>4. run'[p].lead = Null /\ InHand(p)' = {}
  <2>1. PICK s \in {"linked", "created"} : Becomes(p, Onward(p, l, s))
    BY DEF Converts
  <2>2. run'[p].lead = Null
    BY <2>1, OnwardType DEF Becomes, LeadInv, TypeOK, Status
  <2> QED
    BY <2>2 DEF InHand
<1>5. shared' = shared
  BY DEF Converts
<1>6. /\ \A m \in Leads \ {l} : status'[m] = status[m] /\ contact_id'[m] = contact_id[m]
      /\ \A d \in contacts : d[1] \in Leads
  BY DEF Converts, LeadInv, TypeOK, Contacts
<1>7. l \notin shared => \A d \in contacts : d[1] # l
  BY <1>2 DEF LeadInv, HandsOpen, PointsAtContact
<1>8. HandsApart'
  BY <1>3, <1>4, <1>5 DEF LeadInv, HandsApart, Alike
<1>9. HandsOpen'
  <2>1. \A q \in Sessions \ {p} : l \in InHand(q) => l \in shared
    BY <1>2 DEF LeadInv, HandsApart, Alike
  <2> QED
    BY <1>3, <1>4, <1>5, <1>6, <2>1 DEF LeadInv, HandsOpen, InHand
<1>10. CASE run[p].found # Null
  <2>1. contacts' = contacts
    BY <1>10 DEF Converts
  <2>2. StillMissing'
    BY <1>3, <1>4, <1>5, <2>1 DEF LeadInv, StillMissing, Alike
  <2>3. PointsAtContact'
    BY <1>5, <1>6, <1>7, <2>1 DEF LeadInv, PointsAtContact
  <2>4. RepeatsAreLinked'
    BY <1>5, <2>1 DEF LeadInv, RepeatsAreLinked, Alike
  <2> QED
    BY <1>1, <1>8, <1>9, <2>2, <2>3, <2>4 DEF LeadInv
<1>11. CASE run[p].found = Null
  <2> DEFINE new == Made(l)
  <2>1. /\ contacts' = contacts \cup {new}
        /\ status'[l] = "created" /\ contact_id'[l] = new
    BY <1>11 DEF Converts, LeadInv, TypeOK
  <2>2. new[1] = l
    BY DEF Made
  <2> HIDE DEF new
  <2>3. StillMissing'
    <3>1. ASSUME NEW q \in Sessions \ {p}, NEW m \in InHand(q), Alike(m, l)
          PROVE  m \in shared \/ l \in shared
      BY <1>2, <3>1 DEF LeadInv, HandsApart
    <3> QED
      BY <1>3, <1>4, <1>5, <2>1, <2>2, <3>1 DEF LeadInv, StillMissing, Alike
  <2>4. PointsAtContact'
    BY <1>5, <1>6, <1>7, <2>1, <2>2 DEF LeadInv, PointsAtContact
  <2>5. RepeatsAreLinked'
    <3>1. \A d \in contacts : Alike(l, d[1]) => l \in shared \/ d[1] \in shared
      BY <1>2, <1>11 DEF LeadInv, StillMissing
    <3> QED
      BY <1>5, <2>1, <2>2, <3>1 DEF LeadInv, RepeatsAreLinked, Alike
  <2> QED
    BY <1>1, <1>8, <1>9, <2>3, <2>4, <2>5 DEF LeadInv
<1> QED
  BY <1>10, <1>11

\* Steps without a lead in hand take none.
LEMMA EmptyHandInv ==
    ASSUME LeadInv, NEW p \in Sessions,
           Deliver(p) \/ Syncs(p) \/ Answers(p) \/ Retries(p) \/ Ends(p)
    PROVE  LeadInv'
<1>1. /\ TypeOK' /\ UNCHANGED <<rows, shared>> /\ run[p] \in Session
      /\ \A q \in Sessions \ {p} : run'[q] = run[q]
  BY EmptyHandTypes DEF LeadInv, TypeOK, Deliver, Syncs, Answers, Retries, Ends, Becomes
<1>2. /\ run'[p].at = "next"
      /\ \/ run'[p].lead = Null
         \/ run'[p].lead = run[p].lead /\ run[p].at = "next"
  <2>1. Idle \in Session /\ Idle.at = "next" /\ Idle.lead = Null
    BY IdleType DEF Idle
  <2>2. CASE Deliver(p)
    <3>1. PICK events \in SUBSET Leads :
              Becomes(p, [Idle EXCEPT !.job = "receive", !.todo = events])
      BY <2>2 DEF Deliver
    <3> QED
      BY <2>1, <3>1 DEF Becomes, LeadInv, TypeOK, Session
  <2>3. CASE Syncs(p)
    BY <2>1, <2>3 DEF Syncs, Becomes, LeadInv, TypeOK, Session
  <2>4. CASE Answers(p)
    <3>1. \/ Becomes(p, Idle)
          \/ Becomes(p, [Idle EXCEPT !.job = "task", !.todo = run[p].new])
      BY <2>4 DEF Answers
    <3>2. ASSUME NEW leads, run'[p] = [Idle EXCEPT !.job = "task", !.todo = leads]
          PROVE  run'[p].lead = Null /\ run'[p].at = "next"
      BY <2>1, <3>2 DEF Session
    <3>3. \/ run'[p] = Idle
          \/ run'[p] = [Idle EXCEPT !.job = "task", !.todo = run[p].new]
      BY <3>1 DEF Becomes, LeadInv, TypeOK
    <3> QED
      BY <2>1, <3>2, <3>3
  <2>5. CASE Retries(p)
    <3>1. PICK ids \in SUBSET Retried :
              Becomes(p, [run[p] EXCEPT !.job = "retry", !.todo = ids])
      BY <2>5 DEF Retries
    <3>2. run[p].at = "next"
      BY <2>5 DEF Retries, At
    <3> QED
      BY <1>1, <3>1, <3>2 DEF Becomes, LeadInv, TypeOK, Session
  <2>6. CASE Ends(p)
    BY <2>1, <2>6 DEF Ends, Becomes, LeadInv, TypeOK
  <2> QED
    BY <2>2, <2>3, <2>4, <2>5, <2>6
<1>3. \A q \in Sessions : InHand(q)' \subseteq InHand(q)
  BY <1>1, <1>2 DEF InHand
<1>4. \A q \in Sessions : run'[q].at = "searched" => run'[q] = run[q]
  BY <1>1, <1>2
<1> QED
  BY <1>1, <1>3, <1>4, LettingGo DEF rows

\* Nor does the search for the leadgen_id, or an insert that fails.
LEMMA LookingInv ==
    ASSUME LeadInv, NEW p \in Sessions, NEW l \in Leads, Looks(p, l) \/ InsertFails(p, l)
    PROVE  LeadInv'
<1>1. /\ TypeOK' /\ UNCHANGED <<rows, shared>> /\ run[p] \in Session
      /\ \A q \in Sessions \ {p} : run'[q] = run[q]
  BY LookingTypes DEF LeadInv, TypeOK, Looks, InsertFails, Becomes
<1>2. run'[p].at # "searched" /\ (run'[p].lead = Null \/ run'[p].at = "insert")
  <2>1. CASE Looks(p, l) /\ status[l] # "none"
    <3>1. Becomes(p, Onward(p, l, run[p].known)) /\ run[p].known \in Status \cup {Null}
      BY <1>1, <2>1 DEF Looks, Session
    <3> QED
      BY <3>1, OnwardType DEF Becomes, LeadInv, TypeOK
  <2>2. CASE Looks(p, l) /\ status[l] = "none"
    BY <1>1, <2>2 DEF Looks, Becomes, LeadInv, TypeOK, Session
  <2>3. CASE InsertFails(p, l)
    BY <2>3, IdleType DEF InsertFails, Becomes, LeadInv, TypeOK, Idle
  <2> QED
    BY <2>1, <2>2, <2>3
<1>3. \A q \in Sessions : InHand(q)' \subseteq InHand(q)
  BY <1>1, <1>2 DEF InHand
<1>4. \A q \in Sessions : run'[q].at = "searched" => run'[q] = run[q]
  BY <1>1, <1>2
<1> QED
  BY <1>1, <1>3, <1>4, LettingGo DEF rows

\* An insert is a new pending row, which a sync takes in hand.
LEMMA InsertsInv ==
    ASSUME LeadInv, NEW p \in Sessions, NEW l \in Leads, Inserts(p, l)
    PROVE  LeadInv'
<1>1. /\ TypeOK' /\ run[p] \in Session
      /\ UNCHANGED <<contacts, contact_id>> /\ status[l] = "none"
      /\ \A q \in Sessions \ {p} : run'[q] = run[q]
      /\ \A m \in Leads :
            \/ status'[m] = status[m]
            \/ status[m] # "created" /\ status'[m] = "pending"
  BY InsertsTypes DEF LeadInv, TypeOK, Inserts, Becomes
<1>2. CASE run[p].job = "receive"
  <2> DEFINE r == Onward(p, l, "pending")
  <2>1. r \in Session /\ r.lead = Null /\ r.at = "next"
    BY OnwardType DEF Status, LeadInv
  <2>2. shared' = shared /\ run'[p] = [r EXCEPT !.new = r.new \cup {l}]
    BY <1>2 DEF Inserts, Becomes, LeadInv, TypeOK
  <2> HIDE DEF r
  <2>3. run'[p].lead = Null /\ run'[p].at = "next"
    BY <2>1, <2>2 DEF Session
  <2>4. \A q \in Sessions : InHand(q)' \subseteq InHand(q)
    BY <1>1, <2>3 DEF InHand
  <2>5. \A q \in Sessions : run'[q].at = "searched" => run'[q] = run[q]
    BY <1>1, <2>3
  <2> QED
    BY <1>1, <2>2, <2>4, <2>5, LettingGo
<1>3. CASE run[p].job # "receive"
  <2>1. run'[p] = [run[p] EXCEPT !.at = "loaded", !.row = l, !.known = "pending"]
    BY <1>3 DEF Inserts, Becomes, LeadInv, TypeOK
  <2>2. run'[p].lead = l /\ run'[p].at = "loaded"
    BY <1>1, <2>1 DEF Inserts, Session
  <2>3. Takes(p, l, "pending")
    BY <1>3 DEF Inserts
  <2> QED
    BY <1>1, <2>2, <2>3, Taking
<1> QED
  BY <1>2, <1>3

\* Reading the row takes the lead in hand, unless it is done.
LEMMA ReadsInv ==
    ASSUME LeadInv, NEW p \in Sessions, NEW l \in Leads, Reads(p, l)
    PROVE  LeadInv'
<1>1. /\ TypeOK' /\ run[p] \in Session /\ UNCHANGED rows
      /\ \A q \in Sessions \ {p} : run'[q] = run[q]
  BY ReadsTypes DEF LeadInv, TypeOK, Reads, Becomes
<1>2. CASE Converted(Seen(p, l))
  <2>1. shared' = shared /\ run'[p] = Onward(p, l, Seen(p, l)) /\ Seen(p, l) \in Status
    BY <1>2 DEF Reads, Becomes, LeadInv, TypeOK, Converted, Status
  <2>2. run'[p].lead = Null /\ run'[p].at = "next"
    BY <2>1, OnwardType DEF LeadInv
  <2>3. \A q \in Sessions : InHand(q)' \subseteq InHand(q)
    BY <1>1, <2>2 DEF InHand
  <2>4. \A q \in Sessions : run'[q].at = "searched" => run'[q] = run[q]
    BY <1>1, <2>2
  <2> QED
    BY <1>1, <2>1, <2>3, <2>4, LettingGo DEF rows
<1>3. CASE ~Converted(Seen(p, l))
  <2>1. run'[p] = [run[p] EXCEPT !.at = "loaded", !.lead = l, !.seen = Seen(p, l)]
    BY <1>3 DEF Reads, Becomes, LeadInv, TypeOK
  <2>2. run'[p].lead = l /\ run'[p].at = "loaded"
    BY <1>1, <2>1 DEF Session
  <2>3. Takes(p, l, Seen(p, l)) /\ Seen(p, l) \notin {"created", "linked"}
    BY <1>3 DEF Reads, Converted
  <2> QED
    BY <1>1, <2>2, <2>3, Taking DEF rows
<1> QED
  BY <1>2, <1>3

\* A failing session keeps the lead in hand until it has marked it.
LEMMA FailsInv ==
    ASSUME LeadInv, NEW p \in Sessions, NEW l \in Leads, Fails(p, l)
    PROVE  LeadInv'
<1>1. /\ TypeOK' /\ run[p] \in Session /\ UNCHANGED <<rows, shared>>
      /\ \A q \in Sessions \ {p} : run'[q] = run[q]
      /\ run[p].at # "insert"
  BY FailsTypes DEF LeadInv, TypeOK, Fails, Becomes
<1>2. run'[p].lead = run[p].lead /\ run'[p].at = "failing"
  <2>1. run'[p] = [run[p] EXCEPT !.at = "failing", !.found = Null, !.known = Null,
                                 !.seen = status[l], !.tries = attempts[l]]
    BY DEF Fails, Becomes, LeadInv, TypeOK
  <2> QED
    BY <1>1, <2>1 DEF Session
<1>3. \A q \in Sessions : InHand(q)' \subseteq InHand(q)
  BY <1>1, <1>2 DEF InHand
<1>4. \A q \in Sessions : run'[q].at = "searched" => run'[q] = run[q]
  BY <1>1, <1>2
<1> QED
  BY <1>1, <1>3, <1>4, LettingGo DEF rows

\* The lead in hand was not converted, or is shared: marking it is safe.
LEMMA MarksFailedInv ==
    ASSUME LeadInv, NEW p \in Sessions, NEW l \in Leads, MarksFailed(p, l)
    PROVE  LeadInv'
<1>1. /\ TypeOK' /\ UNCHANGED <<contact_id, contacts, shared>>
      /\ \A q \in Sessions \ {p} : run'[q] = run[q]
      /\ l \in InHand(p)
  BY MarksFailedTypes DEF LeadInv, TypeOK, MarksFailed, Becomes, At, InHand
<1>2. run'[p].lead = Null /\ run'[p].at = "next"
  <2>1. PICK s \in Status : Becomes(p, Onward(p, l, s))
    BY DEF MarksFailed, FailedAs, Status
  <2> QED
    BY <2>1, OnwardType DEF Becomes, LeadInv, TypeOK
<1>3. l \in shared \/ status[l] # "created"
  BY <1>1 DEF LeadInv, HandsOpen
<1>4. \A m \in Leads :
          \/ status'[m] = status[m]
          \/ m = l /\ status'[m] \in {"pending", "failed"}
  BY DEF MarksFailed, FailedAs, LeadInv, TypeOK
<1>5. \A q \in Sessions : InHand(q)' \subseteq InHand(q)
  BY <1>1, <1>2 DEF InHand
<1>6. \A q \in Sessions : run'[q].at = "searched" => run'[q] = run[q]
  BY <1>1, <1>2
<1> QED
  BY <1>1, <1>3, <1>4, <1>5, <1>6, LettingGo

\* After a crash nobody has a lead in hand.
LEMMA CrashInv == ASSUME LeadInv, Crash PROVE LeadInv'
<1>1. TypeOK' /\ UNCHANGED <<rows, shared>>
  BY CrashTypes DEF LeadInv, Crash
<1>2. \A q \in Sessions : run'[q].lead = Null /\ run'[q].at = "next"
  BY DEF Crash, Idle
<1>3. \A q \in Sessions : InHand(q)' \subseteq InHand(q)
  BY <1>2 DEF InHand
<1>4. \A q \in Sessions : run'[q].at = "searched" => run'[q] = run[q]
  BY <1>2
<1> QED
  BY <1>1, <1>3, <1>4, LettingGo DEF rows

\* The inductive invariant: what sessions have in hand, besides what the
\* database holds (process_lead, convert, _mark_failed).
THEOREM LeadInvariant == Spec => []LeadInv
<1>1. Init => LeadInv
  <2> SUFFICES ASSUME Init PROVE LeadInv
    OBVIOUS
  <2>1. contacts = {} /\ \A q \in Sessions : InHand(q) = {}
    BY DEF Init, Idle, InHand
  <2> QED
    BY <2>1, InitTypes DEF LeadInv, HandsApart, HandsOpen, StillMissing,
       PointsAtContact, RepeatsAreLinked
<1>2. LeadInv /\ [Next]_vars => LeadInv'
  <2> SUFFICES ASSUME LeadInv, [Next]_vars PROVE LeadInv'
    OBVIOUS
  <2>1. CASE UNCHANGED vars
    BY <2>1 DEF LeadInv, TypeOK, HandsApart, HandsOpen, StillMissing, InHand,
       PointsAtContact, RepeatsAreLinked, Alike, vars, rows
  <2>2. ASSUME NEW p \in Sessions, Works(p) \/ Deliver(p) \/ Syncs(p) PROVE LeadInv'
    BY <2>2, EmptyHandInv, LookingInv, InsertsInv, ReadsInv, SearchesInv,
       ConvertsInv, MarksFailedInv DEF Works
  <2> QED
    BY <2>1, <2>2, FailsInv, CrashInv DEF Next
<1> QED
  BY <1>1, <1>2, PTL DEF Spec

\* Redeliveries, retries, syncs, failures and crashes make no second contact of
\* a lead or of a number, where no two sessions process them at once.
THEOREM RepeatsLink == Spec => []RepeatsAreLinked
BY LeadInvariant, PTL DEF LeadInv

\* Such a lead keeps pointing at the contact that was made of it.
THEOREM LeadsKeepContacts == Spec => []PointsAtContact
BY LeadInvariant, PTL DEF LeadInv

\* A late failure (_mark_failed) or a repeated answer takes no such lead back.
THEOREM ConversionStays == Spec => ConvertedStays
<1>1. LeadInv /\ [Next]_vars =>
        [\A l \in Leads \ shared :
            status[l] \in {"created", "linked"} => status'[l] = status[l]]_vars
  <2> SUFFICES ASSUME LeadInv, Next, NEW l \in Leads \ shared,
                      status[l] \in {"created", "linked"}
               PROVE  status'[l] = status[l]
    BY DEF vars
  <2>1. \A p \in Sessions : l \notin InHand(p)
    BY DEF LeadInv, HandsOpen
  <2>2. ASSUME NEW p \in Sessions, NEW m \in Leads, Inserts(p, m)
        PROVE  status'[l] = status[l]
    BY <2>2 DEF Inserts, LeadInv, TypeOK
  <2>3. ASSUME NEW p \in Sessions, NEW m \in Leads, Converts(p, m) \/ MarksFailed(p, m)
        PROVE  status'[l] = status[l]
    <3>1. m # l
      BY <2>1, <2>3 DEF Converts, MarksFailed, At, InHand
    <3> QED
      BY <2>3, <3>1 DEF Converts, MarksFailed, LeadInv, TypeOK
  <2> QED
    BY <2>2, <2>3 DEF Next, Works, Deliver, Syncs, Answers, Retries, Ends, Looks,
       InsertFails, Reads, Searches, Fails, Crash, rows
<1> QED
  BY <1>1, LeadInvariant, PTL DEF Spec, ConvertedStays

\* A conversion of such a lead holds.
THEOREM ConversionsHold == Spec => ConversionHolds
BY LeadsKeepContacts, ConversionStays, PTL DEF ConversionHolds

=============================================================================
