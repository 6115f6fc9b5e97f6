----------------------- MODULE ExtractionQueueProofs -----------------------
(***************************************************************************)
(* Theorems of ExtractionQueue for every backlog, any number of workers    *)
(* and any amount of faults, checked by TLAPS.                             *)
(***************************************************************************)
EXTENDS ExtractionQueue, FiniteSetTheorems, TLAPS

----------------------------------------------------------------------------
(* Type correctness *)

\* Giving an attempt back never leaves the range of the column.
LEMMA RefundType ==
    ASSUME NEW n \in 0..MaxAttempts
    PROVE  Refund(n) \in 0..MaxAttempts
  BY LimitsAssumption DEF Refund

\* Spending from one counter leaves natural numbers in all of them.
LEMMA SpendType ==
    ASSUME budget \in [Kinds -> Nat], NEW k \in Kinds, Spend(k)
    PROVE  budget' \in [Kinds -> Nat]
  BY DEF Spend

\* The session a worker starts from, and returns to.
LEMMA IdleType == Idle \in Session
  BY LimitsAssumption DEF Idle, Session, Stages, NoReply, Reply

\* The session a claim opens.
LEMMA OpenedType ==
    ASSUME TypeOK, NEW batch \in SUBSET Claimable
    PROVE  Opened(batch) \in Session
  <1>1. \A m \in batch : attempts[m] + 1 \in 0..MaxAttempts
    BY LimitsAssumption DEF TypeOK, Claimable, Exhausted
  <1>2. batch \in SUBSET Messages
    BY DEF Claimable
  <1>3. [m \in Messages |-> IF m \in batch THEN attempts[m] + 1 ELSE 0]
            \in [Messages -> 0..MaxAttempts]
    BY <1>1, LimitsAssumption
  <1>4. AllTo(Idle.settled, batch \cap Chatter, "not_listing")
            \in [Messages -> Terminal \cup {"open"}]
    BY IdleType DEF AllTo, Session, Terminal
  <1> QED
    BY IdleType, <1>2, <1>3, <1>4 DEF Opened, Session, Stages

\* A reply of the model, matched to the batch, names messages or NoRef.
LEMMA AlignType ==
    ASSUME NEW asked \in SUBSET Messages, IsFiniteSet(asked),
           NEW n \in 0..Cardinality(asked),
           NEW raw \in [1..n -> asked \cup {NoRef}]
    PROVE  Align(asked, n, raw) \in [Messages -> Reply]
  <1>1. ASSUME NEW m \in asked
        PROVE  Position(m, asked) \in 1..Cardinality(asked)
    <2> DEFINE before == {k \in asked : k <= m}
    <2>1. IsFiniteSet(before) /\ Cardinality(before) <= Cardinality(asked)
      BY FS_Subset
    <2>2. Cardinality(before) \in Nat /\ Cardinality(asked) \in Nat
      BY <2>1, FS_CardinalityType
    <2>3. before # {}
      BY MessagesAssumption
    <2>4. Cardinality(before) # 0
      BY <2>1, <2>3, FS_EmptySet
    <2> QED
      BY <2>1, <2>2, <2>4 DEF Position
  <1> QED
    BY <1>1 DEF Align, NoReply, Reply

\* AllTo, On and Refunded keep the columns' types.
LEMMA ColumnTypes ==
    ASSUME NEW T, NEW f \in [Messages -> T], NEW S
    PROVE  /\ \A v \in T : AllTo(f, S, v) \in [Messages -> T]
           /\ \A g : (\A m \in S : g[m] \in T) => On(f, S, g) \in [Messages -> T]
  BY DEF AllTo, On

LEMMA RefundedType ==
    ASSUME TypeOK, NEW S
    PROVE  Refunded(S) \in [Messages -> 0..MaxAttempts]
  BY RefundType DEF TypeOK, Refunded

\* A session keeps its type when a field gets a value of the field's type.
LEMMA SessionUpdate ==
    ASSUME NEW s \in Session
    PROVE  /\ \A x \in Stages : [s EXCEPT !.stage = x] \in Session
           /\ \A x \in SUBSET Messages : [s EXCEPT !.batch = x] \in Session
           /\ \A x \in SUBSET Messages : [s EXCEPT !.todo = x] \in Session
           /\ \A x \in [Messages -> Reply] : [s EXCEPT !.answer = x] \in Session
           /\ \A x \in SUBSET Property : [s EXCEPT !.props = x] \in Session
           /\ \A x \in SUBSET Sighting : [s EXCEPT !.sights = x] \in Session
           /\ \A x \in [Messages -> Terminal \cup {"open"}] :
                 [s EXCEPT !.settled = x] \in Session
  BY DEF Session

\* Applying one result to a typed session gives a typed session.
LEMMA RecordedType ==
    ASSUME TypeOK, NEW w \in Workers, NEW t \in Messages,
           NEW flats \in SUBSET Flats, NEW known \in SUBSET flats,
           NEW match \in [known -> Visible(w)], NEW m
    PROVE  Recorded(w, m, t, flats, match) \in Session
  <1> DEFINE made == {[flat |-> f, origin |-> t, by |-> w] : f \in flats \ known}
             rows == SightedRows(made, match)
             seen == {[prop |-> p, msg |-> t] : p \in rows}
  <1>1. run[w] \in Session
    BY DEF TypeOK
  <1>2. made \in SUBSET Property
    BY DEF Property
  <1>3. Visible(w) \in SUBSET Property
    BY <1>1 DEF Visible, TypeOK, Session
  <1>4. rows \in SUBSET Property
    BY <1>2, <1>3 DEF SightedRows
  <1>5. Unattached(seen) \in SUBSET Sighting
    <2>1. \A p \in rows : [prop |-> p, msg |-> t] \in Sighting
      BY <1>4 DEF Sighting
    <2> QED
      BY <2>1 DEF Unattached
  <1>6. (IF flats = {} THEN "not_listing"
         ELSE IF flats \ known = {} THEN "duplicate" ELSE "extracted") \in Terminal
    BY DEF Terminal
  <1> DEFINE mark == IF flats = {} THEN "not_listing"
                     ELSE IF flats \ known = {} THEN "duplicate" ELSE "extracted"
             s1 == [run[w] EXCEPT !.props = run[w].props \cup made]
             s2 == [s1 EXCEPT !.sights = run[w].sights \cup Unattached(seen)]
             s3 == [s2 EXCEPT !.settled = [run[w].settled EXCEPT ![t] = mark]]
  <1>7. run[w].props \cup made \in SUBSET Property
        /\ run[w].sights \cup Unattached(seen) \in SUBSET Sighting
    BY <1>1, <1>2, <1>5 DEF Session
  <1>8. [run[w].settled EXCEPT ![t] = mark] \in [Messages -> Terminal \cup {"open"}]
    BY <1>1, <1>6 DEF Session
  <1>9. Recorded(w, m, t, flats, match) = [s3 EXCEPT !.todo = run[w].todo \ {m}]
    <2>1. DOMAIN match = known
      OBVIOUS
    <2> HIDE DEF mark
    <2>2. Recorded(w, m, t, flats, match) =
            [run[w] EXCEPT !.props = @ \cup made,
                           !.sights = @ \cup Unattached(seen),
                           !.settled[t] = mark,
                           !.todo = @ \ {m}]
      BY <2>1 DEF Recorded, mark
    <2> HIDE DEF made, seen, rows
    <2> QED
      BY <1>1, <2>2 DEF Session
  <1> HIDE DEF made, seen, rows, mark
  <1>10. s1 \in Session
    BY <1>1, <1>7, SessionUpdate
  <1>11. s2 \in Session
    BY <1>10, <1>7, SessionUpdate
  <1>12. s3 \in Session
    BY <1>8, <1>11, SessionUpdate
  <1>13. run[w].todo \ {m} \in SUBSET Messages
    BY <1>1 DEF Session
  <1> QED
    BY <1>9, <1>12, <1>13, SessionUpdate

\* Every step of the queue keeps the types.
LEMMA TypeStep ==
    ASSUME TypeOK, [Next]_vars
    PROVE  TypeOK'
  <1> USE DEF TypeOK, queue, inventory
  <1>1. ASSUME NEW w \in Workers, Claim(w) PROVE TypeOK'
    <2> DEFINE batch == Oldest(Claimable, BatchSize)
    <2>1. batch \in SUBSET Claimable /\ batch \in SUBSET Messages
      BY DEF Oldest, Claimable
    <2>2. \A m \in batch : attempts[m] + 1 \in 0..MaxAttempts
      BY LimitsAssumption DEF Oldest, Claimable, Exhausted
    <2>3. Opened(batch) \in Session
      BY <2>1, OpenedType
    <2> HIDE DEF batch
    <2>4. /\ status' = AllTo(status, batch, "processing")
          /\ attempts' = [m \in Messages |-> IF m \in batch THEN attempts[m] + 1
                                                           ELSE attempts[m]]
          /\ claimed_at' = AllTo(claimed_at, batch, "fresh")
          /\ run' = [run EXCEPT ![w] = Opened(batch)]
          /\ UNCHANGED <<properties, sources, owner, budget>>
      BY <1>1 DEF Claim, batch
    <2> QED
      BY <2>2, <2>3, <2>4 DEF AllTo, Status, Age
  <1>2. ASSUME NEW w \in Workers, Extracted(w) PROVE TypeOK'
    <2>1. Asked(w) \in SUBSET Messages /\ IsFiniteSet(Asked(w))
      BY MessagesAssumption, FS_Subset DEF Asked, Session
    <2>2. ASSUME NEW answer \in [Messages -> Reply], GotAnswer(w, answer)
          PROVE  run' \in [Workers -> Session]
      <3> DEFINE s1 == [run[w] EXCEPT !.stage = "applying"]
                 s2 == [s1 EXCEPT !.answer = answer]
      <3>1. s1 \in Session
        BY SessionUpdate DEF Stages
      <3>2. s2 \in Session
        BY <3>1, <2>2, SessionUpdate
      <3>3. [s2 EXCEPT !.todo = Asked(w)] \in Session
        BY <3>2, <2>1, SessionUpdate
      <3> QED
        BY <2>2, <3>3 DEF GotAnswer
    <2>3. Answered(Asked(w)) \in [Messages -> Reply]
      BY <2>1 DEF Answered, NoReply, Reply
    <2>4. \A n \in 0..Cardinality(Asked(w)) :
            \A raw \in [1..n -> Asked(w) \cup {NoRef}] :
               Align(Asked(w), n, raw) \in [Messages -> Reply]
      BY <2>1, AlignType
    <2>5. run' \in [Workers -> Session]
      BY <1>2, <2>2, <2>3, <2>4 DEF Extracted
    <2>6. budget' \in [Kinds -> Nat]
      BY <1>2, SpendType DEF Extracted, Kinds
    <2> QED
      BY <1>2, <2>5, <2>6 DEF Extracted
  <1>3. ASSUME NEW w \in Workers, NEW charge \in BOOLEAN, Release(w, charge),
               budget' \in [Kinds -> Nat]
        PROVE  TypeOK'
    <2>1. attempts' \in [Messages -> 0..MaxAttempts]
      BY <1>3, RefundedType DEF Release
    <2>2. claimed_at' \in [Messages -> Age]
      BY <1>3 DEF Release, AllTo, Age
    <2>3. status' \in [Messages -> Status]
      BY <1>3 DEF Release, Status, Terminal
    <2> QED
      BY <1>3, <2>1, <2>2, <2>3, IdleType DEF Release
  <1>4. ASSUME NEW w \in Workers, ExtractRateLimited(w) \/ ExtractFails(w)
        PROVE  TypeOK'
    <2>1. budget' \in [Kinds -> Nat]
      BY <1>4, SpendType DEF ExtractRateLimited, ExtractFails, Kinds
    <2> QED
      BY <1>3, <1>4, <2>1 DEF ExtractRateLimited, ExtractFails
  <1>5. ASSUME NEW w \in Workers, ApplySkips(w) PROVE TypeOK'
    <2>1. PICK m : run' = [run EXCEPT ![w] = Skipped(w, m)]
      BY <1>5 DEF ApplySkips
    <2>2. run[w].todo \ {m} \in SUBSET Messages
      BY DEF Session
    <2>3. Skipped(w, m) \in Session
      BY <2>2, SessionUpdate DEF Skipped
    <2> QED
      BY <1>5, <2>1, <2>3 DEF ApplySkips
  <1>6. ASSUME NEW w \in Workers, Apply(w) PROVE TypeOK'
    <2>1. PICK m \in run[w].todo :
             LET reply == run[w].answer[m]
                 t == reply.ref
                 flats == IF reply.read THEN FlatsOf[t] ELSE {}
                 known == {f \in flats : \E p \in Visible(w) : p.flat = f}
             IN  /\ t \in Asked(w)
                 /\ \E match \in [known -> Visible(w)] :
                       run' = [run EXCEPT ![w] = Recorded(w, m, t, flats, match)]
      BY <1>6 DEF Apply
    <2> DEFINE t == run[w].answer[m].ref
               flats == IF run[w].answer[m].read THEN FlatsOf[t] ELSE {}
               known == {f \in flats : \E p \in Visible(w) : p.flat = f}
    <2>2. t \in Messages
      BY <2>1 DEF Asked, Session
    <2>3. flats \in SUBSET Flats /\ known \in SUBSET flats
      BY <2>2, FlatsAssumption
    <2> HIDE DEF flats, known, t
    <2>4. PICK match \in [known -> Visible(w)] :
             run' = [run EXCEPT ![w] = Recorded(w, m, t, flats, match)]
      BY <2>1 DEF flats, known, t
    <2>5. Recorded(w, m, t, flats, match) \in Session
      BY <2>2, <2>3, <2>4, RecordedType
    <2>6. run' \in [Workers -> Session]
      BY <2>4, <2>5
    <2> QED
      BY <1>6, <2>6 DEF Apply
  <1>7. ASSUME NEW w \in Workers, ApplyFails(w) PROVE TypeOK'
    <2>1. status' \in [Messages -> Status] /\ claimed_at' \in [Messages -> Age]
      BY <1>7 DEF ApplyFails, Status, Terminal, Age
    <2>2. budget' \in [Kinds -> Nat]
      BY <1>7, SpendType DEF ApplyFails, Kinds
    <2> QED
      BY <1>7, <2>1, <2>2, IdleType DEF ApplyFails
  <1>8. ASSUME NEW w \in Workers, Commit(w) PROVE TypeOK'
    <2> DEFINE done == {m \in run[w].batch : run[w].settled[m] # "open"}
    <2>1. run[w] \in Session
      OBVIOUS
    <2>2. \A m \in done : m \in Messages /\ run[w].settled[m] \in Status
      BY <2>1 DEF Session, Status
    <2> HIDE DEF done
    <2>3. status' = On(status, done, run[w].settled)
          /\ claimed_at' = AllTo(claimed_at, done, "none")
      BY <1>8 DEF Commit, done
    <2>4. status' \in [Messages -> Status]
      BY <2>2, <2>3 DEF On
    <2>5. claimed_at' \in [Messages -> Age]
      BY <2>3 DEF AllTo, Age
    <2>6. properties' \in SUBSET Property /\ sources' \in SUBSET Sighting
      BY <1>8, <2>1 DEF Commit, Persisted, Session
    <2> QED
      BY <1>8, <2>4, <2>5, <2>6, IdleType DEF Commit
  <1>9. ASSUME NEW w \in Workers, CommitConflicts(w) PROVE TypeOK'
    BY <1>9, IdleType DEF CommitConflicts
  <1>10. ASSUME NEW w \in Workers, ReclaimSelect(w) PROVE TypeOK'
    <2> DEFINE s1 == [run[w] EXCEPT !.stage = "reclaiming"]
               stalled == {m \in Messages : Stalled(m)}
    <2>1. s1 \in Session
      BY SessionUpdate DEF Stages
    <2>2. [s1 EXCEPT !.batch = stalled] \in Session
      BY <2>1, SessionUpdate
    <2> QED
      BY <1>10, <2>2 DEF ReclaimSelect
  <1>11. ASSUME NEW w \in Workers, ReclaimUpdate(w) PROVE TypeOK'
    <2>1. attempts' \in [Messages -> 0..MaxAttempts]
      BY <1>11, RefundedType DEF ReclaimUpdate
    <2> QED
      BY <1>11, <2>1, IdleType DEF ReclaimUpdate, AllTo, Status, Age
  <1>12. ASSUME NEW w \in Workers, Crash(w) PROVE TypeOK'
    <2>1. budget' \in [Kinds -> Nat]
      BY <1>12, SpendType DEF Crash, Kinds
    <2> QED
      BY <1>12, <2>1, IdleType DEF Crash
  <1>13. ASSUME NEW m \in Messages, ClaimAges(m) PROVE TypeOK'
    BY <1>13 DEF ClaimAges, Age
  <1>14. ASSUME NEW m \in Messages, OwnerReadsOne(m) PROVE TypeOK'
    <2>1. budget' \in [Kinds -> Nat]
      BY <1>14, SpendType DEF OwnerReadsOne, Kinds
    <2> QED
      BY <1>14, <2>1 DEF OwnerReadsOne, OwnerRequest
  <1>15. ASSUME OwnerReadsFailed PROVE TypeOK'
    <2>1. budget' \in [Kinds -> Nat]
      BY <1>15, SpendType DEF OwnerReadsFailed, Kinds
    <2>2. owner' \in OwnerRequest
      BY <1>15, LimitsAssumption DEF OwnerReadsFailed, OwnerRequest, Status, Terminal
    <2> QED
      BY <1>15, <2>1, <2>2 DEF OwnerReadsFailed
  <1>16. ASSUME OwnerWrites PROVE TypeOK'
    <2>1. OwnerIdle \in OwnerRequest
      BY LimitsAssumption DEF OwnerIdle, OwnerRequest, Status
    <2>2. 0 \in 0..MaxAttempts
      BY LimitsAssumption
    <2> QED
      BY <1>16, <2>1, <2>2
         DEF OwnerWrites, OwnerWritesOne, OwnerWritesFailed, AllTo, Status, Age
  <1>17. CASE UNCHANGED vars
    BY <1>17 DEF vars
  <1> QED
    BY <1>1, <1>2, <1>4, <1>5, <1>6, <1>7, <1>8, <1>9, <1>10, <1>11, <1>12,
       <1>13, <1>14, <1>15, <1>16, <1>17 DEF Next, Works

\* The queue's columns, sessions and inventory always have their types: in
\* particular attempts never leaves 0..MAX_EXTRACTION_ATTEMPTS, whatever
\* refunds, rewinds and double claims happen.
THEOREM TypeCorrect == Spec => []TypeOK
  <1>1. Init => TypeOK
    BY IdleType, LimitsAssumption, BudgetAssumption
       DEF Init, TypeOK, Status, Age, OwnerIdle, OwnerRequest
  <1>2. TypeOK /\ [Next]_vars => TypeOK'
    BY TypeStep
  <1> QED
    BY <1>1, <1>2, PTL DEF Spec

----------------------------------------------------------------------------
(* The inductive invariant                                                 *)
(*                                                                         *)
(* WholeMessages speaks of committed rows only, and is not inductive: a    *)
(* commit adds what a session holds.  The invariant therefore says the     *)
(* same of every session, seen together with the committed rows.           *)

Listed == {"extracted", "duplicate"}

\* Every flat of m is sighted in S.
Covers(S, m) == \A f \in FlatsOf[m] : \E x \in S : x.msg = m /\ x.prop.flat = f

\* A message with a sighting in S lists its flat, and has all its flats in S.
Whole(S) == \A x \in S : x.prop.flat \in FlatsOf[x.msg] /\ Covers(S, x.msg)

\* What a session may commit: whole messages, a status only for recorded
\* ones, and a row only together with a sighting.
Sound(s) ==
    /\ Whole(sources \cup s.sights)
    /\ \A m \in Messages : s.settled[m] \in Listed => Covers(sources \cup s.sights, m)
    /\ \A p \in s.props : \E x \in sources \cup s.sights : x.prop = p
    /\ \A x \in s.sights : x.prop \in properties \cup s.props

CommittedWhole ==
    /\ Whole(sources)
    /\ \A m \in Messages : status[m] \in Listed => Covers(sources, m)
    /\ EveryRowIsSighted

IInv == TypeOK /\ CommittedWhole /\ \A w \in Workers : Sound(run[w])

\* A session with nothing in it is sound.
LEMMA EmptySound ==
    ASSUME CommittedWhole, NEW s \in Session, s.sights = {}, s.props = {},
           \A m \in Messages : s.settled[m] \notin Listed
    PROVE  Sound(s)
  BY DEF CommittedWhole, Sound, Whole, Covers

LEMMA IdleSound ==
    ASSUME CommittedWhole
    PROVE  Sound(Idle)
  BY IdleType, EmptySound DEF Idle, Listed

\* Soundness depends on three fields of the session only.
LEMMA SameSound ==
    ASSUME NEW s, NEW r, Sound(s),
           r.sights = s.sights, r.props = s.props, r.settled = s.settled
    PROVE  Sound(r)
  BY DEF Sound

\* More sightings cover at least as much.
LEMMA MoreCovers ==
    ASSUME NEW S, NEW T, NEW m, Covers(S, m) \/ Covers(T, m)
    PROVE  Covers(S \cup T, m)
  BY DEF Covers

\* Two whole sets of sightings are whole together.
LEMMA WholeUnion ==
    ASSUME NEW S, NEW T, Whole(S), Whole(T)
    PROVE  Whole(S \cup T)
  <1> SUFFICES ASSUME NEW x \in S \cup T
               PROVE  x.prop.flat \in FlatsOf[x.msg] /\ Covers(S \cup T, x.msg)
    BY DEF Whole
  <1>1. x.prop.flat \in FlatsOf[x.msg] /\ (Covers(S, x.msg) \/ Covers(T, x.msg))
    BY DEF Whole
  <1> QED
    BY <1>1, MoreCovers

\* A step that leaves the inventory alone, records no new status, and changes
\* one session into a sound one, keeps the invariant.
LEMMA QuietStep ==
    ASSUME IInv, TypeOK', UNCHANGED inventory,
           \A m \in Messages : status'[m] \in Listed => status'[m] = status[m],
           NEW w \in Workers, NEW s, Sound(s), run' = [run EXCEPT ![w] = s]
    PROVE  IInv'
  <1>1. CommittedWhole'
    BY DEF IInv, CommittedWhole, inventory, EveryRowIsSighted, Whole, Covers
  <1>2. ASSUME NEW v \in Workers PROVE Sound(run'[v])
    BY DEF IInv, TypeOK
  <1>3. ASSUME NEW v \in Workers PROVE Sound(run[v])'
    <2>1. sources' = sources /\ properties' = properties
      BY DEF inventory
    <2> QED
      BY <1>2, <2>1 DEF Sound
  <1> QED
    BY <1>1, <1>3 DEF IInv

\* Applying one result to a sound session gives a sound session.
LEMMA RecordedSound ==
    ASSUME IInv, NEW w \in Workers, NEW m, NEW t \in Messages,
           NEW flats \in SUBSET Flats, flats \in {{}, FlatsOf[t]},
           NEW known \in SUBSET flats,
           NEW match \in [known -> Visible(w)], \A f \in known : match[f].flat = f
    PROVE  Sound(Recorded(w, m, t, flats, match))
  <1> DEFINE made == {[flat |-> f, origin |-> t, by |-> w] : f \in flats \ known}
             rows == made \cup {match[f] : f \in known}
             seen == {[prop |-> p, msg |-> t] : p \in rows}
             r == Recorded(w, m, t, flats, match)
  <1>1. run[w] \in Session /\ Sound(run[w])
    BY DEF IInv, TypeOK
  <1>2. DOMAIN match = known
    OBVIOUS
  <1>3. /\ r.sights = run[w].sights \cup (seen \ sources)
        /\ r.props = run[w].props \cup made
        /\ r.settled = [run[w].settled EXCEPT ![t] =
                           IF flats = {} THEN "not_listing"
                           ELSE IF flats \ known = {} THEN "duplicate" ELSE "extracted"]
    BY <1>1, <1>2 DEF Recorded, SightedRows, Unattached, Session
  <1> DEFINE all == sources \cup run[w].sights
  <1>4. sources \cup r.sights = all \cup seen
    BY <1>3
  <1> HIDE DEF r
  <1>5. ASSUME NEW f \in flats PROVE \E p \in rows : p.flat = f
    <2>1. CASE f \in known
      <3>1. match[f] \in rows /\ match[f].flat = f
        BY <2>1
      <3> QED
        BY <3>1
    <2>2. CASE f \notin known
      <3>1. [flat |-> f, origin |-> t, by |-> w] \in rows
        BY <2>2
      <3> QED
        BY <3>1
    <2> QED
      BY <2>1, <2>2
  <1>6. \A p \in rows : p.flat \in flats
    OBVIOUS
  <1> HIDE DEF rows
  <1>7. ASSUME NEW f \in flats PROVE \E x \in seen : x.msg = t /\ x.prop.flat = f
    <2>1. PICK p \in rows : p.flat = f
      BY <1>5
    <2>2. [prop |-> p, msg |-> t] \in seen
      OBVIOUS
    <2> QED
      BY <2>1, <2>2
  <1>8. \A x \in seen : x.msg = t /\ x.prop \in rows /\ x.prop.flat \in flats
    BY <1>6
  <1>9. Whole(seen)
    BY <1>7, <1>8 DEF Whole, Covers
  <1>10. Whole(all \cup seen)
    BY <1>1, <1>9, WholeUnion DEF Sound
  <1>11. flats # {} => Covers(seen, t)
    BY <1>7 DEF Covers
  <1>12. ASSUME NEW k \in Messages, r.settled[k] \in Listed
         PROVE  Covers(all \cup seen, k)
    <2>1. CASE k = t
      <3>1. flats # {}
        BY <1>1, <1>3, <1>12, <2>1 DEF Session, Listed
      <3> QED
        BY <2>1, <3>1, <1>11 DEF Covers
    <2>2. CASE k # t
      <3>1. run[w].settled[k] \in Listed
        BY <1>1, <1>3, <1>12, <2>2 DEF Session
      <3> QED
        BY <3>1, <1>1 DEF Sound, Covers
    <2> QED
      BY <2>1, <2>2
  <1>13. ASSUME NEW p \in made PROVE \E x \in seen : x.prop = p
    <2>1. [prop |-> p, msg |-> t] \in seen
      BY DEF rows
    <2> QED
      BY <2>1
  <1>14. \A p \in rows : p \in properties \cup run[w].props \cup made
    BY DEF rows, Visible
  <1>15. \A p \in r.props : \E x \in all \cup seen : x.prop = p
    BY <1>1, <1>3, <1>13 DEF Sound
  <1>16. \A x \in r.sights : x.prop \in properties \cup r.props
    BY <1>1, <1>3, <1>8, <1>14 DEF Sound
  <1> HIDE DEF seen, made, all
  <1> QED
    BY <1>4, <1>10, <1>12, <1>15, <1>16 DEF Sound, r

\* Committing a sound session keeps the inventory whole, and the sessions of
\* the other workers sound.
LEMMA CommitStep ==
    ASSUME IInv, TypeOK', NEW w \in Workers, Commit(w)
    PROVE  IInv'
  <1> DEFINE mine == run[w].sights
             done == {m \in run[w].batch : run[w].settled[m] # "open"}
  <1>1. /\ sources' = sources \cup mine
        /\ properties' = properties \cup run[w].props
        /\ run' = [run EXCEPT ![w] = Idle]
        /\ status' = On(status, done, run[w].settled)
    BY DEF Commit, Persisted
  <1>2. run \in [Workers -> Session] /\ run[w] \in Session /\ Sound(run[w])
    BY DEF IInv, TypeOK
  <1>3. Whole(sources')
    BY <1>1, <1>2 DEF Sound
  <1>4. ASSUME NEW m \in Messages, status'[m] \in Listed PROVE Covers(sources', m)
    <2>1. CASE m \in done
      BY <1>1, <1>2, <1>4, <2>1 DEF On, Sound
    <2>2. CASE m \notin done
      <3>1. status[m] \in Listed
        BY <1>1, <1>4, <2>2 DEF On
      <3>2. Covers(sources, m)
        BY <3>1 DEF IInv, CommittedWhole
      <3> QED
        BY <1>1, <3>2, MoreCovers
    <2> QED
      BY <2>1, <2>2
  <1>5. properties' = {x.prop : x \in sources'}
    <2>1. properties = {x.prop : x \in sources}
      BY DEF IInv, CommittedWhole, EveryRowIsSighted
    <2>2. \A p \in properties' : \E x \in sources' : x.prop = p
      BY <1>1, <1>2, <2>1 DEF Sound
    <2>3. \A x \in sources' : x.prop \in properties'
      BY <1>1, <1>2, <2>1 DEF Sound
    <2> QED
      BY <2>2, <2>3
  <1>6. CommittedWhole'
    BY <1>3, <1>4, <1>5 DEF CommittedWhole, EveryRowIsSighted
  <1>7. ASSUME NEW v \in Workers, v # w PROVE Sound(run[v])'
    <2> DEFINE theirs == run[v].sights
    <2>1. run'[v] = run[v] /\ Sound(run[v])
      BY <1>1, <1>2, <1>7 DEF IInv
    <2>2. sources' \cup theirs = (sources \cup mine) \cup (sources \cup theirs)
      BY <1>1
    <2>3. Whole(sources' \cup theirs)
      BY <1>2, <2>1, <2>2, WholeUnion DEF Sound
    <2>4. ASSUME NEW m \in Messages, run[v].settled[m] \in Listed
          PROVE  Covers(sources' \cup theirs, m)
      <3>1. Covers(sources \cup theirs, m)
        BY <2>1, <2>4 DEF Sound
      <3> QED
        BY <2>2, <3>1, MoreCovers
    <2>5. \A p \in run[v].props : \E x \in sources' \cup theirs : x.prop = p
      BY <1>1, <2>1 DEF Sound
    <2>6. \A x \in theirs : x.prop \in properties' \cup run[v].props
      BY <1>1, <2>1 DEF Sound
    <2> QED
      BY <2>1, <2>3, <2>4, <2>5, <2>6 DEF Sound
  <1>8. Sound(run[w])'
    <2>1. run'[w] = Idle
      BY <1>1, <1>2
    <2>2. Idle.sights = {} /\ Idle.props = {}
          /\ \A m \in Messages : Idle.settled[m] = "open"
      BY DEF Idle
    <2>3. sources' \cup {} = sources'
      OBVIOUS
    <2> QED
      BY <1>3, <2>1, <2>2, <2>3 DEF Sound, Listed
  <1> QED
    BY <1>6, <1>7, <1>8 DEF IInv

\* Every step keeps the invariant.
LEMMA InvStep ==
    ASSUME IInv, [Next]_vars
    PROVE  IInv'
  <1>1. TypeOK /\ TypeOK' /\ CommittedWhole
    BY TypeStep DEF IInv
  <1>2. \A w \in Workers : run[w] \in Session /\ Sound(run[w])
    BY DEF IInv, TypeOK
  <1>3. Sound(Idle)
    BY <1>1, IdleSound
  <1>4. ASSUME NEW w \in Workers, Claim(w) PROVE IInv'
    <2> DEFINE batch == Oldest(Claimable, BatchSize)
    <2>1. batch \in SUBSET Claimable
      BY DEF Oldest
    <2>2. Opened(batch) \in Session
      BY <1>1, <2>1, OpenedType
    <2>3. /\ Opened(batch).sights = {} /\ Opened(batch).props = {}
          /\ Opened(batch).settled = AllTo(Idle.settled, batch \cap Chatter, "not_listing")
      BY DEF Opened, Idle
    <2>4. \A m \in Messages : Opened(batch).settled[m] \notin Listed
      BY <2>3 DEF AllTo, Idle, Listed
    <2>5. Sound(Opened(batch))
      BY <1>1, <2>2, <2>3, <2>4, EmptySound
    <2>6. /\ status' = AllTo(status, batch, "processing")
          /\ run' = [run EXCEPT ![w] = Opened(batch)]
          /\ UNCHANGED inventory
      BY <1>4 DEF Claim
    <2> HIDE DEF batch
    <2>7. \A m \in Messages : status'[m] \in Listed => status'[m] = status[m]
      BY <2>6 DEF AllTo, Listed
    <2> QED
      BY <1>1, <2>5, <2>6, <2>7, QuietStep
  <1>5. ASSUME NEW w \in Workers, Extracted(w) PROVE IInv'
    <2>1. PICK answer : GotAnswer(w, answer)
      BY <1>5 DEF Extracted
    <2> DEFINE s == [run[w] EXCEPT !.stage = "applying", !.answer = answer,
                                   !.todo = Asked(w)]
    <2>2. run' = [run EXCEPT ![w] = s]
      BY <2>1 DEF GotAnswer
    <2>3. s.sights = run[w].sights /\ s.props = run[w].props
          /\ s.settled = run[w].settled
      BY <1>2 DEF Session
    <2> HIDE DEF s
    <2>4. Sound(s)
      BY <1>2, <2>3, SameSound
    <2> QED
      BY <1>1, <1>5, <2>2, <2>4, QuietStep DEF Extracted, queue
  <1>6. ASSUME NEW w \in Workers, ExtractRateLimited(w) \/ ExtractFails(w)
        PROVE  IInv'
    <2>1. PICK charge \in BOOLEAN : Release(w, charge)
      BY <1>6 DEF ExtractRateLimited, ExtractFails
    <2>2. \A m \in Messages : status'[m] \in Listed => status'[m] = status[m]
      BY <2>1 DEF Release, Listed
    <2> QED
      BY <1>1, <1>3, <2>1, <2>2, QuietStep DEF Release
  <1>7. ASSUME NEW w \in Workers, ApplySkips(w) PROVE IInv'
    <2>1. PICK m : run' = [run EXCEPT ![w] = Skipped(w, m)]
      BY <1>7 DEF ApplySkips
    <2>2. Skipped(w, m).sights = run[w].sights /\ Skipped(w, m).props = run[w].props
          /\ Skipped(w, m).settled = run[w].settled
      BY <1>2 DEF Skipped, Session
    <2>3. Sound(Skipped(w, m))
      BY <1>2, <2>2, SameSound
    <2> QED
      BY <1>1, <1>7, <2>1, <2>3, QuietStep DEF ApplySkips, queue
  <1>8. ASSUME NEW w \in Workers, Apply(w) PROVE IInv'
    <2>1. PICK m \in run[w].todo :
             LET reply == run[w].answer[m]
                 t == reply.ref
                 flats == IF reply.read THEN FlatsOf[t] ELSE {}
                 known == {f \in flats : \E p \in Visible(w) : p.flat = f}
             IN  /\ t \in Asked(w)
                 /\ \E match \in [known -> Visible(w)] :
                       /\ \A f \in known : match[f].flat = f
                       /\ run' = [run EXCEPT ![w] = Recorded(w, m, t, flats, match)]
      BY <1>8 DEF Apply
    <2> DEFINE t == run[w].answer[m].ref
               flats == IF run[w].answer[m].read THEN FlatsOf[t] ELSE {}
               known == {f \in flats : \E p \in Visible(w) : p.flat = f}
    <2>2. t \in Messages
      BY <1>2, <2>1 DEF Asked, Session
    <2>3. flats \in SUBSET Flats /\ known \in SUBSET flats
          /\ flats \in {{}, FlatsOf[t]}
      BY <2>2, FlatsAssumption
    <2> HIDE DEF flats, known, t
    <2>4. PICK match \in [known -> Visible(w)] :
             /\ \A f \in known : match[f].flat = f
             /\ run' = [run EXCEPT ![w] = Recorded(w, m, t, flats, match)]
      BY <2>1 DEF flats, known, t
    <2>5. Sound(Recorded(w, m, t, flats, match))
      BY <2>2, <2>3, <2>4, RecordedSound
    <2> QED
      BY <1>1, <1>8, <2>4, <2>5, QuietStep DEF Apply, queue
  <1>9. ASSUME NEW w \in Workers, ApplyFails(w) PROVE IInv'
    <2>1. \A m \in Messages : status'[m] \in Listed => status'[m] = status[m]
      BY <1>1, <1>9 DEF ApplyFails, Listed, TypeOK
    <2> QED
      BY <1>1, <1>3, <1>9, <2>1, QuietStep DEF ApplyFails
  <1>10. ASSUME NEW w \in Workers, Commit(w) PROVE IInv'
    BY <1>1, <1>10, CommitStep
  <1>11. ASSUME NEW w \in Workers, CommitConflicts(w) \/ Crash(w) PROVE IInv'
    BY <1>1, <1>3, <1>11, QuietStep DEF CommitConflicts, Crash, queue
  <1>12. ASSUME NEW w \in Workers, ReclaimSelect(w) PROVE IInv'
    <2> DEFINE s == [run[w] EXCEPT !.stage = "reclaiming",
                                   !.batch = {m \in Messages : Stalled(m)}]
    <2>1. run' = [run EXCEPT ![w] = s]
      BY <1>12 DEF ReclaimSelect
    <2>2. s.sights = run[w].sights /\ s.props = run[w].props
          /\ s.settled = run[w].settled
      BY <1>2 DEF Session
    <2> HIDE DEF s
    <2>3. Sound(s)
      BY <1>2, <2>2, SameSound
    <2> QED
      BY <1>1, <1>12, <2>1, <2>3, QuietStep DEF ReclaimSelect, queue
  <1>13. ASSUME NEW w \in Workers, ReclaimUpdate(w) PROVE IInv'
    <2>1. \A m \in Messages : status'[m] \in Listed => status'[m] = status[m]
      BY <1>13 DEF ReclaimUpdate, AllTo, Listed
    <2> QED
      BY <1>1, <1>3, <1>13, <2>1, QuietStep DEF ReclaimUpdate
  <1>14. ASSUME UNCHANGED <<inventory, run>>,
                \A m \in Messages : status'[m] \in Listed => status'[m] = status[m]
         PROVE  IInv'
    <2>1. sources' = sources /\ properties' = properties /\ run' = run
      BY <1>14 DEF inventory
    <2>2. CommittedWhole'
      BY <1>1, <1>14, <2>1 DEF CommittedWhole, EveryRowIsSighted
    <2>3. \A w \in Workers : Sound(run[w])'
      BY <1>2, <2>1 DEF Sound
    <2> QED
      BY <1>1, <2>2, <2>3 DEF IInv
  <1>15. ASSUME NEW m \in Messages, ClaimAges(m) \/ OwnerReadsOne(m) PROVE IInv'
    BY <1>14, <1>15 DEF ClaimAges, OwnerReadsOne, queue
  <1>16. ASSUME OwnerReadsFailed PROVE IInv'
    BY <1>14, <1>16 DEF OwnerReadsFailed, queue
  <1>17. ASSUME OwnerWrites PROVE IInv'
    <2>1. \A m \in Messages : status'[m] \in Listed => status'[m] = status[m]
      BY <1>17 DEF OwnerWrites, OwnerWritesOne, OwnerWritesFailed, AllTo, Listed
    <2> QED
      BY <1>14, <1>17, <2>1 DEF OwnerWrites, OwnerWritesOne, OwnerWritesFailed
  <1>18. CASE UNCHANGED vars
    BY <1>14, <1>18 DEF vars, inventory
  <1> QED
    BY <1>4, <1>5, <1>6, <1>7, <1>8, <1>9, <1>10, <1>11, <1>12, <1>13, <1>15,
       <1>16, <1>17, <1>18 DEF Next, Works

\* The empty inventory of a backlog satisfies the invariant.
LEMMA InvInit == Init => IInv
  <1> SUFFICES ASSUME Init PROVE IInv
    OBVIOUS
  <1>1. TypeOK
    BY IdleType, LimitsAssumption, BudgetAssumption
       DEF Init, TypeOK, Status, Age, OwnerIdle, OwnerRequest
  <1>2. CommittedWhole
    BY DEF Init, CommittedWhole, EveryRowIsSighted, Whole, Covers, Listed
  <1>3. \A w \in Workers : Sound(run[w])
    BY <1>2, IdleSound DEF Init
  <1> QED
    BY <1>1, <1>2, <1>3 DEF IInv

LEMMA InvAlways == Spec => []IInv
  <1>1. IInv /\ [Next]_vars => IInv'
    BY InvStep
  <1> QED
    BY <1>1, InvInit, PTL DEF Spec

----------------------------------------------------------------------------
(* The theorems *)

\* No crash, conflict, rewind or double claim leaves a message half in the
\* inventory.
THEOREM MessagesAreWhole == Spec => []WholeMessages
  <1>1. IInv => WholeMessages
    <2> SUFFICES ASSUME Whole(sources), NEW m \in Messages, FlatsSeenIn(m) # {}
                 PROVE  FlatsSeenIn(m) = FlatsOf[m]
      BY DEF IInv, CommittedWhole, WholeMessages
    <2>1. PICK x \in sources : x.msg = m
      BY DEF FlatsSeenIn
    <2>2. \A f \in FlatsOf[m] : \E y \in sources : y.msg = m /\ y.prop.flat = f
      BY <2>1 DEF Whole, Covers
    <2>3. \A y \in sources : y.msg = m => y.prop.flat \in FlatsOf[m]
      BY DEF Whole
    <2> QED
      BY <2>2, <2>3 DEF FlatsSeenIn
  <1> QED
    BY <1>1, InvAlways, PTL

\* A message shown as extracted or merged has all its flats in the inventory.
THEOREM SettledMessagesAreRecorded == Spec => []SettledIsRecorded
  <1>1. IInv => SettledIsRecorded
    <2> SUFFICES ASSUME Whole(sources), NEW m \in Messages, Covers(sources, m)
                 PROVE  FlatsSeenIn(m) = FlatsOf[m]
      BY DEF IInv, CommittedWhole, SettledIsRecorded, Listed
    <2>1. \A y \in sources : y.msg = m => y.prop.flat \in FlatsOf[m]
      BY DEF Whole
    <2> QED
      BY <2>1 DEF FlatsSeenIn, Covers
  <1> QED
    BY <1>1, InvAlways, PTL

\* A property row is there exactly when some message is recorded as its source.
THEOREM RowsAreSighted == Spec => []EveryRowIsSighted
  <1>1. IInv => EveryRowIsSighted
    BY DEF IInv, CommittedWhole
  <1> QED
    BY <1>1, InvAlways, PTL

\* Together: what is committed is whole, recorded and sighted.
THEOREM CommittedIsWhole == Spec => []InventoryIsWhole
  BY MessagesAreWhole, SettledMessagesAreRecorded, RowsAreSighted, PTL DEF InventoryIsWhole

----------------------------------------------------------------------------
(* Refinement: every step is a Record step of MessageLedger, or a stutter *)

Pairs(S) == {<<x.msg, x.prop.flat>> : x \in S}

\* A whole set of sightings, as pairs, is all the flats of its messages.
LEMMA PairsOfWhole ==
    ASSUME NEW S, Whole(S)
    PROVE  Pairs(S) = Ledger!FlatsOfAll({x.msg : x \in S})
  <1>1. ASSUME NEW x \in S
        PROVE  <<x.msg, x.prop.flat>> \in Ledger!FlatsOfAll({y.msg : y \in S})
    <2>1. x.prop.flat \in FlatsOf[x.msg]
      BY DEF Whole
    <2> QED
      BY <2>1 DEF Ledger!FlatsOfAll
  <1>2. ASSUME NEW m \in {x.msg : x \in S}, NEW f \in FlatsOf[m]
        PROVE  <<m, f>> \in Pairs(S)
    <2>1. PICK x \in S : x.msg = m
      OBVIOUS
    <2>2. PICK y \in S : y.msg = m /\ y.prop.flat = f
      BY <2>1 DEF Whole, Covers
    <2> QED
      BY <2>2 DEF Pairs
  <1> QED
    BY <1>1, <1>2 DEF Pairs, Ledger!FlatsOfAll

\* Only a commit touches the committed sightings.
LEMMA SourcesChange ==
    ASSUME [Next]_vars, sources' # sources
    PROVE  \E w \in Workers : Commit(w)
  BY DEF Next, Works, Claim, Extracted, ExtractFails, Release, ApplySkips, Apply,
         CommitConflicts, ReclaimUpdate, ReclaimSelect, ExtractRateLimited,
         ApplyFails, Crash, ClaimAges, OwnerReadsOne, OwnerReadsFailed,
         OwnerWrites, OwnerWritesOne, OwnerWritesFailed, inventory, vars

\* The queue implements the ledger: the inventory grows by whole messages.
THEOREM QueueRefinesLedger == Spec => RefinesLedger
  <1>1. Init => Ledger!Init
    BY DEF Init, Ledger!Init
  <1>2. IInv /\ [Next]_vars => [Ledger!Next]_(Pairs(sources))
    <2> SUFFICES ASSUME IInv, [Next]_vars, Pairs(sources)' # Pairs(sources)
                 PROVE  Ledger!Next
      OBVIOUS
    <2>1. PICK w \in Workers : Commit(w)
      BY SourcesChange DEF Pairs
    <2> DEFINE all == sources \cup run[w].sights
               S == {x.msg : x \in all}
    <2>2. sources' = all /\ Whole(all)
      BY <2>1 DEF Commit, Persisted, IInv, Sound
    <2>3. S \in SUBSET Messages
      BY DEF IInv, TypeOK, Session, Sighting
    <2>4. Pairs(all) = Ledger!FlatsOfAll(S)
      BY <2>2, PairsOfWhole
    <2>5. Pairs(sources) \subseteq Pairs(all)
      BY DEF Pairs
    <2>6. Pairs(sources)' = Pairs(sources) \cup Ledger!FlatsOfAll(S)
      BY <2>2, <2>4, <2>5 DEF Pairs
    <2> HIDE DEF S
    <2> QED
      BY <2>3, <2>6 DEF Ledger!Next, Ledger!Record, Pairs
  <1>3. [Ledger!Next]_(Pairs(sources)) =>
            [Ledger!Next]_({<<s.msg, s.prop.flat>> : s \in sources})
    BY DEF Pairs
  <1> QED
    BY <1>1, <1>2, <1>3, InvAlways, PTL DEF Spec, RefinesLedger, Ledger!Spec

----------------------------------------------------------------------------
(* One worker never duplicates inventory *)

\* Committed rows and a session's own are of different flats.
Unique(s) == \A p, q \in properties \cup s.props : p.flat = q.flat => p = q

\* Applying a result inserts a row only for a flat that has none yet.
LEMMA RecordedUnique ==
    ASSUME NEW w \in Workers, run[w] \in Session, Unique(run[w]), NEW m, NEW t,
           NEW flats, NEW known, known = {f \in flats : \E p \in Visible(w) : p.flat = f},
           NEW match \in [known -> Visible(w)]
    PROVE  Unique(Recorded(w, m, t, flats, match))
  <1> DEFINE made == {[flat |-> f, origin |-> t, by |-> w] : f \in flats \ known}
  <1>1. DOMAIN match = known
    OBVIOUS
  <1>2. Recorded(w, m, t, flats, match).props = run[w].props \cup made
    BY <1>1 DEF Recorded, Session
  <1>3. \A p \in made : p.flat \in flats \ known
    OBVIOUS
  <1>4. \A p \in made : \A q \in Visible(w) : p.flat # q.flat
    BY <1>3
  <1>5. \A p, q \in made : p.flat = q.flat => p = q
    OBVIOUS
  <1> HIDE DEF made
  <1> QED
    BY <1>2, <1>4, <1>5 DEF Unique, Visible

UniqueInv == TypeOK /\ OneListingPerFlat /\ \A w \in Workers : Unique(run[w])

\* With one worker, every step keeps one row per flat.
LEMMA UniqueStep ==
    ASSUME UniqueInv, [Next]_vars, \A v, w \in Workers : v = w
    PROVE  UniqueInv'
  <1>1. TypeOK /\ TypeOK' /\ OneListingPerFlat
    BY TypeStep DEF UniqueInv
  <1>2. run \in [Workers -> Session] /\ \A w \in Workers : Unique(run[w])
    BY DEF UniqueInv, TypeOK
  <1>3. ASSUME properties' = properties,
               NEW w \in Workers, NEW s, Unique(s), run' = [run EXCEPT ![w] = s]
        PROVE  UniqueInv'
    <2>1. OneListingPerFlat'
      BY <1>1, <1>3 DEF OneListingPerFlat
    <2>2. \A v \in Workers : Unique(run'[v])
      BY <1>2, <1>3
    <2>3. \A v \in Workers : Unique(run[v])'
      BY <1>3, <2>2 DEF Unique
    <2> QED
      BY <1>1, <2>1, <2>3 DEF UniqueInv
  <1>4. Unique(Idle)
    BY <1>1 DEF Unique, Idle, OneListingPerFlat
  <1>5. ASSUME NEW s, NEW w \in Workers, s.props = run[w].props PROVE Unique(s)
    BY <1>2, <1>5 DEF Unique
  <1>6. ASSUME NEW w \in Workers, Claim(w) PROVE UniqueInv'
    <2> DEFINE batch == Oldest(Claimable, BatchSize)
    <2>1. Opened(batch).props = {}
      BY DEF Opened, Idle
    <2>2. Unique(Opened(batch))
      BY <1>1, <2>1 DEF Unique, OneListingPerFlat
    <2> QED
      BY <1>3, <1>6, <2>2 DEF Claim, inventory
  <1>7. ASSUME NEW w \in Workers, Extracted(w) PROVE UniqueInv'
    <2>1. PICK answer : GotAnswer(w, answer)
      BY <1>7 DEF Extracted
    <2> DEFINE s == [run[w] EXCEPT !.stage = "applying", !.answer = answer,
                                   !.todo = Asked(w)]
    <2>2. run' = [run EXCEPT ![w] = s]
      BY <2>1 DEF GotAnswer
    <2>3. s.props = run[w].props
      BY <1>2 DEF Session
    <2> HIDE DEF s
    <2> QED
      BY <1>3, <1>5, <1>7, <2>2, <2>3 DEF Extracted, inventory
  <1>8. ASSUME NEW w \in Workers, ExtractRateLimited(w) \/ ExtractFails(w)
        PROVE  UniqueInv'
    BY <1>3, <1>4, <1>8 DEF ExtractRateLimited, ExtractFails, Release, inventory
  <1>9. ASSUME NEW w \in Workers, ApplySkips(w) PROVE UniqueInv'
    <2>1. PICK m : run' = [run EXCEPT ![w] = Skipped(w, m)]
      BY <1>9 DEF ApplySkips
    <2>2. Skipped(w, m).props = run[w].props
      BY <1>2 DEF Skipped, Session
    <2> QED
      BY <1>3, <1>5, <1>9, <2>1, <2>2 DEF ApplySkips, inventory
  <1>10. ASSUME NEW w \in Workers, Apply(w) PROVE UniqueInv'
    <2>1. PICK m \in run[w].todo :
             LET reply == run[w].answer[m]
                 t == reply.ref
                 flats == IF reply.read THEN FlatsOf[t] ELSE {}
                 known == {f \in flats : \E p \in Visible(w) : p.flat = f}
             IN  \E match \in [known -> Visible(w)] :
                       run' = [run EXCEPT ![w] = Recorded(w, m, t, flats, match)]
      BY <1>10 DEF Apply
    <2> DEFINE t == run[w].answer[m].ref
               flats == IF run[w].answer[m].read THEN FlatsOf[t] ELSE {}
               known == {f \in flats : \E p \in Visible(w) : p.flat = f}
    <2> HIDE DEF flats, t
    <2>2. PICK match \in [known -> Visible(w)] :
             run' = [run EXCEPT ![w] = Recorded(w, m, t, flats, match)]
      BY <2>1 DEF flats, t
    <2>3. Unique(Recorded(w, m, t, flats, match))
      BY <1>2, <2>2, RecordedUnique
    <2> QED
      BY <1>3, <1>10, <2>2, <2>3 DEF Apply, inventory
  <1>11. ASSUME NEW w \in Workers, ApplyFails(w) \/ CommitConflicts(w) \/ Crash(w)
                                   \/ ReclaimUpdate(w)
         PROVE  UniqueInv'
    BY <1>3, <1>4, <1>11
       DEF ApplyFails, CommitConflicts, Crash, ReclaimUpdate, inventory
  <1>12. ASSUME NEW w \in Workers, Commit(w) PROVE UniqueInv'
    <2>1. properties' = properties \cup run[w].props /\ run' = [run EXCEPT ![w] = Idle]
      BY <1>12 DEF Commit
    <2>2. OneListingPerFlat'
      BY <1>2, <2>1 DEF Unique, OneListingPerFlat
    <2>3. \A v \in Workers : run'[v] = Idle
      BY <1>2, <2>1
    <2>4. \A v \in Workers : Unique(run[v])'
      BY <2>2, <2>3 DEF Unique, OneListingPerFlat, Idle
    <2> QED
      BY <1>1, <2>2, <2>4 DEF UniqueInv
  <1>13. ASSUME NEW w \in Workers, ReclaimSelect(w) PROVE UniqueInv'
    <2> DEFINE s == [run[w] EXCEPT !.stage = "reclaiming",
                                   !.batch = {m \in Messages : Stalled(m)}]
    <2>1. run' = [run EXCEPT ![w] = s]
      BY <1>13 DEF ReclaimSelect
    <2>2. s.props = run[w].props
      BY <1>2 DEF Session
    <2> HIDE DEF s
    <2> QED
      BY <1>3, <1>5, <1>13, <2>1, <2>2 DEF ReclaimSelect, inventory
  <1>14. ASSUME UNCHANGED <<inventory, run>> PROVE UniqueInv'
    <2>1. properties' = properties /\ run' = run
      BY <1>14 DEF inventory
    <2> QED
      BY <1>1, <1>2, <2>1 DEF UniqueInv, OneListingPerFlat, Unique
  <1>15. ASSUME NEW m \in Messages, ClaimAges(m) \/ OwnerReadsOne(m) PROVE UniqueInv'
    BY <1>14, <1>15 DEF ClaimAges, OwnerReadsOne
  <1>16. ASSUME OwnerReadsFailed \/ OwnerWrites PROVE UniqueInv'
    BY <1>14, <1>16 DEF OwnerReadsFailed, OwnerWrites, OwnerWritesOne, OwnerWritesFailed
  <1>17. CASE UNCHANGED vars
    BY <1>14, <1>17 DEF vars, inventory
  <1> QED
    BY <1>6, <1>7, <1>8, <1>9, <1>10, <1>11, <1>12, <1>13, <1>15, <1>16, <1>17
       DEF Next, Works

\* One extraction loop, with any faults and any rewinds by the owner, never
\* creates two rows for one flat.  The run QueueDuplicates shows that two do.
THEOREM OneWorkerOneListing ==
    ASSUME \A v, w \in Workers : v = w
    PROVE  Spec => []OneListingPerFlat
  <1>1. Init => UniqueInv
    <2> SUFFICES ASSUME Init PROVE UniqueInv
      OBVIOUS
    <2>1. TypeOK
      BY InvInit DEF IInv
    <2> QED
      BY <2>1 DEF Init, UniqueInv, OneListingPerFlat, Unique, Idle
  <1>2. UniqueInv /\ [Next]_vars => UniqueInv'
    BY UniqueStep
  <1>3. UniqueInv => OneListingPerFlat
    BY DEF UniqueInv
  <1> QED
    BY <1>1, <1>2, <1>3, PTL DEF Spec


----------------------------------------------------------------------------
(* No two live workers hold one message *)

\* What keeps two workers apart besides SKIP LOCKED: a batch is over before its
\* claims are stale, whoever fails gives back all it claimed, and nobody
\* reopens a claimed message.  Only calls of the model may fail then, in any
\* number, and those only where no settled chatter is left behind in a batch.
ClaimsAreGivenBack ==
    /\ ~LongBatches
    /\ \A k \in {"crash", "apply", "misread", "owner"} : Budget[k] = 0
    /\ \/ Chatter = {}
       \/ Unreadable = {} /\ Budget["net"] = 0 /\ Budget["rate"] = 0

\* A session holds rows that are claimed and fresh; what of them is not to be
\* applied any more is settled, and each answer is about its own message.
Holds(s) ==
    /\ s.stage \in {"idle", "extracting", "applying"}
    /\ s.stage = "idle" => s.batch = {} /\ s.sights = {}
    /\ s.stage = "extracting" => s.sights = {}
    /\ \A m \in s.batch \ Chatter :
          s.stage = "applying" =>
             /\ s.answer[m].ref = m
             /\ m \notin s.todo => s.settled[m] # "open"
    /\ s.todo \subseteq s.batch \ Chatter
    /\ \A m \in s.batch \cap Chatter : s.settled[m] # "open"
    /\ \A x \in s.sights : x.msg \in s.batch /\ x \notin sources

\* A row in process is in the hands of one worker.
OneHolder ==
    /\ \A m \in Messages :
          status[m] = "processing" => \E w \in Workers : m \in run[w].batch
    /\ \A w \in Workers : \A m \in run[w].batch :
          status[m] = "processing" /\ claimed_at[m] = "fresh"
    /\ \A v, w \in Workers : v # w => run[v].batch \cap run[w].batch = {}

\* No fault has happened but those of the model, and no request of the owner.
Undisturbed ==
    /\ budget["crash"] = 0 /\ budget["apply"] = 0
    /\ budget["misread"] = 0 /\ budget["owner"] = 0
    /\ Chatter # {} => Unreadable = {} /\ budget["net"] = 0 /\ budget["rate"] = 0
    /\ owner = OwnerIdle

ClaimInv == TypeOK /\ OneHolder /\ Undisturbed /\ \A w \in Workers : Holds(run[w])

LEMMA IdleHolds == Holds(Idle)
  BY DEF Holds, Idle

\* What a worker does to its own session, with the rows it has claimed.
LEMMA SessionMoves ==
    ASSUME ClaimInv, TypeOK', Undisturbed',
           NEW w \in Workers, NEW s, Holds(s), s.batch = run[w].batch,
           run' = [run EXCEPT ![w] = s], UNCHANGED <<status, claimed_at, sources>>
    PROVE  ClaimInv'
  <1>1. run \in [Workers -> Session]
    BY DEF ClaimInv, TypeOK
  <1>2. run'[w] = s /\ \A v \in Workers : v # w => run'[v] = run[v]
    BY <1>1
  <1>3. \A v \in Workers : run'[v].batch = run[v].batch
    BY <1>2
  <1>4. OneHolder'
    BY <1>3 DEF ClaimInv, OneHolder
  <1>5. \A v \in Workers : Holds(run'[v])
    BY <1>2 DEF ClaimInv
  <1>6. \A v \in Workers : Holds(run[v])'
    BY <1>5 DEF Holds
  <1> QED
    BY <1>4, <1>6 DEF ClaimInv

\* A worker ends its batch, and none of its rows stays in process.
LEMMA BatchEnds ==
    ASSUME ClaimInv, TypeOK', Undisturbed',
           NEW w \in Workers, run' = [run EXCEPT ![w] = Idle],
           \A m \in run[w].batch : status'[m] # "processing",
           \A m \in Messages \ run[w].batch :
              status'[m] = status[m] /\ claimed_at'[m] = claimed_at[m],
           sources' \subseteq sources \cup run[w].sights
    PROVE  ClaimInv'
  <1>1. run \in [Workers -> Session]
    BY DEF ClaimInv, TypeOK
  <1>2. run'[w] = Idle /\ \A v \in Workers : v # w => run'[v] = run[v]
    BY <1>1
  <1>3. Idle.batch = {}
    BY DEF Idle
  <1>4. \A v \in Workers : run[v].batch \subseteq Messages
    BY <1>1 DEF Session
  <1>5. \A v \in Workers : v # w => run[v].batch \cap run[w].batch = {}
    BY DEF ClaimInv, OneHolder
  <1>6. OneHolder'
    <2>1. ASSUME NEW m \in Messages, status'[m] = "processing"
          PROVE  \E v \in Workers : m \in run'[v].batch
      <3>1. m \notin run[w].batch /\ status[m] = "processing"
        BY <2>1
      <3>2. PICK v \in Workers : m \in run[v].batch
        BY <3>1 DEF ClaimInv, OneHolder
      <3> QED
        BY <1>2, <3>1, <3>2
    <2>2. ASSUME NEW v \in Workers, NEW m \in run'[v].batch
          PROVE  status'[m] = "processing" /\ claimed_at'[m] = "fresh"
      <3>1. v # w /\ m \in run[v].batch
        BY <1>2, <1>3, <2>2
      <3>2. m \in Messages \ run[w].batch
        BY <1>4, <1>5, <3>1
      <3> QED
        BY <3>1, <3>2 DEF ClaimInv, OneHolder
    <2>3. \A u, v \in Workers : u # v => run'[u].batch \cap run'[v].batch = {}
      BY <1>2, <1>3 DEF ClaimInv, OneHolder
    <2> QED
      BY <2>1, <2>2, <2>3 DEF OneHolder
  <1>7. ASSUME NEW v \in Workers PROVE Holds(run[v])'
    <2>1. CASE v = w
      BY <1>2, <2>1 DEF Holds, Idle
    <2>2. CASE v # w
      <3>1. run'[v] = run[v] /\ Holds(run[v]) /\ Holds(run[w])
        BY <1>2, <2>2 DEF ClaimInv
      <3>2. \A x \in run[v].sights : x \notin sources'
        BY <1>5, <2>2, <3>1 DEF Holds
      <3> QED
        BY <3>1, <3>2 DEF Holds
    <2> QED
      BY <2>1, <2>2
  <1> QED
    BY <1>6, <1>7 DEF ClaimInv

\* Claiming takes rows that nobody holds.
LEMMA ClaimTakes ==
    ASSUME ClaimInv, TypeOK', NEW w \in Workers, Claim(w)
    PROVE  ClaimInv'
  <1> DEFINE batch == Oldest(Claimable, BatchSize)
  <1>1. run \in [Workers -> Session] /\ status \in [Messages -> Status]
        /\ claimed_at \in [Messages -> Age]
    BY DEF ClaimInv, TypeOK
  <1>2. /\ batch \subseteq Messages
        /\ \A m \in batch : status[m] = "pending"
    BY DEF Oldest, Claimable
  <1>3. /\ status' = AllTo(status, batch, "processing")
        /\ claimed_at' = AllTo(claimed_at, batch, "fresh")
        /\ run' = [run EXCEPT ![w] = Opened(batch)]
        /\ sources' = sources /\ owner' = owner /\ budget' = budget
        /\ run[w].stage = "idle"
    BY DEF Claim, inventory
  <1> DEFINE s == Opened(batch)
  <1>4. /\ s.batch = batch /\ s.sights = {} /\ s.todo = {}
        /\ s.stage = IF batch \subseteq Chatter THEN "applying" ELSE "extracting"
        /\ s.settled = AllTo(Idle.settled, batch \cap Chatter, "not_listing")
    BY DEF Opened, Idle
  <1>5. \A m \in batch \cap Chatter : s.settled[m] # "open"
    BY <1>2, <1>4 DEF AllTo
  <1> HIDE DEF batch, s
  <1>6. Holds(s)
    BY <1>4, <1>5 DEF Holds
  <1>7. run'[w] = s /\ \A v \in Workers : v # w => run'[v] = run[v]
    BY <1>1, <1>3 DEF s
  <1>8. run[w].batch = {} /\ \A v \in Workers : run[v].batch \cap batch = {}
    BY <1>2, <1>3 DEF ClaimInv, OneHolder, Holds
  <1>9. \A m \in Messages :
           /\ status'[m] = IF m \in batch THEN "processing" ELSE status[m]
           /\ claimed_at'[m] = IF m \in batch THEN "fresh" ELSE claimed_at[m]
    BY <1>3 DEF AllTo
  <1>10. OneHolder'
    <2>1. ASSUME NEW m \in Messages, status'[m] = "processing"
          PROVE  \E v \in Workers : m \in run'[v].batch
      <3>1. CASE m \in batch
        BY <1>4, <1>7, <3>1
      <3>2. CASE m \notin batch
        <4>1. PICK v \in Workers : m \in run[v].batch
          BY <1>9, <2>1, <3>2 DEF ClaimInv, OneHolder
        <4> QED
          BY <1>7, <1>8, <4>1
      <3> QED
        BY <3>1, <3>2
    <2>2. ASSUME NEW v \in Workers, NEW m \in run'[v].batch
          PROVE  status'[m] = "processing" /\ claimed_at'[m] = "fresh"
      <3>1. CASE v = w
        BY <1>2, <1>4, <1>7, <1>9, <2>2, <3>1
      <3>2. CASE v # w
        <4>1. m \in run[v].batch /\ m \in Messages
          BY <1>1, <1>7, <2>2, <3>2 DEF Session
        <4> QED
          BY <1>8, <1>9, <4>1 DEF ClaimInv, OneHolder
      <3> QED
        BY <3>1, <3>2
    <2>3. \A u, v \in Workers : u # v => run'[u].batch \cap run'[v].batch = {}
      BY <1>4, <1>7, <1>8 DEF ClaimInv, OneHolder
    <2> QED
      BY <2>1, <2>2, <2>3 DEF OneHolder
  <1>11. \A v \in Workers : Holds(run[v])'
    <2>1. \A v \in Workers : Holds(run'[v])
      BY <1>6, <1>7 DEF ClaimInv
    <2> QED
      BY <1>3, <2>1 DEF Holds
  <1>12. Undisturbed'
    BY <1>3 DEF ClaimInv, Undisturbed
  <1> QED
    BY <1>10, <1>11, <1>12 DEF ClaimInv

\* Nothing that Undisturbed rules out is spent.
LEMMA Spent ==
    ASSUME ClaimInv, NEW k \in Kinds, Spend(k), owner' = owner
    PROVE  /\ k \in {"net", "rate"} /\ Chatter = {}
           /\ Undisturbed'
  <1>1. budget \in [Kinds -> Nat]
    BY DEF ClaimInv, TypeOK
  <1>2. k \in {"net", "rate"} /\ Chatter = {}
    BY DEF ClaimInv, Undisturbed, Spend, Kinds
  <1>3. \A j \in Kinds : j # k => budget'[j] = budget[j]
    BY <1>1 DEF Spend
  <1> QED
    BY <1>2, <1>3 DEF ClaimInv, Undisturbed, Kinds

\* One result is applied: its message is settled, and nobody else's.
LEMMA RecordedHolds ==
    ASSUME ClaimInv, NEW w \in Workers, run[w].stage = "applying",
           NEW m \in run[w].todo, NEW flats, NEW known,
           NEW match \in [known -> Visible(w)]
    PROVE  /\ Holds(Recorded(w, m, m, flats, match))
           /\ Recorded(w, m, m, flats, match).batch = run[w].batch
  <1> DEFINE made == {[flat |-> f, origin |-> m, by |-> w] : f \in flats \ DOMAIN match}
             seen == {[prop |-> p, msg |-> m] : p \in SightedRows(made, match)}
             r == Recorded(w, m, m, flats, match)
             verdict == IF flats = {} THEN "not_listing"
                        ELSE IF flats \ DOMAIN match = {} THEN "duplicate" ELSE "extracted"
  <1>1. run[w] \in Session /\ Holds(run[w])
    BY DEF ClaimInv, TypeOK
  <1>2. /\ r.stage = run[w].stage /\ r.batch = run[w].batch /\ r.answer = run[w].answer
        /\ r.todo = run[w].todo \ {m}
        /\ r.settled = [run[w].settled EXCEPT ![m] = verdict]
        /\ r.sights = run[w].sights \cup Unattached(seen)
    BY <1>1 DEF Recorded, Session
  <1>3. verdict # "open"
    OBVIOUS
  <1>4. \A x \in Unattached(seen) : x.msg = m /\ x \notin sources
    <2> DEFINE shown == SightedRows(made, match)
    <2> HIDE DEF shown
    <2>1. seen = {[prop |-> p, msg |-> m] : p \in shown}
      BY DEF shown
    <2> HIDE DEF seen
    <2>2. \A x \in seen : x.msg = m
      BY <2>1
    <2> QED
      BY <2>2 DEF Unattached
  <1>5. m \in run[w].batch \ Chatter /\ run[w].batch \subseteq Messages
    BY <1>1 DEF Holds, Session
  <1>6. run[w].settled \in [Messages -> Terminal \cup {"open"}]
    BY <1>1 DEF Session
  <1> HIDE DEF r, seen, verdict
  <1>7. r.settled[m] # "open" /\ \A k \in Messages : k # m => r.settled[k] = run[w].settled[k]
    BY <1>2, <1>3, <1>5, <1>6
  <1>8. \A x \in r.sights : x.msg \in run[w].batch /\ x \notin sources
    BY <1>1, <1>2, <1>4, <1>5 DEF Holds
  <1>9. Holds(r)
    BY <1>1, <1>2, <1>5, <1>7, <1>8 DEF Holds
  <1> QED
    BY <1>2, <1>9 DEF r

\* Every step of a day on which claims are given back keeps the claims apart.
LEMMA ClaimStep ==
    ASSUME ClaimInv, ~LongBatches, [Next]_vars
    PROVE  ClaimInv'
  <1>1. TypeOK /\ TypeOK'
    BY TypeStep DEF ClaimInv
  <1>2. run \in [Workers -> Session] /\ \A w \in Workers : Holds(run[w])
    BY DEF ClaimInv, TypeOK
  <1>3. \A k \in {"crash", "apply", "misread", "owner"} : ~Spend(k)
    BY DEF ClaimInv, Undisturbed, Spend
  <1>4. \A w \in Workers : ~Conflict(w)
    BY <1>2 DEF Conflict, Holds
  <1>5. ASSUME UNCHANGED <<budget, owner>> PROVE Undisturbed'
    BY <1>5 DEF ClaimInv, Undisturbed
  <1>6. ASSUME NEW w \in Workers, Claim(w) PROVE ClaimInv'
    BY <1>1, <1>6, ClaimTakes
  <1>7. ASSUME NEW w \in Workers, Extracted(w) PROVE ClaimInv'
    <2>1. GotAnswer(w, Answered(Asked(w))) /\ UNCHANGED budget
          /\ UNCHANGED <<queue, inventory, owner>> /\ run[w].stage = "extracting"
      BY <1>3, <1>7 DEF Extracted
    <2> DEFINE s == [run[w] EXCEPT !.stage = "applying", !.answer = Answered(Asked(w)),
                                   !.todo = Asked(w)]
    <2>2. run' = [run EXCEPT ![w] = s]
      BY <2>1 DEF GotAnswer
    <2>3. /\ s.stage = "applying" /\ s.batch = run[w].batch /\ s.sights = run[w].sights
          /\ s.todo = run[w].batch \ Chatter /\ s.settled = run[w].settled
          /\ s.answer = Answered(run[w].batch \ Chatter)
      BY <1>2 DEF Session, Asked
    <2>4. \A m \in run[w].batch \ Chatter : s.answer[m].ref = m
      BY <1>2, <2>3 DEF Answered, Session
    <2> HIDE DEF s
    <2>5. Holds(s)
      <3>1. Holds(run[w])
        BY <1>2
      <3>2. \A m \in s.batch \ Chatter : m \in s.todo /\ s.answer[m].ref = m
        BY <2>3, <2>4
      <3>3. s.sights = {}
        BY <2>1, <2>3, <3>1 DEF Holds
      <3>4. \A m \in s.batch \cap Chatter : s.settled[m] # "open"
        BY <2>3, <3>1 DEF Holds
      <3>5. s.stage = "applying" /\ s.todo \subseteq s.batch \ Chatter
        BY <2>3
      <3> QED
        BY <3>2, <3>3, <3>4, <3>5 DEF Holds
    <2> QED
      BY <1>1, <1>5, <2>1, <2>2, <2>3, <2>5, SessionMoves DEF queue, inventory
  <1>8. ASSUME NEW w \in Workers, ExtractRateLimited(w) \/ ExtractFails(w)
        PROVE  ClaimInv'
    <2>1. \E charge : Release(w, charge)
      BY <1>8 DEF ExtractRateLimited, ExtractFails
    <2>2. PICK charge : Release(w, charge)
      BY <2>1
    <2>3. Chatter = {} /\ Undisturbed'
      <3>1. owner' = owner
        BY <2>2 DEF Release
      <3>2. CASE Spend("net") \/ Spend("rate")
        BY <3>1, <3>2, Spent DEF Kinds
      <3>3. CASE Asked(w) \cap Unreadable # {} /\ UNCHANGED budget
        <4>1. Chatter = {}
          BY <3>3 DEF ClaimInv, Undisturbed
        <4> QED
          BY <1>5, <3>1, <3>3, <4>1
      <3> QED
        BY <1>8, <3>2, <3>3 DEF ExtractRateLimited, ExtractFails
    <2>4. Asked(w) = run[w].batch
      BY <2>3 DEF Asked
    <2>5. \A m \in Messages : status'[m] =
             IF m \notin run[w].batch THEN status[m]
             ELSE IF charge /\ Exhausted(attempts[m]) THEN "failed" ELSE "pending"
      BY <2>2, <2>4 DEF Release
    <2>6. run[w].batch \subseteq Messages
      BY <1>2 DEF Session
    <2>7. \A m \in run[w].batch : status'[m] # "processing"
      BY <2>5, <2>6
    <2>8. \A m \in Messages \ run[w].batch :
             status'[m] = status[m] /\ claimed_at'[m] = claimed_at[m]
      <3>1. claimed_at' = AllTo(claimed_at, run[w].batch, "none")
        BY <2>2, <2>4 DEF Release
      <3> QED
        BY <2>5, <3>1 DEF AllTo
    <2>9. run' = [run EXCEPT ![w] = Idle] /\ sources' = sources
      BY <2>2 DEF Release, inventory
    <2> QED
      BY <1>1, <2>3, <2>7, <2>8, <2>9, BatchEnds
  <1>9. ASSUME NEW w \in Workers, ApplySkips(w) PROVE ClaimInv'
    <2>1. PICK m \in run[w].todo : run[w].answer[m].ref \notin Asked(w)
      BY <1>9 DEF ApplySkips
    <2>2. run[w].stage = "applying"
      BY <1>9 DEF ApplySkips
    <2>3. FALSE
      BY <1>2, <2>1, <2>2 DEF Holds, Asked
    <2> QED
      BY <2>3
  <1>10. ASSUME NEW w \in Workers, Apply(w) PROVE ClaimInv'
    <2>1. run[w].stage = "applying"
          /\ UNCHANGED <<queue, inventory, owner, budget>>
      BY <1>10 DEF Apply
    <2>2. PICK m \in run[w].todo :
             LET reply == run[w].answer[m]
                 t == reply.ref
                 flats == IF reply.read THEN FlatsOf[t] ELSE {}
                 known == {f \in flats : \E p \in Visible(w) : p.flat = f}
             IN  \E match \in [known -> Visible(w)] :
                       run' = [run EXCEPT ![w] = Recorded(w, m, t, flats, match)]
      BY <1>10 DEF Apply
    <2> DEFINE flats == IF run[w].answer[m].read THEN FlatsOf[m] ELSE {}
               known == {f \in flats : \E p \in Visible(w) : p.flat = f}
    <2>3. run[w].answer[m].ref = m
      BY <1>2, <2>1 DEF Holds
    <2> HIDE DEF flats
    <2>4. PICK match \in [known -> Visible(w)] :
             run' = [run EXCEPT ![w] = Recorded(w, m, m, flats, match)]
      BY <2>2, <2>3 DEF flats
    <2> HIDE DEF known
    <2>5. /\ Holds(Recorded(w, m, m, flats, match))
          /\ Recorded(w, m, m, flats, match).batch = run[w].batch
      BY <2>1, RecordedHolds
    <2>6. UNCHANGED <<status, claimed_at, sources>> /\ Undisturbed'
      BY <1>5, <2>1 DEF queue, inventory
    <2> QED
      BY <1>1, <2>4, <2>5, <2>6, SessionMoves
  <1>11. ASSUME NEW w \in Workers,
                ApplyFails(w) \/ CommitConflicts(w) \/ Crash(w) \/ ReclaimUpdate(w)
         PROVE  ClaimInv'
    BY <1>2, <1>3, <1>4, <1>11
       DEF ApplyFails, CommitConflicts, Crash, ReclaimUpdate, Holds
  <1>12. ASSUME NEW w \in Workers, Commit(w) PROVE ClaimInv'
    <2> DEFINE done == {m \in run[w].batch : run[w].settled[m] # "open"}
    <2>1. run[w].stage = "applying" /\ run[w].todo = {}
          /\ status' = On(status, done, run[w].settled)
          /\ claimed_at' = AllTo(claimed_at, done, "none")
          /\ sources' = sources \cup run[w].sights
          /\ run' = [run EXCEPT ![w] = Idle] /\ owner' = owner /\ budget' = budget
      BY <1>12 DEF Commit, Persisted
    <2>2. done = run[w].batch
      BY <1>2, <2>1 DEF Holds
    <2>3. run[w].batch \subseteq Messages
          /\ run[w].settled \in [Messages -> Terminal \cup {"open"}]
      BY <1>2 DEF Session
    <2>4. \A m \in run[w].batch : run[w].settled[m] # "open"
      BY <2>2
    <2> HIDE DEF done
    <2>5. \A m \in run[w].batch : status'[m] = run[w].settled[m]
      BY <2>1, <2>2, <2>3 DEF On
    <2>6. \A m \in run[w].batch : status'[m] # "processing"
      BY <2>3, <2>4, <2>5 DEF Terminal
    <2>7. \A m \in Messages \ run[w].batch :
             status'[m] = status[m] /\ claimed_at'[m] = claimed_at[m]
      BY <2>1, <2>2 DEF On, AllTo
    <2> QED
      BY <1>1, <1>5, <2>1, <2>6, <2>7, BatchEnds
  <1>13. ASSUME NEW w \in Workers, ReclaimSelect(w) PROVE ClaimInv'
    <2>1. PICK m \in Messages : Stalled(m)
      BY <1>13 DEF ReclaimSelect
    <2>2. FALSE
      BY <2>1 DEF Stalled, ClaimInv, OneHolder
    <2> QED
      BY <2>2
  <1>14. ASSUME UNCHANGED <<status, sources, run, owner, budget>>,
                \A w \in Workers : \A m \in run[w].batch : claimed_at'[m] = claimed_at[m]
         PROVE  ClaimInv'
    <2>1. OneHolder'
      BY <1>14 DEF ClaimInv, OneHolder
    <2>2. \A w \in Workers : Holds(run[w])'
      BY <1>2, <1>14 DEF Holds
    <2> QED
      BY <1>1, <1>5, <1>14, <2>1, <2>2 DEF ClaimInv
  <1>15. ASSUME NEW m \in Messages, ClaimAges(m) PROVE ClaimInv'
    <2>1. UNCHANGED <<status, sources, run, owner, budget>>
      BY <1>15 DEF ClaimAges, inventory
    <2>2. \A w \in Workers : m \notin run[w].batch
      BY <1>15 DEF ClaimAges
    <2>3. claimed_at' = [claimed_at EXCEPT ![m] = "stale"]
      BY <1>15 DEF ClaimAges
    <2>4. claimed_at \in [Messages -> Age] /\ \A w \in Workers : run[w].batch \subseteq Messages
      BY <1>1, <1>2 DEF TypeOK, Session
    <2>5. \A w \in Workers : \A k \in run[w].batch : claimed_at'[k] = claimed_at[k]
      BY <2>2, <2>3, <2>4
    <2> QED
      BY <1>14, <2>1, <2>5
  <1>16. ASSUME NEW m \in Messages, OwnerReadsOne(m) PROVE ClaimInv'
    BY <1>3, <1>16 DEF OwnerReadsOne
  <1>17. ASSUME OwnerReadsFailed \/ OwnerWrites PROVE ClaimInv'
    BY <1>3, <1>17 DEF OwnerReadsFailed, OwnerWrites, OwnerWritesOne, OwnerWritesFailed,
                       ClaimInv, Undisturbed, OwnerIdle
  <1>18. CASE UNCHANGED vars
    BY <1>14, <1>18 DEF vars
  <1> QED
    BY <1>6, <1>7, <1>8, <1>9, <1>10, <1>11, <1>12, <1>13, <1>15, <1>16, <1>17, <1>18
       DEF Next, Works

\* Any number of workers share a backlog of any size without holding a message
\* twice, however often calls of the model fail or are rate limited, as long as
\* claims are given back.  What else two workers do to a claim is ruled out by
\* the hypothesis, because a rewound claim is taken again while it is held.
THEOREM WorkersKeepApart ==
    ASSUME ClaimsAreGivenBack
    PROVE  Spec => []NoDoubleClaim
  <1>1. Init => ClaimInv
    <2> SUFFICES ASSUME Init PROVE ClaimInv
      OBVIOUS
    <2>1. TypeOK
      BY InvInit DEF IInv
    <2>2. \A w \in Workers : run[w] = Idle
      BY DEF Init
    <2>3. OneHolder
      BY <2>2 DEF Init, OneHolder, Idle
    <2>4. Undisturbed
      BY DEF Init, Undisturbed, ClaimsAreGivenBack
    <2> QED
      BY <2>1, <2>2, <2>3, <2>4, IdleHolds DEF ClaimInv
  <1>2. ClaimInv /\ [Next]_vars => ClaimInv'
    BY ClaimStep DEF ClaimsAreGivenBack
  <1>3. ClaimInv => NoDoubleClaim
    BY DEF ClaimInv, OneHolder, NoDoubleClaim
  <1> QED
    BY <1>1, <1>2, <1>3, PTL DEF Spec


----------------------------------------------------------------------------
(* What is settled stays settled *)

\* The rows a worker has, to extract or to reclaim, are not settled.
BatchesAreOpen == \A w \in Workers : \A m \in run[w].batch : status[m] \notin Terminal

\* One step of one worker: its batch stays open, and a settled row is rewritten
\* by nobody but the owner.
LEMMA SettledStep ==
    ASSUME TypeOK, BatchesAreOpen, [Next]_vars, \A v, w \in Workers : v = w
    PROVE  /\ BatchesAreOpen'
           /\ \A m \in Messages :
                status[m] \in Terminal /\ status'[m] # status[m] => OwnerWrites
  <1> DEFINE Stays == \A m \in Messages :
                        status[m] \in Terminal /\ status'[m] # status[m] => OwnerWrites
  <1>1. run \in [Workers -> Session] /\ status \in [Messages -> Status]
    BY DEF TypeOK
  <1>2. \A w \in Workers : run[w].batch \subseteq Messages
    BY <1>1 DEF Session
  <1>3. ASSUME NEW w \in Workers, run' = [run EXCEPT ![w] = Idle] PROVE BatchesAreOpen'
    <2>1. \A v \in Workers : run'[v] = Idle
      BY <1>1, <1>3
    <2> QED
      BY <2>1 DEF BatchesAreOpen, Idle
  <1>4. ASSUME NEW w \in Workers, NEW s, run' = [run EXCEPT ![w] = s],
               s.batch = run[w].batch, status' = status
        PROVE  BatchesAreOpen' /\ Stays
    <2>1. \A v \in Workers : run'[v].batch = run[v].batch
      BY <1>1, <1>4
    <2> QED
      BY <1>4, <2>1 DEF BatchesAreOpen
  <1>5. ASSUME NEW w \in Workers, \A m \in Messages \ run[w].batch : status'[m] = status[m]
        PROVE  Stays
    BY <1>5 DEF BatchesAreOpen
  <1>6. ASSUME NEW w \in Workers, Claim(w) PROVE BatchesAreOpen' /\ Stays
    <2> DEFINE batch == Oldest(Claimable, BatchSize)
    <2>1. /\ status' = AllTo(status, batch, "processing")
          /\ run' = [run EXCEPT ![w] = Opened(batch)]
      BY <1>6 DEF Claim
    <2>2. batch \subseteq Messages /\ \A m \in batch : status[m] = "pending"
      BY DEF Oldest, Claimable
    <2>3. Opened(batch).batch = batch
      BY DEF Opened, Idle
    <2> HIDE DEF batch
    <2>4. \A v \in Workers : run'[v].batch = batch
      BY <1>1, <2>1, <2>3
    <2>5. \A m \in Messages : status'[m] = IF m \in batch THEN "processing" ELSE status[m]
      BY <2>1 DEF AllTo
    <2>6. BatchesAreOpen'
      BY <2>2, <2>4, <2>5 DEF BatchesAreOpen, Terminal
    <2>7. Stays
      BY <2>2, <2>5 DEF Terminal
    <2> QED
      BY <2>6, <2>7
  <1>7. ASSUME NEW w \in Workers, Extracted(w) PROVE BatchesAreOpen' /\ Stays
    <2>1. PICK answer : GotAnswer(w, answer)
      BY <1>7 DEF Extracted
    <2> DEFINE s == [run[w] EXCEPT !.stage = "applying", !.answer = answer,
                                   !.todo = Asked(w)]
    <2>2. run' = [run EXCEPT ![w] = s] /\ s.batch = run[w].batch
      BY <1>1, <2>1 DEF GotAnswer, Session
    <2>3. status' = status
      BY <1>7 DEF Extracted, queue
    <2> HIDE DEF s
    <2> QED
      BY <1>4, <2>2, <2>3
  <1>8. ASSUME NEW w \in Workers, ExtractRateLimited(w) \/ ExtractFails(w)
        PROVE  BatchesAreOpen' /\ Stays
    <2>1. run' = [run EXCEPT ![w] = Idle]
      BY <1>8 DEF ExtractRateLimited, ExtractFails, Release
    <2>2. \A m \in Messages \ run[w].batch : status'[m] = status[m]
      BY <1>8 DEF ExtractRateLimited, ExtractFails, Release, Asked
    <2> QED
      BY <1>3, <1>5, <2>1, <2>2
  <1>9. ASSUME NEW w \in Workers, ApplySkips(w) PROVE BatchesAreOpen' /\ Stays
    <2>1. PICK m : run' = [run EXCEPT ![w] = Skipped(w, m)]
      BY <1>9 DEF ApplySkips
    <2>2. Skipped(w, m).batch = run[w].batch
      BY <1>1 DEF Skipped, Session
    <2>3. status' = status
      BY <1>9 DEF ApplySkips, queue
    <2> QED
      BY <1>4, <2>1, <2>2, <2>3
  <1>10. ASSUME NEW w \in Workers, Apply(w) PROVE BatchesAreOpen' /\ Stays
    <2>1. PICK m \in run[w].todo :
             LET reply == run[w].answer[m]
                 t == reply.ref
                 flats == IF reply.read THEN FlatsOf[t] ELSE {}
                 known == {f \in flats : \E p \in Visible(w) : p.flat = f}
             IN  \E match \in [known -> Visible(w)] :
                       run' = [run EXCEPT ![w] = Recorded(w, m, t, flats, match)]
      BY <1>10 DEF Apply
    <2> DEFINE t == run[w].answer[m].ref
               flats == IF run[w].answer[m].read THEN FlatsOf[t] ELSE {}
               known == {f \in flats : \E p \in Visible(w) : p.flat = f}
    <2> HIDE DEF flats, t
    <2>2. PICK match \in [known -> Visible(w)] :
             run' = [run EXCEPT ![w] = Recorded(w, m, t, flats, match)]
      BY <2>1 DEF flats, t
    <2>3. Recorded(w, m, t, flats, match).batch = run[w].batch
      BY <1>1 DEF Recorded, Session
    <2>4. status' = status
      BY <1>10 DEF Apply, queue
    <2> QED
      BY <1>4, <2>2, <2>3, <2>4
  <1>11. ASSUME NEW w \in Workers, ApplyFails(w) PROVE BatchesAreOpen' /\ Stays
    <2>1. PICK t \in Asked(w), s \in {"failed", "pending"} :
             status' = [status EXCEPT ![t] = s]
      BY <1>11 DEF ApplyFails
    <2>2. \A m \in Messages \ run[w].batch : status'[m] = status[m]
      BY <1>1, <2>1 DEF Asked
    <2> QED
      BY <1>3, <1>5, <1>11, <2>2 DEF ApplyFails
  <1>12. ASSUME NEW w \in Workers, Commit(w) PROVE BatchesAreOpen' /\ Stays
    <2>1. \A m \in Messages \ run[w].batch : status'[m] = status[m]
      BY <1>12 DEF Commit, On
    <2> QED
      BY <1>3, <1>5, <1>12, <2>1 DEF Commit
  <1>13. ASSUME NEW w \in Workers, CommitConflicts(w) \/ Crash(w)
         PROVE  BatchesAreOpen' /\ Stays
    BY <1>3, <1>13 DEF CommitConflicts, Crash, queue
  <1>14. ASSUME NEW w \in Workers, ReclaimSelect(w) PROVE BatchesAreOpen' /\ Stays
    <2> DEFINE stalled == {m \in Messages : Stalled(m)}
    <2>1. run' = [run EXCEPT ![w] = [@ EXCEPT !.stage = "reclaiming", !.batch = stalled]]
          /\ status' = status
      BY <1>14 DEF ReclaimSelect, queue
    <2> HIDE DEF stalled
    <2>2. \A v \in Workers : run'[v].batch = stalled
      BY <1>1, <2>1 DEF Session
    <2>3. \A m \in stalled : status[m] = "processing"
      BY DEF stalled, Stalled
    <2> QED
      BY <2>1, <2>2, <2>3 DEF BatchesAreOpen, Terminal
  <1>15. ASSUME NEW w \in Workers, ReclaimUpdate(w) PROVE BatchesAreOpen' /\ Stays
    <2>1. \A m \in Messages \ run[w].batch : status'[m] = status[m]
      BY <1>15 DEF ReclaimUpdate, AllTo
    <2> QED
      BY <1>3, <1>5, <1>15, <2>1 DEF ReclaimUpdate
  <1>16. ASSUME UNCHANGED <<status, run>> PROVE BatchesAreOpen' /\ Stays
    BY <1>16 DEF BatchesAreOpen
  <1>17. ASSUME NEW m \in Messages, ClaimAges(m) \/ OwnerReadsOne(m)
         PROVE  BatchesAreOpen' /\ Stays
    BY <1>16, <1>17 DEF ClaimAges, OwnerReadsOne, queue
  <1>18. ASSUME OwnerReadsFailed PROVE BatchesAreOpen' /\ Stays
    BY <1>16, <1>18 DEF OwnerReadsFailed, queue
  <1>19. ASSUME OwnerWrites PROVE BatchesAreOpen' /\ Stays
    <2>1. run' = run /\ \A m \in Messages : status'[m] \in {status[m], "pending"}
      BY <1>19 DEF OwnerWrites, OwnerWritesOne, OwnerWritesFailed, AllTo
    <2>2. BatchesAreOpen'
      BY <1>2, <2>1 DEF BatchesAreOpen, Terminal
    <2> QED
      BY <1>19, <2>2
  <1>20. CASE UNCHANGED vars
    BY <1>16, <1>20 DEF vars
  <1> QED
    BY <1>6, <1>7, <1>8, <1>9, <1>10, <1>11, <1>12, <1>13, <1>14, <1>15, <1>17, <1>18,
       <1>19, <1>20
       DEF Next, Works

\* One extraction loop, whatever fails, is reclaimed or is asked for meanwhile:
\* nobody but the owner takes up again what has been settled.
THEOREM OneWorkerSettles ==
    ASSUME \A v, w \in Workers : v = w
    PROVE  Spec => SettledStays
  <1>1. Init => TypeOK /\ BatchesAreOpen
    <2> SUFFICES ASSUME Init PROVE TypeOK /\ BatchesAreOpen
      OBVIOUS
    <2>1. TypeOK
      BY InvInit DEF IInv
    <2> QED
      BY <2>1 DEF Init, BatchesAreOpen, Idle
  <1>2. TypeOK /\ BatchesAreOpen /\ [Next]_vars => TypeOK' /\ BatchesAreOpen'
    BY TypeStep, SettledStep
  <1>3. TypeOK /\ BatchesAreOpen /\ [Next]_vars =>
          [\A m \in Messages :
             status[m] \in Terminal /\ status'[m] # status[m] => OwnerWrites]_vars
    BY SettledStep
  <1> QED
    BY <1>1, <1>2, <1>3, PTL DEF Spec, SettledStays

=============================================================================
