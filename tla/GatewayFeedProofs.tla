------------------------- MODULE GatewayFeedProofs -------------------------
(***************************************************************************)
(* That the gateway loses nothing it has journalled, for any number of     *)
(* groups, messages, batches, crashes, lost requests and late answers,     *)
(* provided that no append falls between the end of the second readOutbox  *)
(* and the rewrite (LateAppends) and that no crash tears a record; that    *)
(* all variables keep their types under every fault; and that a group's    *)
(* watermark and count are exact as long as messages are dated and arrive  *)
(* once; and that the gateway skips no recent message that is newer than   *)
(* all that is stored of its group.                                        *)
(***************************************************************************)
EXTENDS GatewayFeed, SequenceTheorems, FiniteSetTheorems, FunctionTheorems,
        WellFoundedInduction, TLAPS

Settled == stored \cup ignored

\* What NothingLost needs of the types.
Typed ==
    /\ journal \in Batches
    /\ flush \in Flush
    /\ late \subseteq Batches
    /\ stored \subseteq Messages
    /\ ignored \subseteq Messages
    /\ accepted \subseteq Messages
    /\ budget \in [Kinds -> Nat]

\* No record was ever torn, and none will be.
Untorn == ~torn /\ budget["torn"] = 0

\* A flush works on a prefix of the journal: the file only grows under it, and
\* what it counts as delivered the API has taken.
InFlush ==
    flush.stage # "idle" =>
        /\ Len(flush.pending) <= Len(journal)
        /\ \A i \in 1..Len(flush.pending) : flush.pending[i] = journal[i]
        /\ flush.delivered <= Len(flush.pending)
        /\ \A i \in 1..flush.delivered : flush.pending[i] \in Settled

\* A request is about at least one message, and an answered one is taken.
InRequest ==
    /\ flush.stage \in {"sent", "answered"} => ~Delivered
    /\ flush.stage = "answered" =>
          \A i \in flush.delivered + 1..flush.delivered + Sent :
              flush.pending[i] \in Settled

\* Nothing is appended between the second read and the rewrite.
InRewrite ==
    flush.stage = "rewriting" => Delivered /\ flush.current = journal

IInv == Typed /\ Untorn /\ InFlush /\ InRequest /\ InRewrite /\ NothingLost

----------------------------------------------------------------------------
\* The smaller of two numbers.
LEMMA MinPair ==
    ASSUME NEW a \in Int, NEW b \in Int
    PROVE  /\ Min({a, b}) \in {a, b}
           /\ Min({a, b}) <= a
           /\ Min({a, b}) <= b
<1>1. \E x \in {a, b} : \A y \in {a, b} : x =< y
  OBVIOUS
<1> QED
  BY <1>1 DEF Min

\* What a request carries: the next Sent messages of the ones still pending,
\* at least one of them, and never beyond the last.
LEMMA BatchIsNext ==
    ASSUME flush \in Flush, ~Delivered, flush.delivered <= Len(flush.pending)
    PROVE  /\ Batch \in Batches
           /\ Sent \in Nat
           /\ flush.delivered + Sent <= Len(flush.pending)
           /\ Len(Batch) = Sent
           /\ \A i \in 1..Sent : Batch[i] = flush.pending[flush.delivered + i]
<1> DEFINE d == flush.delivered
           n == Len(flush.pending)
           k == Min({d + BatchSize, n})
<1>1. flush.pending \in Seq(Messages) /\ d \in Nat /\ n \in Nat /\ BatchSize \in Nat \ {0}
  BY BatchSizeAssumption DEF Flush, Batches
<1>2. k \in Int /\ k <= n /\ d + 1 <= k
  <2>1. k \in {d + BatchSize, n} /\ k <= n
    <3>1. d + BatchSize \in Int /\ n \in Int
      BY <1>1
    <3> HIDE DEF d, n
    <3> QED
      BY <3>1, MinPair
  <2>2. d < n
    BY <1>1 DEF Delivered
  <2> QED
    BY <1>1, <2>1, <2>2
<1>3. Batch = SubSeq(flush.pending, d + 1, k)
  BY DEF Batch
<1>4. /\ SubSeq(flush.pending, d + 1, k) \in Seq(Messages)
      /\ Len(SubSeq(flush.pending, d + 1, k)) = k - d
      /\ \A i \in 1..k - d : SubSeq(flush.pending, d + 1, k)[i] = flush.pending[d + i]
  <2>1. \A i \in d + 1..k : flush.pending[i] \in Messages
    BY <1>1, <1>2
  <2> HIDE DEF k, d, n
  <2>2. /\ SubSeq(flush.pending, d + 1, k) \in Seq(Messages)
        /\ Len(SubSeq(flush.pending, d + 1, k)) = k - (d + 1) + 1
        /\ \A i \in 1..k - (d + 1) + 1 :
              SubSeq(flush.pending, d + 1, k)[i] = flush.pending[d + 1 + i - 1]
    BY <1>1, <1>2, <2>1, SubSeqProperties
  <2> QED
    BY <2>2, <1>1, <1>2
<1> HIDE DEF k
<1>5. Len(Batch) = k - d /\ \A i \in 1..k - d : Batch[i] = flush.pending[d + i]
  BY <1>3, <1>4
<1>6. Batch \in Batches
  BY <1>3, <1>4 DEF Batches
<1>7. Sent = k - d
  BY <1>5 DEF Sent
<1> QED
  BY <1>1, <1>2, <1>5, <1>6, <1>7

----------------------------------------------------------------------------
LEMMA InitIInv ==
    ASSUME Budget["torn"] = 0, Init
    PROVE  IInv
<1>1. Typed
  BY BudgetAssumption DEF Init, Typed, Batches, Flush, NoFlush
<1>2. Untorn
  BY DEF Init, Untorn
<1>3. flush.stage = "idle" /\ accepted = {}
  BY DEF Init, NoFlush
<1> QED
  BY <1>1, <1>2, <1>3 DEF IInv, InFlush, InRequest, InRewrite, NothingLost

\* Steps that leave the journal and the flush alone, while what the API has
\* taken only grows.
LEMMA Elsewhere ==
    ASSUME IInv, UNCHANGED <<disk, flush>>, Typed', Settled \subseteq Settled',
           budget'["torn"] = 0, accepted' = accepted
    PROVE  IInv'
<1> USE DEF IInv, disk
<1>1. Untorn'
  BY DEF Untorn
<1>2. InFlush'
  BY DEF InFlush
<1>3. Sent' = Sent /\ Delivered' = Delivered
  BY DEF Sent, Batch, Delivered
<1>4. InRequest'
  BY <1>3 DEF InRequest
<1>5. InRewrite'
  BY <1>3 DEF InRewrite
<1>6. NothingLost'
  BY DEF NothingLost, Settled
<1> QED
  BY <1>1, <1>2, <1>4, <1>5, <1>6

\* A step after which no flush is under way keeps what the flush would have
\* done for later: the journal still holds it.
LEMMA FlushEnds ==
    ASSUME IInv, flush' = NoFlush, UNCHANGED <<disk, stored, history>>, Typed',
           budget'["torn"] = 0
    PROVE  IInv'
<1> USE DEF IInv, disk, history
<1>1. flush'.stage = "idle"
  BY DEF NoFlush
<1>2. Untorn'
  BY DEF Untorn
<1>3. NothingLost'
  BY DEF NothingLost
<1> QED
  BY <1>1, <1>2, <1>3 DEF InFlush, InRequest, InRewrite

\* Faults and requests other than a torn record do not make one possible.
LEMMA SpendKeeps ==
    ASSUME NEW kind \in Kinds, kind # "torn", budget \in [Kinds -> Nat],
           budget["torn"] = 0, Spend(kind)
    PROVE  budget' \in [Kinds -> Nat] /\ budget'["torn"] = 0
BY DEF Spend, Kinds

LEMMA NoTornSpend ==
    ASSUME budget["torn"] = 0
    PROVE  ~Spend("torn")
BY DEF Spend

\* ingest adds to what is stored or refused the messages of its batch, all of
\* them.
LEMMA IngestTakes ==
    ASSUME NEW batch \in Batches, Typed, Ingest(batch)
    PROVE  /\ stored' \subseteq Messages /\ ignored' \subseteq Messages
           /\ Settled \subseteq Settled'
           /\ Range(batch) \subseteq Settled'
<1>1. Range(batch) \subseteq Messages
  BY DEF Batches, Range
<1>2. /\ stored' = stored \cup Fresh(batch)
      /\ ignored' = ignored \cup {m \in Range(batch) : ~active[GroupOf[m]]}
  BY DEF Ingest
<1>3. Fresh(batch) = {m \in Range(batch) : active[GroupOf[m]] /\ m \notin stored}
  BY DEF Fresh
<1>4. stored \subseteq Messages /\ ignored \subseteq Messages
  BY DEF Typed
<1> QED
  BY <1>1, <1>2, <1>3, <1>4 DEF Settled

----------------------------------------------------------------------------
\* handleMessage appends at the end, so a flush under way still works on a
\* prefix; LateAppends being FALSE, it does not do so between the second read
\* and the rewrite.
LEMMA ForwardIInv ==
    ASSUME ~LateAppends, IInv, NEW m \in Messages, Forward(m)
    PROVE  IInv'
<1> USE DEF IInv
<1>1. /\ journal \in Seq(Messages) /\ journal' = Append(journal, m) /\ ~torn'
      /\ accepted' = accepted \cup {m}
      /\ flush.stage # "rewriting"
      /\ UNCHANGED <<flush, late, stored, ignored>>
  BY DEF Forward, Untorn, Typed, Batches, database, history
<1>2. budget' \in [Kinds -> Nat] /\ budget'["torn"] = 0
  <2>1. Spend("repeat") \/ UNCHANGED budget
    BY DEF Forward, Offered
  <2> QED
    BY <2>1, SpendKeeps DEF Typed, Untorn, Kinds
<1>3. /\ journal' \in Seq(Messages)
      /\ Len(journal') = Len(journal) + 1
      /\ Len(journal) \in Nat
      /\ \A i \in 1..Len(journal) : journal'[i] = journal[i]
      /\ journal'[Len(journal) + 1] = m
  BY <1>1
<1>4. Typed'
  BY <1>1, <1>2, <1>3 DEF Typed, Batches
<1>5. Untorn'
  BY <1>1, <1>2 DEF Untorn
<1>6. InFlush'
  <2> SUFFICES ASSUME flush.stage # "idle"
               PROVE  InFlush'
    BY <1>1 DEF InFlush
  <2>1. Len(flush.pending) \in Nat
    BY DEF Typed, Flush, Batches
  <2> QED
    BY <1>1, <1>3, <2>1 DEF InFlush, Settled
<1>7. InRequest'
  BY <1>1 DEF InRequest, Delivered, Sent, Batch, Settled
<1>8. InRewrite'
  BY <1>1 DEF InRewrite
<1>9. NothingLost'
  <2>1. Range(journal) \subseteq Range(journal')
    BY <1>1, <1>3 DEF Range
  <2>2. m \in Range(journal')
    BY <1>1, <1>3 DEF Range
  <2> QED
    BY <1>1, <2>1, <2>2 DEF NothingLost
<1> QED
  BY <1>4, <1>5, <1>6, <1>7, <1>8, <1>9

LEMMA SkipIInv ==
    ASSUME IInv, NEW m \in Messages, Skip(m)
    PROVE  IInv'
<1>1. UNCHANGED <<disk, flush, late, database, history>>
  BY DEF Skip
<1>2. budget' \in [Kinds -> Nat] /\ budget'["torn"] = 0
  <2>1. Spend("repeat") \/ UNCHANGED budget
    BY DEF Skip, Offered
  <2> QED
    BY <2>1, SpendKeeps DEF IInv, Typed, Untorn, Kinds
<1>3. Typed'
  BY <1>1, <1>2 DEF IInv, Typed, disk, database, history
<1>4. Settled = Settled' /\ accepted' = accepted
  BY <1>1 DEF Settled, database, history
<1> QED
  BY <1>1, <1>2, <1>3, <1>4, Elsewhere

----------------------------------------------------------------------------
\* Reading, sending and advancing change the flush only.
LEMMA FlushReadsIInv ==
    ASSUME IInv, FlushReads
    PROVE  IInv'
<1> USE DEF IInv
<1>1. /\ flush' = [NoFlush EXCEPT !.stage = "ready", !.pending = journal]
      /\ UNCHANGED <<journal, torn, late, stored, accepted, ignored, budget>>
  BY DEF FlushReads, disk, database, history
<1>2. /\ flush'.stage = "ready" /\ flush'.pending = journal
      /\ flush'.delivered = 0 /\ flush'.current = <<>>
      /\ flush' \in Flush
  <2>1. flush' = [stage |-> "ready", pending |-> journal, delivered |-> 0,
                  current |-> <<>>]
    BY <1>1 DEF NoFlush
  <2>2. journal \in Batches /\ <<>> \in Batches
    BY DEF Typed, Batches
  <2> QED
    BY <2>1, <2>2 DEF Flush
<1>3. journal \in Seq(Messages) /\ Len(journal) \in Nat
  BY DEF Typed, Batches
<1>4. Typed' /\ Untorn' /\ NothingLost'
  BY <1>1, <1>2 DEF Typed, Untorn, NothingLost
<1>5. InFlush'
  BY <1>1, <1>2, <1>3 DEF InFlush
<1>6. InRequest' /\ InRewrite'
  BY <1>2 DEF InRequest, InRewrite
<1> QED
  BY <1>4, <1>5, <1>6

LEMMA FlushSendsIInv ==
    ASSUME IInv, FlushSends
    PROVE  IInv'
<1> USE DEF IInv
<1>1. /\ flush.stage = "ready" /\ ~Delivered
      /\ flush' = [flush EXCEPT !.stage = "sent"]
      /\ UNCHANGED <<journal, torn, late, stored, accepted, ignored, budget>>
  BY DEF FlushSends, disk, database, history
<1>2. /\ flush'.stage = "sent" /\ flush'.pending = flush.pending
      /\ flush'.delivered = flush.delivered /\ flush' \in Flush
  BY <1>1 DEF Flush, Typed
<1>3. Typed' /\ Untorn' /\ NothingLost'
  BY <1>1, <1>2 DEF Typed, Untorn, NothingLost
<1>4. InFlush'
  BY <1>1, <1>2 DEF InFlush, Settled
<1>5. InRequest' /\ InRewrite'
  BY <1>1, <1>2 DEF InRequest, InRewrite, Delivered
<1> QED
  BY <1>3, <1>4, <1>5

LEMMA FlushAdvancesIInv ==
    ASSUME IInv, FlushAdvances
    PROVE  IInv'
<1> USE DEF IInv
<1>1. /\ flush.stage = "answered"
      /\ flush' = [flush EXCEPT !.stage = "ready", !.delivered = @ + Sent]
      /\ UNCHANGED <<journal, torn, late, stored, accepted, ignored, budget>>
  BY DEF FlushAdvances, disk, database, history
<1>2. flush \in Flush /\ flush.delivered \in Nat /\ Len(flush.pending) \in Nat
  BY DEF Typed, Flush, Batches
<1>3. /\ ~Delivered /\ flush.delivered <= Len(flush.pending)
      /\ Len(flush.pending) <= Len(journal)
      /\ \A i \in 1..Len(flush.pending) : flush.pending[i] = journal[i]
      /\ \A i \in 1..flush.delivered : flush.pending[i] \in Settled
      /\ \A i \in flush.delivered + 1..flush.delivered + Sent :
            flush.pending[i] \in Settled
  BY <1>1 DEF InFlush, InRequest
<1>4. Sent \in Nat /\ flush.delivered + Sent <= Len(flush.pending)
  BY <1>2, <1>3, BatchIsNext
<1>5. /\ flush'.stage = "ready" /\ flush'.pending = flush.pending
      /\ flush'.delivered = flush.delivered + Sent /\ flush' \in Flush
  <2>1. flush' = [stage |-> "ready", pending |-> flush.pending,
                  delivered |-> flush.delivered + Sent, current |-> flush.current]
    BY <1>1, <1>2 DEF Flush
  <2>2. flush.delivered + Sent \in Nat
    BY <1>2, <1>4
  <2> HIDE DEF IInv
  <2> QED
    BY <1>2, <2>1, <2>2 DEF Flush
<1>6. Typed' /\ Untorn' /\ NothingLost'
  BY <1>1, <1>5 DEF Typed, Untorn, NothingLost
<1>7. \A i \in 1..flush.delivered + Sent : flush.pending[i] \in Settled
  BY <1>2, <1>3, <1>4
<1>8. InFlush'
  BY <1>1, <1>3, <1>4, <1>5, <1>7 DEF InFlush, Settled
<1>9. InRequest' /\ InRewrite'
  BY <1>5 DEF InRequest, InRewrite
<1> QED
  BY <1>6, <1>8, <1>9

LEMMA FlushRereadsIInv ==
    ASSUME IInv, FlushRereads
    PROVE  IInv'
<1> USE DEF IInv
<1>1. /\ flush.stage = "ready" /\ Delivered
      /\ flush' = [flush EXCEPT !.stage = "rewriting", !.current = journal]
      /\ UNCHANGED <<journal, torn, late, stored, accepted, ignored, budget>>
  BY DEF FlushRereads, disk, database, history
<1>2. /\ flush'.stage = "rewriting" /\ flush'.pending = flush.pending
      /\ flush'.delivered = flush.delivered /\ flush'.current = journal
      /\ flush' \in Flush
  BY <1>1 DEF Flush, Typed
<1>3. Typed' /\ Untorn' /\ NothingLost'
  BY <1>1, <1>2 DEF Typed, Untorn, NothingLost
<1>4. InFlush'
  BY <1>1, <1>2 DEF InFlush, Settled
<1>5. InRequest' /\ InRewrite'
  BY <1>1, <1>2 DEF InRequest, InRewrite, Delivered
<1> QED
  BY <1>3, <1>4, <1>5

\* The rewrite drops as many records as were delivered, and those are the ones
\* that were delivered: the file still begins with what was read first.
LEMMA FlushRewritesIInv ==
    ASSUME IInv, FlushRewrites
    PROVE  IInv'
<1> USE DEF IInv
<1> DEFINE d == flush.delivered
           n == Len(journal)
<1>1. /\ flush.stage = "rewriting"
      /\ journal' = Remaining /\ ~torn' /\ flush' = NoFlush
      /\ UNCHANGED <<late, stored, accepted, ignored, budget>>
  BY DEF FlushRewrites, database, history
<1>2. flush.current = journal
  BY <1>1 DEF InRewrite
<1>3. journal \in Seq(Messages) /\ n \in Nat /\ d \in Nat /\ d <= n
  BY <1>1 DEF Typed, Flush, Batches, InFlush
<1>4. \A i \in 1..d : journal[i] \in Settled
  BY <1>1, <1>3 DEF InFlush, Typed, Flush, Batches
<1>5. journal' = SubSeq(journal, d + 1, n)
  BY <1>1, <1>2 DEF Remaining
<1>6. /\ journal' \in Seq(Messages)
      /\ Len(journal') = n - d
      /\ \A i \in 1..n - d : journal'[i] = journal[d + i]
  <2>1. \A i \in d + 1..n : journal[i] \in Messages
    BY <1>3
  <2> HIDE DEF d, n
  <2>2. /\ SubSeq(journal, d + 1, n) \in Seq(Messages)
        /\ Len(SubSeq(journal, d + 1, n)) =
              IF d + 1 <= n THEN n - (d + 1) + 1 ELSE 0
        /\ \A i \in 1..n - (d + 1) + 1 :
              SubSeq(journal, d + 1, n)[i] = journal[d + 1 + i - 1]
    BY <1>3, <2>1, SubSeqProperties
  <2>3. Len(SubSeq(journal, d + 1, n)) = n - d
    BY <1>3, <2>2
  <2>4. ASSUME NEW i \in 1..n - d
        PROVE  SubSeq(journal, d + 1, n)[i] = journal[d + i]
    <3>1. i \in 1..n - (d + 1) + 1 /\ d + 1 + i - 1 = d + i
      BY <1>3
    <3> QED
      BY <2>2, <3>1
  <2> QED
    BY <1>5, <2>2, <2>3, <2>4
<1>7. Range(journal) \subseteq Range(journal') \cup Settled
  <2> SUFFICES ASSUME NEW i \in 1..n, i > d
               PROVE  journal[i] \in Range(journal')
    BY <1>3, <1>4 DEF Range
  <2>1. i - d \in 1..n - d /\ d + (i - d) = i
    BY <1>3
  <2>2. journal'[i - d] = journal[i]
    BY <1>6, <2>1
  <2> QED
    BY <1>3, <1>6, <2>1, <2>2 DEF Range
<1>8. flush'.stage = "idle" /\ flush' \in Flush
  BY <1>1 DEF NoFlush, Flush, Batches
<1>9. Typed'
  BY <1>1, <1>6, <1>8 DEF Typed, Batches
<1>10. Untorn'
  BY <1>1 DEF Untorn
<1>11. NothingLost'
  BY <1>1, <1>7 DEF NothingLost, Settled
<1> QED
  BY <1>8, <1>9, <1>10, <1>11 DEF InFlush, InRequest, InRewrite

----------------------------------------------------------------------------
\* A request given up on leaves everything of its flush in the journal.
LEMMA FlushFailsIInv ==
    ASSUME IInv, FlushFails
    PROVE  IInv'
<1>1. /\ flush.stage \in {"sent", "answered"} /\ flush' = NoFlush
      /\ UNCHANGED <<disk, stored, history>>
      /\ Spend("lost")
      /\ late' = late \/ late' = late \cup {Batch}
  BY DEF FlushFails, database
<1>2. ~Delivered /\ flush.delivered <= Len(flush.pending) /\ flush \in Flush
  BY <1>1 DEF IInv, InRequest, InFlush, Typed
<1>3. Batch \in Batches
  BY <1>2, BatchIsNext
<1>4. budget' \in [Kinds -> Nat] /\ budget'["torn"] = 0
  BY <1>1, SpendKeeps DEF IInv, Typed, Untorn, Kinds
<1>5. NoFlush \in Flush
  BY DEF NoFlush, Flush, Batches
<1>6. Typed'
  BY <1>1, <1>3, <1>4, <1>5 DEF IInv, Typed, disk, history
<1> QED
  BY <1>1, <1>4, <1>6, FlushEnds

LEMMA CrashIInv ==
    ASSUME IInv, Crash
    PROVE  IInv'
<1>1. Spend("crash") /\ UNCHANGED torn
  BY NoTornSpend DEF Crash, IInv, Untorn
<1>2. /\ flush' = NoFlush
      /\ UNCHANGED <<disk, stored, history>>
      /\ \/ late' = late
         \/ flush.stage = "sent" /\ late' = late \cup {Batch}
  BY <1>1 DEF Crash, database, disk
<1>3. flush.stage = "sent" => Batch \in Batches
  <2> SUFFICES ASSUME flush.stage = "sent"
               PROVE  Batch \in Batches
    OBVIOUS
  <2>1. ~Delivered /\ flush.delivered <= Len(flush.pending) /\ flush \in Flush
    BY DEF IInv, InRequest, InFlush, Typed
  <2> QED
    BY <2>1, BatchIsNext
<1>4. budget' \in [Kinds -> Nat] /\ budget'["torn"] = 0
  BY <1>1, SpendKeeps DEF IInv, Typed, Untorn, Kinds
<1>5. NoFlush \in Flush
  BY DEF NoFlush, Flush, Batches
<1>6. Typed'
  BY <1>2, <1>3, <1>4, <1>5 DEF IInv, Typed, disk, history
<1> QED
  BY <1>2, <1>4, <1>6, FlushEnds

----------------------------------------------------------------------------
\* The handler takes the whole batch, whoever still waits for the answer.
LEMMA IngestSentIInv ==
    ASSUME IInv, IngestSent
    PROVE  IInv'
<1> USE DEF IInv
<1>1. /\ flush.stage = "sent" /\ Ingest(Batch)
      /\ flush' = [flush EXCEPT !.stage = "answered"]
      /\ UNCHANGED <<journal, torn, late, accepted, budget>>
  BY DEF IngestSent, Ingest, disk
<1>2. /\ flush \in Flush /\ ~Delivered /\ flush.delivered <= Len(flush.pending)
      /\ Len(flush.pending) <= Len(journal)
      /\ \A i \in 1..Len(flush.pending) : flush.pending[i] = journal[i]
      /\ \A i \in 1..flush.delivered : flush.pending[i] \in Settled
  BY <1>1 DEF Typed, InRequest, InFlush
<1>3. /\ Batch \in Batches /\ Sent \in Nat
      /\ Len(Batch) = Sent
      /\ \A i \in 1..Sent : Batch[i] = flush.pending[flush.delivered + i]
  BY <1>2, BatchIsNext
<1>4. /\ stored' \subseteq Messages /\ ignored' \subseteq Messages
      /\ Settled \subseteq Settled'
      /\ Range(Batch) \subseteq Settled'
  BY <1>1, <1>3, IngestTakes
<1>5. /\ flush'.stage = "answered" /\ flush'.pending = flush.pending
      /\ flush'.delivered = flush.delivered /\ flush' \in Flush
  BY <1>1, <1>2 DEF Flush
<1>6. Typed' /\ Untorn'
  BY <1>1, <1>4, <1>5 DEF Typed, Untorn
<1>7. NothingLost'
  BY <1>1, <1>4 DEF NothingLost, Settled
<1>8. InFlush'
  BY <1>1, <1>2, <1>4, <1>5 DEF InFlush
<1>9. Sent' = Sent /\ Delivered' = Delivered
  BY <1>5 DEF Sent, Batch, Delivered
<1>10. \A i \in flush.delivered + 1..flush.delivered + Sent :
          flush.pending[i] \in Settled'
  <2> SUFFICES ASSUME NEW i \in flush.delivered + 1..flush.delivered + Sent
               PROVE  flush.pending[i] \in Settled'
    OBVIOUS
  <2> HIDE DEF IInv
  <2>1. flush.delivered \in Nat
    BY <1>2 DEF Flush
  <2>2. i - flush.delivered \in 1..Sent /\ flush.delivered + (i - flush.delivered) = i
    BY <1>3, <2>1
  <2>3. Batch[i - flush.delivered] = flush.pending[i]
    BY <1>3, <2>2
  <2>4. DOMAIN Batch = 1..Sent
    BY <1>3 DEF Batches
  <2> QED
    BY <1>4, <2>2, <2>3, <2>4 DEF Range
<1>11. InRequest'
  BY <1>2, <1>5, <1>9, <1>10 DEF InRequest
<1>12. InRewrite'
  BY <1>5 DEF InRewrite
<1> QED
  BY <1>6, <1>7, <1>8, <1>11, <1>12

LEMMA IngestLateIInv ==
    ASSUME IInv, IngestLate
    PROVE  IInv'
<1>1. PICK batch \in late : Ingest(batch) /\ late' = late \ {batch} /\ UNCHANGED flush
  BY DEF IngestLate
<1>2. Typed /\ batch \in Batches
  BY <1>1 DEF IInv, Typed
<1>3. UNCHANGED <<disk, accepted, budget>>
  BY <1>1 DEF Ingest
<1>4. /\ stored' \subseteq Messages /\ ignored' \subseteq Messages
      /\ Settled \subseteq Settled'
  BY <1>1, <1>2, IngestTakes
<1>5. Typed'
  BY <1>1, <1>2, <1>3, <1>4 DEF Typed, disk
<1>6. budget'["torn"] = 0
  BY <1>3 DEF IInv, Untorn
<1> QED
  BY <1>1, <1>3, <1>4, <1>5, <1>6, Elsewhere

----------------------------------------------------------------------------
\* What concerns the watch list, the owner's switch, the process and the clock
\* touches neither the journal nor what is stored.
LEMMA QuietIInv ==
    ASSUME IInv, UNCHANGED <<disk, flush, late, stored, history>>,
           \/ UNCHANGED budget
           \/ \E kind \in Kinds \ {"torn"} : Spend(kind)
    PROVE  IInv'
<1>1. budget' \in [Kinds -> Nat] /\ budget'["torn"] = 0
  BY SpendKeeps DEF IInv, Typed, Untorn
<1>2. Typed'
  BY <1>1 DEF IInv, Typed, disk, history
<1>3. Settled = Settled' /\ accepted' = accepted
  BY DEF Settled, history
<1> QED
  BY <1>1, <1>2, <1>3, Elsewhere

LEMMA StepIInv ==
    ASSUME ~LateAppends, IInv, [Next]_vars
    PROVE  IInv'
<1> USE DEF database
<1>1. CASE RefreshAsks
  BY <1>1, QuietIInv DEF RefreshAsks
<1>2. CASE RefreshArrives
  BY <1>2, QuietIInv DEF RefreshArrives, Kinds
<1>3. ASSUME NEW m \in Messages, Forward(m)
      PROVE  IInv'
  BY <1>3, ForwardIInv
<1>4. ASSUME NEW m \in Messages, Skip(m)
      PROVE  IInv'
  BY <1>4, SkipIInv
<1>5. CASE Flushes
  BY <1>5, FlushReadsIInv, FlushSendsIInv, IngestSentIInv, FlushAdvancesIInv,
     FlushRereadsIInv, FlushRewritesIInv DEF Flushes
<1>6. CASE FlushFails
  BY <1>6, FlushFailsIInv
<1>7. CASE IngestLate
  BY <1>7, IngestLateIInv
<1>8. ASSUME NEW g \in Groups, OwnerSwitches(g)
      PROVE  IInv'
  BY <1>8, QuietIInv DEF OwnerSwitches, Kinds
<1>9. CASE Crash
  BY <1>9, CrashIInv
<1>10. CASE Start
  BY <1>10, QuietIInv DEF Start, Kinds
<1>11. CASE Tick
  BY <1>11, QuietIInv DEF Tick
<1>12. CASE UNCHANGED vars
  BY <1>12, QuietIInv DEF vars
<1> QED
  BY <1>1, <1>2, <1>3, <1>4, <1>5, <1>6, <1>7, <1>8, <1>9, <1>10, <1>11, <1>12
  DEF Next

\* "only removed once the API has taken responsibility for it": without a torn
\* record and with no append between the second read and the rewrite, every
\* message appendToOutbox returned for is journalled, stored or refused,
\* whatever crashes, is lost, is late or arrives twice.
THEOREM JournalLosesNothing ==
    ASSUME ~LateAppends, Budget["torn"] = 0
    PROVE  Spec => []NothingLost
<1>1. Init => IInv
  BY InitIInv
<1>2. IInv /\ [Next]_vars => IInv'
  BY StepIInv
<1>3. IInv => NothingLost
  BY DEF IInv
<1> QED
  BY <1>1, <1>2, <1>3, PTL DEF Spec

----------------------------------------------------------------------------
(* The type invariant, and that the row of a group is exact                *)

\* What a sequence of messages on its way must be: offered messages, and each
\* of them once, if WhatsApp repeats none.
Good(s) ==
    /\ s \in Seq(Messages)
    /\ \A i \in 1..Len(s) : s[i] \in offered
    /\ Budget["repeat"] = 0 => \A i, j \in 1..Len(s) : s[i] = s[j] => i = j

\* The gateway's memory, the history and what is left of the budget.
Memory ==
    /\ now \in 1..Horizon
    /\ offered \subseteq Messages
    /\ up \in BOOLEAN
    /\ watched \in WatchList
    /\ listing \in Seq(WatchList) /\ Len(listing) <= 1
    /\ torn \in BOOLEAN
    /\ active \in [Groups -> BOOLEAN]
    /\ accepted \subseteq Messages
    /\ ignored \subseteq Messages
    /\ budget \in [Kinds -> Nat]
    /\ Budget["repeat"] = 0 => budget["repeat"] = 0
    /\ \A m \in offered : SentAt[m] <= now

\* The journal, the flush and the requests given up on.
Papers ==
    /\ Good(journal)
    /\ flush \in Flush /\ flush.delivered <= Len(flush.pending)
    /\ Good(flush.pending) /\ Good(flush.current)
    /\ flush.stage \in {"sent", "answered"} => ~Delivered
    /\ \A batch \in late : Good(batch)

\* What the watermark of a group is the largest of.
Marks(g) == {0} \cup {SentAt[m] : m \in stored \cap Of(g)}

\* The rows, with WatermarkIsNewest stated without Max.
Rows ==
    /\ stored \subseteq offered
    /\ last_message_at \in [Groups -> Nat]
    /\ \A g \in Groups : last_message_at[g] <= now
    /\ message_count \in [Groups -> Nat]
    /\ Undated = {} =>
         \A g \in Groups :
            last_message_at[g] \in Marks(g) /\ \A x \in Marks(g) : x <= last_message_at[g]
    /\ Budget["repeat"] = 0 => CountsMessages

FeedInv == Memory /\ Papers /\ Rows

\* A set of numbers that has a bound has a largest one.
LEMMA BoundedHasMax ==
    ASSUME NEW b \in Nat, NEW S, S \subseteq 0..b, S # {}
    PROVE  Max(S) \in S /\ \A y \in S : y <= Max(S)
<1> DEFINE R == {p \in Nat \X Nat : p[1] < p[2]}
           T == {b - x : x \in S}
<1>1. IsWellFoundedOn(R, Nat)
  BY NatLessThanWellFounded DEF OpToRel
<1>2. T \subseteq Nat /\ T # {}
  <2>1. \A x \in S : b - x \in Nat
    OBVIOUS
  <2>2. PICK z \in S : TRUE
    OBVIOUS
  <2>3. b - z \in T
    BY <2>2
  <2> QED
    BY <2>1, <2>3
<1>3. \E t \in T : \A u \in T : <<u, t>> \notin R
  <2> HIDE DEF R, T
  <2> QED
    BY <1>1, <1>2, WFMin
<1>4. PICK t \in T : \A u \in T : <<u, t>> \notin R
  BY <1>3
<1>5. PICK x \in S : t = b - x
  OBVIOUS
<1>6. ASSUME NEW y \in S PROVE x >= y
  <2>1. b - y \in T /\ b - y \in Nat /\ t \in Nat
    BY <1>2
  <2>2. ~ (b - y < t)
    BY <2>1, <1>4
  <2> QED
    BY <2>2, <1>5
<1>7. Max(S) \in S /\ \A y \in S : Max(S) >= y
  <2> HIDE DEF R, T
  <2> QED
    BY <1>6 DEF Max
<1> QED
  BY <1>7

\* The largest element of a set is its Max.
LEMMA MaxIs ==
    ASSUME NEW S, S \subseteq Int, NEW x \in S, \A y \in S : y <= x
    PROVE  Max(S) = x
<1>1. Max(S) \in S /\ \A y \in S : Max(S) >= y
  BY DEF Max
<1>2. Max(S) \in Int /\ x \in Int
  BY <1>1
<1>3. x <= Max(S) /\ Max(S) <= x
  BY <1>1, <1>2
<1> QED
  BY <1>2, <1>3

LEMMA GoodEmpty == Good(<<>>)
BY DEF Good

\* A part of a good sequence is good.
LEMMA GoodPart ==
    ASSUME NEW s, Good(s), NEW a \in Nat \ {0}, NEW b \in Nat, b <= Len(s)
    PROVE  Good(SubSeq(s, a, b))
<1> DEFINE t == SubSeq(s, a, b)
<1>1. s \in Seq(Messages) /\ Len(s) \in Nat
  BY DEF Good
<1>2. \A i \in a..b : s[i] \in Messages
  BY <1>1
<1>3. /\ t \in Seq(Messages)
      /\ Len(t) = IF a <= b THEN b - a + 1 ELSE 0
      /\ \A i \in 1..b - a + 1 : t[i] = s[a + i - 1]
  BY <1>1, <1>2, SubSeqProperties
<1>4. \A i \in 1..Len(t) : i \in 1..b - a + 1 /\ a + i - 1 \in 1..Len(s)
  BY <1>1, <1>3
<1>5. \A i \in 1..Len(t) : t[i] \in offered
  BY <1>3, <1>4 DEF Good
<1>6. ASSUME Budget["repeat"] = 0, NEW i \in 1..Len(t), NEW j \in 1..Len(t), t[i] = t[j]
      PROVE  i = j
  <2>1. s[a + i - 1] = s[a + j - 1]
    BY <1>3, <1>4, <1>6
  <2>2. a + i - 1 = a + j - 1
    BY <2>1, <1>4, <1>6 DEF Good
  <2> QED
    BY <2>2
<1> HIDE DEF t
<1>7. Good(t)
  BY <1>3, <1>5, <1>6 DEF Good
<1> QED
  BY <1>7 DEF t

\* What a request carries is good.
LEMMA GoodBatch ==
    ASSUME Papers, flush.stage \in {"sent", "answered"}
    PROVE  Good(Batch) /\ Sent \in Nat /\ flush.delivered + Sent <= Len(flush.pending)
<1> DEFINE d == flush.delivered
           n == Len(flush.pending)
           k == Min({d + BatchSize, n})
<1>1. flush \in Flush /\ ~Delivered /\ d <= n
  BY DEF Papers
<1>2. d \in Nat /\ n \in Nat /\ d < n /\ BatchSize \in Nat \ {0}
  BY <1>1, BatchSizeAssumption DEF Flush, Batches, Delivered
<1>3. k \in {d + BatchSize, n} /\ k <= n
  <2>1. d + BatchSize \in Int /\ n \in Int
    BY <1>2
  <2> HIDE DEF d, n
  <2> QED
    BY <2>1, MinPair
<1>4. k \in Nat /\ d + 1 <= k + 1
  BY <1>2, <1>3
<1>5. Batch = SubSeq(flush.pending, d + 1, k)
  BY DEF Batch
<1>6. Good(flush.pending)
  BY DEF Papers
<1>7. Good(Batch)
  <2> HIDE DEF d, n, k
  <2>1. d + 1 \in Nat \ {0}
    BY <1>2
  <2>2. n = Len(flush.pending)
    BY DEF n
  <2> QED
    BY <1>3, <1>4, <1>5, <1>6, <2>1, <2>2, GoodPart
<1> QED
  BY <1>1, <1>7, BatchIsNext

\* Spending on a fault or a request leaves a budget.
LEMMA SpendLeaves ==
    ASSUME Memory, NEW kind \in Kinds, Spend(kind)
    PROVE  /\ budget' \in [Kinds -> Nat]
           /\ Budget["repeat"] = 0 => budget'["repeat"] = 0
<1>1. budget \in [Kinds -> Nat] /\ "repeat" \in Kinds
  BY DEF Memory, Kinds
<1>2. budget' = [budget EXCEPT ![kind] = @ - 1] /\ budget[kind] > 0
  BY DEF Spend
<1>3. budget[kind] - 1 \in Nat
  BY <1>1, <1>2
<1>4. budget' \in [Kinds -> Nat]
  BY <1>1, <1>2, <1>3
<1>5. Budget["repeat"] = 0 => kind # "repeat"
  BY <1>2 DEF Memory
<1> QED
  BY <1>1, <1>2, <1>4, <1>5 DEF Memory

----------------------------------------------------------------------------
LEMMA InitFeedInv == Init => FeedInv
<1> SUFFICES ASSUME Init PROVE FeedInv
  OBVIOUS
<1>1. Memory
  <2>1. watched \in WatchList
    BY DEF Init, WatchList, Entry
  <2>2. listing \in Seq(WatchList) /\ Len(listing) = 0
    BY DEF Init
  <2>3. now \in 1..Horizon
    BY AgesAssumption DEF Init
  <2>4. budget \in [Kinds -> Nat] /\ (Budget["repeat"] = 0 => budget["repeat"] = 0)
    BY BudgetAssumption DEF Init
  <2>5. active \in [Groups -> BOOLEAN]
    BY DEF Init
  <2>6. \A m \in offered : SentAt[m] <= now
    BY DEF Init
  <2>7. /\ offered \subseteq Messages /\ up \in BOOLEAN /\ torn \in BOOLEAN
        /\ accepted \subseteq Messages /\ ignored \subseteq Messages
    BY DEF Init
  <2> QED
    BY <2>1, <2>2, <2>3, <2>4, <2>5, <2>6, <2>7 DEF Memory
<1>2. Papers
  BY GoodEmpty DEF Init, Papers, NoFlush, Flush, Batches
<1>3. Rows
  <2>1. stored = {} /\ message_count = [g \in Groups |-> 0]
        /\ last_message_at = [g \in Groups |-> 0] /\ now = 1
    BY DEF Init
  <2>2. \A g \in Groups : Marks(g) = {0}
    BY <2>1 DEF Marks
  <2>3. CountsMessages
    <3>1. \A g \in Groups : stored \cap Of(g) = {}
      BY <2>1
    <3> QED
      BY <2>1, <3>1, FS_EmptySet DEF CountsMessages
  <2>4. \A g \in Groups : last_message_at[g] = 0 /\ message_count[g] = 0
    BY <2>1
  <2>5. last_message_at \in [Groups -> Nat] /\ message_count \in [Groups -> Nat]
    BY <2>1
  <2>6. \A g \in Groups : 0 \in Marks(g) /\ \A x \in Marks(g) : x <= 0
    BY <2>2
  <2>7. stored \subseteq offered
    BY <2>1
  <2> QED
    BY <2>1, <2>3, <2>4, <2>5, <2>6, <2>7 DEF Rows
<1> QED
  BY <1>1, <1>2, <1>3 DEF FeedInv

\* A good sequence stays good when more is offered.
LEMMA GoodKept ==
    ASSUME NEW s, Good(s), offered \subseteq offered'
    PROVE  /\ s \in Seq(Messages)
           /\ \A i \in 1..Len(s) : s[i] \in offered'
           /\ Budget["repeat"] = 0 => \A i, j \in 1..Len(s) : s[i] = s[j] => i = j
BY DEF Good

LEMMA PapersKept ==
    ASSUME Papers, UNCHANGED <<journal, flush, late>>, offered \subseteq offered'
    PROVE  Papers'
<1>1. Good(journal)' /\ Good(flush.pending)' /\ Good(flush.current)'
  BY GoodKept DEF Papers, Good
<1>2. \A batch \in late' : Good(batch)'
  BY GoodKept DEF Papers, Good
<1>3. Delivered' = Delivered
  BY DEF Delivered
<1> QED
  BY <1>1, <1>2, <1>3 DEF Papers

LEMMA RowsKept ==
    ASSUME Rows, UNCHANGED <<stored, last_message_at, message_count>>,
           offered \subseteq offered', now \in Int, now' \in Int, now <= now'
    PROVE  Rows'
<1>1. \A g \in Groups : Marks(g)' = Marks(g)
  BY DEF Marks
<1>2. \A g \in Groups : last_message_at[g] \in Nat /\ last_message_at[g] <= now'
  BY DEF Rows
<1>3. CountsMessages' <=> CountsMessages
  BY DEF CountsMessages
<1> QED
  BY <1>1, <1>2, <1>3 DEF Rows

----------------------------------------------------------------------------
(* The steps of the gateway *)

\* What a step leaves of Memory when it touches the watch list or the budget.
LEMMA RefreshKeeps ==
    ASSUME FeedInv, RefreshAsks \/ RefreshArrives
    PROVE  FeedInv'
<1> USE DEF memory, disk, groups, database, history
<1>1. UNCHANGED <<journal, flush, late, stored, last_message_at, message_count,
                  now, offered>>
  BY DEF RefreshAsks, RefreshArrives
<1>2. now \in Int
  BY DEF FeedInv, Memory
<1>3. Papers' /\ Rows'
  BY <1>1, <1>2, PapersKept, RowsKept DEF FeedInv
<1>4. ActiveGroups \in WatchList
  BY DEF FeedInv, Memory, Rows, ActiveGroups, WatchList, Entry, NoEntry
<1>5. CASE RefreshAsks
  <2>1. listing' \in Seq(WatchList) /\ Len(listing') = 1
    BY <1>4, <1>5 DEF RefreshAsks
  <2>2. Memory'
    BY <1>1, <1>5, <2>1 DEF RefreshAsks, FeedInv, Memory
  <2> QED
    BY <1>3, <2>2 DEF FeedInv
<1>6. CASE RefreshArrives
  <2>1. listing' \in Seq(WatchList) /\ Len(listing') = 0
    BY <1>6 DEF RefreshArrives
  <2>2. watched' \in WatchList
    <3>1. watched \in WatchList /\ listing \in Seq(WatchList) /\ Len(listing) <= 1
      BY DEF FeedInv, Memory
    <3>2. listing[1] \in WatchList
      BY <1>6, <3>1, ElementOfSeq DEF RefreshArrives
    <3> QED
      BY <1>6, <3>1, <3>2 DEF RefreshArrives
  <2>3. budget' \in [Kinds -> Nat] /\ (Budget["repeat"] = 0 => budget'["repeat"] = 0)
    BY <1>6, SpendLeaves DEF RefreshArrives, FeedInv, Memory, Kinds
  <2>4. Memory'
    BY <1>1, <1>6, <2>1, <2>2, <2>3 DEF RefreshArrives, FeedInv, Memory
  <2> QED
    BY <1>3, <2>4 DEF FeedInv
<1> QED
  BY <1>5, <1>6

LEMMA OfferKeeps ==
    ASSUME FeedInv, NEW m \in Messages, Forward(m) \/ Skip(m)
    PROVE  FeedInv'
<1> USE DEF memory, disk, groups, database, history
<1>1. /\ Offered(m)
      /\ UNCHANGED <<flush, late, stored, last_message_at, message_count, now, up,
                     watched, listing, active, ignored>>
  BY DEF Forward, Skip
<1>2. now \in Int /\ offered \subseteq Messages /\ SentAt[m] <= now
  BY <1>1 DEF FeedInv, Memory, Offered
<1>3. offered' = offered \cup {m}
  BY <1>1 DEF Offered
<1>4. Rows'
  BY <1>1, <1>2, <1>3, RowsKept DEF FeedInv
<1>5. budget' \in [Kinds -> Nat] /\ (Budget["repeat"] = 0 => budget'["repeat"] = 0)
  BY <1>1, SpendLeaves DEF Offered, FeedInv, Memory, Kinds
<1>6. Budget["repeat"] = 0 => m \notin offered
  <2> SUFFICES ASSUME Budget["repeat"] = 0, m \in offered PROVE FALSE
    OBVIOUS
  <2>1. budget["repeat"] > 0
    BY <1>1 DEF Offered, Spend
  <2> QED
    BY <2>1 DEF FeedInv, Memory
<1>7. Memory'
  <2>1. torn' \in BOOLEAN /\ accepted' \subseteq Messages
    BY DEF Forward, Skip, FeedInv, Memory
  <2>2. \A k \in offered' : SentAt[k] <= now'
    BY <1>1, <1>2, <1>3 DEF FeedInv, Memory
  <2> QED
    BY <1>1, <1>3, <1>5, <2>1, <2>2 DEF FeedInv, Memory
<1>8. Papers'
  <2>1. CASE journal' = journal
    BY <1>1, <1>3, <2>1, PapersKept DEF FeedInv
  <2>2. CASE journal' = Append(journal, m)
    <3>1. Good(journal)'
      <4> DEFINE k == Len(journal)
      <4>1. journal \in Seq(Messages) /\ k \in Nat
        BY DEF FeedInv, Papers, Good
      <4>2. /\ journal' \in Seq(Messages) /\ Len(journal') = k + 1
            /\ journal'[k + 1] = m /\ \A i \in 1..k : journal'[i] = journal[i]
        BY <2>2, <4>1, AppendProperties
      <4>3. \A i \in 1..k + 1 : i \in 1..k \/ i = k + 1
        BY <4>1
      <4>4. \A i \in 1..k : journal[i] \in offered
        BY DEF FeedInv, Papers, Good
      <4>5. \A i \in 1..k + 1 : journal'[i] \in offered'
        BY <1>3, <4>2, <4>3, <4>4
      <4>6. Budget["repeat"] = 0 =>
              \A i, j \in 1..k + 1 : journal'[i] = journal'[j] => i = j
        <5> SUFFICES ASSUME Budget["repeat"] = 0, NEW i \in 1..k + 1, NEW j \in 1..k + 1,
                            journal'[i] = journal'[j]
                     PROVE  i = j
          OBVIOUS
        <5>1. CASE i \in 1..k /\ j \in 1..k
          BY <4>2, <5>1 DEF FeedInv, Papers, Good
        <5>2. CASE i = k + 1 /\ j \in 1..k
          BY <1>6, <4>2, <4>4, <5>2
        <5>3. CASE j = k + 1 /\ i \in 1..k
          BY <1>6, <4>2, <4>4, <5>3
        <5> QED
          BY <4>3, <5>1, <5>2, <5>3
      <4> HIDE DEF k
      <4> QED
        BY <4>2, <4>5, <4>6 DEF Good
    <3>2. Good(flush.pending)' /\ Good(flush.current)'
      BY <1>1, <1>3, GoodKept DEF FeedInv, Papers, Good
    <3>3. \A batch \in late' : Good(batch)'
      BY <1>1, <1>3, GoodKept DEF FeedInv, Papers, Good
    <3>4. Delivered' = Delivered
      BY <1>1 DEF Delivered
    <3> QED
      BY <1>1, <3>1, <3>2, <3>3, <3>4 DEF FeedInv, Papers
  <2> QED
    BY <2>1, <2>2 DEF Forward, Skip
<1> QED
  BY <1>4, <1>7, <1>8 DEF FeedInv

\* A flush whose sequences are good, with nothing more offered.
LEMMA PapersFrom ==
    ASSUME offered' = offered, Good(journal'),
           flush' \in Flush, flush'.delivered <= Len(flush'.pending),
           Good(flush'.pending), Good(flush'.current),
           flush'.stage \in {"sent", "answered"} => flush'.delivered # Len(flush'.pending),
           \A batch \in late' : Good(batch)
    PROVE  Papers'
<1>1. Good(journal)' /\ Good(flush.pending)' /\ Good(flush.current)'
  BY DEF Good
<1>2. \A batch \in late' : Good(batch)'
  BY DEF Good
<1> QED
  BY <1>1, <1>2 DEF Papers, Delivered

\* Memory only asks of the budget that it stays one.
LEMMA MemoryKept ==
    ASSUME Memory, UNCHANGED <<now, offered, memory, torn, active, accepted, ignored>>,
           UNCHANGED budget \/ \E kind \in Kinds : Spend(kind)
    PROVE  Memory'
<1>1. budget' \in [Kinds -> Nat] /\ (Budget["repeat"] = 0 => budget'["repeat"] = 0)
  BY SpendLeaves DEF Memory
<1> QED
  BY <1>1 DEF Memory, memory

\* Reading, sending, advancing and rewriting; the rows stay.
LEMMA FlushKeeps ==
    ASSUME FeedInv,
           FlushReads \/ FlushSends \/ FlushAdvances \/ FlushRereads \/ FlushRewrites
    PROVE  FeedInv'
<1> USE DEF disk, groups, database, history
<1> DEFINE Reset == [stage |-> "idle", pending |-> <<>>, delivered |-> 0, current |-> <<>>]
<1>1. /\ UNCHANGED <<now, offered, memory, late, active, stored, last_message_at,
                     message_count, accepted, ignored, budget>>
  BY DEF FlushReads, FlushSends, FlushAdvances, FlushRereads, FlushRewrites
<1>2. now \in Int
  BY DEF FeedInv, Memory
<1>3. Rows'
  BY <1>1, <1>2, RowsKept DEF FeedInv
<1>4. Memory'
  <2>1. torn' \in BOOLEAN
    BY DEF FlushReads, FlushSends, FlushAdvances, FlushRereads, FlushRewrites,
           FeedInv, Memory
  <2> QED
    BY <1>1, <2>1 DEF FeedInv, Memory, memory
<1>5. /\ flush \in Flush /\ flush.pending \in Seq(Messages)
      /\ flush.delivered \in Nat /\ flush.delivered <= Len(flush.pending)
      /\ Good(journal) /\ Good(flush.pending) /\ Good(flush.current)
      /\ \A batch \in late' : Good(batch)
      /\ journal \in Seq(Messages) /\ flush.current \in Seq(Messages)
  BY <1>1 DEF FeedInv, Papers, Flush, Good, Batches
<1>6. CASE FlushReads
  <2>1. flush' = [stage |-> "ready", pending |-> journal, delivered |-> 0,
                  current |-> <<>>]
    BY <1>6 DEF FlushReads, NoFlush
  <2>2. flush' \in Flush
    <3>1. journal \in Seq(Messages) /\ <<>> \in Seq(Messages) /\ 0 \in Nat
      BY <1>5
    <3> QED
      BY <2>1, <3>1 DEF Flush, Batches
  <2>3. journal' = journal /\ flush'.pending = journal /\ flush'.current = <<>>
    <3>1. journal' = journal
      BY <1>6 DEF FlushReads
    <3> QED
      BY <2>1, <3>1
  <2>4. Papers'
    BY <1>1, <1>5, <2>1, <2>2, <2>3, GoodEmpty, PapersFrom
  <2> QED
    BY <1>3, <1>4, <2>4 DEF FeedInv
<1>7. CASE FlushSends
  <2>1. /\ flush' = [flush EXCEPT !.stage = "sent"] /\ journal' = journal
        /\ flush.delivered # Len(flush.pending)
    BY <1>7 DEF FlushSends, Delivered
  <2>2. /\ flush' \in Flush /\ flush'.pending = flush.pending
        /\ flush'.delivered = flush.delivered /\ flush'.current = flush.current
    BY <1>5, <2>1 DEF Flush
  <2>3. Papers'
    BY <1>1, <1>5, <2>1, <2>2, PapersFrom
  <2> QED
    BY <1>3, <1>4, <2>3 DEF FeedInv
<1>8. CASE FlushAdvances
  <2>1. Sent \in Nat /\ flush.delivered + Sent <= Len(flush.pending)
    BY <1>8, GoodBatch DEF FlushAdvances, FeedInv
  <2>2. /\ flush' = [flush EXCEPT !.stage = "ready", !.delivered = @ + Sent]
        /\ journal' = journal
    BY <1>8 DEF FlushAdvances
  <2>3. /\ flush' \in Flush /\ flush'.pending = flush.pending /\ flush'.stage = "ready"
        /\ flush'.delivered = flush.delivered + Sent /\ flush'.current = flush.current
    <3>1. flush.delivered + Sent \in Nat
      BY <1>5, <2>1
    <3> HIDE DEF Sent
    <3> QED
      BY <1>5, <2>2, <3>1 DEF Flush
  <2>4. Papers'
    BY <1>1, <1>5, <2>1, <2>2, <2>3, PapersFrom
  <2> QED
    BY <1>3, <1>4, <2>4 DEF FeedInv
<1>9. CASE FlushRereads
  <2>1. /\ flush' = [flush EXCEPT !.stage = "rewriting", !.current = journal]
        /\ journal' = journal
    BY <1>9 DEF FlushRereads
  <2>2. /\ flush' \in Flush /\ flush'.pending = flush.pending /\ flush'.stage = "rewriting"
        /\ flush'.delivered = flush.delivered /\ flush'.current = journal
    BY <1>5, <2>1 DEF Flush, Batches
  <2>3. Papers'
    BY <1>1, <1>5, <2>1, <2>2, PapersFrom
  <2> QED
    BY <1>3, <1>4, <2>3 DEF FeedInv
<1>10. CASE FlushRewrites
  <2>1. flush' = Reset /\ journal' = Remaining
    BY <1>10 DEF FlushRewrites, NoFlush
  <2>2. Good(journal')
    <3>1. Remaining = SubSeq(flush.current, flush.delivered + 1, Len(flush.current))
      BY DEF Remaining
    <3>2. flush.delivered + 1 \in Nat \ {0} /\ Len(flush.current) \in Nat
      BY <1>5
    <3> QED
      BY <1>5, <2>1, <3>1, <3>2, GoodPart
  <2>3. flush' \in Flush /\ flush'.delivered = 0 /\ flush'.pending = <<>>
        /\ flush'.current = <<>> /\ flush'.stage = "idle"
    BY <2>1 DEF Flush, Batches
  <2>4. Papers'
    BY <1>1, <1>5, <2>2, <2>3, GoodEmpty, PapersFrom
  <2> QED
    BY <1>3, <1>4, <2>4 DEF FeedInv
<1> QED
  BY <1>6, <1>7, <1>8, <1>9, <1>10

\* The flush is given up, with its request or without.
LEMMA FlushLeaves ==
    ASSUME FeedInv, offered' = offered, journal' = journal, flush' = NoFlush,
           \/ late' = late
           \/ flush.stage \in {"sent", "answered"} /\ late' = late \cup {Batch}
    PROVE  Papers'
<1>1. /\ flush' \in Flush /\ flush'.delivered = 0 /\ flush'.pending = <<>>
      /\ flush'.current = <<>> /\ flush'.stage = "idle"
  BY DEF Flush, Batches, NoFlush
<1>2. Good(journal') /\ \A batch \in late : Good(batch)
  BY DEF FeedInv, Papers
<1>3. flush.stage \in {"sent", "answered"} => Good(Batch)
  BY GoodBatch DEF FeedInv
<1>4. \A batch \in late' : Good(batch)
  BY <1>2, <1>3
<1> QED
  BY <1>1, <1>2, <1>4, GoodEmpty, PapersFrom

LEMMA FlushFailsKeeps ==
    ASSUME FeedInv, FlushFails
    PROVE  FeedInv'
<1> USE DEF disk, groups, database, history
<1>1. Papers'
  BY FlushLeaves DEF FlushFails
<1>2. Memory'
  BY MemoryKept DEF FlushFails, FeedInv, Kinds
<1>3. Rows'
  BY RowsKept DEF FlushFails, FeedInv, Memory
<1> QED
  BY <1>1, <1>2, <1>3 DEF FeedInv

LEMMA CrashKeeps ==
    ASSUME FeedInv, Crash
    PROVE  FeedInv'
<1> USE DEF disk, groups, database, history
<1>1. Papers'
  BY FlushLeaves DEF Crash
<1>2. Memory'
  <2>1. budget' \in [Kinds -> Nat] /\ (Budget["repeat"] = 0 => budget'["repeat"] = 0)
    BY SpendLeaves DEF Crash, FeedInv, Kinds
  <2>2. Deaf \in WatchList
    BY DEF Deaf, WatchList, Entry, NoEntry
  <2>3. listing' \in Seq(WatchList) /\ Len(listing') = 0
    BY DEF Crash
  <2>4. torn' \in BOOLEAN /\ up' \in BOOLEAN /\ watched' = Deaf
    BY DEF Crash, FeedInv, Memory
  <2>5. UNCHANGED <<now, offered, active, accepted, ignored>>
    BY DEF Crash
  <2> QED
    BY <2>1, <2>2, <2>3, <2>4, <2>5 DEF FeedInv, Memory
<1>3. Rows'
  BY RowsKept DEF Crash, FeedInv, Memory
<1> QED
  BY <1>1, <1>2, <1>3 DEF FeedInv

\* Start, the owner's switch and the clock.
LEMMA QuietKeeps ==
    ASSUME FeedInv, Start \/ (\E g \in Groups : OwnerSwitches(g)) \/ Tick \/ UNCHANGED vars
    PROVE  FeedInv'
<1> USE DEF memory, disk, groups, database, history
<1>1. /\ UNCHANGED <<offered, journal, torn, flush, late, stored, last_message_at,
                     message_count, accepted, ignored, listing>>
      /\ now \in Int /\ now' \in Int /\ now <= now' /\ now' \in 1..Horizon
  BY AgesAssumption DEF Start, OwnerSwitches, Tick, vars, FeedInv, Memory
<1>2. Papers' /\ Rows'
  BY <1>1, PapersKept, RowsKept DEF FeedInv
<1>3. budget' \in [Kinds -> Nat] /\ (Budget["repeat"] = 0 => budget'["repeat"] = 0)
  BY SpendLeaves DEF Start, OwnerSwitches, Tick, vars, FeedInv, Memory, Kinds
<1>4. active' \in [Groups -> BOOLEAN]
  BY DEF Start, OwnerSwitches, Tick, vars, FeedInv, Memory
<1>5. watched' \in WatchList
  <2>1. ActiveGroups \in WatchList
    BY DEF FeedInv, Memory, Rows, ActiveGroups, WatchList, Entry, NoEntry
  <2>2. Deaf \in WatchList
    BY DEF Deaf, WatchList, Entry, NoEntry
  <2> QED
    BY <2>1, <2>2 DEF Start, OwnerSwitches, Tick, vars, FeedInv, Memory
<1>6. up' \in BOOLEAN
  BY DEF Start, OwnerSwitches, Tick, vars, FeedInv, Memory
<1>7. \A m \in offered' : SentAt[m] <= now'
  <2>1. \A m \in offered : SentAt[m] \in Int /\ SentAt[m] <= now
    BY TimesAssumption DEF FeedInv, Memory
  <2> QED
    BY <1>1, <2>1
<1>8. Memory'
  BY <1>1, <1>3, <1>4, <1>5, <1>6, <1>7 DEF FeedInv, Memory
<1> QED
  BY <1>2, <1>8 DEF FeedInv

----------------------------------------------------------------------------
(* ingest *)

\* What a batch stores was offered, was not stored before, and is stamped with
\* a second that has passed.
LEMMA FreshIsOffered ==
    ASSUME FeedInv, NEW batch, Good(batch)
    PROVE  /\ Fresh(batch) \subseteq offered /\ Fresh(batch) \cap stored = {}
           /\ Range(batch) \subseteq Messages
           /\ \A m \in Fresh(batch) : SentAt[m] \in Nat /\ Stamp(m) \in 0..now
<1>1. Range(batch) \subseteq offered /\ offered \subseteq Messages
  BY DEF Good, Range, FeedInv, Memory
<1>2. Fresh(batch) \subseteq Range(batch) /\ Fresh(batch) \cap stored = {}
  BY DEF Fresh
<1>3. \A m \in offered : SentAt[m] \in Nat /\ SentAt[m] <= now
  BY <1>1, TimesAssumption DEF FeedInv, Memory
<1>4. now \in Nat
  BY AgesAssumption DEF FeedInv, Memory
<1> QED
  BY <1>1, <1>2, <1>3, <1>4 DEF Stamp

\* The watermark a batch leaves is one of the stamps or the old one, no later
\* than now, and none of them is above it.
LEMMA WatermarkIsMax ==
    ASSUME FeedInv, NEW batch, Good(batch), NEW g \in Groups
    PROVE  LET All == Stamps(batch, g) \cup {last_message_at[g]}
           IN  /\ Watermark(batch, g) \in All
               /\ \A x \in All : x <= Watermark(batch, g)
               /\ Watermark(batch, g) \in 0..now
<1> DEFINE All == Stamps(batch, g) \cup {last_message_at[g]}
<1>1. now \in Nat
  BY AgesAssumption DEF FeedInv, Memory
<1>2. All \subseteq 0..now
  <2>1. Stamps(batch, g) \subseteq 0..now
    BY FreshIsOffered DEF Stamps
  <2>2. last_message_at[g] \in 0..now
    BY <1>1 DEF FeedInv, Rows
  <2> QED
    BY <2>1, <2>2
<1>3. All # {}
  OBVIOUS
<1>4. Watermark(batch, g) = Max(All)
  BY DEF Watermark
<1>5. Max(All) \in All /\ \A x \in All : x <= Max(All)
  <2> HIDE DEF All
  <2> QED
    BY <1>1, <1>2, <1>3, BoundedHasMax
<1> QED
  BY <1>2, <1>4, <1>5

\* Without repeats a batch has one line for each message.
LEMMA OccurrencesCount ==
    ASSUME FeedInv, NEW batch, Good(batch), NEW g \in Groups
    PROVE  /\ Cardinality(Occurrences(batch, g)) \in Nat
           /\ Budget["repeat"] = 0 =>
                /\ IsFiniteSet(Fresh(batch) \cap Of(g))
                /\ Cardinality(Occurrences(batch, g)) = Cardinality(Fresh(batch) \cap Of(g))
<1> DEFINE O == Occurrences(batch, g)
           F == Fresh(batch) \cap Of(g)
<1>1. batch \in Seq(Messages) /\ Len(batch) \in Nat /\ DOMAIN batch = 1..Len(batch)
  BY DEF Good
<1>2. O \in SUBSET (1..Len(batch))
  BY <1>1 DEF Occurrences
<1>3. IsFiniteSet(O)
  <2> HIDE DEF O
  <2>1. IsFiniteSet(1..Len(batch))
    BY <1>1, FS_Interval
  <2> QED
    BY <1>2, <2>1, FS_Subset
<1>4. Cardinality(O) \in Nat
  BY <1>3, FS_CardinalityType
<1>5. ASSUME Budget["repeat"] = 0
      PROVE  IsFiniteSet(F) /\ Cardinality(O) = Cardinality(F)
  <2> DEFINE f == [i \in O |-> batch[i]]
  <2>1. \A i \in O : batch[i] \in F
    <3>1. \A m \in Fresh(batch) : m \in Messages
      BY FreshIsOffered DEF FeedInv, Memory
    <3> QED
      BY <3>1 DEF Occurrences, Of
  <2>2. \A m \in F : \E i \in O : batch[i] = m
    <3> SUFFICES ASSUME NEW m \in F PROVE \E i \in O : batch[i] = m
      OBVIOUS
    <3>1. m \in Fresh(batch) /\ GroupOf[m] = g
      BY DEF Of
    <3>2. m \in Range(batch)
      BY <3>1 DEF Fresh
    <3>3. PICK i \in DOMAIN batch : batch[i] = m
      BY <3>2 DEF Range
    <3> QED
      BY <3>1, <3>3 DEF Occurrences
  <2>3. \A i, j \in O : batch[i] = batch[j] => i = j
    BY <1>2, <1>5 DEF Good
  <2> HIDE DEF O, F
  <2>4. f \in [O -> F]
    BY <2>1
  <2>5. f \in Bijection(O, F)
    <3>1. \A i, j \in O : f[i] = f[j] => i = j
      BY <2>3
    <3>2. \A m \in F : \E i \in O : f[i] = m
      BY <2>2
    <3> HIDE DEF f
    <3> QED
      BY <2>4, <3>1, <3>2, Fun_IsBij
  <2>6. ExistsBijection(O, F)
    BY <2>5 DEF ExistsBijection
  <2> QED
    BY <1>3, <2>6, FS_Bijection
<1> QED
  BY <1>4, <1>5

\* The rows after a request.
LEMMA IngestRows ==
    ASSUME FeedInv, NEW batch, Good(batch), Ingest(batch)
    PROVE  Rows'
<1> USE DEF memory
<1>1. /\ stored' = stored \cup Fresh(batch)
      /\ message_count' =
           [g \in Groups |-> message_count[g] + Cardinality(Occurrences(batch, g))]
      /\ last_message_at' = [g \in Groups |-> Watermark(batch, g)]
      /\ now' = now /\ offered' = offered
  BY DEF Ingest
<1>2. now \in Nat
  BY AgesAssumption DEF FeedInv, Memory
<1>3. stored' \subseteq offered'
  BY <1>1, FreshIsOffered DEF FeedInv, Rows
<1>4. \A g \in Groups : last_message_at'[g] = Watermark(batch, g)
  BY <1>1
<1>5. \A g \in Groups : last_message_at'[g] \in 0..now
  BY <1>4, WatermarkIsMax
<1>6. last_message_at' \in [Groups -> Nat] /\ \A g \in Groups : last_message_at'[g] <= now'
  BY <1>1, <1>2, <1>4, <1>5
<1>7. \A g \in Groups : message_count[g] \in Nat
  BY DEF FeedInv, Rows
<1>8. message_count' \in [Groups -> Nat]
  <2>1. \A g \in Groups : message_count[g] + Cardinality(Occurrences(batch, g)) \in Nat
    <3> SUFFICES ASSUME NEW g \in Groups
                 PROVE  message_count[g] + Cardinality(Occurrences(batch, g)) \in Nat
      OBVIOUS
    <3>1. Cardinality(Occurrences(batch, g)) \in Nat
      BY OccurrencesCount
    <3> QED
      BY <1>7, <3>1
  <2> QED
    BY <1>1, <2>1
<1>9. ASSUME Undated = {}, NEW g \in Groups
      PROVE  last_message_at'[g] \in Marks(g)' /\ \A x \in Marks(g)' : x <= last_message_at'[g]
  <2>1. Stamps(batch, g) = {SentAt[m] : m \in Fresh(batch) \cap Of(g)}
    BY <1>9 DEF Stamps, Stamp
  <2>2. Marks(g)' = Marks(g) \cup Stamps(batch, g)
    BY <1>1, <2>1 DEF Marks
  <2>3. last_message_at[g] \in Marks(g) /\ \A x \in Marks(g) : x <= last_message_at[g]
    BY <1>9 DEF FeedInv, Rows
  <2>4. /\ Watermark(batch, g) \in Stamps(batch, g) \cup {last_message_at[g]}
        /\ \A x \in Stamps(batch, g) \cup {last_message_at[g]} : x <= Watermark(batch, g)
        /\ Watermark(batch, g) \in 0..now
    BY WatermarkIsMax
  <2>5. Watermark(batch, g) \in Marks(g)'
    BY <2>2, <2>3, <2>4
  <2>6. ASSUME NEW x \in Marks(g) PROVE x <= Watermark(batch, g)
    <3>1. x \in Nat
      BY TimesAssumption DEF Marks, FeedInv, Rows, Memory
    <3>2. x <= last_message_at[g] /\ last_message_at[g] <= Watermark(batch, g)
      BY <2>3, <2>4, <2>6
    <3>3. last_message_at[g] \in Nat /\ Watermark(batch, g) \in Nat
      BY <1>2, <2>4 DEF FeedInv, Rows
    <3> QED
      BY <3>1, <3>2, <3>3
  <2>7. \A x \in Marks(g)' : x <= Watermark(batch, g)
    BY <2>2, <2>4, <2>6
  <2> QED
    BY <1>4, <2>5, <2>7
<1>10. ASSUME Budget["repeat"] = 0 PROVE CountsMessages'
  <2> SUFFICES ASSUME NEW g \in Groups
               PROVE  message_count'[g] = Cardinality(stored' \cap Of(g))
    BY DEF CountsMessages, Of
  <2> DEFINE A == stored \cap Of(g)
             F == Fresh(batch) \cap Of(g)
  <2>1. message_count[g] = Cardinality(A)
    BY <1>10 DEF FeedInv, Rows, CountsMessages
  <2>2. IsFiniteSet(A)
    <3>1. A \in SUBSET Messages
      BY DEF Of
    <3> HIDE DEF A
    <3> QED
      BY <3>1, MessagesAssumption, FS_Subset
  <2>3. IsFiniteSet(F) /\ Cardinality(Occurrences(batch, g)) = Cardinality(F)
    BY <1>10, OccurrencesCount
  <2>4. A \cap F = {} /\ stored' \cap Of(g) = A \cup F
    BY <1>1, FreshIsOffered
  <2>5. message_count'[g] = message_count[g] + Cardinality(Occurrences(batch, g))
    BY <1>1
  <2> HIDE DEF A, F
  <2>6. Cardinality(A) \in Nat /\ Cardinality(F) \in Nat /\ Cardinality({}) = 0
    BY <2>2, <2>3, FS_CardinalityType, FS_EmptySet
  <2>7. Cardinality(A \cup F) = Cardinality(A) + Cardinality(F) - Cardinality(A \cap F)
    BY <2>2, <2>3, FS_Union
  <2>8. Cardinality(A \cup F) = Cardinality(A) + Cardinality(F)
    <3>1. Cardinality(A \cap F) = Cardinality({})
      BY <2>4, Zenon
    <3> QED
      BY <2>6, <2>7, <3>1
  <2>9. Cardinality(stored' \cap Of(g)) = Cardinality(A \cup F)
    BY <2>4
  <2>10. message_count'[g] = Cardinality(A) + Cardinality(F)
    BY <2>1, <2>3, <2>5
  <2> QED
    BY <2>8, <2>9, <2>10
<1> QED
  BY <1>3, <1>6, <1>8, <1>9, <1>10 DEF Rows

LEMMA IngestKeeps ==
    ASSUME FeedInv, IngestSent \/ IngestLate
    PROVE  FeedInv'
<1> USE DEF memory, disk
<1>1. ASSUME NEW batch, Good(batch), Ingest(batch)
      PROVE  Rows' /\ Memory' /\ journal' = journal /\ offered' = offered
  <2>1. ignored' \subseteq Messages
    BY <1>1, FreshIsOffered DEF Ingest, FeedInv, Memory
  <2>2. UNCHANGED <<now, offered, up, watched, listing, journal, torn, active, accepted, budget>>
    BY <1>1 DEF Ingest
  <2>3. Memory'
    BY <2>1, <2>2 DEF FeedInv, Memory
  <2> QED
    BY <1>1, <2>2, <2>3, IngestRows
<1>2. CASE IngestSent
  <2>1. Ingest(Batch) /\ Good(Batch)
    BY <1>2, GoodBatch DEF IngestSent, FeedInv
  <2>2. Rows' /\ Memory' /\ journal' = journal /\ offered' = offered
    BY <1>1, <2>1
  <2>3. /\ flush.stage = "sent" /\ flush' = [flush EXCEPT !.stage = "answered"] /\ late' = late
        /\ flush \in Flush
    BY <1>2 DEF IngestSent, FeedInv, Papers
  <2>4. /\ flush' \in Flush /\ flush'.pending = flush.pending
        /\ flush'.delivered = flush.delivered /\ flush'.current = flush.current
    BY <2>3 DEF Flush
  <2>5. Papers'
    BY <2>2, <2>3, <2>4, PapersFrom DEF FeedInv, Papers, Delivered
  <2> QED
    BY <2>2, <2>5 DEF FeedInv
<1>3. CASE IngestLate
  <2>1. PICK batch \in late : Ingest(batch) /\ late' = late \ {batch} /\ flush' = flush
    BY <1>3 DEF IngestLate
  <2>2. Good(batch)
    BY DEF FeedInv, Papers
  <2>3. Rows' /\ Memory' /\ journal' = journal /\ offered' = offered
    BY <1>1, <2>1, <2>2
  <2>4. Papers'
    BY <2>1, <2>3, PapersFrom DEF FeedInv, Papers, Delivered
  <2> QED
    BY <2>3, <2>4 DEF FeedInv
<1> QED
  BY <1>2, <1>3

----------------------------------------------------------------------------
LEMMA StepFeedInv ==
    ASSUME FeedInv, [Next]_vars
    PROVE  FeedInv'
<1>1. ASSUME NEW m \in Messages, Forward(m) \/ Skip(m) PROVE FeedInv'
  BY <1>1, OfferKeeps
<1>2. CASE Flushes
  BY <1>2, FlushKeeps, IngestKeeps DEF Flushes
<1>3. CASE RefreshAsks \/ RefreshArrives
  BY <1>3, RefreshKeeps
<1>4. CASE FlushFails
  BY <1>4, FlushFailsKeeps
<1>5. CASE IngestLate
  BY <1>5, IngestKeeps
<1>6. CASE Crash
  BY <1>6, CrashKeeps
<1>7. CASE Start \/ (\E g \in Groups : OwnerSwitches(g)) \/ Tick \/ UNCHANGED vars
  BY <1>7, QuietKeeps
<1> QED
  BY <1>1, <1>2, <1>3, <1>4, <1>5, <1>6, <1>7 DEF Next

LEMMA AlwaysFeedInv == Spec => []FeedInv
<1>1. Init => FeedInv
  BY InitFeedInv
<1>2. FeedInv /\ [Next]_vars => FeedInv'
  BY StepFeedInv
<1> QED
  BY <1>1, <1>2, PTL DEF Spec

\* Every variable of the gateway and of the rows keeps its type, whatever is
\* lost, late, repeated, torn or restarted.
THEOREM TypeCorrect == Spec => []TypeOK
<1>1. FeedInv => TypeOK
  <2> SUFFICES ASSUME FeedInv PROVE TypeOK
    OBVIOUS
  <2>1. \A s : Good(s) => s \in Batches
    BY DEF Good, Batches
  <2>2. journal \in Batches /\ late \subseteq Batches
    BY <2>1 DEF FeedInv, Papers
  <2>3. stored \subseteq Messages
    BY DEF FeedInv, Rows, Memory
  <2> QED
    BY <2>2, <2>3 DEF FeedInv, Memory, Papers, Rows, TypeOK
<1> QED
  BY <1>1, AlwaysFeedInv, PTL

\* gateway_groups hands out "the newest message this group has actually
\* stored", and the count the owner is shown is the number of messages stored:
\* as long as every message carries its timestamp and WhatsApp hands none over
\* twice, however the requests are lost, late or out of order.
THEOREM RowIsExact ==
    ASSUME Undated = {}, Budget["repeat"] = 0
    PROVE  Spec => []GroupRowIsExact
<1>1. FeedInv => GroupRowIsExact
  <2> SUFFICES ASSUME FeedInv PROVE GroupRowIsExact
    OBVIOUS
  <2>1. CountsMessages
    BY DEF FeedInv, Rows
  <2>2. ASSUME NEW g \in Groups
        PROVE  last_message_at[g] = Max({0} \cup {SentAt[m] : m \in stored \cap Of(g)})
    <3> DEFINE M == Marks(g)
               x == last_message_at[g]
    <3>1. x \in M /\ \A y \in M : y <= x
      BY DEF FeedInv, Rows
    <3>2. M \subseteq Int
      BY TimesAssumption DEF Marks, FeedInv, Rows, Memory
    <3>3. Max(M) = x
      <4> HIDE DEF M, x
      <4> QED
        BY <3>1, <3>2, MaxIs
    <3> QED
      BY <3>3 DEF Marks
  <2> QED
    BY <2>1, <2>2 DEF GroupRowIsExact, WatermarkIsNewest
<1> QED
  BY <1>1, AlwaysFeedInv, PTL

----------------------------------------------------------------------------
(* What the gateway skips is no newer than what is stored                  *)

\* The message carries no timestamp, or was posted no later than m.
AtLeast(s, m) == s \in Undated \/ SentAt[m] <= SentAt[s]

\* "Already stored, or older than we are willing to reach back for"
\* (handleMessage), as far as it is true in whatever order WhatsApp hands
\* messages over: a gateway that watches the group skips a recent message only
\* when one posted no earlier, or one without a timestamp, is stored already.
\* What is newer than all that is stored of its group is never skipped.
SkipsNothingNewer ==
    [][\A m \in Messages :
          /\ Skip(m)
          /\ watched[GroupOf[m]].on
          /\ Recent(m)
          /\ m \notin Undated
          => \E s \in stored \cap Of(GroupOf[m]) : AtLeast(s, m)]_vars

\* A resume point, in the gateway or in an answer on its way to it, is no newer
\* than the group's row, and that no newer than a message stored.
Resumes(g, last) == last \in Nat /\ last <= last_message_at[g]

Marked ==
    \A g \in Groups :
      /\ Resumes(g, watched[g].last)
      /\ listing # <<>> => Resumes(g, listing[1][g].last)
      /\ last_message_at[g] = 0
         \/ \E m \in stored \cap Of(g) : m \in Undated \/ last_message_at[g] <= SentAt[m]

LEMMA MaxPair ==
    ASSUME NEW a \in Int, NEW b \in Int
    PROVE  Max({a, b}) \in {a, b}
<1>1. \E x \in {a, b} : \A y \in {a, b} : x >= y
  OBVIOUS
<1> QED
  BY <1>1 DEF Max

LEMMA Clock == ASSUME FeedInv PROVE now \in Nat
BY AgesAssumption DEF FeedInv, Memory

\* A recent message that is skipped lies behind the resume point.
LEMMA SkippedIsBehind ==
    ASSUME FeedInv, Marked, NEW m \in Messages \ Undated, Skip(m),
           watched[GroupOf[m]].on, Recent(m)
    PROVE  \E s \in stored \cap Of(GroupOf[m]) : AtLeast(s, m)
<1> DEFINE g == GroupOf[m]
           last == watched[g].last
<1>1. g \in Groups
  BY MessagesAssumption
<1>2. ~(SentAt[m] > Cutoff(g))
  BY DEF Skip, Wanted
<1>3. /\ now \in Nat /\ SentAt[m] \in Nat /\ last \in Nat /\ last_message_at[g] \in Nat
      /\ last <= last_message_at[g]
  BY <1>1, Clock, TimesAssumption DEF FeedInv, Rows, Marked, Resumes
<1>4. SentAt[m] > now - MaxMessageAge /\ SentAt[m] > now - BackfillMaxAge
  BY DEF Recent
<1>5. now - MaxMessageAge \in Int /\ now - BackfillMaxAge \in Int
  BY <1>3, AgesAssumption
<1>6. last # 0 /\ SentAt[m] <= last
  <2>1. CASE last = 0
    <3>1. Cutoff(g) = now - MaxMessageAge
      BY <2>1 DEF Cutoff
    <3> QED
      BY <1>2, <1>4, <3>1
  <2>2. CASE last # 0
    <3>1. Cutoff(g) = Max({last, now - BackfillMaxAge})
      BY <2>2 DEF Cutoff
    <3>2. Cutoff(g) \in {last, now - BackfillMaxAge}
      <4> HIDE DEF last
      <4> QED
        BY <1>3, <1>5, <3>1, MaxPair
    <3> QED
      BY <1>2, <1>3, <1>4, <1>5, <2>2, <3>2
  <2> QED
    BY <2>1, <2>2
<1>7. PICK s \in stored \cap Of(g) : s \in Undated \/ last_message_at[g] <= SentAt[s]
  <2>1. last_message_at[g] # 0
    BY <1>3, <1>6
  <2> QED
    BY <1>1, <2>1 DEF Marked
<1>8. SentAt[s] \in Nat
  BY TimesAssumption DEF Of
<1> QED
  BY <1>3, <1>6, <1>7, <1>8 DEF AtLeast

LEMMA InitMarked == Init => Marked
BY DEF Init, Marked, Resumes

\* What the API answers resumes where the rows say, or nowhere.
LEMMA AnswerResumes ==
    ASSUME FeedInv, NEW g \in Groups
    PROVE  Resumes(g, ActiveGroups[g].last) /\ Resumes(g, Deaf[g].last)
<1>1. last_message_at[g] \in Nat
  BY DEF FeedInv, Rows
<1>2. ActiveGroups[g].last \in {0, last_message_at[g]} /\ Deaf[g].last = 0
  BY DEF ActiveGroups, Deaf, NoEntry
<1> QED
  BY <1>1, <1>2 DEF Resumes

\* The watch list is asked for, answered, lost with the process, or read anew.
LEMMA ListMarked ==
    ASSUME FeedInv, Marked, RefreshAsks \/ RefreshArrives \/ Crash \/ Start
    PROVE  Marked'
<1> USE DEF database, groups
<1>1. UNCHANGED <<last_message_at, stored>>
  BY DEF RefreshAsks, RefreshArrives, Crash, Start
<1>2. \A g \in Groups :
        last_message_at[g] = 0
        \/ \E m \in stored \cap Of(g) : m \in Undated \/ last_message_at[g] <= SentAt[m]
  BY DEF Marked
<1>3. \/ watched' = watched
      \/ watched' = Deaf
      \/ watched' = ActiveGroups
      \/ listing # <<>> /\ watched' = listing[1]
  BY DEF RefreshAsks, RefreshArrives, Crash, Start
<1>4. listing' = listing \/ listing' = <<>> \/ listing' = <<ActiveGroups>>
  BY DEF RefreshAsks, RefreshArrives, Crash, Start
<1>5. \A g \in Groups : Resumes(g, watched'[g].last)
  BY <1>3, AnswerResumes DEF Marked
<1>6. \A g \in Groups : listing' # <<>> => Resumes(g, listing'[1][g].last)
  <2>1. <<ActiveGroups>>[1] = ActiveGroups
    OBVIOUS
  <2> QED
    BY <1>4, <2>1, AnswerResumes DEF Marked
<1> QED
  BY <1>1, <1>2, <1>5, <1>6 DEF Marked, Resumes, Of

\* What ingest marks the group's row with is the stamp of a message it stores,
\* or what was there; and the row never goes back.
LEMMA IngestMarked ==
    ASSUME FeedInv, Marked, NEW batch, Good(batch), Ingest(batch)
    PROVE  Marked'
<1>1. /\ stored' = stored \cup Fresh(batch)
      /\ last_message_at' = [g \in Groups |-> Watermark(batch, g)]
      /\ UNCHANGED <<watched, listing>>
  BY DEF Ingest, memory
<1>2. now \in Nat
  BY Clock
<1>3. ASSUME NEW g \in Groups
      PROVE  /\ last_message_at[g] <= last_message_at'[g]
             /\ last_message_at[g] \in Nat /\ last_message_at'[g] \in Nat
             /\ \/ last_message_at'[g] = last_message_at[g]
                \/ \E m \in stored' \cap Of(g) :
                      m \in Undated \/ last_message_at'[g] <= SentAt[m]
  <2>1. /\ last_message_at'[g] \in Stamps(batch, g) \cup {last_message_at[g]}
        /\ last_message_at[g] <= last_message_at'[g]
        /\ last_message_at'[g] \in 0..now
    BY <1>1, WatermarkIsMax
  <2>2. last_message_at[g] \in Nat /\ last_message_at'[g] \in Nat
    BY <1>2, <2>1 DEF FeedInv, Rows
  <2>3. CASE last_message_at'[g] \in Stamps(batch, g)
    <3>1. PICK m \in Fresh(batch) \cap Of(g) : last_message_at'[g] = Stamp(m)
      BY <2>3 DEF Stamps
    <3>2. m \in Undated \/ last_message_at'[g] = SentAt[m]
      BY <3>1 DEF Stamp
    <3>3. m \in stored' \cap Of(g)
      BY <1>1
    <3> QED
      BY <2>1, <2>2, <3>2, <3>3
  <2> QED
    BY <2>1, <2>2, <2>3
<1>4. ASSUME NEW g \in Groups, NEW last, Resumes(g, last)
      PROVE  last \in Nat /\ last <= last_message_at'[g]
  BY <1>3, <1>4 DEF Resumes
<1>5. ASSUME NEW g \in Groups
      PROVE  \/ last_message_at'[g] = 0
             \/ \E m \in stored' \cap Of(g) :
                   m \in Undated \/ last_message_at'[g] <= SentAt[m]
  <2>1. \/ last_message_at[g] = 0
        \/ \E m \in stored \cap Of(g) : m \in Undated \/ last_message_at[g] <= SentAt[m]
    BY DEF Marked
  <2> QED
    BY <1>1, <1>3, <2>1
<1> QED
  BY <1>1, <1>4, <1>5 DEF Marked, Resumes, Of

\* Whatever else happens leaves the watch list and the rows alone.
LEMMA ElseMarked ==
    ASSUME Marked,
           \/ \E m \in Messages : Forward(m) \/ Skip(m)
           \/ FlushReads \/ FlushSends \/ FlushAdvances \/ FlushRereads \/ FlushRewrites
           \/ FlushFails \/ Tick \/ (\E g \in Groups : OwnerSwitches(g)) \/ UNCHANGED vars
    PROVE  Marked'
<1>1. UNCHANGED <<watched, listing, last_message_at, stored>>
  BY DEF Forward, Skip, FlushReads, FlushSends, FlushAdvances, FlushRereads, FlushRewrites,
         FlushFails, Tick, OwnerSwitches, vars, memory, database, groups
<1> QED
  BY <1>1 DEF Marked, Resumes, Of

LEMMA StepMarked ==
    ASSUME FeedInv, Marked, [Next]_vars
    PROVE  Marked'
<1>1. CASE IngestSent
  BY <1>1, GoodBatch, IngestMarked DEF IngestSent, FeedInv
<1>2. CASE IngestLate
  BY <1>2, IngestMarked DEF IngestLate, FeedInv, Papers
<1>3. CASE RefreshAsks \/ RefreshArrives \/ Crash \/ Start
  BY <1>3, ListMarked
<1> QED
  BY <1>1, <1>2, <1>3, ElseMarked DEF Next, Flushes

\* Whatever the order of arrival, and whatever crashes, is lost, late, torn,
\* handed over again or switched by the owner, the gateway skips no recent
\* message of a group it watches that is newer than all the API has stored of
\* it.  (That it skips nothing that is missing needs messages in order, and is
\* SkippedIsStored.)
THEOREM NothingNewerSkipped == Spec => SkipsNothingNewer
<1> DEFINE Behind == \A m \in Messages :
                       /\ Skip(m)
                       /\ watched[GroupOf[m]].on
                       /\ Recent(m)
                       /\ m \notin Undated
                       => \E s \in stored \cap Of(GroupOf[m]) : AtLeast(s, m)
           Inv == FeedInv /\ Marked
<1>1. Init => Inv
  BY InitFeedInv, InitMarked
<1>2. Inv /\ [Next]_vars => Inv'
  BY StepFeedInv, StepMarked
<1>3. Inv => Behind
  BY SkippedIsBehind
<1>4. Inv /\ [Next]_vars => [Behind]_vars
  BY <1>3
<1> QED
  BY <1>1, <1>2, <1>4, PTL DEF Spec, SkipsNothingNewer

============================================================================
