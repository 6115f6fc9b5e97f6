--------------------------- MODULE LeadDeskProofs ---------------------------
(***************************************************************************)
(* That numbers are not entered twice unawares, that leavers hold nothing, *)
(* that the timeline tells the stage, that tasks follow assignments and    *)
(* that reports, queues and shares agree with the book, for any staff,     *)
(* book, requests and overlap of them.                                     *)
(***************************************************************************)
EXTENDS LeadDesk, Integers, FiniteSetTheorems, SequenceTheorems, FunctionTheorems,
        WellFoundedInduction, TLAPS

\* What a handler can have read.
Readings ==
    (SUBSET Nat) \cup (SUBSET [lead : Nat, user : Users, task : Nat]) \cup Stages \cup Statuses

Request == [stage : {"idle", "read", "scanned"}, at : Nat, ask : Asks \cup {0},
            found : Readings, orphans : SUBSET Nat]

\* Kinds of requests that are not about one lead.
Apart == {"create", "task", "import", "handover", "deactivate", "reactivate"}

\* What a handler holds agrees with what it was asked, and still exists.
Holds(r) ==
    r.stage # "idle" =>
        /\ r.ask \in Asks /\ r.at < clock
        /\ r.ask.kind \notin Apart => r.ask.lead \in DOMAIN contact
        /\ r.ask.kind = "task" => r.ask.lead \in DOMAIN task
        /\ r.ask.kind = "import" => r.found \subseteq DOMAIN r.ask.phones
        /\ r.ask.kind = "handover" =>
             r.found \subseteq DOMAIN contact /\ r.ask.to[1] # r.ask.to[2]
        /\ r.ask.kind = "assign" =>
             \A x \in r.found : x.lead = r.ask.lead /\ x.task \in DOMAIN task
        /\ r.ask.kind \in {"stage", "show", "visit", "call"} => r.found \in Stages
        /\ r.stage = "scanned" => r.ask.kind = "assign"

\* The tables.
Tables ==
    /\ active \subseteq Users
    /\ contact \in Seq(Contact) /\ Len(contact) <= MaxContacts
    /\ task \in Seq(Task)
    /\ \A j \in DOMAIN task : task[j].lead \in DOMAIN contact
    /\ clock \in Nat
    /\ left \in [Users -> Nat] /\ \A u \in Users : left[u] < clock
    /\ handed \subseteq Users
    /\ late \cup crossed \subseteq DOMAIN contact

Assignments ==
    /\ assignment \subseteq [lead : DOMAIN contact, user : Users, task : DOMAIN task]
    /\ \A x, y \in assignment : x.lead = y.lead /\ x.user = y.user => x = y
    /\ \A x \in assignment : Matches(x, task)

Typed ==
    /\ Tables /\ Assignments
    /\ request \in [Requests -> Request]
    /\ \A q \in Requests : Holds(request[q])

-----------------------------------------------------------------------------
(* What a commit does to the contacts                                      *)

\* Every lead with this number came after that moment.
NoneOlder(phone, at) ==
    \A c \in DOMAIN contact :
        contact[c].live /\ contact[c].phone = phone => contact[c].since > at

\* What may become of a lead that is there.
Kept(c) ==
    LET old == contact[c]  new == contact'[c] IN
    /\ new.live => old.live
    /\ \/ new.phone = old.phone /\ new.since = old.since
          /\ new.began = old.began /\ new.forced = old.forced
       \/ new.since = clock /\ new.forced
    /\ \A u \in Users : c \in BookOf(u)' => c \in BookOf(u) \/ u \in active \/ c \in late'

\* What a lead is that is new.
Entered(c) ==
    LET new == contact'[c] IN
    /\ new.since = clock
    /\ new.forced \/ NoneOlder(new.phone, new.began) \/ ~new.live
    /\ new.told = new.stage /\ new.toldAt = 0 /\ new.moved = clock
    /\ new.owner \in active \/ c \in late'

LeadStep ==
    /\ contact' \in Seq(Contact)
    /\ Len(contact) <= Len(contact') /\ Len(contact') <= MaxContacts
    /\ late \subseteq late'
    /\ late' \cup crossed' \subseteq DOMAIN contact'
    /\ \A c \in DOMAIN contact : Kept(c)
    /\ \A c \in DOMAIN contact' \ DOMAIN contact : Entered(c)

LEMMA ContactFields ==
    ASSUME Tables, NEW c \in DOMAIN contact
    PROVE  /\ contact[c] \in Contact
           /\ contact[c].owner \in Users /\ contact[c].live \in BOOLEAN
           /\ contact[c].stage \in Stages /\ contact[c].phone \in Phones
           /\ contact[c].since \in Nat /\ contact[c].began \in Nat
           /\ contact[c].forced \in BOOLEAN /\ contact[c].told \in Stages
           /\ contact[c].toldAt \in Nat /\ contact[c].moved \in Nat
           /\ contact[c].byhand \in BOOLEAN
<1>1. contact[c] \in Contact
  BY DEF Tables
<1> QED
  BY <1>1 DEF Contact

\* One lead is written.
Written(c, d) == [contact EXCEPT ![c] = d]

LEMMA WrittenLead ==
    ASSUME Tables, NEW c \in DOMAIN contact, NEW d \in Contact, contact' = Written(c, d)
    PROVE  /\ contact' \in Seq(Contact) /\ Len(contact') = Len(contact)
           /\ DOMAIN contact' = DOMAIN contact
           /\ contact'[c] = d
           /\ \A e \in DOMAIN contact : e # c => contact'[e] = contact[e]
BY DEF Tables, Written

\* The other leads are as they were, whatever is noted of them.
LEMMA OthersKept ==
    ASSUME Tables, NEW c, late \subseteq late', 
           NEW e \in DOMAIN contact, e # c, e \in DOMAIN contact', contact'[e] = contact[e]
    PROVE  Kept(e)
BY DEF Kept, BookOf, InRotation

\* A lead that keeps its stage: owner, live and such change.
LEMMA LeadKept ==
    ASSUME Tables, NEW c \in DOMAIN contact, NEW d \in Contact, contact' = Written(c, d),
           late \subseteq late', late' \cup crossed' \subseteq DOMAIN contact,
           d.live => contact[c].live,
           \/ d.phone = contact[c].phone /\ d.since = contact[c].since
              /\ d.began = contact[c].began /\ d.forced = contact[c].forced
           \/ d.since = clock /\ d.forced,
           d.stage = contact[c].stage,
           \/ d.owner = contact[c].owner
           \/ d.owner \in active
           \/ c \in late'
    PROVE  LeadStep
<1>1. /\ contact' \in Seq(Contact) /\ Len(contact') = Len(contact)
      /\ DOMAIN contact' = DOMAIN contact
      /\ contact'[c] = d
      /\ \A e \in DOMAIN contact : e # c => contact'[e] = contact[e]
  BY WrittenLead
<1>2. Kept(c)
  BY <1>1 DEF Kept, BookOf, InRotation
<1>3. \A e \in DOMAIN contact : e # c => Kept(e)
  BY <1>1, OthersKept
<1> QED
  BY <1>1, <1>2, <1>3 DEF LeadStep, Tables

-----------------------------------------------------------------------------
(* One lemma per kind of request that writes contacts                      *)

\* A handler that has screened a number stays right about it: whoever else
\* has entered that number since did it after the handler began.
Screened(r) ==
    r.stage = "read" =>
        /\ r.ask.kind = "create" /\ ~r.ask.flag => NoneOlder(r.ask.phones[1], r.at)
        /\ r.ask.kind = "import" => \A j \in r.found : NoneOlder(r.ask.phones[j], r.at)

\* What a busy handler was asked.
LEMMA AskedWell ==
    ASSUME Typed, NEW q \in Requests, request[q].stage # "idle"
    PROVE  /\ request[q] \in Request /\ Holds(request[q])
           /\ request[q].ask \in Asks /\ request[q].ask \in Ask
           /\ request[q].at \in Nat /\ request[q].at < clock /\ clock \in Nat
           /\ request[q].ask.to \in Seq(Users) /\ request[q].ask.phones \in Seq(Phones)
           /\ request[q].ask.flag \in BOOLEAN /\ request[q].ask.by \in Users
<1>1. request[q] \in Request /\ Holds(request[q]) /\ clock \in Nat
  BY DEF Typed, Tables
<1>2. request[q].ask \in Ask
  BY <1>1, AsksAssumption DEF Holds
<1> QED
  BY <1>1, <1>2 DEF Request, Holds, Ask

\* The sequences a request names are not empty where an element is taken.
LEMMA FirstOf ==
    ASSUME NEW S, NEW s \in Seq(S), s # <<>>
    PROVE  s[1] \in S /\ Len(s) \in Nat \ {0}
BY EmptySeq

LEMMA DeleteStep ==
    ASSUME Typed, NEW q \in Requests, Delete(q)
    PROVE  LeadStep
<1>1. request[q].stage = "read" /\ request[q].ask.kind = "delete"
  BY DEF Delete, Asked
<1>2. request[q].ask.lead \in DOMAIN contact
  BY <1>1, AskedWell DEF Holds, Apart
<1> PICK c \in DOMAIN contact : c = request[q].ask.lead
  BY <1>2
<1> DEFINE d == [contact[c] EXCEPT !.live = FALSE]
<1>3. contact' = Written(c, d)
  BY DEF Delete, Written
<1>4. /\ d \in Contact /\ d.live = FALSE /\ d.phone = contact[c].phone
      /\ d.since = contact[c].since /\ d.began = contact[c].began
      /\ d.forced = contact[c].forced
      /\ d.stage = contact[c].stage /\ d.owner = contact[c].owner
  BY ContactFields DEF Typed, Contact
<1>5. late \subseteq late' /\ late' \cup crossed' \subseteq DOMAIN contact
  BY DEF Delete, Typed, Tables
<1> HIDE DEF d
<1> QED
  BY <1>3, <1>4, <1>5, LeadKept DEF Typed

LEMMA SetPhoneStep ==
    ASSUME Typed, NEW q \in Requests, SetPhone(q)
    PROVE  LeadStep
<1>1. request[q].stage = "read" /\ request[q].ask.kind = "phone"
  BY DEF SetPhone, Asked
<1>2. request[q].ask.lead \in DOMAIN contact /\ clock \in Nat
  BY <1>1, AskedWell DEF Holds, Apart
<1>3. request[q].ask.phones[1] \in Phones
  BY <1>1, AskedWell, AsksAssumption, FirstOf
<1> PICK c \in DOMAIN contact : c = request[q].ask.lead
  BY <1>2
<1> PICK phone \in Phones : phone = request[q].ask.phones[1]
  BY <1>3
<1> DEFINE d == [contact[c] EXCEPT !.phone = phone, !.since = clock, !.forced = TRUE]
<1>4. contact[c] \in Contact
  BY ContactFields DEF Typed
<1>5. contact' = Written(c, d)
  BY <1>4 DEF SetPhone, Written, Contact
<1>6. /\ d \in Contact /\ d.live = contact[c].live
      /\ d.since = clock /\ d.forced = TRUE
      /\ d.stage = contact[c].stage /\ d.owner = contact[c].owner
  BY <1>2, <1>4 DEF Contact
<1>7. late \subseteq late' /\ late' \cup crossed' \subseteq DOMAIN contact
  BY DEF SetPhone, Typed, Tables
<1> HIDE DEF d
<1> QED
  BY <1>5, <1>6, <1>7, LeadKept DEF Typed

LEMMA ReassignStep ==
    ASSUME Typed, NEW q \in Requests, Reassign(q)
    PROVE  LeadStep
<1>1. request[q].stage = "read" /\ request[q].ask.kind \in {"reassign", "owner"}
  BY DEF Reassign, Asked
<1>2. request[q].ask.lead \in DOMAIN contact
  BY <1>1, AskedWell DEF Holds, Apart
<1>3. request[q].ask.to[1] \in Users
  BY <1>1, AskedWell, AsksAssumption, FirstOf
<1> PICK c \in DOMAIN contact : c = request[q].ask.lead
  BY <1>2
<1> PICK u \in Users : u = request[q].ask.to[1]
  BY <1>3
<1> DEFINE d == [contact[c] EXCEPT !.owner = u]
<1>4. contact[c] \in Contact
  BY ContactFields DEF Typed
<1>5. contact' = Written(c, d)
  BY DEF Reassign, Written
<1>6. /\ d \in Contact /\ d.live = contact[c].live /\ d.phone = contact[c].phone
      /\ d.since = contact[c].since /\ d.began = contact[c].began
      /\ d.forced = contact[c].forced
      /\ d.stage = contact[c].stage /\ d.owner = u
  BY <1>4 DEF Contact
<1>7. /\ late \subseteq late' /\ late' \cup crossed' \subseteq DOMAIN contact
      /\ u \in active \/ c \in late'
  BY DEF Reassign, Strays, Typed, Tables
<1> HIDE DEF d
<1> QED
  BY <1>5, <1>6, <1>7, LeadKept DEF Typed

\* A stage is written, or an event is noted.
LEMMA StagedKept ==
    ASSUME Tables, NEW c \in DOMAIN contact, NEW d \in Contact, contact' = Written(c, d),
           d.live = contact[c].live, d.phone = contact[c].phone, d.since = contact[c].since,
           d.began = contact[c].began, d.forced = contact[c].forced, d.owner = contact[c].owner,
           crossed' \subseteq DOMAIN contact,
           Reopens(c) \/ (UNCHANGED late /\ d.stage = contact[c].stage)
    PROVE  LeadStep
<1>1. /\ contact' \in Seq(Contact) /\ Len(contact') = Len(contact)
      /\ DOMAIN contact' = DOMAIN contact
      /\ contact'[c] = d
      /\ \A e \in DOMAIN contact : e # c => contact'[e] = contact[e]
  BY WrittenLead
<1>2. /\ late \subseteq late' /\ late' \subseteq DOMAIN contact
      /\ \/ InRotation(c) \/ contact[c].owner \in active \/ c \in late'
         \/ d.stage = contact[c].stage
  BY DEF Reopens, Strays, Tables
<1>3. Kept(c)
  BY <1>1, <1>2 DEF Kept, BookOf, InRotation
<1>4. \A e \in DOMAIN contact : e # c => Kept(e)
  BY <1>1, <1>2, OthersKept
<1> QED
  BY <1>1, <1>2, <1>3, <1>4 DEF LeadStep, Tables

\* What becomes of a lead that an event tells something of.
LEMMA ToldLead ==
    ASSUME NEW lead \in Contact, NEW stage \in Stages, NEW when \in Nat, NEW by \in {"clock", "hand"}
    PROVE  LET d == Tells(lead, stage, when, by) IN
           /\ d \in Contact /\ d.live = lead.live /\ d.phone = lead.phone
           /\ d.since = lead.since /\ d.began = lead.began /\ d.forced = lead.forced
           /\ d.owner = lead.owner /\ d.stage = lead.stage /\ d.moved = lead.moved
           /\ d.lead = lead.lead /\ d.batch = lead.batch
           /\ when > lead.toldAt => d.told = stage /\ d.toldAt = when
           /\ when <= lead.toldAt => d.told = lead.told /\ d.toldAt = lead.toldAt
           /\ by = "hand" => d.byhand
           /\ by # "hand" => d.byhand = lead.byhand
<1> DEFINE newest == when > lead.toldAt
           d == [lead EXCEPT !.told = IF newest THEN stage ELSE @,
                             !.toldAt = IF newest THEN when ELSE @,
                             !.byhand = @ \/ by = "hand"]
<1>1. Tells(lead, stage, when, by) = d
  BY DEF Tells
<1>2. /\ lead.told \in Stages /\ lead.toldAt \in Nat /\ lead.byhand \in BOOLEAN
      /\ (lead.byhand \/ by = "hand") \in BOOLEAN
  BY DEF Contact
<1>3. /\ d \in Contact /\ d.live = lead.live /\ d.phone = lead.phone
      /\ d.since = lead.since /\ d.began = lead.began /\ d.forced = lead.forced
      /\ d.owner = lead.owner /\ d.stage = lead.stage /\ d.moved = lead.moved
      /\ d.lead = lead.lead /\ d.batch = lead.batch
      /\ d.told = (IF newest THEN stage ELSE lead.told)
      /\ d.toldAt = (IF newest THEN when ELSE lead.toldAt)
  BY <1>2 DEF Contact
<1>4. d.byhand = (lead.byhand \/ by = "hand")
  BY DEF Contact
<1>5. (by = "hand" => d.byhand) /\ (by # "hand" => d.byhand = lead.byhand)
  <2> HIDE DEF d
  <2> QED
    BY <1>2, <1>4
<1>6. when <= lead.toldAt => ~newest
  BY <1>2
<1> HIDE DEF d, newest
<1>7. /\ newest => d.told = stage /\ d.toldAt = when
      /\ ~newest => d.told = lead.told /\ d.toldAt = lead.toldAt
  BY <1>3
<1> QED
  BY <1>1, <1>3, <1>5, <1>6, <1>7 DEF newest

\* What becomes of one that somebody notes an event of.
LEMMA NotedLead ==
    ASSUME NEW lead \in Contact, NEW stage \in Stages, NEW when \in Nat
    PROVE  LET d == Tells(lead, stage, when, "hand") IN
           /\ d \in Contact /\ d.live = lead.live /\ d.phone = lead.phone
           /\ d.since = lead.since /\ d.began = lead.began /\ d.forced = lead.forced
           /\ d.owner = lead.owner /\ d.stage = lead.stage /\ d.moved = lead.moved
           /\ d.lead = lead.lead /\ d.batch = lead.batch
           /\ d.byhand
<1> PICK by \in {"clock", "hand"} : by = "hand"
  OBVIOUS
<1> DEFINE d == Tells(lead, stage, when, by)
<1>1. /\ d \in Contact /\ d.live = lead.live /\ d.phone = lead.phone
      /\ d.since = lead.since /\ d.began = lead.began /\ d.forced = lead.forced
      /\ d.owner = lead.owner /\ d.stage = lead.stage /\ d.moved = lead.moved
      /\ d.lead = lead.lead /\ d.batch = lead.batch
      /\ by = "hand" => d.byhand
  BY ToldLead
<1>2. Tells(lead, stage, when, "hand") = d
  OBVIOUS
<1> HIDE DEF d
<1> QED
  BY <1>1, <1>2

\* A lead in another stage.
InStage(lead, stage) == [lead EXCEPT !.stage = stage, !.moved = clock]

LEMMA StagedLead ==
    ASSUME NEW lead \in Contact, NEW stage \in Stages, clock \in Nat
    PROVE  LET d == InStage(lead, stage) IN
           /\ d \in Contact /\ d.live = lead.live /\ d.phone = lead.phone
           /\ d.since = lead.since /\ d.began = lead.began /\ d.forced = lead.forced
           /\ d.owner = lead.owner /\ d.stage = stage /\ d.moved = clock
           /\ d.lead = lead.lead /\ d.batch = lead.batch
           /\ d.told = lead.told /\ d.toldAt = lead.toldAt /\ d.byhand = lead.byhand
BY DEF InStage, Contact

\* What a handler writes that moves a stage.
LEMMA MovedLead ==
    ASSUME Typed, NEW q \in Requests, request[q].stage = "read",
           NEW c \in DOMAIN contact, c = request[q].ask.lead,
           NEW stage \in Stages, NEW when \in Nat, NEW by \in {"clock", "hand"},
           MovesStage(q, stage, when, by), stage # request[q].found
    PROVE  LET old == contact[c]
               d == Tells(InStage(old, stage), stage, when, by) IN
           /\ contact' = Written(c, d)
           /\ d \in Contact /\ d.live = old.live /\ d.phone = old.phone
           /\ d.since = old.since /\ d.began = old.began /\ d.forced = old.forced
           /\ d.owner = old.owner /\ d.stage = stage /\ d.moved = clock
           /\ d.lead = old.lead /\ d.batch = old.batch
           /\ when > old.toldAt => d.told = stage /\ d.toldAt = when
           /\ when <= old.toldAt => d.told = old.told /\ d.toldAt = old.toldAt
           /\ by = "hand" => d.byhand
           /\ by # "hand" => d.byhand = old.byhand
           /\ crossed' = IF Stale(q, c) \/ contact[c].moved >= when
                         THEN crossed \cup {c} ELSE crossed \ {c}
           /\ Reopens(c)
<1>1. contact[c] \in Contact /\ clock \in Nat
  BY ContactFields DEF Typed, Tables
<1> DEFINE staged == InStage(contact[c], stage)
           d == Tells(staged, stage, when, by)
<1>2. contact' = Written(c, d)
  BY DEF MovesStage, Written, InStage
<1>3. /\ crossed' = IF Stale(q, c) \/ contact[c].moved >= when
                    THEN crossed \cup {c} ELSE crossed \ {c}
      /\ Reopens(c)
  BY DEF MovesStage
<1>4. /\ staged \in Contact /\ staged.live = contact[c].live /\ staged.phone = contact[c].phone
      /\ staged.since = contact[c].since /\ staged.began = contact[c].began
      /\ staged.forced = contact[c].forced /\ staged.owner = contact[c].owner
      /\ staged.stage = stage /\ staged.moved = clock
      /\ staged.lead = contact[c].lead /\ staged.batch = contact[c].batch
      /\ staged.told = contact[c].told /\ staged.toldAt = contact[c].toldAt
      /\ staged.byhand = contact[c].byhand
  BY <1>1, StagedLead
<1> HIDE DEF staged
<1>5. /\ d \in Contact /\ d.live = staged.live /\ d.phone = staged.phone
      /\ d.since = staged.since /\ d.began = staged.began /\ d.forced = staged.forced
      /\ d.owner = staged.owner /\ d.stage = staged.stage /\ d.moved = staged.moved
      /\ d.lead = staged.lead /\ d.batch = staged.batch
      /\ when > staged.toldAt => d.told = stage /\ d.toldAt = when
      /\ when <= staged.toldAt => d.told = staged.told /\ d.toldAt = staged.toldAt
      /\ by = "hand" => d.byhand
      /\ by # "hand" => d.byhand = staged.byhand
  BY <1>4, ToldLead
<1> HIDE DEF d
<1> QED
  BY <1>2, <1>3, <1>4, <1>5 DEF d, staged

LEMMA MoveStep ==
    ASSUME Typed, NEW q \in Requests, request[q].stage = "read",
           request[q].ask.kind \in {"stage", "show", "visit"},
           NEW stage \in Stages, NEW when \in Nat, NEW by \in {"clock", "hand"},
           MovesStage(q, stage, when, by)
    PROVE  LeadStep
<1>1. request[q].ask.lead \in DOMAIN contact
  BY AskedWell DEF Holds, Apart
<1> PICK c \in DOMAIN contact : c = request[q].ask.lead
  BY <1>1
<1>2. CASE stage = request[q].found
  <2>1. UNCHANGED <<contact, crossed, late>>
    BY <1>2 DEF MovesStage
  <2> QED
    BY <2>1 DEF LeadStep, Kept, BookOf, InRotation, Typed, Tables
<1>3. CASE stage # request[q].found
  <2> DEFINE d == Tells(InStage(contact[c], stage), stage, when, by)
  <2>1. /\ contact' = Written(c, d)
        /\ d \in Contact /\ d.live = contact[c].live /\ d.phone = contact[c].phone
        /\ d.since = contact[c].since /\ d.began = contact[c].began
        /\ d.forced = contact[c].forced /\ d.owner = contact[c].owner
        /\ crossed' = IF Stale(q, c) \/ contact[c].moved >= when
                      THEN crossed \cup {c} ELSE crossed \ {c}
        /\ Reopens(c)
    BY <1>3, MovedLead
  <2>2. crossed' \subseteq DOMAIN contact
    BY <2>1 DEF Typed, Tables
  <2> HIDE DEF d
  <2> QED
    BY <2>1, <2>2, StagedKept DEF Typed
<1> QED
  BY <1>2, <1>3

\* What an edit of the stage and a showing come to.
LEMMA StageIsMoved ==
    ASSUME Typed, NEW q \in Requests, SetStage(q) \/ Show(q)
    PROVE  /\ request[q].stage = "read" /\ request[q].ask.kind \in {"stage", "show"}
           /\ UNCHANGED call
           /\ \E stage \in Stages, when \in Nat :
                when <= clock /\ MovesStage(q, stage, when, "clock")
<1>1. ASSUME request[q].stage = "read", NEW when \in BeganIn(q)
      PROVE  when \in Nat /\ when <= clock
  BY <1>1, AskedWell DEF BeganIn
<1>2. CASE SetStage(q)
  <2>1. /\ request[q].stage = "read" /\ request[q].ask.kind = "stage" /\ UNCHANGED call
        /\ \E when \in BeganIn(q) : MovesStage(q, request[q].ask.arg, when, "clock")
    BY <1>2 DEF SetStage, Asked
  <2>2. request[q].ask.arg \in Stages
    BY <2>1, AskedWell, AsksAssumption
  <2> QED
    BY <1>1, <2>1, <2>2
<1>3. CASE Show(q)
  <2>1. /\ request[q].stage = "read" /\ request[q].ask.kind = "show" /\ UNCHANGED call
        /\ \E when \in BeganIn(q) : MovesStage(q, StageFor(request[q].ask.arg), when, "clock")
    BY <1>3 DEF Show, Shown, Asked
  <2>2. StageFor(request[q].ask.arg) \in Stages
    BY <2>1, AskedWell, AsksAssumption
  <2> QED
    BY <1>1, <2>1, <2>2
<1> QED
  BY <1>2, <1>3

\* An event that is written down by hand.
Noted(q, when) ==
    contact' = Written(request[q].ask.lead,
                   Tells(contact[request[q].ask.lead], request[q].ask.arg, when, "hand"))

\* What an activity comes to.
LEMMA ActivityIs ==
    ASSUME Typed, NEW q \in Requests, CreateActivity(q)
    PROVE  /\ request[q].stage = "read" /\ request[q].ask.lead \in DOMAIN contact
           /\ \E when \in Nat :
                \/ /\ request[q].ask.kind = "visit" /\ By(q) \in {"clock", "hand"}
                   /\ By(q) = "hand" \/ (request[q].at <= when /\ when <= clock)
                   /\ \/ /\ request[q].found \in BeforeVisit
                         /\ MovesStage(q, "visited", when, By(q))
                      \/ UNCHANGED <<contact, crossed, late>>
                \/ /\ request[q].ask.kind = "said" /\ request[q].ask.arg \in Stages
                   /\ Noted(q, when) /\ UNCHANGED <<crossed, late>>
<1>1. request[q].stage = "read" /\ request[q].ask.kind \in {"visit", "said"}
  BY DEF CreateActivity, Asked
<1>2. /\ request[q].ask.lead \in DOMAIN contact /\ request[q].ask.flag \in BOOLEAN
      /\ request[q].at \in Nat /\ clock \in Nat
      /\ request[q].ask.kind = "said" => request[q].ask.arg \in Stages
  BY <1>1, AskedWell, AsksAssumption DEF Holds, Apart
<1>3. PICK when \in Occurred(q) :
         IF request[q].ask.kind = "visit"
         THEN MovesStage(q, IF request[q].found \in BeforeVisit THEN "visited"
                            ELSE request[q].found, when, By(q))
         ELSE /\ contact' = [contact EXCEPT ![request[q].ask.lead] =
                                Tells(@, request[q].ask.arg, when, "hand")]
              /\ UNCHANGED <<crossed, late>>
  BY DEF CreateActivity
<1>4. /\ when \in Nat /\ By(q) \in {"clock", "hand"}
      /\ By(q) = "hand" \/ (request[q].at <= when /\ when <= clock)
  <2>1. CASE request[q].ask.flag
    BY <1>3, <2>1, BookAssumption DEF Occurred, By
  <2>2. CASE ~request[q].ask.flag
    <3>1. when \in request[q].at .. clock
      BY <1>3, <2>2 DEF Occurred
    <3>2. when \in Nat /\ request[q].at <= when /\ when <= clock
      BY <1>2, <3>1
    <3> QED
      BY <2>2, <3>2 DEF By
  <2> QED
    BY <2>1, <2>2
<1>5. CASE request[q].ask.kind = "visit"
  <2>1. CASE request[q].found \in BeforeVisit
    BY <1>1, <1>2, <1>3, <1>4, <1>5, <2>1
  <2>2. CASE request[q].found \notin BeforeVisit
    <3>1. MovesStage(q, request[q].found, when, By(q))
      BY <1>3, <1>5, <2>2
    <3>2. UNCHANGED <<contact, crossed, late>>
      BY <3>1 DEF MovesStage
    <3> QED
      BY <1>1, <1>2, <1>4, <1>5, <3>2
  <2> QED
    BY <2>1, <2>2
<1>6. CASE request[q].ask.kind = "said"
  <2>1. Noted(q, when) /\ UNCHANGED <<crossed, late>>
    BY <1>2, <1>3, <1>6 DEF Noted, Written
  <2> QED
    BY <1>1, <1>2, <1>4, <1>6, <2>1
<1> QED
  BY <1>1, <1>5, <1>6

\* The kinds that move the stage they have read, or tell of another.
LEMMA StageSteps ==
    ASSUME Typed, NEW q \in Requests, SetStage(q) \/ Show(q) \/ CreateActivity(q)
    PROVE  LeadStep
<1>1. CASE SetStage(q) \/ Show(q)
  BY <1>1, StageIsMoved, MoveStep
<1>2. CASE CreateActivity(q)
  <2>1. PICK when \in Nat :
          \/ /\ request[q].ask.kind = "visit" /\ By(q) \in {"clock", "hand"}
             /\ \/ MovesStage(q, "visited", when, By(q))
                \/ UNCHANGED <<contact, crossed, late>>
          \/ /\ request[q].ask.kind = "said" /\ request[q].ask.arg \in Stages
             /\ Noted(q, when) /\ UNCHANGED <<crossed, late>>
    BY <1>2, ActivityIs
  <2>2. request[q].stage = "read" /\ request[q].ask.lead \in DOMAIN contact
    BY <1>2, ActivityIs
  <2>3. CASE /\ request[q].ask.kind = "visit" /\ By(q) \in {"clock", "hand"}
             /\ MovesStage(q, "visited", when, By(q))
    <3>1. "visited" \in Stages
      BY DEF Stages
    <3> QED
      BY <2>2, <2>3, <3>1, MoveStep
  <2>4. CASE UNCHANGED <<contact, crossed, late>>
    BY <2>4 DEF LeadStep, Kept, BookOf, InRotation, Typed, Tables
  <2>5. CASE /\ request[q].ask.kind = "said" /\ request[q].ask.arg \in Stages
             /\ Noted(q, when) /\ UNCHANGED <<crossed, late>>
    <3> PICK c \in DOMAIN contact : c = request[q].ask.lead
      BY <2>2
    <3> PICK stage \in Stages : stage = request[q].ask.arg
      BY <2>5
    <3> DEFINE d == Tells(contact[c], stage, when, "hand")
    <3>1. contact[c] \in Contact
      BY ContactFields DEF Typed
    <3>2. contact' = Written(c, d)
      BY <2>5 DEF Noted
    <3>3. /\ d \in Contact /\ d.live = contact[c].live /\ d.phone = contact[c].phone
          /\ d.since = contact[c].since /\ d.began = contact[c].began
          /\ d.forced = contact[c].forced /\ d.owner = contact[c].owner
          /\ d.stage = contact[c].stage
      BY <3>1, NotedLead
    <3>4. crossed' \subseteq DOMAIN contact
      BY <2>5 DEF Typed, Tables
    <3> HIDE DEF d
    <3> QED
      BY <2>5, <3>2, <3>3, <3>4, StagedKept DEF Typed
  <2> QED
    BY <2>1, <2>3, <2>4, <2>5
<1> QED
  BY <1>1, <1>2

\* What a call writes of its lead.
Called(q, lead) ==
    LET first == request[q].found = "new" IN
    [lead EXCEPT !.lead = @ \/ request[q].ask.flag,
                 !.stage = IF first THEN "contacted" ELSE @,
                 !.moved = IF first THEN clock ELSE @]

LEMMA CalledLead ==
    ASSUME Typed, NEW q \in Requests, Call(q)
    PROVE  LET c == request[q].ask.lead  d == Called(q, contact[c]) IN
           /\ request[q].stage = "read" /\ request[q].ask.kind = "call"
           /\ c \in DOMAIN contact /\ contact' = Written(c, d)
           /\ d \in Contact /\ d.live = contact[c].live /\ d.phone = contact[c].phone
           /\ d.since = contact[c].since /\ d.began = contact[c].began
           /\ d.forced = contact[c].forced /\ d.owner = contact[c].owner
           /\ d.told = contact[c].told /\ d.toldAt = contact[c].toldAt
           /\ d.byhand = contact[c].byhand
           /\ request[q].found = "new" => d.stage = "contacted" /\ d.moved = clock
           /\ request[q].found # "new" => d.stage = contact[c].stage /\ d.moved = contact[c].moved
<1>1. request[q].stage = "read" /\ request[q].ask.kind = "call"
  BY DEF Call, Asked
<1>2. request[q].ask.lead \in DOMAIN contact /\ clock \in Nat
      /\ request[q].ask.flag \in BOOLEAN
  BY <1>1, AskedWell DEF Holds, Apart
<1> PICK c \in DOMAIN contact : c = request[q].ask.lead
  BY <1>2
<1> PICK flag \in BOOLEAN : flag = request[q].ask.flag
  BY <1>2
<1> DEFINE first == request[q].found = "new"
           d == [contact[c] EXCEPT !.lead = @ \/ flag,
                                   !.stage = IF first THEN "contacted" ELSE @,
                                   !.moved = IF first THEN clock ELSE @]
<1>3. contact[c] \in Contact
  BY ContactFields DEF Typed
<1>4. Called(q, contact[c]) = d
  BY DEF Called
<1>5. contact' = Written(c, d)
  BY <1>3 DEF Call, Written, Contact
<1>6. /\ d \in Contact /\ d.live = contact[c].live /\ d.phone = contact[c].phone
      /\ d.since = contact[c].since /\ d.began = contact[c].began
      /\ d.forced = contact[c].forced /\ d.owner = contact[c].owner
      /\ d.told = contact[c].told /\ d.toldAt = contact[c].toldAt
      /\ d.byhand = contact[c].byhand
      /\ first => d.stage = "contacted" /\ d.moved = clock
      /\ ~first => d.stage = contact[c].stage /\ d.moved = contact[c].moved
  BY <1>2, <1>3 DEF Contact, Stages
<1> HIDE DEF d
<1> QED
  BY <1>1, <1>4, <1>5, <1>6

LEMMA CallStep ==
    ASSUME Typed, NEW q \in Requests, Call(q)
    PROVE  LeadStep
<1> DEFINE c == request[q].ask.lead
           d == Called(q, contact[c])
<1>1. /\ c \in DOMAIN contact /\ contact' = Written(c, d)
      /\ d \in Contact /\ d.live = contact[c].live /\ d.phone = contact[c].phone
      /\ d.since = contact[c].since /\ d.began = contact[c].began
      /\ d.forced = contact[c].forced /\ d.owner = contact[c].owner
      /\ request[q].found # "new" => d.stage = contact[c].stage
  BY CalledLead
<1>2. /\ crossed' \subseteq crossed \cup {c}
      /\ request[q].found = "new" => Reopens(c)
      /\ request[q].found # "new" => late' = late
  BY DEF Call
<1> HIDE DEF c, d
<1>3. crossed' \subseteq DOMAIN contact
  BY <1>1, <1>2 DEF Typed, Tables
<1> QED
  BY <1>1, <1>2, <1>3, StagedKept DEF Typed

LEMMA HandoverStep ==
    ASSUME Typed, NEW q \in Requests, Handover(q)
    PROVE  LeadStep
<1>1. request[q].stage = "read" /\ request[q].ask.kind = "handover"
  BY DEF Handover, Asked
<1>2. request[q].found \subseteq DOMAIN contact
  BY <1>1, AskedWell DEF Holds
<1>3. request[q].ask.to[2] \in Users
  BY <1>1, AskedWell, AsksAssumption
<1> PICK u \in Users : u = request[q].ask.to[2]
  BY <1>3
<1> PICK moved \in SUBSET DOMAIN contact : moved = request[q].found
  BY <1>2
<1>4. contact' = [c \in DOMAIN contact |->
                    IF c \in moved THEN [contact[c] EXCEPT !.owner = u] ELSE contact[c]]
  BY DEF Handover
<1>5. \A c \in DOMAIN contact :
        /\ contact'[c] \in Contact
        /\ contact'[c].live = contact[c].live /\ contact'[c].phone = contact[c].phone
        /\ contact'[c].since = contact[c].since /\ contact'[c].began = contact[c].began
        /\ contact'[c].forced = contact[c].forced
        /\ contact'[c].stage = contact[c].stage
        /\ contact'[c].owner = (IF c \in moved THEN u ELSE contact[c].owner)
  BY <1>4, ContactFields DEF Typed, Contact
<1>6. contact' \in Seq(Contact) /\ Len(contact') = Len(contact)
      /\ DOMAIN contact' = DOMAIN contact
  <2>1. contact \in Seq(Contact)
    BY DEF Typed, Tables
  <2>2. DOMAIN contact = 1 .. Len(contact) /\ Len(contact) \in Nat
    BY <2>1
  <2>3. contact' \in [1 .. Len(contact) -> Contact]
    BY <1>4, <1>5, <2>2
  <2> QED
    BY <2>2, <2>3
<1>7. /\ late \subseteq late' /\ late' \cup crossed' \subseteq DOMAIN contact
      /\ u \in active \/ moved \subseteq late'
  BY DEF Handover, Strays, Typed, Tables
<1>8. \A c \in DOMAIN contact : Kept(c)
  BY <1>5, <1>6, <1>7 DEF Kept, BookOf, InRotation
<1> QED
  BY <1>6, <1>7, <1>8 DEF LeadStep, Typed, Tables

\* Handlers that leave the contacts alone.
LEMMA LeadsUntouched ==
    ASSUME Typed, UNCHANGED <<contact, late, crossed>>
    PROVE  LeadStep
BY DEF LeadStep, Kept, BookOf, InRotation, Typed, Tables

LEMMA NewLead ==
    ASSUME Typed, NEW q \in Requests, request[q].stage # "idle",
           NEW u \in Users, NEW phone \in Phones, NEW batch \in Nat
    PROVE  LET new == NewContact(q, u, phone, batch) IN
           /\ new \in Contact /\ new.since = clock /\ new.owner = u
           /\ new.told = new.stage /\ new.toldAt = 0 /\ new.moved = clock
           /\ new.phone = phone /\ new.began = request[q].at
           /\ new.forced = request[q].ask.flag
<1>1. /\ clock \in Nat /\ request[q].at \in Nat /\ request[q].ask.flag \in BOOLEAN
      /\ "new" \in Stages
  BY AskedWell DEF Stages
<1> PICK at \in Nat, flag \in BOOLEAN : at = request[q].at /\ flag = request[q].ask.flag
  BY <1>1
<1>2. NewContact(q, u, phone, batch) =
        [owner |-> u, live |-> TRUE, stage |-> "new", lead |-> batch = 0,
         batch |-> batch, phone |-> phone,
         since |-> clock, began |-> at, forced |-> flag,
         told |-> "new", toldAt |-> 0, byhand |-> FALSE, moved |-> clock]
  BY DEF NewContact
<1> QED
  BY <1>1, <1>2 DEF Contact

LEMMA CreateStep ==
    ASSUME Typed, NEW q \in Requests, Create(q), Screened(request[q])
    PROVE  LeadStep
<1>1. request[q].stage = "read" /\ request[q].ask.kind = "create"
  BY DEF Create, Asked
<1>2. request[q].ask.to[1] \in Users /\ request[q].ask.phones[1] \in Phones
  BY <1>1, AskedWell, AsksAssumption, FirstOf
<1> PICK u \in Users, phone \in Phones :
           u = request[q].ask.to[1] /\ phone = request[q].ask.phones[1]
  BY <1>2
<1> DEFINE new == NewContact(q, u, phone, 0)
<1>3. /\ new \in Contact /\ new.since = clock /\ new.owner = u
      /\ new.told = new.stage /\ new.toldAt = 0 /\ new.moved = clock
      /\ new.phone = phone /\ new.began = request[q].at
      /\ new.forced = request[q].ask.flag
  BY <1>1, NewLead
<1>4. /\ contact' = Append(contact, new) /\ UNCHANGED crossed
      /\ Len(contact) < MaxContacts
      /\ late \subseteq late' /\ late' \subseteq late \cup {Len(contact) + 1}
      /\ u \in active \/ Len(contact) + 1 \in late'
  BY DEF Create, Strays
<1>5. new.forced \/ NoneOlder(new.phone, new.began)
  BY <1>1, <1>3 DEF Screened
<1> HIDE DEF new
<1>6. /\ contact' \in Seq(Contact) /\ Len(contact') = Len(contact) + 1
      /\ Len(contact) \in Nat /\ DOMAIN contact = 1 .. Len(contact)
      /\ DOMAIN contact' = 1 .. Len(contact) + 1
      /\ contact'[Len(contact) + 1] = new
      /\ \A c \in DOMAIN contact : contact'[c] = contact[c]
  BY <1>3, <1>4, AppendProperties DEF Typed, Tables
<1>7. Len(contact') <= MaxContacts
  BY <1>4, <1>6, BookAssumption
<1>8. \A c \in DOMAIN contact : Kept(c)
  BY <1>4, <1>6 DEF Kept, BookOf, InRotation
<1>9. \A c \in DOMAIN contact' \ DOMAIN contact : Entered(c)
  <2>1. \A c \in DOMAIN contact' \ DOMAIN contact : c = Len(contact) + 1
    BY <1>6
  <2> QED
    BY <1>3, <1>4, <1>5, <1>6, <2>1 DEF Entered
<1> QED
  BY <1>4, <1>6, <1>7, <1>8, <1>9 DEF LeadStep, Typed, Tables

\* Places of a list, first to last.
LEMMA Places ==
    ASSUME NEW S, NEW s \in Seq(S), NEW places \in SUBSET DOMAIN s, NEW f \in InOrder(places)
    PROVE  /\ Cardinality(places) \in Nat
           /\ f \in [1 .. Cardinality(places) -> places]
           /\ \A i \in DOMAIN f : f[i] \in places /\ f[i] \in Nat /\ s[f[i]] \in S
           /\ \A i, j \in DOMAIN f : f[i] = f[j] => i = j
<1>1. DOMAIN s = 1 .. Len(s) /\ Len(s) \in Nat
  OBVIOUS
<1>2. IsFiniteSet(places)
  <2>1. IsFiniteSet(1 .. Len(s))
    BY <1>1, FS_Interval
  <2> QED
    BY <1>1, <2>1, FS_Subset
<1>3. Cardinality(places) \in Nat
  BY <1>2, FS_CardinalityType
<1>4. /\ f \in [1 .. Cardinality(places) -> places]
      /\ \A i, j \in DOMAIN f : i < j => f[i] < f[j]
  BY DEF InOrder
<1>5. \A i \in DOMAIN f : f[i] \in places /\ f[i] \in Nat /\ s[f[i]] \in S
  BY <1>1, <1>4
<1>6. \A i, j \in DOMAIN f : f[i] = f[j] => i = j
  BY <1>3, <1>4, <1>5
<1> QED
  BY <1>3, <1>4, <1>5, <1>6

\* Dealing out hands everything to a recipient.
LEMMA DealtToUsers ==
    ASSUME NEW rows, NEW n \in Nat, DOMAIN rows = 1 .. n,
           NEW targets \in Seq(Users), targets # <<>>
    PROVE  /\ DOMAIN Dealt(rows, targets) = DOMAIN rows
           /\ \A j \in DOMAIN rows : Dealt(rows, targets)[j] \in Users
<1>1. Len(targets) \in Nat \ {0}
  BY EmptySeq
<1>2. ASSUME NEW j \in 1 .. n PROVE 1 + ((j - 1) % Len(targets)) \in 1 .. Len(targets)
  BY <1>1
<1> QED
  BY <1>2 DEF Dealt

\* The recipients are those named, once each, or the Owner.
Named(a) == IF a.to = <<>> THEN {a.by} ELSE Listed(a.to)

\* Whoever a list names, it names for the first time somewhere.
LEMMA NamedFirst ==
    ASSUME NEW S, NEW s \in Seq(S), NEW u \in Listed(s)
    PROVE  \E j \in Firsts(s) : s[j] = u
<1> DEFINE T == {j \in DOMAIN s : s[j] = u}
<1>1. T \subseteq Nat /\ T # {} /\ DOMAIN s = 1 .. Len(s)
  BY DEF Listed
<1>2. PICK j \in T : \A i \in T : <<i, j>> \notin OpToRel(<, Nat)
  <2> HIDE DEF T
  <2> QED
    BY <1>1, NatLessThanWellFounded, WFMin
<1>3. ASSUME NEW i \in 1 .. j - 1 PROVE s[i] # s[j]
  <2>1. i \in Nat /\ j \in Nat /\ i < j /\ i \in DOMAIN s /\ s[j] = u
    BY <1>1
  <2>2. <<i, j>> \in OpToRel(<, Nat)
    BY <2>1 DEF OpToRel
  <2> QED
    BY <1>2, <2>1, <2>2
<1> QED
  BY <1>3 DEF Firsts

LEMMA RecipientsAre ==
    ASSUME NEW a \in Ask, NEW targets \in Recipients(a)
    PROVE  /\ targets \in Seq(Users) /\ targets # <<>>
           /\ \A i, j \in DOMAIN targets : targets[i] = targets[j] => i = j
           /\ \A u \in Named(a) : \E i \in DOMAIN targets : targets[i] = u
<1>1. a.to \in Seq(Users) /\ a.by \in Users
  BY DEF Ask
<1>2. CASE a.to = <<>>
  <2>1. targets = <<a.by>>
    BY <1>2 DEF Recipients
  <2> QED
    BY <1>1, <1>2, <2>1 DEF Named
<1>3. CASE a.to # <<>>
  <2> DEFINE firsts == Firsts(a.to)
             n == Cardinality(firsts)
  <2>1. PICK place \in InOrder(firsts) : targets = [j \in DOMAIN place |-> a.to[place[j]]]
    BY <1>3 DEF Recipients
  <2>2. firsts \in SUBSET DOMAIN a.to
    BY DEF Firsts
  <2>3. /\ n \in Nat /\ place \in [1 .. n -> firsts]
        /\ \A j \in 1 .. n : place[j] \in firsts /\ place[j] \in Nat /\ a.to[place[j]] \in Users
        /\ \A i, j \in 1 .. n : place[i] = place[j] => i = j
    <3>1. /\ n \in Nat /\ place \in [1 .. n -> firsts]
          /\ \A j \in DOMAIN place : place[j] \in firsts /\ place[j] \in Nat /\ a.to[place[j]] \in Users
          /\ \A i, j \in DOMAIN place : place[i] = place[j] => i = j
      BY <1>1, <2>1, <2>2, Places
    <3> QED
      BY <3>1
  <2>4. \A i, j \in firsts : a.to[i] = a.to[j] => i = j
    <3> SUFFICES ASSUME NEW i \in firsts, NEW j \in firsts, a.to[i] = a.to[j], i < j
                 PROVE  FALSE
      BY <1>1, <2>2
    <3>1. i \in 1 .. j - 1
      BY <1>1, <2>2
    <3> QED
      BY <3>1 DEF Firsts
  <2>5. IsFiniteSet(firsts)
    <3>1. DOMAIN a.to = 1 .. Len(a.to) /\ Len(a.to) \in Nat
      BY <1>1
    <3>2. IsFiniteSet(1 .. Len(a.to))
      BY <3>1, FS_Interval
    <3> QED
      BY <2>2, <3>1, <3>2, FS_Subset
  <2>6. \A j \in firsts : \E i \in 1 .. n : place[i] = j
    <3>1. place \in Injection(1 .. n, firsts)
      BY <2>3 DEF Injection, IsInjective
    <3>2. Cardinality(1 .. n) = n
      BY <2>3, FS_Interval
    <3> HIDE DEF firsts
    <3>3. place \in Surjection(1 .. n, firsts)
      BY <2>5, <3>1, <3>2, FS_Injection
    <3> QED
      BY <3>3 DEF Surjection
  <2>7. DOMAIN targets = 1 .. n /\ \A i \in 1 .. n : targets[i] = a.to[place[i]]
    BY <2>1, <2>3
  <2>8. targets \in Seq(Users)
    <3>1. targets \in [1 .. n -> Users]
      BY <2>1, <2>3
    <3> QED
      BY <2>3, <3>1
  <2>9. \A i, j \in DOMAIN targets : targets[i] = targets[j] => i = j
    BY <2>3, <2>4, <2>7
  <2>10. \A u \in Named(a) : \E i \in DOMAIN targets : targets[i] = u
    <3> SUFFICES ASSUME NEW u \in Listed(a.to) PROVE \E i \in DOMAIN targets : targets[i] = u
      BY <1>3 DEF Named
    <3>1. PICK j \in firsts : a.to[j] = u
      BY <1>1, NamedFirst
    <3> QED
      BY <2>6, <2>7, <3>1
  <2>11. targets # <<>>
    <3>1. a.to[1] \in Named(a)
      BY <1>1, <1>3, FirstOf DEF Named, Listed
    <3> QED
      BY <2>10, <3>1
  <2> QED
    BY <2>8, <2>9, <2>10, <2>11
<1> QED
  BY <1>2, <1>3

\* An import's batch is numbered after those that are there.
LEMMA NextBatch ==
    ASSUME Typed
    PROVE  Cardinality(Batches) \in Nat
<1> DEFINE all == {contact[c].batch : c \in DOMAIN contact}
           batchOf == [c \in DOMAIN contact |-> contact[c].batch]
<1>1. IsFiniteSet(DOMAIN contact)
  <2>1. DOMAIN contact = 1 .. Len(contact) /\ Len(contact) \in Nat
    BY DEF Typed, Tables
  <2>2. IsFiniteSet(1 .. Len(contact))
    BY <2>1, FS_Interval
  <2> QED
    BY <2>1, <2>2
<1>2. batchOf \in Surjection(DOMAIN contact, all)
  BY DEF Surjection
<1> HIDE DEF batchOf
<1>3. IsFiniteSet(all)
  BY <1>1, <1>2, FS_Surjection
<1>4. IsFiniteSet(Batches)
  BY <1>3, FS_Subset DEF Batches
<1> QED
  BY <1>4, FS_CardinalityType

LEMMA ImportStep ==
    ASSUME Typed, NEW q \in Requests, Import(q), Screened(request[q])
    PROVE  LeadStep
<1>1. request[q].stage = "read" /\ request[q].ask.kind = "import"
  BY DEF Import, Asked
<1> DEFINE phones == request[q].ask.phones
           found == request[q].found
<1>2. phones \in Seq(Phones) /\ found \in SUBSET DOMAIN phones
  BY <1>1, AskedWell DEF Holds
<1>3. PICK place \in InOrder(found), targets \in Recipients(request[q].ask) :
         LET rows == [j \in DOMAIN place |-> phones[place[j]]]
             to == Dealt(rows, targets) IN
         /\ contact' = contact \o Imported(q, rows, to)
         /\ late' = late \cup
                {Len(contact) + j : j \in {i \in DOMAIN rows : to[i] \notin active}}
  BY DEF Import
<1> DEFINE n == Cardinality(found)
           rows == [j \in DOMAIN place |-> phones[place[j]]]
           to == Dealt(rows, targets)
           added == Imported(q, rows, to)
<1>4. /\ n \in Nat /\ DOMAIN place = 1 .. n
      /\ \A j \in 1 .. n : place[j] \in found /\ phones[place[j]] \in Phones
  BY <1>2, Places
<1>5. DOMAIN rows = 1 .. n /\ \A j \in 1 .. n : rows[j] = phones[place[j]] /\ rows[j] \in Phones
  BY <1>4
<1>6. Len(contact) + n <= MaxContacts
  BY DEF Import
<1>7. UNCHANGED crossed
  BY DEF Import
<1>8. targets \in Seq(Users) /\ targets # <<>>
  BY <1>1, AskedWell, RecipientsAre
<1> HIDE DEF rows
<1>9. \A j \in 1 .. n : to[j] \in Users
  BY <1>4, <1>5, <1>8, DealtToUsers
<1> HIDE DEF to
<1>10. Cardinality(Batches) + 1 \in Nat
  BY NextBatch
<1>11. DOMAIN added = 1 .. n /\ \A j \in 1 .. n :
         LET new == added[j] IN
         /\ new \in Contact /\ new.since = clock /\ new.owner = to[j]
         /\ new.told = new.stage /\ new.toldAt = 0 /\ new.moved = clock
         /\ new.phone = rows[j] /\ new.began = request[q].at
  <2>1. DOMAIN added = 1 .. n
    BY <1>5 DEF Imported
  <2> SUFFICES ASSUME NEW j \in 1 .. n
               PROVE  LET new == added[j] IN
                      /\ new \in Contact /\ new.since = clock
                      /\ new.told = new.stage /\ new.toldAt = 0 /\ new.moved = clock
                      /\ new.owner = to[j] /\ new.phone = rows[j] /\ new.began = request[q].at
    BY <2>1
  <2>2. added[j] = NewContact(q, to[j], rows[j], Cardinality(Batches) + 1)
    BY <1>5 DEF Imported
  <2>3. to[j] \in Users /\ rows[j] \in Phones
    BY <1>5, <1>9
  <2> HIDE DEF added
  <2> QED
    BY <1>1, <1>10, <2>2, <2>3, NewLead
<1> HIDE DEF added
<1>12. added \in Seq(Contact) /\ Len(added) = n
  <2>1. added = [j \in 1 .. n |-> added[j]]
    BY <1>5 DEF added, Imported
  <2>2. added \in [1 .. n -> Contact]
    BY <1>11, <2>1
  <2> QED
    BY <1>4, <2>2
<1>13. contact' = contact \o added
  BY <1>3 DEF added, to, rows
<1>14. late' = late \cup {Len(contact) + j : j \in {i \in 1 .. n : to[i] \notin active}}
  BY <1>3, <1>5 DEF to, rows
<1>15. /\ contact' \in Seq(Contact) /\ Len(contact') = Len(contact) + n
       /\ Len(contact) \in Nat /\ DOMAIN contact = 1 .. Len(contact)
       /\ DOMAIN contact' = 1 .. Len(contact) + n
       /\ \A c \in DOMAIN contact : contact'[c] = contact[c]
       /\ \A c \in DOMAIN contact' \ DOMAIN contact :
            c - Len(contact) \in 1 .. n /\ contact'[c] = added[c - Len(contact)]
  BY <1>4, <1>12, <1>13, ConcatProperties DEF Typed, Tables
<1>16. \A j \in 1 .. n : NoneOlder(rows[j], request[q].at)
  BY <1>1, <1>4, <1>5 DEF Screened
<1>17. \A c \in DOMAIN contact : Kept(c)
  BY <1>7, <1>14, <1>15 DEF Kept, BookOf, InRotation
<1>18. \A c \in DOMAIN contact' \ DOMAIN contact : Entered(c)
  <2> SUFFICES ASSUME NEW c \in DOMAIN contact' \ DOMAIN contact PROVE Entered(c)
    OBVIOUS
  <2> DEFINE j == c - Len(contact)
  <2>1. j \in 1 .. n /\ contact'[c] = added[j] /\ c = Len(contact) + j
    BY <1>15
  <2> HIDE DEF j
  <2>2. to[j] \in active \/ c \in late'
    BY <1>14, <2>1
  <2> QED
    BY <1>11, <1>16, <2>1, <2>2 DEF Entered
<1>19. late \subseteq late' /\ late' \subseteq DOMAIN contact'
  <2>1. \A j \in 1 .. n : Len(contact) + j \in DOMAIN contact'
    BY <1>4, <1>15
  <2>2. late \subseteq DOMAIN contact'
    BY <1>4, <1>15 DEF Typed, Tables
  <2> QED
    BY <1>14, <2>1, <2>2
<1> QED
  BY <1>4, <1>6, <1>7, <1>15, <1>17, <1>18, <1>19 DEF LeadStep, Typed, Tables

-----------------------------------------------------------------------------
(* What a commit does to assignments and tasks                             *)

Open(j) == task[j].status = "pending" /\ ~task[j].reopened

\* A task that is there keeps its lead, its assignee and its kind, and is
\* opened again only by reopening it.
SameWork(j) ==
    /\ task'[j].lead = task[j].lead /\ task'[j].to = task[j].to
    /\ task'[j].kind = task[j].kind
    /\ Open(j)' => Open(j)

WorkStep ==
    /\ task' \in Seq(Task) /\ Len(task) <= Len(task')
    /\ \A j \in DOMAIN task' : task'[j].lead \in DOMAIN contact
    /\ \A j \in DOMAIN task : SameWork(j)
    /\ \A x \in assignment' :
         x \in assignment \/ x \in [lead : DOMAIN contact, user : Users,
                                    task : DOMAIN task' \ DOMAIN task]
    /\ \A x, y \in assignment' : x.lead = y.lead /\ x.user = y.user => x = y
    /\ \A x \in assignment' : Matches(x, task')
    /\ WorkFollowsAssignment'

\* What a scan has found covers every assignment the handler will remove.
Cleared(r) ==
    r.stage = "scanned" =>
        \A x \in assignment :
            x \in r.found /\ x.user \notin Listed(r.ask.to) /\ Open(x.task)
                => x.task \in r.orphans

LEMMA TaskFields ==
    ASSUME Tables, NEW j \in DOMAIN task
    PROVE  /\ task[j] \in Task /\ task[j].lead \in DOMAIN contact /\ task[j].to \in Users
           /\ task[j].status \in Statuses /\ task[j].reopened \in BOOLEAN
<1>1. task[j] \in Task
  BY DEF Tables
<1> QED
  BY <1>1 DEF Task, Tables

LEMMA AssignmentFields ==
    ASSUME Assignments, NEW x \in assignment
    PROVE  /\ x.lead \in DOMAIN contact /\ x.user \in Users /\ x.task \in DOMAIN task
           /\ task[x.task].kind = "assigned" /\ task[x.task].lead = x.lead
           /\ task[x.task].to = x.user
BY DEF Assignments, Matches

LEMMA WorkUntouched ==
    ASSUME Typed, WorkFollowsAssignment, UNCHANGED <<task, assignment>>
    PROVE  WorkStep
BY TaskFields DEF Typed, Tables, Assignments, WorkStep, SameWork, Open, WorkFollowsAssignment

\* A task that came with no assignment.
LEMMA OtherTask ==
    ASSUME Typed, WorkFollowsAssignment, UNCHANGED assignment,
           NEW lead \in DOMAIN contact, NEW to \in Users, NEW kind \in {"follow_up", "own"},
           task' = Append(task, NewTask(lead, to, kind))
    PROVE  WorkStep
<1> DEFINE new == NewTask(lead, to, kind)
<1>1. new \in Task /\ new.lead = lead /\ new.kind # "assigned"
  <2>1. lead \in Nat
    BY DEF Typed, Tables
  <2> QED
    BY <2>1 DEF NewTask, Task, Statuses
<1> HIDE DEF new
<1>2. /\ task' \in Seq(Task) /\ Len(task') = Len(task) + 1 /\ Len(task) \in Nat
      /\ DOMAIN task = 1 .. Len(task) /\ DOMAIN task' = 1 .. Len(task) + 1
      /\ task'[Len(task) + 1] = new
      /\ \A j \in DOMAIN task : task'[j] = task[j]
  <2>1. task' = Append(task, new)
    BY DEF new
  <2> QED
    BY <1>1, <2>1, AppendProperties DEF Typed, Tables
<1>3. \A j \in DOMAIN task : SameWork(j) /\ task'[j].lead \in DOMAIN contact
  BY <1>2, TaskFields DEF SameWork, Open, Typed
<1>4. \A j \in DOMAIN task' \ DOMAIN task : j = Len(task) + 1
  BY <1>2
<1>5. \A j \in DOMAIN task' : task'[j].lead \in DOMAIN contact
  BY <1>1, <1>2, <1>3, <1>4
<1>6. WorkFollowsAssignment'
  BY <1>1, <1>2, <1>4 DEF WorkFollowsAssignment
<1>7. \A x \in assignment' : Matches(x, task')
  BY <1>2 DEF Typed, Assignments, Matches
<1> QED
  BY <1>2, <1>3, <1>5, <1>6, <1>7 DEF WorkStep, Typed, Assignments

LEMMA CallWork ==
    ASSUME Typed, WorkFollowsAssignment, NEW q \in Requests, Call(q)
    PROVE  WorkStep
<1>1. request[q].stage = "read" /\ request[q].ask.kind = "call" /\ UNCHANGED assignment
  BY DEF Call, Asked
<1>2. request[q].ask.lead \in DOMAIN contact /\ request[q].ask.by \in Users
  BY <1>1, AskedWell DEF Holds, Apart
<1>3. \/ task' = Append(task, NewTask(request[q].ask.lead, request[q].ask.by, "follow_up"))
      \/ task' = task
  BY DEF Call
<1> QED
  BY <1>1, <1>2, <1>3, WorkUntouched, OtherTask

LEMMA OwnTaskWork ==
    ASSUME Typed, WorkFollowsAssignment, NEW q \in Requests, OwnTask(q)
    PROVE  WorkStep
<1>1. request[q].stage = "read" /\ request[q].ask.kind = "own_task" /\ UNCHANGED assignment
  BY DEF OwnTask, Asked
<1>2. request[q].ask.lead \in DOMAIN contact /\ request[q].ask.by \in Users
  BY <1>1, AskedWell DEF Holds, Apart
<1>3. task' = Append(task, NewTask(request[q].ask.lead, request[q].ask.by, "own"))
  BY DEF OwnTask
<1> QED
  BY <1>1, <1>2, <1>3, OtherTask

LEMMA SetTaskWork ==
    ASSUME Typed, WorkFollowsAssignment, NEW q \in Requests, SetTask(q)
    PROVE  WorkStep
<1>1. request[q].stage = "read" /\ request[q].ask.kind = "task" /\ UNCHANGED assignment
  BY DEF SetTask, Asked
<1>2. request[q].ask.lead \in DOMAIN task /\ request[q].ask.arg \in Statuses
  BY <1>1, AskedWell, AsksAssumption DEF Holds
<1> PICK j \in DOMAIN task, arg \in Statuses :
           j = request[q].ask.lead /\ arg = request[q].ask.arg
  BY <1>2
<1>3. CASE task' = task
  BY <1>1, <1>3, WorkUntouched
<1>4. CASE task' = [task EXCEPT ![j].status = arg, ![j].reopened = @ \/ arg = "pending"]
  <2> DEFINE new == [task[j] EXCEPT !.status = arg, !.reopened = @ \/ arg = "pending"]
  <2>1. task[j] \in Task /\ task[j].lead \in DOMAIN contact
    BY TaskFields DEF Typed
  <2>2. task' = [task EXCEPT ![j] = new]
    BY <1>4, <2>1 DEF Task
  <2>3. /\ new \in Task /\ new.lead = task[j].lead /\ new.to = task[j].to
        /\ new.kind = task[j].kind
        /\ ~(new.status = "pending" /\ ~new.reopened)
    BY <2>1 DEF Task
  <2> HIDE DEF new
  <2>4. /\ task' \in Seq(Task) /\ Len(task') = Len(task) /\ DOMAIN task' = DOMAIN task
        /\ task'[j] = new
        /\ \A i \in DOMAIN task : i # j => task'[i] = task[i]
    BY <2>2, <2>3 DEF Typed, Tables
  <2>5. \A i \in DOMAIN task : SameWork(i) /\ task'[i].lead \in DOMAIN contact
    BY <2>1, <2>3, <2>4, TaskFields DEF SameWork, Open, Typed
  <2>6. WorkFollowsAssignment'
    BY <1>1, <2>3, <2>4, <2>5 DEF WorkFollowsAssignment, SameWork, Open
  <2>7. \A x \in assignment' : Matches(x, task')
    BY <1>1, <2>4, <2>5, AssignmentFields DEF SameWork, Matches, Typed
  <2>8. Len(task) <= Len(task')
    BY <2>4 DEF Typed, Tables
  <2> QED
    BY <1>1, <2>4, <2>5, <2>6, <2>7, <2>8 DEF WorkStep, Typed, Assignments
<1> QED
  BY <1>3, <1>4 DEF SetTask

LEMMA ScanWork ==
    ASSUME Typed, NEW q \in Requests, Scan(q)
    PROVE  /\ Cleared(request[q])' /\ request'[q] \in Request
           /\ \A p \in Requests : p # q => request'[p] = request[p]
           /\ request' \in [Requests -> Request]
           /\ Holds(request'[q])
<1>1. request[q].stage = "read" /\ request[q].ask.kind = "assign"
  BY DEF Scan, Asked
<1>2. request[q] \in Request /\ request \in [Requests -> Request]
  BY DEF Typed
<1>3. Orphaned(q) \in SUBSET Nat
  BY DEF Orphaned, Typed, Tables
<1> DEFINE new == [request[q] EXCEPT !.stage = "scanned", !.orphans = Orphaned(q)]
<1>4. request' = [request EXCEPT ![q] = new]
  BY <1>2 DEF Scan, Request
<1>5. /\ new \in Request /\ new.stage = "scanned" /\ new.orphans = Orphaned(q)
      /\ new.ask = request[q].ask /\ new.at = request[q].at /\ new.found = request[q].found
  BY <1>2, <1>3 DEF Request
<1> HIDE DEF new
<1>6. request'[q] = new /\ \A p \in Requests : p # q => request'[p] = request[p]
  BY <1>2, <1>4
<1>7. Holds(request[q])
  BY DEF Typed
<1>8. Holds(request'[q])
  BY <1>1, <1>5, <1>6, <1>7 DEF Holds
<1>9. Cleared(request[q])'
  <2> SUFFICES ASSUME NEW x \in assignment, x \in new.found, x.user \notin Listed(new.ask.to),
                      Open(x.task)
               PROVE  x.task \in new.orphans
    BY <1>6 DEF Scan, Cleared, Open
  <2>1. x \in Removed(q)
    BY <1>5 DEF Removed
  <2>2. x.lead = request[q].ask.lead /\ x.task \in DOMAIN task
    BY <1>1, <1>5, <1>7 DEF Holds
  <2>3. task[x.task].lead = x.lead /\ task[x.task].to = x.user
    BY AssignmentFields DEF Typed
  <2> QED
    BY <1>5, <2>1, <2>2, <2>3 DEF Orphaned, Open
<1> QED
  BY <1>2, <1>4, <1>5, <1>6, <1>8, <1>9

\* set_assignees commits: what is removed had its open task cancelled, and
\* what is added comes with a task of its own.
LEMMA AssignWork ==
    ASSUME Typed, WorkFollowsAssignment, NEW q \in Requests, Assign(q), Cleared(request[q])
    PROVE  WorkStep
<1> DEFINE lead == request[q].ask.lead
           names == request[q].ask.to
           removed == Removed(q)
           orphans == request[q].orphans
           n == Cardinality(Added(q))
<1>1. request[q].stage = "scanned" /\ request[q].ask.kind = "assign"
  BY AskedWell DEF Assign, Holds
<1>2. /\ lead \in DOMAIN contact /\ names \in Seq(Users) /\ lead \in Nat
      /\ \A x \in request[q].found : x.lead = lead
  <2>1. Holds(request[q]) /\ names \in Seq(Users)
    BY <1>1, AskedWell
  <2>2. lead \in DOMAIN contact /\ \A x \in request[q].found : x.lead = lead
    BY <1>1, <2>1 DEF Holds, Apart
  <2>3. DOMAIN contact \subseteq Nat
    BY DEF Typed, Tables
  <2> QED
    BY <2>1, <2>2, <2>3
<1>3. CASE Taken(q)
  BY <1>3, WorkUntouched DEF Assign
<1>4. CASE ~Taken(q)
  <2>1. PICK place \in InOrder(Added(q)) :
          LET to == [j \in DOMAIN place |-> names[place[j]]] IN
          /\ assignment' = (assignment \ removed) \cup
                 {[lead |-> lead, user |-> to[j], task |-> Len(task) + j] : j \in DOMAIN to}
          /\ task' = [j \in 1 .. Len(task) + n |->
                 IF j > Len(task) THEN NewTask(lead, to[j - Len(task)], "assigned")
                 ELSE IF j \in orphans THEN [task[j] EXCEPT !.status = "cancelled"]
                 ELSE task[j]]
    BY <1>4 DEF Assign
  <2> DEFINE to == [j \in DOMAIN place |-> names[place[j]]]
  <2>2. Added(q) \in SUBSET DOMAIN names
    BY DEF Added, Firsts
  <2>3. /\ n \in Nat /\ DOMAIN place = 1 .. n
        /\ \A j \in 1 .. n : /\ place[j] \in Added(q) /\ place[j] \in Nat
                             /\ names[place[j]] \in Users
        /\ \A i, j \in 1 .. n : place[i] = place[j] => i = j
    BY <1>2, <2>2, Places
  <2>4. DOMAIN to = 1 .. n /\ \A j \in 1 .. n : to[j] = names[place[j]] /\ to[j] \in Users
    BY <2>3
  <2>5. \A i, j \in 1 .. n : to[i] = to[j] => i = j
    <3> SUFFICES ASSUME NEW i \in 1 .. n, NEW j \in 1 .. n, to[i] = to[j], place[i] # place[j]
                 PROVE  FALSE
      BY <2>3
    <3>1. /\ place[i] \in Added(q) /\ place[j] \in Added(q)
          /\ place[i] \in DOMAIN names /\ place[j] \in DOMAIN names
          /\ names[place[i]] = names[place[j]]
      BY <2>2, <2>3, <2>4
    <3>2. \A a, b \in Added(q) : a \in 1 .. b - 1 => names[a] # names[b]
      BY DEF Added, Firsts
    <3>3. place[i] \in 1 .. place[j] - 1 \/ place[j] \in 1 .. place[i] - 1
      BY <1>2, <3>1
    <3> QED
      BY <3>1, <3>2, <3>3
  <2>6. \A j \in 1 .. n : \A x \in assignment : ~(x.lead = lead /\ x.user = to[j])
    BY <1>4, <2>3, <2>4 DEF Taken
  <2> HIDE DEF to
  <2>7. /\ assignment' = (assignment \ removed) \cup
                 {[lead |-> lead, user |-> to[j], task |-> Len(task) + j] : j \in 1 .. n}
        /\ task' = [j \in 1 .. Len(task) + n |->
                 IF j > Len(task) THEN NewTask(lead, to[j - Len(task)], "assigned")
                 ELSE IF j \in orphans THEN [task[j] EXCEPT !.status = "cancelled"]
                 ELSE task[j]]
    BY <2>1, <2>4 DEF to
  <2>8. Len(task) \in Nat /\ DOMAIN task = 1 .. Len(task)
    BY DEF Typed, Tables
  <2>9. \A j \in DOMAIN task :
          /\ task'[j] \in Task /\ task'[j].lead = task[j].lead /\ task'[j].to = task[j].to
          /\ task'[j].kind = task[j].kind /\ task'[j].reopened = task[j].reopened
          /\ task'[j].status = (IF j \in orphans THEN "cancelled" ELSE task[j].status)
    <3> SUFFICES ASSUME NEW j \in DOMAIN task
                 PROVE  /\ task'[j] \in Task /\ task'[j].lead = task[j].lead
                        /\ task'[j].to = task[j].to /\ task'[j].kind = task[j].kind
                        /\ task'[j].reopened = task[j].reopened
                        /\ task'[j].status =
                              (IF j \in orphans THEN "cancelled" ELSE task[j].status)
      OBVIOUS
    <3>1. task'[j] = IF j \in orphans THEN [task[j] EXCEPT !.status = "cancelled"] ELSE task[j]
      BY <2>3, <2>7, <2>8
    <3>2. task[j] \in Task
      BY TaskFields DEF Typed
    <3> QED
      BY <3>1, <3>2 DEF Task, Statuses
  <2>10. \A j \in 1 .. n :
           LET t == task'[Len(task) + j] IN
           /\ t \in Task /\ t.lead = lead /\ t.to = to[j] /\ t.kind = "assigned"
    <3> SUFFICES ASSUME NEW j \in 1 .. n
                 PROVE  LET t == task'[Len(task) + j] IN
                        t \in Task /\ t.lead = lead /\ t.to = to[j] /\ t.kind = "assigned"
      OBVIOUS
    <3>1. task'[Len(task) + j] = NewTask(lead, to[j], "assigned")
      BY <2>3, <2>7, <2>8
    <3>2. NewTask(lead, to[j], "assigned") \in Task
      BY <1>2, <2>4 DEF NewTask, Task, Statuses
    <3> QED
      BY <3>1, <3>2 DEF NewTask
  <2> HIDE DEF lead, names, removed, orphans, n
  <2>11. \A i \in 1 .. Len(task) + n :
           i \in DOMAIN task \/ (i - Len(task) \in 1 .. n /\ i = Len(task) + (i - Len(task)))
    BY <2>3, <2>8
  <2>12. /\ task' \in Seq(Task) /\ Len(task') = Len(task) + n
         /\ DOMAIN task' = 1 .. Len(task) + n
    <3>1. DOMAIN task' = 1 .. Len(task) + n
      BY <2>7
    <3>2. \A i \in 1 .. Len(task) + n : task'[i] \in Task
      BY <2>9, <2>10, <2>11
    <3>3. task' = [i \in 1 .. Len(task) + n |-> task'[i]]
      BY <2>7
    <3>4. task' \in [1 .. Len(task) + n -> Task]
      BY <3>2, <3>3
    <3> QED
      BY <2>3, <2>8, <3>1, <3>4
  <2>13. \A j \in DOMAIN task : SameWork(j) /\ task'[j].lead \in DOMAIN contact
    BY <2>9, TaskFields DEF SameWork, Open, Typed
  <2>14. \A i \in DOMAIN task' : task'[i].lead \in DOMAIN contact
    BY <1>2, <2>10, <2>11, <2>12, <2>13 DEF lead
  <2>15. \A j \in 1 .. n : Len(task) + j \in DOMAIN task' \ DOMAIN task
    BY <2>3, <2>8, <2>12
  <2>16. \A x \in assignment' :
           \/ x \in assignment /\ x \notin removed
           \/ \E j \in 1 .. n : /\ x = [lead |-> lead, user |-> to[j], task |-> Len(task) + j]
                                /\ x.lead = lead /\ x.user = to[j] /\ x.task = Len(task) + j
    BY <2>7
  <2>17. \A x \in assignment' :
           \/ x \in assignment
           \/ x \in [lead : DOMAIN contact, user : Users, task : DOMAIN task' \ DOMAIN task]
    BY <1>2, <2>4, <2>15, <2>16 DEF lead
  <2>18. \A x, y \in assignment' : x.lead = y.lead /\ x.user = y.user => x = y
    BY <2>5, <2>6, <2>16 DEF Typed, Assignments
  <2>19. \A x \in assignment' : Matches(x, task')
    BY <2>10, <2>13, <2>16, AssignmentFields DEF Matches, SameWork, Typed
  <2>20. WorkFollowsAssignment'
    <3> SUFFICES ASSUME NEW i \in DOMAIN task', task'[i].kind = "assigned", Open(i)'
                 PROVE  \E x \in assignment' :
                           x.task = i /\ x.lead = task'[i].lead /\ x.user = task'[i].to
      BY DEF WorkFollowsAssignment, Open
    <3>1. CASE i \in DOMAIN task
      <4>1. Open(i) /\ i \notin orphans /\ task[i].kind = "assigned"
        BY <2>9, <2>13, <3>1 DEF SameWork, Open
      <4>2. PICK x \in assignment : x.task = i /\ x.lead = task[i].lead /\ x.user = task[i].to
        BY <3>1, <4>1 DEF WorkFollowsAssignment, Open
      <4>3. x \notin removed
        BY <1>1, <4>1, <4>2 DEF Cleared, removed, orphans, Removed
      <4>4. x \in assignment'
        BY <2>7, <4>2, <4>3
      <4> QED
        BY <2>9, <3>1, <4>2, <4>4
    <3>2. CASE i \notin DOMAIN task
      <4>1. PICK j \in 1 .. n : i = Len(task) + j
        BY <2>11, <2>12, <3>2
      <4> DEFINE x == [lead |-> lead, user |-> to[j], task |-> Len(task) + j]
      <4>2. x \in assignment'
        BY <2>7
      <4>3. x.task = i /\ x.lead = task'[i].lead /\ x.user = task'[i].to
        BY <2>10, <4>1
      <4> QED
        BY <4>2, <4>3
    <3> QED
      BY <3>1, <3>2
  <2>21. Len(task) <= Len(task')
    BY <2>3, <2>8, <2>12
  <2> QED
    BY <2>12, <2>13, <2>14, <2>17, <2>18, <2>19, <2>20, <2>21 DEF WorkStep
<1> QED
  BY <1>3, <1>4

-----------------------------------------------------------------------------
(* The invariant                                                           *)

\* What a handover has read covers the book of a user who had left by then,
\* but for what was given to them later.
Relieving(r) ==
    r.stage = "read" /\ r.ask.kind = "handover" =>
        LET u == r.ask.to[1] IN
        u \notin active /\ r.at > left[u] => BookOf(u) \subseteq r.found \cup late

DeskInv ==
    /\ Typed
    /\ \A c \in DOMAIN contact : contact[c].since < clock
    /\ \A q \in Requests : /\ Screened(request[q]) /\ Cleared(request[q])
                           /\ Relieving(request[q])
    /\ handed \cap active = {}
    /\ NoSilentDuplicate /\ WorkFollowsAssignment
    /\ LeaversHoldNothing

\* What a commit does to the staff.
StaffStep ==
    /\ active' \subseteq Users /\ left' \in [Users -> Nat] /\ handed' \subseteq Users
    /\ \A u \in Users : left'[u] <= clock
    /\ \A u \in Users : u \notin active' =>
         (u \notin active /\ left'[u] = left[u]) \/ left'[u] = clock
    /\ \A u \in handed' : u \notin active' /\ (u \in handed \/ BookOf(u)' \subseteq late')

LEMMA NothingRequested == NoRequest \in Request /\ NoRequest.stage = "idle"
BY DEF NoRequest, Request, Readings

LEMMA InitDesk == Init => DeskInv
<1> SUFFICES ASSUME Init PROVE DeskInv
  OBVIOUS
<1>1. /\ active = Users /\ contact = Book /\ task = Work /\ assignment = Assigned
      /\ request = [q \in Requests |-> NoRequest] /\ clock = 1
      /\ left = [u \in Users |-> 0] /\ handed = {} /\ late = {} /\ crossed = {}
  BY DEF Init
<1>2. Tables /\ Assignments
  BY <1>1, BookAssumption DEF Tables, Assignments
<1>3. \A q \in Requests : request[q] \in Request /\ request[q].stage = "idle"
  BY <1>1, NothingRequested
<1>4. Typed
  BY <1>1, <1>2, <1>3 DEF Typed, Holds
<1>5. \A c \in DOMAIN contact : contact[c].since = 0
  BY <1>1, BookAssumption
<1>6. NoSilentDuplicate
  BY <1>5 DEF NoSilentDuplicate
<1>7. WorkFollowsAssignment
  <2>1. \A j \in DOMAIN task :
          task[j].kind = "assigned" /\ task[j].status = "pending" /\ ~task[j].reopened
          => \E x \in assignment : x.task = j
    BY <1>1, BookAssumption
  <2> QED
    BY <1>2, <2>1, AssignmentFields DEF WorkFollowsAssignment
<1> QED
  BY <1>1, <1>3, <1>4, <1>5, <1>6, <1>7
     DEF DeskInv, Screened, Cleared, Relieving, LeaversHoldNothing

\* Nobody's handler but the one that ends is touched.
LEMMA EndsRequest ==
    ASSUME Typed, NEW q \in Requests, Ends(q)
    PROVE  /\ request' \in [Requests -> Request] /\ clock' = clock + 1 /\ clock \in Nat
           /\ request'[q].stage = "idle"
           /\ \A p \in Requests : p # q => request'[p] = request[p]
BY NothingRequested DEF Ends, Typed, Tables

LEMMA NoneOlderStays ==
    ASSUME DeskInv, LeadStep, NEW phone, NEW at \in Nat, at < clock, NoneOlder(phone, at)
    PROVE  NoneOlder(phone, at)'
<1> SUFFICES ASSUME NEW c \in DOMAIN contact', contact'[c].live, contact'[c].phone = phone
             PROVE  contact'[c].since > at
  BY DEF NoneOlder
<1>1. clock \in Nat
  BY DEF DeskInv, Typed, Tables
<1>2. CASE c \in DOMAIN contact
  BY <1>1, <1>2 DEF LeadStep, Kept, NoneOlder
<1>3. CASE c \notin DOMAIN contact
  BY <1>1, <1>3 DEF LeadStep, Entered
<1> QED
  BY <1>2, <1>3

\* No two leads of a number, unawares.
LEMMA DuplicatesKeep ==
    ASSUME DeskInv, LeadStep
    PROVE  NoSilentDuplicate'
<1> SUFFICES ASSUME NEW c \in DOMAIN contact', NEW d \in DOMAIN contact', c # d,
                    contact'[c].live, contact'[d].live,
                    contact'[c].phone = contact'[d].phone,
                    contact'[c].since < contact'[d].since,
                    ~contact'[d].forced
             PROVE  contact'[c].since > contact'[d].began
  BY DEF NoSilentDuplicate
<1>1. /\ clock \in Nat
      /\ \A e \in DOMAIN contact : contact[e].since < clock /\ contact[e].since \in Nat
  BY ContactFields DEF DeskInv, Typed, Tables
<1>2. c \in DOMAIN contact
  <2>1. CASE c \notin DOMAIN contact
    <3>1. contact'[c].since = clock
      BY <2>1 DEF LeadStep, Entered
    <3>2. contact'[d].since <= clock /\ contact'[d].since \in Nat
      BY <1>1 DEF LeadStep, Kept, Entered
    <3> QED
      BY <1>1, <3>1, <3>2
  <2> QED
    BY <2>1
<1>3. /\ contact[c].live
      /\ \/ contact'[c].phone = contact[c].phone /\ contact'[c].since = contact[c].since
         \/ contact'[c].since = clock
  BY <1>2 DEF LeadStep, Kept
<1>4. contact'[d].since <= clock /\ contact'[d].since \in Nat
  BY <1>1 DEF LeadStep, Kept, Entered
<1>5. contact'[c].phone = contact[c].phone /\ contact'[c].since = contact[c].since
  BY <1>1, <1>3, <1>4
<1>6. CASE d \in DOMAIN contact
  BY <1>2, <1>3, <1>5, <1>6 DEF LeadStep, Kept, DeskInv, NoSilentDuplicate
<1>7. CASE d \notin DOMAIN contact
  <2>1. NoneOlder(contact'[d].phone, contact'[d].began)
    BY <1>7 DEF LeadStep, Entered
  <2> QED
    BY <1>2, <1>3, <1>5, <2>1 DEF NoneOlder
<1> QED
  BY <1>6, <1>7

\* Leads that come into the book of somebody who has left are known.
LEMMA BooksKeep ==
    ASSUME DeskInv, LeadStep, NEW u \in Users, u \notin active
    PROVE  BookOf(u)' \subseteq BookOf(u) \cup late'
<1> SUFFICES ASSUME NEW c \in DOMAIN contact', c \in BookOf(u)'
             PROVE  c \in BookOf(u) \/ c \in late'
  BY DEF BookOf
<1>1. CASE c \in DOMAIN contact
  BY <1>1 DEF LeadStep, Kept
<1>2. CASE c \notin DOMAIN contact
  <2>1. contact'[c].owner = u
    BY DEF BookOf
  <2> QED
    BY <1>2, <2>1 DEF LeadStep, Entered
<1> QED
  BY <1>1, <1>2

\* A commit whose effects are those, and that leaves other handlers alone.
LEMMA CommitKeeps ==
    ASSUME DeskInv, LeadStep, WorkStep, StaffStep, NEW q \in Requests, Ends(q)
    PROVE  DeskInv'
<1>1. /\ request' \in [Requests -> Request] /\ clock' = clock + 1 /\ clock \in Nat
      /\ request'[q].stage = "idle"
      /\ \A p \in Requests : p # q => request'[p] = request[p]
  BY EndsRequest DEF DeskInv
<1>2. DOMAIN contact \subseteq DOMAIN contact' /\ DOMAIN task \subseteq DOMAIN task'
  BY DEF DeskInv, Typed, Tables, LeadStep, WorkStep
<1>3. Tables'
  <2>1. \A u \in Users : left'[u] < clock'
    BY <1>1 DEF StaffStep
  <2>2. \A j \in DOMAIN task' : task'[j].lead \in DOMAIN contact'
    BY <1>2 DEF WorkStep
  <2> QED
    BY <1>1, <2>1, <2>2 DEF Tables, LeadStep, WorkStep, StaffStep
<1>4. Assignments'
  <2>1. assignment' \subseteq [lead : DOMAIN contact', user : Users, task : DOMAIN task']
    BY <1>2 DEF WorkStep, DeskInv, Typed, Assignments
  <2> QED
    BY <2>1 DEF Assignments, WorkStep
<1>5. \A p \in Requests : Holds(request[p])'
  <2> SUFFICES ASSUME NEW p \in Requests PROVE Holds(request[p])'
    OBVIOUS
  <2>1. CASE p = q
    BY <1>1, <2>1 DEF Holds
  <2>2. CASE p # q
    <3>1. Holds(request[p]) /\ request'[p] = request[p] /\ request[p] \in Request
      BY <1>1, <2>2 DEF DeskInv, Typed
    <3>2. request[p].at \in Nat
      BY <3>1 DEF Request
    <3>3. request[p].at < clock => request[p].at < clock'
      BY <1>1, <3>2
    <3> QED
      BY <1>2, <3>1, <3>3 DEF Holds
  <2> QED
    BY <2>1, <2>2
<1>6. Typed'
  BY <1>1, <1>3, <1>4, <1>5 DEF Typed
<1>7. \A c \in DOMAIN contact' : contact'[c].since < clock'
  <2>1. \A c \in DOMAIN contact : contact[c].since < clock /\ contact[c].since \in Nat
    BY ContactFields DEF DeskInv, Typed
  <2> QED
    BY <1>1, <2>1 DEF LeadStep, Kept, Entered
<1>8. \A p \in Requests : Screened(request[p])'
  <2> SUFFICES ASSUME NEW p \in Requests, p # q, request'[p] = request[p],
                      request[p].stage = "read"
               PROVE  Screened(request[p])'
    BY <1>1 DEF Screened
  <2>1. request[p].at \in Nat /\ request[p].at < clock
    BY AskedWell DEF DeskInv
  <2>2. Screened(request[p])
    BY DEF DeskInv
  <2>3. CASE request[p].ask.kind = "create" /\ ~request[p].ask.flag
    <3>1. NoneOlder(request[p].ask.phones[1], request[p].at)'
      <4> PICK at \in Nat : at = request[p].at
        BY <2>1
      <4> PICK phone : phone = request[p].ask.phones[1]
        OBVIOUS
      <4>1. NoneOlder(phone, at)'
        BY <2>1, <2>2, <2>3, NoneOlderStays DEF Screened
      <4> QED
        BY <4>1 DEF NoneOlder
    <3> QED
      BY <2>3, <3>1 DEF Screened, NoneOlder
  <2>4. CASE request[p].ask.kind = "import"
    <3>1. ASSUME NEW j \in request[p].found
          PROVE  NoneOlder(request[p].ask.phones[j], request[p].at)'
      <4> PICK at \in Nat : at = request[p].at
        BY <2>1
      <4> PICK phone : phone = request[p].ask.phones[j]
        OBVIOUS
      <4>1. NoneOlder(phone, at)'
        BY <2>1, <2>2, <2>4, NoneOlderStays DEF Screened
      <4> QED
        BY <4>1 DEF NoneOlder
    <3> QED
      BY <2>4, <3>1 DEF Screened, NoneOlder
  <2>5. CASE ~(request[p].ask.kind = "create" /\ ~request[p].ask.flag)
             /\ request[p].ask.kind # "import"
    BY <2>5 DEF Screened
  <2> QED
    BY <2>3, <2>4, <2>5
<1>9. \A p \in Requests : Cleared(request[p])'
  <2> SUFFICES ASSUME NEW p \in Requests, p # q, request'[p] = request[p],
                      request[p].stage = "scanned",
                      NEW x \in assignment', x \in request[p].found,
                      x.user \notin Listed(request[p].ask.to), Open(x.task)'
               PROVE  x.task \in request[p].orphans
    BY <1>1 DEF Cleared, Listed, Open
  <2>1. x.task \in DOMAIN task
    BY AskedWell DEF DeskInv, Holds
  <2>2. x \in assignment /\ Open(x.task)
    BY <2>1 DEF WorkStep, SameWork
  <2> QED
    BY <2>2 DEF DeskInv, Cleared
<1>10. \A p \in Requests : Relieving(request[p])'
  <2> SUFFICES ASSUME NEW p \in Requests, p # q, request'[p] = request[p],
                      request[p].stage = "read", request[p].ask.kind = "handover",
                      NEW u, u = request[p].ask.to[1],
                      u \notin active', request[p].at > left'[u]
               PROVE  BookOf(u)' \subseteq request[p].found \cup late'
    BY <1>1 DEF Relieving, BookOf, InRotation
  <2>1. request[p].at \in Nat /\ request[p].at < clock /\ u \in Users
    BY AskedWell, AsksAssumption DEF DeskInv
  <2>2. u \notin active /\ left'[u] = left[u]
    BY <1>1, <2>1 DEF StaffStep
  <2>3. BookOf(u) \subseteq request[p].found \cup late
    BY <2>2 DEF DeskInv, Relieving
  <2>4. BookOf(u)' \subseteq BookOf(u) \cup late'
    BY <2>1, <2>2, BooksKeep
  <2> QED
    BY <2>3, <2>4 DEF LeadStep
<1>11. handed' \cap active' = {}
  BY DEF StaffStep
<1>12. LeaversHoldNothing'
  <2> SUFFICES ASSUME NEW u \in handed' PROVE BookOf(u)' \subseteq late'
    BY DEF LeaversHoldNothing
  <2>1. CASE u \in handed
    <3>1. u \in Users /\ u \notin active /\ BookOf(u) \subseteq late
      BY <2>1 DEF DeskInv, Typed, Tables, LeaversHoldNothing
    <3>2. BookOf(u)' \subseteq BookOf(u) \cup late'
      BY <3>1, BooksKeep
    <3> QED
      BY <3>1, <3>2 DEF LeadStep
  <2>2. CASE u \notin handed
    BY <2>2 DEF StaffStep
  <2> QED
    BY <2>1, <2>2
<1>13. NoSilentDuplicate' /\ WorkFollowsAssignment'
  BY DuplicatesKeep DEF WorkStep
<1> QED
  BY <1>6, <1>7, <1>8, <1>9, <1>10, <1>11, <1>12, <1>13 DEF DeskInv

\* The handlers that leave the staff alone.
LEMMA StaffStays ==
    ASSUME DeskInv, UNCHANGED <<active, left, handed>>
    PROVE  StaffStep
BY DEF StaffStep, DeskInv, Typed, Tables

LEMMA HandoverStaff ==
    ASSUME DeskInv, LeadStep, NEW q \in Requests, Handover(q)
    PROVE  StaffStep
<1>1. request[q].stage = "read" /\ request[q].ask.kind = "handover"
  BY DEF Handover, Asked
<1>2. request[q].ask.to[1] \in Users /\ request[q].ask.to[1] # request[q].ask.to[2]
  BY <1>1, AskedWell, AsksAssumption DEF DeskInv, Holds
<1> PICK u \in Users : u = request[q].ask.to[1]
  BY <1>2
<1>3. /\ UNCHANGED <<active, left>>
      /\ handed' = handed \/ (handed' = handed \cup {u} /\ u \notin active
                              /\ request[q].at > left[u])
      /\ contact' = [c \in DOMAIN contact |->
           IF c \in request[q].found THEN [contact[c] EXCEPT !.owner = request[q].ask.to[2]]
           ELSE contact[c]]
  BY DEF Handover
<1>4. CASE handed' = handed
  BY <1>3, <1>4, StaffStays
<1>5. CASE handed' = handed \cup {u} /\ u \notin active /\ request[q].at > left[u]
  <2>1. BookOf(u) \subseteq request[q].found \cup late
    BY <1>1, <1>5 DEF DeskInv, Relieving
  <2>2. \A c \in BookOf(u)' : c \in DOMAIN contact /\ c \notin request[q].found
    <3> SUFFICES ASSUME NEW c \in BookOf(u)', c \in request[q].found PROVE FALSE
      BY <1>3 DEF BookOf
    <3>1. c \in DOMAIN contact /\ contact'[c].owner = u
      BY <1>3 DEF BookOf
    <3>2. contact[c] \in Contact
      BY <3>1, ContactFields DEF DeskInv, Typed
    <3>3. contact'[c].owner = request[q].ask.to[2]
      BY <1>3, <3>1, <3>2 DEF Contact
    <3> QED
      BY <1>2, <3>1, <3>3
  <2>3. BookOf(u)' \subseteq BookOf(u) \cup late'
    BY <1>5, BooksKeep
  <2>4. BookOf(u)' \subseteq late'
    BY <2>1, <2>2, <2>3 DEF LeadStep
  <2> QED
    BY <1>3, <1>5, <2>4 DEF StaffStep, DeskInv, Typed, Tables
<1> QED
  BY <1>3, <1>4, <1>5

LEMMA SetActiveStaff ==
    ASSUME DeskInv, NEW q \in Requests, SetActive(q)
    PROVE  StaffStep
<1>1. request[q].stage = "read" /\ request[q].ask.kind \in {"deactivate", "reactivate"}
  BY DEF SetActive, Asked
<1>2. request[q].ask.to[1] \in Users
  BY <1>1, AskedWell, AsksAssumption, FirstOf DEF DeskInv
<1> PICK u \in Users : u = request[q].ask.to[1]
  BY <1>2
<1>3. CASE request[q].ask.kind = "deactivate"
  <2>1. /\ active' = active \ {u} /\ handed' = handed
        /\ left' = IF u \in active THEN [left EXCEPT ![u] = clock] ELSE left
    BY <1>3 DEF SetActive
  <2>2. left' \in [Users -> Nat] /\ \A v \in Users : left'[v] <= clock
    BY <2>1 DEF DeskInv, Typed, Tables
  <2>3. \A v \in Users : v \notin active' =>
          (v \notin active /\ left'[v] = left[v]) \/ left'[v] = clock
    BY <2>1 DEF DeskInv, Typed, Tables
  <2> QED
    BY <2>1, <2>2, <2>3 DEF StaffStep, DeskInv, Typed, Tables
<1>4. CASE request[q].ask.kind = "reactivate"
  <2>1. active' = active \cup {u} /\ handed' = handed \ {u} /\ left' = left
    BY <1>4 DEF SetActive
  <2> QED
    BY <2>1 DEF StaffStep, DeskInv, Typed, Tables
<1> QED
  BY <1>1, <1>3, <1>4

\* Every commit is such a step.
LEMMA CommitSteps ==
    ASSUME DeskInv, NEW q \in Requests, Commit(q), ~Scan(q)
    PROVE  LeadStep /\ WorkStep /\ StaffStep /\ Ends(q)
<1> USE DEF DeskInv
<1>1. CASE Create(q)
  <2>1. UNCHANGED <<active, left, assignment, task, handed>> /\ Ends(q)
    BY <1>1 DEF Create
  <2> QED
    BY <1>1, <2>1, CreateStep, WorkUntouched, StaffStays
<1>2. CASE Import(q)
  <2>1. UNCHANGED <<active, left, assignment, task, handed>> /\ Ends(q)
    BY <1>2 DEF Import
  <2> QED
    BY <1>2, <2>1, ImportStep, WorkUntouched, StaffStays
<1>3. CASE SetStage(q) \/ Show(q) \/ CreateActivity(q)
  <2>1. UNCHANGED <<active, left, assignment, task, handed>> /\ Ends(q)
    BY <1>3 DEF SetStage, Show, CreateActivity
  <2> QED
    BY <1>3, <2>1, StageSteps, WorkUntouched, StaffStays
<1>4. CASE Call(q)
  <2>1. UNCHANGED <<active, left, handed>> /\ Ends(q)
    BY <1>4 DEF Call
  <2> QED
    BY <1>4, <2>1, CallStep, CallWork, StaffStays
<1>5. CASE SetPhone(q)
  <2>1. UNCHANGED <<active, left, assignment, task, handed>> /\ Ends(q)
    BY <1>5 DEF SetPhone
  <2> QED
    BY <1>5, <2>1, SetPhoneStep, WorkUntouched, StaffStays
<1>6. CASE Reassign(q)
  <2>1. UNCHANGED <<active, left, assignment, task, handed>> /\ Ends(q)
    BY <1>6 DEF Reassign
  <2> QED
    BY <1>6, <2>1, ReassignStep, WorkUntouched, StaffStays
<1>7. CASE Delete(q)
  <2>1. UNCHANGED <<active, left, assignment, task, handed>> /\ Ends(q)
    BY <1>7 DEF Delete
  <2> QED
    BY <1>7, <2>1, DeleteStep, WorkUntouched, StaffStays
<1>8. CASE Assign(q)
  <2>1. UNCHANGED <<active, left, contact, handed, late, crossed>> /\ Ends(q)
    BY <1>8 DEF Assign
  <2> QED
    BY <1>8, <2>1, LeadsUntouched, AssignWork, StaffStays
<1>9. CASE Handover(q)
  <2>1. UNCHANGED <<assignment, task>> /\ Ends(q)
    BY <1>9 DEF Handover
  <2>2. LeadStep
    BY <1>9, HandoverStep
  <2> QED
    BY <1>9, <2>1, <2>2, WorkUntouched, HandoverStaff
<1>10. CASE SetActive(q)
  <2>1. UNCHANGED <<contact, assignment, task, late, crossed>> /\ Ends(q)
    BY <1>10 DEF SetActive
  <2> QED
    BY <1>10, <2>1, LeadsUntouched, WorkUntouched, SetActiveStaff
<1>11. CASE SetTask(q)
  <2>1. UNCHANGED <<active, left, contact, handed, late, crossed>> /\ Ends(q)
    BY <1>11 DEF SetTask
  <2> QED
    BY <1>11, <2>1, LeadsUntouched, SetTaskWork, StaffStays
<1>12. CASE OwnTask(q)
  <2>1. UNCHANGED <<active, left, contact, handed, late, crossed>> /\ Ends(q)
    BY <1>12 DEF OwnTask
  <2> QED
    BY <1>12, <2>1, LeadsUntouched, OwnTaskWork, StaffStays
<1> HIDE DEF DeskInv
<1> QED
  BY <1>1, <1>2, <1>3, <1>4, <1>5, <1>6, <1>7, <1>8, <1>9, <1>10, <1>11, <1>12 DEF Commit

\* A handler that reads and writes nothing.
LEMMA ReadKeeps ==
    ASSUME DeskInv, NEW q \in Requests,
           UNCHANGED <<active, left, contact, assignment, task, handed, late, crossed>>,
           clock' \in {clock, clock + 1},
           request' \in [Requests -> Request],
           \A p \in Requests : p # q => request'[p] = request[p],
           Holds(request[q])', Screened(request[q])',
           Cleared(request[q])', Relieving(request[q])'
    PROVE  DeskInv'
<1>1. clock \in Nat /\ clock' \in Nat /\ clock <= clock'
  BY DEF DeskInv, Typed, Tables
<1>2. Tables'
  <2>1. \A u \in Users : left[u] \in Nat /\ left[u] < clock
    BY DEF DeskInv, Typed, Tables
  <2>2. \A u \in Users : left[u] < clock'
    BY <1>1, <2>1
  <2> QED
    BY <1>1, <2>2 DEF DeskInv, Typed, Tables
<1>3. Assignments'
  BY DEF DeskInv, Typed, Assignments, Matches
<1>4. ASSUME NEW p \in Requests, p # q
      PROVE  /\ Holds(request[p])' /\ Screened(request[p])'
             /\ Cleared(request[p])' /\ Relieving(request[p])'
  <2>1. /\ request'[p] = request[p]
        /\ Holds(request[p]) /\ Screened(request[p])
        /\ Cleared(request[p]) /\ Relieving(request[p])
    BY <1>4 DEF DeskInv, Typed
  <2>2. request[p].stage # "idle" => request[p].at \in Nat /\ request[p].at < clock
    BY AskedWell DEF DeskInv
  <2>3. request[p].stage # "idle" => request[p].at < clock'
    BY <1>1, <2>2
  <2>4. Holds(request[p])'
    BY <2>1, <2>3 DEF Holds
  <2>5. Screened(request[p])'
    BY <2>1 DEF Screened, NoneOlder
  <2>6. Cleared(request[p])'
    BY <2>1 DEF Cleared, Open
  <2>7. Relieving(request[p])'
    BY <2>1 DEF Relieving, BookOf, InRotation
  <2> QED
    BY <2>4, <2>5, <2>6, <2>7
<1>5. Typed'
  BY <1>2, <1>3, <1>4 DEF Typed
<1>6. \A c \in DOMAIN contact' : contact'[c].since < clock'
  <2>1. \A c \in DOMAIN contact : contact[c].since \in Nat /\ contact[c].since < clock
    BY ContactFields DEF DeskInv, Typed
  <2> QED
    BY <1>1, <2>1
<1>7. NoSilentDuplicate' /\ WorkFollowsAssignment' /\ LeaversHoldNothing'
  BY DEF DeskInv, NoSilentDuplicate, WorkFollowsAssignment, LeaversHoldNothing,
         BookOf, InRotation
<1>8. (handed \cap active = {})'
  BY DEF DeskInv
<1> QED
  BY <1>4, <1>5, <1>6, <1>7, <1>8 DEF DeskInv

LEMMA ScanKeeps ==
    ASSUME DeskInv, NEW q \in Requests, Scan(q)
    PROVE  DeskInv'
<1>1. /\ Cleared(request[q])' /\ request' \in [Requests -> Request]
      /\ \A p \in Requests : p # q => request'[p] = request[p]
      /\ Holds(request'[q])
  BY ScanWork DEF DeskInv
<1>2. /\ UNCHANGED <<active, left, contact, assignment, task, clock, handed, late, crossed>>
      /\ request'[q].stage = "scanned"
  <2>1. request[q] \in Request /\ request \in [Requests -> Request]
    BY DEF DeskInv, Typed
  <2> QED
    BY <2>1 DEF Scan, Request
<1>3. Holds(request[q])'
  BY <1>1, <1>2 DEF Holds
<1>4. Screened(request[q])' /\ Relieving(request[q])'
  BY <1>2 DEF Screened, Relieving
<1> QED
  BY <1>1, <1>2, <1>3, <1>4, ReadKeeps

\* What a handler reads when it begins fits what it was asked.
LEMMA ReadsWell ==
    ASSUME DeskInv, NEW a \in Asks, Accepts(a)
    PROVE  /\ Found(a) \in Readings
           /\ a.kind \notin Apart => a.lead \in DOMAIN contact
           /\ a.kind = "task" => a.lead \in DOMAIN task
           /\ a.kind = "import" => Found(a) \subseteq DOMAIN a.phones
           /\ a.kind = "handover" =>
                Found(a) \subseteq DOMAIN contact /\ a.to[1] # a.to[2]
           /\ a.kind = "assign" =>
                \A x \in Found(a) : x.lead = a.lead /\ x.task \in DOMAIN task
           /\ a.kind \in {"stage", "show", "visit", "call"} => Found(a) \in Stages
<1>1. a.kind \notin Apart => a.lead \in DOMAIN contact
  BY DEF Accepts, Apart, Visible
<1>2. a.kind = "task" => a.lead \in DOMAIN task
  BY DEF Accepts
<1>3. DOMAIN contact \subseteq Nat
  BY DEF DeskInv, Typed, Tables
<1>4. CASE a.kind = "handover"
  <2>1. Found(a) = BookOf(a.to[1])
    BY <1>4 DEF Found
  <2>2. BookOf(a.to[1]) \subseteq DOMAIN contact
    BY DEF BookOf
  <2>3. a.to[1] # a.to[2]
    BY <1>4 DEF Accepts
  <2> QED
    BY <1>3, <1>4, <2>1, <2>2, <2>3 DEF Readings, Apart
<1>5. CASE a.kind = "assign"
  <2>1. Found(a) = {x \in assignment : x.lead = a.lead}
    BY <1>5 DEF Found
  <2>2. \A x \in assignment : /\ x \in [lead : Nat, user : Users, task : Nat]
                              /\ x.task \in DOMAIN task
    BY DEF DeskInv, Typed, Tables, Assignments
  <2>3. Found(a) \in Readings
    BY <2>1, <2>2 DEF Readings
  <2> QED
    BY <1>1, <1>5, <2>1, <2>2, <2>3
<1>6. CASE a.kind = "import"
  <2>1. Found(a) = FreshRows(a)
    BY <1>6 DEF Found
  <2>2. a.phones \in Seq(Phones)
    BY AsksAssumption DEF Ask
  <2>3. Found(a) \subseteq DOMAIN a.phones /\ DOMAIN a.phones \subseteq Nat
    BY <2>1, <2>2 DEF FreshRows
  <2> QED
    BY <1>6, <2>3 DEF Readings, Apart
<1>7. CASE a.kind = "task"
  <2>1. Found(a) = task[a.lead].status
    BY <1>7 DEF Found
  <2>2. Found(a) \in Statuses
    BY <1>2, <1>7, <2>1, TaskFields DEF DeskInv, Typed
  <2> QED
    BY <1>2, <1>7, <2>2 DEF Readings, Apart
<1>8. CASE a.kind \in {"stage", "show", "visit", "call"}
  <2>1. Found(a) = contact[a.lead].stage
    BY <1>8 DEF Found
  <2>2. Found(a) \in Stages
    BY <1>1, <1>8, <2>1, ContactFields DEF DeskInv, Typed, Apart
  <2> QED
    BY <1>1, <1>8, <2>2 DEF Readings
<1>9. CASE a.kind \notin {"handover", "assign", "import", "task", "stage", "show", "visit", "call"}
  <2>1. Found(a) = {}
    BY <1>9 DEF Found
  <2> QED
    BY <1>1, <1>9, <2>1 DEF Readings
<1> QED
  BY <1>4, <1>5, <1>6, <1>7, <1>8, <1>9

\* A number that nobody has is not older than anything.
LEMMA FreshNumber ==
    ASSUME NEW u, NEW phone, NEW at, Duplicates(u, phone) = {}
    PROVE  NoneOlder(phone, at)
BY DEF Duplicates, NoneOlder

LEMMA BeginKeeps ==
    ASSUME DeskInv, NEW q \in Requests, NEW a \in Asks, Begin(q, a)
    PROVE  DeskInv'
<1> DEFINE r == [stage |-> "read", at |-> clock, ask |-> a, found |-> Found(a), orphans |-> {}]
<1>1. /\ Accepts(a) /\ request' = [request EXCEPT ![q] = r] /\ clock' = clock + 1
      /\ UNCHANGED <<active, left, contact, assignment, task, handed, late, crossed>>
  BY DEF Begin
<1>2. /\ r.stage = "read" /\ r.at = clock /\ r.ask = a /\ r.found = Found(a)
      /\ clock \in Nat /\ request \in [Requests -> Request]
  BY DEF DeskInv, Typed, Tables
<1>3. r \in Request
  BY <1>1, <1>2, ReadsWell DEF Request
<1> HIDE DEF r
<1>4. /\ request' \in [Requests -> Request] /\ request'[q] = r
      /\ \A p \in Requests : p # q => request'[p] = request[p]
  BY <1>1, <1>2, <1>3
<1>5. Holds(request[q])'
  <2>1. r.at < clock'
    BY <1>1, <1>2
  <2> QED
    BY <1>1, <1>2, <1>4, <2>1, ReadsWell DEF Holds
<1>6. Screened(request[q])'
  <2>1. CASE a.kind = "create" /\ ~a.flag
    <3>1. Duplicates(a.by, a.phones[1]) = {}
      BY <1>1, <2>1 DEF Accepts
    <3>2. NoneOlder(a.phones[1], clock)
      BY <3>1, FreshNumber
    <3> QED
      BY <1>1, <1>2, <1>4, <2>1, <3>2 DEF Screened, NoneOlder
  <2>2. CASE a.kind = "import"
    <3>1. Found(a) = FreshRows(a)
      BY <2>2 DEF Found
    <3>2. \A j \in Found(a) : NoneOlder(a.phones[j], clock)
      BY <3>1, FreshNumber DEF FreshRows
    <3> QED
      BY <1>1, <1>2, <1>4, <2>2, <3>2 DEF Screened, NoneOlder
  <2>3. CASE ~(a.kind = "create" /\ ~a.flag) /\ a.kind # "import"
    BY <1>2, <1>4, <2>3 DEF Screened
  <2> QED
    BY <2>1, <2>2, <2>3
<1>7. Cleared(request[q])'
  BY <1>2, <1>4 DEF Cleared
<1>8. Relieving(request[q])'
  <2>1. a.kind = "handover" => Found(a) = BookOf(a.to[1])
    BY DEF Found
  <2> QED
    BY <1>1, <1>2, <1>4, <2>1 DEF Relieving, BookOf, InRotation
<1> QED
  BY <1>1, <1>4, <1>5, <1>6, <1>7, <1>8, ReadKeeps

LEMMA StepDesk == DeskInv /\ [Next]_vars => DeskInv'
<1> SUFFICES ASSUME DeskInv, [Next]_vars PROVE DeskInv'
  OBVIOUS
<1>1. ASSUME NEW q \in Requests, NEW a \in Asks, Begin(q, a) PROVE DeskInv'
  BY <1>1, BeginKeeps
<1>2. ASSUME NEW q \in Requests, Scan(q) PROVE DeskInv'
  BY <1>2, ScanKeeps
<1>3. ASSUME NEW q \in Requests, Commit(q), ~Scan(q) PROVE DeskInv'
  BY <1>3, CommitSteps, CommitKeeps
<1>4. CASE UNCHANGED vars
  <2>1. UNCHANGED <<active, left, contact, assignment, task, handed, late, crossed,
                    clock, request>>
    BY <1>4 DEF vars
  <2> QED
    BY <2>1 DEF DeskInv, Typed, Tables, Assignments, Matches, Holds, Screened, NoneOlder,
                Cleared, Open, Relieving, BookOf, InRotation, NoSilentDuplicate,
                WorkFollowsAssignment, LeaversHoldNothing
<1> QED
  BY <1>1, <1>2, <1>3, <1>4 DEF Next

LEMMA InvariantHolds == Spec => []DeskInv
BY InitDesk, StepDesk, PTL DEF Spec

-----------------------------------------------------------------------------
(* The shares of an import                                                 *)

\* Dealing goes round: what is dealt in which round, and to whom.
LEMMA Rounds ==
    ASSUME NEW n \in Nat \ {0}, NEW a \in Nat
    PROVE  /\ a % n \in 0 .. n - 1 /\ a \div n \in Nat
           /\ a = n * (a \div n) + (a % n)
<1>1. a % n \in 0 .. n - 1
  OBVIOUS
<1>2. a \div n \in Nat
  OBVIOUS
<1>3. a = n * (a \div n) + (a % n)
  OBVIOUS
<1> QED
  BY <1>1, <1>2, <1>3

LEMMA PlaceInRound ==
    ASSUME NEW n \in Nat \ {0}, NEW k \in Nat, NEW r \in 0 .. n - 1
    PROVE  (n * k + r) % n = r
<1> DEFINE a == n * k + r
           l == a \div n
           t == a % n
<1>1. n * k \in Nat /\ a \in Nat
  OBVIOUS
<1>2. t \in 0 .. n - 1 /\ l \in Nat /\ a = n * l + t
  <2> HIDE DEF a
  <2> QED
    BY <1>1, Rounds
<1>3. n * l + t = n * k + r
  BY <1>2
<1> HIDE DEF l, t, a
<1>4. CASE l = k
  BY <1>2, <1>3, <1>4 DEF t, a
<1>5. CASE l < k
  <2>1. PICK d \in Nat : k = l + 1 + d
    <3>1. k - l - 1 \in Nat /\ k = l + 1 + (k - l - 1)
      BY <1>2, <1>5
    <3> QED
      BY <3>1
  <2>2. n * k = n * l + n + n * d
    BY <1>2, <2>1
  <2>3. n * d \in Nat /\ n * l \in Nat
    BY <1>2
  <2> QED
    BY <1>2, <1>3, <2>2, <2>3
<1>6. CASE k < l
  <2>1. PICK d \in Nat : l = k + 1 + d
    <3>1. l - k - 1 \in Nat /\ l = k + 1 + (l - k - 1)
      BY <1>2, <1>6
    <3> QED
      BY <3>1
  <2>2. n * l = n * k + n + n * d
    BY <1>2, <2>1
  <2>3. n * d \in Nat /\ n * k \in Nat
    OBVIOUS
  <2> QED
    BY <1>2, <1>3, <2>2, <2>3
<1> QED
  BY <1>2, <1>4, <1>5, <1>6


\* The places dealt to the one who is r places after the first.
Hand(m, n, r) == {j \in 1 .. m : (j - 1) % n = r}

LEMMA HandIsFinite ==
    ASSUME NEW m \in Nat, NEW n, NEW r
    PROVE  IsFiniteSet(Hand(m, n, r)) /\ Cardinality(Hand(m, n, r)) \in Nat
<1>1. IsFiniteSet(1 .. m) /\ Hand(m, n, r) \in SUBSET (1 .. m)
  BY FS_Interval DEF Hand
<1>2. IsFiniteSet(Hand(m, n, r))
  BY <1>1, FS_Subset
<1> QED
  BY <1>2, FS_CardinalityType

\* In every round but the first, what one gets another got less than a round
\* before: one-to-one.
LEMMA HandsApartByOne ==
    ASSUME NEW m \in Nat, NEW n \in Nat \ {0}, NEW r \in 0 .. n - 1, NEW s \in 0 .. n - 1
    PROVE  Cardinality(Hand(m, n, r)) <= Cardinality(Hand(m, n, s)) + 1
<1> DEFINE R == Hand(m, n, r)
           T == Hand(m, n, s)
<1>1. /\ IsFiniteSet(R) /\ Cardinality(R) \in Nat
      /\ IsFiniteSet(T) /\ Cardinality(T) \in Nat
  BY HandIsFinite
<1>2. ASSUME NEW j \in R
      PROVE  /\ j \in 1 .. m
             /\ \E k \in Nat : j = n * k + r + 1
  <2>1. j \in 1 .. m /\ j - 1 \in Nat /\ (j - 1) % n = r
    BY DEF Hand
  <2>2. (j - 1) \div n \in Nat /\ j - 1 = n * ((j - 1) \div n) + r
    BY <2>1, Rounds
  <2>3. PICK k \in Nat : j - 1 = n * k + r
    BY <2>2
  <2>4. n * k \in Nat
    OBVIOUS
  <2>5. j = n * k + r + 1
    BY <2>1, <2>3, <2>4
  <2> QED
    BY <2>1, <2>5
<1>3. ASSUME NEW k \in Nat, n * k + s + 1 <= m
      PROVE  n * k + s + 1 \in T
  <2>1. n * k + s \in Nat /\ (n * k + s) % n = s
    BY PlaceInRound
  <2>2. (n * k + s + 1) - 1 = n * k + s /\ n * k + s + 1 \in 1 .. m
    BY <1>3, <2>1
  <2>3. ((n * k + s + 1) - 1) % n = s
    BY <2>1, <2>2
  <2> QED
    BY <2>2, <2>3 DEF Hand
<1>4. CASE s <= r
  <2> DEFINE f == [j \in R |-> j - (r - s)]
  <2>1. ASSUME NEW j \in R PROVE j - (r - s) \in T
    <3>1. PICK k \in Nat : j = n * k + r + 1
      BY <1>2
    <3>2. n * k \in Nat /\ j <= m
      BY <1>2
    <3>3. j - (r - s) = n * k + s + 1 /\ n * k + s + 1 <= m
      BY <1>4, <3>1, <3>2
    <3> QED
      BY <1>3, <3>3
  <2>2. \A i, j \in R : i - (r - s) = j - (r - s) => i = j
    BY DEF Hand
  <2> HIDE DEF R, T
  <2>3. f \in [R -> T] /\ \A i, j \in R : f[i] = f[j] => i = j
    BY <2>1, <2>2
  <2>4. f \in Injection(R, T)
    BY <2>3 DEF Injection, IsInjective
  <2>5. Cardinality(R) <= Cardinality(T)
    BY <1>1, <2>4, FS_Injection
  <2> QED
    BY <1>1, <2>5 DEF R, T
<1>5. CASE r < s
  <2> DEFINE Later == R \ {r + 1}
             f == [j \in Later |-> j - (n - (s - r))]
  <2>1. ASSUME NEW j \in Later PROVE j - (n - (s - r)) \in T
    <3>1. PICK k \in Nat : j = n * k + r + 1
      BY <1>2
    <3>2. k # 0
      BY <2>1, <3>1
    <3>3. PICK l \in Nat : k = l + 1
      <4>1. k - 1 \in Nat /\ k = (k - 1) + 1
        BY <3>2
      <4> QED
        BY <4>1
    <3>4. n * k = n * l + n /\ n * l \in Nat
      BY <3>3
    <3>5. j <= m
      BY <1>2
    <3>6. j - (n - (s - r)) = n * l + s + 1 /\ n * l + s + 1 <= m
      BY <1>5, <3>1, <3>4, <3>5
    <3> QED
      BY <1>3, <3>6
  <2>2. \A i, j \in Later : i - (n - (s - r)) = j - (n - (s - r)) => i = j
    BY DEF Hand
  <2>3. IsFiniteSet(Later) /\ Cardinality(R) <= Cardinality(Later) + 1
    <3>1. /\ IsFiniteSet(Later)
          /\ Cardinality(Later) = IF r + 1 \in R THEN Cardinality(R) - 1 ELSE Cardinality(R)
      <4> HIDE DEF R
      <4> QED
        BY <1>1, FS_RemoveElement
    <3> HIDE DEF R, Later
    <3> QED
      BY <1>1, <3>1
  <2> HIDE DEF R, T, Later
  <2>4. f \in [Later -> T] /\ \A i, j \in Later : f[i] = f[j] => i = j
    BY <2>1, <2>2
  <2>5. f \in Injection(Later, T)
    BY <2>4 DEF Injection, IsInjective
  <2>6. Cardinality(Later) <= Cardinality(T)
    BY <1>1, <2>5, FS_Injection
  <2>7. Cardinality(Later) \in Nat
    BY <2>3, FS_CardinalityType
  <2> QED
    BY <1>1, <2>3, <2>6, <2>7 DEF R, T
<1> QED
  BY <1>4, <1>5

\* A set of places moved up has as many.
LEMMA MovedUp ==
    ASSUME NEW A \in SUBSET Nat, IsFiniteSet(A), NEW b \in Nat
    PROVE  Cardinality({b + j : j \in A}) = Cardinality(A)
<1> DEFINE B == {b + j : j \in A}
           f == [j \in A |-> b + j]
<1>1. f \in [A -> B] /\ \A i, j \in A : f[i] = f[j] => i = j
  OBVIOUS
<1>2. \A c \in B : \E j \in A : f[j] = c
  OBVIOUS
<1> HIDE DEF B, f
<1>3. f \in Bijection(A, B)
  BY <1>1, <1>2, Fun_IsBij
<1>4. ExistsBijection(A, B)
  BY <1>3 DEF ExistsBijection
<1>5. Cardinality(B) = Cardinality(A)
  BY <1>4, FS_Bijection
<1> QED
  BY <1>5 DEF B

\* The numbers of an import are added in the order of the deal, under a batch
\* that is not there yet.
LEMMA ImportAppends ==
    ASSUME Typed, NEW q \in Requests, Import(q)
    PROVE  LET m == Cardinality(request[q].found) IN
           \E targets \in Recipients(request[q].ask) :
              /\ m \in Nat /\ Len(contact') = Len(contact) + m
              /\ DOMAIN contact' = 1 .. Len(contact')
              /\ \A c \in DOMAIN contact : contact'[c] = contact[c]
              /\ \A j \in 1 .. m :
                   LET new == contact'[Len(contact) + j] IN
                   /\ new.owner = targets[1 + ((j - 1) % Len(targets))]
                   /\ new.batch # 0 /\ ~new.lead
<1> DEFINE found == request[q].found
           phones == request[q].ask.phones
           m == Cardinality(found)
           b == Len(contact)
<1>1. request[q].stage = "read" /\ request[q].ask.kind = "import"
  BY DEF Import, Asked
<1>2. /\ phones \in Seq(Phones) /\ found \in SUBSET DOMAIN phones
      /\ contact \in Seq(Contact) /\ b \in Nat
  <2>1. phones \in Seq(Phones) /\ found \in SUBSET DOMAIN phones
    BY <1>1, AskedWell DEF Holds
  <2>2. contact \in Seq(Contact) /\ b \in Nat
    BY DEF Typed, Tables
  <2> QED
    BY <2>1, <2>2
<1>3. PICK place \in InOrder(found), targets \in Recipients(request[q].ask) :
         LET rows == [j \in DOMAIN place |-> phones[place[j]]]
             to == Dealt(rows, targets) IN
         contact' = contact \o Imported(q, rows, to)
  BY DEF Import
<1> DEFINE rows == [j \in DOMAIN place |-> phones[place[j]]]
           to == Dealt(rows, targets)
           added == Imported(q, rows, to)
           n == Len(targets)
<1>4. m \in Nat /\ DOMAIN place = 1 .. m
  BY <1>2, Places
<1>5. DOMAIN rows = 1 .. m
  BY <1>4
<1>6. \A j \in 1 .. m : to[j] = targets[1 + ((j - 1) % n)]
  <2> HIDE DEF rows
  <2> QED
    BY <1>5 DEF Dealt
<1>7. /\ DOMAIN added = 1 .. m
      /\ added = [j \in 1 .. m |-> added[j]]
      /\ \A j \in 1 .. m :
           added[j].owner = to[j] /\ added[j].batch # 0 /\ ~added[j].lead
  <2> DEFINE batch == Cardinality(Batches) + 1
  <2>1. batch # 0
    BY NextBatch
  <2> HIDE DEF rows, to, batch
  <2>2. added = [j \in 1 .. m |-> NewContact(q, to[j], rows[j], batch)]
    BY <1>5 DEF Imported, batch
  <2>3. \A j \in 1 .. m : added[j] = NewContact(q, to[j], rows[j], batch)
    BY <2>2
  <2>4. DOMAIN added = 1 .. m /\ added = [j \in 1 .. m |-> added[j]]
    BY <1>5 DEF Imported
  <2> HIDE DEF added
  <2>5. ASSUME NEW j \in 1 .. m
        PROVE  added[j].owner = to[j] /\ added[j].batch # 0 /\ ~added[j].lead
    <3> DEFINE new == NewContact(q, to[j], rows[j], batch)
    <3>1. new.owner = to[j] /\ new.batch = batch
      BY DEF NewContact
    <3>2. new.lead = (batch = 0)
      BY Zenon DEF NewContact
    <3>3. added[j] = new
      BY <2>3
    <3> HIDE DEF new
    <3> QED
      BY <2>1, <3>1, <3>2, <3>3
  <2> QED
    BY <2>4, <2>5
<1> HIDE DEF rows, to, added
<1> DEFINE Things == Contact \cup {added[j] : j \in 1 .. m}
<1>8. added \in Seq(Things) /\ Len(added) = m /\ contact \in Seq(Things)
  <2>1. added \in [1 .. m -> Things]
    BY <1>7
  <2>2. contact \in [1 .. b -> Things]
    BY <1>2
  <2> HIDE DEF Things, m, b
  <2>3. added \in Seq(Things) /\ Len(added) = m
    BY <1>4, <2>1
  <2>4. contact \in Seq(Things)
    BY <1>2, <2>2
  <2> QED
    BY <2>3, <2>4
<1> HIDE DEF Things
<1>9. contact' = contact \o added
  BY <1>3 DEF added, to, rows
<1>10. /\ Len(contact') = b + m /\ DOMAIN contact' = 1 .. Len(contact')
       /\ \A c \in DOMAIN contact : contact'[c] = contact[c]
       /\ \A j \in 1 .. m : contact'[b + j] = added[j]
  <2>1. /\ contact' \in Seq(Things)
        /\ Len(contact') = Len(contact) + Len(added)
        /\ \A i \in 1 .. Len(contact) + Len(added) :
              contact'[i] = IF i <= Len(contact) THEN contact[i] ELSE added[i - Len(contact)]
    BY <1>8, <1>9, ConcatProperties
  <2>2. ASSUME NEW j \in 1 .. m PROVE contact'[b + j] = added[j]
    <3>1. b + j \in 1 .. b + m /\ ~(b + j <= b) /\ (b + j) - b = j
      BY <1>2, <1>4
    <3> QED
      BY <1>8, <2>1, <3>1
  <2>3. ASSUME NEW c \in DOMAIN contact PROVE contact'[c] = contact[c]
    <3>1. DOMAIN contact = 1 .. b /\ c \in 1 .. b + m /\ c <= b
      BY <1>2, <1>4
    <3> QED
      BY <1>8, <2>1, <3>1
  <2> QED
    BY <1>8, <2>1, <2>2, <2>3
<1> HIDE DEF m, b
<1>11. \A j \in 1 .. m :
         LET new == contact'[b + j] IN
         /\ new.owner = targets[1 + ((j - 1) % Len(targets))]
         /\ new.batch # 0 /\ ~new.lead
  BY <1>6, <1>7, <1>10
<1> QED
  BY <1>4, <1>10, <1>11 DEF m, b

\* After an import as after a deal: the new contacts are as many as the fresh
\* rows, and those of a recipient are the places dealt to them.
LEMMA SharesOfImport ==
    ASSUME Typed, NEW q \in Requests, Import(q)
    PROVE  LET fresh == Len(contact) + 1 .. Len(contact')
               Share(u) == Cardinality({c \in fresh : contact'[c].owner = u}) IN
           /\ Cardinality(fresh) = Cardinality(request[q].found)
           /\ \A u, v \in Named(request[q].ask) : Share(u) <= Share(v) + 1
<1> DEFINE fresh == Len(contact) + 1 .. Len(contact')
           Share(u) == Cardinality({c \in fresh : contact'[c].owner = u})
           m == Cardinality(request[q].found)
           b == Len(contact)
<1>1. request[q].ask \in Ask /\ b \in Nat
  <2>1. request[q].stage = "read"
    BY DEF Import, Asked
  <2>2. request[q].ask \in Ask
    BY <2>1, AskedWell
  <2>3. b \in Nat
    BY DEF Typed, Tables
  <2> QED
    BY <2>2, <2>3
<1>2. PICK targets \in Recipients(request[q].ask) :
         /\ m \in Nat /\ Len(contact') = b + m
         /\ \A j \in 1 .. m :
              contact'[b + j].owner = targets[1 + ((j - 1) % Len(targets))]
  BY ImportAppends
<1> DEFINE n == Len(targets)
<1>3. /\ targets \in Seq(Users) /\ n \in Nat \ {0}
      /\ \A i, j \in 1 .. n : targets[i] = targets[j] => i = j
      /\ \A u \in Named(request[q].ask) : \E i \in 1 .. n : targets[i] = u
  <2>1. /\ targets \in Seq(Users) /\ targets # <<>>
        /\ \A i, j \in DOMAIN targets : targets[i] = targets[j] => i = j
        /\ \A u \in Named(request[q].ask) : \E i \in DOMAIN targets : targets[i] = u
    BY <1>1, RecipientsAre
  <2>2. DOMAIN targets = 1 .. n /\ n \in Nat \ {0}
    BY <2>1, FirstOf
  <2> QED
    BY <2>1, <2>2
<1> HIDE DEF m, b, n
<1>4. fresh = b + 1 .. b + m
  BY <1>2 DEF b
<1>5. Cardinality(fresh) = m
  BY <1>1, <1>2, <1>4, FS_Interval
<1>6. ASSUME NEW r \in 0 .. n - 1
       PROVE  Share(targets[r + 1]) = Cardinality(Hand(m, n, r))
  <2> DEFINE u == targets[r + 1]
             H == Hand(m, n, r)
             C == {c \in fresh : contact'[c].owner = u}
             D == {b + j : j \in H}
  <2>1. \A j \in 1 .. m : (j - 1) % n \in 0 .. n - 1
    <3> SUFFICES ASSUME NEW j \in 1 .. m PROVE (j - 1) % n \in 0 .. n - 1
      OBVIOUS
    <3>1. j - 1 \in Nat
      BY <1>2
    <3> QED
      BY <1>3, <3>1, Rounds
  <2>2. \A j \in 1 .. m : contact'[b + j].owner = u <=> (j - 1) % n = r
    <3> SUFFICES ASSUME NEW j \in 1 .. m PROVE contact'[b + j].owner = u <=> (j - 1) % n = r
      OBVIOUS
    <3> DEFINE t == (j - 1) % n
    <3>1. t \in 0 .. n - 1 /\ contact'[b + j].owner = targets[1 + t]
      BY <1>2, <2>1 DEF n
    <3> HIDE DEF t
    <3>2. 1 + t \in 1 .. n /\ r + 1 \in 1 .. n
      BY <1>3, <3>1
    <3>3. contact'[b + j].owner = u <=> 1 + t = r + 1
      BY <1>3, <3>1, <3>2
    <3>4. 1 + t = r + 1 <=> t = r
      BY <1>3, <3>1
    <3> QED
      BY <3>3, <3>4 DEF t
  <2>3. \A c : c \in C <=> c \in D
    <3> SUFFICES ASSUME NEW c PROVE c \in C <=> c \in D
      OBVIOUS
    <3>1. ASSUME c \in C PROVE c \in D
      <4>1. PICK j \in 1 .. m : c = b + j
        <5>1. c \in b + 1 .. b + m
          BY <1>4, <3>1
        <5>2. c - b \in 1 .. m /\ c = b + (c - b)
          BY <1>1, <1>2, <5>1
        <5> QED
          BY <5>2
      <4>2. contact'[b + j].owner = u
        BY <1>2, <3>1, <4>1
      <4> QED
        BY <2>2, <4>1, <4>2 DEF Hand
    <3>2. ASSUME NEW j \in H, c = b + j PROVE c \in C
      <4>1. j \in 1 .. m /\ contact'[b + j].owner = u
        BY <2>2 DEF Hand
      <4>2. c \in fresh
        BY <1>1, <1>2, <1>4, <3>2, <4>1
      <4> QED
        BY <1>2, <3>2, <4>1, <4>2
    <3>3. ASSUME c \in D PROVE c \in C
      <4>1. PICK j \in H : c = b + j
        BY <3>3
      <4> QED
        BY <3>2, <4>1
    <3> HIDE DEF C, H, D
    <3> QED
      BY <3>1, <3>3
  <2>4. H \in SUBSET Nat /\ IsFiniteSet(H)
    <3>1. H \in SUBSET Nat
      BY <1>2 DEF Hand
    <3>2. IsFiniteSet(H)
      BY <1>2, HandIsFinite
    <3> QED
      BY <3>1, <3>2
  <2> HIDE DEF C, D
  <2>5. C = D
    BY <2>3
  <2> HIDE DEF H
  <2>6. Cardinality({b + j : j \in H}) = Cardinality(H)
    BY <1>1, <2>4, MovedUp
  <2>7. Cardinality(C) = Cardinality(H)
    BY <2>5, <2>6 DEF D
  <2> QED
    BY <2>7 DEF C, H
<1> HIDE DEF Share
<1>7. ASSUME NEW u \in Named(request[q].ask), NEW v \in Named(request[q].ask)
       PROVE  Share(u) <= Share(v) + 1
  <2>1. PICK i \in 1 .. n, j \in 1 .. n : targets[i] = u /\ targets[j] = v
    BY <1>3
  <2>2. i - 1 \in 0 .. n - 1 /\ (i - 1) + 1 = i /\ j - 1 \in 0 .. n - 1 /\ (j - 1) + 1 = j
    BY <1>3
  <2>3. /\ Share(u) = Cardinality(Hand(m, n, i - 1))
        /\ Share(v) = Cardinality(Hand(m, n, j - 1))
    BY <1>6, <2>1, <2>2
  <2>4. Cardinality(Hand(m, n, i - 1)) <= Cardinality(Hand(m, n, j - 1)) + 1
    BY <1>2, <1>3, <2>2, HandsApartByOne
  <2> QED
    BY <2>3, <2>4
<1> QED
  BY <1>5, <1>7 DEF Share, m

-----------------------------------------------------------------------------
(* Reports                                                                 *)

\* It takes a call to make a lead of an imported number.
Flagged ==
    \A c \in DOMAIN contact :
        contact[c].lead /\ contact[c].batch # 0 => CallsOn(c) # {}

Logged == call \in Seq([lead : Nat, by : Users, at : Nat, outcome : STRING])

\* A commit that logs no call makes no lead of an imported number.
SameFlags ==
    /\ UNCHANGED call
    /\ \A c \in DOMAIN contact' :
          \/ c \in DOMAIN contact /\ contact'[c].batch = contact[c].batch
             /\ (contact'[c].lead => contact[c].lead)
          \/ contact'[c].batch = 0 \/ ~contact'[c].lead

LEMMA FlagsKeep ==
    ASSUME Flagged, Logged, SameFlags
    PROVE  Flagged' /\ Logged'
BY DEF Flagged, Logged, SameFlags, CallsOn

\* One lead is written, its batch and its flag as they were.
LEMMA WrittenFlags ==
    ASSUME Tables, NEW c \in DOMAIN contact, NEW d \in Contact, contact' = Written(c, d),
           d.lead = contact[c].lead, d.batch = contact[c].batch, UNCHANGED call
    PROVE  SameFlags
<1>1. /\ DOMAIN contact' = DOMAIN contact /\ contact'[c] = d
      /\ \A e \in DOMAIN contact : e # c => contact'[e] = contact[e]
  BY WrittenLead
<1> QED
  BY <1>1 DEF SameFlags

LEMMA MoveFlags ==
    ASSUME Typed, NEW q \in Requests, request[q].stage = "read",
           request[q].ask.kind \in {"stage", "show", "visit"}, UNCHANGED call,
           NEW stage \in Stages, NEW when \in Nat, NEW by \in {"clock", "hand"},
           MovesStage(q, stage, when, by)
    PROVE  SameFlags
<1>1. request[q].ask.lead \in DOMAIN contact
  BY AskedWell DEF Holds, Apart
<1> PICK c \in DOMAIN contact : c = request[q].ask.lead
  BY <1>1
<1>2. CASE stage = request[q].found
  BY <1>2 DEF MovesStage, SameFlags
<1>3. CASE stage # request[q].found
  <2> DEFINE d == Tells(InStage(contact[c], stage), stage, when, by)
  <2>1. /\ contact' = Written(c, d) /\ d \in Contact
        /\ d.lead = contact[c].lead /\ d.batch = contact[c].batch
    BY <1>3, MovedLead
  <2> HIDE DEF d
  <2> QED
    BY <2>1, WrittenFlags DEF Typed
<1> QED
  BY <1>2, <1>3

LEMMA StageFlags ==
    ASSUME Typed, NEW q \in Requests, SetStage(q) \/ Show(q) \/ CreateActivity(q)
    PROVE  SameFlags
<1>1. CASE SetStage(q) \/ Show(q)
  BY <1>1, StageIsMoved, MoveFlags
<1>2. CASE CreateActivity(q)
  <2>1. PICK when \in Nat :
          \/ /\ request[q].ask.kind = "visit" /\ By(q) \in {"clock", "hand"}
             /\ \/ MovesStage(q, "visited", when, By(q))
                \/ UNCHANGED <<contact, crossed, late>>
          \/ /\ request[q].ask.kind = "said" /\ request[q].ask.arg \in Stages
             /\ Noted(q, when)
    BY <1>2, ActivityIs
  <2>2. /\ request[q].stage = "read" /\ request[q].ask.lead \in DOMAIN contact
        /\ UNCHANGED call
    BY <1>2, ActivityIs DEF CreateActivity
  <2>3. CASE /\ request[q].ask.kind = "visit" /\ By(q) \in {"clock", "hand"}
             /\ MovesStage(q, "visited", when, By(q))
    <3>1. "visited" \in Stages
      BY DEF Stages
    <3> QED
      BY <2>2, <2>3, <3>1, MoveFlags
  <2>4. CASE UNCHANGED <<contact, crossed, late>>
    BY <2>2, <2>4 DEF SameFlags
  <2>5. CASE request[q].ask.arg \in Stages /\ Noted(q, when)
    <3> PICK c \in DOMAIN contact : c = request[q].ask.lead
      BY <2>2
    <3> PICK stage \in Stages : stage = request[q].ask.arg
      BY <2>5
    <3> DEFINE d == Tells(contact[c], stage, when, "hand")
    <3>1. contact[c] \in Contact
      BY ContactFields DEF Typed
    <3>2. contact' = Written(c, d)
      BY <2>5 DEF Noted
    <3>3. d \in Contact /\ d.lead = contact[c].lead /\ d.batch = contact[c].batch
      BY <3>1, NotedLead
    <3> HIDE DEF d
    <3> QED
      BY <2>2, <3>2, <3>3, WrittenFlags DEF Typed
  <2> QED
    BY <2>1, <2>3, <2>4, <2>5
<1> QED
  BY <1>1, <1>2

LEMMA EditFlags ==
    ASSUME Typed, NEW q \in Requests, SetPhone(q) \/ Reassign(q) \/ Delete(q)
    PROVE  SameFlags
<1>1. /\ request[q].stage = "read"
      /\ request[q].ask.kind \in {"phone", "reassign", "owner", "delete"}
      /\ UNCHANGED call
  BY DEF SetPhone, Reassign, Delete, Asked
<1>2. request[q].ask.lead \in DOMAIN contact
  BY <1>1, AskedWell DEF Holds, Apart
<1> PICK c \in DOMAIN contact : c = request[q].ask.lead
  BY <1>2
<1>3. /\ contact[c] \in Contact
      /\ \A e \in DOMAIN contact : contact[e] \in Contact
  BY ContactFields DEF Typed
<1>4. \/ contact' = [contact EXCEPT ![c].phone = request[q].ask.phones[1],
                                    ![c].since = clock, ![c].forced = TRUE]
      \/ contact' = [contact EXCEPT ![c].owner = request[q].ask.to[1]]
      \/ contact' = [contact EXCEPT ![c].live = FALSE]
  BY DEF SetPhone, Reassign, Delete
<1>5. /\ DOMAIN contact' = DOMAIN contact
      /\ \A e \in DOMAIN contact : /\ contact'[e].batch = contact[e].batch
                                   /\ contact'[e].lead = contact[e].lead
  BY <1>3, <1>4 DEF Contact
<1> QED
  BY <1>1, <1>5 DEF SameFlags

LEMMA HandoverFlags ==
    ASSUME Typed, NEW q \in Requests, Handover(q)
    PROVE  SameFlags
<1>1. /\ contact' = [c \in DOMAIN contact |->
            IF c \in request[q].found
            THEN [contact[c] EXCEPT !.owner = request[q].ask.to[2]] ELSE contact[c]]
      /\ UNCHANGED call
  BY DEF Handover
<1>2. \A c \in DOMAIN contact : contact[c] \in Contact
  BY ContactFields DEF Typed
<1>3. /\ DOMAIN contact' = DOMAIN contact
      /\ \A c \in DOMAIN contact : /\ contact'[c].batch = contact[c].batch
                                   /\ contact'[c].lead = contact[c].lead
  BY <1>1, <1>2 DEF Contact
<1> QED
  BY <1>1, <1>3 DEF SameFlags

LEMMA EntryFlags ==
    ASSUME Typed, NEW q \in Requests, Create(q) \/ Import(q)
    PROVE  SameFlags
<1>1. UNCHANGED call
  BY DEF Create, Import
<1>2. contact \in Seq(Contact) /\ Len(contact) \in Nat /\ DOMAIN contact = 1 .. Len(contact)
  BY DEF Typed, Tables
<1>3. CASE Create(q)
  <2> DEFINE new == NewContact(q, request[q].ask.to[1], request[q].ask.phones[1], 0)
  <2>1. request[q].stage = "read" /\ request[q].ask.kind = "create"
    BY <1>3 DEF Create, Asked
  <2>2. request[q].ask.to[1] \in Users /\ request[q].ask.phones[1] \in Phones
    BY <2>1, AskedWell, AsksAssumption, FirstOf
  <2>3. new \in Contact
    BY <2>1, <2>2, NewLead
  <2>4. new.batch = 0
    BY DEF NewContact
  <2>5. contact' = Append(contact, new)
    BY <1>3 DEF Create
  <2> HIDE DEF new
  <2>6. /\ DOMAIN contact' = 1 .. Len(contact) + 1 /\ contact'[Len(contact) + 1] = new
        /\ \A c \in DOMAIN contact : contact'[c] = contact[c]
    BY <1>2, <2>3, <2>5, AppendProperties
  <2>7. \A c \in DOMAIN contact' : c \in DOMAIN contact \/ c = Len(contact) + 1
    BY <1>2, <2>6
  <2> QED
    BY <1>1, <2>4, <2>6, <2>7 DEF SameFlags
<1>4. CASE Import(q)
  <2> DEFINE m == Cardinality(request[q].found)
             b == Len(contact)
  <2>1. /\ m \in Nat /\ Len(contact') = b + m
        /\ \A c \in DOMAIN contact : contact'[c] = contact[c]
        /\ \A j \in 1 .. m : ~contact'[b + j].lead
    BY <1>4, ImportAppends
  <2>2. DOMAIN contact' = 1 .. b + m
    BY <1>4, <2>1, ImportAppends
  <2> HIDE DEF m, b
  <2>3. ASSUME NEW c \in DOMAIN contact'
        PROVE  (c \in DOMAIN contact /\ contact'[c] = contact[c]) \/ ~contact'[c].lead
    <3>1. CASE c \in DOMAIN contact
      BY <2>1, <3>1
    <3>2. CASE c \notin DOMAIN contact
      <4>1. c - b \in 1 .. m /\ c = b + (c - b)
        BY <1>2, <2>1, <2>2, <3>2 DEF b
      <4> QED
        BY <2>1, <4>1
    <3> QED
      BY <3>1, <3>2
  <2> QED
    BY <1>1, <2>3 DEF SameFlags
<1> QED
  BY <1>3, <1>4

LEMMA CallFlags ==
    ASSUME Typed, Flagged, Logged, NEW q \in Requests, Call(q)
    PROVE  Flagged' /\ Logged'
<1>1. request[q].stage = "read" /\ request[q].ask.kind = "call"
  BY DEF Call, Asked
<1>2. /\ request[q].ask.lead \in DOMAIN contact /\ request[q].ask.by \in Users
      /\ request[q].ask.arg \in STRING /\ request[q].at \in Nat
  BY <1>1, AskedWell DEF Holds, Apart, Ask
<1> PICK c \in DOMAIN contact : c = request[q].ask.lead
  BY <1>2
<1> PICK when \in BeganIn(q) :
         call' = Append(call, [lead |-> c, by |-> request[q].ask.by, at |-> when,
                               outcome |-> request[q].ask.arg])
  BY DEF Call
<1> DEFINE new == [lead |-> c, by |-> request[q].ask.by, at |-> when,
                   outcome |-> request[q].ask.arg]
<1>3. /\ DOMAIN contact' = DOMAIN contact
      /\ \A e \in DOMAIN contact : e # c => contact'[e] = contact[e]
  BY DEF Call
<1>4. call' = Append(call, new)
  OBVIOUS
<1>5. new \in [lead : Nat, by : Users, at : Nat, outcome : STRING] /\ new.lead = c
  BY <1>2 DEF Typed, Tables, BeganIn
<1> HIDE DEF new
<1>6. /\ Logged' /\ DOMAIN call' = 1 .. Len(call) + 1 /\ call'[Len(call) + 1] = new
      /\ Len(call) \in Nat /\ DOMAIN call = 1 .. Len(call)
      /\ \A j \in DOMAIN call : call'[j] = call[j]
  BY <1>4, <1>5, AppendProperties DEF Logged
<1>7. Len(call) + 1 \in CallsOn(c)'
  BY <1>5, <1>6 DEF CallsOn
<1>8. \A e : CallsOn(e) \subseteq CallsOn(e)'
  BY <1>6 DEF CallsOn
<1>9. Flagged'
  BY <1>3, <1>7, <1>8 DEF Flagged
<1> QED
  BY <1>6, <1>9

LEMMA FlagsStep == DeskInv /\ Flagged /\ Logged /\ [Next]_vars => Flagged' /\ Logged'
<1> SUFFICES ASSUME DeskInv, Flagged, Logged, [Next]_vars PROVE Flagged' /\ Logged'
  OBVIOUS
<1> USE DEF DeskInv
<1>1. ASSUME UNCHANGED <<contact, call>> PROVE Flagged' /\ Logged'
  BY <1>1 DEF Flagged, Logged, CallsOn
<1>2. CASE UNCHANGED vars
  BY <1>1, <1>2 DEF vars
<1>3. ASSUME NEW q \in Requests, NEW a \in Asks, Begin(q, a) PROVE Flagged' /\ Logged'
  BY <1>1, <1>3 DEF Begin
<1>4. ASSUME NEW q \in Requests, Commit(q) PROVE Flagged' /\ Logged'
  <2>1. CASE Create(q) \/ Import(q)
    BY <2>1, EntryFlags, FlagsKeep
  <2>2. CASE SetStage(q) \/ Show(q) \/ CreateActivity(q)
    BY <2>2, StageFlags, FlagsKeep
  <2>3. CASE Call(q)
    BY <2>3, CallFlags
  <2>4. CASE SetPhone(q) \/ Reassign(q) \/ Delete(q)
    BY <2>4, EditFlags, FlagsKeep
  <2>5. CASE Handover(q)
    BY <2>5, HandoverFlags, FlagsKeep
  <2>6. CASE Scan(q) \/ Assign(q) \/ SetActive(q) \/ SetTask(q) \/ OwnTask(q)
    <3>1. UNCHANGED <<contact, call>>
      BY <2>6 DEF Scan, Assign, SetActive, SetTask, OwnTask
    <3> QED
      BY <1>1, <3>1
  <2> QED
    BY <1>4, <2>1, <2>2, <2>3, <2>4, <2>5, <2>6 DEF Commit
<1> QED
  BY <1>2, <1>3, <1>4 DEF Next

LEMMA FlagsHold == Spec => [](Flagged /\ Logged)
<1>1. Init => Flagged /\ Logged
  <2> SUFFICES ASSUME Init PROVE Flagged /\ Logged
    OBVIOUS
  <2>1. contact = Book /\ call = <<>>
    BY DEF Init
  <2> QED
    BY <2>1, BookAssumption, EmptySeq DEF Flagged, Logged
<1> QED
  BY <1>1, FlagsStep, InvariantHolds, PTL DEF Spec

-----------------------------------------------------------------------------
(* The journey of a lead                                                   *)

\* A handler that has read the stage of its lead is right about it unless
\* the lead was moved since.
Recalls(r) ==
    r.stage = "read" /\ r.ask.kind \in {"stage", "show", "visit", "call"} =>
        LET lead == contact[r.ask.lead] IN
        /\ lead.moved # r.at
        /\ r.found = lead.stage \/ lead.moved > r.at

\* Events that are not dated by hand are no newer than the last move.
JourneyInv ==
    /\ \A c \in DOMAIN contact :
         /\ contact[c].moved < clock
         /\ contact[c].byhand \/ contact[c].toldAt <= contact[c].moved
    /\ TimelineTellsStage
    /\ \A q \in Requests : Recalls(request[q])

\* What may become of a lead on its way: nothing, a note or a move.
Rests(c) ==
    LET old == contact[c]  new == contact'[c] IN
    /\ new.stage = old.stage /\ new.told = old.told /\ new.toldAt = old.toldAt
    /\ new.byhand = old.byhand /\ new.moved = old.moved
    /\ c \in crossed => c \in crossed'

Annotated(c) ==
    /\ contact'[c].byhand
    /\ contact'[c].stage = contact[c].stage /\ contact'[c].moved = contact[c].moved

MovesOn(c) ==
    LET new == contact'[c] IN
    /\ new.moved = clock
    /\ new.byhand \/ new.toldAt <= clock
    /\ \/ new.told = new.stage
       \/ new.told = "new" /\ new.stage = "contacted"
       \/ new.byhand \/ c \in crossed'

WayStep == \A c \in DOMAIN contact : Rests(c) \/ Annotated(c) \/ MovesOn(c)

\* One lead is written, and the others rest.
LEMMA WrittenWay ==
    ASSUME Tables, NEW c \in DOMAIN contact, NEW d \in Contact, contact' = Written(c, d),
           \A e \in crossed : e # c => e \in crossed',
           Rests(c) \/ Annotated(c) \/ MovesOn(c)
    PROVE  WayStep
<1>1. \A e \in DOMAIN contact : e # c => contact'[e] = contact[e]
  BY WrittenLead
<1>2. \A e \in DOMAIN contact : e # c => Rests(e)
  BY <1>1 DEF Rests
<1> QED
  BY <1>2 DEF WayStep

LEMMA MoveWay ==
    ASSUME Typed, JourneyInv, NEW q \in Requests, request[q].stage = "read",
           request[q].ask.kind \in {"stage", "show", "visit"},
           NEW stage \in Stages, NEW when \in Nat, NEW by \in {"clock", "hand"},
           by = "hand" \/ when <= clock,
           MovesStage(q, stage, when, by)
    PROVE  WayStep
<1>1. request[q].ask.lead \in DOMAIN contact /\ clock \in Nat
  BY AskedWell DEF Holds, Apart
<1> PICK c \in DOMAIN contact : c = request[q].ask.lead
  BY <1>1
<1>2. CASE stage = request[q].found
  BY <1>2 DEF MovesStage, WayStep, Rests
<1>3. CASE stage # request[q].found
  <2> DEFINE d == Tells(InStage(contact[c], stage), stage, when, by)
  <2>1. /\ contact' = Written(c, d) /\ d \in Contact
        /\ d.stage = stage /\ d.moved = clock
        /\ when > contact[c].toldAt => d.told = stage /\ d.toldAt = when
        /\ when <= contact[c].toldAt => d.toldAt = contact[c].toldAt
        /\ by = "hand" => d.byhand
        /\ by # "hand" => d.byhand = contact[c].byhand
        /\ crossed' = IF Stale(q, c) \/ contact[c].moved >= when
                      THEN crossed \cup {c} ELSE crossed \ {c}
    BY <1>3, MovedLead
  <2>2. /\ contact[c].toldAt \in Nat /\ contact[c].moved \in Nat /\ contact[c].moved < clock
        /\ contact[c].byhand \/ contact[c].toldAt <= contact[c].moved
    BY ContactFields DEF JourneyInv, Typed
  <2> HIDE DEF d
  <2>3. contact'[c] = d
    BY <2>1, WrittenLead DEF Typed
  <2>4. ASSUME d.byhand PROVE MovesOn(c)
    BY <2>1, <2>3, <2>4 DEF MovesOn
  <2>5. ASSUME ~d.byhand PROVE MovesOn(c)
    <3>1. by # "hand" /\ ~contact[c].byhand
      BY <2>1, <2>5
    <3>2. d.toldAt <= clock
      BY <1>1, <2>1, <2>2, <3>1
    <3>3. CASE contact[c].moved >= when
      BY <2>1, <2>3, <3>2, <3>3 DEF MovesOn
    <3>4. CASE ~(contact[c].moved >= when)
      <4>1. when > contact[c].toldAt
        BY <2>2, <3>1, <3>4
      <4> QED
        BY <2>1, <2>3, <3>2, <4>1 DEF MovesOn
    <3> QED
      BY <3>3, <3>4
  <2>6. MovesOn(c)
    BY <2>4, <2>5
  <2> QED
    BY <2>1, <2>6, WrittenWay DEF Typed
<1> QED
  BY <1>2, <1>3

LEMMA StageWay ==
    ASSUME Typed, JourneyInv, NEW q \in Requests, SetStage(q) \/ Show(q) \/ CreateActivity(q)
    PROVE  WayStep
<1>1. CASE SetStage(q) \/ Show(q)
  BY <1>1, StageIsMoved, MoveWay
<1>2. CASE CreateActivity(q)
  <2>1. PICK when \in Nat :
          \/ /\ request[q].ask.kind = "visit" /\ By(q) \in {"clock", "hand"}
             /\ By(q) = "hand" \/ (request[q].at <= when /\ when <= clock)
             /\ \/ MovesStage(q, "visited", when, By(q))
                \/ UNCHANGED <<contact, crossed, late>>
          \/ /\ request[q].ask.kind = "said" /\ request[q].ask.arg \in Stages
             /\ Noted(q, when) /\ UNCHANGED <<crossed, late>>
    BY <1>2, ActivityIs
  <2>2. request[q].stage = "read" /\ request[q].ask.lead \in DOMAIN contact
    BY <1>2, ActivityIs
  <2>3. CASE /\ request[q].ask.kind = "visit" /\ By(q) \in {"clock", "hand"}
             /\ By(q) = "hand" \/ (request[q].at <= when /\ when <= clock)
             /\ MovesStage(q, "visited", when, By(q))
    <3>1. "visited" \in Stages
      BY DEF Stages
    <3> QED
      BY <2>2, <2>3, <3>1, MoveWay
  <2>4. CASE UNCHANGED <<contact, crossed, late>>
    BY <2>4 DEF WayStep, Rests
  <2>5. CASE /\ request[q].ask.arg \in Stages
             /\ Noted(q, when) /\ UNCHANGED <<crossed, late>>
    <3> PICK c \in DOMAIN contact : c = request[q].ask.lead
      BY <2>2
    <3> PICK stage \in Stages : stage = request[q].ask.arg
      BY <2>5
    <3> DEFINE d == Tells(contact[c], stage, when, "hand")
    <3>1. contact[c] \in Contact
      BY ContactFields DEF Typed
    <3>2. contact' = Written(c, d)
      BY <2>5 DEF Noted
    <3>3. d \in Contact /\ d.byhand /\ d.stage = contact[c].stage /\ d.moved = contact[c].moved
      BY <3>1, NotedLead
    <3> HIDE DEF d
    <3>4. contact'[c] = d
      BY <3>2, <3>3, WrittenLead DEF Typed
    <3>5. Annotated(c)
      BY <3>3, <3>4 DEF Annotated
    <3> QED
      BY <2>5, <3>2, <3>3, <3>5, WrittenWay DEF Typed
  <2> QED
    BY <2>1, <2>3, <2>4, <2>5
<1> QED
  BY <1>1, <1>2

LEMMA CallWay ==
    ASSUME Typed, JourneyInv, NEW q \in Requests, Call(q)
    PROVE  WayStep
<1> DEFINE c == request[q].ask.lead
           d == Called(q, contact[c])
<1>1. /\ request[q].stage = "read" /\ request[q].ask.kind = "call"
      /\ c \in DOMAIN contact /\ contact' = Written(c, d) /\ d \in Contact
      /\ d.told = contact[c].told /\ d.toldAt = contact[c].toldAt
      /\ d.byhand = contact[c].byhand
      /\ request[q].found = "new" => d.stage = "contacted" /\ d.moved = clock
      /\ request[q].found # "new" => d.stage = contact[c].stage /\ d.moved = contact[c].moved
  BY CalledLead
<1>2. crossed' = IF request[q].found = "new" /\ Stale(q, c) THEN crossed \cup {c} ELSE crossed
  BY DEF Call
<1>3. /\ contact[c].toldAt \in Nat /\ contact[c].moved \in Nat /\ contact[c].moved < clock
      /\ contact[c].byhand \/ contact[c].toldAt <= contact[c].moved
      /\ request[q].found = contact[c].stage \/ contact[c].moved > request[q].at
      /\ \/ contact[c].told = contact[c].stage
         \/ contact[c].told = "new" /\ contact[c].stage = "contacted"
         \/ contact[c].byhand \/ c \in crossed
      /\ clock \in Nat
  BY <1>1, ContactFields DEF JourneyInv, TimelineTellsStage, Recalls, Typed, Tables
<1> HIDE DEF c, d
<1>4. contact'[c] = d
  BY <1>1, WrittenLead DEF Typed
<1>5. ASSUME request[q].found # "new" PROVE Rests(c)
  BY <1>1, <1>2, <1>4, <1>5 DEF Rests
<1>6. ASSUME request[q].found = "new" PROVE MovesOn(c)
  <2>1. d.byhand \/ d.toldAt <= clock
    BY <1>1, <1>3
  <2>2. \/ d.told = "new"
        \/ d.byhand \/ c \in crossed'
    BY <1>1, <1>2, <1>3, <1>6 DEF Stale
  <2> QED
    BY <1>1, <1>4, <1>6, <2>1, <2>2 DEF MovesOn
<1> QED
  BY <1>1, <1>2, <1>5, <1>6, WrittenWay DEF Typed

\* New leads are added, and those that are there rest.
LEMMA EntryWay ==
    ASSUME Typed, NEW q \in Requests, Create(q) \/ Import(q)
    PROVE  WayStep
<1>1. UNCHANGED crossed
  BY DEF Create, Import
<1>2. CASE Create(q)
  <2> DEFINE new == NewContact(q, request[q].ask.to[1], request[q].ask.phones[1], 0)
  <2>1. request[q].stage = "read" /\ request[q].ask.kind = "create"
    BY <1>2 DEF Create, Asked
  <2>2. request[q].ask.to[1] \in Users /\ request[q].ask.phones[1] \in Phones
    BY <2>1, AskedWell, AsksAssumption, FirstOf
  <2>3. new \in Contact
    BY <2>1, <2>2, NewLead
  <2>4. contact' = Append(contact, new)
    BY <1>2 DEF Create
  <2> HIDE DEF new
  <2>5. \A c \in DOMAIN contact : contact'[c] = contact[c]
    BY <2>3, <2>4, AppendProperties DEF Typed, Tables
  <2> QED
    BY <1>1, <2>5 DEF WayStep, Rests
<1>3. CASE Import(q)
  <2>1. \A c \in DOMAIN contact : contact'[c] = contact[c]
    BY <1>3, ImportAppends
  <2> QED
    BY <1>1, <2>1 DEF WayStep, Rests
<1> QED
  BY <1>2, <1>3

LEMMA EditWay ==
    ASSUME Typed, NEW q \in Requests, SetPhone(q) \/ Reassign(q) \/ Delete(q)
    PROVE  WayStep
<1>1. /\ request[q].stage = "read"
      /\ request[q].ask.kind \in {"phone", "reassign", "owner", "delete"}
      /\ UNCHANGED crossed
  BY DEF SetPhone, Reassign, Delete, Asked
<1>2. request[q].ask.lead \in DOMAIN contact
  BY <1>1, AskedWell DEF Holds, Apart
<1> PICK c \in DOMAIN contact : c = request[q].ask.lead
  BY <1>2
<1>3. \A e \in DOMAIN contact : contact[e] \in Contact
  BY ContactFields DEF Typed
<1>4. \/ contact' = [contact EXCEPT ![c].phone = request[q].ask.phones[1],
                                    ![c].since = clock, ![c].forced = TRUE]
      \/ contact' = [contact EXCEPT ![c].owner = request[q].ask.to[1]]
      \/ contact' = [contact EXCEPT ![c].live = FALSE]
  BY DEF SetPhone, Reassign, Delete
<1>5. \A e \in DOMAIN contact :
        /\ contact'[e].stage = contact[e].stage /\ contact'[e].told = contact[e].told
        /\ contact'[e].toldAt = contact[e].toldAt /\ contact'[e].byhand = contact[e].byhand
        /\ contact'[e].moved = contact[e].moved
  BY <1>3, <1>4 DEF Contact
<1> QED
  BY <1>1, <1>5 DEF WayStep, Rests

LEMMA HandoverWay ==
    ASSUME Typed, NEW q \in Requests, Handover(q)
    PROVE  WayStep
<1>1. /\ contact' = [c \in DOMAIN contact |->
            IF c \in request[q].found
            THEN [contact[c] EXCEPT !.owner = request[q].ask.to[2]] ELSE contact[c]]
      /\ UNCHANGED crossed
  BY DEF Handover
<1>2. \A c \in DOMAIN contact : contact[c] \in Contact
  BY ContactFields DEF Typed
<1>3. \A c \in DOMAIN contact :
        /\ contact'[c].stage = contact[c].stage /\ contact'[c].told = contact[c].told
        /\ contact'[c].toldAt = contact[c].toldAt /\ contact'[c].byhand = contact[c].byhand
        /\ contact'[c].moved = contact[c].moved
  BY <1>1, <1>2 DEF Contact
<1> QED
  BY <1>1, <1>3 DEF WayStep, Rests

LEMMA CommitWay ==
    ASSUME DeskInv, JourneyInv, NEW q \in Requests, Commit(q)
    PROVE  WayStep
<1> USE DEF DeskInv
<1>1. CASE Create(q) \/ Import(q)
  BY <1>1, EntryWay
<1>2. CASE SetStage(q) \/ Show(q) \/ CreateActivity(q)
  BY <1>2, StageWay
<1>3. CASE Call(q)
  BY <1>3, CallWay
<1>4. CASE SetPhone(q) \/ Reassign(q) \/ Delete(q)
  BY <1>4, EditWay
<1>5. CASE Handover(q)
  BY <1>5, HandoverWay
<1>6. CASE Scan(q) \/ Assign(q) \/ SetActive(q) \/ SetTask(q) \/ OwnTask(q)
  <2>1. UNCHANGED <<contact, crossed>>
    BY <1>6 DEF Scan, Assign, SetActive, SetTask, OwnTask
  <2> QED
    BY <2>1 DEF WayStep, Rests
<1> QED
  BY <1>1, <1>2, <1>3, <1>4, <1>5, <1>6 DEF Commit

\* After such a commit every other handler is right, or has been overtaken.
LEMMA WayKeeps ==
    ASSUME DeskInv, JourneyInv, LeadStep, WayStep, NEW q \in Requests, Ends(q)
    PROVE  JourneyInv'
<1>1. /\ clock' = clock + 1 /\ clock \in Nat /\ request'[q].stage = "idle"
      /\ \A p \in Requests : p # q => request'[p] = request[p]
  BY EndsRequest DEF DeskInv
<1>2. ASSUME NEW c \in DOMAIN contact'
      PROVE  /\ contact'[c].moved < clock'
             /\ contact'[c].byhand \/ contact'[c].toldAt <= contact'[c].moved
             /\ \/ contact'[c].told = contact'[c].stage
                \/ contact'[c].told = "new" /\ contact'[c].stage = "contacted"
                \/ contact'[c].byhand \/ c \in crossed'
  <2>1. CASE c \notin DOMAIN contact
    BY <1>1, <2>1 DEF LeadStep, Entered
  <2>2. CASE c \in DOMAIN contact
    <3>1. /\ contact[c].moved \in Nat /\ contact[c].moved < clock
          /\ contact[c].byhand \/ contact[c].toldAt <= contact[c].moved
          /\ \/ contact[c].told = contact[c].stage
             \/ contact[c].told = "new" /\ contact[c].stage = "contacted"
             \/ contact[c].byhand \/ c \in crossed
      BY <2>2, ContactFields DEF DeskInv, Typed, JourneyInv, TimelineTellsStage
    <3>2. CASE Rests(c)
      BY <1>1, <3>1, <3>2 DEF Rests
    <3>3. CASE Annotated(c)
      BY <1>1, <3>1, <3>3 DEF Annotated
    <3>4. CASE MovesOn(c)
      BY <1>1, <3>4 DEF MovesOn
    <3> QED
      BY <2>2, <3>2, <3>3, <3>4 DEF WayStep
  <2> QED
    BY <2>1, <2>2
<1>3. ASSUME NEW p \in Requests PROVE Recalls(request[p])'
  <2> SUFFICES ASSUME p # q, request'[p] = request[p], request[p].stage = "read",
                      request[p].ask.kind \in {"stage", "show", "visit", "call"}
               PROVE  Recalls(request[p])'
    BY <1>1 DEF Recalls
  <2>1. /\ request[p].at \in Nat /\ request[p].at < clock
        /\ request[p].ask.lead \in DOMAIN contact
    BY AskedWell DEF DeskInv, Holds, Apart
  <2> PICK c \in DOMAIN contact : c = request[p].ask.lead
    BY <2>1
  <2>2. /\ contact[c].moved # request[p].at
        /\ request[p].found = contact[c].stage \/ contact[c].moved > request[p].at
    BY DEF JourneyInv, Recalls
  <2>3. CASE Rests(c)
    BY <2>2, <2>3 DEF Rests, Recalls
  <2>4. CASE Annotated(c)
    BY <2>2, <2>4 DEF Annotated, Recalls
  <2>5. CASE MovesOn(c)
    BY <1>1, <2>1, <2>5 DEF MovesOn, Recalls
  <2> QED
    BY <2>3, <2>4, <2>5 DEF WayStep
<1> QED
  BY <1>2, <1>3 DEF JourneyInv, TimelineTellsStage

LEMMA BeginWay ==
    ASSUME DeskInv, JourneyInv, NEW q \in Requests, NEW a \in Asks, Begin(q, a)
    PROVE  JourneyInv'
<1> DEFINE r == [stage |-> "read", at |-> clock, ask |-> a, found |-> Found(a), orphans |-> {}]
<1>1. /\ Accepts(a) /\ request' = [request EXCEPT ![q] = r] /\ clock' = clock + 1
      /\ UNCHANGED <<contact, crossed>>
  BY DEF Begin
<1>2. /\ r.at = clock /\ r.ask = a /\ r.found = Found(a)
      /\ clock \in Nat /\ request \in [Requests -> Request]
  BY DEF DeskInv, Typed, Tables
<1> HIDE DEF r
<1>3. /\ request'[q] = r
      /\ \A p \in Requests : p # q => request'[p] = request[p]
  BY <1>1, <1>2
<1>4. \A c \in DOMAIN contact : contact[c].moved \in Nat /\ contact[c].moved < clock
  BY ContactFields DEF DeskInv, Typed, JourneyInv
<1>5. Recalls(request[q])'
  <2> SUFFICES ASSUME a.kind \in {"stage", "show", "visit", "call"}
               PROVE  /\ contact[a.lead].moved # clock
                      /\ Found(a) = contact[a.lead].stage
    BY <1>1, <1>2, <1>3 DEF Recalls
  <2>1. a.lead \in DOMAIN contact
    BY <1>1, ReadsWell DEF Apart
  <2>2. Found(a) = contact[a.lead].stage
    BY DEF Found
  <2> QED
    BY <1>2, <1>4, <2>1, <2>2
<1>6. ASSUME NEW p \in Requests, p # q PROVE Recalls(request[p])'
  BY <1>1, <1>3, <1>6 DEF JourneyInv, Recalls
<1>7. \A c \in DOMAIN contact' : contact'[c].moved < clock'
  BY <1>1, <1>2, <1>4
<1> QED
  BY <1>1, <1>5, <1>6, <1>7 DEF JourneyInv, TimelineTellsStage

LEMMA ScanWay ==
    ASSUME DeskInv, JourneyInv, NEW q \in Requests, Scan(q)
    PROVE  JourneyInv'
<1>1. /\ UNCHANGED <<contact, crossed, clock>>
      /\ \A p \in Requests : p # q => request'[p] = request[p]
      /\ request'[q].stage = "scanned"
  BY DEF Scan, DeskInv, Typed, Request
<1>2. ASSUME NEW p \in Requests PROVE Recalls(request[p])'
  BY <1>1 DEF JourneyInv, Recalls
<1> QED
  BY <1>1, <1>2 DEF JourneyInv, TimelineTellsStage

LEMMA StepWay == DeskInv /\ JourneyInv /\ [Next]_vars => JourneyInv'
<1> SUFFICES ASSUME DeskInv, JourneyInv, [Next]_vars PROVE JourneyInv'
  OBVIOUS
<1>1. ASSUME NEW q \in Requests, NEW a \in Asks, Begin(q, a) PROVE JourneyInv'
  BY <1>1, BeginWay
<1>2. ASSUME NEW q \in Requests, Scan(q) PROVE JourneyInv'
  BY <1>2, ScanWay
<1>3. ASSUME NEW q \in Requests, Commit(q), ~Scan(q) PROVE JourneyInv'
  BY <1>3, CommitSteps, CommitWay, WayKeeps
<1>4. CASE UNCHANGED vars
  <2>1. UNCHANGED <<contact, crossed, clock, request>>
    BY <1>4 DEF vars
  <2> QED
    BY <2>1 DEF JourneyInv, TimelineTellsStage, Recalls
<1> QED
  BY <1>1, <1>2, <1>3, <1>4 DEF Next

LEMMA JourneyKept == Spec => []JourneyInv
<1>1. Init => JourneyInv
  <2> SUFFICES ASSUME Init PROVE JourneyInv
    OBVIOUS
  <2>1. contact = Book /\ clock = 1 /\ request = [q \in Requests |-> NoRequest]
    BY DEF Init
  <2>2. \A q \in Requests : request[q].stage = "idle"
    BY <2>1, NothingRequested
  <2> QED
    BY <2>1, <2>2, BookAssumption DEF JourneyInv, TimelineTellsStage, Recalls
<1> QED
  BY <1>1, StepWay, InvariantHolds, PTL DEF Spec

\* The step of NobodyGoesBack.
GoesNotBack ==
    \A q \in Requests : \A c \in DOMAIN contact :
        /\ request[q].stage = "read" /\ request[q].ask.kind \in {"call", "visit"}
        /\ request'[q].stage = "idle"
        /\ contact'[c].stage # contact[c].stage
        /\ contact[c].stage \notin Early(request[q].ask.kind)
        => contact[c].moved > request[q].at

LEMMA ReadInTime ==
    ASSUME DeskInv, JourneyInv, Next
    PROVE  GoesNotBack
<1> SUFFICES ASSUME NEW q \in Requests, NEW c \in DOMAIN contact,
                    request[q].stage = "read", request[q].ask.kind \in {"call", "visit"},
                    request'[q].stage = "idle",
                    contact'[c].stage # contact[c].stage,
                    contact[c].stage \notin Early(request[q].ask.kind)
             PROVE  contact[c].moved > request[q].at
  BY DEF GoesNotBack
<1>1. Call(q) \/ CreateActivity(q)
  <2>1. PICK p \in Requests : (\E a \in Asks : Begin(p, a)) \/ Commit(p)
    BY DEF Next
  <2>2. \A o \in Requests : o # p => request'[o] = request[o]
    BY <2>1 DEF Begin, Commit, Ends, Create, Import, SetStage, Show, CreateActivity, Call,
                SetPhone, Reassign, Delete, Scan, Assign, Handover, SetActive, SetTask,
                OwnTask, DeskInv, Typed
  <2>3. p = q
    BY <2>2
  <2> QED
    BY <2>1, <2>3 DEF Begin, Commit, Asked, Create, Import, SetStage, Show, SetPhone,
                Reassign, Delete, Scan, Assign, Handover, SetActive, SetTask, OwnTask
<1>2. request[q].found = contact[request[q].ask.lead].stage
      \/ contact[request[q].ask.lead].moved > request[q].at
  BY DEF JourneyInv, Recalls
<1>3. CASE Call(q)
  <2>1. /\ request[q].ask.kind = "call" /\ request[q].ask.lead \in DOMAIN contact
        /\ contact' = Written(request[q].ask.lead, Called(q, contact[request[q].ask.lead]))
        /\ request[q].found # "new" => Called(q, contact[request[q].ask.lead]).stage
                                       = contact[request[q].ask.lead].stage
    BY <1>3, CalledLead DEF DeskInv
  <2>2. c = request[q].ask.lead
    BY <2>1 DEF Written
  <2>3. contact'[c] = Called(q, contact[c])
    BY <2>1, <2>2 DEF Written
  <2>4. request[q].found = "new"
    BY <2>1, <2>2, <2>3
  <2> QED
    BY <1>2, <2>1, <2>2, <2>4 DEF Early
<1>4. CASE CreateActivity(q)
  <2>1. /\ request[q].ask.kind = "visit" /\ request[q].found \in BeforeVisit
        /\ c = request[q].ask.lead
    <3>1. PICK when \in Nat :
          \/ /\ request[q].ask.kind = "visit" /\ By(q) \in {"clock", "hand"}
             /\ \/ /\ request[q].found \in BeforeVisit
                   /\ MovesStage(q, "visited", when, By(q))
                \/ UNCHANGED <<contact, crossed, late>>
          \/ request[q].ask.kind = "said"
      BY <1>4, ActivityIs DEF DeskInv
    <3>2. /\ request[q].ask.kind = "visit" /\ request[q].found \in BeforeVisit
          /\ MovesStage(q, "visited", when, By(q))
      BY <3>1
    <3> QED
      BY <3>2 DEF MovesStage
  <2> QED
    BY <1>2, <2>1 DEF Early, BeforeVisit
<1> QED
  BY <1>1, <1>3, <1>4

-----------------------------------------------------------------------------
(* The theorems                                                            *)

(* The tables stay well formed: references lead somewhere, no pair is      *)
(* assigned twice.                                                         *)
THEOREM TypeCorrect == Spec => []TypeOK
<1>1. DeskInv => TypeOK
  BY DEF DeskInv, Typed, Tables, Assignments, TypeOK, Request
<1> QED
  BY <1>1, InvariantHolds, PTL

(* However creates, imports and edits of any staff overlap, a number that  *)
(* was there when a handler began is not entered again by it unawares: the *)
(* screening of create_contact and bulk_import_contacts.                   *)
THEOREM NumbersEnteredOnce == Spec => []NoSilentDuplicate
<1>1. DeskInv => NoSilentDuplicate
  BY DEF DeskInv
<1> QED
  BY <1>1, InvariantHolds, PTL

(* Whatever desired sets overlap, set_assignees leaves no open task behind *)
(* whose assignment is gone.                                               *)
THEOREM WorkFollows == Spec => []WorkFollowsAssignment
<1>1. DeskInv => WorkFollowsAssignment
  BY DEF DeskInv
<1> QED
  BY <1>1, InvariantHolds, PTL

(* A book that reassign_leads has emptied after its owner left stays empty *)
(* but for the leads given or reopened later.                              *)
THEOREM LeaversAreRelieved == Spec => []LeaversHoldNothing
<1>1. DeskInv => LeaversHoldNothing
  BY DEF DeskInv
<1> QED
  BY <1>1, InvariantHolds, PTL

(* What a lead's page shows holds together, however handlers overlap: the  *)
(* newest event of the timeline is the lead's stage, but for what people   *)
(* date or write by hand, what two handlers do at once and a first call,   *)
(* and calls and visits (log_call, create_activity) take nobody back whose *)
(* stage they have read in time.                                           *)
THEOREM JourneyIsTrue == Spec => JourneyHolds
<1>1. JourneyInv => TimelineTellsStage
  BY DEF JourneyInv
<1>2. DeskInv /\ JourneyInv /\ [Next]_vars => [GoesNotBack]_vars
  BY ReadInTime DEF vars
<1> QED
  BY <1>1, <1>2, InvariantHolds, JourneyKept, PTL
     DEF JourneyHolds, NobodyGoesBack, GoesNotBack, Spec

(* What is computed from the book agrees with it: in list_batches no lead  *)
(* and no reached number of a batch is missing among the called ones, a    *)
(* number whose last call found it dead comes back in call_queue to nobody *)
(* but those assigned to it, and bulk_import_contacts deals all it enters, *)
(* evenly, to those named.                                                 *)
THEOREM ListsTellTheBook == Spec => ListsAgree
<1>1. Flagged => RatesAreRates
  <2> SUFFICES ASSUME Flagged, NEW b \in Batches
               PROVE  LeadsOf(b) \cup ReachedOf(b) \subseteq CalledOf(b)
    BY DEF RatesAreRates
  <2>1. LeadsOf(b) \subseteq CalledOf(b)
    BY DEF Flagged, Batches, LeadsOf, CalledOf, RowsOf
  <2>2. ReachedOf(b) \subseteq CalledOf(b)
    BY DEF ReachedOf, CalledOf
  <2> QED
    BY <2>1, <2>2
<1>2. DeadNumbersRest
  <2> SUFFICES ASSUME NEW u \in Users, NEW c \in CallQueue(u), NEW j \in CallsOn(c),
                      \A k \in CallsOn(c) : call[k].at <= call[j].at, call[j].outcome \in DeadOutcomes
               PROVE  /\ u \notin {contact[c].owner, call[j].by}
                      /\ \E x \in assignment : x.lead = c /\ x.user = u
    BY DEF DeadNumbersRest
  <2>1. Visible(u, c) /\ ~Dead(u, c)
    BY DEF CallQueue
  <2>2. j \notin VisibleCalls(u, c)
    BY <2>1 DEF Dead, VisibleCalls
  <2>3. RoleOf[u] # "owner" /\ call[j].by # u /\ contact[c].owner # u
    BY <2>2 DEF VisibleCalls
  <2> QED
    BY <2>1, <2>3 DEF Visible
<1>3. DeskInv /\ [Next]_vars =>
        [\A q \in Requests : Import(q) =>
           LET fresh == Len(contact) + 1 .. Len(contact')
               Share(u) == Cardinality({c \in fresh : contact'[c].owner = u})
               a == request[q].ask
               named == IF a.to = <<>> THEN {a.by} ELSE Listed(a.to) IN
           /\ Cardinality(fresh) = Cardinality(request[q].found)
           /\ \A u, v \in named : Share(u) <= Share(v) + 1]_vars
  BY SharesOfImport DEF DeskInv, Named
<1> QED
  BY <1>1, <1>2, <1>3, FlagsHold, InvariantHolds, PTL DEF ListsAgree, SharesAreEven, Spec

=============================================================================
