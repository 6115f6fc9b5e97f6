------------------------------ MODULE Inventory -----------------------------
(* The inventory: listings extracted from messages are scored against the    *)
(* rows there are and merged into the best match or inserted                 *)
(* (property_dedup.py, ingestion.record_listing), while people enter, edit,  *)
(* review and delete rows (routers/properties.py).  ExtractionQueue takes    *)
(* messages through their attempts; here is what their flats do to the rows. *)
EXTENDS Naturals, Sequences, FiniteSets

CONSTANTS
    Workers, Groups,
    Posts,       \* the messages: [group |-> ..., flats |-> a sequence of facts]
    Similar,     \* token_set_ratio of two names, in percent
    Contains,    \* pairs of localities: the name of the first has the second's
    Deeds,       \* what people may ask
    Ids,         \* bound: the rows, 1 .. some n
    MaxDeeds     \* bound

VARIABLES
    rows,        \* properties
    taken,       \* the ids that have been given out
    sighted,     \* property_sources
    count,       \* whatsapp_groups.listing_count
    todo,        \* messages that are not processed yet
    tx,          \* the workers' sessions
    desk,        \* the request of a person
    deeds,
    loose,       \* history: rows people changed, or that changed under a merge
    lapped       \* history: groups whose count was written over another's

vars == <<rows, taken, sighted, count, todo, tx, desk, deeds, loose, lapped>>

(* What f says, and elsewhere what g says.                                   *)
Over(f, g) ==
    [a \in DOMAIN f \cup DOMAIN g |-> IF a \in DOMAIN f THEN f[a] ELSE g[a]]

At(i, value) == [j \in {i} |-> value]

(* Facts and rows have these in common; 0 and "" say that nothing was said.  *)
Blank == [type |-> "", loc |-> "", building |-> "", bhk |-> 0, price |-> 0,
          area |-> 0, phone |-> ""]
NoRow == Over(Blank, [live |-> FALSE, review |-> "", key |-> <<>>])

Words == {pair[1] : pair \in DOMAIN Similar}

(* A name is like itself.                                                    *)
NamesAreReal ==
    /\ Similar \in [Words \X Words -> 0 .. 100]
    /\ \A name \in Words \ {""} : Similar[<<name, name>>] = 100

(* build_facts drops what has no type, or neither a locality nor a building, *)
(* which stands in for it.                                                   *)
Facts == [type : STRING \ {""}, loc : Words \ {""}, building : Words, bhk : Nat,
          price : Nat, area : Nat, phone : STRING]
PostsAreReal == Posts \in Seq([group : Groups, flats : Seq(Facts)])

(* REVIEW_STATES; extraction sets one of two, which make no difference here.  *)
ReviewStates == {"", "auto", "confirmed", "rejected"}

Row == [type : STRING \ {""}, loc : Words, building : Words, bhk : Nat, price : Nat,
        area : Nat, phone : STRING, live : BOOLEAN, review : ReviewStates,
        key : {<<>>} \cup ((STRING \ {""}) \X Nat \X Words)]

(* A row has a type, whatever is asked: the column is NOT NULL.              *)
DeedsAreReal ==
    \A d \in Deeds :
      /\ DOMAIN d.sets \subseteq DOMAIN NoRow \ {"key"}
      /\ Over(d.sets, [NoRow EXCEPT !.type = "any"]) \in Row
      /\ d.kind = "create" => "type" \in DOMAIN d.sets

AtRest == [open |-> FALSE, msg |-> 0, left |-> <<>>, base |-> <<>>, copy |-> <<>>,
           new |-> <<>>, seen |-> {}, read |-> <<>>, made |-> <<>>]
NoDeed == [id |-> 0, base |-> NoRow, sets |-> <<>>]

There == {i \in Ids : rows[i] # NoRow}

TypeOK ==
    /\ \A i \in Ids : DOMAIN rows[i] = DOMAIN NoRow
    /\ There \subseteq taken /\ taken \subseteq Ids
    /\ \A s \in sighted : s.row \in There /\ s.msg \in DOMAIN Posts \ todo
    /\ count \in [Groups -> Nat]
    /\ \A w \in Workers :
         /\ DOMAIN tx[w].base = DOMAIN tx[w].copy /\ DOMAIN tx[w].base \subseteq There
         /\ DOMAIN tx[w].new \subseteq taken \ There
         /\ ~tx[w].open => tx[w] = AtRest
    /\ desk.id \in There \cup {0} /\ deeds \in 0 .. MaxDeeds
    /\ loose \subseteq There /\ lapped \subseteq Groups

Init ==
    /\ rows = [i \in Ids |-> NoRow] /\ taken = {} /\ sighted = {}
    /\ count = [g \in Groups |-> 0] /\ todo = DOMAIN Posts
    /\ tx = [w \in Workers |-> AtRest]
    /\ desk = NoDeed /\ deeds = 0 /\ loose = {} /\ lapped = {}

-----------------------------------------------------------------------------
(* score_match                                                               *)

Least(a, b) == IF a < b THEN a ELSE b
Most(a, b) == IF a > b THEN a ELSE b

(* The values of an attribute that both of them have.                        *)
Both(f, r, a) == f[a] # Blank[a] /\ r[a] # Blank[a]

Closeness(a, b) == (100 * Least(a, b)) \div Most(a, b)
Drifts(f, r, a, percent) == Both(f, r, a) /\ Closeness(f[a], r[a]) < 100 - percent

Rejected(f, r) ==
    \/ f.type # r.type
    \/ Both(f, r, "bhk") /\ f.bhk # r.bhk
    \/ Drifts(f, r, "price", 20)
    \/ Drifts(f, r, "area", 15)

Weight == [building |-> 35, loc |-> 20, price |-> 20, area |-> 10, bhk |-> 15]
Sum(part) == part.building + part.loc + part.price + part.area + part.bhk

Signal(f, r, a) ==
    IF a \in {"building", "loc"} THEN Similar[<<f[a], r[a]>>] ELSE Closeness(f[a], r[a])

(* Evidence and what it is out of; the same broker lifts it by a tenth.      *)
Score(f, r) ==
    LET total == Sum([a \in DOMAIN Weight |-> IF Both(f, r, a) THEN Weight[a] ELSE 0])
        sum == Sum([a \in DOMAIN Weight |->
                      IF Both(f, r, a) THEN Weight[a] * Signal(f, r, a) ELSE 0])
        lift == IF Both(f, r, "phone") /\ f.phone = r.phone THEN 10 * total ELSE 0
    IN IF Rejected(f, r) THEN [got |-> 0, of |-> 1]
       ELSE [got |-> Least(100 * total, sum + lift), of |-> Most(1, total)]

Reaches(score, percent) == score.got >= percent * score.of
Beats(p, q) == p.got * q.of > q.got * p.of

Matches(f, r) == Reaches(Score(f, r), 82)

(* build_dedupe_key and locality_key.                                        *)
Key(f) == <<f.type, f.bhk, IF f.building # "" THEN f.building ELSE f.loc>>
Keys(f) == {Key(f), <<f.type, f.bhk, f.loc>>}

(* The where clause of find_duplicate.                                       *)
IsCandidate(f, r) ==
    r.live /\ r.type = f.type /\ (r.key \in Keys(f) \/ <<r.loc, f.loc>> \in Contains)

-----------------------------------------------------------------------------
(* The workers                                                               *)

(* What a session has of a row: its own copy, if it has filled a gap of it.  *)
Has(w, i) == CASE i \in DOMAIN tx[w].copy -> tx[w].copy[i]
               [] i \in DOMAIN tx[w].new -> tx[w].new[i]
               [] OTHER -> rows[i]

(* The statement sees what is committed, and what the session has inserted.  *)
Candidates(w, f) ==
    {i \in There : IsCandidate(f, rows[i])}
        \cup {i \in DOMAIN tx[w].new : IsCandidate(f, tx[w].new[i])}

Best(w, f) ==
    {i \in Candidates(w, f) :
       \A j \in Candidates(w, f) : ~Beats(Score(f, Has(w, j)), Score(f, Has(w, i)))}

Merged(w, f) == {i \in Best(w, f) : Matches(f, Has(w, i))}

Fillable == {"building", "bhk", "area", "phone"}

(* apply_listing_to_property                                                 *)
Filled(r, f) == [a \in DOMAIN r |-> IF a \in Fillable /\ r[a] = Blank[a] THEN f[a] ELSE r[a]]

(* _attach_source: a message is a row's source once.                         *)
Attached(w, i, f, relation) ==
    IF \E s \in sighted \cup tx[w].seen : s.row = i /\ s.msg = tx[w].msg THEN tx[w].seen
    ELSE tx[w].seen \cup {[row |-> i, msg |-> tx[w].msg, facts |-> f,
                           relation |-> relation]}

(* A batch begins: the groups are read before the model is asked.            *)
Begin(w) ==
    /\ ~tx[w].open /\ todo # {}
    /\ tx' = [tx EXCEPT ![w] = [AtRest EXCEPT !.open = TRUE, !.read = count, !.made = count]]
    /\ UNCHANGED <<rows, taken, sighted, count, todo, desk, deeds, loose, lapped>>

(* process_message                                                           *)
Take(w) ==
    /\ tx[w].open /\ tx[w].left = <<>>
    /\ \E m \in todo :
         /\ todo' = todo \ {m}
         /\ tx' = [tx EXCEPT ![w].msg = m, ![w].left = Posts[m].flats]
    /\ UNCHANGED <<rows, taken, sighted, count, desk, deeds, loose, lapped>>

(* record_listing: a repost fills the gaps of the best match.  The search    *)
(* and the row that db.get reads again by its id are two statements of the   *)
(* code's and one step here: a commit between them would have the row        *)
(* changed since it was scored, which "loose" says only of a row changed     *)
(* after this step.  The search looks at the newest CANDIDATE_LIMIT rows of  *)
(* a place only; that limit is left out.                                     *)
Merge(w) ==
    LET f == Head(tx[w].left) IN
    /\ tx[w].left # <<>>
    /\ \E i \in Merged(w, f) :
         LET filled == Filled(Has(w, i), f)
             at == [tx[w] EXCEPT !.left = Tail(@), !.seen = Attached(w, i, f, "duplicate")]
         IN tx' = [tx EXCEPT ![w] =
                     IF i \in DOMAIN at.new THEN [at EXCEPT !.new[i] = filled]
                     ELSE [at EXCEPT !.copy = Over(At(i, filled), @),
                                     !.base = Over(@, At(i, rows[i]))]]
    /\ UNCHANGED <<rows, taken, sighted, count, todo, desk, deeds, loose, lapped>>

(* A flat that matches nothing is new, and counts for its group.             *)
Insert(w) ==
    LET f == Head(tx[w].left) IN
    /\ tx[w].left # <<>> /\ Merged(w, f) = {}
    /\ \E i \in Ids \ taken :
         /\ \A j \in Ids \ taken : i <= j
         /\ taken' = taken \cup {i}
         /\ tx' = [tx EXCEPT
              ![w].left = Tail(@), ![w].seen = Attached(w, i, f, "origin"),
              ![w].made[Posts[tx[w].msg].group] = @ + 1,
              ![w].new = Over(@, At(i, Over(f, [live |-> TRUE, review |-> "auto",
                                                key |-> Key(f)])))]
    /\ UNCHANGED <<rows, sighted, count, todo, desk, deeds, loose, lapped>>

\* Mutant: the session writes all it has of a row.
WrittenWhole(base, copy, row) == copy

(* An update names the columns that differ from what was read.               *)
Written(base, copy, row) ==
    [a \in DOMAIN row |-> IF copy[a] # base[a] THEN copy[a] ELSE row[a]]

(* The batch is committed, with whatever others have written meanwhile.      *)
Commit(w) ==
    LET t == tx[w]
        counted == {g \in Groups : t.made[g] # t.read[g]}
    IN
    /\ t.open /\ t.left = <<>> /\ t.msg # 0
    /\ rows' = [i \in Ids |->
         CASE i \in DOMAIN t.new -> t.new[i]
           [] i \in DOMAIN t.copy -> Written(t.base[i], t.copy[i], rows[i])
           [] OTHER -> rows[i]]
    /\ sighted' = sighted \cup t.seen
    /\ count' = [g \in Groups |-> IF g \in counted THEN t.made[g] ELSE count[g]]
    /\ tx' = [tx EXCEPT ![w] = AtRest]
    /\ loose' = loose \cup {i \in DOMAIN t.copy : rows[i] # t.base[i]}
    /\ lapped' = lapped \cup {g \in counted : count[g] # t.read[g]}
    /\ UNCHANGED <<taken, todo, desk, deeds>>

-----------------------------------------------------------------------------
(* People                                                                    *)

(* create_property: no key, so that only its locality makes it a candidate.  *)
Create ==
    /\ deeds < MaxDeeds
    /\ \E d \in Deeds, i \in Ids \ taken :
         /\ d.kind = "create" /\ \A j \in Ids \ taken : i <= j
         /\ rows' = [rows EXCEPT ![i] = Over(d.sets, [NoRow EXCEPT !.live = TRUE])]
         /\ taken' = taken \cup {i}
    /\ deeds' = deeds + 1
    /\ UNCHANGED <<sighted, count, todo, tx, desk, loose, lapped>>

(* The other requests read a live row ...                                    *)
Reads(kind) ==
    /\ desk = NoDeed /\ deeds < MaxDeeds
    /\ \E d \in Deeds, i \in There :
         /\ d.kind = kind /\ rows[i].live
         /\ desk' = [id |-> i, base |-> rows[i], sets |-> d.sets]
    /\ deeds' = deeds + 1
    /\ UNCHANGED <<rows, taken, sighted, count, todo, tx, loose, lapped>>

(* update_property sets what the payload holds, review_property the verdict, *)
(* and deletes what it rejects, delete_property deleted_at ...               *)
Edit == Reads("edit")
Review == Reads("review")
Delete == Reads("delete")

(* ... and write what they change of it.                                     *)
Answer ==
    /\ desk # NoDeed
    /\ rows' = [rows EXCEPT ![desk.id] = Written(desk.base, Over(desk.sets, desk.base), @)]
    /\ desk' = NoDeed /\ loose' = loose \cup {desk.id}
    /\ UNCHANGED <<taken, sighted, count, todo, tx, deeds, lapped>>

Next ==
    \/ \E w \in Workers : Begin(w) \/ Take(w) \/ Merge(w) \/ Insert(w) \/ Commit(w)
    \/ Create \/ Edit \/ Review \/ Delete \/ Answer

Spec == Init /\ [][Next]_vars

-----------------------------------------------------------------------------
(* Properties                                                                *)

(* "Reposts of the same flat merge": a row that no person has changed, and   *)
(* that did not change under a merge, is matched by every posting it was     *)
(* seen in, whatever other postings have filled in since; posted again, the  *)
(* flat is merged, if no more than CANDIDATE_LIMIT rows compete for it.      *)
RepostsMerge ==
    \A s \in sighted :
      s.row \notin loose =>
        IsCandidate(s.facts, rows[s.row]) /\ Matches(s.facts, rows[s.row])

(* listing_count is the number of rows that began in the group, unless       *)
(* batches of the group overlapped, and then it may be less.                 *)
CountsAddUp ==
    \A g \in Groups :
      LET began == {s \in sighted : s.relation = "origin" /\ Posts[s.msg].group = g} IN
      /\ count[g] <= Cardinality(began)
      /\ g \notin lapped => count[g] = Cardinality(began)

(* "Merging is additive only": a worker changes nothing but a gap, and writes *)
(* over a value only where it has read a gap.                                *)
MergesAreAdditive ==
    \A w \in Workers, i \in There :
      tx[w].open /\ ~tx'[w].open =>
        \A a \in DOMAIN NoRow :
          rows'[i][a] # rows[i][a] => a \in Fillable /\ tx[w].base[i][a] = Blank[a]

(* The inventory through merges, edits and overlapping batches.              *)
InventoryHolds == []RepostsMerge /\ []CountsAddUp /\ [][MergesAreAdditive]_vars
=============================================================================
