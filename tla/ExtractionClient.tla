-------------------------- MODULE ExtractionClient --------------------------
(* The client of the language model (extraction.py): a batch is asked of one *)
(* model after the other until one is not rate limited; a request that is    *)
(* too large is split, an answer that is cut off is asked for again with     *)
(* more room, and split only where there is no more room to give.            *)
(* ExtractionQueue knows of this only how a call ends.                       *)
EXTENDS Naturals, Sequences, FiniteSetsExt

CONSTANTS
    Models,          \* self._models: in the order in which they are tried
    Strict,          \* those that accept a strict json_schema
    Messages, Need,  \* what a message needs of output, in units of room
    Batches,         \* the batches the worker may hand over
    OutputPerItem, Envelope, Ceiling, PerItemCap,
    Allowance,       \* what the account lets a request to a model reserve
    Waits,           \* what a refusal may ask to wait, and the clamp on it
    Shortest, Longest,
    MaxTime          \* bound: the clock

VARIABLES
    now,
    per_item,   \* self._per_item, kept for the life of the process
    modes,      \* self._schema_modes
    ready,      \* self._cooldowns: when a model is worth asking again
    call,       \* extract, and what of the batch is still to be asked
    outcome,    \* how the last call ended
    unlucky     \* history: refusals that met a call after a downgrade

vars == <<now, per_item, modes, ready, call, outcome, unlucky>>

ASSUME SizesAssumption ==
    /\ Models \in Seq(Range(Models)) \ {<<>>} /\ Strict \subseteq Range(Models)
    /\ {OutputPerItem, Envelope, Ceiling, PerItemCap} \subseteq Nat \ {0}
    /\ Allowance \in [Range(Models) -> Nat] /\ OutputPerItem <= PerItemCap
    /\ \A m \in Range(Models) : PerItemCap + Envelope <= Allowance[m]
    /\ Waits \subseteq Nat /\ Shortest \in Nat \ {0} /\ Longest \in Nat
    /\ Need \in [Messages -> Nat]
    /\ Batches \subseteq Seq(Messages) \ {<<>>}

(* A run of positions of the batch, and the room it is asked with.           *)
Piece == [from : Nat, to : Nat, budget : Nat]

Idle == [stage |-> "idle", batch |-> <<>>, opening |-> 0, k |-> 0,
         todo |-> <<>>, done |-> <<>>, cooling |-> {}, second |-> FALSE]
None == [kind |-> "none", batch |-> <<>>, done |-> <<>>, wait |-> 0, why |-> "none"]

TypeOK ==
    /\ now \in Nat /\ per_item \in OutputPerItem .. PerItemCap
    /\ modes \in [Range(Models) -> {"auto", "json_object"}]
    /\ ready \in [Range(Models) -> Nat]
    /\ call.stage \in {"idle", "next", "asking"} /\ call.batch \in Batches \cup {<<>>}
    /\ call.k \in 0 .. Len(Models) + 1 /\ call.opening \in 0 .. Ceiling
    /\ \A i \in DOMAIN call.todo : /\ call.todo[i] \in Piece
                                   /\ call.todo[i].budget <= Ceiling
    /\ call.cooling \subseteq Nat /\ call.second \in BOOLEAN
    /\ outcome.kind \in {"none", "answers", "limited", "failed"}
    /\ unlucky \in Nat

Init ==
    /\ now = 1 /\ per_item = OutputPerItem /\ unlucky = 0
    /\ modes = [m \in Range(Models) |-> "auto"]
    /\ ready = [m \in Range(Models) |-> 0]
    /\ call = Idle /\ outcome = None

Least(a, b) == IF a < b THEN a ELSE b
Most(a, b) == IF a > b THEN a ELSE b

Size(p) == p.to - p.from + 1

(* _budget_for                                                               *)
BudgetFor(n) == Least(Ceiling, per_item * n + Envelope)

-----------------------------------------------------------------------------
(* extract: the models in turn                                               *)

Extract ==
    /\ call.stage = "idle"
    /\ \E b \in Batches :
         call' = [Idle EXCEPT !.stage = "next", !.batch = b, !.k = 1,
                              !.opening = BudgetFor(Len(b))]
    /\ outcome' = None
    /\ UNCHANGED <<now, per_item, modes, ready, unlucky>>

Choosing == call.stage = "next" /\ call.k <= Len(Models)
Model == Models[call.k]

(* A model that has just refused is not asked.                               *)
SkipsModel ==
    /\ Choosing /\ ready[Model] > now
    /\ call' = [call EXCEPT !.k = @ + 1, !.cooling = @ \cup {ready[Model] - now}]
    /\ UNCHANGED <<now, per_item, modes, ready, outcome, unlucky>>

(* The whole batch, with the room that was reckoned at the start.            *)
AsksModel ==
    /\ Choosing /\ ready[Model] <= now
    /\ call' = [call EXCEPT
         !.stage = "asking", !.done = <<>>, !.second = FALSE,
         !.todo = <<[from |-> 1, to |-> Len(call.batch), budget |-> call.opening]>>]
    /\ UNCHANGED <<now, per_item, modes, ready, outcome, unlucky>>

Wait(cooling) == Min(cooling)

(* Every model is cooling: RateLimited, and the batch is not to blame.       *)
GivesUp ==
    /\ call.stage = "next" /\ call.k > Len(Models)
    /\ outcome' = [None EXCEPT !.kind = "limited", !.batch = call.batch,
                               !.wait = now + Wait(call.cooling)]
    /\ call' = Idle
    /\ UNCHANGED <<now, per_item, modes, ready, unlucky>>

-----------------------------------------------------------------------------
(* _extract: one request, and what comes of it                               *)

Asking == call.stage = "asking"
Asked == Head(call.todo)
Needed == MapThenSumSet(LAMBDA i : Need[call.batch[i]], Asked.from .. Asked.to)

(* _is_too_large: what a request reserves counts, not what comes back.       *)
IsTooLarge == Asked.budget > Allowance[Model]

IsSchemaRejection == modes[Model] = "auto" /\ Model \notin Strict

(* A 400 under a strict schema, or finish_reason "length".                   *)
IsOutputTruncated == Needed > Asked.budget

RetryAfter == {Most(Shortest, Least(w, Longest)) : w \in Waits}

(* The answer is for what was asked next; the rest of the recursion follows. *)
Then(todo) == [call EXCEPT !.todo = todo \o Tail(@), !.second = FALSE]

Fails(why) ==
    /\ outcome' = [None EXCEPT !.kind = "failed", !.batch = call.batch, !.why = why]
    /\ call' = Idle

(* _split: each half is asked with the same room.                            *)
Halves(p, budget) ==
    LET mid == p.from + (Size(p) \div 2) - 1 IN
    <<[from |-> p.from, to |-> mid, budget |-> budget],
      [from |-> mid + 1, to |-> p.to, budget |-> budget]>>

(* The model's own bucket is empty: the next model is asked for the batch,   *)
(* and what the halves have answered is dropped.                             *)
Limited ==
    /\ Asking /\ ~call.second
    /\ \E w \in RetryAfter :
         /\ ready' = [ready EXCEPT ![Model] = now + w]
         /\ call' = [call EXCEPT !.stage = "next", !.k = @ + 1, !.todo = <<>>,
                                 !.done = <<>>, !.cooling = @ \cup {w}]
    /\ UNCHANGED <<now, per_item, modes, outcome, unlucky>>

\* Mutant: whatever is too large is split.
ManyAlways(p) == TRUE

Many(p) == Size(p) > 1

(* A request that reserves too much: fewer messages reserve less.            *)
TooLarge ==
    /\ Asking /\ ~call.second /\ IsTooLarge
    /\ IF Many(Asked)
       THEN /\ call' = Then(Halves(Asked, BudgetFor(Size(Asked) \div 2)))
            /\ UNCHANGED outcome
       ELSE Fails("size")
    /\ UNCHANGED <<now, per_item, modes, ready, unlucky>>

(* _grow_or_split: more room for the same messages, and for later batches;   *)
(* at the ceiling, fewer messages.                                           *)
CutOff ==
    LET raised == Least(Ceiling, 2 * Asked.budget) IN
    /\ Asking /\ ~IsTooLarge /\ ~IsSchemaRejection /\ IsOutputTruncated
    /\ IF Asked.budget < Ceiling
       THEN /\ per_item' = Least(PerItemCap, Most(per_item, raised \div Size(Asked)))
            /\ call' = Then(<<[Asked EXCEPT !.budget = raised]>>)
            /\ UNCHANGED outcome
       ELSE /\ IF Many(Asked)
               THEN call' = Then(Halves(Asked, Asked.budget)) /\ UNCHANGED outcome
               ELSE Fails("size")
            /\ UNCHANGED per_item
    /\ UNCHANGED <<now, modes, ready, unlucky>>

(* A model that takes no json_schema says so once, and is asked again.       *)
Downgrades ==
    /\ Asking /\ ~call.second /\ IsSchemaRejection
    /\ modes' = [modes EXCEPT ![Model] = "json_object"]
    /\ call' = [call EXCEPT !.second = TRUE]
    /\ UNCHANGED <<now, per_item, ready, outcome, unlucky>>

(* Whatever the second request is refused for is raised as it is.            *)
RefusedAgain ==
    /\ Asking /\ call.second
    /\ Fails("downgrade") /\ unlucky' = unlucky + 1
    /\ UNCHANGED <<now, per_item, modes, ready>>

(* An empty or unreadable answer, or no answer at all.                       *)
Breaks ==
    /\ Asking /\ Fails("error")
    /\ UNCHANGED <<now, per_item, modes, ready, unlucky>>

(* One verdict for each message that was asked for (_align), in order.       *)
Answered ==
    LET done == call.done \o [i \in 1 .. Size(Asked) |-> Asked.from + i - 1]  IN
    /\ Asking /\ ~IsTooLarge /\ ~IsSchemaRejection /\ ~IsOutputTruncated
    /\ IF Len(call.todo) > 1
       THEN call' = [Then(<<>>) EXCEPT !.done = done] /\ UNCHANGED outcome
       ELSE /\ outcome' = [None EXCEPT !.kind = "answers", !.batch = call.batch,
                                       !.done = done]
            /\ call' = Idle
    /\ UNCHANGED <<now, per_item, modes, ready, unlucky>>

Tick == now < MaxTime /\ now' = now + 1
        /\ UNCHANGED <<per_item, modes, ready, call, outcome, unlucky>>

Works ==
    \/ SkipsModel \/ AsksModel \/ GivesUp
    \/ Limited \/ TooLarge \/ CutOff \/ Downgrades \/ RefusedAgain \/ Breaks \/ Answered

Next == Extract \/ Works \/ Tick

Spec == Init /\ [][Next]_vars

-----------------------------------------------------------------------------
(* Properties                                                                *)

(* "Exactly one entry per input message, in the same order": however a batch *)
(* was split, asked again and moved from model to model, what is answered    *)
(* and what is still asked for are the batch, each message once, in order.   *)
NothingDropped ==
    /\ call.stage = "asking" =>
         /\ call.done = [i \in 1 .. Asked.from - 1 |-> i]
         /\ \A i \in DOMAIN call.todo :
              call.todo[i].to = IF i = Len(call.todo) THEN Len(call.batch)
                                ELSE call.todo[i + 1].from - 1
    /\ outcome.kind = "answers" => outcome.done = [i \in 1 .. Len(outcome.batch) |-> i]

(* The messages are charged an attempt only where it is theirs: a batch is   *)
(* failed for its size only if it holds a message that does not fit, or does *)
(* not fit twice; a refusal of the model is charged at most once for each    *)
(* model, in the call that found out that it takes no schema.                *)
ChargedFairly ==
    /\ outcome.kind = "failed" /\ outcome.why = "size" =>
         \E i \in DOMAIN outcome.batch :
             \/ Need[outcome.batch[i]] > Ceiling
             \/ \E m \in Range(Models) : 2 * Need[outcome.batch[i]] > Allowance[m]
    /\ unlucky <= Cardinality({m \in Range(Models) : modes[m] = "json_object"})

(* RateLimited asks for a wait after which some model is worth asking.       *)
WaitIsEnough ==
    outcome.kind = "limited" => \E m \in Range(Models) : ready[m] <= outcome.wait

(* The order in which requests come to an end: fewer messages, or as many    *)
(* with more room.                                                           *)
Less(p, q) ==
    \/ Size(p) < Size(q)
    \/ Size(p) = Size(q) /\ q.budget < p.budget /\ p.budget <= Ceiling

(* Growing and splitting come to an end: what is asked instead of a request  *)
(* is less than it, only the downgrade asks the same again, and no model is  *)
(* asked twice.                                                              *)
AsksForLess ==
    LET put == 1 + Len(call'.todo) - Len(call.todo) IN
    /\ call.stage = "asking" /\ call'.stage = "asking" =>
         \/ ~call.second /\ call' = [call EXCEPT !.second = TRUE]
         \/ /\ put >= 0
            /\ SubSeq(call'.todo, put + 1, Len(call'.todo)) = Tail(call.todo)
            /\ \A i \in 1 .. put : Less(call'.todo[i], Asked)
    /\ call.stage # "idle" /\ call'.stage = "next" => call.k < call'.k

(* Calls of the model end, and tell the worker the truth.                    *)
CallsEndWell ==
    []NothingDropped /\ []ChargedFairly /\ []WaitIsEnough /\ [][AsksForLess]_call
=============================================================================
