------------------------------- MODULE MCDesk -------------------------------
(* Small instances of the parts of Desk.                                     *)
(*                                                                           *)
(* In the lead book the owner 1, the agent 2 and the cold caller 3 work; the *)
(* agent has a lead, which the caller has been assigned to, and a number of  *)
(* an imported list.                                                         *)
EXTENDS Desk, TLC

Roles == <<"owner", "agent", "cold_caller">>

Lead(phone, lead, batch) ==
    [owner |-> 2, live |-> TRUE, stage |-> "new", lead |-> lead, batch |-> batch,
     phone |-> phone, since |-> 0, began |-> 0, forced |-> FALSE,
     told |-> "new", toldAt |-> 0, byhand |-> FALSE, moved |-> 0]

OneLeadOneNumber == <<Lead("p", TRUE, 0), Lead("r", FALSE, 1)>>
CallerAssigned == {[lead |-> 1, user |-> 3, task |-> 1]}
CallersWork == <<NewTask(1, 3, "assigned")>>

A(kind, by, lead, to, arg) ==
    [kind |-> kind, by |-> by, lead |-> lead, to |-> to, arg |-> arg,
     phones |-> <<>>, flag |-> FALSE]

New(by, to, phone, force) ==
    [A("create", by, 0, <<to>>, "") EXCEPT !.phones = <<phone>>, !.flag = force]

Flagged(ask) == [ask EXCEPT !.flag = TRUE]

Day == {
    New(2, 2, "p", TRUE), New(3, 3, "p", FALSE), New(1, 2, "s", FALSE),
    [A("import", 1, 0, <<2, 3, 2, 1>>, "") EXCEPT !.phones = <<"p", "s", "t", "u", "v">>],
    [A("import", 1, 0, <<>>, "") EXCEPT !.phones = <<"s">>],
    A("stage", 2, 1, <<>>, "closed"),
    A("owner", 1, 1, <<3>>, ""),
    [A("phone", 2, 1, <<>>, "") EXCEPT !.phones = <<"r">>],
    A("delete", 1, 1, <<>>, ""),
    A("reassign", 1, 2, <<2>>, ""),
    A("assign", 1, 1, <<>>, ""), A("assign", 1, 1, <<2, 3>>, ""),
    Flagged(A("call", 2, 2, <<>>, "connected")), A("call", 2, 2, <<>>, "wrong_number"),
    A("call", 3, 1, <<>>, "interested"),
    A("show", 2, 1, <<>>, "inquired"), A("visit", 3, 1, <<>>, ""), Flagged(A("visit", 3, 1, <<>>, "")),
    Flagged(A("said", 2, 1, <<>>, "lost")),
    A("handover", 1, 0, <<2, 3>>, ""),
    A("deactivate", 1, 0, <<2>>, ""), A("reactivate", 1, 0, <<2>>, ""),
    A("task", 3, 1, <<>>, "done"), A("task", 1, 1, <<>>, "pending"),
    A("own_task", 3, 1, <<>>, "") }

(* "a" has two ad accounts and one Page, "b" one account and two Pages.      *)
TwoLogins == {"a", "b"}
Owned == [a |-> <<"a1", "a2">>, b |-> <<"b1">>]
Administered == [a |-> {"pa"}, b |-> {"pb", "pc"}]

(* A flat with reposts that say less, or more, and one that is another's.    *)
Flat(loc, building, bhk, price, area, phone) ==
    [type |-> "sale", loc |-> loc, building |-> building, bhk |-> bhk,
     price |-> price, area |-> area, phone |-> phone]

Amara == Flat("thane west", "amara", 2, 100, 0, "b1")
AmaraTower == Flat("thane", "amara tower", 0, 110, 1000, "b2")
Unnamed == Flat("thane west", "", 2, 0, 1100, "b1")
Bay == Flat("thane west", "bay", 3, 100, 900, "b2")

Post(flats) == [group |-> "g", flats |-> flats]

Words == {"", "thane", "thane west", "amara", "amara tower", "bay"}
Ratio(a, b) == IF a = b \/ {a, b} \in {{"thane", "thane west"}, {"amara", "amara tower"}}
               THEN 100 ELSE 40

Deed(kind, sets) == [kind |-> kind, sets |-> sets]

Reposts == <<Post(<<Amara>>), Post(<<AmaraTower, Bay>>), Post(<<Unnamed, Amara>>)>>
Ratios == [p \in Words \X Words |-> Ratio(p[1], p[2])]
Within == {<<n, n>> : n \in Words} \cup {<<"thane west", "thane">>}
Wishes == { Deed("create", [type |-> "sale", loc |-> "thane west", building |-> "amara"]),
            Deed("edit", [bhk |-> 3]), Deed("edit", [building |-> "bay"]),
            Deed("edit", [review |-> "confirmed", price |-> 150]),
            Deed("review", [review |-> "rejected", live |-> FALSE]),
            Deed("delete", [live |-> FALSE]) }

(* Either process may run the loop or drain the queue once.                  *)
EitherKind == [p \in Processes |-> {"forever", "once"}]

(* Two handlers, two workers and two processes are alike.  As no behaviour   *)
(* has more than one of these at work they may as well change places all at  *)
(* once: that finds the same states alike.                                   *)
Swap(pair) == CHOOSE p \in Permutations(pair) : \A x \in pair : p[x] # x

Swaps == Swap(Requests) @@ Swap(Workers) @@ Swap(Processes)

Alike == {[x \in DOMAIN Swaps |-> IF swapped THEN Swaps[x] ELSE x] : swapped \in BOOLEAN}
=============================================================================
