------------------------------ MODULE MCOffice ------------------------------
(* A small instance of Office for TLC.                                       *)
EXTENDS Office

(* A list needs more room than it is asked with first, a brochure more than  *)
(* any answer may take; "big" lets nobody reserve as much as that.           *)
TwoModels == <<"big", "small">>
Reserves == [big |-> 10, small |-> 12]
Sizes == [flat |-> 1, list |-> 5, brochure |-> 13]
Handed == { <<"flat">>, <<"list", "flat", "flat">>, <<"brochure", "flat">>,
            <<"list", "list", "list", "flat">> }

(* Two tasks of one person, who has two devices.  A reminder may be moved    *)
(* from 1 to 3, and one that was due at 1 is stale at 3.                     *)
OnePersons == <<1, 1>>
Moved == {[status |-> "pending", due |-> 3], [status |-> "done", due |-> 1]}
=============================================================================
