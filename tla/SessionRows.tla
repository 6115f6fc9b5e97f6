---------------------------- MODULE SessionRows ----------------------------
(***************************************************************************)
(* The rows of the table "sessions" and what security.py does to one: the  *)
(* row behind a token, whether a token is accepted, and what a renewal     *)
(* makes of the old row and of the new one.  Time is counted in ticks of   *)
(* RENEWAL_GRACE_SECONDS; the three periods keep their order, not their    *)
(* ratio.                                                                  *)
(***************************************************************************)
EXTENDS Naturals, Sequences

CONSTANTS
    Grace,      \* how long a superseded token keeps working
    Idle,       \* how long a token lasts unless it is renewed
    Cap         \* how long renewals may continue one sign-in

ASSUME PeriodsAssumption ==
    /\ Grace \in Nat \ {0} /\ Idle \in Nat \ {0} /\ Cap \in Nat \ {0}
    /\ Grace < Idle

(* A row.  "renewed" is last_used_at, 0 when the token never was renewed.  *)
Row(user) == [user : user, issued : Nat, expires : Nat, chain : Nat,
              renewed : Nat, revoked : BOOLEAN]

(* What issue_token inserts; a sign-in starts a chain of its own.          *)
NewRow(user, chain, now) ==
    [user |-> user, issued |-> now, expires |-> now + Idle, chain |-> chain,
     renewed |-> 0, revoked |-> FALSE]

(* The token's own exp, which no later change of the row can move.         *)
Exp(row) == row.issued + Idle

(* The checks of current_principal on the session row; the account's are   *)
(* the caller's.                                                           *)
IsLive(row, now) == ~row.revoked /\ row.expires > now

(* The two refusals of renew_session, after the token has been decoded.    *)
MayRenew(row, now) == 
    /\ Exp(row) > now 
    /\ ~row.revoked 
    /\ now < row.chain + Cap

\* Mutant: the row itself is stretched.
SupersededStretched(row, now) == [row EXCEPT !.expires = now + Idle, !.renewed = now]

\* Mutant: each renewal grants a grace period of its own.
SupersededAgain(row, now) == [row EXCEPT !.expires = now + Grace, !.renewed = now]

(* The old row: it dies a minute from now, or when it would have died.     *)
Superseded(row, now) ==
    [row EXCEPT !.expires = IF @ > now + Grace THEN now + Grace ELSE @,
                !.renewed = now]

(* The successor inherits the moment the password was typed.               *)
Successor(row, now) == NewRow(row.user, row.chain, now)

Revoked(row) == [row EXCEPT !.revoked = TRUE]
=============================================================================
