----------------------------- MODULE TokenSource -----------------------------
(***************************************************************************)
(* What a dispatch needs of its fencing token: the token and its issue     *)
(* time are taken in one atomic step, the commit, in the order of both.    *)
(* JobLeases draws its tokens so; FencingClock implements it by a lock, a  *)
(* sequence and a clock.                                                   *)
(***************************************************************************)
EXTENDS Naturals

VARIABLES
  last,    \* the last token taken or lost
  issued   \* the rows [fence, issuedAt] that were committed

vars == <<last, issued>>

Init == last = 0 /\ issued = {}

\* A row is committed under the next token, not timed before an earlier one.
Issue ==
  /\ last' = last + 1
  /\ \E row \in issued' :
       /\ row.fence = last + 1
       /\ \A r \in issued : r.issuedAt <= row.issuedAt
       /\ issued' = issued \cup {row}

\* A transaction that is rolled back loses its token.
Skip ==
  /\ last' = last + 1
  /\ UNCHANGED issued

Next == Issue \/ Skip

Spec == Init /\ [][Next]_vars
=============================================================================
