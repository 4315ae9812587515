----------------------------- MODULE JobRegister -----------------------------
(***************************************************************************)
(* What POST /jobs promises to its clients: one atomic step per request    *)
(* that makes the key's job or tells which one was made, and with it       *)
(* nothing else.  The job of a key never changes.                          *)
(***************************************************************************)
CONSTANTS
  Keys,  \* idempotency keys
  Ids,   \* JobIDs
  NoId   \* no job, or job_id null

VARIABLES
  made,  \* the job of each key
  told   \* answers with success = true

vars == <<made, told>>

Tell(k, code, id) == told' = told \cup {[key |-> k, code |-> code, id |-> id]}

Init ==
  /\ made = [k \in Keys |-> NoId]
  /\ told = {}

\* The first job of the key; the client may never hear of it.
Make(k, id) ==
  /\ made[k] = NoId
  /\ \A l \in Keys : made[l] # id
  /\ made' = [made EXCEPT ![k] = id]
  /\ Tell(k, "created", id) \/ UNCHANGED told

\* A later request for the key is told its job, or null.
Repeat(k) ==
  /\ made[k] # NoId
  /\ Tell(k, "duplicate", made[k]) \/ Tell(k, "duplicate", NoId)
  /\ UNCHANGED made

Next == \E k \in Keys : Repeat(k) \/ \E id \in Ids : Make(k, id)

Spec == Init /\ [][Next]_vars
=============================================================================
