---------------------------- MODULE TablesPromise ----------------------------
(***************************************************************************)
(* What ensure_tables() of src/table_store.hpp promises its callers, with  *)
(* no atomics, no buffers and no waiting: the Unicode tables of a process  *)
(* are decided at most once, by one call, and from then on for good.       *)
(*                                                                         *)
(*   - "true" is answered only once the tables are ready, and a thread     *)
(*     that was told "true" is never told "false" afterwards;              *)
(*   - "false" may be answered to a thread not yet told "true" even when   *)
(*     the tables are ready (it timed out or had not seen the news), so it *)
(*     means "not now", never "wrong tables";                              *)
(*   - the tables become ready only if the blob is intact, and are given   *)
(*     up for the process only if it is not.                               *)
(***************************************************************************)
CONSTANT Threads

VARIABLES
  phase,    \* "undecided", "ready" or "failed"
  intact,   \* does the embedded blob inflate and match its CRC?
  answer    \* each thread's latest answer: "none", "true" or "false"

vars == <<phase, intact, answer>>

Init ==
  /\ phase = "undecided"
  /\ intact \in BOOLEAN
  /\ answer = [t \in Threads |-> "none"]

\* One call expands the tables, or finds that they can never be expanded.
Decide(t) ==
  /\ phase = "undecided"
  /\ answer[t] # "true"
  /\ phase' = IF intact THEN "ready" ELSE "failed"
  /\ answer' = [answer EXCEPT ![t] = IF intact THEN "true" ELSE "false"]
  /\ UNCHANGED intact

Grant(t) ==
  /\ phase = "ready"
  /\ answer' = [answer EXCEPT ![t] = "true"]
  /\ UNCHANGED <<phase, intact>>

Refuse(t) ==
  /\ answer[t] # "true"
  /\ answer' = [answer EXCEPT ![t] = "false"]
  /\ UNCHANGED <<phase, intact>>

Next == \E t \in Threads : Decide(t) \/ Grant(t) \/ Refuse(t)

Spec == Init /\ [][Next]_vars
=============================================================================
