------------------------------- MODULE Backend -------------------------------
(***************************************************************************)
(* What the request handlers of the back office have in common: a handler  *)
(* is in flight between two awaited calls, others run meanwhile, a call    *)
(* may fail, and a restart loses every handler but neither the database    *)
(* nor Redis.                                                              *)
(*                                                                         *)
(* As in Subscription, an action is one awaited call together with the     *)
(* code up to the next one.                                                *)
(***************************************************************************)
EXTENDS Naturals, FiniteSets

CONSTANTS
    None,           \* SQL NULL, an absent row, a missing key
    Gone,           \* a row that was deleted: its id does not come back
    Handlers,       \* how many requests run at a time
    MaxFaults       \* bound on failed calls and restarts

ASSUME BackendAssumption ==
    /\ None # Gone
    /\ IsFiniteSet(Handlers) /\ Handlers # {}
    /\ MaxFaults \in Nat

VARIABLES
    req,            \* handlers in flight; pc names the awaited call made next
    faults          \* failures so far

backend == <<req, faults>>

Idle == [pc |-> "idle"]

BackendInit ==
    /\ req = [h \in Handlers |-> Idle]
    /\ faults = 0

Free(h) == req[h] = Idle
At(h, pc) == req[h].pc = pc

(* A handler arrives with the fields of r, goes on to its next call, and   *)
(* answers.                                                                *)
Begin(h, r) == req' = [req EXCEPT ![h] = r] /\ UNCHANGED faults
Step(h, pc) == req' = [req EXCEPT ![h].pc = pc] /\ UNCHANGED faults
Done(h) == req' = [req EXCEPT ![h] = Idle] /\ UNCHANGED faults

(* A call of h throws; the handler answers with the error.                 *)
Fail(h) ==
    /\ faults < MaxFaults
    /\ faults' = faults + 1
    /\ req' = [req EXCEPT ![h] = Idle]

Restart ==
    /\ faults < MaxFaults
    /\ faults' = faults + 1
    /\ req' = [h \in Handlers |-> Idle]

(* Ids are given in the order of insertion.                                *)
IsNext(i, table) == table[i] = None /\ \A j \in 1..(i - 1) : table[j] # None

Live(table) == {i \in DOMAIN table : table[i] \notin {None, Gone}}

-----------------------------------------------------------------------------
(* Redis (config/redis-service): a key that is set with EX goes away by    *)
(* itself; left is the life time that remains, in units of five minutes.   *)
(* Calls wait for the server (maxRetriesPerRequest is null) and never fail *)
(* while the process lives.                                                *)

Aged(keys) ==
    [k \in DOMAIN keys |->
        IF keys[k] = None \/ keys[k].left = 1 THEN None
        ELSE [keys[k] EXCEPT !.left = @ - 1]]

(* How many wrong guesses one code answers, at most, when n clients guess  *)
(* at a time and it takes left of them.  A code is written back as it was  *)
(* read, with one attempt less; so whenever a client has made a guess with *)
(* left attempts, the n - 1 others may still hold the code as it was, and  *)
(* what they can make of it comes first.                                   *)
Answers[n \in Nat] == [left \in Nat |->
    IF n = 0 \/ left = 0 THEN 0 ELSE Answers[n - 1][left] + 1 + Answers[n][left - 1]]

(* The same for right guesses: a late wrong guess brings a used code back  *)
(* with one attempt less, and guesses that overlap are all right.          *)
Uses[n \in Nat] == [left \in Nat |->
    IF n = 0 \/ left = 0 THEN 0
    ELSE Uses[n - 1][left] + (IF left = 1 THEN 1 ELSE 0) + Uses[n][left - 1]]
=============================================================================
