---------------------------- MODULE Entitlement -----------------------------
(***************************************************************************)
(* What the subscription tables promise about a user's access to the       *)
(* service: it is granted at most once, with an end date in the future;    *)
(* the end date never moves; and it lapses only after that date.           *)
(***************************************************************************)
EXTENDS Naturals

CONSTANT Users

VARIABLES
    now,    \* the clock
    access  \* each user's access and its end date

entVars == <<now, access>>

EntTypeOK ==
    /\ now \in Nat
    /\ access \in [Users -> [state : {"none", "active", "lapsed"}, until : Nat]]

Init ==
    /\ now = 0
    /\ access = [u \in Users |-> [state |-> "none", until |-> 0]]

Grant(u) ==
    /\ access[u].state = "none"
    /\ access'[u].until \in Nat
    /\ access'[u].until > now
    /\ access' = [access EXCEPT ![u] = [state |-> "active", until |-> access'[u].until]]
    /\ UNCHANGED now

Lapse(u) ==
    /\ access[u].state = "active"
    /\ access[u].until <= now
    /\ access' = [access EXCEPT ![u].state = "lapsed"]
    /\ UNCHANGED now

Pass ==
    /\ now' = now + 1
    /\ UNCHANGED access

Next ==
    \/ \E u \in Users : Lapse(u) \/ Grant(u)
    \/ Pass

Spec == Init /\ [][Next]_entVars

(* Access granted is access until its end date: the end date of a grant    *)
(* never changes and access never comes back once it has lapsed.           *)
GrantsAreFinal ==
    [][\A u \in Users :
         /\ access[u].state # "none" => access'[u].until = access[u].until
         /\ access[u].state = "lapsed" => access'[u].state = "lapsed"]_entVars
=============================================================================
