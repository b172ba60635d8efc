-------------------------- MODULE MCSubscription ----------------------------
(***************************************************************************)
(* Instances of Subscription for TLC: one offer with a trial of a day and  *)
(* one without, whose billing period is a day as well.                     *)
(***************************************************************************)
EXTENDS Subscription, TLC

CONSTANTS trial, full

MCTrialDays == [o \in Offers |-> IF o = trial THEN 1 ELSE 0]
MCPeriodDays == [o \in Offers |-> 1]

Symmetry == Permutations(Slots) \cup Permutations(Activators)
=============================================================================
