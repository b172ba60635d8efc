----------------------------- MODULE MCBackOffice -----------------------------
(***************************************************************************)
(* BackOffice for TLC: two requests at a time.  a and b stand for two      *)
(* addresses, members, accountants, details, amounts, ...; what holds when *)
(* the two are swapped in one component holds when they are in all.        *)
(***************************************************************************)
EXTENDS BackOffice, TLC

CONSTANTS h1, h2, a, b, c, d

Symmetry == Permutations(Handlers) \cup Permutations({a, b})
=============================================================================
