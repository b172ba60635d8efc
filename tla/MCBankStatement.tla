---------------------------- MODULE MCBankStatement ----------------------------
(***************************************************************************)
(* BankStatement by itself, for TLC.                                       *)
(***************************************************************************)
EXTENDS BankStatement

Spec == StatementInit /\ [][StatementNext]_lines
=============================================================================
