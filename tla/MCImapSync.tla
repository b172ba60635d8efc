----------------------------- MODULE MCImapSync -----------------------------
(***************************************************************************)
(* Instances of ImapSync for TLC: an e-mail without and one with a PDF;    *)
(* the second matches every keyword.                                       *)
(***************************************************************************)
EXTENDS ImapSync, TLC

CONSTANTS plain, attached, number

MCMatching == [e \in Emails |-> IF e = attached THEN 1..Keywords ELSE {1}]
MCPdfs == [e \in Emails |-> IF e = attached THEN {number} ELSE {}]
MCAllowed == [u \in Users |-> Intervals]
MCLimit == [u \in Users |-> 2]

Symmetry == Permutations(Jobs)
=============================================================================
