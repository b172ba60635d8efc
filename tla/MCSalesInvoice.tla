--------------------------- MODULE MCSalesInvoice ---------------------------
(***************************************************************************)
(* Instances of SalesInvoice for TLC.                                      *)
(***************************************************************************)
EXTENDS SalesInvoice

MCFold == [n \in Numbers |-> "one"]
MCFoldDistinct == [n \in Numbers |-> n]
MCContents == {{"items"}}
MCLimit == [u \in Users |-> 1]
=============================================================================
