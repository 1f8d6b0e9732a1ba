---------------------------- MODULE MCApInvoice ----------------------------
(***************************************************************************)
(* Instances of ApInvoice for TLC.  Ada captures, files, codes and submits; *)
(* Ben codes, approves, pays and converts, and switches claim lines back;   *)
(* Cyn approves up to a limit, pays and reopens.  Each behaviour is of one  *)
(* of five worlds, chosen in Init: two scans of one bill; one bill and all  *)
(* its requests, one at a time; a bill that is converted, switched back and *)
(* filed again; one bill with two overlapping requests; and the queue with  *)
(* three pages.                                                             *)
(***************************************************************************)
EXTENDS ApInvoice, TLC

CONSTANTS ada, ben, cyn, s1, s2

MCDuties ==
  [u \in Users |->
     CASE u = ada -> {"record", "file", "reroute", "code", "add_line", "remove_line",
                      "edit_header", "submit", "release_hold", "pay", "approve"}
       [] u = ben -> {"code", "edit_header", "approve", "pay", "switch", "switch_line"}
       [] u = cyn -> {"approve", "pay", "unapprove", "reject", "post", "file"}]

\* Cyn's limit is 1.
MCAuthority ==
  [u \in Users |-> IF u = cyn THEN {1, None} ELSE {1, 2, None}]

Paper(image, type, sure, ref, total) ==
  [image |-> image, type |-> type, sure |-> sure, name |-> "acme", ref |-> ref,
   doc |-> IF type = "vendor_invoice" THEN "d1" ELSE None, total |-> total]

BillScan   == Paper("a", "vendor_invoice", TRUE, None, 1)
BillRescan == Paper("b", "vendor_invoice", TRUE, None, 2)

QueueReads ==
  {Paper("a", "vendor_invoice", FALSE, "po", 1), Paper("a", "vendor_invoice", TRUE, "po", 1),
   Paper("b", "delivery_order", TRUE, "po", None), Paper("c", "delivery_order", TRUE, "po", None),
   Paper("d", "vendor_invoice", TRUE, "po", 2), Paper("e", "expense_receipt", TRUE, "po", 2)}

MCReadings == QueueReads \cup {BillScan, BillRescan}

BillOps == UpdateOps \cup {"record", "file"}

MCWorlds ==
  {[sessions |-> {s1}, users |-> {ada, cyn}, reads |-> {BillScan, BillRescan}, pages |-> 2,
    ops |-> {"record", "file", "code", "edit_header", "approve", "release_hold", "pay"}],
   [sessions |-> {s1}, users |-> Users, reads |-> {BillScan}, pages |-> 1,
    ops |-> UpdateOps \cup {"record", "file", "reroute"}],
   [sessions |-> {s1}, users |-> Users, reads |-> {BillScan}, pages |-> 2,
    ops |-> {"record", "file", "reroute", "switch", "switch_line", "code", "approve", "pay"}],
   [sessions |-> {s1, s2}, users |-> Users, reads |-> {BillScan}, pages |-> 1,
    ops |-> {"record", "file", "code", "submit", "approve", "pay", "unapprove", "switch"}],
   [sessions |-> {s1}, users |-> {ada, ben}, reads |-> QueueReads, pages |-> 3,
    ops |-> {"record", "reroute", "switch_line"}]}
=============================================================================
