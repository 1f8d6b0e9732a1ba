----------------------------- MODULE MCErpSync -----------------------------
(***************************************************************************)
(* Instances of ErpSync for TLC.  The first world imports a listing and a  *)
(* second export of it, in which one line has another unit and another is  *)
(* there twice; the second has lines valued by amount and a listing with a *)
(* malformed row; in the third imports crash; in the last two requests     *)
(* overlap.  Bob's limit is 2.                                             *)
(***************************************************************************)
EXTENDS ErpSync, TLC

CONSTANTS ana, bob, vic, s1, s2

Raw(doc_entry, item, quantity, uom, doc) ==
  [doc_entry |-> doc_entry, line_num |-> None, vendor |-> "petro", amount |-> 3,
   quantity |-> quantity, uom |-> uom, item |-> item, gl |-> "6100", doc |-> doc]

\* Measured; measured on a document that e-Claim has; by spend; not mapped.
Diesel  == [Raw("d1", "diesel", 3, "L", "n1") EXCEPT !.gl = None]
Petrol  == [Raw("d6", None, 2, "L", "n6") EXCEPT !.gl = "6100"]
Claimed == Raw("d2", "diesel", 3, "L", "n2")
Travel  == [Raw("d3", "taxi", None, None, None) EXCEPT !.vendor = "grab"]
Unknown == [Raw("d4", None, None, None, None) EXCEPT !.vendor = "acme", !.gl = None]
DieselKg == [Diesel EXCEPT !.uom = "KG"]
Torn     == [Unknown EXCEPT !.amount = Bad]
Credit   == [Diesel EXCEPT !.doc_entry = "d5", !.item = None, !.amount = -3, !.quantity = -3]

MCRuleset ==
  << [dim |-> "gl", code |-> "6100", category |-> "misc", basis |-> "spend",
      factor |-> "eeio", fallback |-> None],
     [dim |-> "vendor", code |-> {"petro"}, category |-> "petrol", basis |-> "activity",
      factor |-> "petrol", fallback |-> "eeio"],
     [dim |-> "vendor", code |-> {"grab"}, category |-> "staff_travel", basis |-> "activity",
      factor |-> "km", fallback |-> "eeio"],
     [dim |-> "item", code |-> "diesel", category |-> "diesel", basis |-> "activity",
      factor |-> "diesel", fallback |-> None] >>

MCFactors ==
  [f \in {"eeio", "km", "petrol", "diesel"} |->
     CASE f = "eeio"   -> [value |-> 1, uom |-> None]
       [] f = "km"     -> [value |-> 2, uom |-> "KM"]
       [] f = "petrol" -> [value |-> 3, uom |-> "L"]
       [] f = "diesel" -> [value |-> 5, uom |-> "L"]]

MCOwnership == [c \in {"diesel", "staff_travel"} |-> IF c = "diesel" THEN "erpsync" ELSE "eclaim"]

MCLimit == [u \in Users |-> IF u = bob THEN 2 ELSE None]

MCFiles ==
  {<<Diesel, Claimed>>, <<DieselKg, Unknown, Unknown>>, <<Travel, Credit>>, <<Petrol>>, <<Unknown, Torn>>,
   <<Diesel>>, <<Unknown>>}

MCRemaps ==
  {[category |-> "misc", basis |-> "spend", quantity |-> None, amount |-> 2, value |-> 1],
   [category |-> "diesel", basis |-> "activity", quantity |-> 1, amount |-> None, value |-> 5],
   [category |-> "UNMAPPED", basis |-> "spend", quantity |-> None, amount |-> 4, value |-> 1]}

AllOps == {"import", "approve", "dismiss", "remap", "release"}

MCWorlds ==
  {[sessions |-> {s1}, users |-> Users, ops |-> AllOps, crash |-> FALSE,
    files |-> {<<Diesel, Claimed>>, <<DieselKg, Unknown, Unknown>>}],
   [sessions |-> {s1}, users |-> {ana, bob}, ops |-> AllOps, crash |-> FALSE,
    files |-> {<<Travel, Credit>>, <<Petrol>>, <<Unknown, Torn>>}],
   [sessions |-> {s1}, users |-> {ana}, ops |-> {"import", "approve", "release"}, crash |-> TRUE,
    files |-> {<<Diesel, Claimed>>, <<Diesel>>}],
   [sessions |-> {s1, s2}, users |-> {ana, bob}, ops |-> AllOps, crash |-> FALSE,
    files |-> {<<Diesel>>, <<Unknown>>}],
   [sessions |-> {s1, s2}, users |-> {ana}, ops |-> AllOps \ {"remap", "dismiss"}, crash |-> TRUE,
    files |-> {<<Diesel>>, <<Unknown>>}]}
=============================================================================
